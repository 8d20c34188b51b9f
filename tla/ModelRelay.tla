------------------------------ MODULE ModelRelay ------------------------------
(***************************************************************************)
(* One question to the language model and how its answer gets to the       *)
(* agent: the provider's chunks are read by the plugin itself, or by the   *)
(* server, which passes the deltas on as events of a stream of its own and *)
(* may let the demo provider answer when the provider fails.  What the     *)
(* user sees are the deltas; what the agent gets is the reply `generate'   *)
(* returns.                                                                *)
(*                                                                         *)
(* A piece of a reply is the pair of its source and its number there.      *)
(***************************************************************************)
EXTENDS Integers, Sequences, SequencesExt, FiniteSets

CONSTANTS
  MaxChunks,  \* bound: chunks a source sends
  MaxToolCalls, \* bound: tool calls of a reply
  RetryCount  \* llm.retry_count of the server

ASSUME RelayAssumption == MaxChunks \in Nat /\ MaxToolCalls \in Nat \ {0} /\ RetryCount \in Nat

CallNumbers == 1..MaxToolCalls
\* The kinds of chunks: text, reasoning, or a piece of a tool call by its index.
Text == -1
Thought == 0
Kinds == {Text, Thought} \cup CallNumbers

VARIABLES
  direct,    \* the plugin's llm mode is `custom': no server in between
  streaming, \* the question asks for a stream
  fallback,  \* llm.enable_fallback
  source,    \* who is being read
  said,      \* the chunks of each source, by kind
  finished,  \* sources that said finish_reason
  heard,     \* what the reader has put together
  attempts,  \* requests sent, when there is no stream
  wire,      \* events between server and plugin
  upstream,  \* the server's side: it asks, or has ended its stream
  shown,     \* outputText of generate: the deltas, which are also shown
  final,     \* finalEvent
  asker,     \* generate itself
  reply,     \* what it returned
  early      \* history: a stream ended, without an error, before its end

reading == <<source, said, finished, heard, attempts>>
setting == <<direct, streaming, fallback>>
receiving == <<shown, final, asker, reply, early>>
relayVars == <<setting, reading, wire, upstream, receiving>>

Nothing == [text |-> <<>>, thought |-> <<>>, calls |-> <<>>]
NoEvent == [type |-> "none"]
NoCall == [id |-> 0, arguments |-> <<>>]

RelayInit ==
  /\ direct \in BOOLEAN /\ streaming \in BOOLEAN /\ fallback \in BOOLEAN
  /\ source = "provider" /\ finished = {} /\ heard = Nothing /\ attempts = 1
  /\ said = [s \in {"provider", "demo"} |-> <<>>]
  /\ wire = <<>> /\ upstream = IF direct THEN "none" ELSE "asks"
  /\ shown = <<>> /\ final = NoEvent /\ asker = "waits" /\ reply = Nothing /\ early = FALSE

----------------------------------------------------------------------------
\* mergeToolCalls, the same on both sides: a piece of the arguments goes to the
\* call of its index, calls that are still missing are padded.  The first
\* piece of a call brings its id.
MergeAppending(calls, i, piece, id) == \* (seeded bug: a piece goes to the last call)
  IF Len(calls) < i THEN Append(calls, [id |-> id, arguments |-> <<piece>>])
  ELSE [calls EXCEPT ![Len(calls)].arguments = Append(@, piece)]
MergeToolCalls(calls, i, piece, id) ==
  LET padded == [k \in 1..(IF i > Len(calls) THEN i ELSE Len(calls)) |->
                   IF k <= Len(calls) THEN calls[k] ELSE NoCall]
  IN [padded EXCEPT ![i] = [id |-> IF id = 0 THEN @.id ELSE id, arguments |-> Append(@.arguments, piece)]]

\* What the reader has after one more chunk.
Hear(kind, piece) ==
  CASE kind = Text -> [heard EXCEPT !.text = Append(@, piece)]
    [] kind = Thought -> [heard EXCEPT !.thought = Append(@, piece)]
    [] OTHER -> [heard EXCEPT !.calls =
                   MergeToolCalls(@, kind, piece, IF kind \in Range(said[source]) THEN 0 ELSE kind)]

OutputText(h) == IF h.text # <<>> THEN h.text ELSE h.thought
DoneEvent == [type |-> "done", text |-> OutputText(heard), calls |-> heard.calls]

\* The events the reader hands on: to the plugin's handler at once, or to the
\* wire.  A reasoning delta is shown elsewhere.
Returned(text, calls) ==
  /\ asker' = "replied"
  /\ reply' = [Nothing EXCEPT !.text = text, !.calls = calls]
Keep(piece) == shown' = Append(shown, piece)

\* The reading side is still interested.
Reads == upstream = "asks" \/ (direct /\ asker = "waits")

----------------------------------------------------------------------------
ChunkOfAll(kind) == \* (seeded bug: reasoning is passed on as text)
  /\ streaming /\ Reads /\ source \notin finished
  /\ Len(said[source]) < MaxChunks
  /\ source = "demo" => kind = Text
  /\ LET piece == <<source, Len(said[source]) + 1>>
     IN /\ said' = [said EXCEPT ![source] = Append(@, kind)]
        /\ heard' = Hear(kind, piece)
        /\ IF kind \in CallNumbers THEN UNCHANGED <<shown, wire>>
           ELSE IF direct THEN Keep(piece) /\ UNCHANGED wire
           ELSE wire' = Append(wire, [type |-> "delta", piece |-> piece]) /\ UNCHANGED shown
  /\ UNCHANGED <<setting, source, finished, attempts, upstream, final, asker, reply, early>>
\* A source sends a chunk of a stream.
Chunk(kind) ==
  /\ streaming /\ Reads /\ source \notin finished
  /\ Len(said[source]) < MaxChunks
  /\ source = "demo" => kind = Text
  /\ LET piece == <<source, Len(said[source]) + 1>>
     IN /\ said' = [said EXCEPT ![source] = Append(@, kind)]
        /\ heard' = Hear(kind, piece)
        /\ IF kind # Text THEN UNCHANGED <<shown, wire>>
           ELSE IF direct THEN Keep(piece) /\ UNCHANGED wire
           ELSE wire' = Append(wire, [type |-> "delta", piece |-> piece]) /\ UNCHANGED shown
  /\ UNCHANGED <<setting, source, finished, attempts, upstream, final, asker, reply, early>>

\* finish_reason: the plugin takes the reply as it is now; the server does not
\* look at it and waits for the end of the stream.
Finish ==
  /\ streaming /\ Reads /\ source \notin finished
  /\ source = "demo" => said["demo"] # <<>>
  /\ finished' = finished \cup {source}
  /\ IF direct THEN Returned(OutputText(heard), heard.calls) ELSE UNCHANGED <<asker, reply>>
  /\ UNCHANGED <<setting, source, said, heard, attempts, wire, upstream, shown, final, early>>

\* The handler charges and ends its stream with `done', or with `error'.
Answer ==
  /\ upstream' = "over"
  /\ \E event \in {DoneEvent, [type |-> "error"]} : wire' = Append(wire, event)

\* The stream ends with [DONE] or just ends.  The plugin answers [DONE] with
\* the text alone, an end without it with all it has.
EndOfStream ==
  /\ streaming /\ Reads /\ (source = "demo" => source \in finished)
  /\ early' = (early \/ source \notin finished)
  /\ IF direct
       THEN /\ \/ Returned(heard.text, <<>>)
               \/ Returned(OutputText(heard), heard.calls)
            /\ UNCHANGED <<wire, upstream>>
       ELSE Answer /\ UNCHANGED <<asker, reply>>
  /\ UNCHANGED <<setting, reading, shown, final>>

\* The request is refused, or reading the stream fails.  What the primary sent
\* has been passed on when the demo provider begins.
SourceFails ==
  /\ Reads /\ source = "provider"
  /\ IF direct
       THEN asker' = "threw" /\ UNCHANGED <<source, heard, wire, upstream>>
       ELSE /\ UNCHANGED asker
            /\ IF fallback
                 THEN source' = "demo" /\ heard' = Nothing /\ UNCHANGED <<wire, upstream>>
                 ELSE /\ upstream' = "over" /\ wire' = Append(wire, [type |-> "error"])
                      /\ UNCHANGED <<source, heard>>
  /\ UNCHANGED <<setting, said, finished, attempts, shown, final, reply, early>>

\* Without a stream the server tries again, the plugin does not ...
Retry ==
  /\ ~streaming /\ ~direct /\ upstream = "asks" /\ source = "provider"
  /\ attempts <= RetryCount /\ attempts' = attempts + 1
  /\ UNCHANGED <<setting, source, said, finished, heard, wire, upstream, receiving>>
\* ... and the reply comes in one piece.
Whole(kinds) ==
  /\ ~streaming /\ Reads
  /\ source = "demo" => kinds = <<Text>>
  /\ said' = [said EXCEPT ![source] = kinds] /\ finished' = finished \cup {source}
  /\ LET at(kind) == {k \in DOMAIN kinds : kinds[k] = kind}
         pieces(kind) == IF at(kind) = {} THEN <<>> ELSE <<<<source, CHOOSE k \in at(kind) : TRUE>>>>
         calls == IF 1 \in Range(kinds) THEN <<[id |-> 1, arguments |-> pieces(1)]>> ELSE <<>>
         whole == [text |-> pieces(Text), thought |-> pieces(Thought), calls |-> calls]
     IN /\ heard' = whole
        /\ IF direct
             THEN Returned(OutputText(whole), calls) /\ UNCHANGED <<wire, upstream>>
             ELSE /\ upstream' = "over" /\ UNCHANGED <<asker, reply>>
                  /\ \E type \in {"done", "error"} :
                       wire' = <<[type |-> type, text |-> OutputText(whole), calls |-> calls]>>
  /\ UNCHANGED <<setting, source, attempts, shown, final, early>>

----------------------------------------------------------------------------
\* The plugin reads an event of the server's stream, and the last one.
ReadEvent ==
  /\ ~direct /\ asker = "waits" /\ wire # <<>> /\ wire' = Tail(wire)
  /\ IF Head(wire).type = "delta"
       THEN Keep(Head(wire).piece) /\ UNCHANGED final
       ELSE final' = Head(wire) /\ UNCHANGED shown
  /\ UNCHANGED <<setting, reading, upstream, asker, reply, early>>
\* The stream is over: `done' decides, or without it what was shown.  The tool
\* calls of a stream's `done' are not taken over; those of a whole reply are.
Conclude ==
  /\ ~direct /\ asker = "waits" /\ upstream = "over" /\ wire = <<>>
  /\ IF final.type = "error" THEN asker' = "threw" /\ UNCHANGED reply
     ELSE Returned(final.text, IF streaming THEN <<>> ELSE final.calls)
  /\ UNCHANGED <<setting, reading, wire, upstream, shown, final, early>>
\* The connection to the server breaks, or ends in order although `done' is
\* still to come (a panic in the handler ends it like that).
Disconnected ==
  /\ ~direct /\ asker = "waits"
  /\ \/ asker' = "threw" /\ UNCHANGED <<reply, early>>
     \/ streaming /\ final = NoEvent /\ Returned(shown, <<>>) /\ early' = TRUE
  /\ UNCHANGED <<setting, reading, wire, upstream, shown, final>>
\* The turn is stopped.  The server does not notice and asks on.
AbortRead ==
  /\ asker = "waits" /\ asker' = "aborted"
  /\ UNCHANGED <<setting, reading, wire, upstream, shown, final, reply, early>>

RelayNext ==
  \/ \E kind \in Kinds : Chunk(kind)
  \/ \E kinds \in {<<>>, <<Text>>, <<Thought>>, <<Text, 1>>, <<Thought, 1>>} : Whole(kinds)
  \/ Finish \/ EndOfStream \/ SourceFails \/ Retry
  \/ ReadEvent \/ Conclude \/ Disconnected \/ AbortRead
RelaySpec == RelayInit /\ [][RelayNext]_relayVars

----------------------------------------------------------------------------
\* Properties.

RelayTypeOK ==
  /\ source \in {"provider", "demo"} /\ finished \subseteq {"provider", "demo"}
  /\ attempts \in 1..RetryCount + 1 /\ upstream \in {"none", "asks", "over"}
  /\ asker \in {"waits", "replied", "threw", "aborted"}
  /\ Len(heard.calls) <= MaxToolCalls

\* The pieces of a kind a source said; a sequence tells them if it has them all
\* and nothing else, in their order.
Pieces(s, kind) == {<<s, k>> : k \in {k \in DOMAIN said[s] : said[s][k] = kind}}
Told(seq, s, kind) ==
  /\ Range(seq) = Pieces(s, kind)
  /\ \A m, n \in DOMAIN seq : m < n => seq[m][2] < seq[n][2]
Arguments(calls, i) == IF i \in DOMAIN calls THEN calls[i].arguments ELSE <<>>

\* A reply the agent gets is the whole of what one source said: its text, or
\* its reasoning if there is no text, and every tool call with all pieces of
\* its arguments in order; unless a stream was ended early without an error.
\* (The calls of the server's stream never get to the agent.)
ReplyIsWhole ==
  asker = "replied" /\ ~early =>
    /\ source \in finished
    /\ Told(reply.text, source, IF Pieces(source, Text) # {} THEN Text ELSE Thought)
    /\ IF streaming /\ ~direct
         THEN reply.calls = <<>>
         ELSE \A i \in CallNumbers : Told(Arguments(reply.calls, i), source, i)

\* The text that was shown while it came is the text of the reply; unless the
\* reasoning stands for a missing text, or the demo provider took over, whose
\* words then follow those of the provider that failed.
ShownIsAnswer ==
  asker = "replied" /\ streaming =>
    \/ shown = reply.text
    \/ shown = <<>> /\ Pieces(source, Text) = {}
    \/ /\ source = "demo"
       /\ \E n \in 0..Len(shown) : LET before == SubSeq(shown, 1, n)
                                   IN Told(before, "provider", Text) /\ shown = before \o reply.text
=============================================================================
