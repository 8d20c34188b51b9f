------------------------------ MODULE PanelStore ------------------------------
(***************************************************************************)
(* What the panel keeps in the browser's storage: its state, the state of  *)
(* each session, and the index of the sessions that the history shows.     *)
(* A settled state is persisted by three writes, each of which may fail    *)
(* (the storage is full) or be the last one before the editor is closed;   *)
(* the storage is synchronous, so that nothing else comes between them,    *)
(* except where two states are persisted at once.                          *)
(*                                                                         *)
(* A session is a number, and so is a chat: a chat has the number of the   *)
(* session it began in, or one of its own if it began without a session.   *)
(***************************************************************************)
EXTENDS Naturals, FiniteSets

CONSTANTS
  MaxIds,     \* bound: numbers for sessions and chats
  MaxSaves,   \* bound: times a state is persisted
  MaxSize,    \* bound: messages of a chat
  MaxHistory  \* MAX_SESSION_HISTORY; 20 in the code
ASSUME PanelAssumption == {MaxIds, MaxSaves, MaxSize, MaxHistory} \subseteq Nat \ {0}

VARIABLES
  storage,     \* [panel, sessions, index]: the three kinds of items in the storage
  currentState, \* internals.currentState: [id, chat], the id 0 if it has none
  stage,    \* the panel is "closed", "opening" or "open"
  opening,  \* the state that waits for the settings before it is shown
  analysis, \* the chat of an analysis that runs
  made,     \* numbers given
  saves,    \* states persisted
  origin,   \* history: the chat a session was made for
  ghosts,   \* history: sessions that were made up for an empty index
  misnamed  \* history: sessions whose number was given to another's chat

panelHistory == <<made, saves, origin, ghosts, misnamed>>
panelVars == <<storage, currentState, stage, opening, analysis, panelHistory>>

Ids == 1..MaxIds
NoChat == [of |-> 0, size |-> 0]
NoState == [id |-> 0, chat |-> NoChat]
NewChat(n) == [of |-> n, size |-> 1]
Settled == currentState # NoState /\ (analysis = NoChat \/ currentState.chat.of # analysis.of)

----------------------------------------------------------------------------
\* The storage.

\* deriveSessionHistoryEntries: without an index the panel's own session is
\* all the history there is; it is made up if the panel has none.
Listed(d, fresh) ==
  IF d.index # {} THEN d.index
  ELSE IF d.panel = NoState THEN {}
  ELSE {[id |-> IF d.panel.id = 0 THEN fresh ELSE d.panel.id, at |-> 0]}
Latest(entries) == {e \in entries : Cardinality({o \in entries : o.at > e.at}) < MaxHistory}

\* setItem leaves the item as it was when it throws.
SetItem(written, d, new) == IF written THEN new ELSE d
\* readSessionState
Stored(id) == storage.sessions[id]
\* clearPanelState: a failing clean-up is ignored.
Cleared == {SetItem(removed, storage, [storage EXCEPT !.panel = NoState]) : removed \in BOOLEAN}

\* persistPanelState as far as write `far': the panel's item, the session's,
\* the index as it was read before the session's was written.
WritePanel(d, state, far) == SetItem(far >= 1, d, [d EXCEPT !.panel = state])
Upsert(d, state, id, now, fresh, far) ==
  [id |-> id, chat |-> state.chat, far |-> far,
   entries |-> Latest({[id |-> id, at |-> now]} \cup {e \in Listed(d, fresh) : e.id # id})]
WriteState(d, job) == SetItem(job.far >= 2, d, [d EXCEPT !.sessions[job.id] = job.chat])
WriteIndex(d, job) == SetItem(job.far = 3, d, [d EXCEPT !.index = job.entries])
PersistedIndexFirst(d, job) == \* (seeded bug: listed before it is stored)
  LET listed == IF job.far >= 2 THEN [d EXCEPT !.index = job.entries] ELSE d
  IN IF job.far = 3 THEN [listed EXCEPT !.sessions[job.id] = job.chat] ELSE listed
Persisted(d, job) == WriteIndex(WriteState(d, job), job)

\* A session that is made for a chat, and what an empty index made up.
MadeFor(chat, ids) == origin' = [i \in Ids |-> IF i \in ids THEN chat.of ELSE origin[i]]

\* commitState of a settled state.
Save(state, far) ==
  LET nameless == far > 0 /\ state.id = 0
      id == IF nameless THEN made + 1 ELSE state.id
      ghost == IF nameless /\ storage.index = {} THEN {made + 2} ELSE {}
      d == WritePanel(storage, state, far)
  IN /\ saves < MaxSaves /\ saves' = saves + 1
     /\ made' = made + (IF nameless THEN 1 ELSE 0) + Cardinality(ghost) /\ made' <= MaxIds
     /\ storage' = IF far = 0 THEN storage ELSE Persisted(d, Upsert(d, state, id, saves + 1, made + 2, far))
     /\ MadeFor(state.chat, IF nameless THEN {id} ELSE {})
     /\ ghosts' = ghosts \cup ghost

\* Two commits of one state in a row: each step of the first comes before the
\* same step of the second.  The state of an analysis has no session, so each
\* makes one.
SaveTwice(state, far, second) ==
  LET ids == {made + 1, made + 2}
      ghost == IF storage.index = {} THEN {made + 3, made + 4} ELSE {}
      d == WritePanel(WritePanel(storage, state, far), state, second)
      one == Upsert(d, state, made + 1, saves + 1, made + 3, far)
      two == Upsert(d, state, made + 2, saves + 2, made + 4, second)
  IN /\ saves + 1 < MaxSaves /\ saves' = saves + 2
     /\ made' = made + 2 + Cardinality(ghost) /\ made' <= MaxIds
     /\ storage' = WriteIndex(WriteIndex(WriteState(WriteState(d, one), two), one), two)
     /\ MadeFor(state.chat, ids)
     /\ ghosts' = ghosts \cup ghost

----------------------------------------------------------------------------
\* The panel.

PanelInit ==
  /\ storage = [panel |-> NoState, sessions |-> [i \in Ids |-> NoChat], index |-> {}]
  /\ currentState = NoState /\ stage = "closed" /\ opening = NoState /\ analysis = NoChat
  /\ made = 0 /\ saves = 0 /\ origin = [i \in Ids |-> 0] /\ ghosts = {} /\ misnamed = {}

\* openIdlePanelState without a stored panel: a new session.
OpenNew ==
  /\ stage = "closed" /\ storage.panel = NoState /\ made < MaxIds
  /\ stage' = "opening" /\ opening' = [id |-> made + 1, chat |-> NewChat(made + 1)]
  /\ made' = made + 1 /\ MadeFor(NewChat(made + 1), {made + 1})
  /\ UNCHANGED <<storage, currentState, analysis, saves, ghosts, misnamed>>
\* restorePanelState: under its own number if it is listed, else under that of
\* the newest session in the list.
OpenStored ==
  LET list == Listed(storage, made + 1)
      own == {e \in list : e.id = storage.panel.id}
      meta == IF own # {} THEN own ELSE list
      name == (CHOOSE e \in meta : \A o \in meta : o.at <= e.at).id
      fresh == name = made + 1
  IN /\ stage = "closed" /\ storage.panel # NoState /\ name <= MaxIds
     /\ stage' = "opening" /\ opening' = [id |-> name, chat |-> storage.panel.chat]
     /\ made' = made + (IF fresh THEN 1 ELSE 0)
     /\ MadeFor(storage.panel.chat, IF fresh THEN {name} ELSE {})
     /\ misnamed' = IF own = {} /\ ~fresh /\ origin[name] # storage.panel.chat.of
                      THEN misnamed \cup {name} ELSE misnamed
     /\ UNCHANGED <<storage, currentState, analysis, saves, ghosts>>
\* The settings are there.
Opened == \E far \in 0..3 :
  /\ stage = "opening" /\ stage' = "open" /\ currentState' = opening /\ opening' = NoState
  /\ Save(opening, far)
  /\ UNCHANGED <<analysis, misnamed>>

\* A turn, or another operation, settles.
Settles == \E size \in {currentState.chat.size, currentState.chat.size + 1}, far \in 0..3 :
  /\ Settled /\ size <= MaxSize
  /\ currentState' = [currentState EXCEPT !.chat.size = size] /\ Save(currentState', far)
  /\ UNCHANGED <<stage, opening, analysis, misnamed>>

\* computeAnalysisState: asked for, or because there is no state yet.  It
\* works on a state of its own, shows it whatever is shown by then, and
\* commits it twice when it ends.
AnalysisBegins ==
  /\ stage # "closed" /\ analysis = NoChat /\ made < MaxIds /\ made' = made + 1
  /\ analysis' = NewChat(made') /\ currentState' = [id |-> 0, chat |-> analysis']
  /\ UNCHANGED <<storage, stage, opening, saves, origin, ghosts, misnamed>>
AnalysisStreams ==
  /\ analysis # NoChat /\ currentState' = [id |-> 0, chat |-> analysis]
  /\ UNCHANGED <<storage, stage, opening, analysis, panelHistory>>
AnalysisEnds == \E far, second \in 0..3 :
  /\ analysis # NoChat /\ analysis' = NoChat
  /\ currentState' = [id |-> 0, chat |-> analysis] /\ SaveTwice(currentState', far, second)
  /\ UNCHANGED <<stage, opening, misnamed>>

\* resetSession
ResetSession ==
  /\ stage = "open" /\ stage' = "closed" /\ currentState' = NoState
  /\ storage' \in Cleared
  /\ UNCHANGED <<opening, analysis, panelHistory>>
\* restoreSession of a listed session.
RestoreSession == \E e \in Listed(storage, 0) :
  /\ stage = "open" /\ e.id # 0
  /\ IF Stored(e.id) # NoChat
       THEN /\ stage' = "opening" /\ opening' = [id |-> e.id, chat |-> Stored(e.id)]
            /\ UNCHANGED <<storage, currentState, analysis, panelHistory>>
       ELSE /\ Settled /\ \E far \in 0..3 : Save(currentState, far)
            /\ UNCHANGED <<currentState, stage, opening, analysis, misnamed>>
\* The editor is closed.
Close ==
  /\ stage # "closed" /\ stage' = "closed"
  /\ currentState' = NoState /\ opening' = NoState /\ analysis' = NoChat
  /\ UNCHANGED <<storage, panelHistory>>

PanelNext ==
  \/ OpenNew \/ OpenStored \/ Opened \/ Settles \/ AnalysisBegins \/ AnalysisStreams \/ AnalysisEnds
  \/ ResetSession \/ RestoreSession \/ Close

----------------------------------------------------------------------------
\* Properties.

\* The history can be relied on, whichever writes fail: a session it lists has
\* its chat stored, unless it was made up for an empty index; and under a
\* session's number no other chat is stored, unless the panel was opened with
\* a chat whose own session had left the list, under the number of the newest.
ListedIsStored == \A e \in storage.index : e.id \in ghosts \/ storage.sessions[e.id] # NoChat
OwnChatIsStored ==
  \A i \in Ids \ misnamed : storage.sessions[i] = NoChat \/ storage.sessions[i].of = origin[i]
HistoryIsSound == ListedIsStored /\ OwnChatIsStored
===============================================================================
