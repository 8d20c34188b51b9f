------------------------------ MODULE RagSearch ------------------------------
(***************************************************************************)
(* Searches of the knowledge base: the vector store (or the built-in       *)
(* documents when it fails) finds candidates, a hybrid score ranks them,   *)
(* the best topK are kept, and a corpus of circuit templates is derived    *)
(* from them.  The service notes the results of the last search in a field *)
(* without a lock, and the corpus is built from that field.                *)
(*                                                                         *)
(* What a result's text or a query's text contains is a set of features;   *)
(* scores are hundredths.                                                  *)
(***************************************************************************)
EXTENDS Integers, Sequences, SequencesExt, FiniteSetsExt

CONSTANTS
  Searches,   \* requests: searches and citation packages
  Queries,    \* what queries may ask for: sets of wishes
  TopKs,      \* how many results are asked for
  StoreDocs,  \* documents of the vector store
  BuiltIn,    \* documents of the in-memory store, in their order
  Heuristic,  \* the result an I2C query about resistors adds
  Features,   \* what the text of a document contains
  Similarity, \* the retrieval score of a document
  Quality,    \* its static quality score, Unrated without the label
  Unrated,
  Templates,  \* the templates recognised in a document
  MinFetch, MaxFetch \* bounds of what the store is asked for: 20 and 100

Documents == StoreDocs \cup Range(BuiltIn) \cup {Heuristic}
ASSUME RagAssumption ==
  /\ IsFiniteSet(StoreDocs) /\ BuiltIn \in Seq(Documents)
  /\ \A d \in Documents : Similarity[d] \in Int /\ Quality[d] \in Int \cup {Unrated}
  /\ MinFetch \in Nat /\ MaxFetch \in Nat /\ TopKs \subseteq Int

VARIABLES
  lastResults, \* of the service
  writing,     \* searches that are writing that field
  searching    \* what each request is doing

ragVars == <<lastResults, writing, searching>>

Unasked == [pc |-> "idle", wants |-> {}, topK |-> 0, found |-> <<>>, results |-> <<>>,
            corpus |-> <<>>]

RagInit ==
  /\ lastResults = <<>> /\ writing = {}
  /\ searching = [s \in Searches |-> Unasked]

----------------------------------------------------------------------------
\* The scores: points that conditions add.
Clamp(value) == IF value < 0 THEN 0 ELSE IF value > 100 THEN 100 ELSE value
When(condition, points) == IF condition THEN points ELSE 0

Has(d, f) == f \in Features[d]
HasAny(d, fs) == Features[d] \cap fs # {}

ExtractStaticQualitySignal(d) ==
  IF Quality[d] # Unrated THEN Clamp(Quality[d])
  ELSE Clamp(35 + When(Has(d, "chain"), 30) + When(Has(d, "combo"), 15) + When(Has(d, "realChains"), 10)
                + When(Has(d, "bootReset") /\ ~Has(d, "chain"), -22) + When(Has(d, "tokenFallback"), -25))

PrincipleFit(wants, d) ==
  When(Has(d, "official"), 34) + When(HasAny(d, {"emi", "sense", "converter"}), 18)
    + When("sense" \in wants /\ Has(d, "temperature"), -30)
    + When("emi" \in wants /\ ~HasAny(d, {"official", "emi"}), -18)
DeviceFit(d) == When(Has(d, "device"), 20) + When(~Has(d, "device") /\ Has(d, "otherDevice"), -18)
ResetFit(d) ==
  When(HasAny(d, {"reset", "resetChain", "bootReset"}), 18) + When(Has(d, "chain"), 14)
    + When(Has(d, "resetChain"), 18) + When(Has(d, "bootReset") /\ ~Has(d, "chain"), -28)
    + When(Has(d, "tagReset"), 8)
GpioFit(d) ==
  When(HasAny(d, {"gpio", "gpioChain"}), 20) + When(Has(d, "pull"), 20) + When(Has(d, "gpioChain"), 12)
    + When(Has(d, "combo") /\ ~HasAny(d, {"gpio", "gpioChain"}), -18) + When(Has(d, "tagBias"), 10)
BusFit(d) ==
  When(HasAny(d, {"i2c", "i2cChain"}), 30) + When(Has(d, "i2cChain"), 24) + When(Has(d, "4k7"), 10)
    + When(Has(d, "resetChain") /\ ~HasAny(d, {"i2c", "i2cChain"}), -26) + When(Has(d, "tagBias"), 4)
ScoreQueryIntent(wants, d) ==
  Clamp(30 + When("principle" \in wants, PrincipleFit(wants, d)) + When("device" \in wants, DeviceFit(d))
           + When("reset" \in wants, ResetFit(d)) + When("gpio" \in wants, GpioFit(d))
           + When("i2c" \in wants, BusFit(d)))

ScoreProjectComboBonus(wants, d) ==
  When(Has(d, "combo"),
    Clamp(When("combo" \in wants, 40) + When("reset" \in wants /\ Has(d, "chain"), 30)
            + When("gpio" \in wants /\ ~HasAny(d, {"gpio", "gpioChain"}), -22)
            + When(Has(d, "tokenFallback"), -18)))

ScoreHybridResult(wants, d) ==
  45 * Clamp(Similarity[d]) + 25 * ExtractStaticQualitySignal(d)
    + 20 * ScoreQueryIntent(wants, d) + 10 * ScoreProjectComboBonus(wants, d)

\* rerankGroupedTemplateResults: by hybrid score, then by the store's score;
\* what ties keeps its order.
RanksBefore(wants, found, i, j) ==
  LET score(k) == ScoreHybridResult(wants, found[k])
      store(k) == Similarity[found[k]]
  IN \/ score(i) > score(j)
     \/ score(i) = score(j) /\ store(i) > store(j)
     \/ score(i) = score(j) /\ store(i) = store(j) /\ i < j
Rerank(wants, found) ==
  LET rank == [i \in DOMAIN found |-> Cardinality({j \in DOMAIN found : RanksBefore(wants, found, j, i)})]
  IN [k \in DOMAIN found |-> found[CHOOSE i \in DOMAIN found : rank[i] = k - 1]]

\* A topK of 0 or less keeps everything.
Cut(topK, results) ==
  IF topK > 0 /\ Len(results) > topK THEN SubSeq(results, 1, topK) ELSE results
KeepFound(wants, topK, found) == \* (seeded bug: cut before it is ranked)
  Rerank(wants, Cut(topK, found))
Kept(wants, topK, found) == Cut(topK, Rerank(wants, found))

NormalizeTopK(topK) == IF topK < MinFetch THEN MinFetch ELSE IF topK > MaxFetch THEN MaxFetch ELSE topK

\* buildHeuristicExternalRagTemplateCorpus: each template once, with the first
\* document it was recognised in.
CorpusOf(results) ==
  FoldSeq(LAMBDA d, corpus :
    corpus \o SetToSeq({<<t, d>> : t \in {t \in Templates[d] : \A i \in DOMAIN corpus : corpus[i][1] # t}}),
    <<>>, results)

----------------------------------------------------------------------------
Ask(s) ==
  /\ searching[s].pc = "idle"
  /\ \E wants \in Queries, topK \in TopKs :
       searching' = [searching EXCEPT ![s].pc = "search", ![s].wants = wants, ![s].topK = topK]
  /\ UNCHANGED <<lastResults, writing>>

\* The store answers with the documents that are closest to the query, best
\* first and as many as it is asked for; or it fails and the in-memory store
\* answers, if fallback is enabled.
Closest(n) == {docs \in [1..n -> StoreDocs] :
  \A i, j \in 1..n : i < j => docs[i] # docs[j] /\ Similarity[docs[i]] >= Similarity[docs[j]]}
Outcomes(topK) ==
  LET fetch == NormalizeTopK(topK)
      AtMost(n) == IF fetch < n THEN fetch ELSE n
  IN Closest(AtMost(Cardinality(StoreDocs))) \cup {SubSeq(BuiltIn, 1, AtMost(Len(BuiltIn)))}

\* Search begins to write lastResults ...
Search(s) ==
  /\ searching[s].pc = "search"
  /\ LET wants == searching[s].wants
         heuristic == IF {"i2c", "resistor"} \subseteq wants THEN <<Heuristic>> ELSE <<>>
     IN \E outcome \in Outcomes(searching[s].topK) :
          searching' = [searching EXCEPT ![s].pc = "note", ![s].found = outcome \o heuristic,
                                         ![s].results = Kept(wants, searching[s].topK, outcome \o heuristic)]
  /\ writing' = writing \cup {s}
  /\ UNCHANGED lastResults
SearchFails(s) ==
  /\ searching[s].pc = "search"
  /\ searching' = [searching EXCEPT ![s].pc = "failed"]
  /\ UNCHANGED <<lastResults, writing>>
\* ... and has written it: a write that met another one leaves either.
Note(s) ==
  /\ searching[s].pc = "note"
  /\ lastResults' \in {searching[s].results} \cup IF writing = {s} THEN {} ELSE {lastResults}
  /\ writing' = writing \ {s}
  /\ searching' = [searching EXCEPT ![s].pc = "corpus"]

\* ExternalRagTemplateCorpus reads the field.  (The retriever's own corpus is
\* never there: RAGFlow's method does not have the type that is asked for.)
\* A read that meets a write gets either value.
ReadNoted(s) ==
  /\ searching[s].pc = "corpus"
  /\ \E results \in {lastResults} \cup {searching[w].results : w \in writing} :
       searching' = [searching EXCEPT ![s].pc = "answered", ![s].corpus = CorpusOf(results)]
  /\ UNCHANGED <<lastResults, writing>>

\* A citation package is answered without a corpus.
Cite(s) ==
  /\ searching[s].pc = "corpus"
  /\ searching' = [searching EXCEPT ![s].pc = "cited"]
  /\ UNCHANGED <<lastResults, writing>>

RagNext ==
  \E s \in Searches : Ask(s) \/ Search(s) \/ SearchFails(s) \/ Note(s) \/ ReadNoted(s) \/ Cite(s)
RagSpec == RagInit /\ [][RagNext]_ragVars

----------------------------------------------------------------------------
\* Properties.

RagTypeOK ==
  /\ writing \subseteq Searches
  /\ \A s \in Searches : searching[s].pc \in {"idle", "search", "note", "corpus", "answered", "cited", "failed"}

HasFound(s) == searching[s].pc \in {"corpus", "answered", "cited"}

\* A search returns the best of all that was found, not of what the store put
\* first: no result that was left out scores more than one that was kept, and
\* as many are kept as were asked for.
BestAreKept ==
  \A s \in Searches : HasFound(s) =>
    LET found == searching[s].found
        results == searching[s].results
        score(d) == ScoreHybridResult(searching[s].wants, d)
    IN /\ Len(results) = IF searching[s].topK \in 1..Len(found) THEN searching[s].topK ELSE Len(found)
       /\ Range(results) \subseteq Range(found)
       /\ \A d \in Range(results), e \in Range(found) \ Range(results) : score(d) >= score(e)
       /\ \A i \in 1..Len(results) - 1 : score(results[i]) >= score(results[i + 1])
=============================================================================
