---------------------------- MODULE KnowledgeStore ----------------------------
(***************************************************************************)
(* The documents of the knowledge base and their chunks: Import and        *)
(* Reindex of the knowledge service over the PostgreSQL repository.  An    *)
(* import looks its document up by source key, compares the hash kept in   *)
(* the row and writes row and chunks by two calls; a lookup that fails     *)
(* looks like one that finds nothing.  The worker of the import queue      *)
(* repeats an import that failed.                                          *)
(*                                                                         *)
(* All requests have the same source key; those of another one do not      *)
(* touch its documents.  A content stands for its hash and its chunks.     *)
(***************************************************************************)
EXTENDS Naturals, FiniteSets

CONSTANTS
  Calls,     \* calls that may be under way at a time
  Contents,  \* the contents that are imported
  Wide,      \* the contents whose hash does not fit the bigint it is read as
  Docs,      \* bound: documents that may be created
  MaxCalls,  \* bound: calls made
  NoContent

VARIABLES
  hash,      \* content_hash of each row, NoContent without one
  rows,      \* the documents there are
  chunks,    \* the content a document's chunks are cut from
  job,       \* what each call is doing
  made,      \* calls made
  spoiled    \* history: documents with a write that failed, a chunk list that
             \* could not be read or two calls at once

storeHistory == <<made, spoiled>>
storeVars == <<hash, rows, chunks, job, storeHistory>>

NoJob == [kind |-> "none", pc |-> "idle", content |-> NoContent, doc |-> 0, list |-> NoContent]
JobSteps == {"idle", "lookup", "hash", "row", "chunks", "skip", "list", "relist", "reindexed",
             "imported", "skipped"}
Busy(c) == job[c].pc \notin {"idle", "imported", "skipped"}

StoreInit ==
  /\ hash = [d \in Docs |-> NoContent] /\ rows = {} /\ chunks = hash
  /\ job = [c \in Calls |-> NoJob] /\ made = 0 /\ spoiled = {}

Move(c, pc) == job' = [job EXCEPT ![c].pc = pc]
Doc(c) == job[c].doc
Spoil(d) == spoiled' = spoiled \cup {d}
\* Another call works on the document.
Shared(c) == \E o \in Calls \ {c} : Busy(o) /\ Doc(o) = Doc(c)
NoteShared(c) == IF Shared(c) THEN Spoil(Doc(c)) ELSE UNCHANGED spoiled

----------------------------------------------------------------------------
Import(c, content) ==
  /\ ~Busy(c) /\ made < MaxCalls /\ made' = made + 1
  /\ job' = [job EXCEPT ![c] = [NoJob EXCEPT !.kind = "import", !.pc = "lookup", !.content = content]]
  /\ UNCHANGED <<hash, rows, chunks, spoiled>>

\* FindDocumentBySourceKey: any document with the key.
FindDocument(c) ==
  /\ job[c].pc = "lookup"
  /\ \E d \in rows : job' = [job EXCEPT ![c].pc = "hash", ![c].doc = d]
  /\ UNCHANGED <<hash, rows, chunks, storeHistory>>
\* There is none, or the lookup fails: a new document.
NoDocument(c) ==
  /\ job[c].pc = "lookup"
  /\ \E d \in Docs \ (rows \cup {Doc(o) : o \in Calls}) :
       /\ \A e \in Docs : e < d => e \in rows \cup {Doc(o) : o \in Calls}
       /\ job' = [job EXCEPT ![c].pc = "row", ![c].doc = d]
  /\ UNCHANGED <<hash, rows, chunks, storeHistory>>

\* FindContentHash: the same content is skipped, unless the hash cannot be
\* read.
CompareHash(c) ==
  /\ job[c].pc = "hash"
  /\ \/ Move(c, "row")
     \/ hash[Doc(c)] = job[c].content /\ job[c].content \notin Wide /\ Move(c, "skip")
  /\ UNCHANGED <<hash, rows, chunks, storeHistory>>

\* SaveDocument, then SaveChunks in a transaction of its own.
SaveDocument(c) ==
  /\ job[c].pc = "row" /\ Move(c, "chunks") /\ NoteShared(c)
  /\ rows' = rows \cup {Doc(c)} /\ hash' = [hash EXCEPT ![Doc(c)] = job[c].content]
  /\ UNCHANGED <<chunks, made>>
SaveChunksAppending(c) == \* (seeded bug: the chunks of an updated document stay)
  /\ job[c].pc = "chunks" /\ NoteShared(c)
  /\ chunks' = IF chunks[Doc(c)] = NoContent THEN [chunks EXCEPT ![Doc(c)] = job[c].content] ELSE chunks
  /\ Move(c, "imported")
  /\ UNCHANGED <<hash, rows, made>>
SaveChunks(c) ==
  /\ job[c].pc = "chunks" /\ NoteShared(c)
  /\ chunks' = [chunks EXCEPT ![Doc(c)] = job[c].content]
  /\ Move(c, "imported")
  /\ UNCHANGED <<hash, rows, made>>
\* A write is reported as failed, whether or not it was made.
WriteFails(c) ==
  /\ job[c].pc \in {"row", "chunks", "skip", "relist", "reindexed"} /\ Move(c, "idle")
  /\ UNCHANGED <<hash, rows, chunks, made>>
  /\ IF job[c].pc = "chunks" THEN Spoil(Doc(c)) ELSE UNCHANGED spoiled
WriteTimesOut(c) ==
  /\ job[c].pc \in {"row", "chunks"} /\ Move(c, "idle") /\ Spoil(Doc(c))
  /\ IF job[c].pc = "row"
       THEN /\ rows' = rows \cup {Doc(c)} /\ hash' = [hash EXCEPT ![Doc(c)] = job[c].content]
            /\ UNCHANGED chunks
       ELSE chunks' = [chunks EXCEPT ![Doc(c)] = job[c].content] /\ UNCHANGED <<hash, rows>>
  /\ UNCHANGED <<made>>

\* A skipped import saves the row with its hash and returns the chunks.
Skip(c) ==
  /\ job[c].pc = "skip" /\ Move(c, "skipped") /\ NoteShared(c)
  /\ hash' = [hash EXCEPT ![Doc(c)] = job[c].content]
  /\ UNCHANGED <<rows, chunks, made>>

----------------------------------------------------------------------------
\* Reindex: the chunks are read, marked and written back; then the row, which
\* keeps its hash.
Reindex(c) ==
  /\ ~Busy(c) /\ made < MaxCalls /\ made' = made + 1
  /\ \E d \in rows : job' = [job EXCEPT ![c] = [NoJob EXCEPT !.kind = "reindex", !.pc = "list", !.doc = d]]
  /\ UNCHANGED <<hash, rows, chunks, spoiled>>
\* ListChunks: a read that fails is an empty list.
ListChunks(c) ==
  /\ job[c].pc = "list"
  /\ \/ /\ job' = [job EXCEPT ![c].pc = "relist", ![c].list = chunks[Doc(c)]]
        /\ UNCHANGED spoiled
     \/ /\ job' = [job EXCEPT ![c].pc = "relist", ![c].list = NoContent]
        /\ Spoil(Doc(c))
  /\ UNCHANGED <<hash, rows, chunks, made>>
SaveList(c) ==
  /\ job[c].pc = "relist" /\ Move(c, "reindexed") /\ NoteShared(c)
  /\ chunks' = [chunks EXCEPT ![Doc(c)] = job[c].list]
  /\ UNCHANGED <<hash, rows, made>>
SaveRowKeepingHash(c) ==
  /\ job[c].pc = "reindexed" /\ Move(c, "idle")
  /\ UNCHANGED <<hash, rows, chunks, storeHistory>>

CallSteps(c) ==
  \/ FindDocument(c) \/ NoDocument(c) \/ CompareHash(c) \/ SaveDocument(c) \/ SaveChunks(c)
  \/ WriteFails(c) \/ WriteTimesOut(c) \/ Skip(c) \/ Reindex(c) \/ ListChunks(c) \/ SaveList(c) \/ SaveRowKeepingHash(c)
StoreNext == \E c \in Calls : CallSteps(c) \/ \E content \in Contents : Import(c, content)
StoreSpec == StoreInit /\ [][StoreNext]_storeVars

----------------------------------------------------------------------------
\* Properties.

StoreTypeOK ==
  /\ rows \subseteq Docs /\ spoiled \subseteq Docs /\ made \in 0..MaxCalls
  /\ \A d \in Docs : {hash[d], chunks[d]} \subseteq Contents \cup {NoContent}
  /\ \A c \in Calls : job[c].pc \in JobSteps /\ Doc(c) \in Docs \cup {0}

\* The chunks of a document are those of the content its hash stands for, so
\* that an import that is skipped has nothing to do; unless a write of the
\* chunks failed, their list could not be read, or two calls overlapped.
HashMeansChunks ==
  \A d \in rows \ spoiled : (\A c \in Calls : ~(Busy(c) /\ Doc(c) = d)) => hash[d] = chunks[d]
=============================================================================
