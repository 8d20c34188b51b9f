---------------------------- MODULE TokenSessions ----------------------------
(***************************************************************************)
(* The pairs of an access and a refresh token that stand for one user's    *)
(* logins.  A pair has rows in PostgreSQL and two copies in Redis; a copy  *)
(* holds the whole pair, a row only its own token.  Whoever knows a token  *)
(* is let in by the copy or by the row, and calls that end or renew a pair *)
(* work on these places one statement after another, some of which may     *)
(* fail unnoticed.                                                         *)
(*                                                                         *)
(* There is one row of an access token, since its hash is unique, and it   *)
(* names the row of the refresh token that was stored with it.  A pair     *)
(* that is saved again gets another row of its refresh token, and then the *)
(* statement that would add its access token fails.                        *)
(***************************************************************************)
EXTENDS Naturals, Sequences, SequencesExt, FiniteSets

CONSTANTS
  Devices,       \* how many pairs there are at first
  MaxTokenPairs, \* bound: pairs ever made
  TokenCalls,    \* the calls under way
  First,         \* the refresh row a pair is issued with
  MaxFaults      \* bound: statements that fail and copies Redis loses

ASSUME TokenAssumption ==
  /\ Devices \in Nat /\ MaxTokenPairs \in Nat /\ Devices <= MaxTokenPairs
  /\ MaxFaults \in Nat /\ First \notin TokenCalls /\ IsFiniteSet(TokenCalls)

TokenPairs == 1..MaxTokenPairs

VARIABLES
  accessRow,               \* the pair's row in auth_access_tokens
  refreshRows,             \* its active rows in auth_refresh_tokens
  accessCopy, refreshCopy, \* auth:access_token:*, auth:refresh_token:* in Redis
  used,                    \* pairs that were made
  tokenCall,               \* what each call is doing
  faults,                  \* counts what failed, for the bound
  delivered,               \* history: pairs a client was told of
  given,                   \* history: pairs someone began to end, renew or bind
  ended,                   \* history: pairs whose end was reported
  unsure                   \* history: pairs a statement failed for, whose copy
                           \* was lost or not read, or that were made or bound
                           \* while they were being ended

tables == <<accessRow, refreshRows, accessCopy, refreshCopy>>
tokenVars == <<tables, used, tokenCall, faults, delivered, given, ended, unsure>>

AccessRows == {"none", "active", "revoked"}
\* The rows of a refresh token: the first one, and one for each call that
\* saves the pair again.
RefreshRows == {First} \cup TokenCalls

AccessAccepted(p) == accessCopy[p] \/ accessRow[p] = "active"
RefreshAccepted(p) == refreshCopy[p] \/ refreshRows[p] # {}
\* Whether the copy is read; without an answer there must be a row.
AccessReads(p) == {accessCopy[p]} \cup IF accessRow[p] = "active" THEN {FALSE} ELSE {}
RefreshReads(p) == {refreshCopy[p]} \cup IF refreshRows[p] # {} THEN {FALSE} ELSE {}

Ready == [op |-> "none", pc |-> "ready", pair |-> 0, new |-> 0, ends |-> {}, todo |-> <<>>]
Ending == {"refresh", "logout", "logoutAll"}

TokenInit ==
  /\ accessRow = [p \in TokenPairs |-> IF p <= Devices THEN "active" ELSE "none"]
  /\ refreshRows = [p \in TokenPairs |-> IF p <= Devices THEN {First} ELSE {}]
  /\ accessCopy = [p \in TokenPairs |-> p <= Devices] /\ refreshCopy = accessCopy
  /\ used = 1..Devices /\ delivered = used
  /\ tokenCall = [c \in TokenCalls |-> Ready]
  /\ faults = 0 /\ given = {} /\ ended = {} /\ unsure = {}

\* What the repository does with a pair, one store or statement at a time: the
\* name of the statement, the pair, and the row of its refresh token, where
\* the statement is for one row.
For(p, names) == [n \in DOMAIN names |-> <<names[n], p, First>>]
DeleteByAccess(p) == For(p, <<"lookAccess", "dropAccess", "revokeAccess">>)
DeleteByRefresh(p) ==
  For(p, <<"lookRefresh", "dropRefresh", "revokeRefresh", "revokeItsAccess">>)
DeleteRowLate(p, r) == \* (seeded bug: the copy is dropped before the pair is read from it)
  <<<<"dropRefresh", p, First>>, <<"lookRefresh", p, First>>,
    <<"revokeRow", p, r>>, <<"revokeRowsAccess", p, r>>>>
DeleteRow(p, r) ==
  <<<<"lookRefresh", p, First>>, <<"dropRefresh", p, First>>,
    <<"revokeRow", p, r>>, <<"revokeRowsAccess", p, r>>>>
DeleteEach(order) == \* one row after another, four statements each
  [n \in 1..4 * Len(order) |->
     LET row == order[1 + ((n - 1) \div 4)] IN DeleteRow(row[1], row[2])[1 + ((n - 1) % 4)]]
SaveAccess(p) == For(p, <<"unsetAccess", "setAccess", "copyAccess", "copyRefresh">>)
SaveTokenSession(p, r) == \* with a new row r of its refresh token
  <<<<"unsetRefresh", p, First>>, <<"setRefresh", p, r>>>> \o SaveAccess(p)

Saving == {"unsetRefresh", "setRefresh", "unsetAccess", "setAccess", "copyAccess", "copyRefresh"}

----------------------------------------------------------------------------
\* A client uses a pair it knows.
Call(c, op, p) ==
  /\ tokenCall[c].pc = "ready" /\ p \in delivered
  /\ op = "refresh" => used # TokenPairs
  /\ tokenCall' = [tokenCall EXCEPT ![c] = [Ready EXCEPT !.op = op, !.pc = "find", !.pair = p]]
  /\ given' = IF op = "bind" THEN given \cup {p} ELSE given
  /\ UNCHANGED <<tables, used, faults, delivered, ended, unsure>>

\* TokenPairs that are ended and bound at the same time.
Meets(c, ends) ==
  {p \in TokenPairs : \E d \in TokenCalls \ {c} :
     \/ p \in ends /\ tokenCall[d].op = "bind" /\ tokenCall[d].pair = p /\ tokenCall[d].pc = "work"
     \/ tokenCall[c].op = "bind" /\ p = tokenCall[c].pair /\ p \in tokenCall[d].ends}

\* The work of a call: it ends the pairs `deleted' that a client knows, and
\* may meet others that are being made.
Go(c, deleted, new, todo) ==
  /\ tokenCall' = [tokenCall EXCEPT ![c].pc = "work", ![c].ends = deleted \cap delivered,
                                    ![c].new = new, ![c].todo = todo]
  /\ given' = given \cup deleted
  /\ UNCHANGED <<tables, delivered, ended>>
Over(c) == tokenCall' = [tokenCall EXCEPT ![c] = [Ready EXCEPT !.pc = "over"]]
Fails(c) == tokenCall' = [tokenCall EXCEPT ![c] = [Ready EXCEPT !.pc = "failed", !.op = tokenCall[c].op]]
Refused(c) == Over(c) /\ UNCHANGED <<tables, used, faults, delivered, given, ended, unsure>>

\* A copy that is there is read (`seen'), or Redis does not answer for it.
Lookup(c, there, seen, deleted, doubt) ==
  /\ faults' = faults + IF seen = there THEN 0 ELSE 1
  /\ faults' <= MaxFaults
  /\ unsure' = unsure \cup Meets(c, deleted) \cup IF doubt THEN {tokenCall[c].pair} ELSE {}

\* A session that was found in PostgreSQL knows only the token it was found by.
RefreshToken(c) ==
  /\ tokenCall[c].op = "refresh" /\ tokenCall[c].pc = "find"
  /\ LET p == tokenCall[c].pair
         q == CHOOSE q \in TokenPairs : q \notin used /\ \A o \in TokenPairs \ used : q <= o
     IN IF ~RefreshAccepted(p) \/ used = TokenPairs
          THEN Refused(c)
          ELSE \E seen \in RefreshReads(p) :
                 /\ Lookup(c, refreshCopy[p], seen, {p}, seen # refreshCopy[p])
                 /\ Go(c, {p}, q, (IF seen THEN DeleteByAccess(p) ELSE <<>>)
                                    \o DeleteByRefresh(p) \o SaveTokenSession(q, First))
                 /\ used' = used \cup {q}

ActiveRows == {row \in TokenPairs \X RefreshRows : row[2] \in refreshRows[row[1]]}
LogoutEverywhere(c) == \* (seeded bug: a logout does not look at allDevices)
  /\ tokenCall[c].op = "logout" /\ tokenCall[c].pc = "find"
  /\ AccessAccepted(tokenCall[c].pair)
  /\ \E order \in SetToSeqs(ActiveRows) : Go(c, {tokenCall[c].pair}, 0, DeleteEach(order))
  /\ UNCHANGED <<used, faults, unsure>>
Logout(c) ==
  /\ tokenCall[c].op = "logout" /\ tokenCall[c].pc = "find"
  /\ LET p == tokenCall[c].pair
     IN IF ~AccessAccepted(p)
          THEN Refused(c)
          ELSE \E seen \in AccessReads(p) :
                 /\ Lookup(c, accessCopy[p], seen, {p}, seen # accessCopy[p])
                 /\ Go(c, {p}, 0, DeleteByAccess(p) \o IF seen THEN DeleteByRefresh(p) ELSE <<>>)
                 /\ UNCHANGED used

\* Logout on all devices: of every active row of a refresh token; of none, if
\* they cannot be listed.
LogoutAll(c) ==
  /\ tokenCall[c].op = "logoutAll" /\ tokenCall[c].pc = "find"
  /\ LET all == {p \in TokenPairs : refreshRows[p] # {}}
     IN IF ~AccessAccepted(tokenCall[c].pair)
          THEN Refused(c)
          ELSE \/ /\ \E order \in SetToSeqs(ActiveRows) : Go(c, all, 0, DeleteEach(order))
                  /\ unsure' = unsure \cup Meets(c, all) \cup (all \ delivered)
                  /\ UNCHANGED <<used, faults>>
               \/ /\ faults < MaxFaults /\ faults' = faults + 1
                  /\ Go(c, all, 0, <<>>) /\ unsure' = unsure \cup all
                  /\ UNCHANGED used

\* BindWechat saves the session it found once more.  One that was found in
\* PostgreSQL has no refresh token: the row it adds belongs to no pair.
BindWechat(c) ==
  /\ tokenCall[c].op = "bind" /\ tokenCall[c].pc = "find"
  /\ LET p == tokenCall[c].pair
     IN IF ~AccessAccepted(p)
          THEN Refused(c)
          ELSE \E seen \in AccessReads(p) :
                 /\ Lookup(c, accessCopy[p], seen, {}, FALSE)
                 /\ Go(c, {}, 0, IF seen THEN SaveTokenSession(p, c) ELSE SaveAccess(p))
                 /\ UNCHANGED used

----------------------------------------------------------------------------
\* The statements.
Put(f, p, value) == [f EXCEPT ![p] = value]
Revoke(p) == IF accessRow[p] = "active" THEN Put(accessRow, p, "revoked") ELSE accessRow
GoOn(c, first) == tokenCall' = [tokenCall EXCEPT ![c].todo = first \o Tail(@)]
\* The hash of an access token is unique: one that is stored is not stored again.
StoredAlready(c) ==
  LET next == Head(tokenCall[c].todo) IN next[1] = "setAccess" /\ accessRow[next[2]] # "none"

Statement(c) ==
  /\ tokenCall[c].pc = "work" /\ tokenCall[c].todo # <<>> /\ ~StoredAlready(c)
  /\ LET name == Head(tokenCall[c].todo)[1]
         p == Head(tokenCall[c].todo)[2]
         r == Head(tokenCall[c].todo)[3]
     IN /\ accessRow' = CASE name \in {"revokeAccess", "unsetAccess", "revokeItsAccess"} -> Revoke(p)
                          [] name = "revokeRowsAccess" /\ r = First -> Revoke(p)
                          [] name = "setAccess" -> Put(accessRow, p, "active")
                          [] OTHER -> accessRow
        /\ refreshRows' = CASE name \in {"revokeRefresh", "unsetRefresh"} -> Put(refreshRows, p, {})
                            [] name = "revokeRow" -> Put(refreshRows, p, refreshRows[p] \ {r})
                            [] name = "setRefresh" -> Put(refreshRows, p, refreshRows[p] \cup {r})
                            [] OTHER -> refreshRows
        /\ accessCopy' = CASE name = "dropAccess" -> Put(accessCopy, p, FALSE)
                           [] name = "copyAccess" -> Put(accessCopy, p, TRUE)
                           [] OTHER -> accessCopy
        /\ refreshCopy' = CASE name = "dropRefresh" -> Put(refreshCopy, p, FALSE)
                            [] name = "copyRefresh" -> Put(refreshCopy, p, TRUE)
                            [] OTHER -> refreshCopy
        \* What a lookup in Redis or a returned row adds to the work.
        /\ GoOn(c, CASE name = "lookAccess" /\ accessCopy[p] -> For(p, <<"dropRefresh">>)
                      [] name = "lookRefresh" /\ refreshCopy[p] -> For(p, <<"dropAccess">>)
                      [] name = "revokeAccess" /\ accessRow[p] = "active" -> For(p, <<"revokeRow">>)
                      [] OTHER -> <<>>)
  /\ UNCHANGED <<used, faults, delivered, given, ended, unsure>>

\* A statement fails: a deletion goes on with the next one, a save is given up
\* and the call with it.
StatementFails(c) ==
  /\ tokenCall[c].pc = "work" /\ tokenCall[c].todo # <<>>
  /\ faults < MaxFaults /\ faults' = faults + 1
  /\ LET name == Head(tokenCall[c].todo)[1]
         p == Head(tokenCall[c].todo)[2]
     IN /\ IF name \in Saving THEN Fails(c) ELSE GoOn(c, <<>>)
        /\ unsure' = unsure \cup ({p} \ {tokenCall[c].new})
  /\ UNCHANGED <<tables, used, delivered, given, ended>>
\* The INSERT of an access token that is stored already fails every time.
InsertFails(c) ==
  /\ tokenCall[c].pc = "work" /\ tokenCall[c].todo # <<>> /\ StoredAlready(c)
  /\ Fails(c) /\ UNCHANGED <<tables, used, faults, delivered, given, ended, unsure>>

\* The call is answered: a new pair is told, the end of the old one reported.
Report(c) ==
  /\ tokenCall[c].pc = "work" /\ tokenCall[c].todo = <<>> /\ Over(c)
  /\ delivered' = delivered \cup ({tokenCall[c].new} \ {0})
  /\ ended' = ended \cup tokenCall[c].ends
  /\ UNCHANGED <<tables, used, faults, given, unsure>>

\* Redis loses a copy or does not answer for it; a token expires, its row
\* before its copy.
CopyLost(p) ==
  /\ faults < MaxFaults /\ faults' = faults + 1 /\ unsure' = unsure \cup {p}
  /\ \/ accessCopy[p] /\ accessCopy' = Put(accessCopy, p, FALSE) /\ UNCHANGED refreshCopy
     \/ refreshCopy[p] /\ refreshCopy' = Put(refreshCopy, p, FALSE) /\ UNCHANGED accessCopy
  /\ UNCHANGED <<accessRow, refreshRows, used, tokenCall, delivered, given, ended>>
RowExpires(p) ==
  /\ IF accessRow[p] = "active"
       THEN accessRow' = Put(accessRow, p, "revoked") /\ UNCHANGED accessCopy
       ELSE accessRow[p] = "revoked" /\ accessCopy[p]
            /\ accessCopy' = Put(accessCopy, p, FALSE) /\ UNCHANGED accessRow
  /\ given' = given \cup {p}
  /\ UNCHANGED <<refreshRows, refreshCopy, used, tokenCall, faults, delivered, ended, unsure>>

TokenNext ==
  \/ \E c \in TokenCalls, op \in Ending \cup {"bind"}, p \in TokenPairs : Call(c, op, p)
  \/ \E c \in TokenCalls : \/ RefreshToken(c) \/ Logout(c) \/ LogoutAll(c) \/ BindWechat(c)
                           \/ Statement(c) \/ StatementFails(c) \/ InsertFails(c) \/ Report(c)
  \/ \E p \in TokenPairs : CopyLost(p) \/ RowExpires(p)
TokenSpec == TokenInit /\ [][TokenNext]_tokenVars

----------------------------------------------------------------------------
\* Properties.

TokenTypeOK ==
  /\ accessRow \in [TokenPairs -> AccessRows] /\ refreshRows \in [TokenPairs -> SUBSET RefreshRows]
  /\ accessCopy \in [TokenPairs -> BOOLEAN] /\ refreshCopy \in [TokenPairs -> BOOLEAN]
  /\ delivered \subseteq used /\ used \subseteq TokenPairs /\ ended \subseteq TokenPairs
  /\ faults \in 0..MaxFaults

\* A pair whose end was reported, by a logout or by the refresh that renewed
\* it, is never let in again, in whatever order the calls of several devices
\* meet, and although a binding to a WeChat account breaks off when it has
\* given the pair another refresh row and revoked its access row; unless a
\* statement or a lookup met a fault or a copy was lost, or the pair was bound
\* while it was being ended, or a logout on all devices met it while it was
\* being made.  (A logout on all devices ends the pairs whose active rows it
\* lists.  While another call is still ending a pair, its refresh token may be
\* good for that long.)
StillEnding(p) == \E c \in TokenCalls : p \in tokenCall[c].ends
EndedStaysOut ==
  \A p \in ended \ unsure : StillEnding(p) \/ ~(AccessAccepted(p) \/ RefreshAccepted(p))

\* A pair a client was told of stays good, whatever happens to the other pairs
\* of the user and whichever statements fail there, until someone ends, renews
\* or binds it, or its access token expires.
PairKept ==
  \A p \in delivered \ (given \cup unsure) : AccessAccepted(p) /\ RefreshAccepted(p)
=============================================================================
