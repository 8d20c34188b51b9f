--------------------------- MODULE PluginSession ---------------------------
(***************************************************************************)
(* The login session of the plugin: a token pair in localStorage that      *)
(* several asynchronous flows of the runtime use, refresh, replace and     *)
(* drop.  JavaScript runs one flow at a time until it waits for the        *)
(* network, and everything that waits for a promise runs on before the     *)
(* next answer is looked at; so an action is what happens between two      *)
(* answers of the network, over all flows it resumes.                      *)
(*                                                                         *)
(* There are three ways to refresh: refreshSessionIfNeeded, shared through *)
(* refreshInFlight (a 401, the start of the panel), fillSettingsState with *)
(* a call of its own, and the timer with a call of its own.                *)
(***************************************************************************)
EXTENDS Naturals, FiniteSets

CONSTANTS
  Flows,      \* asynchronous flows that may be under way at the same time
  Jobs,       \* what starts a flow in this instance, see JobNames
  MaxPairs,   \* bound on the token pairs the server issues
  Mortal,     \* bound: the pairs whose lifetimes run out in this instance
  MaxLogins,  \* bound on browser logins
  MaxLosses   \* bound on refresh calls the network loses

JobNames == {"request", "panel", "base", "timer"}

ASSUME JobAssumption == Jobs \subseteq JobNames
ASSUME BoundAssumption ==
  /\ MaxPairs \in Nat \ {0} /\ MaxLogins \in Nat /\ MaxLosses \in Nat
  /\ Mortal \subseteq 1..MaxPairs

VARIABLES
  stored,      \* the pair in localStorage, or None
  age,         \* age[n]: expiresAt of pair n against the plugin's clock
  access,      \* pairs whose access token the server accepts
  refreshable, \* pairs whose refresh token the server accepts
  issued,      \* number of pairs issued so far
  flight,      \* refreshInFlight: "none" (null), "running", or "settled":
               \* a promise that holds FALSE and is never cleared
  pc,          \* pc[f]: the answer flow f is waiting for
  using,       \* using[f]: the pair f sent
  call,        \* call[f]: how far f's refresh call is
  got,         \* got[f]: the pair in the answer to f's refresh call
  logins,      \* browser logins so far
  losses       \* lost calls so far

serverVars == <<access, refreshable, issued>>
flowVars == <<pc, using, call, got>>
vars == <<stored, age, serverVars, flight, flowVars, logins, losses>>

None == 0
Pairs == 1..MaxPairs

\* idle: not started; sent: a request with an access token; join: somebody
\* else's refreshInFlight; exchange, restore, renew: a refresh call from
\* refreshSessionIfNeeded, from fillSettingsState and from the timer.
Refreshing == {"exchange", "restore", "renew"}
Labels == {"idle", "sent", "join"} \cup Refreshing

\* hasUsableSession: "over" begins 30 s before expiresAt, "soon" five minutes.
Usable(n) == n # None /\ age[n] # "over"

----------------------------------------------------------------------------
\* What a flow goes on with.

End(f) == pc' = [pc EXCEPT ![f] = "idle"] /\ UNCHANGED <<using, call, got>>
Request(f, n) ==
  /\ pc' = [pc EXCEPT ![f] = "sent"]
  /\ using' = [using EXCEPT ![f] = n]
  /\ UNCHANGED <<call, got>>
Refresh(f, label, n) ==
  /\ pc' = [pc EXCEPT ![f] = label]
  /\ using' = [using EXCEPT ![f] = n]
  /\ call' = [call EXCEPT ![f] = "asked"]
  /\ UNCHANGED got

\* fillSettingsState: with a usable session it asks for the credits, another
\* session it refreshes first.
Fill(f) ==
  IF stored = None THEN End(f)
  ELSE IF Usable(stored) THEN Request(f, stored) ELSE Refresh(f, "restore", stored)

\* refreshSessionIfNeeded, when it is the first one, and when it is not.
NoJoin(f) == \* (seeded bug: a refresh under way counts as a failed one)
  End(f) /\ stored' = None
Join(f) == pc' = [pc EXCEPT ![f] = "join"] /\ UNCHANGED <<using, call, got, stored>>
StartRefresh(f) ==
  IF stored = None
    THEN flight' = "settled" /\ End(f)
    ELSE flight' = "running" /\ Refresh(f, "exchange", stored)

----------------------------------------------------------------------------
\* Flows start.

\* A request of the model, the knowledge search or the credits client.
\* Several in a row count as one.
Use(f) ==
  /\ "request" \in Jobs /\ pc[f] = "idle" /\ stored # None
  /\ Request(f, stored)
  /\ UNCHANGED <<stored, age, serverVars, flight, logins, losses>>

\* The panel is opened or its settings change: fillSettingsState.  Without a
\* session these three do nothing that lasts, so they start with one.
OpenPanel(f) ==
  /\ "panel" \in Jobs /\ pc[f] = "idle" /\ stored # None
  /\ Fill(f)
  /\ UNCHANGED <<stored, age, serverVars, flight, logins, losses>>

\* buildBaseState of a panel without a saved state.
BuildBase(f) ==
  /\ "base" \in Jobs /\ pc[f] = "idle" /\ stored # None
  /\ \/ (Usable(stored) \/ flight = "settled") /\ Fill(f) /\ UNCHANGED <<stored, flight>>
     \/ ~Usable(stored) /\ flight = "running" /\ Join(f) /\ UNCHANGED flight
     \/ ~Usable(stored) /\ flight = "none" /\ StartRefresh(f) /\ UNCHANGED stored
  /\ UNCHANGED <<age, serverVars, logins, losses>>

\* startTokenRefreshTimer, every minute.
Tick(f) ==
  /\ "timer" \in Jobs /\ pc[f] = "idle"
  /\ stored # None /\ age[stored] = "soon"
  /\ Refresh(f, "renew", stored)
  /\ UNCHANGED <<stored, age, serverVars, flight, logins, losses>>

\* pollLoginSessionUntilDone, the answer to the exchange of the login ticket.
\* The pair is saved; the names llmModeStore and chatOrchestrator are not in its
\* scope, so it ends there with a ReferenceError and asks for no credits.
Login ==
  /\ logins < MaxLogins /\ logins' = logins + 1
  /\ issued < MaxPairs /\ issued' = issued + 1
  /\ access' = access \cup {issued + 1}
  /\ refreshable' = refreshable \cup {issued + 1}
  /\ stored' = issued + 1
  /\ UNCHANGED <<age, flight, flowVars, losses>>

----------------------------------------------------------------------------
\* The server and the network.

\* Service.RefreshToken looks the token up ...
RefreshFind(f) ==
  /\ call[f] = "asked"
  /\ call' = [call EXCEPT ![f] = IF using[f] \in refreshable THEN "found" ELSE "refused"]
  /\ UNCHANGED <<stored, age, serverVars, flight, pc, using, got, logins, losses>>

\* ... and in further repository calls revokes the pair and issues a new one,
RefreshIssue(f) ==
  /\ call[f] = "found" /\ issued < MaxPairs
  /\ issued' = issued + 1
  /\ access' = (access \ {using[f]}) \cup {issued + 1}
  /\ refreshable' = (refreshable \ {using[f]}) \cup {issued + 1}
  /\ call' = [call EXCEPT ![f] = "issued"]
  /\ got' = [got EXCEPT ![f] = issued + 1]
  /\ UNCHANGED <<stored, age, flight, pc, using, logins, losses>>

\* or fails after it has revoked the pair.
RefreshBreaks(f) ==
  /\ call[f] = "found"
  /\ access' = access \ {using[f]}
  /\ refreshable' = refreshable \ {using[f]}
  /\ call' = [call EXCEPT ![f] = "refused"]
  /\ UNCHANGED <<stored, age, issued, flight, pc, using, got, logins, losses>>

\* The call or its answer is lost: fetch rejects.
Lose(f) ==
  /\ call[f] \in {"asked", "issued"}
  /\ losses < MaxLosses /\ losses' = losses + 1
  /\ call' = [call EXCEPT ![f] = "lost"]
  /\ UNCHANGED <<stored, age, serverVars, flight, pc, using, got, logins>>

AccessExpires(n) ==
  /\ n \in Mortal \cap access
  /\ access' = access \ {n}
  /\ UNCHANGED <<stored, age, refreshable, issued, flight, flowVars, logins, losses>>

\* expiresAt, counted from the arrival of the pair, comes closer; the refresh
\* token ends after it.
Ages(n) ==
  /\ n \in Mortal /\ n <= issued
  /\ \A f \in Flows : call[f] = "issued" => got[f] # n
  /\ \/ age[n] = "fresh" /\ age' = [age EXCEPT ![n] = "soon"] /\ UNCHANGED refreshable
     \/ age[n] = "soon" /\ age' = [age EXCEPT ![n] = "over"] /\ UNCHANGED refreshable
     \/ age[n] = "over" /\ n \in refreshable
        /\ refreshable' = refreshable \ {n} /\ UNCHANGED age
  /\ UNCHANGED <<stored, access, issued, flight, flowVars, logins, losses>>

----------------------------------------------------------------------------
\* Answers arrive.

\* An answer other than a 401, a network error included.
Answered(f) ==
  /\ pc[f] = "sent"
  /\ End(f)
  /\ UNCHANGED <<stored, age, serverVars, flight, logins, losses>>

\* A 401: handleUnauthorizedSession.
Unauthorized(f) ==
  /\ pc[f] = "sent" /\ using[f] \notin access
  /\ \/ flight = "running" /\ Join(f) /\ UNCHANGED flight
     \/ flight = "none" /\ StartRefresh(f) /\ UNCHANGED stored
     \/ flight = "settled" /\ stored' = None /\ End(f) /\ UNCHANGED flight
  /\ UNCHANGED <<age, serverVars, logins, losses>>

\* The shared refresh succeeds: the new pair is saved, and f and all that
\* joined it go on with fillSettingsState.
FlightForgotten == UNCHANGED flight \* (seeded bug: no finally)
FlightCleared == flight' = "none"
NobodyElse(f) == {f} \* (seeded bug: the promise of the others never settles)
Sharing(f) == {f} \cup {g \in Flows : pc[g] = "join"}
Refreshed(f) ==
  /\ pc[f] = "exchange" /\ call[f] = "issued"
  /\ stored' = got[f]
  /\ FlightCleared
  /\ pc' = [g \in Flows |-> IF g \in Sharing(f) THEN "sent" ELSE pc[g]]
  /\ using' = [g \in Flows |-> IF g \in Sharing(f) THEN got[f] ELSE using[g]]
  /\ call' = [call EXCEPT ![f] = "none"]
  /\ UNCHANGED <<age, serverVars, got, logins, losses>>

\* The shared refresh fails: f and all that joined it drop the session.
RefreshFailed(f) ==
  /\ pc[f] = "exchange" /\ call[f] \in {"refused", "lost"}
  /\ stored' = None
  /\ FlightCleared
  /\ pc' = [g \in Flows |-> IF g \in Sharing(f) THEN "idle" ELSE pc[g]]
  /\ call' = [call EXCEPT ![f] = "none"]
  /\ UNCHANGED <<age, serverVars, using, got, logins, losses>>

\* fillSettingsState's own refresh succeeds, or fails and it drops the session.
Restored(f) ==
  /\ pc[f] = "restore"
  /\ \/ /\ call[f] = "issued"
        /\ stored' = got[f]
        /\ pc' = [pc EXCEPT ![f] = "sent"]
        /\ using' = [using EXCEPT ![f] = got[f]]
     \/ /\ call[f] \in {"refused", "lost"}
        /\ stored' = None
        /\ pc' = [pc EXCEPT ![f] = "idle"]
        /\ UNCHANGED using
  /\ call' = [call EXCEPT ![f] = "none"]
  /\ UNCHANGED <<age, serverVars, flight, got, logins, losses>>

\* The timer's refresh succeeds, or fails and leaves the session alone.
Renewed(f) ==
  /\ pc[f] = "renew"
  /\ \/ /\ call[f] = "issued"
        /\ stored' = got[f]
        /\ pc' = [pc EXCEPT ![f] = "sent"]
        /\ using' = [using EXCEPT ![f] = got[f]]
     \/ /\ call[f] \in {"refused", "lost"}
        /\ pc' = [pc EXCEPT ![f] = "idle"]
        /\ UNCHANGED <<stored, using>>
  /\ call' = [call EXCEPT ![f] = "none"]
  /\ UNCHANGED <<age, serverVars, flight, got, logins, losses>>

----------------------------------------------------------------------------
\* At the start a pair of an earlier sitting, of any age, or none is stored.
Init ==
  /\ stored \in {None, 1}
  /\ age \in {[n \in Pairs |-> IF n = 1 THEN a ELSE "fresh"] :
                a \in {"fresh", "soon", "over"}}
  /\ issued = stored
  /\ access = 1..stored /\ refreshable = 1..stored
  /\ flight = "none"
  /\ pc = [f \in Flows |-> "idle"]
  /\ using = [f \in Flows |-> None]
  /\ call = [f \in Flows |-> "none"]
  /\ got = [f \in Flows |-> None]
  /\ logins = 0
  /\ losses = 0

Start(f) == Use(f) \/ OpenPanel(f) \/ BuildBase(f) \/ Tick(f)
Continue(f) ==
  \/ RefreshFind(f) \/ RefreshIssue(f) \/ RefreshBreaks(f)
  \/ Answered(f) \/ Unauthorized(f)
  \/ Refreshed(f) \/ RefreshFailed(f) \/ Restored(f) \/ Renewed(f)

Next ==
  \/ \E f \in Flows : Start(f) \/ Continue(f) \/ Lose(f)
  \/ \E n \in Pairs : AccessExpires(n) \/ Ages(n)
  \/ Login

Spec == Init /\ [][Next]_vars

\* The server answers what it is asked, and the event loop takes up answers.
FairSpec == Spec /\ \A f \in Flows : WF_vars(Continue(f))

----------------------------------------------------------------------------
\* Properties.

\* A refresh call is always made for a pair, and a flow has one exactly while
\* it waits for it.
TypeOK ==
  /\ stored \in 0..issued /\ issued \in 0..MaxPairs
  /\ age \in [Pairs -> {"fresh", "soon", "over"}]
  /\ access \subseteq 1..issued /\ refreshable \subseteq 1..issued
  /\ flight \in {"none", "running", "settled"}
  /\ pc \in [Flows -> Labels]
  /\ using \in [Flows -> 0..issued] /\ got \in [Flows -> 0..issued]
  /\ call \in [Flows -> {"none", "asked", "found", "issued", "refused", "lost"}]
  /\ logins \in 0..MaxLogins /\ losses \in 0..MaxLosses
  /\ \A f \in Flows :
       /\ call[f] = "none" <=> pc[f] \notin Refreshing
       /\ call[f] # "none" => using[f] # None
       /\ call[f] = "issued" => got[f] # None

\* refreshInFlight stands for one refresh: while it is running exactly one
\* flow performs it, otherwise none does, and only then may flows wait for it.
FlightHasOneRunner ==
  /\ \A f, g \in Flows : pc[f] = "exchange" /\ pc[g] = "exchange" => f = g
  /\ flight = "running" <=> \E f \in Flows : pc[f] = "exchange"
  /\ (\E f \in Flows : pc[f] = "join") => flight = "running"

\* The stored session could still be refreshed, and is removed.
LiveSessionDropped == stored \in refreshable /\ stored' = None

\* Flow f sees a refresh fail that does not speak against the stored session:
\* the answer got lost, or was about a pair that a login or a refresh outside
\* refreshInFlight has replaced meanwhile.
FailsFalsely(f) ==
  /\ call[f] \in {"refused", "lost"} /\ call'[f] = "none"
  /\ call[f] = "lost" \/ using[f] # stored

\* A session that could still be refreshed is dropped in two situations only:
\* when a refresh fails that does not speak against it, or when refreshInFlight
\* has been left settled.
LiveSessionKept ==
  [][LiveSessionDropped =>
       flight = "settled" \/ \E f \in Flows : FailsFalsely(f)]_vars

\* "会话过期自动刷新" (ARCHITECTURE.md): a session that could still be refreshed
\* is not dropped before the runtime has tried to refresh it.
RefreshedWhenExpired ==
  [][LiveSessionDropped => \E f \in Flows : FailsFalsely(f)]_vars

\* Whoever waits for a refresh, its own or another flow's, goes on.
RefreshesEnd ==
  \A f \in Flows :
    pc[f] \in Refreshing \cup {"join"} ~> pc[f] \in {"idle", "sent"}
============================================================================
