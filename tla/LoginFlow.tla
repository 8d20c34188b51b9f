------------------------------ MODULE LoginFlow ------------------------------
(***************************************************************************)
(* A login through the browser: the plugin creates a login session and     *)
(* polls it, the login page confirms it with an e-mailed code or through   *)
(* WeChat, and the plugin exchanges its token for an access token.  Every  *)
(* handler of the server reads the session, from Redis or else from        *)
(* PostgreSQL, changes its own copy and writes all of it back to both.     *)
(*                                                                         *)
(* A session stands for the user who has the address it notes.  A session  *)
(* does not expire (its lifetime is five months).                          *)
(***************************************************************************)
EXTENDS Naturals, FiniteSets

CONSTANTS
  Logins,    \* the login sessions the plugin may create
  Browsers,  \* requests of the login page that may be under way at a time
  Addresses, \* what users type as their e-mail address
  Placeholder, \* the address of a user who has only come through WeChat
  Nobody,    \* no login, no address
  MaxTokens, \* bound: exchange tokens made
  MaxRequests \* bound: requests of the login page
ASSUME LoginAssumption ==
  /\ Logins \cap Browsers = {} /\ Nobody \notin Logins
  /\ Nobody \notin Addresses \cup {Placeholder}

VARIABLES
  row, cached,  \* the session in auth_login_sessions, and in Redis
  codes,        \* sessions a code was sent for
  states,       \* copies of a session's WeChat state that are left
  users,        \* the addresses that the table of users knows
  call,         \* what each login of the plugin and each request is doing
  active,       \* internals.activeLoginSession
  stopped,      \* logins whose `stopped' is set
  stored,       \* the login whose tokens the session store holds
  minted,       \* exchange tokens made
  requests,     \* counts the requests of the login page, for the bound
  disturbed     \* history: sessions with a fault, two writers at once, a
                \* second confirmation, or another user's code after the first

serverVars == <<row, cached, codes, states, users, minted>>
pluginVars == <<active, stopped, stored, requests>>
loginVars == <<serverVars, call, pluginVars, disturbed>>

Absent == [status |-> "none", email |-> Nobody, token |-> 0]
Pending == [status |-> "pending", email |-> Nobody, token |-> 0]
Callers == Logins \cup Browsers
\* A call of one kind for a session: the copy it holds, the token it exchanges.
Does(kind, s, pc, seen, want) ==
  [kind |-> kind, login |-> s, pc |-> pc, seen |-> seen, want |-> want]
NotCalling(pc) == Does("none", Nobody, pc, Absent, 0)
LoginSteps == {"idle", "find", "copy", "savePg", "saveRedis", "code", "open", "store",
               "done", "failed", "stopped"}

LoginInit ==
  /\ row = [s \in Logins |-> Absent] /\ cached = row
  /\ codes = {} /\ states = [s \in Logins |-> 0] /\ minted = 0
  /\ users \in SUBSET Addresses
  /\ call = [c \in Callers |-> NotCalling("idle")]
  /\ active = Nobody /\ stopped = {} /\ stored = Nobody
  /\ requests = 0 /\ disturbed = {}

At(c, pc) == call[c].pc = pc
Of(c) == call[c].login
Seen(c) == call[c].seen
Disturb(s) == disturbed' = disturbed \cup {s}
CallIs(c, next) == call' = [call EXCEPT ![c] = next]
To(c, pc) == CallIs(c, [call[c] EXCEPT !.pc = pc])
\* The call is over; what it read is gone.
End(c, pc) == CallIs(c, NotCalling(pc))
\* A call that fails: the page may try again, the login is over.
Fail(c) == End(c, IF c \in Logins THEN "failed" ELSE "idle")
Write(c, kind, session) == CallIs(c, Does(kind, Of(c), "savePg", session, 0))

----------------------------------------------------------------------------
\* startLogin: a new session.
StartLogin(s) ==
  /\ At(s, "idle")
  /\ CallIs(s, Does("create", s, "savePg", Pending, 0))
  /\ UNCHANGED <<serverVars, pluginVars, disturbed>>
\* The page is open: an older login is told to stop, and this one polls.
PollBegins(s) ==
  /\ At(s, "open")
  /\ stopped' = stopped \cup ({active} \ {Nobody}) /\ active' = s
  /\ CallIs(s, Does("poll", s, "find", Absent, 0))
  /\ UNCHANGED <<serverVars, stored, requests, disturbed>>

\* The page of an open session sends a request.  (What it sends when the login
\* of the plugin is over is left out.)
Open(s) == call[s].login = s /\ call[s].kind # "create"
Request(b, s, kind) ==
  /\ At(b, "idle") /\ Open(s)
  /\ kind = "verify" => s \in codes
  /\ CallIs(b, Does(kind, s, "find", Absent, 0))
  /\ requests < MaxRequests /\ requests' = requests + 1
  /\ UNCHANGED <<serverVars, active, stopped, stored, disturbed>>

\* CompleteWechatLogin takes the state first: from Redis, where it is gone
\* then, and after that the copy in PostgreSQL once more.  WeChat resolves its
\* code only once.
ConsumeWechatState(b, s) ==
  /\ At(b, "idle") /\ Open(s) /\ states[s] > 0
  /\ states' = [states EXCEPT ![s] = @ - 1]
  /\ IF states[s] = 2 THEN CallIs(b, Does("callback", s, "find", Absent, 0)) ELSE UNCHANGED call
  /\ UNCHANGED <<row, cached, codes, users, minted, pluginVars, disturbed>>

----------------------------------------------------------------------------
\* FindLoginSession: the copy in Redis; without one, or without an answer of
\* Redis, the row, which is then copied to Redis if that succeeds.  What the
\* handlers do with it is below, under `Finds' and `Found'.
Found(c) == IF At(c, "copy") THEN Seen(c) ELSE cached[Of(c)]
Finds(c) ==
  \/ At(c, "find") /\ cached[Of(c)] # Absent /\ UNCHANGED cached
  \/ At(c, "copy") /\ cached' \in {cached, [cached EXCEPT ![Of(c)] = Seen(c)]}
ReadRow(c) ==
  /\ At(c, "find")
  /\ CallIs(c, Does(call[c].kind, Of(c), "copy", row[Of(c)], call[c].want))
  /\ IF cached[Of(c)] = Absent THEN UNCHANGED disturbed ELSE Disturb(Of(c))
  /\ UNCHANGED <<serverVars, pluginVars>>
\* Redis drops its copy after loginSessionTTL.
CacheExpires(s) ==
  /\ cached[s] # Absent /\ cached' = [cached EXCEPT ![s] = Absent]
  /\ UNCHANGED <<row, codes, states, users, minted, call, pluginVars, disturbed>>

\* A read that fails in both stores, for anyone but a poll.
FindFails(c) ==
  /\ At(c, "find") /\ call[c].kind # "poll"
  /\ Fail(c) /\ IF c \in Logins THEN Disturb(Of(c)) ELSE UNCHANGED disturbed
  /\ UNCHANGED <<serverVars, pluginVars>>

\* SaveLoginSession: the row, then Redis; an error ends the call.
Overlapped(c) ==
  \E d \in Callers \ {c} : Of(d) = Of(c) /\ call[d].pc \in {"copy", "savePg", "saveRedis"}
NoteOverlap(c) == IF Overlapped(c) THEN Disturb(Of(c)) ELSE UNCHANGED disturbed
SaveRow(c) ==
  /\ At(c, "savePg") /\ To(c, "saveRedis") /\ NoteOverlap(c)
  /\ row' = [row EXCEPT ![Of(c)] = Seen(c)]
  /\ UNCHANGED <<cached, codes, states, users, minted, pluginVars>>
AfterSave(c) ==
  CASE call[c].kind = "create" -> To(c, "open")
    [] call[c].kind = "send" -> To(c, "code")
    [] call[c].kind = "exchange" -> To(c, "store")
    [] OTHER -> End(c, "idle")
SaveCacheSkipped(c) == \* (seeded bug: a confirmation does not reach Redis)
  /\ At(c, "saveRedis") /\ AfterSave(c) /\ NoteOverlap(c)
  /\ cached' = IF call[c].kind \in {"verify", "callback"} THEN cached ELSE [cached EXCEPT ![Of(c)] = Seen(c)]
  /\ UNCHANGED <<row, codes, states, users, minted, pluginVars>>
SaveCache(c) ==
  /\ At(c, "saveRedis") /\ AfterSave(c) /\ NoteOverlap(c)
  /\ cached' = [cached EXCEPT ![Of(c)] = Seen(c)]
  /\ UNCHANGED <<row, codes, states, users, minted, pluginVars>>
SaveFails(c) ==
  /\ call[c].pc \in {"savePg", "saveRedis"}
  /\ Fail(c)
  /\ IF c \in Logins \/ At(c, "saveRedis") THEN Disturb(Of(c)) ELSE UNCHANGED disturbed
  /\ UNCHANGED <<serverVars, pluginVars>>

----------------------------------------------------------------------------
\* SendEmailCode notes the address, in whatever state the session is; the code
\* is saved after that.  Once the page has succeeded, the address of someone
\* who has no account takes the login from the user who confirmed it.
NoteOtherUser(b, a) ==
  IF Found(b).status = "success" /\ a \notin users THEN Disturb(Of(b)) ELSE UNCHANGED disturbed
SendResetting(b) == \* (seeded bug: a code that is sent again starts the login anew)
  /\ call[b].kind = "send" /\ Finds(b)
  /\ \E a \in Addresses : Write(b, "send", [Pending EXCEPT !.email = a]) /\ NoteOtherUser(b, a)
  /\ UNCHANGED <<row, codes, states, users, minted, pluginVars>>
SendEmailCode(b) ==
  /\ call[b].kind = "send" /\ Finds(b)
  /\ \E a \in Addresses : Write(b, "send", [Found(b) EXCEPT !.email = a]) /\ NoteOtherUser(b, a)
  /\ UNCHANGED <<row, codes, states, users, minted, pluginVars>>
SaveEmailCode(b) ==
  /\ At(b, "code") /\ End(b, "idle") /\ codes' = codes \cup {Of(b)}
  /\ UNCHANGED <<row, cached, states, users, minted, pluginVars, disturbed>>

\* VerifyEmailCode and CompleteWechatLogin: the user is looked up or made, and
\* the session gets an exchange token, a new one each time.  The code proves the
\* address the session notes; WeChat knows a user, with whatever address, or a
\* new one is made.
Proven(b) == CASE call[b].kind = "verify" -> Addresses \cap {Found(b).email}
               [] call[b].kind = "callback" -> users \cup {Placeholder}
               [] OTHER -> {}
Confirm(b) ==
  /\ Finds(b) /\ minted < MaxTokens /\ minted' = minted + 1
  /\ \E a \in Proven(b) :
       /\ users' = users \cup {a}
       /\ Write(b, call[b].kind, [status |-> "success", email |-> a, token |-> minted + 1])
  /\ IF Found(b).status = "success" THEN Disturb(Of(b)) ELSE UNCHANGED disturbed
  /\ UNCHANGED <<row, codes, states, pluginVars>>
\* The address is not the one of the session, or WeChat or the user table
\* fails.
ConfirmFails(b) ==
  /\ call[b].kind \in {"verify", "callback"} /\ Finds(b) /\ End(b, "idle")
  /\ UNCHANGED <<row, codes, states, users, minted, pluginVars, disturbed>>

BuildWechatAuthorizeURL(b) ==
  /\ call[b].kind = "url" /\ Finds(b) /\ End(b, "idle")
  /\ states' = [states EXCEPT ![Of(b)] = 2]
  /\ UNCHANGED <<row, codes, users, minted, pluginVars, disturbed>>

----------------------------------------------------------------------------
\* waitLoginSuccess: the poll waits in the server and asks again; a success
\* is exchanged unless the login was stopped.
Poll(s) ==
  /\ call[s].kind = "poll" /\ Finds(s)
  /\ IF Found(s).status = "success" /\ s \in stopped
       THEN End(s, "stopped")
       ELSE CallIs(s, Does(IF Found(s).status = "success" THEN "exchange" ELSE "poll",
                            s, "find", Absent, Found(s).token))
  /\ UNCHANGED <<row, codes, states, users, minted, active, stopped, stored, requests, disturbed>>
\* Three polls in a row fail, or ten minutes are over.
PollGivesUp(s) ==
  /\ At(s, "find") /\ call[s].kind = "poll"
  /\ Fail(s) /\ Disturb(s)
  /\ UNCHANGED <<serverVars, pluginVars>>

\* ExchangeToken: the token is checked, the user looked up by the session's
\* address and the pair issued, then the session is saved without the token.
ExchangeToken(s) ==
  /\ call[s].kind = "exchange" /\ Finds(s)
  /\ IF Found(s).status = "success" /\ Found(s).token = call[s].want /\ Found(s).email \in users
       THEN Write(s, "exchange", [Found(s) EXCEPT !.token = 0])
       ELSE Fail(s)
  /\ UNCHANGED <<row, codes, states, users, minted, pluginVars, disturbed>>
\* The session store is written, also if the login was stopped meanwhile.  The
\* answer may be lost before that.
StoreSession(s) ==
  /\ At(s, "store") /\ End(s, "done")
  /\ stored' = s /\ stopped' = stopped \cup {s}
  /\ UNCHANGED <<serverVars, active, requests, disturbed>>
AnswerLost(s) ==
  /\ At(s, "store") /\ Fail(s) /\ Disturb(s)
  /\ UNCHANGED <<serverVars, pluginVars>>

CallStep(c) ==
  \/ ReadRow(c) \/ FindFails(c) \/ SaveRow(c) \/ SaveCache(c) \/ SaveFails(c)
PageStep(b) ==
  \/ CallStep(b) \/ SendEmailCode(b) \/ SaveEmailCode(b) \/ Confirm(b) \/ ConfirmFails(b)
  \/ BuildWechatAuthorizeURL(b)
PluginStep(s) ==
  \/ CallStep(s) \/ PollBegins(s) \/ Poll(s) \/ PollGivesUp(s)
  \/ ExchangeToken(s) \/ AnswerLost(s) \/ StoreSession(s)

LoginNext ==
  \/ \E b \in Browsers : PageStep(b)
  \/ \E s \in Logins : StartLogin(s) \/ PluginStep(s) \/ CacheExpires(s)
  \/ \E b \in Browsers, s \in Logins :
       \/ \E kind \in {"send", "verify", "url"} : Request(b, s, kind)
       \/ ConsumeWechatState(b, s)

\* Handlers and the poll go on.
LoginFairness ==
  /\ \A b \in Browsers : WF_loginVars(PageStep(b))
  /\ \A s \in Logins : WF_loginVars(PluginStep(s))
LoginSpec == LoginInit /\ [][LoginNext]_loginVars /\ LoginFairness

----------------------------------------------------------------------------
\* Properties.

Sessions ==
  [status : {"none", "pending", "success"}, email : Addresses \cup {Placeholder, Nobody}, token : Nat]
PageKinds == {"none", "send", "verify", "url", "callback"}
PluginKinds == {"none", "create", "poll", "exchange"}
CallRecords ==
  [kind : PageKinds \cup PluginKinds, login : Logins \cup {Nobody}, pc : LoginSteps,
   seen : Sessions, want : Nat]
LoginTypeOK ==
  /\ row \in [Logins -> Sessions] /\ cached \in [Logins -> Sessions]
  /\ codes \subseteq Logins /\ states \in [Logins -> 0..2] /\ minted \in Nat
  /\ users \subseteq Addresses \cup {Placeholder}
  /\ call \in [Callers -> CallRecords]
  /\ active \in Logins \cup {Nobody} /\ stored \in Logins \cup {Nobody}
  /\ stopped \subseteq Logins /\ requests \in Nat /\ disturbed \subseteq Logins

\* A login fails only for a reason: a call that failed, the time limit, two
\* handlers that wrote the session at once, a second confirmation that took
\* the place of the first, or a code that the page of a confirmed login asked
\* for under the address of someone without an account.  In particular asking
\* for another code after the page succeeded takes nothing from the plugin as
\* long as the address is a user's.
LoginNotLost == \A s \in Logins : At(s, "failed") => s \in disturbed

\* A login the page has confirmed reaches the plugin, unless it was stopped or
\* disturbed.
ConfirmedLoginEnds ==
  \A s \in Logins : row[s].status = "success" ~> (stored = s \/ s \in stopped \cup disturbed)
=============================================================================
