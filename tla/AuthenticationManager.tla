------------------------ MODULE AuthenticationManager ------------------------
(* The token store and refresh gate of the app, AuthenticationManager.swift,   *)
(* seen from the two threads that enter it: the main thread (screens asking    *)
(* for a token, sign-out) and the URLSession delegate queue (replies of the    *)
(* token endpoint, and the profile call that follows a login).  Nothing in the *)
(* class is locked, so every shared read or write is a step of its own.        *)
(*                                                                             *)
(* A token is the number of the reply that brought it, 0 is nil.  The expiry   *)
(* date of reply n is written n too: `expiring` is the newest reply whose date *)
(* is at most 300 s away, and dates are assumed to grow from reply to reply    *)
(* (the endpoint answers with the same expires_in).                            *)
EXTENDS Naturals, Sequences, FiniteSets

CONSTANTS
  Calls,    \* closures the screens pass to validateToke, on the main thread
  Logins,   \* closures LoginViewModel.login passes to it, on the delegate queue
  NoCall,   \* "no closure"
  MaxGen    \* bound: number of token replies, the one of the first launch included

Closures == Calls \cup Logins

ASSUME CallsAssumption == Calls \cap Logins = {}
ASSUME NoCallAssumption == NoCall \notin Closures
ASSUME MaxGenAssumption == MaxGen \in Nat \ {0}

VARIABLES
  accessToken, refreshToken, expirationDate,  \* UserDefaults
  isRefreshing, refresh,                      \* the flag and the parked closures
  refreshes,     \* closures whose refresh request is at the endpoint
  codes,         \* logins whose code is at the endpoint
  gen, expiring, \* replies decoded so far; those about to expire
  pc, arg,       \* per thread: the next step, and the closure it works for
  copy,          \* per thread: the array an append has read
  seen,          \* per thread: `expiring` when it found the token still good
  job,           \* what the delegate queue caches a reply of
  asked, answered, dropped, history  \* what happened to each closure

stored  == <<accessToken, refreshToken, expirationDate>>
memory  == <<isRefreshing, refresh>>
network == <<refreshes, codes>>
clock   == <<gen, expiring>>
control == <<pc, arg, copy, seen, job>>
fates   == <<asked, answered, dropped, history>>
vars    == <<stored, memory, network, clock, control, fates>>

Threads == {"main", "net"}
Caching == {"cacheAccess", "cacheRefresh", "cacheExpiry"}
SigningOut == {"signoutRefresh", "signoutExpiry"}
Validating == {"append", "store", "expiry", "direct", "reenter", "recheck", "claim", "raise"}
Steps == {"idle", "login", "drain", "clear", "finish"}
           \cup Caching \cup SigningOut \cup Validating
Events == {"failed", "signedOut", "killed", "raced", "loginClaim", "torn"}

(* The newest reply whose expiry date is, or is about to be, on record. *)
Dated == IF pc["net"] \in Caching THEN gen - 1 ELSE gen

Elements(s) == {s[i] : i \in DOMAIN s}
Parked == Elements(refresh)
Copies(r) == Cardinality({i \in DOMAIN refresh : refresh[i] = r})

----------------------------------------------------------------------------
Goto(th, step) == pc' = [pc EXCEPT ![th] = step]
Return(th) == Goto(th, "idle") /\ arg' = [arg EXCEPT ![th] = NoCall]
Answer(r) == answered' = [answered EXCEPT ![r] = @ + 1]
Drop(r) == dropped' = dropped \cup {r}

(* The app starts with what an earlier run left in UserDefaults. *)
Init ==
  /\ \/ accessToken = 1 /\ refreshToken = TRUE /\ expirationDate = 1
          /\ gen = 1 /\ history = {}
     \/ accessToken = 0 /\ refreshToken = FALSE /\ expirationDate = 0
          /\ gen = 0 /\ history = {"signedOut"}
  /\ isRefreshing = FALSE /\ refresh = <<>>
  /\ refreshes = {} /\ codes = {}
  /\ expiring = 0
  /\ pc = [th \in Threads |-> "idle"]
  /\ arg = [th \in Threads |-> NoCall]
  /\ copy = [th \in Threads |-> <<>>]
  /\ seen = [th \in Threads |-> 0]
  /\ job = "none"
  /\ asked = {} /\ dropped = {}
  /\ answered = [r \in Closures |-> 0]

----------------------------------------------------------------------------
(* validateToke *)

(* shouldRefreshToken, with an off-by-one at the margin. *)
ShouldRefreshLate == expirationDate # 0 /\ expirationDate < expiring

ShouldRefreshToken == expirationDate # 0 /\ expirationDate <= expiring

(* A screen calls on main, login() on the queue that ran the code's reply; the *)
(* first thing read is the flag.                                               *)
ValidateToke(th, r) ==
  /\ \/ th = "main" /\ pc[th] = "idle" /\ r \in Calls \ asked
     \/ th = "net" /\ pc[th] = "login" /\ r = arg[th]
  /\ Goto(th, IF isRefreshing THEN "append" ELSE "expiry")
  /\ arg' = [arg EXCEPT ![th] = r]
  /\ asked' = asked \cup {r}
  /\ UNCHANGED <<stored, memory, network, clock, copy, seen, job, answered, dropped, history>>

(* refresh.append(completion): an unlocked read-modify-write of the array. *)
AppendLoad(th) ==
  /\ pc[th] = "append"
  /\ copy' = [copy EXCEPT ![th] = refresh]
  /\ Goto(th, "store")
  /\ UNCHANGED <<stored, memory, network, clock, arg, seen, job, fates>>

AppendStoreForgotten(th) ==
  /\ pc[th] = "store"
  /\ refresh' = Append(copy[th], NoCall)
  /\ copy' = [copy EXCEPT ![th] = <<>>]
  /\ Return(th)
  /\ UNCHANGED <<stored, isRefreshing, network, clock, seen, job, fates>>

AppendStore(th) ==
  /\ pc[th] = "store"
  /\ refresh' = Append(copy[th], arg[th])
  /\ copy' = [copy EXCEPT ![th] = <<>>]
  /\ history' = IF \E o \in Threads \ {th} : pc[o] \in {"clear", "store"}
                  THEN history \cup {"raced"} ELSE history
  /\ Return(th)
  /\ UNCHANGED <<stored, isRefreshing, network, clock, seen, job, asked, answered, dropped>>

CheckExpiry(th) ==
  /\ pc[th] = "expiry"
  /\ \/ ShouldRefreshToken /\ Goto(th, "reenter") /\ UNCHANGED seen
     \/ ~ShouldRefreshToken /\ Goto(th, "direct") /\ seen' = [seen EXCEPT ![th] = expiring]
  /\ UNCHANGED <<stored, memory, network, clock, arg, copy, job, fates>>

(* `if let token = accessToken`, both in validateToke and in its refresh closure. *)
ReadToken(th) ==
  /\ pc[th] = "direct"
  /\ \/ accessToken # 0 /\ Answer(arg[th]) /\ UNCHANGED dropped
     \/ accessToken = 0 /\ Drop(arg[th]) /\ UNCHANGED answered
  /\ seen' = [seen EXCEPT ![th] = 0]
  /\ Return(th)
  /\ UNCHANGED <<stored, memory, network, clock, copy, job, asked, history>>

----------------------------------------------------------------------------
(* refreshToken *)

RefreshGuard(th) ==
  /\ pc[th] = "reenter"
  /\ \/ isRefreshing /\ Drop(arg[th]) /\ Return(th)
     \/ ~isRefreshing /\ Goto(th, "recheck") /\ UNCHANGED <<arg, dropped>>
  /\ UNCHANGED <<stored, memory, network, clock, copy, seen, job, asked, answered, history>>

Recheck(th) ==
  /\ pc[th] = "recheck"
  /\ \/ ShouldRefreshToken /\ Goto(th, "claim") /\ UNCHANGED seen
     \/ ~ShouldRefreshToken /\ Goto(th, "direct") /\ seen' = [seen EXCEPT ![th] = expiring]
  /\ UNCHANGED <<stored, memory, network, clock, arg, copy, job, fates>>

ReadRefreshToken(th) ==
  /\ pc[th] = "claim"
  /\ \/ refreshToken /\ Goto(th, "raise") /\ UNCHANGED <<arg, dropped>>
     \/ ~refreshToken /\ Drop(arg[th]) /\ Return(th)
  /\ UNCHANGED <<stored, memory, network, clock, copy, seen, job, asked, answered, history>>

SendWithoutRaising(th) ==
  /\ pc[th] = "raise"
  /\ refreshes' = refreshes \cup {arg[th]}
  /\ Return(th)
  /\ UNCHANGED <<stored, memory, codes, clock, copy, seen, job, fates>>

(* The flag goes up and the request goes out; the closure travels with it. *)
Raise(th) ==
  /\ pc[th] = "raise"
  /\ isRefreshing' = TRUE
  /\ refreshes' = refreshes \cup {arg[th]}
  /\ history' = IF th = "net" THEN history \cup {"loginClaim"} ELSE history
  /\ Return(th)
  /\ UNCHANGED <<stored, refresh, codes, clock, copy, seen, job, asked, answered, dropped>>

----------------------------------------------------------------------------
(* Replies, on the delegate queue *)

(* The flag falls only where the token is cached. *)
RefreshFailedFlagUp(q) ==
  /\ pc["net"] = "idle" /\ q \in refreshes
  /\ refreshes' = refreshes \ {q}
  /\ Drop(q)
  /\ history' = history \cup {"failed"}
  /\ UNCHANGED <<stored, memory, codes, clock, control, asked, answered>>

(* A refresh reply: the flag falls first; a transport or decoding error ends   *)
(* with completion(false), which calls nobody and leaves the parked closures.  *)
RefreshFailed(q) ==
  /\ pc["net"] = "idle" /\ q \in refreshes
  /\ refreshes' = refreshes \ {q}
  /\ isRefreshing' = FALSE
  /\ Drop(q)
  /\ history' = history \cup {"failed"}
  /\ UNCHANGED <<stored, refresh, codes, clock, control, asked, answered>>

RefreshSucceeded(q) ==
  /\ pc["net"] = "idle" /\ q \in refreshes
  /\ gen < MaxGen /\ gen' = gen + 1
  /\ refreshes' = refreshes \ {q}
  /\ isRefreshing' = FALSE
  /\ Goto("net", "cacheAccess")
  /\ arg' = [arg EXCEPT !["net"] = q]
  /\ job' = "refresh"
  /\ UNCHANGED <<stored, refresh, codes, expiring, copy, seen, fates>>

(* LoginViewModel.code reaches generateToken. *)
GenerateToken(c) ==
  /\ pc["main"] = "idle" /\ c \in Logins \ asked
  /\ codes' = codes \cup {c}
  /\ asked' = asked \cup {c}
  /\ UNCHANGED <<stored, memory, refreshes, clock, control, answered, dropped, history>>

CodeFailed(c) ==
  /\ pc["net"] = "idle" /\ c \in codes
  /\ codes' = codes \ {c}
  /\ Drop(c)
  /\ UNCHANGED <<stored, memory, refreshes, clock, control, asked, answered, history>>

CodeSucceeded(c) ==
  /\ pc["net"] = "idle" /\ c \in codes
  /\ gen < MaxGen /\ gen' = gen + 1
  /\ codes' = codes \ {c}
  /\ Goto("net", "cacheAccess")
  /\ arg' = [arg EXCEPT !["net"] = c]
  /\ job' = "code"
  /\ UNCHANGED <<stored, memory, refreshes, expiring, copy, seen, fates>>

(* cacheToken, three writes in this order.  It is `torn` when a sign-out is    *)
(* half done: the date it writes may be erased after the token it wrote.       *)
CacheAccessDateFirst ==
  /\ pc["net"] = "cacheAccess"
  /\ expirationDate' = gen
  /\ Goto("net", "cacheRefresh")
  /\ UNCHANGED <<accessToken, refreshToken, memory, network, clock, arg, copy, seen, job, fates>>

CacheAccess ==
  /\ pc["net"] = "cacheAccess"
  /\ accessToken' = gen
  /\ history' = IF pc["main"] \in SigningOut THEN history \cup {"torn"} ELSE history
  /\ Goto("net", "cacheRefresh")
  /\ UNCHANGED <<refreshToken, expirationDate, memory, network, clock, arg, copy, seen, job,
                 asked, answered, dropped>>

CacheRefreshAlways ==
  /\ pc["net"] = "cacheRefresh"
  /\ refreshToken' \in BOOLEAN
  /\ Goto("net", "cacheExpiry")
  /\ UNCHANGED <<accessToken, expirationDate, memory, network, clock, arg, copy, seen, job, fates>>

(* The reply may carry no refresh token; the old one, if any, then stays. *)
CacheRefresh ==
  /\ pc["net"] = "cacheRefresh"
  /\ refreshToken' \in {refreshToken, TRUE}
  /\ Goto("net", "cacheExpiry")
  /\ UNCHANGED <<accessToken, expirationDate, memory, network, clock, arg, copy, seen, job, fates>>

CacheExpiryNoDrain ==
  /\ pc["net"] = "cacheExpiry"
  /\ expirationDate' = gen
  /\ Goto("net", IF job = "refresh" THEN "finish" ELSE "login")
  /\ job' = "none"
  /\ UNCHANGED <<accessToken, refreshToken, memory, network, clock, arg, copy, seen, fates>>

CacheExpiry ==
  /\ pc["net"] = "cacheExpiry"
  /\ expirationDate' = gen
  /\ Goto("net", IF job = "refresh" THEN "drain" ELSE "login")
  /\ job' = IF job = "refresh" THEN job ELSE "none"
  /\ UNCHANGED <<accessToken, refreshToken, memory, network, clock, arg, copy, seen, fates>>

(* removeAll before forEach. *)
DrainEmptied ==
  /\ pc["net"] = "drain"
  /\ refresh' = <<>>
  /\ Goto("net", "clear")
  /\ UNCHANGED <<stored, isRefreshing, network, clock, arg, copy, seen, job, fates>>

(* refresh.forEach: iterates over the array as it is now. *)
Drain ==
  /\ pc["net"] = "drain"
  /\ answered' = [r \in Closures |-> answered[r] + Copies(r)]
  /\ Goto("net", "clear")
  /\ UNCHANGED <<stored, memory, network, clock, arg, copy, seen, job, asked, dropped, history>>

ClearForgotten ==
  /\ pc["net"] = "clear"
  /\ Goto("net", "finish")
  /\ job' = "none"
  /\ UNCHANGED <<stored, memory, network, clock, arg, copy, seen, fates>>

(* refresh.removeAll(), whatever joined the array meanwhile. *)
Clear ==
  /\ pc["net"] = "clear"
  /\ refresh' = <<>>
  /\ history' = IF pc["main"] \in {"append", "store"} THEN history \cup {"raced"} ELSE history
  /\ Goto("net", "finish")
  /\ job' = "none"
  /\ UNCHANGED <<stored, isRefreshing, network, clock, arg, copy, seen, asked, answered, dropped>>

FinishSilently ==
  /\ pc["net"] = "finish"
  /\ Return("net")
  /\ UNCHANGED <<stored, memory, network, clock, copy, seen, job, fates>>

(* completion(true): the closure that started the refresh reads the token. *)
Finish ==
  /\ pc["net"] = "finish"
  /\ \/ accessToken # 0 /\ Answer(arg["net"]) /\ UNCHANGED dropped
     \/ accessToken = 0 /\ Drop(arg["net"]) /\ UNCHANGED answered
  /\ Return("net")
  /\ UNCHANGED <<stored, memory, network, clock, copy, seen, job, asked, history>>

----------------------------------------------------------------------------
(* signout, three writes in this order *)

SignOutKeepsAccess ==
  /\ pc["main"] = "idle"
  /\ history' = history \cup {"signedOut"}
  /\ Goto("main", "signoutRefresh")
  /\ UNCHANGED <<stored, memory, network, clock, arg, copy, seen, job, asked, answered, dropped>>

SignOutAccess ==
  /\ pc["main"] = "idle"
  /\ accessToken' = 0
  /\ history' = history \cup {"signedOut"}
  /\ Goto("main", "signoutRefresh")
  /\ UNCHANGED <<refreshToken, expirationDate, memory, network, clock, arg, copy, seen, job,
                 asked, answered, dropped>>

SignOutRefresh ==
  /\ pc["main"] = "signoutRefresh"
  /\ refreshToken' = FALSE
  /\ Goto("main", "signoutExpiry")
  /\ UNCHANGED <<accessToken, expirationDate, memory, network, clock, arg, copy, seen, job, fates>>

SignOutExpiry ==
  /\ pc["main"] = "signoutExpiry"
  /\ expirationDate' = 0
  /\ Goto("main", "idle")
  /\ UNCHANGED <<accessToken, refreshToken, memory, network, clock, arg, copy, seen, job, fates>>

----------------------------------------------------------------------------
(* The environment *)

Age ==
  /\ expiring < Dated
  /\ expiring' = expiring + 1
  /\ UNCHANGED <<stored, memory, network, gen, control, fates>>

(* The process is killed and launched again: UserDefaults survives, the flag,  *)
(* the parked closures and the requests do not.                                *)
Kill ==
  /\ isRefreshing' = FALSE /\ refresh' = <<>>
  /\ refreshes' = {} /\ codes' = {}
  /\ pc' = [th \in Threads |-> "idle"]
  /\ arg' = [th \in Threads |-> NoCall]
  /\ copy' = [th \in Threads |-> <<>>]
  /\ seen' = [th \in Threads |-> 0]
  /\ job' = "none"
  /\ dropped' = dropped \cup {r \in asked : answered[r] = 0}
  /\ history' = history \cup {"killed"}
       \cup (IF pc["net"] \in {"cacheRefresh", "cacheExpiry"} THEN {"torn"} ELSE {})
  /\ UNCHANGED <<stored, clock, asked, answered>>

----------------------------------------------------------------------------
Continue(th) ==
  \/ AppendLoad(th) \/ AppendStore(th) \/ CheckExpiry(th) \/ ReadToken(th)
  \/ RefreshGuard(th) \/ Recheck(th) \/ ReadRefreshToken(th) \/ Raise(th)

Main == SignOutRefresh \/ SignOutExpiry \/ Continue("main")

Net ==
  \/ CacheAccess \/ CacheRefresh \/ CacheExpiry \/ Drain \/ Clear \/ Finish
  \/ \E c \in Logins : ValidateToke("net", c)
  \/ Continue("net")

RefreshReply(q) == RefreshFailed(q) \/ RefreshSucceeded(q)
CodeReply(c) == CodeFailed(c) \/ CodeSucceeded(c)

User ==
  \/ \E r \in Calls : ValidateToke("main", r)
  \/ \E c \in Logins : GenerateToken(c)
  \/ SignOutAccess

Next ==
  \/ User \/ Main \/ Net
  \/ \E q \in Closures : RefreshReply(q)
  \/ \E c \in Logins : CodeReply(c)
  \/ Age \/ Kill

(* A thread that has work goes on with it, and URLSession calls the completion *)
(* of every task (at the latest when the request times out).  Nobody has to    *)
(* call, sign out, kill the app, or let time pass.                             *)
Fairness ==
  /\ WF_vars(Main) /\ WF_vars(Net)
  /\ \A q \in Closures : WF_vars(RefreshReply(q))
  /\ \A c \in Logins : WF_vars(CodeReply(c))

Spec == Init /\ [][Next]_vars
FairSpec == Spec /\ Fairness

----------------------------------------------------------------------------
TypeOK ==
  /\ accessToken \in 0..MaxGen /\ expirationDate \in 0..MaxGen
  /\ refreshToken \in BOOLEAN /\ isRefreshing \in BOOLEAN
  /\ refresh \in Seq(Closures)
  /\ refreshes \subseteq Closures /\ codes \subseteq Logins
  /\ gen \in 0..MaxGen /\ expiring \in 0..MaxGen
  /\ pc \in [Threads -> Steps]
  /\ arg \in [Threads -> Closures \cup {NoCall}]
  /\ \A th \in Threads : pc[th] \notin {"idle"} \cup SigningOut => arg[th] \in Closures
  /\ copy \in [Threads -> Seq(Closures)]
  /\ seen \in [Threads -> 0..MaxGen]
  /\ job \in {"none", "refresh", "code"}
  /\ asked \subseteq Closures /\ dropped \subseteq Closures
  /\ answered \in [Closures -> Nat]
  /\ history \subseteq Events

(* validateToke looks at the date and later at the token, with the other      *)
(* thread free to run in between: the token a closure is handed still is one  *)
(* that was outside the 300 s margin when the date was looked at.             *)
DirectTokenWasFresh ==
  "torn" \notin history =>
    \A th \in Threads : pc[th] = "direct" /\ accessToken # 0 => accessToken > seen[th]

(* cacheToken writes the token before the date, so between the writes (and    *)
(* after a kill there) the date on record is never newer than the token.      *)
ExpiryVouchesForToken == accessToken # 0 => expirationDate <= accessToken

(* A token without a date is never refreshed (shouldRefreshToken is false for *)
(* nil); one is left behind only by a reply torn by a sign-out or a kill.     *)
NoImmortalToken ==
  "torn" \notin history =>
    (accessToken # 0 /\ expirationDate = 0 => pc["net"] \in {"cacheRefresh", "cacheExpiry"})

(* Each closure handed to the manager is in one place: being worked on, on    *)
(* its way with a request, parked, called once, or given up for good.  Only   *)
(* the unlocked append can lose or double one.                                *)
InHand(r) == Cardinality({th \in Threads : arg[th] = r})
Waiting(r) == IF pc["net"] = "clear" THEN 0 ELSE Copies(r)
OneIf(b) == IF b THEN 1 ELSE 0
CallsAccounted ==
  "raced" \notin history =>
    \A r \in asked : InHand(r) + Waiting(r) + answered[r] + OneIf(r \in refreshes)
                       + OneIf(r \in codes) + OneIf(r \in dropped) = 1

(* A closure stays parked without a refresh that would call it only after a   *)
(* refresh has failed, or when its append came too late.                      *)
StrandedOnlyAfterFailure ==
  Parked # {} /\ refreshes = {} /\ job # "refresh" => history \cap {"failed", "raced"} # {}

(* The flag keeps the screens to one refresh at a time; only a login that     *)
(* finds its own new token expiring can start a second one from the queue.    *)
SingleRefresh == "loginClaim" \notin history => \A p, q \in refreshes : p = q

(* Signed in, with no failed reply, kill, sign-out or race, validateToke      *)
(* leaves no screen without an answer: its silent returns are not reached.    *)
QuietSessionNeverDrops ==
  history = {} => dropped \cap Calls = {}

(* Where a closure that has not been called can still be. *)
Places ==
  {arg[th] : th \in Threads} \cup Parked \cup refreshes \cup codes
    \cup UNION {Elements(copy[th]) : th \in Threads}
Lost == {r \in asked \ Places : answered[r] = 0}

(* The manager is a TokenGate.  A closure is lost when it is nowhere any more, *)
(* whether some step gave it up or merely forgot it.                           *)
Gate == INSTANCE TokenGate WITH
  calls <- answered, lost <- Lost, disturbed <- history # {}, raced <- "raced" \in history
GateSpec == Gate!Spec

(* The flag comes down again, however the refresh ends. *)
RefreshFlagFalls == isRefreshing ~> ~isRefreshing

(* Every closure is called or given up, save those a failed refresh strands   *)
(* and those the unlocked array loses.                                        *)
CallSettles ==
  \A r \in Closures : r \in asked ~>
    (answered[r] > 0 \/ r \in dropped \/ history \cap {"failed", "raced"} # {})
=============================================================================
