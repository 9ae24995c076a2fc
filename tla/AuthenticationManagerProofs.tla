---------------------- MODULE AuthenticationManagerProofs ----------------------
(* What AuthenticationManager guarantees for any number of screens, logins and *)
(* token replies.                                                              *)
EXTENDS AuthenticationManager, FiniteSetTheorems, TLAPS

(* Why the token handed out is fresh.  No recorded date is newer than Dated,   *)
(* none newer than the token; while a reply is being cached the token is the   *)
(* previous one until it is written, and then it is that reply's or erased;    *)
(* and a half-done sign-out has already erased it.                             *)
DatesBehind ==
  /\ pc["net"] \in Caching => gen >= 1
  /\ expiring <= Dated
  /\ expirationDate <= Dated

TokenBetweenWrites ==
  /\ accessToken <= gen
  /\ pc["net"] = "cacheAccess" => accessToken <= gen - 1
  /\ pc["net"] \in {"cacheRefresh", "cacheExpiry"} => accessToken \in {0, gen}
  /\ "torn" \notin history /\ pc["main"] \in SigningOut => accessToken = 0

SeenBehind == \A th \in Threads : seen[th] <= expiring

FreshInv ==
  /\ DatesBehind
  /\ TokenBetweenWrites
  /\ SeenBehind
  /\ ExpiryVouchesForToken
  /\ NoImmortalToken
  /\ DirectTokenWasFresh

(* Why there is one refresh: while one is out the flag is up, and the main     *)
(* thread is past the flag only when none is out.                              *)
SingleInv ==
  "loginClaim" \notin history =>
    /\ refreshes # {} => isRefreshing
    /\ pc["main"] \in {"recheck", "claim", "raise"} => refreshes = {}
    /\ \A p, q \in refreshes : p = q

(* Why a parked closure has a refresh to wait for: one parks only while the    *)
(* flag is up, the flag is up only while a request is out, and a reply that    *)
(* comes in empties the array, unless it failed or the append came too late.   *)
StrandInv ==
  /\ isRefreshing => refreshes # {}
  /\ job = "refresh" => pc["net"] \in Caching \cup {"drain", "clear"}
  /\ history \cap {"failed", "raced"} = {} =>
       (refresh # <<>> \/ (\E th \in Threads : pc[th] \in {"append", "store"})
          => refreshes # {} \/ job = "refresh")

----------------------------------------------------------------------------
(* The number of copies of a closure in the parked array is a number. *)
LEMMA CopiesType ==
  ASSUME refresh \in Seq(Closures), NEW r
  PROVE  Copies(r) \in Nat
<1>1. DOMAIN refresh = 1..Len(refresh) /\ Len(refresh) \in Nat
  OBVIOUS
<1>2. IsFiniteSet(1..Len(refresh))
  BY <1>1, FS_Interval
<1>3. IsFiniteSet({i \in DOMAIN refresh : refresh[i] = r})
  BY <1>1, <1>2, FS_Subset
<1>. QED  BY <1>3, FS_CardinalityType DEF Copies

(* What an earlier run left in UserDefaults, and an idle manager, are typed. *)
LEMMA TypeInit == Init => TypeOK
<1>. SUFFICES ASSUME Init PROVE TypeOK
  OBVIOUS
<1>1. accessToken \in 0..MaxGen /\ expirationDate \in 0..MaxGen /\ gen \in 0..MaxGen
  BY MaxGenAssumption DEF Init
<1>2. expiring \in 0..MaxGen /\ seen \in [Threads -> 0..MaxGen]
  BY MaxGenAssumption DEF Init
<1>3. refresh \in Seq(Closures) /\ copy \in [Threads -> Seq(Closures)]
  <2>1. <<>> \in Seq(Closures)
    OBVIOUS
  <2>. QED  BY <2>1 DEF Init
<1>4. pc \in [Threads -> Steps] /\ arg \in [Threads -> Closures \cup {NoCall}]
  BY DEF Init, Steps
<1>5. \A th \in Threads : pc[th] = "idle"
  BY DEF Init
<1>6. history \subseteq Events /\ answered \in [Closures -> Nat]
  BY DEF Init, Events
<1>. QED  BY <1>1, <1>2, <1>3, <1>4, <1>5, <1>6 DEF Init, TypeOK

(* One step per handler of the manager; none leaves the types. *)
LEMMA TypeStep == TypeOK /\ [Next]_vars => TypeOK'
<1>. SUFFICES ASSUME TypeOK, [Next]_vars PROVE TypeOK'
  OBVIOUS
<1>. USE MaxGenAssumption, NoCallAssumption
     DEF TypeOK, Threads, Steps, Caching, SigningOut, Validating, Events, Closures,
         stored, memory, network, clock, control, fates, Goto, Return, Answer, Drop
<1>1. ASSUME NEW th \in Threads, NEW r \in Closures, ValidateToke(th, r) PROVE TypeOK'
  BY <1>1 DEF ValidateToke
<1>2. ASSUME NEW th \in Threads, AppendLoad(th) PROVE TypeOK'
  BY <1>2 DEF AppendLoad
<1>3. ASSUME NEW th \in Threads, AppendStore(th) PROVE TypeOK'
  BY <1>3 DEF AppendStore
<1>4. ASSUME NEW th \in Threads, CheckExpiry(th) PROVE TypeOK'
  BY <1>4 DEF CheckExpiry
<1>5. ASSUME NEW th \in Threads, ReadToken(th) PROVE TypeOK'
  BY <1>5 DEF ReadToken
<1>6. ASSUME NEW th \in Threads, RefreshGuard(th) PROVE TypeOK'
  BY <1>6 DEF RefreshGuard
<1>7. ASSUME NEW th \in Threads, Recheck(th) PROVE TypeOK'
  BY <1>7 DEF Recheck
<1>8. ASSUME NEW th \in Threads, ReadRefreshToken(th) PROVE TypeOK'
  BY <1>8 DEF ReadRefreshToken
<1>9. ASSUME NEW th \in Threads, Raise(th) PROVE TypeOK'
  BY <1>9 DEF Raise
<1>9a. ASSUME NEW q \in Closures, RefreshFailed(q) PROVE TypeOK'
  BY <1>9a DEF RefreshFailed
<1>9b. ASSUME NEW q \in Closures, RefreshSucceeded(q) PROVE TypeOK'
  <2>1. gen' \in 0..MaxGen /\ refreshes' \subseteq Closures
    BY <1>9b DEF RefreshSucceeded
  <2>2. pc' \in [Threads -> Steps] /\ arg' \in [Threads -> Closures \cup {NoCall}]
    BY <1>9b DEF RefreshSucceeded
  <2>3. \A th \in Threads : pc'[th] \notin {"idle"} \cup SigningOut => arg'[th] \in Closures
    BY <1>9b DEF RefreshSucceeded
  <2>. QED  BY <1>9b, <2>1, <2>2, <2>3 DEF RefreshSucceeded
<1>10. ASSUME NEW q \in Closures, RefreshReply(q) PROVE TypeOK'
  BY <1>9a, <1>9b, <1>10, Zenon DEF RefreshReply
<1>11. ASSUME NEW c \in Logins, GenerateToken(c) PROVE TypeOK'
  BY <1>11 DEF GenerateToken
<1>11a. ASSUME NEW c \in Logins, CodeFailed(c) PROVE TypeOK'
  BY <1>11a DEF CodeFailed
<1>11b. ASSUME NEW c \in Logins, CodeSucceeded(c) PROVE TypeOK'
  BY <1>11b DEF CodeSucceeded
<1>12. ASSUME NEW c \in Logins, CodeReply(c) PROVE TypeOK'
  BY <1>11a, <1>11b, <1>12, Zenon DEF CodeReply
<1>13. CASE CacheAccess
  BY <1>13 DEF CacheAccess
<1>14. CASE CacheRefresh
  BY <1>14 DEF CacheRefresh
<1>15. CASE CacheExpiry
  BY <1>15 DEF CacheExpiry
<1>16. CASE Drain
  <2>1. \A r \in Closures : answered[r] + Copies(r) \in Nat
    BY CopiesType
  <2>. QED  BY <1>16, <2>1 DEF Drain
<1>17. CASE Clear
  BY <1>17 DEF Clear
<1>18. CASE Finish
  BY <1>18 DEF Finish
<1>19. CASE SignOutAccess
  BY <1>19 DEF SignOutAccess
<1>20. CASE SignOutRefresh
  BY <1>20 DEF SignOutRefresh
<1>21. CASE SignOutExpiry
  BY <1>21 DEF SignOutExpiry
<1>22. CASE Age
  BY <1>22 DEF Age, Dated
<1>23. CASE Kill
  <2>1. <<>> \in Seq(Closures)
    OBVIOUS
  <2>2. refresh' \in Seq(Closures) /\ copy' \in [Threads -> Seq(Closures)]
    BY <1>23, <2>1 DEF Kill
  <2>3. pc' \in [Threads -> Steps] /\ arg' \in [Threads -> Closures \cup {NoCall}]
          /\ \A th \in Threads : pc'[th] = "idle"
    BY <1>23 DEF Kill
  <2>4. history' \subseteq Events /\ dropped' \subseteq Closures /\ seen' \in [Threads -> 0..MaxGen]
    BY <1>23 DEF Kill
  <2>. QED  BY <1>23, <2>2, <2>3, <2>4 DEF Kill
<1>24. CASE UNCHANGED vars
  BY <1>24 DEF vars
<1>25. ASSUME NEW th \in Threads, Continue(th) PROVE TypeOK'
  BY <1>25, <1>2, <1>3, <1>4, <1>5, <1>6, <1>7, <1>8, <1>9 DEF Continue
<1>26. CASE User
  BY <1>26, <1>1, <1>11, <1>19 DEF User
<1>27. CASE Main
  BY <1>27, <1>20, <1>21, <1>25 DEF Main
<1>28. CASE Net
  BY <1>28, <1>1, <1>13, <1>14, <1>15, <1>16, <1>17, <1>18, <1>25 DEF Net
<1>. QED
  BY <1>10, <1>12, <1>22, <1>23, <1>24, <1>26, <1>27, <1>28 DEF Next

(* The manager's state keeps its types whatever the threads interleave. *)
THEOREM TypeCorrect == Spec => []TypeOK
<1>. QED  BY TypeInit, TypeStep, PTL DEF Spec

----------------------------------------------------------------------------
(* At launch the date, if any, is that of the stored token. *)
LEMMA FreshInit == Init => FreshInv
<1>. QED
  BY DEF Init, FreshInv, DatesBehind, TokenBetweenWrites, SeenBehind, ExpiryVouchesForToken,
         NoImmortalToken, DirectTokenWasFresh, Threads, Caching, SigningOut, Dated

(* The steps that matter are the writes of cacheToken and signout, the checks  *)
(* of the date, and time itself.                                                *)
LEMMA FreshStep == TypeOK /\ FreshInv /\ [Next]_vars => FreshInv'
<1>. SUFFICES ASSUME TypeOK, FreshInv, [Next]_vars PROVE FreshInv'
  OBVIOUS
<1>0. /\ accessToken \in Nat /\ expirationDate \in Nat /\ gen \in Nat /\ expiring \in Nat
      /\ pc \in [Threads -> Steps] /\ seen \in [Threads -> Nat]
  BY MaxGenAssumption DEF TypeOK
<1>. USE <1>0
     DEF FreshInv, DatesBehind, TokenBetweenWrites, SeenBehind, ExpiryVouchesForToken,
         NoImmortalToken, DirectTokenWasFresh, Threads, Caching, SigningOut, Dated,
         stored, memory, network, clock, control, fates, Goto, Return
<1>1. ASSUME NEW th \in Threads, NEW r \in Closures, ValidateToke(th, r) PROVE FreshInv'
  BY <1>1 DEF ValidateToke
<1>2. ASSUME NEW th \in Threads, AppendLoad(th) PROVE FreshInv'
  BY <1>2 DEF AppendLoad
<1>3. ASSUME NEW th \in Threads, AppendStore(th) PROVE FreshInv'
  BY <1>3 DEF AppendStore
<1>4. ASSUME NEW th \in Threads, CheckExpiry(th) PROVE FreshInv'
  BY <1>4 DEF CheckExpiry, ShouldRefreshToken
<1>5. ASSUME NEW th \in Threads, ReadToken(th) PROVE FreshInv'
  BY <1>5 DEF ReadToken
<1>6. ASSUME NEW th \in Threads, RefreshGuard(th) PROVE FreshInv'
  BY <1>6 DEF RefreshGuard
<1>7. ASSUME NEW th \in Threads, Recheck(th) PROVE FreshInv'
  BY <1>7 DEF Recheck, ShouldRefreshToken
<1>8. ASSUME NEW th \in Threads, ReadRefreshToken(th) PROVE FreshInv'
  BY <1>8 DEF ReadRefreshToken
<1>9. ASSUME NEW th \in Threads, Raise(th) PROVE FreshInv'
  BY <1>9 DEF Raise
<1>10. ASSUME NEW q \in Closures, RefreshFailed(q) PROVE FreshInv'
  BY <1>10 DEF RefreshFailed
<1>11. ASSUME NEW q \in Closures, RefreshSucceeded(q) PROVE FreshInv'
  BY <1>11 DEF RefreshSucceeded
<1>12. ASSUME NEW c \in Logins, GenerateToken(c) PROVE FreshInv'
  BY <1>12 DEF GenerateToken
<1>13. ASSUME NEW c \in Logins, CodeFailed(c) PROVE FreshInv'
  BY <1>13 DEF CodeFailed
<1>14. ASSUME NEW c \in Logins, CodeSucceeded(c) PROVE FreshInv'
  BY <1>14 DEF CodeSucceeded
<1>15. CASE CacheAccess
  BY <1>15 DEF CacheAccess
<1>16. CASE CacheRefresh
  BY <1>16 DEF CacheRefresh
<1>17. CASE CacheExpiry
  BY <1>17 DEF CacheExpiry
<1>18. CASE Drain
  BY <1>18 DEF Drain
<1>19. CASE Clear
  BY <1>19 DEF Clear
<1>20. CASE Finish
  BY <1>20 DEF Finish
<1>21. CASE SignOutAccess
  BY <1>21 DEF SignOutAccess
<1>22. CASE SignOutRefresh
  BY <1>22 DEF SignOutRefresh
<1>23. CASE SignOutExpiry
  BY <1>23 DEF SignOutExpiry
<1>24. CASE Age
  BY <1>24 DEF Age
<1>25. CASE Kill
  BY <1>25 DEF Kill
<1>26. CASE UNCHANGED vars
  BY <1>26 DEF vars
<1>27. ASSUME NEW th \in Threads, Continue(th) PROVE FreshInv'
  BY <1>27, <1>2, <1>3, <1>4, <1>5, <1>6, <1>7, <1>8, <1>9 DEF Continue
<1>28. ASSUME NEW q \in Closures, RefreshReply(q) PROVE FreshInv'
  BY <1>10, <1>11, <1>28, Zenon DEF RefreshReply
<1>29. ASSUME NEW c \in Logins, CodeReply(c) PROVE FreshInv'
  BY <1>13, <1>14, <1>29, Zenon DEF CodeReply
<1>30. CASE User
  BY <1>30, <1>1, <1>12, <1>21 DEF User, Closures
<1>31. CASE Main
  BY <1>31, <1>22, <1>23, <1>27 DEF Main
<1>32. CASE Net
  BY <1>32, <1>1, <1>15, <1>16, <1>17, <1>18, <1>19, <1>20, <1>27 DEF Net, Closures
<1>. QED
  BY <1>24, <1>25, <1>26, <1>28, <1>29, <1>30, <1>31, <1>32 DEF Next

(* A closure called without a refresh gets a token that was outside the margin *)
(* when the date was read, whatever ran between that read and the token's.     *)
THEOREM FreshToken == Spec => []DirectTokenWasFresh
<1>1. FreshInv => DirectTokenWasFresh
  BY DEF FreshInv
<1>. QED  BY <1>1, TypeInit, TypeStep, FreshInit, FreshStep, PTL DEF Spec

(* The date on record never speaks for a token newer than the one stored. *)
THEOREM DateVouches == Spec => []ExpiryVouchesForToken
<1>1. FreshInv => ExpiryVouchesForToken
  BY DEF FreshInv
<1>. QED  BY <1>1, TypeInit, TypeStep, FreshInit, FreshStep, PTL DEF Spec

(* Only a reply torn by a sign-out or a kill leaves a token without a date. *)
THEOREM TokensExpire == Spec => []NoImmortalToken
<1>1. FreshInv => NoImmortalToken
  BY DEF FreshInv
<1>. QED  BY <1>1, TypeInit, TypeStep, FreshInit, FreshStep, PTL DEF Spec

----------------------------------------------------------------------------
(* At launch no refresh is out and the flag is down. *)
LEMMA SingleInit == Init => SingleInv
<1>. QED  BY DEF Init, SingleInv, Threads

(* The flag goes up where the request goes out, and only a reply, which takes  *)
(* the one request away, takes it down.                                         *)
LEMMA SingleStep == TypeOK /\ SingleInv /\ [Next]_vars => SingleInv'
<1>. SUFFICES ASSUME TypeOK, SingleInv, [Next]_vars PROVE SingleInv'
  OBVIOUS
<1>0. pc \in [Threads -> Steps]
  BY DEF TypeOK
<1>. USE <1>0
     DEF SingleInv, Threads, stored, memory, network, clock, control, fates, Goto, Return
<1>1. ASSUME NEW th \in Threads, NEW r \in Closures, ValidateToke(th, r) PROVE SingleInv'
  BY <1>1 DEF ValidateToke
<1>2. ASSUME NEW th \in Threads, AppendLoad(th) PROVE SingleInv'
  BY <1>2 DEF AppendLoad
<1>3. ASSUME NEW th \in Threads, AppendStore(th) PROVE SingleInv'
  BY <1>3 DEF AppendStore
<1>4. ASSUME NEW th \in Threads, CheckExpiry(th) PROVE SingleInv'
  BY <1>4 DEF CheckExpiry
<1>5. ASSUME NEW th \in Threads, ReadToken(th) PROVE SingleInv'
  BY <1>5 DEF ReadToken
<1>6. ASSUME NEW th \in Threads, RefreshGuard(th) PROVE SingleInv'
  BY <1>6 DEF RefreshGuard
<1>7. ASSUME NEW th \in Threads, Recheck(th) PROVE SingleInv'
  BY <1>7 DEF Recheck
<1>8. ASSUME NEW th \in Threads, ReadRefreshToken(th) PROVE SingleInv'
  BY <1>8 DEF ReadRefreshToken
<1>9. ASSUME NEW th \in Threads, Raise(th) PROVE SingleInv'
  BY <1>9 DEF Raise
<1>10. ASSUME NEW q \in Closures, RefreshFailed(q) PROVE SingleInv'
  BY <1>10 DEF RefreshFailed
<1>11. ASSUME NEW q \in Closures, RefreshSucceeded(q) PROVE SingleInv'
  BY <1>11 DEF RefreshSucceeded
<1>12. ASSUME NEW c \in Logins, GenerateToken(c) PROVE SingleInv'
  BY <1>12 DEF GenerateToken
<1>13. ASSUME NEW c \in Logins, CodeFailed(c) PROVE SingleInv'
  BY <1>13 DEF CodeFailed
<1>14. ASSUME NEW c \in Logins, CodeSucceeded(c) PROVE SingleInv'
  BY <1>14 DEF CodeSucceeded
<1>15. CASE CacheAccess
  BY <1>15 DEF CacheAccess
<1>16. CASE CacheRefresh
  BY <1>16 DEF CacheRefresh
<1>17. CASE CacheExpiry
  BY <1>17 DEF CacheExpiry
<1>18. CASE Drain
  BY <1>18 DEF Drain
<1>19. CASE Clear
  BY <1>19 DEF Clear
<1>20. CASE Finish
  BY <1>20 DEF Finish
<1>21. CASE SignOutAccess
  BY <1>21 DEF SignOutAccess
<1>22. CASE SignOutRefresh
  BY <1>22 DEF SignOutRefresh
<1>23. CASE SignOutExpiry
  BY <1>23 DEF SignOutExpiry
<1>24. CASE Age
  BY <1>24 DEF Age
<1>25. CASE Kill
  BY <1>25 DEF Kill
<1>26. CASE UNCHANGED vars
  BY <1>26 DEF vars
<1>27. ASSUME NEW th \in Threads, Continue(th) PROVE SingleInv'
  BY <1>27, <1>2, <1>3, <1>4, <1>5, <1>6, <1>7, <1>8, <1>9 DEF Continue
<1>28. ASSUME NEW q \in Closures, RefreshReply(q) PROVE SingleInv'
  BY <1>10, <1>11, <1>28, Zenon DEF RefreshReply
<1>29. ASSUME NEW c \in Logins, CodeReply(c) PROVE SingleInv'
  BY <1>13, <1>14, <1>29, Zenon DEF CodeReply
<1>30. CASE User
  BY <1>30, <1>1, <1>12, <1>21 DEF User, Closures
<1>31. CASE Main
  BY <1>31, <1>22, <1>23, <1>27 DEF Main
<1>32. CASE Net
  BY <1>32, <1>1, <1>15, <1>16, <1>17, <1>18, <1>19, <1>20, <1>27 DEF Net, Closures
<1>. QED
  BY <1>28, <1>29, <1>30, <1>31, <1>32, <1>24, <1>25, <1>26 DEF Next

(* Short of a login that finds its own token expiring, at most one refresh     *)
(* request is at the endpoint, however many screens ask.                       *)
THEOREM OneRefresh == Spec => []SingleRefresh
<1>1. SingleInv => SingleRefresh
  BY DEF SingleInv, SingleRefresh
<1>. QED  BY <1>1, TypeInit, TypeStep, SingleInit, SingleStep, PTL DEF Spec

----------------------------------------------------------------------------
(* At launch nothing is parked. *)
LEMMA StrandInit == Init => StrandInv
<1>. QED  BY DEF Init, StrandInv, Threads

(* A closure that is about to be parked has seen the flag up; a reply that     *)
(* lowers it either drains the array or has failed.                             *)
LEMMA StrandStep == TypeOK /\ StrandInv /\ [Next]_vars => StrandInv'
<1>. SUFFICES ASSUME TypeOK, StrandInv, [Next]_vars PROVE StrandInv'
  OBVIOUS
<1>0. pc \in [Threads -> Steps] /\ history \subseteq Events
  BY DEF TypeOK
<1>. USE <1>0
     DEF StrandInv, Threads, Caching, SigningOut, stored, memory, network, clock, control, fates,
         Goto, Return
<1>1. ASSUME NEW th \in Threads, NEW r \in Closures, ValidateToke(th, r) PROVE StrandInv'
  BY <1>1 DEF ValidateToke
<1>2. ASSUME NEW th \in Threads, AppendLoad(th) PROVE StrandInv'
  BY <1>2 DEF AppendLoad
<1>3. ASSUME NEW th \in Threads, AppendStore(th) PROVE StrandInv'
  BY <1>3 DEF AppendStore
<1>4. ASSUME NEW th \in Threads, CheckExpiry(th) PROVE StrandInv'
  BY <1>4 DEF CheckExpiry
<1>5. ASSUME NEW th \in Threads, ReadToken(th) PROVE StrandInv'
  BY <1>5 DEF ReadToken
<1>6. ASSUME NEW th \in Threads, RefreshGuard(th) PROVE StrandInv'
  BY <1>6 DEF RefreshGuard
<1>7. ASSUME NEW th \in Threads, Recheck(th) PROVE StrandInv'
  BY <1>7 DEF Recheck
<1>8. ASSUME NEW th \in Threads, ReadRefreshToken(th) PROVE StrandInv'
  BY <1>8 DEF ReadRefreshToken
<1>9. ASSUME NEW th \in Threads, Raise(th) PROVE StrandInv'
  BY <1>9 DEF Raise
<1>10. ASSUME NEW q \in Closures, RefreshFailed(q) PROVE StrandInv'
  BY <1>10 DEF RefreshFailed
<1>11. ASSUME NEW q \in Closures, RefreshSucceeded(q) PROVE StrandInv'
  BY <1>11 DEF RefreshSucceeded
<1>12. ASSUME NEW c \in Logins, GenerateToken(c) PROVE StrandInv'
  BY <1>12 DEF GenerateToken
<1>13. ASSUME NEW c \in Logins, CodeFailed(c) PROVE StrandInv'
  BY <1>13 DEF CodeFailed
<1>14. ASSUME NEW c \in Logins, CodeSucceeded(c) PROVE StrandInv'
  BY <1>14 DEF CodeSucceeded
<1>15. CASE CacheAccess
  BY <1>15 DEF CacheAccess
<1>16. CASE CacheRefresh
  BY <1>16 DEF CacheRefresh
<1>17. CASE CacheExpiry
  BY <1>17 DEF CacheExpiry
<1>18. CASE Drain
  BY <1>18 DEF Drain
<1>19. CASE Clear
  BY <1>19 DEF Clear
<1>20. CASE Finish
  BY <1>20 DEF Finish
<1>21. CASE SignOutAccess
  BY <1>21 DEF SignOutAccess
<1>22. CASE SignOutRefresh
  BY <1>22 DEF SignOutRefresh
<1>23. CASE SignOutExpiry
  BY <1>23 DEF SignOutExpiry
<1>24. CASE Age
  BY <1>24 DEF Age
<1>25. CASE Kill
  BY <1>25 DEF Kill
<1>26. CASE UNCHANGED vars
  BY <1>26 DEF vars
<1>27. ASSUME NEW th \in Threads, Continue(th) PROVE StrandInv'
  BY <1>27, <1>2, <1>3, <1>4, <1>5, <1>6, <1>7, <1>8, <1>9 DEF Continue
<1>28. ASSUME NEW q \in Closures, RefreshReply(q) PROVE StrandInv'
  BY <1>10, <1>11, <1>28, Zenon DEF RefreshReply
<1>29. ASSUME NEW c \in Logins, CodeReply(c) PROVE StrandInv'
  BY <1>13, <1>14, <1>29, Zenon DEF CodeReply
<1>30. CASE User
  BY <1>30, <1>1, <1>12, <1>21 DEF User, Closures
<1>31. CASE Main
  BY <1>31, <1>22, <1>23, <1>27 DEF Main
<1>32. CASE Net
  BY <1>32, <1>1, <1>15, <1>16, <1>17, <1>18, <1>19, <1>20, <1>27 DEF Net, Closures
<1>. QED
  BY <1>28, <1>29, <1>30, <1>31, <1>32, <1>24, <1>25, <1>26 DEF Next

(* No closure is left in the parked array with no refresh to call it, unless a *)
(* refresh has failed or the array lost a race.                                *)
THEOREM StrandedAfterFailure == Spec => []StrandedOnlyAfterFailure
<1>1. StrandInv => StrandedOnlyAfterFailure
  <2>1. Parked # {} => refresh # <<>>
    BY DEF Parked, Elements
  <2>. QED  BY <2>1 DEF StrandInv, StrandedOnlyAfterFailure
<1>. QED  BY <1>1, TypeInit, TypeStep, StrandInit, StrandStep, PTL DEF Spec

(* The flag that turns every later refresh away is up only while a request is  *)
(* at the endpoint, whose reply, failed or not, takes it down: what             *)
(* RefreshFlagFalls waits for is always on its way.                             *)
FlagBacked == isRefreshing => refreshes # {}

THEOREM FlagHasRequest == Spec => []FlagBacked
<1>1. StrandInv => FlagBacked
  BY DEF StrandInv, FlagBacked
<1>. QED  BY <1>1, TypeInit, TypeStep, StrandInit, StrandStep, PTL DEF Spec
=============================================================================
