----------------------- MODULE AuthenticationGateProofs -----------------------
(* AuthenticationManager keeps the promise of TokenGate: where each closure is, *)
(* and why an undisturbed session loses none, for any number of screens,        *)
(* logins and token replies.                                                    *)
EXTENDS AuthenticationManagerProofs

Distinct(s) == \A i, j \in DOMAIN s : s[i] = s[j] => i = j

(* A closure that some step still owes an answer to. *)
Outstanding(r) == (\E th \in Threads : arg[th] = r) \/ r \in refreshes \/ r \in codes

(* What each thread can be doing, and for whom. *)
ThreadInv ==
  /\ \A th \in Threads : pc[th] \in {"idle"} \cup SigningOut => arg[th] = NoCall
  /\ pc["main"] \notin Caching \cup {"login", "drain", "clear", "finish"}
  /\ pc["net"] \notin SigningOut
  /\ \A th \in Threads : pc[th] # "store" => copy[th] = <<>>
  /\ pc["net"] \in Validating \cup {"login"} => arg["net"] \in Logins
  /\ pc["net"] \in Caching /\ job # "refresh" => arg["net"] \in Logins

(* An outstanding closure is so once, and nowhere else. *)
OutstandingInv ==
  /\ \A r \in Closures : Outstanding(r) =>
       /\ r \in asked \ dropped /\ answered[r] = 0
       /\ r \notin Parked
       /\ \A th \in Threads : r \notin Elements(copy[th])
  /\ arg["main"] = arg["net"] => arg["main"] = NoCall
  /\ \A th \in Threads : arg[th] \notin refreshes \cup codes
  /\ refreshes \cap codes = {}

(* The parked array, and what a thread has read of it, holds no closure twice. *)
ParkedInv ==
  /\ Parked \subseteq asked \ dropped /\ Distinct(refresh)
  /\ \A th \in Threads : Elements(copy[th]) \subseteq asked \ dropped /\ Distinct(copy[th])
  /\ \A r \in dropped : r \in asked /\ answered[r] = 0
  /\ \A r \in Closures : answered[r] > 0 => r \in asked

(* Short of a race no closure is lost or kept after its call. *)
UnracedInv ==
  "raced" \notin history =>
    /\ \A r \in asked : answered[r] > 0 \/ r \in dropped \/ Outstanding(r) \/ r \in Parked
    /\ \A r \in Parked : answered[r] = IF pc["net"] = "clear" THEN 1 ELSE 0
    /\ \A r \in Closures : answered[r] <= 1
    /\ \A th \in Threads : pc[th] = "store" => copy[th] = refresh

PlaceInv == ThreadInv /\ OutstandingInv /\ ParkedInv /\ UnracedInv

(* An undisturbed session has its tokens, and the main thread does not find    *)
(* the flag up once it has found it down.                                      *)
QuietInv ==
  history = {} =>
    /\ dropped \cap Calls = {}
    /\ accessToken # 0 /\ refreshToken
    /\ pc["main"] \notin SigningOut
    /\ pc["main"] \in {"expiry", "reenter", "recheck", "claim", "raise"} => ~isRefreshing

----------------------------------------------------------------------------
(* What the array operations do to the set of elements. *)
LEMMA EmptyElements == Elements(<<>>) = {} /\ Distinct(<<>>)
<1>. QED  BY DEF Elements, Distinct

(* An append adds its element, and keeps a set of distinct ones distinct. *)
LEMMA AppendElements ==
  ASSUME NEW X, NEW s \in Seq(X), NEW e \in X
  PROVE  /\ Elements(Append(s, e)) = Elements(s) \cup {e}
         /\ Distinct(s) /\ e \notin Elements(s) => Distinct(Append(s, e))
<1>1. /\ DOMAIN s = 1..Len(s) /\ Len(s) \in Nat
      /\ DOMAIN Append(s, e) = 1..(Len(s) + 1)
      /\ \A i \in 1..Len(s) : Append(s, e)[i] = s[i]
      /\ Append(s, e)[Len(s) + 1] = e
  OBVIOUS
<1>2. 1..(Len(s) + 1) = 1..Len(s) \cup {Len(s) + 1}
  BY <1>1
<1>3. Elements(Append(s, e)) = Elements(s) \cup {e}
  <2>1. ASSUME NEW x \in Elements(Append(s, e)) PROVE x \in Elements(s) \cup {e}
    BY <1>1, <1>2, <2>1 DEF Elements
  <2>2. ASSUME NEW x \in Elements(s) PROVE x \in Elements(Append(s, e))
    BY <1>1, <1>2, <2>2 DEF Elements
  <2>3. e \in Elements(Append(s, e))
    BY <1>1, <1>2 DEF Elements
  <2>. QED  BY <2>1, <2>2, <2>3
<1>4. ASSUME Distinct(s), e \notin Elements(s) PROVE Distinct(Append(s, e))
  BY <1>1, <1>2, <1>4 DEF Elements, Distinct
<1>. QED  BY <1>3, <1>4

(* A drain calls each parked closure once. *)
LEMMA CopiesOfDistinct ==
  ASSUME refresh \in Seq(Closures), Distinct(refresh), NEW r
  PROVE  Copies(r) = IF r \in Parked THEN 1 ELSE 0
<1>. DEFINE S == {i \in DOMAIN refresh : refresh[i] = r}
<1>1. CASE r \in Parked
  <2>1. PICK i \in DOMAIN refresh : refresh[i] = r
    BY <1>1 DEF Parked, Elements
  <2>2. S = {i}
    BY <2>1 DEF Distinct
  <2>. QED  BY <1>1, <2>2, FS_Singleton DEF Copies
<1>2. CASE r \notin Parked
  <2>1. S = {}
    BY <1>2 DEF Parked, Elements
  <2>. QED  BY <1>2, <2>1, FS_EmptySet DEF Copies
<1>. QED  BY <1>1, <1>2

----------------------------------------------------------------------------
(* At launch no closure has been handed in. *)
LEMMA PlaceInit == Init => PlaceInv
<1>. SUFFICES ASSUME Init PROVE PlaceInv
  OBVIOUS
<1>1. Parked = {} /\ Distinct(refresh)
  BY EmptyElements DEF Init, Parked
<1>2. \A th \in Threads : copy[th] = <<>> /\ arg[th] = NoCall /\ pc[th] = "idle"
  BY DEF Init
<1>3. \A th \in Threads : Elements(copy[th]) = {} /\ Distinct(copy[th])
  BY <1>2, EmptyElements
<1>4. ThreadInv
  BY <1>2 DEF ThreadInv, Init, Threads, Caching, SigningOut, Validating
<1>5. OutstandingInv
  BY <1>2, NoCallAssumption DEF OutstandingInv, Outstanding, Init, Threads
<1>6. ParkedInv
  BY <1>1, <1>3 DEF ParkedInv, Init
<1>7. UnracedInv
  BY <1>1, <1>2 DEF UnracedInv, Init
<1>. QED  BY <1>4, <1>5, <1>6, <1>7 DEF PlaceInv

(* A closure moves from one place to the next, and is called or given up where *)
(* it leaves the last one.                                                     *)
LEMMA PlaceStep == TypeOK /\ PlaceInv /\ [Next]_vars => PlaceInv'
<1>. SUFFICES ASSUME TypeOK, PlaceInv, [Next]_vars PROVE PlaceInv'
  OBVIOUS
<1>0. /\ pc \in [Threads -> Steps] /\ arg \in [Threads -> Closures \cup {NoCall}]
      /\ copy \in [Threads -> Seq(Closures)] /\ refresh \in Seq(Closures)
      /\ answered \in [Closures -> Nat]
      /\ refreshes \subseteq Closures /\ codes \subseteq Logins
      /\ asked \subseteq Closures /\ dropped \subseteq Closures
      /\ \A th \in Threads : pc[th] \notin {"idle"} \cup SigningOut => arg[th] \in Closures
  BY DEF TypeOK
<1>. USE <1>0, NoCallAssumption, CallsAssumption
     DEF PlaceInv, ThreadInv, OutstandingInv, ParkedInv, UnracedInv, Outstanding, Threads,
         Closures, Caching, SigningOut, Validating, Parked,
         stored, memory, network, clock, control, fates, Goto, Return, Answer, Drop
<1>1. ASSUME NEW th \in Threads, NEW r \in Closures, ValidateToke(th, r) PROVE PlaceInv'
  BY <1>1 DEF ValidateToke
<1>2. ASSUME NEW th \in Threads, AppendLoad(th) PROVE PlaceInv'
  BY <1>2 DEF AppendLoad
<1>3. ASSUME NEW th \in Threads, AppendStore(th) PROVE PlaceInv'
  BY <1>3, AppendElements, EmptyElements DEF AppendStore
<1>4. ASSUME NEW th \in Threads, CheckExpiry(th) PROVE PlaceInv'
  BY <1>4 DEF CheckExpiry
<1>5. ASSUME NEW th \in Threads, ReadToken(th) PROVE PlaceInv'
  BY <1>5 DEF ReadToken
<1>6. ASSUME NEW th \in Threads, RefreshGuard(th) PROVE PlaceInv'
  BY <1>6 DEF RefreshGuard
<1>7. ASSUME NEW th \in Threads, Recheck(th) PROVE PlaceInv'
  BY <1>7 DEF Recheck
<1>8. ASSUME NEW th \in Threads, ReadRefreshToken(th) PROVE PlaceInv'
  BY <1>8 DEF ReadRefreshToken
<1>9. ASSUME NEW th \in Threads, Raise(th) PROVE PlaceInv'
  BY <1>9 DEF Raise
<1>10. ASSUME NEW q \in Closures, RefreshFailed(q) PROVE PlaceInv'
  BY <1>10 DEF RefreshFailed
<1>11. ASSUME NEW q \in Closures, RefreshSucceeded(q) PROVE PlaceInv'
  BY <1>11 DEF RefreshSucceeded
<1>12. ASSUME NEW c \in Logins, GenerateToken(c) PROVE PlaceInv'
  BY <1>12 DEF GenerateToken
<1>13. ASSUME NEW c \in Logins, CodeFailed(c) PROVE PlaceInv'
  BY <1>13 DEF CodeFailed
<1>14. ASSUME NEW c \in Logins, CodeSucceeded(c) PROVE PlaceInv'
  BY <1>14 DEF CodeSucceeded
<1>15. CASE CacheAccess
  BY <1>15 DEF CacheAccess
<1>16. CASE CacheRefresh
  BY <1>16 DEF CacheRefresh
<1>17. CASE CacheExpiry
  BY <1>17 DEF CacheExpiry
<1>18. CASE Drain
  <2>1. \A r : Copies(r) = IF r \in Parked THEN 1 ELSE 0
    <3>1. Distinct(refresh)
      OBVIOUS
    <3>. QED  BY <3>1, CopiesOfDistinct, Zenon
  <2>2. ASSUME NEW r \in Closures
        PROVE  answered'[r] = IF r \in Parked THEN answered[r] + 1 ELSE answered[r]
    <3>1. answered'[r] = answered[r] + Copies(r)
      BY <1>18, Zenon DEF Drain
    <3>2. Copies(r) = IF r \in Parked THEN 1 ELSE 0
      BY <2>1, Zenon
    <3>. QED  BY <3>1, <3>2
  <2>3. UNCHANGED <<stored, memory, network, arg, copy, asked, dropped, history>>
    BY <1>18 DEF Drain
  <2>4. pc = [pc EXCEPT !["net"] = "drain"] /\ pc' = [pc EXCEPT !["net"] = "clear"]
    BY <1>18 DEF Drain
  <2>5. ThreadInv' /\ OutstandingInv'
    BY <2>2, <2>3, <2>4
  <2>6. ParkedInv'
    BY <2>2, <2>3
  <2>7. UnracedInv'
    BY <2>2, <2>3, <2>4
  <2>. QED  BY <2>5, <2>6, <2>7
<1>19. CASE Clear
  BY <1>19, EmptyElements DEF Clear
<1>20. CASE Finish
  BY <1>20 DEF Finish
<1>21. CASE SignOutAccess
  BY <1>21 DEF SignOutAccess
<1>22. CASE SignOutRefresh
  BY <1>22 DEF SignOutRefresh
<1>23. CASE SignOutExpiry
  BY <1>23 DEF SignOutExpiry
<1>24. CASE Age
  BY <1>24 DEF Age
<1>25. CASE Kill
  BY <1>25, EmptyElements DEF Kill
<1>26. CASE UNCHANGED vars
  BY <1>26 DEF vars
<1>27. ASSUME NEW th \in Threads, Continue(th) PROVE PlaceInv'
  BY <1>27, <1>2, <1>3, <1>4, <1>5, <1>6, <1>7, <1>8, <1>9 DEF Continue
<1>28. ASSUME NEW q \in Closures, RefreshReply(q) PROVE PlaceInv'
  BY <1>10, <1>11, <1>28, Zenon DEF RefreshReply
<1>29. ASSUME NEW c \in Logins, CodeReply(c) PROVE PlaceInv'
  BY <1>13, <1>14, <1>29, Zenon DEF CodeReply
<1>30. CASE User
  BY <1>30, <1>1, <1>12, <1>21 DEF User, Closures
<1>31. CASE Main
  BY <1>31, <1>22, <1>23, <1>27 DEF Main
<1>32. CASE Net
  BY <1>32, <1>1, <1>15, <1>16, <1>17, <1>18, <1>19, <1>20, <1>27 DEF Net, Closures
<1>. QED
  BY <1>24, <1>25, <1>26, <1>28, <1>29, <1>30, <1>31, <1>32 DEF Next

----------------------------------------------------------------------------
(* Each closure that was handed in is in exactly one place, for any number of  *)
(* closures, unless the unlocked array has lost a race.                        *)
THEOREM EveryCallAccounted == Spec => []CallsAccounted
<1>1. TypeOK /\ PlaceInv => CallsAccounted
  <2>. SUFFICES ASSUME TypeOK, PlaceInv, "raced" \notin history, NEW r \in asked
                PROVE  InHand(r) + Waiting(r) + answered[r] + OneIf(r \in refreshes)
                         + OneIf(r \in codes) + OneIf(r \in dropped) = 1
    BY DEF CallsAccounted
  <2>0. r \in Closures /\ answered[r] \in Nat /\ NoCall # r
    BY NoCallAssumption DEF TypeOK
  <2>1. Copies(r) = IF r \in Parked THEN 1 ELSE 0
    BY CopiesOfDistinct DEF TypeOK, PlaceInv, ParkedInv
  <2>2. InHand(r) = OneIf(\E th \in Threads : arg[th] = r)
    <3>1. CASE \E th \in Threads : arg[th] = r
      <4>1. PICK th \in Threads : arg[th] = r
        BY <3>1
      <4>2. {t \in Threads : arg[t] = r} = {th}
        BY <4>1, <2>0 DEF PlaceInv, OutstandingInv, Threads
      <4>. QED  BY <3>1, <4>2, FS_Singleton DEF InHand, OneIf
    <3>2. CASE ~\E th \in Threads : arg[th] = r
      <4>1. {t \in Threads : arg[t] = r} = {}
        BY <3>2
      <4>. QED  BY <3>2, <4>1, FS_EmptySet DEF InHand, OneIf
    <3>. QED  BY <3>1, <3>2
  <2>3. Waiting(r) = IF r \in Parked /\ answered[r] = 0 THEN 1 ELSE 0
    BY <2>0, <2>1 DEF PlaceInv, UnracedInv, Waiting
  <2>. QED
    BY <2>0, <2>2, <2>3
    DEF PlaceInv, OutstandingInv, ParkedInv, UnracedInv, Outstanding, OneIf
<1>. QED  BY <1>1, TypeInit, TypeStep, PlaceInit, PlaceStep, PTL DEF Spec

----------------------------------------------------------------------------
(* A session that starts signed in has its tokens. *)
LEMMA QuietInit == Init => QuietInv
<1>. QED  BY DEF Init, QuietInv, SigningOut, Threads

(* The ways out that call nobody: no token, no refresh token, the flag up at   *)
(* the second look.  Each needs a sign-out or a refresh begun by a login.      *)
LEMMA QuietStep == TypeOK /\ FreshInv /\ PlaceInv /\ QuietInv /\ [Next]_vars => QuietInv'
<1>. SUFFICES ASSUME TypeOK, FreshInv, PlaceInv, QuietInv, [Next]_vars PROVE QuietInv'
  OBVIOUS
<1>0. /\ pc \in [Threads -> Steps] /\ arg \in [Threads -> Closures \cup {NoCall}]
      /\ codes \subseteq Logins /\ gen \in Nat
      /\ pc["net"] \in Caching => gen >= 1
      /\ pc["net"] \in Validating \cup {"login"} => arg["net"] \in Logins
      /\ pc["main"] \notin Caching \cup {"login", "drain", "clear", "finish"}
  BY DEF TypeOK, FreshInv, DatesBehind, PlaceInv, ThreadInv
<1>. USE <1>0, NoCallAssumption, CallsAssumption
     DEF QuietInv, Threads, Caching, SigningOut, Validating,
         stored, memory, network, clock, control, fates, Goto, Return, Answer, Drop
<1>1. ASSUME NEW th \in Threads, NEW r \in Closures, ValidateToke(th, r) PROVE QuietInv'
  BY <1>1 DEF ValidateToke
<1>2. ASSUME NEW th \in Threads, AppendLoad(th) PROVE QuietInv'
  BY <1>2 DEF AppendLoad
<1>3. ASSUME NEW th \in Threads, AppendStore(th) PROVE QuietInv'
  BY <1>3 DEF AppendStore
<1>4. ASSUME NEW th \in Threads, CheckExpiry(th) PROVE QuietInv'
  BY <1>4 DEF CheckExpiry
<1>5. ASSUME NEW th \in Threads, ReadToken(th) PROVE QuietInv'
  BY <1>5 DEF ReadToken
<1>6. ASSUME NEW th \in Threads, RefreshGuard(th) PROVE QuietInv'
  BY <1>6 DEF RefreshGuard
<1>7. ASSUME NEW th \in Threads, Recheck(th) PROVE QuietInv'
  BY <1>7 DEF Recheck
<1>8. ASSUME NEW th \in Threads, ReadRefreshToken(th) PROVE QuietInv'
  BY <1>8 DEF ReadRefreshToken
<1>9. ASSUME NEW th \in Threads, Raise(th) PROVE QuietInv'
  BY <1>9 DEF Raise
<1>10. ASSUME NEW q \in Closures, RefreshFailed(q) PROVE QuietInv'
  BY <1>10 DEF RefreshFailed
<1>11. ASSUME NEW q \in Closures, RefreshSucceeded(q) PROVE QuietInv'
  BY <1>11 DEF RefreshSucceeded
<1>12. ASSUME NEW c \in Logins, GenerateToken(c) PROVE QuietInv'
  BY <1>12 DEF GenerateToken
<1>13. ASSUME NEW c \in Logins, CodeFailed(c) PROVE QuietInv'
  BY <1>13 DEF CodeFailed
<1>14. ASSUME NEW c \in Logins, CodeSucceeded(c) PROVE QuietInv'
  BY <1>14 DEF CodeSucceeded
<1>15. CASE CacheAccess
  BY <1>15 DEF CacheAccess
<1>16. CASE CacheRefresh
  BY <1>16 DEF CacheRefresh
<1>17. CASE CacheExpiry
  BY <1>17 DEF CacheExpiry
<1>18. CASE Drain
  BY <1>18 DEF Drain
<1>19. CASE Clear
  BY <1>19 DEF Clear
<1>20. CASE Finish
  BY <1>20 DEF Finish
<1>21. CASE SignOutAccess
  BY <1>21 DEF SignOutAccess
<1>22. CASE SignOutRefresh
  BY <1>22 DEF SignOutRefresh
<1>23. CASE SignOutExpiry
  BY <1>23 DEF SignOutExpiry
<1>24. CASE Age
  BY <1>24 DEF Age
<1>25. CASE Kill
  BY <1>25 DEF Kill
<1>26. CASE UNCHANGED vars
  BY <1>26 DEF vars
<1>27. ASSUME NEW th \in Threads, Continue(th) PROVE QuietInv'
  BY <1>27, <1>2, <1>3, <1>4, <1>5, <1>6, <1>7, <1>8, <1>9 DEF Continue
<1>28. ASSUME NEW q \in Closures, RefreshReply(q) PROVE QuietInv'
  BY <1>10, <1>11, <1>28, Zenon DEF RefreshReply
<1>29. ASSUME NEW c \in Logins, CodeReply(c) PROVE QuietInv'
  BY <1>13, <1>14, <1>29, Zenon DEF CodeReply
<1>30. CASE User
  BY <1>30, <1>1, <1>12, <1>21 DEF User, Closures
<1>31. CASE Main
  BY <1>31, <1>22, <1>23, <1>27 DEF Main
<1>32. CASE Net
  BY <1>32, <1>1, <1>15, <1>16, <1>17, <1>18, <1>19, <1>20, <1>27 DEF Net, Closures
<1>. QED
  BY <1>24, <1>25, <1>26, <1>28, <1>29, <1>30, <1>31, <1>32 DEF Next

(* Signed in and undisturbed, no screen's call is given up. *)
THEOREM NoCallGivenUp == Spec => []QuietSessionNeverDrops
<1>1. QuietInv => QuietSessionNeverDrops
  BY DEF QuietInv, QuietSessionNeverDrops
<1>. QED
  BY <1>1, TypeInit, TypeStep, FreshInit, FreshStep, PlaceInit, PlaceStep, QuietInit, QuietStep,
     PTL DEF Spec

----------------------------------------------------------------------------
(* How a step of the manager looks from the gate: closures that leave their    *)
(* last place uncalled are lost, and in an undisturbed session none is a       *)
(* screen's; ...                                                               *)
LEMMA LoseStep ==
  ASSUME TypeOK, PlaceInv', QuietInv',
         asked' = asked, answered' = answered, history \subseteq history',
         Places' \cap asked \subseteq Places
  PROVE  Gate!Next
<1>. DEFINE S == Lost' \ Lost
<1>1. Lost' = Lost \cup S
  BY DEF Lost
<1>2. S \in SUBSET Gate!Closures /\ S \subseteq Gate!Held
  BY DEF Lost, TypeOK, Closures, Gate!Closures, Gate!Held
<1>3. ASSUME history' = {} PROVE S \cap Calls = {}
  <2>1. \A r \in Lost' : r \in dropped'
    BY <1>3 DEF PlaceInv, UnracedInv, Outstanding, Lost, Places
  <2>. QED  BY <1>3, <2>1 DEF QuietInv
<1>4. (history' # {}) \in {history # {}, TRUE}
  <2>1. CASE history' = {}
    BY <2>1, Zenon
  <2>2. CASE history' # {}
    BY <2>2, Zenon
  <2>. QED  BY <2>1, <2>2
<1>5. ("raced" \in history') \in {"raced" \in history, TRUE}
  <2>1. CASE "raced" \in history'
    BY <2>1, Zenon
  <2>2. CASE "raced" \notin history'
    <3>1. ("raced" \in history') = ("raced" \in history)
      BY <2>2
    <3>. QED  BY <3>1, Zenon
  <2>. QED  BY <2>1, <2>2
<1>6. ("raced" \in history') \/ S \cap Calls # {} => history' # {}
  BY <1>3
<1>7. Gate!Lose(S)
  BY <1>1, <1>2, <1>4, <1>5, <1>6, Zenon DEF Gate!Lose
<1>. QED  BY <1>2, <1>7, Zenon DEF Gate!Next

(* ... a closure that is called leaves its place, once unless a race was lost; *)
LEMMA CallStep ==
  ASSUME TypeOK, asked' = asked, history' = history, NEW S \in SUBSET asked,
         answered' = [r \in Closures |-> IF r \in S THEN answered[r] + 1 ELSE answered[r]],
         S \subseteq Places, "raced" \in history \/ \A r \in S : answered[r] = 0,
         Places' \cap asked \subseteq Places, Places \cap asked \subseteq Places' \cup S
  PROVE  Gate!Next
<1>1. Lost' = Lost
  BY DEF Lost, TypeOK
<1>2. S \in SUBSET Gate!Closures /\ S \subseteq Gate!Callable
  BY DEF Lost, TypeOK, Closures, Gate!Closures, Gate!Callable, Gate!Held
<1>3. Gate!Call(S)
  BY <1>1, <1>2 DEF Gate!Call, Gate!mishaps, Gate!Closures, Closures
<1>. QED  BY <1>2, <1>3 DEF Gate!Next

(* ... and a closure that is handed in finds a place.                          *)
LEMMA AskStep ==
  ASSUME TypeOK, UNCHANGED <<answered, history>>, NEW r \in Closures \ asked,
         asked' = asked \cup {r}, Places' \cap Closures = (Places \cap Closures) \cup {r}
  PROVE  Gate!Next
<1>1. Lost' = Lost
  BY DEF Lost, TypeOK
<1>2. Gate!Ask(r) /\ r \in Gate!Closures
  BY <1>1 DEF Gate!Ask, Gate!mishaps, Gate!Closures, Closures
<1>. QED  BY <1>2 DEF Gate!Next

(* Every step of the manager is a step of the gate, or none. *)
LEMMA GateStep ==
  TypeOK /\ PlaceInv /\ PlaceInv' /\ QuietInv' /\ [Next]_vars => [Gate!Next]_Gate!vars
<1>. SUFFICES ASSUME TypeOK, PlaceInv, PlaceInv', QuietInv', [Next]_vars PROVE Gate!Next
  OBVIOUS
<1>a. asked' = asked /\ answered' = answered /\ history \subseteq history'
        /\ Places' \cap asked \subseteq Places => Gate!Next
  BY LoseStep
<1>0. /\ pc \in [Threads -> Steps] /\ arg \in [Threads -> Closures \cup {NoCall}]
      /\ copy \in [Threads -> Seq(Closures)] /\ refresh \in Seq(Closures)
      /\ answered \in [Closures -> Nat]
      /\ refreshes \subseteq Closures /\ codes \subseteq Logins /\ asked \subseteq Closures
      /\ \A th \in Threads : pc[th] \notin {"idle"} \cup SigningOut => arg[th] \in Closures
  BY DEF TypeOK
<1>. USE <1>0, NoCallAssumption, CallsAssumption
     DEF PlaceInv, ThreadInv, OutstandingInv, ParkedInv, UnracedInv, Outstanding, Places, Threads,
         Closures, Caching, SigningOut, Validating, Parked,
         stored, memory, network, clock, control, fates, Goto, Return, Answer, Drop
<1>1. ASSUME NEW th \in Threads, NEW r \in Closures, ValidateToke(th, r) PROVE Gate!Next
  <2>1. CASE th = "main"
    BY <1>1, <2>1, AskStep DEF ValidateToke
  <2>2. CASE th = "net"
    BY <1>1, <2>2, <1>a DEF ValidateToke
  <2>. QED  BY <2>1, <2>2
<1>2. ASSUME NEW th \in Threads, AppendLoad(th) PROVE Gate!Next
  BY <1>2, <1>a DEF AppendLoad
<1>3. ASSUME NEW th \in Threads, AppendStore(th) PROVE Gate!Next
  BY <1>3, <1>a, AppendElements, EmptyElements DEF AppendStore
<1>4. ASSUME NEW th \in Threads, CheckExpiry(th) PROVE Gate!Next
  BY <1>4, <1>a DEF CheckExpiry
<1>5. ASSUME NEW th \in Threads, ReadToken(th) PROVE Gate!Next
  <2>1. CASE accessToken # 0
    <3>. DEFINE S == {arg[th]}
    <3>1. S \in SUBSET asked /\ S \subseteq Places /\ \A r \in S : answered[r] = 0
      BY <1>5 DEF ReadToken
    <3>2. answered' = [r \in Closures |-> IF r \in S THEN answered[r] + 1 ELSE answered[r]]
      BY <1>5, <2>1 DEF ReadToken
    <3>3. /\ UNCHANGED <<asked, history, refreshes, codes, refresh, copy>>
          /\ arg' = [arg EXCEPT ![th] = NoCall]
      BY <1>5, <2>1 DEF ReadToken
    <3>4. Places' \cap asked \subseteq Places /\ Places \cap asked \subseteq Places' \cup S
      BY <3>3
    <3>. QED  BY <3>1, <3>2, <3>3, <3>4, CallStep, ZenonT(30)
  <2>2. CASE accessToken = 0
    BY <1>5, <2>2, <1>a DEF ReadToken
  <2>. QED  BY <2>1, <2>2
<1>6. ASSUME NEW th \in Threads, RefreshGuard(th) PROVE Gate!Next
  BY <1>6, <1>a DEF RefreshGuard
<1>7. ASSUME NEW th \in Threads, Recheck(th) PROVE Gate!Next
  BY <1>7, <1>a DEF Recheck
<1>8. ASSUME NEW th \in Threads, ReadRefreshToken(th) PROVE Gate!Next
  BY <1>8, <1>a DEF ReadRefreshToken
<1>9. ASSUME NEW th \in Threads, Raise(th) PROVE Gate!Next
  BY <1>9, <1>a DEF Raise
<1>10. ASSUME NEW q \in Closures, RefreshFailed(q) PROVE Gate!Next
  BY <1>10, <1>a DEF RefreshFailed
<1>11. ASSUME NEW q \in Closures, RefreshSucceeded(q) PROVE Gate!Next
  BY <1>11, <1>a DEF RefreshSucceeded
<1>12. ASSUME NEW c \in Logins, GenerateToken(c) PROVE Gate!Next
  BY <1>12, AskStep DEF GenerateToken
<1>13. ASSUME NEW c \in Logins, CodeFailed(c) PROVE Gate!Next
  BY <1>13, <1>a DEF CodeFailed
<1>14. ASSUME NEW c \in Logins, CodeSucceeded(c) PROVE Gate!Next
  BY <1>14, <1>a DEF CodeSucceeded
<1>15. CASE CacheAccess
  BY <1>15, <1>a DEF CacheAccess
<1>16. CASE CacheRefresh
  BY <1>16, <1>a DEF CacheRefresh
<1>17. CASE CacheExpiry
  BY <1>17, <1>a DEF CacheExpiry
<1>18. CASE Drain
  <2>1. Parked \in SUBSET asked /\ Parked \subseteq Places
          /\ ("raced" \in history \/ \A r \in Parked : answered[r] = 0)
    BY <1>18 DEF Drain
  <2>2. answered' = [r \in Closures |-> IF r \in Parked THEN answered[r] + 1 ELSE answered[r]]
    <3>1. Distinct(refresh)
      OBVIOUS
    <3>2. \A r : Copies(r) = IF r \in Parked THEN 1 ELSE 0
      BY <3>1, CopiesOfDistinct, Zenon
    <3>3. answered' = [r \in Closures |-> answered[r] + Copies(r)]
      BY <1>18, Zenon DEF Drain
    <3>4. ASSUME NEW r \in Closures
          PROVE  answered[r] + Copies(r) = IF r \in Parked THEN answered[r] + 1 ELSE answered[r]
      <4>1. Copies(r) = IF r \in Parked THEN 1 ELSE 0
        BY <3>2, Zenon
      <4>. QED  BY <4>1
    <3>. QED  BY <3>3, <3>4, Zenon
  <2>3. UNCHANGED <<asked, history, refreshes, codes, refresh, copy, arg>>
    BY <1>18 DEF Drain
  <2>4. Places' \cap asked \subseteq Places /\ Places \cap asked \subseteq Places' \cup Parked
    BY <2>3
  <2>. QED  BY <2>1, <2>2, <2>3, <2>4, CallStep, Zenon
<1>19. CASE Clear
  BY <1>19, <1>a, EmptyElements DEF Clear
<1>20. CASE Finish
  <2>1. CASE accessToken # 0
    <3>. DEFINE S == {arg["net"]}
    <3>1. S \in SUBSET asked /\ S \subseteq Places /\ \A r \in S : answered[r] = 0
      BY <1>20 DEF Finish
    <3>2. answered' = [r \in Closures |-> IF r \in S THEN answered[r] + 1 ELSE answered[r]]
      BY <1>20, <2>1 DEF Finish
    <3>3. /\ UNCHANGED <<asked, history, refreshes, codes, refresh, copy>>
          /\ arg' = [arg EXCEPT !["net"] = NoCall]
      BY <1>20, <2>1 DEF Finish
    <3>4. Places' \cap asked \subseteq Places /\ Places \cap asked \subseteq Places' \cup S
      BY <3>3
    <3>. QED  BY <3>1, <3>2, <3>3, <3>4, CallStep, ZenonT(30)
  <2>2. CASE accessToken = 0
    BY <1>20, <2>2, <1>a DEF Finish
  <2>. QED  BY <2>1, <2>2
<1>21. CASE SignOutAccess
  BY <1>21, <1>a DEF SignOutAccess
<1>22. CASE SignOutRefresh
  BY <1>22, <1>a DEF SignOutRefresh
<1>23. CASE SignOutExpiry
  BY <1>23, <1>a DEF SignOutExpiry
<1>24. CASE Age
  BY <1>24, <1>a DEF Age
<1>25. CASE Kill
  BY <1>25, <1>a, EmptyElements DEF Kill
<1>26. CASE UNCHANGED vars
  BY <1>26, <1>a DEF vars
<1>27. ASSUME NEW th \in Threads, Continue(th) PROVE Gate!Next
  BY <1>27, <1>2, <1>3, <1>4, <1>5, <1>6, <1>7, <1>8, <1>9 DEF Continue
<1>28. ASSUME NEW q \in Closures, RefreshReply(q) PROVE Gate!Next
  BY <1>10, <1>11, <1>28, Zenon DEF RefreshReply
<1>29. ASSUME NEW c \in Logins, CodeReply(c) PROVE Gate!Next
  BY <1>13, <1>14, <1>29, Zenon DEF CodeReply
<1>30. CASE User
  BY <1>30, <1>1, <1>12, <1>21 DEF User, Closures
<1>31. CASE Main
  BY <1>31, <1>22, <1>23, <1>27 DEF Main
<1>32. CASE Net
  BY <1>32, <1>1, <1>15, <1>16, <1>17, <1>18, <1>19, <1>20, <1>27 DEF Net, Closures
<1>. QED
  BY <1>24, <1>25, <1>26, <1>28, <1>29, <1>30, <1>31, <1>32 DEF Next

(* The manager keeps the promise of the gate. *)
THEOREM ManagerIsGate == Spec => GateSpec
<1>1. Init => Gate!Init
  <2>. SUFFICES ASSUME Init PROVE Gate!Init
    OBVIOUS
  <2>1. asked = {} /\ answered = [r \in Closures |-> 0] /\ "raced" \notin history
    BY DEF Init
  <2>. QED  BY <2>1 DEF Gate!Init, Gate!Closures, Closures, Lost
<1>. QED
  BY <1>1, TypeInit, TypeStep, FreshInit, FreshStep, PlaceInit, PlaceStep, QuietInit, QuietStep,
     GateStep, PTL DEF Spec, GateSpec, Gate!Spec

(* What the gate promises, the manager keeps: at most one call, none after a   *)
(* closure was given up, and none given up in an undisturbed session.          *)
THEOREM ManagerKeepsPromise == Spec => []Gate!Promise
<1>1. Gate!Init => Gate!Promise
  BY DEF Gate!Init, Gate!Promise, Gate!Closures
<1>2. TypeOK /\ Gate!Promise /\ [Gate!Next]_Gate!vars => Gate!Promise'
  <2>. SUFFICES ASSUME TypeOK, Gate!Promise, [Gate!Next]_Gate!vars PROVE Gate!Promise'
    OBVIOUS
  <2>0. answered \in [Gate!Closures -> Nat] /\ Lost \subseteq asked
    BY DEF TypeOK, Closures, Gate!Closures, Lost
  <2>1. ASSUME NEW r \in Gate!Closures, Gate!Ask(r) PROVE Gate!Promise'
    BY <2>0, <2>1 DEF Gate!Ask, Gate!mishaps, Gate!Promise
  <2>2. ASSUME NEW S \in SUBSET Gate!Closures, Gate!Call(S) PROVE Gate!Promise'
    BY <2>0, <2>2 DEF Gate!Call, Gate!mishaps, Gate!Promise, Gate!Callable, Gate!Held
  <2>3. ASSUME NEW S \in SUBSET Gate!Closures, Gate!Lose(S) PROVE Gate!Promise'
    <3>1. /\ history # {} => history' # {}
          /\ "raced" \in history => "raced" \in history'
          /\ S \cap Calls # {} => history' # {}
      BY <2>3, Zenon DEF Gate!Lose
    <3>2. Lost' = Lost \cup S /\ S \subseteq Gate!Held /\ UNCHANGED <<asked, answered>>
      BY <2>3, Zenon DEF Gate!Lose
    <3>3. history' = {} => Lost' \cap Calls = {}
      BY <3>1, <3>2 DEF Gate!Promise
    <3>. QED  BY <2>0, <3>1, <3>2, <3>3 DEF Gate!Promise, Gate!Held
  <2>4. CASE UNCHANGED Gate!vars
    BY <2>4 DEF Gate!vars, Gate!fates, Gate!mishaps, Gate!Promise
  <2>. QED  BY <2>1, <2>2, <2>3, <2>4 DEF Gate!Next
<1>. QED
  BY <1>1, <1>2, ManagerIsGate, TypeCorrect, PTL DEF GateSpec, Gate!Spec

----------------------------------------------------------------------------
(* A parked closure that was not called yet has a refresh to wait for that is  *)
(* at the endpoint or on its way to the drain.                                 *)
RefreshComing == refreshes # {} \/ (job = "refresh" /\ pc["net"] \in Caching \cup {"drain"})

(* A closure that is neither called nor given up is being worked on, travels   *)
(* with a request, or is parked with a refresh coming.                         *)
CallOnItsWay ==
  history \cap {"failed", "raced"} = {} =>
    \A r \in asked :
      \/ answered[r] > 0 \/ r \in dropped
      \/ Outstanding(r)
      \/ r \in Parked /\ RefreshComing

(* What CallSettles waits for: until a refresh fails or the array loses a race *)
(* no closure waits for nothing.  This is why a closure parked behind the flag *)
(* is safe although nobody but the refresh that raised the flag knows of it.   *)
THEOREM NoCallForgotten == Spec => []CallOnItsWay
<1>1. PlaceInv /\ StrandInv => CallOnItsWay
  <2>. SUFFICES ASSUME PlaceInv, StrandInv, history \cap {"failed", "raced"} = {}, NEW r \in asked,
                       ~(answered[r] > 0), r \notin dropped, ~Outstanding(r)
                PROVE  r \in Parked /\ RefreshComing
    BY DEF CallOnItsWay
  <2>1. r \in Parked /\ answered[r] = IF pc["net"] = "clear" THEN 1 ELSE 0
    BY DEF PlaceInv, UnracedInv
  <2>2. pc["net"] # "clear" /\ (refreshes # {} \/ job = "refresh")
    BY <2>1 DEF StrandInv, Parked, Elements
  <2>. QED  BY <2>1, <2>2 DEF StrandInv, RefreshComing
<1>. QED
  BY <1>1, TypeInit, TypeStep, PlaceInit, PlaceStep, StrandInit, StrandStep, PTL DEF Spec
=============================================================================
