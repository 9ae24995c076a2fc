-------------------------- MODULE ArtistAlbumProofs --------------------------
(* What an album screen guarantees for any lists, headers and calls of the gate. *)
EXTENDS ArtistAlbum, TLAPS, FiniteSetTheorems, FunctionTheorems

Count(s, e) == Cardinality({i \in DOMAIN s : s[i] = e})
Queued(e) == \E i \in DOMAIN events : events[i] = e
One(b) == IF b THEN 1 ELSE 0
Closure == calls[getArtistAlbum]

(* Every call of the closure leads to one request and one outcome at most. *)
CallsInv ==
  /\ calls \in [{getArtistAlbum} -> 0..MaxCalls] /\ raced \in BOOLEAN
  /\ ~raced => Closure <= 1
  /\ pc = "album" => result # NoAlbum
  /\ requests + One(pc \in {"album", "error"}) + One(album # NoAlbum) <= Closure
  /\ requests + One(pc = "error") + unheard + alerts + Count(events, "error") <= Closure

(* Every subscription of a header has filled it or is about to. *)
HeaderInv ==
  /\ phase \in {"request", "header"} => headers = 0
  /\ header <=> phase \notin {"request", "header"}
  /\ populated + Count(events, "header") <= headers
  /\ phase # "popped" => headers = populated + Count(events, "header")

(* The grid shows the albums, or a layout is due or on its way. *)
ReloadInv ==
  phase = "shown" => rows = NumberOfItems \/ needsLayout \/ pc = "reload" \/ Queued("reload")

(* The last word on the spinner is what the view model says. *)
LastWord ==
  \/ loader = isLoading /\ \A i \in DOMAIN events : events[i] \notin {"start", "stop"}
  \/ \E i \in DOMAIN events :
       /\ events[i] = IF isLoading THEN "start" ELSE "stop"
       /\ \A j \in DOMAIN events : j > i => events[j] \notin {"start", "stop"}

LoaderInv == phase \in {"onError", "reload", "shown"} => LastWord

(* A failure is about to be told. *)
TellInv ==
  phase # "popped" /\ ~isLoading /\ alerts = 0 /\ unheard = 0 =>
    album # NoAlbum \/ pc \in {"error", "album"} \/ Queued("error")

(* Until it is answered, each call of the closure is a request that is out. *)
AnswerInv ==
  /\ phase # "request" => getArtistAlbum \in asked
  /\ ~disturbed => getArtistAlbum \notin lost
  /\ isLoading /\ phase # "popped" => requests = Closure

(* A spinner that nothing on the screen is about to stop has an answer to wait *)
(* for, at the gate or at the endpoint, unless a mishap cost it.               *)
AnswerComing ==
  (isLoading /\ phase # "popped") \/ (Settled /\ loader) =>
    \/ phase = "request" \/ getArtistAlbum \in Gate!Held \/ requests > 0
    \/ disturbed

----------------------------------------------------------------------------
(* What the operations on sequences do: append, ... *)
LEMMA Appended ==
  ASSUME NEW S, NEW s \in Seq(S), NEW x \in S
  PROVE  /\ Append(s, x) \in Seq(S) /\ Len(s) \in Nat
         /\ DOMAIN s = 1..Len(s) /\ DOMAIN Append(s, x) = 1..Len(s) + 1
         /\ Append(s, x)[Len(s) + 1] = x /\ \A i \in DOMAIN s : Append(s, x)[i] = s[i]
<1>. QED  OBVIOUS

(* ... and take the first. *)
LEMMA Served ==
  ASSUME NEW S, NEW s \in Seq(S), s # <<>>
  PROVE  /\ Head(s) \in S /\ Head(s) = s[1] /\ 1 \in DOMAIN s
         /\ Tail(s) \in Seq(S) /\ Len(s) \in Nat \ {0}
         /\ DOMAIN s = 1..Len(s) /\ DOMAIN Tail(s) = 1..Len(s) - 1
         /\ \A i \in DOMAIN Tail(s) : Tail(s)[i] = s[i + 1]
<1>. QED  OBVIOUS

(* A sequence has finitely many events of a kind, ... *)
LEMMA Counted ==
  ASSUME NEW S, NEW s \in Seq(S), NEW e
  PROVE  /\ IsFiniteSet({i \in DOMAIN s : s[i] = e}) /\ Count(s, e) \in Nat
         /\ Count(<<>>, e) = 0
<1>1. DOMAIN s = 1..Len(s) /\ Len(s) \in Nat
  OBVIOUS
<1>2. IsFiniteSet(DOMAIN s)
  BY <1>1, FS_Interval
<1>3. IsFiniteSet({i \in DOMAIN s : s[i] = e})
  BY <1>2, FS_Subset
<1>4. {i \in DOMAIN <<>> : <<>>[i] = e} = {}
  OBVIOUS
<1>. QED  BY <1>3, <1>4, FS_CardinalityType, FS_EmptySet DEF Count

(* ... one more when one is appended, ... *)
LEMMA CountedOneMore ==
  ASSUME NEW S, NEW s \in Seq(S), NEW x \in S, NEW e
  PROVE  Count(Append(s, x), e) = Count(s, e) + One(x = e)
<1>. DEFINE A == {i \in DOMAIN s : s[i] = e}
            B == {i \in DOMAIN Append(s, x) : Append(s, x)[i] = e}
<1>1. IsFiniteSet(A) /\ Count(s, e) \in Nat
  BY Counted
<1>2. Len(s) + 1 \notin A /\ B = IF x = e THEN A \cup {Len(s) + 1} ELSE A
  BY Appended
<1>3. Cardinality(A \cup {Len(s) + 1}) = Cardinality(A) + 1
  BY <1>1, <1>2, FS_AddElement
<1>4. Count(s, e) = Cardinality(A) /\ Count(Append(s, x), e) = Cardinality(B)
  BY DEF Count
<1>. HIDE DEF A, B
<1>. QED  BY <1>1, <1>2, <1>3, <1>4 DEF One

(* ... one less when it is taken. *)
LEMMA CountedOneLess ==
  ASSUME NEW S, NEW s \in Seq(S), s # <<>>, NEW e
  PROVE  Count(s, e) = Count(Tail(s), e) + One(Head(s) = e)
<1>. DEFINE A == {i \in DOMAIN s : s[i] = e}
            B == {i \in DOMAIN Tail(s) : Tail(s)[i] = e}
            C == {i \in A : i # 1}
            next == [i \in B |-> i + 1]
<1>1. IsFiniteSet(A) /\ Count(s, e) \in Nat /\ IsFiniteSet(B) /\ Cardinality(B) \in Nat
  <2>1. Tail(s) \in Seq(S)
    BY Served
  <2>2. IsFiniteSet(A) /\ Count(s, e) \in Nat
    BY Counted
  <2>3. IsFiniteSet(B) /\ Count(Tail(s), e) \in Nat
    BY <2>1, Counted
  <2>. QED  BY <2>2, <2>3 DEF Count
<1>2. Cardinality(C) = Cardinality(B)
  <2>1. next \in [B -> C]
    BY Served
  <2>2. \A a, b \in B : next[a] = next[b] => a = b
    BY Served
  <2>3. \A c \in C : \E b \in B : next[b] = c
    <3>1. SUFFICES ASSUME NEW c \in C PROVE c - 1 \in B /\ next[c - 1] = c
      OBVIOUS
    <3>. QED  BY Served
  <2>4. next \in Bijection(B, C)
    BY <2>1, <2>2, <2>3, Fun_IsBij
  <2>. QED  BY <1>1, <2>4, FS_Bijection, ZenonT(30) DEF ExistsBijection
<1>3. A = IF Head(s) = e THEN C \cup {1} ELSE C
  BY Served
<1>4. IsFiniteSet(C) /\ 1 \notin C
  BY <1>1, FS_Subset
<1>5. Cardinality(C \cup {1}) = Cardinality(C) + 1
  BY <1>4, FS_AddElement
<1>6. Count(s, e) = Cardinality(A) /\ Count(Tail(s), e) = Cardinality(B)
  BY DEF Count
<1>. HIDE DEF A, B, C
<1>. QED  BY <1>1, <1>2, <1>3, <1>5, <1>6 DEF One

----------------------------------------------------------------------------
(* How far the screen must be for an event to find a subscriber. *)
LEMMA ReachedPhases ==
  /\ Reached("onError") <=> phase \in {"onError", "reload", "shown", "popped"}
  /\ Reached("reload") <=> phase \in {"reload", "shown", "popped"}
  /\ Reached("shown") <=> phase \in {"shown", "popped"}
<1>1. DOMAIN Phases = 1..7
  BY DEF Phases
<1>2. \A k \in 1..7 : k = 1 \/ k = 2 \/ k = 3 \/ k = 4 \/ k = 5 \/ k = 6 \/ k = 7
  OBVIOUS
<1>3. /\ Phases[1] = "request" /\ Phases[2] = "header" /\ Phases[3] = "bind"
      /\ Phases[4] = "onError" /\ Phases[5] = "reload" /\ Phases[6] = "shown" /\ Phases[7] = "popped"
  BY DEF Phases
<1>. HIDE DEF Phases
<1>4. Reached("onError") <=> phase \in {"onError", "reload", "shown", "popped"}
  BY <1>1, <1>2, <1>3 DEF Reached
<1>5. Reached("reload") <=> phase \in {"reload", "shown", "popped"}
  BY <1>1, <1>2, <1>3 DEF Reached
<1>6. Reached("shown") <=> phase \in {"shown", "popped"}
  BY <1>1, <1>2, <1>3 DEF Reached
<1>. QED  BY <1>4, <1>5, <1>6

(* An event that is appended: it is counted, it hides no other, and it is the  *)
(* last word on the spinner if it is about it.                                 *)
LEMMA Queueing ==
  ASSUME events \in Seq(Kinds), NEW e \in Kinds, events' = Append(events, e)
  PROVE  /\ events' \in Seq(Kinds) /\ Queued(e)'
         /\ \A k \in Kinds : Count(events', k) = Count(events, k) + One(e = k)
         /\ \A k \in Kinds : Queued(k) => Queued(k)'
         /\ UNCHANGED <<loader, isLoading>> /\ e \notin {"start", "stop"} /\ LastWord => LastWord'
         /\ e = (IF isLoading' THEN "start" ELSE "stop") => LastWord'
<1>1. /\ events' \in Seq(Kinds) /\ Len(events) \in Nat
      /\ DOMAIN events = 1..Len(events) /\ DOMAIN events' = 1..Len(events) + 1
      /\ events'[Len(events) + 1] = e /\ \A i \in DOMAIN events : events'[i] = events[i]
  BY Appended
<1>2. \A k \in Kinds : Count(events', k) = Count(events, k) + One(e = k)
  BY CountedOneMore
<1>3. Queued(e)' /\ \A k \in Kinds : Queued(k) => Queued(k)'
  BY <1>1 DEF Queued
<1>4. UNCHANGED <<loader, isLoading>> /\ e \notin {"start", "stop"} /\ LastWord => LastWord'
  <2>1. \A i \in DOMAIN events' : i \in DOMAIN events \/ events'[i] = e
    BY <1>1
  <2>. QED  BY <1>1, <2>1 DEF LastWord
<1>5. e = (IF isLoading' THEN "start" ELSE "stop") => LastWord'
  <2>1. \A j \in DOMAIN events' : ~(j > Len(events) + 1)
    BY <1>1
  <2>2. Len(events) + 1 \in DOMAIN events'
    BY <1>1
  <2>. QED  BY <1>1, <2>1, <2>2 DEF LastWord
<1>. QED  BY <1>1, <1>2, <1>3, <1>4, <1>5

(* An event emitted on the main thread, run at once or queued. *)
LEMMA Emitted ==
  ASSUME events \in Seq(Kinds), loader \in BOOLEAN, needsLayout \in BOOLEAN,
         isLoading \in BOOLEAN, NEW e \in Kinds \ {"error", "reload"}, Emit(e)
  PROVE  /\ events' \in Seq(Kinds) /\ loader' \in BOOLEAN /\ needsLayout' \in BOOLEAN
         /\ UNCHANGED <<rows, alerts, needsLayout>>
         /\ Count(events', "error") = Count(events, "error")
         /\ \A k \in Kinds : Queued(k) => Queued(k)'
         /\ e # "header" =>
              UNCHANGED populated /\ Count(events', "header") = Count(events, "header")
         /\ e = "header" =>
              \/ Count(events', "header") = Count(events, "header") + 1 /\ UNCHANGED populated
              \/ /\ Count(events', "header") = Count(events, "header")
                 /\ populated' = IF header THEN populated + 1 ELSE populated
         /\ UNCHANGED isLoading /\ e \notin {"start", "stop"} /\ LastWord => LastWord'
         /\ UNCHANGED isLoading /\ e = (IF isLoading THEN "start" ELSE "stop") => LastWord'
<1>1. CASE events' = Append(events, e) /\ UNCHANGED view
  <2>1. UNCHANGED <<loader, needsLayout, rows, populated, alerts>>
    BY <1>1 DEF view, grid
  <2>2. /\ Count(events', "error") = Count(events, "error") + One(e = "error")
        /\ Count(events', "header") = Count(events, "header") + One(e = "header")
        /\ Count(events, "error") \in Nat /\ Count(events, "header") \in Nat
    BY <1>1, Queueing, Counted DEF Kinds
  <2>3. /\ events' \in Seq(Kinds) /\ \A k \in Kinds : Queued(k) => Queued(k)'
        /\ UNCHANGED isLoading /\ e \notin {"start", "stop"} /\ LastWord => LastWord'
        /\ UNCHANGED isLoading /\ e = (IF isLoading THEN "start" ELSE "stop") => LastWord'
    BY <1>1, <2>1, Queueing
  <2>. QED  BY <2>1, <2>2, <2>3 DEF One
<1>2. CASE events = <<>> /\ Apply(e) /\ UNCHANGED events
  <2>0. /\ e \notin {"start", "stop"} => UNCHANGED loader
        /\ e \in {"start", "stop"} => loader' = (e = "start")
        /\ UNCHANGED <<rows, alerts, events>>
    BY <1>2 DEF Apply
  <2>0a. UNCHANGED needsLayout
    BY <1>2 DEF Apply
  <2>1. /\ UNCHANGED <<rows, alerts, needsLayout, events>> /\ loader' \in BOOLEAN
        /\ e # "header" => UNCHANGED populated
        /\ e = "header" => populated' = IF header THEN populated + 1 ELSE populated
        /\ DOMAIN events' = {} /\ DOMAIN events = {}
    <3>1. DOMAIN events' = {} /\ DOMAIN events = {}
      BY <1>2
    <3>2. loader' \in BOOLEAN
      BY <2>0
    <3>3. populated' = IF e = "header" /\ header THEN populated + 1 ELSE populated
      BY <1>2 DEF Apply
    <3>. QED  BY <2>0, <2>0a, <3>1, <3>2, <3>3
  <2>2. \A k \in Kinds : Queued(k) => Queued(k)'
    BY <2>1 DEF Queued
  <2>3. UNCHANGED isLoading /\ e \notin {"start", "stop"} /\ LastWord => LastWord'
    BY <2>0, <2>1 DEF LastWord
  <2>4. UNCHANGED isLoading /\ e = (IF isLoading THEN "start" ELSE "stop") => LastWord'
    BY <2>0, <2>1 DEF LastWord
  <2>. QED  BY <2>1, <2>2, <2>3, <2>4
<1>. QED  BY <1>1, <1>2 DEF Emit

(* An event posted on the delegate queue is queued if anybody listens. *)
LEMMA Posted ==
  ASSUME events \in Seq(Kinds), NEW e \in Kinds, NEW p, Post(e, p)
  PROVE  /\ events' \in Seq(Kinds)
         /\ \A k \in Kinds :
              Count(events', k) = Count(events, k) + One(e = k /\ Reached(p) /\ ~Released)
         /\ \A k \in Kinds : Queued(k) => Queued(k)'
         /\ Reached(p) /\ ~Released => Queued(e)'
         /\ UNCHANGED <<loader, isLoading>> /\ e \notin {"start", "stop"} /\ LastWord => LastWord'
         /\ Reached(p) /\ ~Released /\ e = (IF isLoading' THEN "start" ELSE "stop") => LastWord'
<1>1. CASE Reached(p) /\ ~Released
  BY <1>1, Queueing DEF Post
<1>2. CASE ~(Reached(p) /\ ~Released)
  <2>1. UNCHANGED events
    BY <1>2 DEF Post
  <2>2. \A k \in Kinds : Count(events, k) \in Nat
    BY Counted
  <2>. QED  BY <1>2, <2>1, <2>2 DEF Queued, LastWord, One
<1>. QED  BY <1>1, <1>2

(* The first event is run, or dropped when the screen is gone. *)
LEMMA Ran ==
  ASSUME events \in Seq(Kinds), isLoading \in BOOLEAN, RunEvent
  PROVE  /\ events' \in Seq(Kinds) /\ Head(events) \in Kinds
         /\ \A k \in Kinds : Count(events, k) = Count(events', k) + One(Head(events) = k)
         /\ \A k \in Kinds : Queued(k) => Head(events) = k \/ Queued(k)'
         /\ ~Released /\ LastWord => LastWord'
<1>0. events # <<>> /\ events' = Tail(events) /\ UNCHANGED isLoading
  BY DEF RunEvent, model
<1>1. /\ Head(events) \in Kinds /\ Head(events) = events[1] /\ 1 \in DOMAIN events
      /\ events' \in Seq(Kinds) /\ Len(events) \in Nat \ {0}
      /\ DOMAIN events = 1..Len(events) /\ DOMAIN events' = 1..Len(events) - 1
      /\ \A i \in DOMAIN events' : events'[i] = events[i + 1]
  BY <1>0, Served
<1>2. \A k \in Kinds : Count(events, k) = Count(events', k) + One(Head(events) = k)
  BY <1>0, CountedOneLess
<1>3. \A i \in DOMAIN events : i # 1 => i - 1 \in DOMAIN events' /\ events'[i - 1] = events[i]
  BY <1>1
<1>4. \A k \in Kinds : Queued(k) => Head(events) = k \/ Queued(k)'
  <2>1. SUFFICES ASSUME NEW k \in Kinds, Queued(k), Head(events) # k PROVE Queued(k)'
    OBVIOUS
  <2>2. PICK i \in DOMAIN events : events[i] = k
    BY <2>1 DEF Queued
  <2>3. i - 1 \in DOMAIN events' /\ events'[i - 1] = k
    BY <1>1, <1>3, <2>1, <2>2
  <2>. QED  BY <2>3 DEF Queued
<1>5. ASSUME ~Released, LastWord PROVE LastWord'
  <2>0. /\ Head(events) \notin {"start", "stop"} => UNCHANGED loader
        /\ Head(events) \in {"start", "stop"} => loader' = (Head(events) = "start")
    BY <1>5 DEF RunEvent, Apply
  <2>1. CASE loader = isLoading /\ \A i \in DOMAIN events : events[i] \notin {"start", "stop"}
    BY <1>0, <1>1, <2>0, <2>1 DEF LastWord
  <2>2. ASSUME NEW i \in DOMAIN events, events[i] = IF isLoading THEN "start" ELSE "stop",
               \A j \in DOMAIN events : j > i => events[j] \notin {"start", "stop"}
        PROVE  LastWord'
    <3>1. CASE i = 1
      <4>1. \A j \in DOMAIN events' : events'[j] \notin {"start", "stop"}
        BY <1>1, <2>2, <3>1
      <4>2. loader' = isLoading'
        BY <1>0, <1>1, <2>0, <2>2, <3>1
      <4>. QED  BY <4>1, <4>2 DEF LastWord
    <3>2. CASE i # 1
      <4>1. i - 1 \in DOMAIN events' /\ events'[i - 1] = IF isLoading' THEN "start" ELSE "stop"
        BY <1>0, <1>3, <2>2, <3>2
      <4>2. \A j \in DOMAIN events' : j > i - 1 => events'[j] \notin {"start", "stop"}
        BY <1>1, <2>2, <3>2
      <4>. QED  BY <4>1, <4>2 DEF LastWord
    <3>. QED  BY <3>1, <3>2
  <2>. QED  BY <1>5, <2>1, <2>2 DEF LastWord
<1>. QED  BY <1>1, <1>2, <1>4, <1>5

----------------------------------------------------------------------------
(* The parts of TypeOK that the steps are reasoned with. *)
LEMMA Typed ==
  ASSUME TypeOK
  PROVE  /\ phase \in {"request", "header", "bind", "onError", "reload", "shown", "popped"}
         /\ isLoading \in BOOLEAN /\ header \in BOOLEAN /\ album \in Results /\ result \in Results
         /\ requests \in Nat /\ pc \in {"idle", "error", "album", "reload"}
         /\ events \in Seq(Kinds) /\ loader \in BOOLEAN /\ needsLayout \in BOOLEAN
         /\ rows \in Nat /\ headers \in Nat /\ populated \in Nat /\ alerts \in Nat /\ unheard \in Nat
         /\ trapped \in BOOLEAN
         /\ Count(events, "error") \in Nat /\ Count(events, "header") \in Nat
         /\ "error" \in Kinds /\ "header" \in Kinds /\ "reload" \in Kinds
         /\ Results = Lists \cup {NoAlbum} /\ Lists \subseteq Nat /\ NoAlbum \notin Nat
<1>1. phase \in {"request", "header", "bind", "onError", "reload", "shown", "popped"}
  <2>1. DOMAIN Phases = 1..7
    BY DEF Phases
  <2>2. \A k \in 1..7 : k = 1 \/ k = 2 \/ k = 3 \/ k = 4 \/ k = 5 \/ k = 6 \/ k = 7
    OBVIOUS
  <2>3. PICK k \in 1..7 : phase = Phases[k]
    BY <2>1 DEF TypeOK
  <2>. QED  BY <2>2, <2>3 DEF Phases
<1>2. events \in Seq(Kinds)
  BY DEF TypeOK
<1>3. Count(events, "error") \in Nat /\ Count(events, "header") \in Nat
  BY <1>2, Counted
<1>. QED
  BY <1>1, <1>2, <1>3, BoundsAssumption DEF TypeOK, Results, Lists, Kinds

(* Nothing is asked. *)
LEMMA TypeInit == Init => TypeOK /\ CallsInv /\ HeaderInv
<1>. SUFFICES ASSUME Init PROVE TypeOK /\ CallsInv /\ HeaderInv
  OBVIOUS
<1>1. 1 \in DOMAIN Phases /\ Phases[1] = "request"
  BY DEF Phases
<1>2. events \in Seq(Kinds) /\ Count(events, "error") = 0 /\ Count(events, "header") = 0
  <2>1. <<>> \in Seq(Kinds)
    OBVIOUS
  <2>2. Count(<<>>, "error") = 0 /\ Count(<<>>, "header") = 0
    BY <2>1, Counted
  <2>. QED  BY <2>1, <2>2 DEF Init
<1>3. TypeOK
  <2>1. \E i \in DOMAIN Phases : phase = Phases[i]
    BY <1>1 DEF Init
  <2>2. album \in Results /\ result \in Results /\ rows \in Lists
    BY BoundsAssumption DEF Init, Results, Lists
  <2>3. /\ requests \in 0..MaxCalls /\ headers \in 0..MaxHeaders /\ populated \in 0..MaxHeaders
        /\ alerts \in 0..MaxCalls /\ unheard \in 0..MaxCalls
    BY BoundsAssumption DEF Init
  <2>. QED  BY <1>2, <2>1, <2>2, <2>3 DEF Init, TypeOK
<1>4. CallsInv
  <2>1. calls = [r \in {getArtistAlbum} |-> 0] /\ raced = FALSE
    BY DEF Init, Gate!Init, Gate!Closures
  <2>2. calls \in [{getArtistAlbum} -> 0..MaxCalls] /\ Closure = 0
    BY <2>1, BoundsAssumption DEF Closure
  <2>3. /\ requests = 0 /\ One(pc \in {"album", "error"}) = 0 /\ One(album # NoAlbum) = 0
        /\ One(pc = "error") = 0 /\ unheard = 0 /\ alerts = 0 /\ pc = "idle"
    BY DEF Init, One
  <2>4. raced \in BOOLEAN
    BY <2>1
  <2>5. ~raced => Closure <= 1
    BY <2>2
  <2>6. requests + One(pc \in {"album", "error"}) + One(album # NoAlbum) <= Closure
    BY <2>2, <2>3
  <2>7. requests + One(pc = "error") + unheard + alerts + Count(events, "error") <= Closure
    BY <1>2, <2>2, <2>3
  <2>8. pc = "album" => result # NoAlbum
    BY <2>3
  <2>. QED  BY <2>2, <2>4, <2>5, <2>6, <2>7, <2>8 DEF CallsInv
<1>5. HeaderInv
  BY <1>2 DEF Init, HeaderInv
<1>. QED  BY <1>3, <1>4, <1>5

(* A call of the closure sends one request, whose completion leads to one      *)
(* outcome.                                                                    *)
LEMMA CallsStep == TypeOK /\ CallsInv /\ [Next]_vars => CallsInv'
<1>. SUFFICES ASSUME TypeOK, CallsInv, [Next]_vars PROVE CallsInv'
  OBVIOUS
<1>. USE Typed DEF CallsInv, One, Closure, model, network, tallies, gate, Enter
<1>1. CASE Request
  BY <1>1 DEF Request, view, Gate!Ask, Gate!mishaps
<1>2. CASE GenerateHeaderModel
  BY <1>2 DEF GenerateHeaderModel, view
<1>3. CASE BindLoading
  <2>1. UNCHANGED alerts /\ Count(events', "error") = Count(events, "error")
    BY <1>3, Emitted DEF BindLoading, Kinds
  <2>. QED  BY <1>3, <2>1 DEF BindLoading
<1>4. CASE BindError
  BY <1>4 DEF BindError, view
<1>5. CASE BindReload
  BY <1>5 DEF BindReload
<1>6. CASE RunEvent
  <2>1. Count(events, "error") = Count(events', "error") + One(Head(events) = "error")
    BY <1>6, Ran
  <2>2. Count(events', "error") \in Nat
    BY <1>6, Ran, Counted
  <2>3. alerts' = alerts \/ (alerts' = alerts + 1 /\ Head(events) = "error")
    <3>1. CASE Released
      BY <1>6, <3>1 DEF RunEvent, view
    <3>2. CASE ~Released
      BY <1>6, <3>2 DEF RunEvent, Apply
    <3>. QED  BY <3>1, <3>2
  <2>4. UNCHANGED <<requests, pc, result, album, unheard, calls, raced>>
    BY <1>6 DEF RunEvent
  <2>5. alerts' + Count(events', "error") <= alerts + Count(events, "error")
    <3>1. alerts \in Nat
      BY DEF TypeOK
    <3>. QED  BY ONLY <2>1, <2>2, <2>3, <3>1 DEF One
  <2>6. requests' + One(pc' = "error") + unheard' + alerts' + Count(events', "error") <= Closure'
    <3>1. /\ requests \in Nat /\ unheard \in Nat /\ alerts \in Nat /\ alerts' \in Nat
          /\ One(pc = "error") \in Nat /\ Closure \in Nat
      BY <2>3 DEF TypeOK, CallsInv, Closure, One
    <3>2. requests + One(pc = "error") + unheard + alerts + Count(events, "error") <= Closure
      BY DEF CallsInv
    <3>3. requests' + One(pc' = "error") + unheard' = requests + One(pc = "error") + unheard
      BY <2>4
    <3>4. Closure' = Closure
      BY <2>4 DEF Closure
    <3>5. Count(events, "error") \in Nat
      BY <2>1, <2>2 DEF One
    <3>6. requests + One(pc = "error") + unheard \in Nat
      BY ONLY <3>1
    <3>. QED  BY ONLY <2>2, <2>5, <3>1, <3>2, <3>3, <3>4, <3>5, <3>6
  <2>7. /\ calls' \in [{getArtistAlbum} -> 0..MaxCalls] /\ raced' \in BOOLEAN
        /\ ~raced' => Closure' <= 1
        /\ pc' = "album" => result' # NoAlbum
        /\ requests' + One(pc' \in {"album", "error"}) + One(album' # NoAlbum) <= Closure'
    BY <2>4 DEF CallsInv, Closure
  <2>. QED  BY <2>6, <2>7 DEF CallsInv
<1>7. CASE Layout
  BY <1>7 DEF Layout
<1>8. CASE Back
  BY <1>8 DEF Back, view
<1>9. CASE DequeueHeader
  <2>1. UNCHANGED alerts /\ Count(events', "error") = Count(events, "error")
    BY <1>9, Emitted DEF DequeueHeader, Kinds
  <2>. QED  BY <1>9, <2>1 DEF DequeueHeader
<1>10. ASSUME NEW i \in 0..MaxItems - 1, ShowCell(i) PROVE CallsInv'
  BY <1>10 DEF ShowCell, view
<1>11. ASSUME NEW i \in 0..MaxItems - 1, Select(i) PROVE CallsInv'
  <2>1. UNCHANGED alerts /\ Count(events', "error") = Count(events, "error")
    BY <1>11, Emitted DEF Select, Kinds, view
  <2>. QED  BY <1>11, <2>1 DEF Select
<1>12. CASE Reply
  <2>1. Count(events', "error") = Count(events, "error")
    <3>1. CASE Released
      BY <1>12, <3>1 DEF Reply
    <3>2. CASE ~Released
      BY <1>12, <3>2, Posted DEF Reply, Kinds
    <3>. QED  BY <3>1, <3>2
  <2>2. UNCHANGED <<album, alerts, unheard, calls, raced>> /\ pc = "idle" /\ requests' = requests - 1
    BY <1>12 DEF Reply, view
  <2>3. \/ pc' = "idle"
        \/ pc' = "error"
        \/ pc' = "album" /\ result' # NoAlbum
    BY <1>12 DEF Reply
  <2>4. /\ Closure \in Nat /\ One(album' # NoAlbum) = One(album # NoAlbum)
        /\ One(pc \in {"album", "error"}) = 0 /\ One(pc = "error") = 0
        /\ requests + One(album # NoAlbum) <= Closure /\ One(album # NoAlbum) \in Nat
        /\ requests + unheard + alerts + Count(events, "error") <= Closure
    BY <2>2
  <2>5. One(pc' \in {"album", "error"}) <= 1 /\ One(pc' = "error") <= 1
    OBVIOUS
  <2>6. pc' = "album" => result' # NoAlbum
    BY <2>3
  <2>7. UNCHANGED Closure /\ (~raced' => Closure' <= 1)
    BY <2>2
  <2>8. requests' + One(pc' \in {"album", "error"}) + One(album' # NoAlbum) <= Closure'
    BY <2>2, <2>4, <2>5, <2>7, SMTT(30)
  <2>9. requests' + One(pc' = "error") + unheard' + alerts' + Count(events', "error") <= Closure'
    BY <2>1, <2>2, <2>4, <2>5, <2>7, SMTT(30)
  <2>10. calls' \in [{getArtistAlbum} -> 0..MaxCalls] /\ raced' \in BOOLEAN
    BY <2>2
  <2>. QED  BY <2>6, <2>7, <2>8, <2>9, <2>10
<1>13. CASE EmitError
  <2>1. Count(events', "error") = Count(events, "error") + One(Reached("reload") /\ ~Released)
    BY <1>13, Posted DEF EmitError
  <2>. QED  BY <1>13, <2>1, SMTT(30) DEF EmitError, view
<1>14. CASE SetAlbum
  BY <1>14 DEF SetAlbum, view
<1>15. CASE AskReload
  <2>1. Count(events', "error") = Count(events, "error")
    <3>1. Count(events', "error") = Count(events, "error") + One("reload" = "error" /\ Reached("shown") /\ ~Released)
      BY <1>15, Posted DEF AskReload
    <3>. QED  BY <3>1
  <2>. QED  BY <1>15, <2>1 DEF AskReload, view
<1>16. CASE Called
  <2>1. calls' = [r \in {getArtistAlbum} |-> calls[r] + 1] /\ UNCHANGED raced
    BY <1>16 DEF Called, Gate!Call, Gate!Closures, Gate!mishaps
  <2>2. ~raced => Closure = 0
    BY <1>16 DEF Called, Gate!Call, Gate!Callable, Gate!Held
  <2>3. Closure \in 0..MaxCalls /\ Closure < MaxCalls /\ Closure' = Closure + 1
    BY <1>16, <2>1 DEF Called
  <2>4. calls' \in [{getArtistAlbum} -> 0..MaxCalls]
    BY <2>1, <2>3, BoundsAssumption
  <2>5. UNCHANGED <<pc, result, album, alerts, unheard, events>> /\ requests' = requests + 1
    BY <1>16 DEF Called, view
  <2>6. /\ One(pc' \in {"album", "error"}) = One(pc \in {"album", "error"})
        /\ One(pc' = "error") = One(pc = "error") /\ One(album' # NoAlbum) = One(album # NoAlbum)
        /\ Count(events', "error") = Count(events, "error")
        /\ One(pc \in {"album", "error"}) \in Nat /\ One(pc = "error") \in Nat
        /\ One(album # NoAlbum) \in Nat
    BY <2>5
  <2>7. ~raced' => Closure' <= 1
    BY <2>1, <2>2, <2>3
  <2>8. raced' \in BOOLEAN /\ (pc' = "album" => result' # NoAlbum)
    BY <2>1, <2>5
  <2>9. requests' + One(pc' \in {"album", "error"}) + One(album' # NoAlbum) <= Closure'
    BY <2>3, <2>5, <2>6, SMTT(30)
  <2>10. requests' + One(pc' = "error") + unheard' + alerts' + Count(events', "error") <= Closure'
    BY <2>3, <2>5, <2>6, SMTT(30)
  <2>. QED  BY <2>4, <2>7, <2>8, <2>9, <2>10
<1>17. ASSUME NEW S \in SUBSET {getArtistAlbum}, Mishap(S) PROVE CallsInv'
  <2>1. UNCHANGED <<pc, result, album, alerts, unheard, events, requests, calls>>
    BY <1>17 DEF Mishap, Gate!Lose, view
  <2>2. raced' \in BOOLEAN /\ (raced => raced')
    <3>1. (raced' = raced) \/ (raced' = TRUE)
      BY <1>17, Zenon DEF Mishap, Gate!Lose
    <3>. QED  BY <3>1, Zenon
  <2>. QED  BY <2>1, <2>2
<1>18. CASE UNCHANGED vars
  BY <1>18 DEF vars, view
<1>. QED
  BY <1>1, <1>2, <1>3, <1>4, <1>5, <1>6, <1>7, <1>8, <1>9, <1>10, <1>11,
     <1>12, <1>13, <1>14, <1>15, <1>16, <1>17, <1>18
  DEF Next, Load, User, Net, AtGate

(* A subscription fills its header at once, or when its event is run. *)
LEMMA HeaderStep == TypeOK /\ HeaderInv /\ [Next]_vars => HeaderInv'
<1>. SUFFICES ASSUME TypeOK, HeaderInv, [Next]_vars PROVE HeaderInv'
  OBVIOUS
<1>. USE Typed DEF HeaderInv, One, model, network, tallies, gate, Enter
<1>1. CASE Request
  BY <1>1 DEF Request, view
<1>2. CASE GenerateHeaderModel
  BY <1>2 DEF GenerateHeaderModel, view
<1>3. CASE BindLoading
  <2>1. UNCHANGED populated /\ Count(events', "header") = Count(events, "header")
    BY <1>3, Emitted DEF BindLoading, Kinds
  <2>. QED  BY <1>3, <2>1 DEF BindLoading
<1>4. CASE BindError
  BY <1>4 DEF BindError, view
<1>5. CASE BindReload
  BY <1>5 DEF BindReload, view
<1>6. CASE RunEvent
  <2>1. Count(events, "header") = Count(events', "header") + One(Head(events) = "header")
    BY <1>6, Ran
  <2>2. Count(events', "header") \in Nat
    BY <1>6, Ran, Counted
  <2>3. UNCHANGED <<phase, header, headers>>
    BY <1>6 DEF RunEvent
  <2>4. CASE Released
    <3>1. UNCHANGED populated /\ phase = "popped"
      BY <1>6, <2>4 DEF RunEvent, view, Released
    <3>. QED  BY <2>1, <2>2, <2>3, <3>1
  <2>5. CASE ~Released
    <3>1. populated' = IF Head(events) = "header" /\ header THEN populated + 1 ELSE populated
      BY <1>6, <2>5 DEF RunEvent, Apply
    <3>2. Head(events) = "header" => header
      BY <2>1, <2>2
    <3>. QED  BY <2>1, <2>2, <2>3, <3>1, <3>2, SMTT(30)
  <2>. QED  BY <2>4, <2>5
<1>7. CASE Layout
  BY <1>7 DEF Layout
<1>8. CASE Back
  BY <1>8 DEF Back, view, Shown
<1>9. CASE DequeueHeader
  <2>1. header /\ phase = "shown" /\ headers' = headers + 1 /\ UNCHANGED <<phase, header>>
    BY <1>9 DEF DequeueHeader, Shown
  <2>2. \/ Count(events', "header") = Count(events, "header") + 1 /\ UNCHANGED populated
        \/ Count(events', "header") = Count(events, "header") /\ populated' = populated + 1
    BY <1>9, <2>1, Emitted DEF DequeueHeader
  <2>. QED  BY <2>1, <2>2
<1>10. ASSUME NEW i \in 0..MaxItems - 1, ShowCell(i) PROVE HeaderInv'
  BY <1>10 DEF ShowCell, view
<1>11. ASSUME NEW i \in 0..MaxItems - 1, Select(i) PROVE HeaderInv'
  <2>1. UNCHANGED populated /\ Count(events', "header") = Count(events, "header")
    BY <1>11, Emitted DEF Select, Kinds, view
  <2>. QED  BY <1>11, <2>1 DEF Select
<1>12. CASE Reply
  <2>1. Count(events', "header") = Count(events, "header")
    <3>1. CASE Released
      BY <1>12, <3>1 DEF Reply
    <3>2. CASE ~Released
      BY <1>12, <3>2, Posted DEF Reply, Kinds
    <3>. QED  BY <3>1, <3>2
  <2>. QED  BY <1>12, <2>1 DEF Reply, view
<1>13. CASE EmitError
  <2>1. Count(events', "header") = Count(events, "header") + One("error" = "header" /\ Reached("reload") /\ ~Released)
    BY <1>13, Posted DEF EmitError
  <2>2. UNCHANGED <<phase, header, headers, populated>>
    BY <1>13 DEF EmitError, view
  <2>. QED  BY <2>1, <2>2
<1>14. CASE SetAlbum
  BY <1>14 DEF SetAlbum, view
<1>15. CASE AskReload
  <2>1. Count(events', "header") = Count(events, "header") + One("reload" = "header" /\ Reached("shown") /\ ~Released)
    BY <1>15, Posted DEF AskReload
  <2>2. UNCHANGED <<phase, header, headers, populated>>
    BY <1>15 DEF AskReload, view
  <2>. QED  BY <2>1, <2>2
<1>16. CASE Called
  BY <1>16 DEF Called, view
<1>17. ASSUME NEW S \in SUBSET {getArtistAlbum}, Mishap(S) PROVE HeaderInv'
  BY <1>17 DEF Mishap, view
<1>18. CASE UNCHANGED vars
  BY <1>18 DEF vars, view
<1>. QED
  BY <1>1, <1>2, <1>3, <1>4, <1>5, <1>6, <1>7, <1>8, <1>9, <1>10, <1>11,
     <1>12, <1>13, <1>14, <1>15, <1>16, <1>17, <1>18
  DEF Next, Load, User, Net, AtGate

(* The counts keep within the bounds. *)
LEMMA TypeStep ==
  TypeOK /\ CallsInv /\ HeaderInv /\ [Next]_vars => TypeOK' /\ CallsInv' /\ HeaderInv'
<1>. SUFFICES ASSUME TypeOK, CallsInv, HeaderInv, [Next]_vars, CallsInv', HeaderInv' PROVE TypeOK'
  BY CallsStep, HeaderStep
<1>. DEFINE Small ==
  /\ phase \in {"request", "header", "bind", "onError", "reload", "shown", "popped"}
  /\ isLoading \in BOOLEAN /\ header \in BOOLEAN /\ album \in Results /\ result \in Results
  /\ requests \in Nat /\ pc \in {"idle", "error", "album", "reload"}
  /\ events \in Seq(Kinds) /\ loader \in BOOLEAN /\ needsLayout \in BOOLEAN
  /\ rows \in Lists /\ headers \in 0..MaxHeaders /\ populated \in Nat
  /\ alerts \in Nat /\ unheard \in Nat /\ trapped \in BOOLEAN
<1>a. SUFFICES Small'
  <2>1. \E i \in DOMAIN Phases : phase' = Phases[i]
    <3>1. \A k \in 1..7 : k \in DOMAIN Phases
      BY DEF Phases
    <3>2. phase' \in {"request", "header", "bind", "onError", "reload", "shown", "popped"}
      OBVIOUS
    <3>. QED  BY <3>1, <3>2 DEF Phases
  <2>2. Count(events', "error") \in Nat /\ Count(events', "header") \in Nat
    BY Counted
  <2>3. populated' \in 0..MaxHeaders
    <3>1. populated' + Count(events', "header") <= headers'
      BY DEF HeaderInv
    <3>2. headers' \in 0..MaxHeaders /\ populated' \in Nat
      OBVIOUS
    <3>. QED  BY <2>2, <3>1, <3>2, BoundsAssumption
  <2>4. requests' \in 0..MaxCalls /\ alerts' \in 0..MaxCalls /\ unheard' \in 0..MaxCalls
    <3>1. Closure' \in 0..MaxCalls
      BY DEF CallsInv, Closure
    <3>2. /\ requests' \in Nat /\ alerts' \in Nat /\ unheard' \in Nat
          /\ One(pc' = "error") \in Nat
      BY DEF One
    <3>3. requests' + One(pc' = "error") + unheard' + alerts' + Count(events', "error") <= Closure'
      BY DEF CallsInv
    <3>4. requests' <= Closure' /\ alerts' <= Closure' /\ unheard' <= Closure'
      BY ONLY <2>2, <3>1, <3>2, <3>3, BoundsAssumption
    <3>. QED  BY ONLY <3>1, <3>2, <3>4, BoundsAssumption
  <2>. QED  BY <2>1, <2>2, <2>3, <2>4 DEF TypeOK
<1>b. rows \in Lists /\ headers \in 0..MaxHeaders /\ NumberOfItems \in Lists
  BY BoundsAssumption DEF TypeOK, NumberOfItems, Results, Lists
<1>. USE Typed, <1>b, BoundsAssumption
     DEF model, network, tallies, gate, Enter
<1>1. CASE Request
  BY <1>1 DEF Request, view, grid
<1>2. CASE GenerateHeaderModel
  BY <1>2 DEF GenerateHeaderModel, view, grid
<1>3. CASE BindLoading
  <2>1. PICK e \in {"start", "stop"} : Emit(e)
    BY <1>3 DEF BindLoading
  <2>2. /\ events' \in Seq(Kinds) /\ loader' \in BOOLEAN /\ needsLayout' \in BOOLEAN
        /\ UNCHANGED <<rows, alerts, populated>>
    BY <2>1, Emitted DEF Kinds
  <2>. QED  BY <1>3, <2>2 DEF BindLoading
<1>4. CASE BindError
  BY <1>4 DEF BindError, view, grid
<1>5. CASE BindReload
  BY <1>5 DEF BindReload, view
<1>6. CASE RunEvent
  <2>1. events' \in Seq(Kinds)
    BY <1>6, Ran
  <2>2. /\ UNCHANGED rows /\ loader' \in BOOLEAN /\ needsLayout' \in BOOLEAN
        /\ alerts' \in {alerts, alerts + 1} /\ populated' \in {populated, populated + 1}
    <3>1. CASE Released
      BY <1>6, <3>1 DEF RunEvent, view, grid
    <3>2. CASE ~Released
      BY <1>6, <3>2 DEF RunEvent, Apply
    <3>. QED  BY <3>1, <3>2
  <2>. QED  BY <1>6, <2>1, <2>2 DEF RunEvent
<1>7. CASE Layout
  BY <1>7 DEF Layout
<1>8. CASE Back
  BY <1>8 DEF Back, view, grid, Shown
<1>9. CASE DequeueHeader
  <2>1. /\ events' \in Seq(Kinds) /\ loader' \in BOOLEAN /\ needsLayout' \in BOOLEAN
        /\ UNCHANGED <<rows, alerts>> /\ populated' \in {populated, populated + 1}
    BY <1>9, Emitted DEF DequeueHeader, Kinds
  <2>. QED  BY <1>9, <2>1 DEF DequeueHeader
<1>10. ASSUME NEW i \in 0..MaxItems - 1, ShowCell(i) PROVE Small'
  BY <1>10 DEF ShowCell, view, grid
<1>11. ASSUME NEW i \in 0..MaxItems - 1, Select(i) PROVE Small'
  <2>1. /\ events' \in Seq(Kinds) /\ loader' \in BOOLEAN /\ needsLayout' \in BOOLEAN
        /\ UNCHANGED <<rows, alerts, populated>>
    BY <1>11, Emitted DEF Select, Kinds, view, grid
  <2>. QED  BY <1>11, <2>1 DEF Select
<1>12. CASE Reply
  <2>1. events' \in Seq(Kinds)
    <3>1. CASE Released
      BY <1>12, <3>1 DEF Reply
    <3>2. CASE ~Released
      BY <1>12, <3>2, Posted DEF Reply, Kinds
    <3>. QED  BY <3>1, <3>2
  <2>2. /\ isLoading' \in BOOLEAN /\ pc' \in {"idle", "error", "album", "reload"}
        /\ result' \in Results
    <3>1. CASE Released
      BY <1>12, <3>1 DEF Reply
    <3>2. CASE ~Released
      BY <1>12, <3>2 DEF Reply
    <3>. QED  BY <3>1, <3>2
  <2>3. /\ requests' \in Nat
        /\ UNCHANGED <<phase, header, album, loader, needsLayout, rows, populated, alerts,
                       headers, unheard, trapped>>
    BY <1>12 DEF Reply, view, grid
  <2>. QED  BY <2>1, <2>2, <2>3
<1>13. CASE EmitError
  <2>1. events' \in Seq(Kinds)
    BY <1>13, Posted DEF EmitError
  <2>. QED  BY <1>13, <2>1 DEF EmitError, view, grid
<1>14. CASE SetAlbum
  BY <1>14 DEF SetAlbum, view, grid
<1>15. CASE AskReload
  <2>1. events' \in Seq(Kinds)
    BY <1>15, Posted DEF AskReload
  <2>. QED  BY <1>15, <2>1 DEF AskReload, view, grid
<1>16. CASE Called
  BY <1>16 DEF Called, view, grid
<1>17. ASSUME NEW S \in SUBSET {getArtistAlbum}, Mishap(S) PROVE Small'
  BY <1>17 DEF Mishap, view, grid
<1>18. CASE UNCHANGED vars
  BY <1>18 DEF vars, view, grid
<1>. QED
  BY <1>1, <1>2, <1>3, <1>4, <1>5, <1>6, <1>7, <1>8, <1>9, <1>10, <1>11,
     <1>12, <1>13, <1>14, <1>15, <1>16, <1>17, <1>18
  DEF Next, Load, User, Net, AtGate

(* The list is replaced only by a second call of the closure. *)
LEMMA RowsStep == TypeOK /\ CallsInv /\ RowsBacked /\ [Next]_vars => RowsBacked'
<1>. SUFFICES ASSUME TypeOK, CallsInv, RowsBacked, [Next]_vars PROVE RowsBacked'
  OBVIOUS
<1>0. raced \in BOOLEAN
  BY DEF CallsInv
<1>. USE Typed, <1>0 DEF RowsBacked, NumberOfItems, model, network, tallies, gate, Enter
<1>1. CASE Request
  BY <1>1 DEF Request, view, grid, Gate!Ask, Gate!mishaps
<1>2. CASE GenerateHeaderModel
  BY <1>2 DEF GenerateHeaderModel, view, grid
<1>3. CASE BindLoading
  <2>1. UNCHANGED rows
    BY <1>3, Emitted DEF BindLoading, Kinds
  <2>. QED  BY <1>3, <2>1 DEF BindLoading
<1>4. CASE BindError
  BY <1>4 DEF BindError, view, grid
<1>5. CASE BindReload
  BY <1>5 DEF BindReload, view, grid
<1>6. CASE RunEvent
  <2>1. UNCHANGED rows
    BY <1>6 DEF RunEvent, Apply, view, grid
  <2>. QED  BY <1>6, <2>1 DEF RunEvent
<1>7. CASE Layout
  BY <1>7 DEF Layout
<1>8. CASE Back
  BY <1>8 DEF Back, view, grid, Shown
<1>9. CASE DequeueHeader
  <2>1. UNCHANGED rows
    BY <1>9, Emitted DEF DequeueHeader, Kinds
  <2>. QED  BY <1>9, <2>1 DEF DequeueHeader
<1>10. ASSUME NEW i \in 0..MaxItems - 1, ShowCell(i) PROVE RowsBacked'
  BY <1>10 DEF ShowCell, view, grid
<1>11. ASSUME NEW i \in 0..MaxItems - 1, Select(i) PROVE RowsBacked'
  <2>1. UNCHANGED rows
    BY <1>11, Emitted DEF Select, Kinds, view, grid
  <2>. QED  BY <1>11, <2>1 DEF Select
<1>12. CASE Reply
  BY <1>12 DEF Reply, view, grid
<1>13. CASE EmitError
  BY <1>13 DEF EmitError, view, grid
<1>14. CASE SetAlbum
  <2>1. UNCHANGED <<rows, raced, trapped>> /\ album' = result /\ pc = "album"
    BY <1>14 DEF SetAlbum, view, grid
  <2>2. ~raced => album = NoAlbum
    <3>1. SUFFICES ASSUME ~raced, album # NoAlbum PROVE FALSE
      OBVIOUS
    <3>2. One(pc \in {"album", "error"}) = 1 /\ One(album # NoAlbum) = 1
      BY <2>1, <3>1 DEF One
    <3>3. Closure \in Nat /\ Closure <= 1 /\ requests + 1 + 1 <= Closure
      BY <3>1, <3>2 DEF CallsInv, Closure
    <3>. QED  BY <3>3
  <2>3. result \in Nat /\ result # NoAlbum
    BY <2>1 DEF CallsInv
  <2>. QED  BY <2>1, <2>2, <2>3
<1>15. CASE AskReload
  BY <1>15 DEF AskReload, view, grid
<1>16. CASE Called
  BY <1>16 DEF Called, view, grid, Gate!Call, Gate!mishaps
<1>17. ASSUME NEW S \in SUBSET {getArtistAlbum}, Mishap(S) PROVE RowsBacked'
  <2>1. (raced' = raced) \/ (raced' = TRUE)
    BY <1>17, Zenon DEF Mishap, Gate!Lose
  <2>2. UNCHANGED <<rows, trapped, album>>
    BY <1>17 DEF Mishap, view, grid
  <2>3. CASE raced' = raced
    BY <2>2, <2>3
  <2>4. CASE raced' = TRUE
    BY <2>4
  <2>. QED  BY <2>1, <2>3, <2>4
<1>18. CASE UNCHANGED vars
  BY <1>18 DEF vars, view, grid
<1>. QED
  BY <1>1, <1>2, <1>3, <1>4, <1>5, <1>6, <1>7, <1>8, <1>9, <1>10, <1>11,
     <1>12, <1>13, <1>14, <1>15, <1>16, <1>17, <1>18
  DEF Next, Load, User, Net, AtGate

(* The albums are written before the reload is posted, and a reload that comes *)
(* too early for the screen is made up for by its first layout.                *)
LEMMA ReloadStep == TypeOK /\ ReloadInv /\ [Next]_vars => ReloadInv'
<1>. SUFFICES ASSUME TypeOK, ReloadInv, [Next]_vars PROVE ReloadInv'
  OBVIOUS
<1>. USE Typed DEF ReloadInv, NumberOfItems, model, network, tallies, gate, Enter
<1>1. CASE Request
  BY <1>1 DEF Request, view, grid, Queued
<1>2. CASE GenerateHeaderModel
  BY <1>2 DEF GenerateHeaderModel, view, grid, Queued
<1>3. CASE BindLoading
  BY <1>3 DEF BindLoading
<1>4. CASE BindError
  BY <1>4 DEF BindError, view, grid, Queued
<1>5. CASE BindReload
  BY <1>5 DEF BindReload, view, grid, Queued
<1>6. CASE RunEvent
  <2>1. Queued("reload") => Head(events) = "reload" \/ Queued("reload")'
    BY <1>6, Ran
  <2>2. phase = "shown" => ~Released
    BY DEF Released
  <2>3. ~Released => UNCHANGED rows /\ needsLayout' = (needsLayout \/ Head(events) = "reload")
    BY <1>6 DEF RunEvent, Apply
  <2>4. UNCHANGED <<phase, album, pc>>
    BY <1>6 DEF RunEvent
  <2>. QED  BY <2>1, <2>2, <2>3, <2>4
<1>7. CASE Layout
  BY <1>7 DEF Layout, Queued
<1>8. CASE Back
  BY <1>8 DEF Back, view, grid, Shown, Queued
<1>9. CASE DequeueHeader
  <2>1. UNCHANGED <<rows, needsLayout>> /\ (Queued("reload") => Queued("reload")')
    BY <1>9, Emitted DEF DequeueHeader, Kinds
  <2>. QED  BY <1>9, <2>1 DEF DequeueHeader
<1>10. ASSUME NEW i \in 0..MaxItems - 1, ShowCell(i) PROVE ReloadInv'
  BY <1>10 DEF ShowCell, view, grid, Queued
<1>11. ASSUME NEW i \in 0..MaxItems - 1, Select(i) PROVE ReloadInv'
  <2>1. UNCHANGED <<rows, needsLayout>> /\ (Queued("reload") => Queued("reload")')
    BY <1>11, Emitted DEF Select, Kinds, view, grid, Queued
  <2>. QED  BY <1>11, <2>1 DEF Select
<1>12. CASE Reply
  <2>1. /\ events' \in Seq(Kinds)
        /\ \A k \in Kinds : Queued(k) => Queued(k)'
    <3>1. CASE Released
      BY <1>12, <3>1 DEF Reply, Queued
    <3>2. CASE ~Released
      BY <1>12, <3>2, Posted DEF Reply, Kinds
    <3>. QED  BY <3>1, <3>2
  <2>2. UNCHANGED <<phase, album, rows, needsLayout>> /\ pc = "idle"
    BY <1>12 DEF Reply, view, grid
  <2>. QED  BY <2>1, <2>2
<1>13. CASE EmitError
  <2>1. Queued("reload") => Queued("reload")'
    BY <1>13, Posted DEF EmitError
  <2>. QED  BY <1>13, <2>1 DEF EmitError, view, grid
<1>14. CASE SetAlbum
  BY <1>14 DEF SetAlbum, view, grid, Queued
<1>15. CASE AskReload
  <2>1. phase = "shown" => Reached("shown") /\ ~Released
    BY ReachedPhases DEF Released
  <2>2. phase = "shown" => Queued("reload")'
    BY <1>15, <2>1, Posted DEF AskReload
  <2>. QED  BY <1>15, <2>2 DEF AskReload
<1>16. CASE Called
  BY <1>16 DEF Called, view, grid, Queued
<1>17. ASSUME NEW S \in SUBSET {getArtistAlbum}, Mishap(S) PROVE ReloadInv'
  BY <1>17 DEF Mishap, view, grid, Queued
<1>18. CASE UNCHANGED vars
  BY <1>18 DEF vars, view, grid, Queued
<1>. QED
  BY <1>1, <1>2, <1>3, <1>4, <1>5, <1>6, <1>7, <1>8, <1>9, <1>10, <1>11,
     <1>12, <1>13, <1>14, <1>15, <1>16, <1>17, <1>18
  DEF Next, Load, User, Net, AtGate

(* Binding says what the view model said last, and so does a reply that comes  *)
(* after it.                                                                   *)
LEMMA LoaderStep == TypeOK /\ LoaderInv /\ [Next]_vars => LoaderInv'
<1>. SUFFICES ASSUME TypeOK, LoaderInv, [Next]_vars PROVE LoaderInv'
  OBVIOUS
<1>0. UNCHANGED <<events, loader, isLoading>> /\ LastWord => LastWord'
  BY DEF LastWord
<1>. USE Typed, <1>0 DEF LoaderInv, model, network, tallies, gate, Enter
<1>1. CASE Request
  BY <1>1 DEF Request, view, grid
<1>2. CASE GenerateHeaderModel
  BY <1>2 DEF GenerateHeaderModel, view, grid
<1>3. CASE BindLoading
  <2>1. LastWord'
    BY <1>3, Emitted DEF BindLoading, Kinds
  <2>. QED  BY <2>1
<1>4. CASE BindError
  BY <1>4 DEF BindError, view, grid
<1>5. CASE BindReload
  BY <1>5 DEF BindReload, view, grid
<1>6. CASE RunEvent
  <2>1. phase # "popped" => ~Released
    BY DEF Released
  <2>2. ~Released /\ LastWord => LastWord'
    BY <1>6, Ran
  <2>3. UNCHANGED phase
    BY <1>6 DEF RunEvent
  <2>. QED  BY <2>1, <2>2, <2>3
<1>7. CASE Layout
  BY <1>7 DEF Layout
<1>8. CASE Back
  BY <1>8 DEF Back, view, grid, Shown
<1>9. CASE DequeueHeader
  <2>1. LastWord => LastWord'
    BY <1>9, Emitted DEF DequeueHeader, Kinds
  <2>. QED  BY <1>9, <2>1 DEF DequeueHeader
<1>10. ASSUME NEW i \in 0..MaxItems - 1, ShowCell(i) PROVE LoaderInv'
  BY <1>10 DEF ShowCell, view, grid
<1>11. ASSUME NEW i \in 0..MaxItems - 1, Select(i) PROVE LoaderInv'
  <2>1. LastWord => LastWord'
    BY <1>11, Emitted DEF Select, Kinds, view, grid
  <2>. QED  BY <1>11, <2>1 DEF Select
<1>12. CASE Reply
  <2>1. phase \in {"onError", "reload", "shown"} => Reached("onError") /\ ~Released
    BY ReachedPhases DEF Released
  <2>2. ~Released => isLoading' = FALSE /\ Post("stop", "onError")
    BY <1>12 DEF Reply
  <2>3. phase \in {"onError", "reload", "shown"} => LastWord'
    BY <2>1, <2>2, Posted DEF Kinds
  <2>4. UNCHANGED phase
    BY <1>12 DEF Reply
  <2>. QED  BY <2>3, <2>4
<1>13. CASE EmitError
  <2>1. UNCHANGED <<phase, loader, isLoading>>
    BY <1>13 DEF EmitError, view
  <2>2. LastWord => LastWord'
    BY <1>13, <2>1, Posted DEF EmitError
  <2>. QED  BY <2>1, <2>2
<1>14. CASE SetAlbum
  BY <1>14 DEF SetAlbum, view, grid
<1>15. CASE AskReload
  <2>1. UNCHANGED <<phase, loader, isLoading>>
    BY <1>15 DEF AskReload, view
  <2>2. LastWord => LastWord'
    BY <1>15, <2>1, Posted DEF AskReload
  <2>. QED  BY <2>1, <2>2
<1>16. CASE Called
  BY <1>16 DEF Called, view, grid
<1>17. ASSUME NEW S \in SUBSET {getArtistAlbum}, Mishap(S) PROVE LoaderInv'
  BY <1>17 DEF Mishap, view, grid
<1>18. CASE UNCHANGED vars
  BY <1>18 DEF vars, view, grid
<1>. QED
  BY <1>1, <1>2, <1>3, <1>4, <1>5, <1>6, <1>7, <1>8, <1>9, <1>10, <1>11,
     <1>12, <1>13, <1>14, <1>15, <1>16, <1>17, <1>18
  DEF Next, Load, User, Net, AtGate

(* A reply without albums is told, or counted as unheard. *)
LEMMA TellStep == TypeOK /\ CallsInv /\ TellInv /\ [Next]_vars => TellInv'
<1>. SUFFICES ASSUME TypeOK, CallsInv, TellInv, [Next]_vars PROVE TellInv'
  OBVIOUS
<1>. USE Typed DEF TellInv, model, network, tallies, gate, Enter
<1>1. CASE Request
  BY <1>1 DEF Request, view, grid, Queued
<1>2. CASE GenerateHeaderModel
  BY <1>2 DEF GenerateHeaderModel, view, grid, Queued
<1>3. CASE BindLoading
  <2>1. UNCHANGED alerts /\ (Queued("error") => Queued("error")')
    BY <1>3, Emitted DEF BindLoading, Kinds
  <2>. QED  BY <1>3, <2>1 DEF BindLoading
<1>4. CASE BindError
  BY <1>4 DEF BindError, view, grid, Queued
<1>5. CASE BindReload
  BY <1>5 DEF BindReload, view, grid, Queued
<1>6. CASE RunEvent
  <2>1. Queued("error") => Head(events) = "error" \/ Queued("error")'
    BY <1>6, Ran
  <2>2. phase # "popped" => ~Released
    BY DEF Released
  <2>3. ~Released => alerts' = IF Head(events) = "error" THEN alerts + 1 ELSE alerts
    BY <1>6 DEF RunEvent, Apply
  <2>4. UNCHANGED <<phase, album, pc, isLoading, unheard>>
    BY <1>6 DEF RunEvent
  <2>. QED  BY <2>1, <2>2, <2>3, <2>4
<1>7. CASE Layout
  BY <1>7 DEF Layout, Queued
<1>8. CASE Back
  BY <1>8 DEF Back, view, grid, Shown, Queued
<1>9. CASE DequeueHeader
  <2>1. UNCHANGED alerts /\ (Queued("error") => Queued("error")')
    BY <1>9, Emitted DEF DequeueHeader, Kinds
  <2>. QED  BY <1>9, <2>1 DEF DequeueHeader
<1>10. ASSUME NEW i \in 0..MaxItems - 1, ShowCell(i) PROVE TellInv'
  BY <1>10 DEF ShowCell, view, grid, Queued
<1>11. ASSUME NEW i \in 0..MaxItems - 1, Select(i) PROVE TellInv'
  <2>1. UNCHANGED alerts /\ (Queued("error") => Queued("error")')
    BY <1>11, Emitted DEF Select, Kinds, view, grid, Queued
  <2>. QED  BY <1>11, <2>1 DEF Select
<1>12. CASE Reply
  <2>1. phase # "popped" => ~Released
    BY DEF Released
  <2>2. ~Released => pc' \in {"error", "album"}
    BY <1>12 DEF Reply
  <2>3. UNCHANGED phase
    BY <1>12 DEF Reply
  <2>. QED  BY <2>1, <2>2, <2>3
<1>13. CASE EmitError
  <2>1. CASE Reached("reload") /\ ~Released
    <3>1. Queued("error")'
      BY <1>13, <2>1, Posted DEF EmitError
    <3>. QED  BY <3>1
  <2>2. CASE ~(Reached("reload") /\ ~Released)
    <3>1. unheard' = unheard + 1
      BY <1>13, <2>2 DEF EmitError
    <3>. QED  BY <3>1
  <2>. QED  BY <2>1, <2>2
<1>14. CASE SetAlbum
  <2>1. album' = result /\ result # NoAlbum
    BY <1>14 DEF SetAlbum, CallsInv
  <2>. QED  BY <2>1
<1>15. CASE AskReload
  <2>1. Queued("error") => Queued("error")'
    BY <1>15, Posted DEF AskReload
  <2>. QED  BY <1>15, <2>1 DEF AskReload, view
<1>16. CASE Called
  BY <1>16 DEF Called, view, grid, Queued
<1>17. ASSUME NEW S \in SUBSET {getArtistAlbum}, Mishap(S) PROVE TellInv'
  BY <1>17 DEF Mishap, view, grid, Queued
<1>18. CASE UNCHANGED vars
  BY <1>18 DEF vars, view, grid, Queued
<1>. QED
  BY <1>1, <1>2, <1>3, <1>4, <1>5, <1>6, <1>7, <1>8, <1>9, <1>10, <1>11,
     <1>12, <1>13, <1>14, <1>15, <1>16, <1>17, <1>18
  DEF Next, Load, User, Net, AtGate

(* A reply ends the loading it takes a request from, and a mishap that costs   *)
(* the closure disturbs the session.                                           *)
LEMMA AnswerStep == TypeOK /\ CallsInv /\ AnswerInv /\ [Next]_vars => AnswerInv'
<1>. SUFFICES ASSUME TypeOK, CallsInv, AnswerInv, [Next]_vars PROVE AnswerInv'
  OBVIOUS
<1>0. getArtistAlbum \in DOMAIN calls /\ calls[getArtistAlbum] \in Nat
  BY DEF CallsInv
<1>. USE Typed, <1>0 DEF AnswerInv, Closure, model, network, tallies, gate, Enter
<1>1. CASE Request
  BY <1>1 DEF Request, Gate!Ask, Gate!mishaps
<1>2. CASE GenerateHeaderModel
  BY <1>2 DEF GenerateHeaderModel
<1>3. CASE BindLoading
  BY <1>3 DEF BindLoading
<1>4. CASE BindError
  BY <1>4 DEF BindError
<1>5. CASE BindReload
  BY <1>5 DEF BindReload
<1>6. CASE RunEvent
  BY <1>6 DEF RunEvent
<1>7. CASE Layout
  BY <1>7 DEF Layout
<1>8. CASE Back
  BY <1>8 DEF Back, Shown
<1>9. CASE DequeueHeader
  BY <1>9 DEF DequeueHeader
<1>10. ASSUME NEW i \in 0..MaxItems - 1, ShowCell(i) PROVE AnswerInv'
  BY <1>10 DEF ShowCell
<1>11. ASSUME NEW i \in 0..MaxItems - 1, Select(i) PROVE AnswerInv'
  BY <1>11 DEF Select
<1>12. CASE Reply
  <2>1. phase # "popped" => isLoading' = FALSE
    BY <1>12 DEF Reply, Released
  <2>2. UNCHANGED <<phase, gate>>
    BY <1>12 DEF Reply
  <2>. QED  BY <2>1, <2>2
<1>13. CASE EmitError
  BY <1>13 DEF EmitError
<1>14. CASE SetAlbum
  BY <1>14 DEF SetAlbum
<1>15. CASE AskReload
  BY <1>15 DEF AskReload
<1>16. CASE Called
  <2>1. Closure' = Closure + 1
    BY <1>16 DEF Called, Gate!Call, Gate!Closures
  <2>2. UNCHANGED <<phase, isLoading, asked, lost, disturbed>> /\ requests' = requests + 1
    BY <1>16 DEF Called, Gate!Call, Gate!mishaps
  <2>. QED  BY <2>1, <2>2
<1>17. ASSUME NEW S \in SUBSET {getArtistAlbum}, Mishap(S) PROVE AnswerInv'
  <2>1. UNCHANGED <<phase, isLoading, requests, asked, calls>> /\ lost' = lost \cup S
    BY <1>17 DEF Mishap, Gate!Lose
  <2>2. ~disturbed' => ~disturbed /\ S \cap {getArtistAlbum} = {}
    BY <1>17, Zenon DEF Mishap, Gate!Lose
  <2>. QED  BY <2>1, <2>2
<1>18. CASE UNCHANGED vars
  BY <1>18 DEF vars
<1>. QED
  BY <1>1, <1>2, <1>3, <1>4, <1>5, <1>6, <1>7, <1>8, <1>9, <1>10, <1>11,
     <1>12, <1>13, <1>14, <1>15, <1>16, <1>17, <1>18
  DEF Next, Load, User, Net, AtGate

----------------------------------------------------------------------------
(* A screen that is being made is in order. *)
LEMMA OtherInit == Init => RowsBacked /\ ReloadInv /\ LoaderInv /\ TellInv /\ AnswerInv
<1>. QED
  BY BoundsAssumption
  DEF Init, RowsBacked, NumberOfItems, ReloadInv, LoaderInv, TellInv,
      AnswerInv, Closure, Gate!Init, Gate!Closures

(* The screen stays typed: its tallies keep within the calls of its closure. *)
THEOREM TypeCorrect == Spec => []TypeOK
<1>. QED  BY TypeInit, TypeStep, PTL DEF Spec

(* The grid of a screen nothing is left to do for shows the albums. *)
THEOREM SettlesOnAlbum == Spec => []SettledShowsAlbum
<1>1. TypeOK /\ ReloadInv => SettledShowsAlbum
  BY DEF ReloadInv, SettledShowsAlbum, Settled, Shown, Queued
<1>. QED  BY TypeInit, TypeStep, OtherInit, ReloadStep, <1>1, PTL DEF Spec

(* `album!` finds the row it is asked for, unless the gate was raced. *)
THEOREM RowsAreBacked == Spec => []RowsBacked
<1>. QED  BY TypeInit, TypeStep, OtherInit, RowsStep, PTL DEF Spec

(* Each subscription fills its header exactly once. *)
THEOREM HeadersFilledOnce == Spec => []HeaderFilledOnce
<1>1. HeaderInv => HeaderFilledOnce
  BY DEF HeaderInv, HeaderFilledOnce, Shown, Count
<1>. QED  BY TypeInit, TypeStep, <1>1, PTL DEF Spec

(* The spinner of a settled screen says what the view model says. *)
THEOREM SpinnerFollows == Spec => []LoaderFollows
<1>1. TypeOK /\ LoaderInv => LoaderFollows
  BY DEF LoaderInv, LastWord, LoaderFollows, Settled, Shown
<1>. QED  BY TypeInit, TypeStep, OtherInit, LoaderStep, <1>1, PTL DEF Spec

(* A failure is told, unless it came before anybody listened. *)
THEOREM FailuresTold == Spec => []FailureTold
<1>1. TypeOK /\ TellInv => FailureTold
  BY DEF TellInv, FailureTold, Settled, Shown, Queued
<1>. QED  BY TypeInit, TypeStep, OtherInit, TellStep, <1>1, PTL DEF Spec

(* What SpinnerStops waits for, short of fairness: a screen that is still       *)
(* loading, or looks as if it were, has its answer to come from the gate or the *)
(* endpoint, unless a mishap at the gate cost it (getArtistAlbum has no other   *)
(* way to stop its spinner).                                                    *)
THEOREM LoadingIsAnswered == Spec => []AnswerComing
<1>1. TypeOK /\ CallsInv /\ LoaderInv /\ AnswerInv => AnswerComing
  <2>. SUFFICES ASSUME TypeOK, CallsInv, LoaderInv, AnswerInv,
                       (isLoading /\ phase # "popped") \/ (Settled /\ loader),
                       phase # "request", ~disturbed, getArtistAlbum \notin Gate!Held
                PROVE  requests > 0
    BY DEF AnswerComing
  <2>1. Settled => loader = isLoading
    BY Typed DEF LoaderInv, LastWord, Settled, Shown
  <2>2. isLoading /\ phase # "popped"
    BY <2>1 DEF Settled, Shown
  <2>3. Closure \in Nat /\ Closure # 0
    BY DEF AnswerInv, Gate!Held, CallsInv, Closure
  <2>. QED  BY <2>2, <2>3 DEF AnswerInv
<1>. QED  BY TypeInit, TypeStep, OtherInit, LoaderStep, AnswerStep, <1>1, PTL DEF Spec
================================================================================
