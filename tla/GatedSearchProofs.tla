--------------------------- MODULE GatedSearchProofs ---------------------------
(* The search behind the gate is a search: every behaviour of GatedSearch is    *)
(* one of SearchViewModel, with the queries at the gate and at the endpoint in  *)
(* flight, and those lost at the gate or never sent dropped.                    *)
EXTENDS GatedSearch, TLAPS

(* Every query has its number: the text the debounce holds has an edit to its   *)
(* name, so the numbers stay within the closures the gate knows.                *)
Numbered ==
  /\ pending \in Texts \cup {NoText} /\ queries \in Seq(Texts)
  /\ typed \in 0..MaxTyped
  /\ Len(queries) <= typed /\ (pending # NoText => Len(queries) < typed)

(* No race, and no query both at the gate and at the endpoint: without it a     *)
(* reply would not take its query out of flight.                                *)
Apart ==
  /\ raced = FALSE
  /\ asked \subseteq 1..MaxTyped /\ requests \subseteq asked
  /\ requests \cap Gate!Held = {}

IInv == Numbered /\ Apart

(* An empty gate, an idle endpoint and no query yet.                            *)
LEMMA AtStart == Init => IInv
  BY TextsAssumption, BoundsAssumption
     DEF Init, IInv, Numbered, Apart, Search!Init, Gate!Init, Gate!Held

--------------------------------------------------------------------------------
(* What the gate calls was held by it: it leaves the gate for the endpoint, or  *)
(* makes no URL.                                                                *)
LEMMA CallDrops ==
  ASSUME Apart, NEW S, Called(S)
  PROVE  /\ requests' \cap Gate!Held' = {} /\ requests' \subseteq asked
         /\ Search!Drop({q \in S : queries[q] \in Unsendable})
<1> DEFINE T == {q \in S : queries[q] \in Unsendable}
<1>1. S \subseteq Gate!Held
  BY DEF Apart, Called, Gate!Call, Gate!Callable
<1>2. S \subseteq 1..MaxTyped /\ S \cap requests = {}
  BY <1>1 DEF Apart, Gate!Held
<1>3. \A r \in asked : calls'[r] = IF r \in S THEN calls[r] + 1 ELSE calls[r]
  BY DEF Apart, Called, Gate!Call, Gate!Closures
<1>4. \A r \in S : calls'[r] = 1
  BY <1>1, <1>3 DEF Gate!Held
<1>5. Gate!Held' = Gate!Held \ S
  BY <1>1, <1>3, <1>4 DEF Called, Gate!Call, Gate!Held, Gate!mishaps
<1>6. requests' = requests \cup (S \ T) /\ unsent' = unsent \cup T
  BY DEF Called
<1>7. requests' \cup Gate!Held' = (requests \cup Gate!Held) \ T
  BY <1>1, <1>2, <1>5, <1>6 DEF Apart
<1>8. unsent' \cup lost' = (unsent \cup lost) \cup T
  BY <1>6 DEF Called, Gate!Call
<1>9. requests' \cap Gate!Held' = {} /\ requests' \subseteq asked
  BY <1>1, <1>5, <1>6 DEF Apart, Gate!Held
<1>10. Search!Drop(T)
  BY <1>1, <1>7, <1>8
     DEF Called, search, Search!Drop, Search!user, Search!results, Search!screen
<1> QED
  BY <1>9, <1>10

(* What the gate gives up is dropped by the search.                             *)
LEMMA LossDrops ==
  ASSUME Apart, NEW S, Mishap(S)
  PROVE  Search!Drop(S) /\ Apart'
<1>1. S \subseteq Gate!Held /\ Gate!Held' = Gate!Held \ S /\ lost' = lost \cup S
  BY DEF Mishap, Gate!Lose, Gate!Held
<1>2. requests' \cup Gate!Held' = (requests \cup Gate!Held) \ S
  BY <1>1 DEF Apart, Mishap, endpoint
<1>3. unsent' \cup lost' = (unsent \cup lost) \cup S
  BY <1>1 DEF Mishap, endpoint
<1>4. Search!Drop(S)
  BY <1>1, <1>2, <1>3
     DEF Mishap, search, Search!Drop, Search!user, Search!results, Search!screen
<1>5. Apart'
  BY <1>1 DEF Apart, Mishap, Gate!Lose, endpoint
<1> QED
  BY <1>4, <1>5

(* A new query is new to the gate, and within the numbers it knows.             *)
LEMMA QueryStep == ASSUME IInv, Query PROVE IInv'
<1>1. Numbered' /\ Len(queries) + 1 \in 1..MaxTyped
  BY TextsAssumption, BoundsAssumption
     DEF IInv, Numbered, Query, Search!FireDebounce, Search!Alive
<1>2. asked' = asked \cup {Len(queries) + 1} /\ Len(queries) + 1 \notin asked
  BY DEF Query, Gate!Ask
<1>3. Gate!Held' \subseteq Gate!Held \cup {Len(queries) + 1}
  BY <1>2 DEF Query, Gate!Ask, Gate!Held
<1>4. Apart'
  BY <1>1, <1>2, <1>3 DEF IInv, Apart, Query, Gate!Ask, Gate!mishaps, endpoint
<1> QED
  BY <1>1, <1>4 DEF IInv

(* Steps of the search alone.                                                   *)
LEMMA AsideStep ==
  ASSUME IInv, UNCHANGED gate, UNCHANGED unsent, requests' \subseteq requests,
         UNCHANGED queries, Numbered'
  PROVE  IInv'
<1>1. Gate!Held' = Gate!Held
  BY DEF gate, Gate!Held
<1> QED
  BY <1>1 DEF IInv, Apart, gate

(* Only an edit and the debounce's timer change what Numbered speaks of.        *)
LEMMA SearchStep ==
  ASSUME IInv,
         \/ Search!User \/ Search!RunEvent \/ Search!Layout \/ Search!Net
         \/ \E q \in DOMAIN queries : Search!Reply(q)
         \/ UNCHANGED search
  PROVE  UNCHANGED queries /\ Numbered'
<1>1. CASE \E text \in Texts : Search!Type(text)
  BY <1>1, TextsAssumption, BoundsAssumption
     DEF IInv, Numbered, Search!Type, Search!network
<1>2. CASE \E i \in 0..MaxItems - 1 : Search!ShowCell(i) \/ Search!Tap(i)
  BY <1>2 DEF IInv, Numbered, Search!ShowCell, Search!Tap, Search!network, Search!user
<1>3. CASE Search!RunEvent \/ Search!Layout
  BY <1>3 DEF IInv, Numbered, Search!RunEvent, Search!Layout, Search!network, Search!user
<1>4. CASE Search!Net
  BY <1>4 DEF IInv, Numbered, Search!Net, Search!SetArtist, Search!SetArray, Search!AskReload,
              Search!network, Search!user
<1>5. CASE \E q \in DOMAIN queries : Search!Reply(q)
  BY <1>5 DEF IInv, Numbered, Search!Reply, Search!ReplyFailed, Search!ReplyDecoded, Search!user
<1>6. CASE UNCHANGED search
  BY <1>6 DEF IInv, Numbered, search
<1> QED
  BY <1>1, <1>2, <1>3, <1>4, <1>5, <1>6 DEF Search!User

--------------------------------------------------------------------------------
(* The invariant is kept, and each step is a step of the search or of no one.   *)
LEMMA Step == ASSUME IInv, [Next]_vars PROVE IInv' /\ [Search!Next]_(Search!vars)
<1>1. CASE Query
  BY <1>1, QueryStep DEF Query, Search!Next, Search!Main
<1>2. ASSUME NEW S \in SUBSET (1..MaxTyped), Called(S) PROVE IInv' /\ Search!Next
  <2> DEFINE T == {q \in S : queries[q] \in Unsendable}
  <2>1. requests' \cap Gate!Held' = {} /\ requests' \subseteq asked /\ Search!Drop(T)
    BY <1>2, CallDrops DEF IInv
  <2>2. IInv'
    BY <1>2, <2>1 DEF IInv, Numbered, Apart, Called, search, Gate!Call, Gate!mishaps
  <2>3. T \in SUBSET (requests \cup Gate!Held)
    BY <2>1 DEF Search!Drop
  <2>4. \E U \in SUBSET (requests \cup Gate!Held) : Search!Drop(U)
    BY <2>1, <2>3
  <2> QED
    BY <2>2, <2>4 DEF Search!Next
<1>3. ASSUME NEW S \in SUBSET (1..MaxTyped), Mishap(S) PROVE IInv' /\ Search!Next
  <2>1. Search!Drop(S) /\ Apart'
    BY <1>3, LossDrops DEF IInv
  <2>2. IInv'
    BY <1>3, <2>1 DEF IInv, Numbered, Mishap, search
  <2>3. \E U \in SUBSET (requests \cup Gate!Held) : Search!Drop(U)
    BY <2>1 DEF Search!Drop
  <2> QED
    BY <2>2, <2>3 DEF Search!Next
<1>4. ASSUME NEW q \in DOMAIN queries, Reply(q) PROVE IInv' /\ Search!Next
  <2>1. UNCHANGED gate /\ UNCHANGED unsent /\ requests' \subseteq requests /\ Search!Reply(q)
    BY <1>4 DEF Reply
  <2>2. UNCHANGED queries /\ Numbered'
    BY <2>1, SearchStep
  <2>3. IInv'
    BY <2>1, <2>2, AsideStep
  <2> QED
    BY <2>1, <2>3 DEF Search!Next, Search!Ids
<1>5. ASSUME \/ Aside(Search!User) \/ Aside(Search!RunEvent)
             \/ Aside(Search!Layout) \/ Aside(Search!Net)
      PROVE  IInv' /\ Search!Next
  <2>1. /\ Search!User \/ Search!RunEvent \/ Search!Layout \/ Search!Net
        /\ UNCHANGED <<gate, endpoint>>
    BY <1>5 DEF Aside
  <2>2. UNCHANGED queries /\ Numbered'
    BY <2>1, SearchStep
  <2>3. IInv'
    BY <2>1, <2>2, AsideStep DEF endpoint
  <2> QED
    BY <2>1, <2>3 DEF Search!Next, Search!Main
<1>6. ASSUME UNCHANGED vars PROVE IInv' /\ UNCHANGED Search!vars
  <2>1. UNCHANGED search /\ UNCHANGED gate /\ UNCHANGED endpoint
    BY <1>6 DEF vars
  <2>2. UNCHANGED queries /\ Numbered'
    BY <2>1, SearchStep
  <2>3. IInv'
    BY <2>1, <2>2, AsideStep DEF endpoint
  <2>4. UNCHANGED Search!vars
    BY <2>1 DEF search, gate, endpoint, Gate!Held, Search!vars, Search!user, Search!network,
                Search!results, Search!screen, Search!outcomes
  <2> QED
    BY <2>3, <2>4
<1> QED
  BY <1>1, <1>2, <1>3, <1>4, <1>5, <1>6 DEF Next

(* A query is never both at the gate and at the endpoint, so the gate answers   *)
(* for each closure once (validateToke, createRequest).                         *)
THEOREM GateAndEndpointApart == Spec => []IInv
<1>1. Init => IInv
  BY AtStart
<1>2. IInv /\ [Next]_vars => IInv'
  BY Step
<1> QED
  BY <1>1, <1>2, PTL DEF Spec

(* Behind the gate the search is still the search: each query is answered once  *)
(* or dropped, and none comes back (getArtists through createRequest and        *)
(* validateToke).                                                               *)
THEOREM SearchBehindGate == Spec => SearchSpec
<1>1. Init => Search!Init
  BY DEF Init
<1>2. IInv /\ [Next]_vars => [Search!Next]_(Search!vars)
  BY Step
<1> QED
  BY <1>1, <1>2, GateAndEndpointApart, PTL DEF Spec, SearchSpec, Search!Spec

--------------------------------------------------------------------------------
(* What is proved of the search alone, with the substitutions of Search.        *)
Proved == INSTANCE SearchViewModelProofs WITH
  inFlight <- requests \cup Gate!Held, dropped <- unsent \cup lost

(* The search of the gated model is the one those theorems are about: the two   *)
(* instances agree on every state and on every step.                            *)
LEMMA SameState ==
  /\ Search!Init <=> Proved!Init
  /\ UNCHANGED Search!vars <=> UNCHANGED Proved!vars
  /\ Search!SettledShowsField <=> Proved!SettledShowsField
  /\ Search!SpinnerRests <=> Proved!SpinnerRests
  /\ Search!RowsBackedOrReloading <=> Proved!RowsBackedOrReloading
  /\ Search!TapOpensShown <=> Proved!TapOpensShown
<1>1. Search!Init <=> Proved!Init
  BY DEF Search!Init, Proved!Init, Search!NoReply, Proved!NoReply
<1>2. UNCHANGED Search!vars <=> UNCHANGED Proved!vars
  BY DEF Search!vars, Proved!vars, Search!user, Proved!user, Search!network, Proved!network, Search!results, Proved!results, Search!screen, Proved!screen, Search!outcomes, Proved!outcomes
<1>3. Search!SettledShowsField <=> Proved!SettledShowsField
  BY DEF Search!SettledShowsField, Proved!SettledShowsField, Search!Settled, Proved!Settled, Search!Alive, Proved!Alive, Search!Newest, Proved!Newest, Search!NumberOfItems, Proved!NumberOfItems
<1>4. Search!SpinnerRests <=> Proved!SpinnerRests
  BY DEF Search!SpinnerRests, Proved!SpinnerRests, Search!Settled, Proved!Settled, Search!Alive, Proved!Alive
<1>5. Search!RowsBackedOrReloading <=> Proved!RowsBackedOrReloading
  BY DEF Search!RowsBackedOrReloading, Proved!RowsBackedOrReloading, Search!Reloading, Proved!Reloading, Search!Reload, Proved!Reload, Search!Alive, Proved!Alive, Search!NumberOfItems, Proved!NumberOfItems
<1>6. Search!TapOpensShown <=> Proved!TapOpensShown
  BY DEF Search!TapOpensShown, Proved!TapOpensShown, Search!Reloading, Proved!Reloading, Search!Reload, Proved!Reload, Search!Alive, Proved!Alive, Search!EmptyList, Proved!EmptyList
<1> QED
  BY <1>1, <1>2, <1>3, <1>4, <1>5, <1>6

(* ... and the same for each of its actions. *)
LEMMA SameStep == Search!Next <=> Proved!Next
<1>1. \A text \in Texts : Search!Type(text) <=> Proved!Type(text)
  BY DEF Search!Type, Proved!Type, Search!Alive, Proved!Alive, Search!EmptyList, Proved!EmptyList, Search!network, Proved!network, Search!outcomes, Proved!outcomes
<1>2. \A i \in 0..MaxItems - 1 : Search!ShowCell(i) <=> Proved!ShowCell(i)
  BY DEF Search!ShowCell, Proved!ShowCell, Search!Alive, Proved!Alive, Search!HasRow, Proved!HasRow, Search!user, Proved!user, Search!network, Proved!network, Search!results, Proved!results, Search!screen, Proved!screen, Search!outcomes, Proved!outcomes
<1>3. \A i \in 0..MaxItems - 1 : Search!Tap(i) <=> Proved!Tap(i)
  BY DEF Search!Tap, Proved!Tap, Search!Alive, Proved!Alive, Search!HasRow, Proved!HasRow, Search!user, Proved!user, Search!network, Proved!network, Search!results, Proved!results, Search!screen, Proved!screen, Search!outcomes, Proved!outcomes
<1>4. Search!FireDebounce <=> Proved!FireDebounce
  BY DEF Search!FireDebounce, Proved!FireDebounce, Search!FireEvents, Proved!FireEvents, Search!Alive, Proved!Alive, Search!Spin, Proved!Spin, Search!Reload, Proved!Reload, Search!EmptyList, Proved!EmptyList, Search!Newest, Proved!Newest, Search!outcomes, Proved!outcomes
<1>5. Search!RunEvent <=> Proved!RunEvent
  BY DEF Search!RunEvent, Proved!RunEvent, Search!Alive, Proved!Alive, Search!user, Proved!user, Search!network, Proved!network, Search!results, Proved!results, Search!outcomes, Proved!outcomes
<1>6. Search!Layout <=> Proved!Layout
  BY DEF Search!Layout, Proved!Layout, Search!Alive, Proved!Alive, Search!NumberOfItems, Proved!NumberOfItems, Search!user, Proved!user, Search!network, Proved!network, Search!results, Proved!results, Search!outcomes, Proved!outcomes
<1>7. Search!Net <=> Proved!Net
  BY DEF Search!Net, Proved!Net, Search!SetArtist, Proved!SetArtist, Search!SetArray, Proved!SetArray, Search!AskReload, Proved!AskReload, Search!Alive, Proved!Alive, Search!NoReply, Proved!NoReply, Search!Reload, Proved!Reload, Search!user, Proved!user, Search!network, Proved!network, Search!results, Proved!results, Search!screen, Proved!screen, Search!outcomes, Proved!outcomes
<1>8. \A q \in DOMAIN queries : Search!ReplyFailed(q) <=> Proved!ReplyFailed(q)
  BY DEF Search!ReplyFailed, Proved!ReplyFailed, Search!Alive, Proved!Alive, Search!Spin, Proved!Spin, Search!user, Proved!user, Search!results, Proved!results, Search!screen, Proved!screen
<1>9. \A q \in DOMAIN queries : Search!ReplyDecoded(q) <=> Proved!ReplyDecoded(q)
  BY DEF Search!ReplyDecoded, Proved!ReplyDecoded, Search!Alive, Proved!Alive, Search!Spin, Proved!Spin, Search!user, Proved!user, Search!results, Proved!results, Search!screen, Proved!screen
<1>10. \A S \in SUBSET (requests \cup Gate!Held) : Search!Drop(S) <=> Proved!Drop(S)
  BY DEF Search!Drop, Proved!Drop, Search!Alive, Proved!Alive, Search!user, Proved!user, Search!results, Proved!results, Search!screen, Proved!screen
<1> QED
  BY <1>1, <1>2, <1>3, <1>4, <1>5, <1>6, <1>7, <1>8, <1>9, <1>10
  DEF Search!Next, Proved!Next, Search!User, Proved!User, Search!Main, Proved!Main, Search!Reply, Proved!Reply, Search!Ids, Proved!Ids

(* So whatever is proved of the search alone holds of it behind the gate. *)
LEMMA GatedIsProved == Spec => Proved!Spec
<1>1. SearchSpec => Proved!Spec
  BY SameState, SameStep, PTL DEF SearchSpec, Search!Spec, Proved!Spec
<1> QED
  BY <1>1, SearchBehindGate

(* The search still settles on the answer to the text in the field, though the  *)
(* query waited for a token first and the gate may have given up others.        *)
THEOREM GatedSettlesOnField == Spec => []Search!SettledShowsField
<1>1. Proved!Spec => []Proved!SettledShowsField
  BY Proved!SettlesOnField, TextsAssumption, BoundsAssumption
<1> QED
  BY <1>1, GatedIsProved, SameState, PTL

(* And the grid it keeps is one that can be drawn and tapped: rows that are     *)
(* gone are being taken away, and a tap opens the artist of its cell.           *)
THEOREM GatedGridTrue == Spec => [](Search!RowsBackedOrReloading /\ Search!TapOpensShown)
<1>1. Proved!Spec => []Proved!RowsBackedOrReloading
  BY Proved!RowsBacked, TextsAssumption, BoundsAssumption
<1>2. Proved!Spec => []Proved!TapOpensShown
  BY Proved!TapsOpenShown, TextsAssumption, BoundsAssumption
<1> QED
  BY <1>1, <1>2, GatedIsProved, SameState, PTL

--------------------------------------------------------------------------------
(* An undisturbed gate gives up no query. *)
QuietGate == ~disturbed => lost = {}

(* It has given up none at first. *)
LEMMA QuietStart == Init => QuietGate
  BY DEF Init, Gate!Init, QuietGate

(* A mishap that costs a query disturbs the session. *)
LEMMA QuietStep == IInv /\ QuietGate /\ [Next]_vars => QuietGate'
<1> SUFFICES ASSUME IInv, QuietGate, [Next]_vars PROVE QuietGate'
  OBVIOUS
<1>1. ASSUME NEW S \in SUBSET (1..MaxTyped), Mishap(S) PROVE QuietGate'
  <2>1. S \subseteq 1..MaxTyped /\ lost' = lost \cup S
    BY <1>1 DEF Mishap, Gate!Lose
  <2>2. ~disturbed' => ~disturbed /\ S \cap (1..MaxTyped) = {}
    BY <1>1, Zenon DEF Mishap, Gate!Lose
  <2> QED
    BY <2>1, <2>2 DEF QuietGate
<1>2. CASE UNCHANGED <<lost, disturbed>>
  BY <1>2 DEF QuietGate
<1>3. ASSUME Query \/ \E S \in SUBSET (1..MaxTyped) : Called(S) PROVE UNCHANGED <<lost, disturbed>>
  BY <1>3 DEF Query, Gate!Ask, Called, Gate!Call, Gate!mishaps
<1>4. ASSUME \/ \E q \in DOMAIN queries : Reply(q)
             \/ Aside(Search!User) \/ Aside(Search!RunEvent)
             \/ Aside(Search!Layout) \/ Aside(Search!Net)
             \/ UNCHANGED vars
      PROVE  UNCHANGED <<lost, disturbed>>
  BY <1>4 DEF Reply, Aside, gate, vars
<1> QED
  BY <1>1, <1>2, <1>3, <1>4 DEF Next

(* A spinner that turns over a search nothing is left to do for. *)
StuckSpinner == Search!Settled /\ loader

(* What SpinnerStops waits for, short of fairness: a spinner that turns turns   *)
(* over something still to be done, unless a mishap lost a query at the gate or *)
(* a text made no URL, the one loading that createRequest never takes back.     *)
THEOREM StuckSpinnerExplained == Spec => [](StuckSpinner => disturbed \/ unsent # {})
<1>1. Proved!Spec => []Proved!SpinnerRests
  BY Proved!SpinnerComesToRest, TextsAssumption, BoundsAssumption
<1>2. Spec => []Search!SpinnerRests
  BY <1>1, GatedIsProved, SameState, PTL
<1>3. Spec => []QuietGate
  BY QuietStart, QuietStep, GateAndEndpointApart, PTL DEF Spec
<1>4. Search!SpinnerRests /\ QuietGate => (StuckSpinner => disturbed \/ unsent # {})
  BY DEF Search!SpinnerRests, QuietGate, StuckSpinner
<1> QED
  BY <1>2, <1>3, <1>4, PTL
================================================================================
