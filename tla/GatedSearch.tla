----------------------------- MODULE GatedSearch -----------------------------
(* The artist search behind the token gate: a query is a closure that          *)
(* createRequest hands to validateToke, and its request goes out when the gate *)
(* calls it.  What SearchViewModel has in flight is at the gate or at the      *)
(* endpoint; what it has dropped was lost at the gate or made no URL.  The     *)
(* session may meet mishaps; a race of the manager's array is left out, for    *)
(* after one the gate promises too little to speak of queries.                 *)
EXTENDS Naturals, Sequences

CONSTANTS
  Texts, Empty, NoText, NoList, MaxItems, MaxTyped,  \* as in SearchViewModel
  Unsendable                                         \* texts that make no URL

ASSUME TextsAssumption == Empty \in Texts /\ NoText \notin Texts
ASSUME BoundsAssumption == MaxItems \in Nat /\ MaxTyped \in Nat
ASSUME UnsendableAssumption == Unsendable \subseteq Texts \ {Empty}

VARIABLES
  field, typed, pending, queries, artist, artistArray, reply, pc, events,
  loader, needsLayout, rows, shownOf, lastReply, overtaken, failed, trapped,
  asked, calls, lost, disturbed, raced,
  requests, unsent  \* queries at the endpoint; called with a text that made no URL

search == <<field, typed, pending, queries, artist, artistArray, reply, pc, events, loader,
            needsLayout, rows, shownOf, lastReply, overtaken, failed, trapped>>
gate == <<asked, calls, lost, disturbed, raced>>
endpoint == <<requests, unsent>>
vars == <<search, gate, endpoint>>

Gate == INSTANCE TokenGate WITH Calls <- 1..MaxTyped, Logins <- {}
Search == INSTANCE SearchViewModel WITH
  inFlight <- requests \cup Gate!Held, dropped <- unsent \cup lost

Init == requests = {} /\ unsent = {} /\ Gate!Init /\ Search!Init

----------------------------------------------------------------------------
(* getArtists: the debounced text is handed to the gate. *)
Query ==
  /\ Gate!Ask(Len(queries) + 1)
  /\ UNCHANGED endpoint
  /\ Search!FireDebounce

CalledAgain(S) ==
  /\ calls' = [q \in 1..MaxTyped |-> IF q \in S THEN calls[q] + 1 ELSE calls[q]]
  /\ requests' = requests \cup {q \in S \cap asked : queries[q] \notin Unsendable}
  /\ unsent' = unsent \cup {q \in S \cap asked : queries[q] \in Unsendable}
  /\ UNCHANGED <<search, asked, lost, disturbed, raced>>

(* createRequest's closure: it returns when there is no URL. *)
Called(S) ==
  /\ Search!Alive
  /\ Gate!Call(S)
  /\ requests' = requests \cup {q \in S : queries[q] \notin Unsendable}
  /\ unsent' = unsent \cup {q \in S : queries[q] \in Unsendable}
  /\ UNCHANGED search

(* A failed refresh, a sign-out: the gate may give up some of the queries. *)
Mishap(S) ==
  /\ Search!Alive
  /\ UNCHANGED <<raced, endpoint, search>>
  /\ Gate!Lose(S)

Reply(q) ==
  /\ q \in requests
  /\ requests' = requests \ {q}
  /\ UNCHANGED <<gate, unsent>>
  /\ Search!Reply(q)

Aside(A) == UNCHANGED <<gate, endpoint>> /\ A

Next ==
  \/ Query
  \/ \E S \in SUBSET (1..MaxTyped) : Called(S) \/ Mishap(S)
  \/ \E q \in DOMAIN queries : Reply(q)
  \/ Aside(Search!User) \/ Aside(Search!RunEvent) \/ Aside(Search!Layout) \/ Aside(Search!Net)

(* The run loop serves its timer, its queue and layout in turn; every request  *)
(* that is sent completes or times out (30 s); and in an undisturbed session   *)
(* the manager settles every call (CallSettles of AuthenticationManager).      *)
Fairness ==
  /\ WF_vars(Query) /\ WF_vars(Aside(Search!RunEvent)) /\ WF_vars(Aside(Search!Layout))
  /\ WF_vars(Aside(Search!Net))
  /\ \A q \in 1..MaxTyped : SF_vars(q \in DOMAIN queries /\ Reply(q))
  /\ \A q \in 1..MaxTyped : WF_vars(~disturbed /\ Called({q}))

Spec == Init /\ [][Next]_vars
FairSpec == Spec /\ Fairness

----------------------------------------------------------------------------
(* What the search assumes of its queries is what the gate and the endpoint    *)
(* give it: each is answered once or dropped, and none comes back.             *)
SearchSpec == Search!Spec

(* The spinner stops: in an undisturbed session only a text that makes no URL, *)
(* or the death of the app, leaves it turning.                                 *)
SpinnerStops == loader ~> (~loader \/ disturbed \/ unsent # {} \/ ~Search!Alive)
=============================================================================
