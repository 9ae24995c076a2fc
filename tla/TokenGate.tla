------------------------------ MODULE TokenGate ------------------------------
(* What AuthenticationManager promises the screens: a closure handed to        *)
(* validateToke is called with a token, once, or given up.  A screen's closure *)
(* is given up only in a session that has met a mishap (a failed refresh, a    *)
(* sign-out, a kill, ...); a login's may be at any time.  Once the unlocked    *)
(* array has lost a race, a closure may also be called again.                  *)
EXTENDS Naturals

CONSTANTS
  Calls,  \* closures of the screens
  Logins  \* closures of logins

Closures == Calls \cup Logins

VARIABLES
  asked, calls, lost,  \* closures handed in; times each was called; given up
  disturbed, raced     \* a mishap has happened; the array has lost a race

fates == <<asked, calls, lost>>
mishaps == <<disturbed, raced>>
vars == <<fates, mishaps>>

Held == {r \in asked : calls[r] = 0 /\ r \notin lost}
Callable == IF raced THEN asked ELSE Held

Init ==
  /\ asked = {} /\ lost = {}
  /\ calls = [r \in Closures |-> 0]
  /\ disturbed \in BOOLEAN /\ raced = FALSE

Ask(r) ==
  /\ r \notin asked
  /\ asked' = asked \cup {r}
  /\ UNCHANGED <<calls, lost, mishaps>>

(* A reply calls all the closures that wait for it. *)
Call(S) ==
  /\ S \subseteq Callable
  /\ calls' = [r \in Closures |-> IF r \in S THEN calls[r] + 1 ELSE calls[r]]
  /\ UNCHANGED <<asked, lost, mishaps>>

(* A mishap may befall the session by itself, or with the closures it costs. *)
Lose(S) ==
  /\ S \subseteq Held
  /\ lost' = lost \cup S
  /\ disturbed' \in {disturbed, TRUE} /\ raced' \in {raced, TRUE}
  /\ raced' \/ S \cap Calls # {} => disturbed'
  /\ UNCHANGED <<asked, calls>>

Next ==
  \/ \E r \in Closures : Ask(r)
  \/ \E S \in SUBSET Closures : Call(S) \/ Lose(S)

Spec == Init /\ [][Next]_vars

----------------------------------------------------------------------------
(* Short of a race nobody is called twice, or called after being given up; and *)
(* short of a mishap no screen is given up.                                    *)
Promise ==
  /\ ~raced => \A r \in Closures : calls[r] <= 1 /\ (calls[r] > 0 => r \in asked \ lost)
  /\ ~disturbed => lost \cap Calls = {}
=============================================================================
