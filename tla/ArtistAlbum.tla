----------------------------- MODULE ArtistAlbum -----------------------------
(* One album screen: AlbumViewModel.swift with the bindings and the grid of    *)
(* ArtistAlbumViewController.  The view model asks for the albums while it is  *)
(* being made, so the reply, on the URLSession queue, may come before the      *)
(* screen has subscribed to the relays; isLoading and headerModel replay their *)
(* last value to a subscriber, onError and reload do not.  The request waits   *)
(* at the token gate first.                                                    *)
EXTENDS Naturals, Sequences, FiniteSets

CONSTANTS
  NoAlbum,
  MaxItems,   \* bound: longest album list
  MaxHeaders, \* bound: headers the grid dequeues
  MaxCalls    \* bound: times a raced gate calls the closure

ASSUME BoundsAssumption ==
  MaxItems \in Nat /\ MaxHeaders \in Nat /\ MaxCalls \in Nat /\ NoAlbum \notin Nat

VARIABLES
  phase,                    \* how far the main thread has got with the screen
  isLoading, header, album, \* the view model (header: headerModel is made)
  requests, pc, result,     \* requests sent; the completion's next step and its albums
  events,                   \* relay events on their way to the main queue
  loader, needsLayout, rows,
  headers, populated,       \* headers dequeued, hence subscriptions; times one was filled
  alerts, unheard,          \* failures put in an alert; failures nobody listened to
  trapped,                  \* the app died on an index out of range
  asked, calls, lost, disturbed, raced

model   == <<isLoading, header, album>>
network == <<requests, pc, result>>
grid    == <<needsLayout, rows>>
view    == <<loader, grid, populated, alerts>>
tallies == <<headers, unheard, trapped>>
gate    == <<asked, calls, lost, disturbed, raced>>
vars    == <<phase, model, network, events, view, tallies, gate>>

getArtistAlbum == "getArtistAlbum"
Gate == INSTANCE TokenGate WITH Calls <- {getArtistAlbum}, Logins <- {}

Lists == 0..MaxItems
Results == Lists \cup {NoAlbum}
Kinds == {"start", "stop", "error", "reload", "url", "header"}
Phases == <<"request", "header", "bind", "onError", "reload", "shown", "popped">>
Reached(p) == \E i, j \in DOMAIN Phases : Phases[i] = p /\ Phases[j] = phase /\ i <= j
Shown == phase = "shown" /\ ~trapped

(* The bindings hold the screen strongly while an event of theirs is queued    *)
(* (withUnretained comes before observe); after that a popped one is released. *)
Released == phase = "popped" /\ \A i \in DOMAIN events : events[i] = "header"

Init ==
  /\ phase = "request"
  /\ isLoading = TRUE /\ header = FALSE /\ album = NoAlbum
  /\ requests = 0 /\ pc = "idle" /\ result = NoAlbum
  /\ events = <<>>
  /\ loader = FALSE /\ needsLayout = FALSE /\ rows = 0
  /\ headers = 0 /\ populated = 0 /\ alerts = 0 /\ unheard = 0 /\ trapped = FALSE
  /\ Gate!Init

----------------------------------------------------------------------------
(* What the bound closures do *)

(* An alert for failures that the spinner is still waiting for. *)
ApplyWhileLoading(e) ==
  /\ loader' = IF e \in {"start", "stop"} THEN e = "start" ELSE loader
  /\ needsLayout' = (needsLayout \/ e = "reload")
  /\ alerts' = IF e = "error" /\ loader THEN alerts + 1 ELSE alerts
  /\ populated' = IF e = "header" /\ header THEN populated + 1 ELSE populated
  /\ UNCHANGED rows

Apply(e) ==
  /\ loader' = IF e \in {"start", "stop"} THEN e = "start" ELSE loader
  /\ needsLayout' = (needsLayout \/ e = "reload")
  /\ alerts' = IF e = "error" THEN alerts + 1 ELSE alerts
  /\ populated' = IF e = "header" /\ header THEN populated + 1 ELSE populated
  /\ UNCHANGED rows

(* Emitted on the main thread: run at once, unless MainScheduler has events    *)
(* queued, of this screen or of another one.                                   *)
Emit(e) ==
  \/ events = <<>> /\ Apply(e) /\ UNCHANGED events
  \/ events' = Append(events, e) /\ UNCHANGED view

(* Emitted on the delegate queue. *)
Post(e, boundAt) ==
  events' = IF Reached(boundAt) /\ ~Released THEN Append(events, e) ELSE events

----------------------------------------------------------------------------
(* The main thread *)

Enter(from, to) == phase = from /\ phase' = to /\ UNCHANGED <<network, tallies>>

Request ==
  /\ Enter("request", "header")
  /\ Gate!Ask(getArtistAlbum)
  /\ UNCHANGED <<model, events, view>>

GenerateHeaderModel ==
  /\ Enter("header", "bind")
  /\ header' = TRUE
  /\ UNCHANGED <<isLoading, album, events, view, gate>>

BindSpinning ==
  /\ Enter("bind", "onError")
  /\ Emit("start")
  /\ UNCHANGED <<model, gate>>

BindLoading ==
  /\ Enter("bind", "onError")
  /\ Emit(IF isLoading THEN "start" ELSE "stop")
  /\ UNCHANGED <<model, gate>>

BindError == Enter("onError", "reload") /\ UNCHANGED <<model, events, view, gate>>

(* The first layout pass comes after viewDidLoad. *)
BindReload ==
  /\ Enter("reload", "shown")
  /\ needsLayout' = TRUE
  /\ UNCHANGED <<model, events, loader, rows, populated, alerts, gate>>

RunEvent ==
  /\ ~trapped /\ events # <<>>
  /\ events' = Tail(events)
  /\ IF Released THEN UNCHANGED view ELSE Apply(Head(events))
  /\ UNCHANGED <<phase, model, network, tallies, gate>>

NumberOfItems == IF album = NoAlbum THEN 0 ELSE album

Layout ==
  /\ Shown /\ needsLayout
  /\ needsLayout' = FALSE /\ rows' = NumberOfItems
  /\ UNCHANGED <<phase, model, network, events, loader, populated, alerts, tallies, gate>>

(* Every header the grid dequeues subscribes to headerModel. *)
DequeueHeader ==
  /\ Shown /\ headers < MaxHeaders
  /\ headers' = headers + 1
  /\ Emit("header")
  /\ UNCHANGED <<phase, model, network, unheard, trapped, gate>>

(* cellForItemAt: album!.items[index]. *)
ShowCell(i) ==
  /\ Shown /\ i < rows
  /\ trapped' = (i >= NumberOfItems)
  /\ UNCHANGED <<phase, model, network, events, view, headers, unheard, gate>>

(* didSelectItemAt: album?.items[index], whose url is opened if it has one. *)
Select(i) ==
  /\ Shown /\ i < rows
  /\ trapped' = (album # NoAlbum /\ i >= album)
  /\ \/ UNCHANGED <<events, view>>
     \/ ~trapped' /\ "url" \notin {events[k] : k \in DOMAIN events} /\ Emit("url")
  /\ UNCHANGED <<phase, model, network, headers, unheard, gate>>

Back ==
  /\ Shown /\ phase' = "popped"
  /\ UNCHANGED <<model, network, events, view, tallies, gate>>

----------------------------------------------------------------------------
(* The gate and the completion of getArtistAlbum, on the delegate queue *)

(* createRequest's closure; the id of an artist always makes a URL. *)
Called ==
  /\ ~trapped /\ calls[getArtistAlbum] < MaxCalls
  /\ Gate!Call({getArtistAlbum})
  /\ requests' = requests + 1
  /\ UNCHANGED <<phase, model, pc, result, events, view, tallies>>

Mishap(S) ==
  /\ ~trapped /\ Gate!Lose(S)
  /\ UNCHANGED <<phase, model, network, events, view, tallies>>

(* A failed request takes its completion with it. *)
ReplyOnSuccess ==
  /\ ~trapped /\ pc = "idle" /\ requests > 0
  /\ requests' = requests - 1
  /\ \/ Released /\ UNCHANGED <<isLoading, events, pc, result>>
     \/ /\ ~Released
        /\ result' \in Results
        /\ pc' = IF result' = NoAlbum THEN "error" ELSE "album"
        /\ isLoading' = (isLoading /\ result' = NoAlbum)
        /\ IF isLoading' THEN UNCHANGED events ELSE Post("stop", "onError")
  /\ UNCHANGED <<phase, header, album, view, tallies, gate>>

(* A request that fails may complete twice. *)
ReplyTwice ==
  /\ ~trapped /\ pc = "idle" /\ requests > 0
  /\ requests' \in {requests - 1, requests}
  /\ result' \in Results
  /\ pc' = IF result' = NoAlbum THEN "error" ELSE "album"
  /\ isLoading' = FALSE /\ Post("stop", "onError")
  /\ UNCHANGED <<phase, header, album, view, tallies, gate>>

(* The view model is gone with its screen, or stops loading, then looks at the *)
(* result: NoAlbum is a failed request or a document that does not decode.     *)
Reply ==
  /\ ~trapped /\ pc = "idle" /\ requests > 0
  /\ requests' = requests - 1
  /\ \/ Released /\ UNCHANGED <<isLoading, events, pc, result>>
     \/ /\ ~Released
        /\ result' \in Results
        /\ pc' = IF result' = NoAlbum THEN "error" ELSE "album"
        /\ isLoading' = FALSE /\ Post("stop", "onError")
  /\ UNCHANGED <<phase, header, album, view, tallies, gate>>

EmitError ==
  /\ ~trapped /\ pc = "error"
  /\ pc' = "idle"
  /\ Post("error", "reload")
  /\ unheard' = IF Reached("reload") /\ ~Released THEN unheard ELSE unheard + 1
  /\ UNCHANGED <<phase, model, requests, result, view, headers, trapped, gate>>

SetAlbumAndHeader ==
  /\ ~trapped /\ pc = "album"
  /\ pc' = "reload"
  /\ album' = result
  /\ events' = events \o [i \in 1..headers |-> "header"]
  /\ UNCHANGED <<phase, isLoading, header, requests, result, view, tallies, gate>>

SetAlbum ==
  /\ ~trapped /\ pc = "album"
  /\ pc' = "reload"
  /\ album' = result
  /\ UNCHANGED <<phase, isLoading, header, requests, result, events, view, tallies, gate>>

AskReloadIfAny ==
  /\ ~trapped /\ pc = "reload"
  /\ pc' = "idle"
  /\ IF result = 0 THEN UNCHANGED events ELSE Post("reload", "shown")
  /\ UNCHANGED <<phase, model, requests, result, view, tallies, gate>>

AskReload ==
  /\ ~trapped /\ pc = "reload"
  /\ pc' = "idle"
  /\ Post("reload", "shown")
  /\ UNCHANGED <<phase, model, requests, result, view, tallies, gate>>

----------------------------------------------------------------------------
Load == Request \/ GenerateHeaderModel \/ BindLoading \/ BindError \/ BindReload
User == Back \/ DequeueHeader \/ \E i \in 0..MaxItems - 1 : ShowCell(i) \/ Select(i)
Net == EmitError \/ SetAlbum \/ AskReload
AtGate == Called \/ \E S \in SUBSET {getArtistAlbum} : Mishap(S)

Next == Load \/ RunEvent \/ Layout \/ User \/ Reply \/ Net \/ AtGate

(* The run loop serves loading, its queue and layout; a request completes or   *)
(* times out (30 s); an undisturbed gate settles every closure (CallSettles of *)
(* AuthenticationManager).                                                     *)
Fairness ==
  /\ WF_vars(Load) /\ WF_vars(RunEvent) /\ WF_vars(Layout)
  /\ WF_vars(Reply) /\ WF_vars(Net) /\ WF_vars(~disturbed /\ Called)

Spec == Init /\ [][Next]_vars
FairSpec == Spec /\ Fairness

----------------------------------------------------------------------------
TypeOK ==
  /\ \E i \in DOMAIN Phases : phase = Phases[i]
  /\ isLoading \in BOOLEAN /\ header \in BOOLEAN /\ album \in Results
  /\ requests \in 0..MaxCalls /\ result \in Results
  /\ pc \in {"idle", "error", "album", "reload"}
  /\ events \in Seq(Kinds)
  /\ loader \in BOOLEAN /\ needsLayout \in BOOLEAN /\ rows \in Lists
  /\ headers \in 0..MaxHeaders /\ populated \in 0..MaxHeaders
  /\ alerts \in 0..MaxCalls /\ unheard \in 0..MaxCalls /\ trapped \in BOOLEAN

Settled == Shown /\ pc = "idle" /\ events = <<>> /\ ~needsLayout

(* A reload that comes before the screen subscribes is lost, and the albums    *)
(* are shown all the same: the list is written before the reload, and the      *)
(* first layout comes after the subscription.                                  *)
SettledShowsAlbum == Settled => rows = NumberOfItems

(* `album!` finds every row the grid asks for, unless a race at the gate sent  *)
(* the request twice and the second answer replaced the first.                 *)
RowsBacked == raced \/ (~trapped /\ rows <= NumberOfItems)

(* Though each dequeued header subscribes once more and none is disposed       *)
(* before the screen, each subscription fills its header exactly once: the     *)
(* header model is made before the first of them and never again.              *)
HeaderFilledOnce ==
  Shown => headers = populated + Cardinality({i \in DOMAIN events : events[i] = "header"})

(* The spinner shows what the view model last said, once the events are       *)
(* through, whichever of the reply and the subscription came first.            *)
LoaderFollows == Settled => loader = isLoading

(* A screen that has stopped loading shows albums or an alert, unless the      *)
(* failure was announced before anybody had subscribed to it.                  *)
FailureTold == Settled /\ ~isLoading /\ alerts = 0 /\ unheard = 0 => album # NoAlbum

(* The spinner of a screen that is looked at stops, unless a mishap made the   *)
(* gate give up the request.                                                   *)
SpinnerStops == loader ~> (~loader \/ disturbed \/ phase = "popped" \/ trapped)
=============================================================================
