---------------------------- MODULE SearchViewModel ----------------------------
(* The artist search: SearchViewModel.swift with the parts of                    *)
(* SearchViewController and APIClient it works with.  The user types on the main *)
(* thread, a debounced text becomes a query, and the reply is written into the   *)
(* view model on the URLSession queue, one property after the other, while the   *)
(* grid on the main thread reads them.  Relays reach the controller through      *)
(* MainScheduler, i.e. through the main queue.                                   *)
(*                                                                               *)
(* A query is its number; a result list is the query it answers and its length.  *)
EXTENDS Naturals, Sequences

CONSTANTS
  Texts,      \* what the user can type, Empty included
  Empty,      \* the empty search text
  NoText, NoList,
  MaxItems,   \* bound: longest result list
  MaxTyped    \* bound: number of edits of the search text

ASSUME TextsAssumption == Empty \in Texts /\ NoText \notin Texts
ASSUME BoundsAssumption == MaxItems \in Nat /\ MaxTyped \in Nat

VARIABLES
  field, typed,         \* the text in the search bar; edits so far
  pending,              \* the text the debounce holds
  queries, inFlight,    \* texts queried so far; queries awaiting a token or a reply
  artist, artistArray,  \* the two copies of the result in the view model
  reply, pc,            \* the reply the delegate queue works on, and its next step
  events,               \* relay events on their way to the main queue
  loader,               \* the spinner turns
  needsLayout, rows, shownOf,  \* the grid: reload due; rows, and the list they show
  lastReply, overtaken, \* newest query answered; the last answer came after a newer one's
  dropped, failed,      \* queries that were never sent; that came back as errors
  trapped               \* the app died on an index out of range

user     == <<field, typed, pending>>
network  == <<queries, inFlight>>
results  == <<artist, artistArray>>
screen   == <<loader, needsLayout, rows, shownOf>>
outcomes == <<lastReply, overtaken, dropped, failed>>
vars == <<user, network, results, reply, pc, events, screen, outcomes, trapped>>

Ids == DOMAIN queries
Newest == Len(queries)
Lists == [of : 0..MaxTyped, n : 0..MaxItems]
EmptyList == [of |-> 0, n |-> 0]
NoReply == [query |-> 0, list |-> NoList]
Spin(b) == [kind |-> "loading", on |-> b]
Reload == [kind |-> "reload", on |-> TRUE]
Alive == trapped = "no"

Init ==
  /\ field = Empty /\ typed = 0 /\ pending = NoText
  /\ queries = <<>> /\ inFlight = {}
  /\ artist = NoList /\ artistArray = NoList
  /\ reply = NoReply /\ pc = "idle"
  /\ events = <<>>
  /\ loader = FALSE /\ needsLayout = FALSE /\ rows = 0 /\ shownOf = 0
  /\ lastReply = 0 /\ overtaken = FALSE
  /\ dropped = {} /\ failed = {}
  /\ trapped = "no"

----------------------------------------------------------------------------
(* The main thread *)

(* Restarts nothing while a text is held: what a throttle would do. *)
TypeThrottled(text) ==
  /\ Alive /\ typed < MaxTyped /\ (text # Empty \/ field # Empty)
  /\ field' = text /\ typed' = typed + 1
  /\ pending' = IF pending = NoText THEN text ELSE pending
  /\ \/ text = Empty /\ artistArray' = EmptyList /\ needsLayout' = TRUE
     \/ text # Empty /\ UNCHANGED <<artistArray, needsLayout>>
  /\ UNCHANGED <<network, artist, reply, pc, events, loader, rows, shownOf, outcomes, trapped>>

(* textDidChange: the text goes to the debounce, which forgets the one before; *)
(* a field that is emptied also empties the array that taps are looked up in.  *)
Type(text) ==
  /\ Alive /\ typed < MaxTyped /\ (text # Empty \/ field # Empty)
  /\ field' = text /\ typed' = typed + 1
  /\ pending' = text
  /\ \/ text = Empty /\ artistArray' = EmptyList /\ needsLayout' = TRUE
     \/ text # Empty /\ UNCHANGED <<artistArray, needsLayout>>
  /\ UNCHANGED <<network, artist, reply, pc, events, loader, rows, shownOf, outcomes, trapped>>

(* MainScheduler runs an event of the main thread at once when none is queued, *)
(* and behind the queued ones otherwise.                                       *)
FireEvents ==
  IF events = <<>>
    THEN /\ loader' = TRUE
         /\ needsLayout' = (needsLayout \/ pending = Empty)
         /\ UNCHANGED events
    ELSE /\ events' = events \o <<Spin(TRUE)>> \o (IF pending = Empty THEN <<Reload>> ELSE <<>>)
         /\ UNCHANGED <<loader, needsLayout>>

(* A timer that repeats: the text is held, and queried, for ever. *)
FireDebounceRepeating ==
  /\ Alive /\ pending # NoText
  /\ FireEvents
  /\ queries' = Append(queries, pending)
  /\ inFlight' = inFlight \cup {Newest + 1}
  /\ UNCHANGED <<user, results, reply, pc, rows, shownOf, outcomes, trapped>>

(* 250 ms without an edit: the held text is queried, the empty one too. *)
FireDebounce ==
  /\ Alive /\ pending # NoText
  /\ FireEvents
  /\ artistArray' = IF pending = Empty THEN EmptyList ELSE artistArray
  /\ queries' = Append(queries, pending)
  /\ inFlight' = inFlight \cup {Newest + 1}
  /\ pending' = NoText
  /\ UNCHANGED <<field, typed, artist, reply, pc, rows, shownOf, outcomes, trapped>>

(* Queries whose text makes no URL, or whose closure the token gate gives up:  *)
(* no request goes out, no completion ever comes.                              *)
Drop(S) ==
  /\ Alive /\ S \subseteq inFlight
  /\ inFlight' = inFlight \ S
  /\ dropped' = dropped \cup S
  /\ UNCHANGED <<user, queries, results, reply, pc, events, screen, lastReply, overtaken, failed,
                 trapped>>

RunEvent ==
  /\ Alive /\ events # <<>>
  /\ \/ /\ Head(events).kind = "loading"
        /\ loader' = Head(events).on /\ UNCHANGED needsLayout
     \/ Head(events).kind = "reload" /\ needsLayout' = TRUE /\ UNCHANGED loader
  /\ events' = Tail(events)
  /\ UNCHANGED <<user, network, results, reply, pc, rows, shownOf, outcomes, trapped>>

NumberOfItems == IF artist = NoList THEN 0 ELSE artist.n

(* The layout pass after reloadData asks for the number of rows. *)
Layout ==
  /\ Alive /\ needsLayout
  /\ needsLayout' = FALSE
  /\ rows' = NumberOfItems
  /\ shownOf' = IF artist = NoList THEN 0 ELSE artist.of
  /\ UNCHANGED <<user, network, results, reply, pc, events, loader, outcomes, trapped>>

HasRow(list, i) == list # NoList /\ i < list.n

(* cellForItemAt: artist!.items[index] for any row the grid believes in. *)
ShowCell(i) ==
  /\ Alive /\ i < rows
  /\ trapped' = IF HasRow(artist, i) THEN "no" ELSE "cell"
  /\ UNCHANGED <<user, network, results, reply, pc, events, screen, outcomes>>

(* didSelectItemAt: artistArray[row], if there is an array. *)
Tap(i) ==
  /\ Alive /\ i < rows
  /\ trapped' = IF artistArray = NoList \/ HasRow(artistArray, i) THEN "no" ELSE "tap"
  /\ UNCHANGED <<user, network, results, reply, pc, events, screen, outcomes>>

----------------------------------------------------------------------------
(* The completion of getArtists, on the delegate queue *)

ReplyFailedSpinning(q) ==
  /\ Alive /\ pc = "idle" /\ q \in inFlight
  /\ inFlight' = inFlight \ {q}
  /\ failed' = failed \cup {q}
  /\ UNCHANGED <<user, queries, results, reply, pc, events, screen, lastReply, overtaken, dropped, trapped>>

(* isLoading false, then onError, whose alert leaves the rest alone. *)
ReplyFailed(q) ==
  /\ Alive /\ pc = "idle" /\ q \in inFlight
  /\ inFlight' = inFlight \ {q}
  /\ failed' = failed \cup {q}
  /\ events' = Append(events, Spin(FALSE))
  /\ UNCHANGED <<user, queries, results, reply, pc, screen, lastReply, overtaken, dropped, trapped>>

(* A reply that decodes; an error document decodes as one without a list. *)
ReplyDecoded(q) ==
  /\ Alive /\ pc = "idle" /\ q \in inFlight
  /\ inFlight' = inFlight \ {q}
  /\ lastReply' = IF q > lastReply THEN q ELSE lastReply
  /\ overtaken' = (q < lastReply)
  /\ \E list \in [of : {q}, n : 0..MaxItems] \cup {NoList} :
       reply' = [query |-> q, list |-> list]
  /\ events' = Append(events, Spin(FALSE))
  /\ pc' = "artist"
  /\ UNCHANGED <<user, queries, results, screen, dropped, failed, trapped>>

SetArtist ==
  /\ Alive /\ pc = "artist"
  /\ artist' = reply.list
  /\ pc' = "array"
  /\ UNCHANGED <<user, network, artistArray, reply, events, screen, outcomes, trapped>>

SetArrayOnce ==
  /\ Alive /\ pc = "array"
  /\ artistArray' = IF artistArray \in {NoList, EmptyList} THEN reply.list ELSE artistArray
  /\ pc' = "reload"
  /\ UNCHANGED <<user, network, artist, reply, events, screen, outcomes, trapped>>

SetArray ==
  /\ Alive /\ pc = "array"
  /\ artistArray' = reply.list
  /\ pc' = "reload"
  /\ UNCHANGED <<user, network, artist, reply, events, screen, outcomes, trapped>>

AskReloadIfAny ==
  /\ Alive /\ pc = "reload"
  /\ events' = IF reply.list = NoList THEN events ELSE Append(events, Reload)
  /\ reply' = NoReply /\ pc' = "idle"
  /\ UNCHANGED <<user, network, results, screen, outcomes, trapped>>

AskReload ==
  /\ Alive /\ pc = "reload"
  /\ events' = Append(events, Reload)
  /\ reply' = NoReply /\ pc' = "idle"
  /\ UNCHANGED <<user, network, results, screen, outcomes, trapped>>

----------------------------------------------------------------------------
User ==
  \/ \E text \in Texts : Type(text)
  \/ \E i \in 0..MaxItems - 1 : ShowCell(i) \/ Tap(i)

Main == FireDebounce \/ RunEvent \/ Layout
Net == SetArtist \/ SetArray \/ AskReload
Reply(q) == ReplyFailed(q) \/ ReplyDecoded(q)

Next ==
  \/ User \/ Main \/ Net
  \/ \E q \in Ids : Reply(q)
  \/ \E S \in SUBSET inFlight : Drop(S)

Spec == Init /\ [][Next]_vars

----------------------------------------------------------------------------
TypeOK ==
  /\ field \in Texts /\ typed \in 0..MaxTyped /\ pending \in Texts \cup {NoText}
  /\ queries \in Seq(Texts) /\ Newest <= typed /\ inFlight \subseteq Ids
  /\ artist \in Lists \cup {NoList} /\ artistArray \in Lists \cup {NoList}
  /\ reply \in [query : 0..MaxTyped, list : Lists \cup {NoList}]
  /\ pc \in {"idle", "artist", "array", "reload"}
  /\ events \in Seq([kind : {"loading", "reload"}, on : BOOLEAN])
  /\ loader \in BOOLEAN /\ needsLayout \in BOOLEAN
  /\ rows \in 0..MaxItems /\ shownOf \in 0..MaxTyped
  /\ lastReply \in 0..MaxTyped /\ overtaken \in BOOLEAN
  /\ dropped \subseteq Ids /\ failed \subseteq Ids
  /\ trapped \in {"no", "cell", "tap"}

(* Between a new result and the grid that shows it: the reply is being        *)
(* written, or its reload is queued, or the layout pass is due.               *)
Reloading == pc \in {"array", "reload"} \/ needsLayout \/ \E i \in DOMAIN events : events[i] = Reload

Settled ==
  /\ Alive /\ pending = NoText /\ inFlight = {}
  /\ pc = "idle" /\ events = <<>> /\ ~needsLayout

(* Once typing and replies are over, the grid shows the answer to the text in *)
(* the search bar, and a tap is looked up in that same answer, unless that    *)
(* last query got none, or the last answer written was an older query's       *)
(* (overtaken), which is then what the grid shows.                            *)
SettledShowsField ==
  Settled /\ queries # <<>> /\ ~overtaken /\ Newest \notin dropped \cup failed =>
    /\ queries[Newest] = field
    /\ artist = artistArray /\ rows = NumberOfItems
    /\ artist # NoList => artist.of = Newest

(* However the loading events of the two threads interleave, the spinner is    *)
(* off when nothing is left to wait for; a query that is silently not sent is  *)
(* what leaves it on.                                                          *)
SpinnerRests == Settled /\ dropped = {} => ~loader

(* The grid believes in more rows than there are artists only while the reload *)
(* that takes them away is under way.                                          *)
RowsBackedOrReloading == Alive => rows <= NumberOfItems \/ Reloading

(* Outside that window a tap that is looked up finds the artist on the cell:   *)
(* the two copies of the result never settle on different queries.             *)
TapOpensShown ==
  Alive /\ ~Reloading /\ rows > 0 /\ artistArray \notin {NoList, EmptyList} =>
    artistArray.of = shownOf /\ rows <= artistArray.n

(* `artist!.items[index]` asserts that every row the grid asks for exists. *)
CellRowExists == trapped # "cell"

(* `artistArray[indexPath.row]` asserts that the tapped row has an artist; here *)
(* of the taps in a grid that has nothing to reload and has been laid out.     *)
TappedRowExists == trapped = "tap" => Reloading
=============================================================================
