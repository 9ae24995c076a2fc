-------------------------- MODULE SearchViewModelProofs --------------------------
(* What the artist search guarantees for any texts, edits and result lists. *)
EXTENDS SearchViewModel, TLAPS

Event == [kind : {"loading", "reload"}, on : BOOLEAN]

(* No more queries than edits, counting the text the debounce holds; and what  *)
(* is held, or was queried last, is what the field says.                       *)
FieldInv ==
  /\ Newest + (IF pending = NoText THEN 0 ELSE 1) <= typed
  /\ pending # NoText => pending = field
  /\ pending = NoText /\ queries # <<>> => queries[Newest] = field

(* The grid shows the artist list as it is, or a reload is on its way. *)
GridInv ==
  Reloading \/ (rows = NumberOfItems /\ shownOf = IF artist = NoList THEN 0 ELSE artist.of)

(* The two copies of a result differ only while it is being written, or when   *)
(* the second has been emptied since.                                          *)
CopiesInv ==
  /\ pc \in {"array", "reload"} => artist = reply.list
  /\ pc # "array" => artistArray \in {artist, EmptyList}

(* When the newest query has been answered and the last answer is not an older *)
(* query's, its answer is being written, or stands in both copies.             *)
Answered == queries # <<>> /\ ~overtaken /\ Newest \notin inFlight \cup dropped \cup failed

AnswerInv ==
  /\ lastReply <= Newest
  /\ queries # <<>> /\ Newest \notin inFlight \cup dropped \cup failed => lastReply = Newest
  /\ Answered =>
       /\ pc # "idle" /\ reply.list # NoList => reply.list.of = Newest
       /\ pc = "idle" /\ artist # NoList => artist.of = Newest
       /\ pending = NoText /\ pc \in {"idle", "reload"} => artistArray = artist

(* The last word on the spinner is off, unless an answer is still to come. *)
LastWordOff ==
  \/ ~loader /\ \A i \in DOMAIN events : events[i].kind # "loading"
  \/ \E i \in DOMAIN events :
       events[i] = Spin(FALSE) /\ \A j \in DOMAIN events : j > i => events[j].kind # "loading"

SpinnerInv == inFlight # {} \/ dropped # {} \/ LastWordOff

----------------------------------------------------------------------------
(* What the operations on sequences do: append, ... *)
LEMMA Appended ==
  ASSUME NEW S, NEW s \in Seq(S), NEW x \in S
  PROVE  /\ Append(s, x) \in Seq(S) /\ Len(Append(s, x)) = Len(s) + 1
         /\ DOMAIN Append(s, x) = DOMAIN s \cup {Len(s) + 1}
         /\ Append(s, x)[Len(s) + 1] = x /\ \A i \in DOMAIN s : Append(s, x)[i] = s[i]
<1>. QED  OBVIOUS

(* ... make a sequence of one, ... *)
LEMMA Single ==
  ASSUME NEW S, NEW x \in S
  PROVE  <<x>> \in Seq(S) /\ <<>> \in Seq(S)
<1>. QED  OBVIOUS

(* ... concatenate, ... *)
LEMMA Concatenated ==
  ASSUME NEW S, NEW s \in Seq(S), NEW t \in Seq(S)
  PROVE  /\ s \o t \in Seq(S)
         /\ DOMAIN s \subseteq DOMAIN (s \o t) /\ \A i \in DOMAIN s : (s \o t)[i] = s[i]
<1>. QED  OBVIOUS

(* ... and take the first. *)
LEMMA Served ==
  ASSUME NEW S, NEW s \in Seq(S), s # <<>>
  PROVE  /\ Head(s) \in S /\ Head(s) = s[1] /\ 1 \in DOMAIN s
         /\ Tail(s) \in Seq(S) /\ Len(s) \in Nat
         /\ \A i \in DOMAIN Tail(s) : i + 1 \in DOMAIN s /\ Tail(s)[i] = s[i + 1]
         /\ \A i \in DOMAIN s : i # 1 => i - 1 \in DOMAIN Tail(s) /\ Tail(s)[i - 1] = s[i]
<1>. QED  OBVIOUS

(* The two events of a search are events. *)
LEMMA EventsType == Spin(TRUE) \in Event /\ Spin(FALSE) \in Event /\ Reload \in Event
<1>. QED  BY DEF Event, Spin, Reload

(* The event that stops the spinner comes behind the queued ones. *)
LEMMA Stopped ==
  ASSUME NEW s \in Seq(Event)
  PROVE  /\ DOMAIN Append(s, Spin(FALSE)) = DOMAIN s \cup {Len(s) + 1}
         /\ Append(s, Spin(FALSE))[Len(s) + 1] = Spin(FALSE)
         /\ \A i \in DOMAIN s : Append(s, Spin(FALSE))[i] = s[i]
<1>1. PICK off \in Event : off = Spin(FALSE)
  BY EventsType
<1>2. /\ DOMAIN Append(s, off) = DOMAIN s \cup {Len(s) + 1}
      /\ Append(s, off)[Len(s) + 1] = off /\ \A i \in DOMAIN s : Append(s, off)[i] = s[i]
  BY Appended
<1>. QED  BY <1>1, <1>2

(* The events of a fired debounce, run at once or queued behind the others. *)
LEMMA FireType ==
  ASSUME events \in Seq(Event), loader \in BOOLEAN, needsLayout \in BOOLEAN, FireEvents
  PROVE  /\ events' \in Seq(Event) /\ loader' \in BOOLEAN /\ needsLayout' \in BOOLEAN
         /\ needsLayout => needsLayout'
         /\ DOMAIN events \subseteq DOMAIN events' /\ \A i \in DOMAIN events : events'[i] = events[i]
<1>1. CASE events = <<>>
  BY <1>1 DEF FireEvents
<1>2. CASE events # <<>>
  <2>. DEFINE ask == IF pending = Empty THEN <<Reload>> ELSE <<>>
  <2>1. ask \in Seq(Event) /\ <<Spin(TRUE)>> \in Seq(Event)
    <3>1. <<Reload>> \in Seq(Event) /\ <<Spin(TRUE)>> \in Seq(Event) /\ <<>> \in Seq(Event)
      BY EventsType, Single
    <3>. QED  BY <3>1
  <2>2. events' = (events \o <<Spin(TRUE)>>) \o ask /\ UNCHANGED <<loader, needsLayout>>
    BY <1>2 DEF FireEvents
  <2>3. events \o <<Spin(TRUE)>> \in Seq(Event)
    BY <2>1, Concatenated
  <2>. HIDE DEF ask
  <2>4. events' \in Seq(Event)
    BY <2>1, <2>2, <2>3, Concatenated
  <2>5. /\ DOMAIN events \subseteq DOMAIN (events \o <<Spin(TRUE)>>)
        /\ \A i \in DOMAIN events : (events \o <<Spin(TRUE)>>)[i] = events[i]
    BY <2>1, Concatenated
  <2>6. /\ DOMAIN (events \o <<Spin(TRUE)>>) \subseteq DOMAIN events'
        /\ \A i \in DOMAIN (events \o <<Spin(TRUE)>>) : events'[i] = (events \o <<Spin(TRUE)>>)[i]
    BY <2>1, <2>2, <2>3, Concatenated
  <2>. QED  BY <2>2, <2>4, <2>5, <2>6
<1>. QED  BY <1>1, <1>2

(* A search screen that was just opened is typed. *)
LEMMA TypeInit == Init => TypeOK /\ FieldInv
<1>. SUFFICES ASSUME Init PROVE TypeOK /\ FieldInv
  OBVIOUS
<1>. USE TextsAssumption, BoundsAssumption DEF Init
<1>1. /\ reply \in [query : 0..MaxTyped, list : Lists \cup {NoList}]
      /\ artist \in Lists \cup {NoList} /\ artistArray \in Lists \cup {NoList}
  BY DEF NoReply
<1>2. queries \in Seq(Texts) /\ events \in Seq([kind : {"loading", "reload"}, on : BOOLEAN])
  OBVIOUS
<1>3. inFlight \subseteq Ids /\ dropped \subseteq Ids /\ failed \subseteq Ids /\ Newest <= typed
  BY DEF Ids, Newest
<1>4. FieldInv
  BY DEF FieldInv, Newest
<1>5. /\ field \in Texts /\ typed \in 0..MaxTyped /\ pending \in Texts \cup {NoText}
      /\ rows \in 0..MaxItems /\ shownOf \in 0..MaxTyped /\ lastReply \in 0..MaxTyped
  OBVIOUS
<1>. QED  BY <1>1, <1>2, <1>3, <1>4, <1>5 DEF TypeOK

(* The edits, queries, replies and layouts keep the types. *)
LEMMA TypeStep == TypeOK /\ FieldInv /\ [Next]_vars => TypeOK' /\ FieldInv'
<1>. SUFFICES ASSUME TypeOK, FieldInv, [Next]_vars PROVE TypeOK' /\ FieldInv'
  OBVIOUS
<1>0. /\ events \in Seq(Event) /\ Len(queries) \in Nat /\ DOMAIN queries = 1..Len(queries)
      /\ EmptyList \in Lists
  BY BoundsAssumption DEF TypeOK, Event, EmptyList, Lists
<1>. USE <1>0, TextsAssumption, BoundsAssumption
     DEF TypeOK, FieldInv, Ids, Newest, user, network, results, screen, outcomes, Alive, NoReply
<1>1. ASSUME NEW text \in Texts, Type(text) PROVE TypeOK' /\ FieldInv'
  <2>1. artistArray' \in Lists \cup {NoList} /\ needsLayout' \in BOOLEAN
    BY <1>1 DEF Type
  <2>2. /\ field' = text /\ pending' = text /\ typed' = typed + 1 /\ typed' \in 0..MaxTyped
        /\ UNCHANGED queries
    BY <1>1 DEF Type
  <2>3. FieldInv'
    BY <2>2
  <2>. QED  BY <1>1, <2>1, <2>2, <2>3 DEF Type
<1>2. ASSUME NEW i \in 0..MaxItems - 1, ShowCell(i) PROVE TypeOK' /\ FieldInv'
  BY <1>2 DEF ShowCell
<1>3. ASSUME NEW i \in 0..MaxItems - 1, Tap(i) PROVE TypeOK' /\ FieldInv'
  BY <1>3 DEF Tap
<1>4. CASE FireDebounce
  <2>1. events' \in Seq(Event) /\ loader' \in BOOLEAN /\ needsLayout' \in BOOLEAN
    BY <1>4, FireType DEF FireDebounce
  <2>2. /\ queries' \in Seq(Texts) /\ Len(queries') = Len(queries) + 1
        /\ queries'[Len(queries')] = pending /\ DOMAIN queries' = 1..Len(queries) + 1
    BY <1>4, Appended DEF FireDebounce
  <2>3. pending' = NoText /\ field' = field /\ typed' = typed /\ Len(queries) + 1 <= typed
    BY <1>4 DEF FireDebounce
  <2>4. FieldInv'
    BY <1>4, <2>2, <2>3
  <2>5. inFlight' \subseteq 1..Len(queries) + 1 /\ dropped' \subseteq 1..Len(queries) + 1
          /\ failed' \subseteq 1..Len(queries) + 1
    BY <1>4 DEF FireDebounce
  <2>. QED  BY <1>4, <2>1, <2>2, <2>3, <2>4, <2>5 DEF FireDebounce, Event
<1>5. CASE RunEvent
  <2>1. Head(events) \in Event /\ events' \in Seq(Event)
    BY <1>5, Served DEF RunEvent
  <2>2. loader' \in BOOLEAN /\ needsLayout' \in BOOLEAN
    BY <1>5, <2>1 DEF RunEvent, Event
  <2>. QED  BY <1>5, <2>1, <2>2 DEF RunEvent, Event
<1>6. CASE Layout
  <2>1. rows' \in 0..MaxItems /\ shownOf' \in 0..MaxTyped
    BY <1>6 DEF Layout, NumberOfItems, Lists
  <2>. QED  BY <1>6, <2>1 DEF Layout
<1>7. CASE SetArtist
  BY <1>7 DEF SetArtist
<1>8. CASE SetArray
  BY <1>8 DEF SetArray
<1>9. CASE AskReload
  <2>1. events' \in Seq(Event)
    BY <1>9, EventsType, Appended DEF AskReload
  <2>. QED  BY <1>9, <2>1 DEF AskReload, Event
<1>10. ASSUME NEW q \in Ids, ReplyFailed(q) PROVE TypeOK' /\ FieldInv'
  <2>1. events' \in Seq(Event)
    BY <1>10, EventsType, Appended DEF ReplyFailed
  <2>3. lastReply' \in 0..MaxTyped /\ overtaken' \in BOOLEAN /\ inFlight' \subseteq Ids
    BY <1>10 DEF ReplyFailed
  <2>4. failed' \subseteq Ids
    BY <1>10 DEF ReplyFailed
  <2>5. /\ UNCHANGED <<user, queries, results, reply, pc, screen, dropped, trapped>>
        /\ FieldInv'
    BY <1>10 DEF ReplyFailed
  <2>. QED  BY <2>1, <2>3, <2>4, <2>5 DEF Event
<1>11. ASSUME NEW q \in Ids, ReplyDecoded(q) PROVE TypeOK' /\ FieldInv'
  <2>1. events' \in Seq(Event)
    BY <1>11, EventsType, Appended DEF ReplyDecoded
  <2>3. lastReply' \in 0..MaxTyped /\ overtaken' \in BOOLEAN /\ inFlight' \subseteq Ids
    BY <1>11 DEF ReplyDecoded
  <2>2. reply' \in [query : 0..MaxTyped, list : Lists \cup {NoList}]
    BY <1>11 DEF ReplyDecoded, Lists
  <2>4. /\ UNCHANGED <<user, queries, results, screen, dropped, failed, trapped>>
        /\ pc' = "artist" /\ FieldInv'
    BY <1>11 DEF ReplyDecoded
  <2>. QED  BY <2>1, <2>2, <2>3, <2>4 DEF Event
<1>12. ASSUME NEW S \in SUBSET inFlight, Drop(S) PROVE TypeOK' /\ FieldInv'
  BY <1>12 DEF Drop
<1>13. CASE UNCHANGED vars
  BY <1>13 DEF vars
<1>. QED
  BY <1>1, <1>2, <1>3, <1>4, <1>5, <1>6, <1>7, <1>8, <1>9, <1>10, <1>11, <1>12, <1>13
  DEF Next, User, Main, Net, Reply

----------------------------------------------------------------------------
(* The grid starts empty. *)
LEMMA GridInit == Init => GridInv
<1>. QED  BY DEF Init, GridInv, NumberOfItems

(* The list changes only in front of a reload, and a reload is used up only by *)
(* the layout that reads the list.                                             *)
LEMMA GridStep == TypeOK /\ GridInv /\ [Next]_vars => GridInv'
<1>. SUFFICES ASSUME TypeOK, GridInv, [Next]_vars PROVE GridInv'
  OBVIOUS
<1>0. events \in Seq(Event) /\ loader \in BOOLEAN /\ needsLayout \in BOOLEAN
  BY DEF TypeOK, Event
<1>. USE <1>0 DEF GridInv, NumberOfItems, user, network, results, screen, outcomes, Alive
<1>1. ASSUME NEW text \in Texts, Type(text) PROVE GridInv'
  BY <1>1 DEF Type, Reloading
<1>2. ASSUME NEW i \in 0..MaxItems - 1, ShowCell(i) PROVE GridInv'
  BY <1>2 DEF ShowCell, Reloading
<1>3. ASSUME NEW i \in 0..MaxItems - 1, Tap(i) PROVE GridInv'
  BY <1>3 DEF Tap, Reloading
<1>4. CASE FireDebounce
  <2>1. Reloading => Reloading'
    <3>1. ASSUME NEW i \in DOMAIN events, events[i] = Reload PROVE Reloading'
      <4>1. i \in DOMAIN events' /\ events'[i] = Reload
        BY <1>4, <3>1, FireType DEF FireDebounce
      <4>. QED  BY <4>1 DEF Reloading, Reload
    <3>2. needsLayout => needsLayout'
      BY <1>4, FireType DEF FireDebounce
    <3>. QED  BY <1>4, <3>1, <3>2 DEF FireDebounce, Reloading
  <2>. QED  BY <1>4, <2>1 DEF FireDebounce
<1>5. CASE RunEvent
  <2>1. CASE Head(events) = Reload
    BY <1>5, <2>1 DEF RunEvent, Reload, Reloading
  <2>2. CASE Head(events) # Reload
    <3>1. ASSUME NEW i \in DOMAIN events, events[i] = Reload PROVE Reloading'
      <4>1. i # 1 /\ i - 1 \in DOMAIN events' /\ events'[i - 1] = Reload
        BY <1>5, <2>2, <3>1, Served DEF RunEvent
      <4>. QED  BY <4>1 DEF Reloading
    <3>2. needsLayout => needsLayout'
      BY <1>5 DEF RunEvent
    <3>. QED  BY <1>5, <3>1, <3>2 DEF RunEvent, Reloading
  <2>. QED  BY <2>1, <2>2
<1>6. CASE Layout
  BY <1>6 DEF Layout
<1>7. CASE SetArtist
  BY <1>7 DEF SetArtist, Reloading
<1>8. CASE SetArray
  BY <1>8 DEF SetArray, Reloading
<1>9. CASE AskReload
  <2>1. Len(events) + 1 \in DOMAIN events' /\ events'[Len(events) + 1] = Reload
    BY <1>9, EventsType, Appended DEF AskReload
  <2>. QED  BY <2>1 DEF Reloading
<1>10. ASSUME NEW q \in Ids, ReplyFailed(q) PROVE GridInv'
  <2>0. events' = Append(events, Spin(FALSE))
    BY <1>10 DEF ReplyFailed
  <2>1. Reloading => Reloading'
    <3>1. ASSUME NEW i \in DOMAIN events, events[i] = Reload PROVE Reloading'
      <4>1. i \in DOMAIN events' /\ events'[i] = Reload
        BY <2>0, <3>1, Stopped
      <4>. QED  BY <4>1 DEF Reloading, Reload
    <3>2. needsLayout => needsLayout'
      BY <1>10 DEF ReplyFailed
    <3>. QED  BY <1>10, <3>1, <3>2 DEF ReplyFailed, Reloading
  <2>. QED  BY <1>10, <2>1 DEF ReplyFailed
<1>11. ASSUME NEW q \in Ids, ReplyDecoded(q) PROVE GridInv'
  <2>0. events' = Append(events, Spin(FALSE))
    BY <1>11 DEF ReplyDecoded
  <2>1. Reloading => Reloading'
    <3>1. ASSUME NEW i \in DOMAIN events, events[i] = Reload PROVE Reloading'
      <4>1. i \in DOMAIN events' /\ events'[i] = Reload
        BY <2>0, <3>1, Stopped
      <4>. QED  BY <4>1 DEF Reloading, Reload
    <3>2. needsLayout => needsLayout'
      BY <1>11 DEF ReplyDecoded
    <3>. QED  BY <1>11, <3>1, <3>2 DEF ReplyDecoded, Reloading
  <2>. QED  BY <1>11, <2>1 DEF ReplyDecoded
<1>12. ASSUME NEW S \in SUBSET inFlight, Drop(S) PROVE GridInv'
  BY <1>12 DEF Drop, Reloading
<1>13. CASE UNCHANGED vars
  BY <1>13 DEF vars, Reloading
<1>. QED
  BY <1>1, <1>2, <1>3, <1>4, <1>5, <1>6, <1>7, <1>8, <1>9, <1>10, <1>11, <1>12, <1>13
  DEF Next, User, Main, Net, Reply

(* There is no result yet. *)
LEMMA CopiesInit == Init => CopiesInv
<1>. QED  BY DEF Init, CopiesInv

(* A reply writes both copies, one after the other; the field, and the         *)
(* debounce, only empty the second.                                            *)
LEMMA CopiesStep == TypeOK /\ CopiesInv /\ [Next]_vars => CopiesInv'
<1>. SUFFICES ASSUME TypeOK, CopiesInv, [Next]_vars PROVE CopiesInv'
  OBVIOUS
<1>0. pc \in {"idle", "artist", "array", "reload"}
  BY DEF TypeOK
<1>. USE <1>0 DEF CopiesInv, user, network, results, screen, outcomes, Alive
<1>1. ASSUME NEW text \in Texts, Type(text) PROVE CopiesInv'
  BY <1>1 DEF Type
<1>2. ASSUME NEW i \in 0..MaxItems - 1, ShowCell(i) PROVE CopiesInv'
  BY <1>2 DEF ShowCell
<1>3. ASSUME NEW i \in 0..MaxItems - 1, Tap(i) PROVE CopiesInv'
  BY <1>3 DEF Tap
<1>4. CASE FireDebounce
  BY <1>4 DEF FireDebounce
<1>5. CASE RunEvent
  BY <1>5 DEF RunEvent
<1>6. CASE Layout
  BY <1>6 DEF Layout
<1>7. CASE SetArtist
  BY <1>7 DEF SetArtist
<1>8. CASE SetArray
  BY <1>8 DEF SetArray
<1>9. CASE AskReload
  BY <1>9 DEF AskReload
<1>10. ASSUME NEW q \in Ids, ReplyFailed(q) PROVE CopiesInv'
  BY <1>10 DEF ReplyFailed
<1>11. ASSUME NEW q \in Ids, ReplyDecoded(q) PROVE CopiesInv'
  BY <1>11 DEF ReplyDecoded
<1>12. ASSUME NEW S \in SUBSET inFlight, Drop(S) PROVE CopiesInv'
  BY <1>12 DEF Drop
<1>13. CASE UNCHANGED vars
  BY <1>13 DEF vars
<1>. QED
  BY <1>1, <1>2, <1>3, <1>4, <1>5, <1>6, <1>7, <1>8, <1>9, <1>10, <1>11, <1>12, <1>13
  DEF Next, User, Main, Net, Reply

(* Nothing was queried, hence nothing answered. *)
LEMMA AnswerInit == Init => AnswerInv
<1>. QED  BY DEF Init, AnswerInv, Answered, Newest

(* A new query is in flight; a reply that comes after that to the newest query *)
(* is overtaken.                                                               *)
LEMMA AnswerStep ==
  TypeOK /\ FieldInv /\ CopiesInv /\ AnswerInv /\ [Next]_vars => AnswerInv'
<1>. SUFFICES ASSUME TypeOK, FieldInv, CopiesInv, AnswerInv, [Next]_vars PROVE AnswerInv'
  OBVIOUS
<1>0. /\ queries \in Seq(Texts) /\ Newest \in Nat /\ Ids = 1..Newest /\ inFlight \subseteq Ids
      /\ pc \in {"idle", "artist", "array", "reload"}
      /\ lastReply \in Nat /\ overtaken \in BOOLEAN /\ (queries # <<>> <=> Newest > 0)
      /\ NoText \notin Texts
  BY TextsAssumption DEF TypeOK, Newest, Ids
<1>1a. UNCHANGED queries => UNCHANGED Newest
  BY DEF Newest
<1>. USE <1>0, <1>1a
     DEF CopiesInv, AnswerInv, Answered, user, network, results, screen, outcomes, Alive
<1>1. ASSUME NEW text \in Texts, Type(text) PROVE AnswerInv'
  BY <1>1 DEF Type
<1>2. ASSUME NEW i \in 0..MaxItems - 1, ShowCell(i) PROVE AnswerInv'
  BY <1>2 DEF ShowCell
<1>3. ASSUME NEW i \in 0..MaxItems - 1, Tap(i) PROVE AnswerInv'
  BY <1>3 DEF Tap
<1>4. CASE FireDebounce
  <2>1. queries' \in Seq(Texts) /\ Newest' = Newest + 1 /\ Newest' \in inFlight'
    BY <1>4, Appended DEF FireDebounce, TypeOK, Newest
  <2>. QED  BY <1>4, <2>1 DEF FireDebounce
<1>5. CASE RunEvent
  BY <1>5 DEF RunEvent
<1>6. CASE Layout
  BY <1>6 DEF Layout
<1>7. CASE SetArtist
  BY <1>7 DEF SetArtist
<1>8. CASE SetArray
  BY <1>8 DEF SetArray
<1>9. CASE AskReload
  BY <1>9 DEF AskReload
<1>10. ASSUME NEW q \in Ids, ReplyFailed(q) PROVE AnswerInv'
  BY <1>10 DEF ReplyFailed
<1>11. ASSUME NEW q \in Ids, ReplyDecoded(q) PROVE AnswerInv'
  <2>1. reply'.list # NoList => reply'.list.of = q
    BY <1>11 DEF ReplyDecoded
  <2>2. /\ lastReply' = IF q > lastReply THEN q ELSE lastReply
        /\ overtaken' = (q < lastReply) /\ inFlight' = inFlight \ {q}
        /\ q \in inFlight /\ q \in 1..Newest
        /\ UNCHANGED <<queries, Newest, dropped, failed>> /\ pc' = "artist"
    BY <1>11 DEF ReplyDecoded
  <2>3. CASE q = Newest
    BY <2>1, <2>2, <2>3
  <2>4. CASE q # Newest
    <3>1. ASSUME Newest \notin inFlight \cup dropped \cup failed, queries # <<>>
          PROVE  lastReply = Newest /\ overtaken'
      <4>1. lastReply = Newest
        BY <3>1
      <4>2. q < lastReply
        BY <2>2, <2>4, <4>1
      <4>. QED  BY <2>2, <4>1, <4>2
    <3>2. lastReply' <= Newest'
      BY <2>2
    <3>. QED  BY <2>1, <2>2, <2>4, <3>1, <3>2
  <2>. QED  BY <2>3, <2>4
<1>12. ASSUME NEW S \in SUBSET inFlight, Drop(S) PROVE AnswerInv'
  BY <1>12 DEF Drop
<1>13. CASE UNCHANGED vars
  BY <1>13 DEF vars
<1>. QED
  BY <1>1, <1>2, <1>3, <1>4, <1>5, <1>6, <1>7, <1>8, <1>9, <1>10, <1>11, <1>12, <1>13
  DEF Next, User, Main, Net, Reply

(* The spinner is off. *)
LEMMA SpinnerInit == Init => SpinnerInv
<1>. QED  BY DEF Init, SpinnerInv, LastWordOff

(* A query is in flight when the spinner is told to turn, and every reply      *)
(* tells it to stop, behind everything it was told before.                     *)
LEMMA SpinnerStep == TypeOK /\ SpinnerInv /\ [Next]_vars => SpinnerInv'
<1>. SUFFICES ASSUME TypeOK, SpinnerInv, [Next]_vars PROVE SpinnerInv'
  OBVIOUS
<1>0. events \in Seq(Event) /\ loader \in BOOLEAN /\ Len(events) \in Nat /\ DOMAIN events = 1..Len(events)
  BY DEF TypeOK, Event
<1>. USE <1>0 DEF SpinnerInv, user, network, results, screen, outcomes, Alive
<1>1. ASSUME NEW text \in Texts, Type(text) PROVE SpinnerInv'
  BY <1>1 DEF Type, LastWordOff
<1>2. ASSUME NEW i \in 0..MaxItems - 1, ShowCell(i) PROVE SpinnerInv'
  BY <1>2 DEF ShowCell, LastWordOff
<1>3. ASSUME NEW i \in 0..MaxItems - 1, Tap(i) PROVE SpinnerInv'
  BY <1>3 DEF Tap, LastWordOff
<1>4. CASE FireDebounce
  <2>1. inFlight' # {}
    BY <1>4 DEF FireDebounce
  <2>. QED  BY <2>1
<1>5. CASE RunEvent
  <2>0. /\ Head(events) = events[1] /\ DOMAIN events' = 1..Len(events) - 1 /\ Len(events) >= 1
        /\ \A i \in DOMAIN events' : events'[i] = events[i + 1]
        /\ \A i \in DOMAIN events : i # 1 => i - 1 \in DOMAIN events' /\ events'[i - 1] = events[i]
    BY <1>5, Served DEF RunEvent
  <2>. SUFFICES ASSUME LastWordOff PROVE LastWordOff'
    BY <1>5 DEF RunEvent
  <2>1. CASE ~loader /\ \A i \in DOMAIN events : events[i].kind # "loading"
    BY <1>5, <2>0, <2>1 DEF RunEvent, LastWordOff, Spin
  <2>2. ASSUME NEW i \in DOMAIN events, events[i] = Spin(FALSE),
               \A j \in DOMAIN events : j > i => events[j].kind # "loading"
        PROVE  LastWordOff'
    <3>1. CASE i = 1
      <4>1. loader' = FALSE
        BY <1>5, <2>0, <2>2, <3>1 DEF RunEvent, Spin
      <4>. QED  BY <2>0, <2>2, <3>1, <4>1 DEF LastWordOff, Spin
    <3>2. CASE i # 1
      <4>1. i - 1 \in DOMAIN events' /\ events'[i - 1] = Spin(FALSE)
        BY <2>0, <2>2, <3>2
      <4>2. \A j \in DOMAIN events' : j > i - 1 => events'[j].kind # "loading"
        BY <2>0, <2>2, <3>2
      <4>. QED  BY <4>1, <4>2 DEF LastWordOff, Spin
    <3>. QED  BY <3>1, <3>2
  <2>. QED  BY <2>1, <2>2 DEF LastWordOff
<1>6. CASE Layout
  BY <1>6 DEF Layout, LastWordOff
<1>7. CASE SetArtist
  BY <1>7 DEF SetArtist, LastWordOff
<1>8. CASE SetArray
  BY <1>8 DEF SetArray, LastWordOff
<1>9. CASE AskReload
  <2>1. /\ DOMAIN events' = 1..Len(events) + 1 /\ events'[Len(events) + 1].kind # "loading"
        /\ \A i \in DOMAIN events : events'[i] = events[i]
    BY <1>9, EventsType, Appended DEF AskReload, Reload
  <2>. QED  BY <1>9, <2>1 DEF AskReload, LastWordOff, Spin
<1>10. ASSUME NEW q \in Ids, ReplyFailed(q) PROVE SpinnerInv'
  <2>1. /\ events' = Append(events, Spin(FALSE)) /\ DOMAIN events' = DOMAIN events \cup {Len(events) + 1}
        /\ events'[Len(events) + 1] = Spin(FALSE)
    <3>1. events' = Append(events, Spin(FALSE))
      BY <1>10 DEF ReplyFailed
    <3>. QED  BY <3>1, Stopped
  <2>. QED  BY <2>1 DEF LastWordOff, Spin
<1>11. ASSUME NEW q \in Ids, ReplyDecoded(q) PROVE SpinnerInv'
  <2>1. /\ events' = Append(events, Spin(FALSE)) /\ DOMAIN events' = DOMAIN events \cup {Len(events) + 1}
        /\ events'[Len(events) + 1] = Spin(FALSE)
    <3>1. events' = Append(events, Spin(FALSE))
      BY <1>11 DEF ReplyDecoded
    <3>. QED  BY <3>1, Stopped
  <2>. QED  BY <2>1 DEF LastWordOff, Spin
<1>12. ASSUME NEW S \in SUBSET inFlight, Drop(S) PROVE SpinnerInv'
  BY <1>12 DEF Drop, LastWordOff
<1>13. CASE UNCHANGED vars
  BY <1>13 DEF vars, LastWordOff
<1>. QED
  BY <1>1, <1>2, <1>3, <1>4, <1>5, <1>6, <1>7, <1>8, <1>9, <1>10, <1>11, <1>12, <1>13
  DEF Next, User, Main, Net, Reply

----------------------------------------------------------------------------
(* The search stays typed for any texts, edits and lists. *)
THEOREM TypeCorrect == Spec => []TypeOK
<1>. QED  BY TypeInit, TypeStep, PTL DEF Spec

(* The grid believes in rows that are gone only while their reload is due. *)
THEOREM RowsBacked == Spec => []RowsBackedOrReloading
<1>1. TypeOK /\ FieldInv /\ GridInv => RowsBackedOrReloading
  BY BoundsAssumption DEF TypeOK, GridInv, RowsBackedOrReloading, NumberOfItems, Lists
<1>. QED  BY TypeInit, TypeStep, GridInit, GridStep, <1>1, PTL DEF Spec

(* Outside that window a tap that is looked up finds the artist of its cell. *)
THEOREM TapsOpenShown == Spec => []TapOpensShown
<1>1. TypeOK /\ FieldInv /\ GridInv /\ CopiesInv => TapOpensShown
  BY BoundsAssumption
  DEF TypeOK, GridInv, CopiesInv, TapOpensShown, Reloading, NumberOfItems, Lists
<1>. QED
  BY TypeInit, TypeStep, GridInit, GridStep, CopiesInit, CopiesStep, <1>1, PTL DEF Spec

(* The spinner is off when nothing is left to wait for, unless a query was     *)
(* silently not sent.                                                          *)
THEOREM SpinnerComesToRest == Spec => []SpinnerRests
<1>1. TypeOK /\ FieldInv /\ SpinnerInv => SpinnerRests
  BY DEF SpinnerInv, LastWordOff, SpinnerRests, Settled
<1>. QED  BY TypeInit, TypeStep, SpinnerInit, SpinnerStep, <1>1, PTL DEF Spec

(* The search settles on the answer to the text in the field, unless that      *)
(* query got none or an older one's reply came after it.                       *)
THEOREM SettlesOnField == Spec => []SettledShowsField
<1>1. TypeOK /\ FieldInv /\ GridInv /\ CopiesInv /\ AnswerInv => SettledShowsField
  BY DEF TypeOK, FieldInv, GridInv, AnswerInv, Answered, SettledShowsField, Settled, Reloading
<1>. QED
  BY TypeInit, TypeStep, GridInit, GridStep, CopiesInit, CopiesStep, AnswerInit, AnswerStep,
     <1>1, PTL DEF Spec
================================================================================
