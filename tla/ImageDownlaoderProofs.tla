-------------------------- MODULE ImageDownlaoderProofs --------------------------
(* What the image loader guarantees for any cells, headers, urls and number of   *)
(* tasks.                                                                        *)
EXTENDS ImageDownlaoder, TLAPS

Handler == [view : Views, image : Urls \cup {NoUrl}]
Completed == [task : Ids, image : Urls \cup {NoUrl}]

Without(events) == history \cap events = {}
Live(t) == tasks[t].status \in {"created", "running"}
Quiet(v) == pc["main"] \in {"find", "cancel", "erase", "populate"} => view # v

(* What each step of a thread has at hand. *)
LocalInv ==
  /\ pc["main"] \in Steps \ {"cache", "remove", "post"}
  /\ pc["net"] \in {"idle", "cache", "remove", "post"}
  /\ (pc["net"] = "idle") <=> (reply = NoReply)
  /\ pc["main"] # "idle" => view \in Views
  /\ pc["main"] \in {"find", "cancel", "erase"} => view \in Cells /\ imageUrl[view] \in Urls
  /\ pc["main"] \in {"cancel", "erase"} => found \in Ids
  /\ pc["main"] \in {"lookup", "register", "resume"} => url \in Urls
  /\ pc["main"] = "resume" => Len(tasks) > 0

(* An entry, and a task found by it, is for the url it was found under. *)
EntryInv ==
  /\ \A u \in Urls : imagesDownloadTasks[u] # NoTask => tasks[imagesDownloadTasks[u]].url = u
  /\ pc["main"] \in {"cancel", "erase"} => tasks[found].url = imageUrl[view]
  /\ \A t \in Ids : tasks[t].status = "created" => pc["main"] = "resume" /\ t = Len(tasks)
  /\ pc["main"] = "resume" => tasks[Len(tasks)].status = "created"
  /\ EntryIsLive

(* Every task that can still be answered is the one its url's entry names, and *)
(* a cell that erases an entry erases that of a task that cannot.              *)
OneTask ==
  /\ \A t \in Ids : Live(t) => imagesDownloadTasks[tasks[t].url] = t
  /\ \A t \in Ids : tasks[t].status # "arrived"
  /\ reply # NoReply => tasks[reply.task].status = "done"
  /\ pc["net"] \in {"cache", "remove"} => imagesDownloadTasks[tasks[reply.task].url] = reply.task
  /\ pc["main"] \in {"cancel", "erase"} => imagesDownloadTasks[imageUrl[view]] \in {found, NoTask}
  /\ pc["main"] = "erase" => ~Live(found) /\ reply.task # found

TaskInv == Without({"late", "raced"}) => OneTask

(* A task of a view is for the image of its row, except while the view is       *)
(* being reused; then it is for what the view asked last, and none is left     *)
(* when it asks anew.                                                          *)
TasksOwn ==
  \A t \in Ids : Live(t) =>
    /\ tasks[t].url = imageUrl[tasks[t].view]
    /\ Quiet(tasks[t].view) => tasks[t].url = row[tasks[t].view]
    /\ tasks[t].view \in Cells => ~(pc["main"] \in {"erase", "populate"} /\ view = tasks[t].view)

(* So is the image of a reply, and that of a handler. *)
ReplyOwn ==
  reply # NoReply /\ Quiet(tasks[reply.task].view) =>
    reply.image \in {NoUrl, row[tasks[reply.task].view]}

HandlersOwn ==
  \A i \in DOMAIN mainQueue :
    Quiet(mainQueue[i].view) => mainQueue[i].image \in {NoUrl, row[mainQueue[i].view]}

(* The url at hand is that of the row; a header keeps its url. *)
RowAtHand ==
  /\ pc["main"] # "idle" => row[view] = url
  /\ pc["main"] \in {"lookup", "register", "resume"} => imageUrl[view] = url
  /\ pc["main"] = "populate" /\ view \in Headers => url # NoUrl /\ imageUrl[view] \in {NoUrl, url}
  /\ \A h \in Headers : Quiet(h) => row[h] = imageUrl[h]

OwnImage ==
  /\ \A v \in Views : shown[v] \in {NoUrl, row[v]}
  /\ TasksOwn /\ ReplyOwn /\ HandlersOwn /\ RowAtHand

ViewInv == Without({"late", "raced"}) => OwnImage

(* A reply and a handler bring an image, as long as every transfer does. *)
BringInv ==
  Without({"failed", "junk"}) =>
    /\ reply # NoReply => reply.image # NoUrl
    /\ \A i \in DOMAIN mainQueue : mainQueue[i].image # NoUrl

(* A view that does not show its row's image has none to show, is at hand, or   *)
(* its image is under way; the task that is not started yet is for the view at hand.              *)
Awaited(v) == shown[v] = row[v] \/ row[v] \in Malformed \/ view = v \/ UnderWay(v)

AwaitInv ==
  /\ pc["main"] = "idle" => view = NoView
  /\ pc["main"] = "resume" => tasks[Len(tasks)].view = view /\ tasks[Len(tasks)].url = url
  /\ history = {} => \A v \in Views : Awaited(v)

----------------------------------------------------------------------------
(* What the operations on sequences do: append, ... *)
LEMMA Appended ==
  ASSUME NEW S, NEW s \in Seq(S), NEW x \in S
  PROVE  /\ Append(s, x) \in Seq(S) /\ Len(Append(s, x)) = Len(s) + 1
         /\ DOMAIN Append(s, x) = DOMAIN s \cup {Len(s) + 1}
         /\ Append(s, x)[Len(s) + 1] = x /\ \A i \in DOMAIN s : Append(s, x)[i] = s[i]
<1>. QED  OBVIOUS

(* ... take the first, ... *)
LEMMA Served ==
  ASSUME NEW S, NEW s \in Seq(S), s # <<>>
  PROVE  /\ Head(s) \in S /\ Head(s) = s[1] /\ 1 \in DOMAIN s
         /\ Tail(s) \in Seq(S)
         /\ \A i \in DOMAIN Tail(s) : i + 1 \in DOMAIN s /\ Tail(s)[i] = s[i + 1]
<1>. QED  OBVIOUS

(* ... and replace one. *)
LEMMA Replaced ==
  ASSUME NEW S, NEW s \in Seq(S), NEW i \in DOMAIN s, NEW x \in S
  PROVE  /\ [s EXCEPT ![i] = x] \in Seq(S) /\ Len([s EXCEPT ![i] = x]) = Len(s)
         /\ DOMAIN [s EXCEPT ![i] = x] = DOMAIN s
         /\ \A j \in DOMAIN s : [s EXCEPT ![i] = x][j] = IF j = i THEN x ELSE s[j]
<1>. QED  OBVIOUS

(* A step of one thread leaves the other where it is. *)
LEMMA Went ==
  ASSUME NEW th \in Threads, NEW step \in Steps, pc \in [Threads -> Steps], Goto(th, step)
  PROVE  /\ pc' \in [Threads -> Steps] /\ pc'[th] = step
         /\ \A x \in Threads : x # th => pc'[x] = pc[x]
<1>. QED  BY DEF Goto, Threads

(* A task keeps its view and its url for ever; only its status changes. *)
LEMMA Marked ==
  ASSUME NEW t \in Ids, NEW st \in Statuses, tasks \in Seq(Task), Mark(t, st)
  PROVE  /\ tasks' \in Seq(Task) /\ Ids' = Ids /\ Len(tasks') = Len(tasks)
         /\ \A i \in Ids : tasks'[i].view = tasks[i].view /\ tasks'[i].url = tasks[i].url
         /\ \A i \in Ids : i # t => tasks'[i].status = tasks[i].status
         /\ tasks'[t].status = st
<1>1. PICK x \in Task : x = [tasks[t] EXCEPT !.status = st]
  <2>1. tasks[t] \in Task
    BY DEF Ids
  <2>. QED  BY <2>1 DEF Task
<1>2. /\ x.view = tasks[t].view /\ x.url = tasks[t].url /\ x.status = st
  BY <1>1 DEF Task, Ids
<1>3. tasks' = [tasks EXCEPT ![t] = x]
  BY <1>1 DEF Mark
<1>4. /\ tasks' \in Seq(Task) /\ Len(tasks') = Len(tasks) /\ Ids' = Ids
      /\ \A j \in Ids : tasks'[j] = IF j = t THEN x ELSE tasks[j]
  BY <1>3, Replaced DEF Ids
<1>. QED  BY <1>2, <1>4

(* A new task comes after the others, in the entry of its url. *)
LEMMA Created ==
  ASSUME tasks \in Seq(Task), view \in Views, url \in Urls, NewTask,
         imagesDownloadTasks \in [Urls -> Ids \cup {NoTask}]
  PROVE  /\ tasks' \in Seq(Task) /\ Len(tasks') = Len(tasks) + 1 /\ Len(tasks') <= MaxTasks
         /\ Ids' = Ids \cup {Len(tasks')} /\ Len(tasks') \notin Ids /\ Len(tasks') \in Nat \ {0}
         /\ \A i \in Ids : tasks'[i] = tasks[i]
         /\ tasks'[Len(tasks')] = [view |-> view, url |-> url, status |-> "created"]
         /\ imagesDownloadTasks' \in [Urls -> Ids' \cup {NoTask}]
         /\ imagesDownloadTasks'[url] = Len(tasks')
         /\ \A u \in Urls : u # url => imagesDownloadTasks'[u] = imagesDownloadTasks[u]
<1>1. PICK x \in Task : x = [view |-> view, url |-> url, status |-> "created"]
  BY DEF Task, Statuses
<1>2. tasks' = Append(tasks, x) /\ Len(tasks) < MaxTasks
  BY <1>1 DEF NewTask
<1>3. /\ tasks' \in Seq(Task) /\ Len(tasks') = Len(tasks) + 1 /\ Ids' = Ids \cup {Len(tasks) + 1}
      /\ tasks'[Len(tasks) + 1] = x /\ \A i \in Ids : tasks'[i] = tasks[i]
  BY <1>2, Appended DEF Ids
<1>4. Len(tasks) \in Nat /\ Ids = 1..Len(tasks)
  BY DEF Ids
<1>5. imagesDownloadTasks' = [imagesDownloadTasks EXCEPT ![url] = Len(tasks')]
  BY DEF NewTask
<1>. QED  BY <1>1, <1>2, <1>3, <1>4, <1>5, MaxTasksAssumption

(* Nothing was asked for yet. *)
LEMMA TypeInit == Init => TypeOK /\ LocalInv
<1>. SUFFICES ASSUME Init PROVE TypeOK /\ LocalInv
  OBVIOUS
<1>1. /\ tasks \in Seq(Task) /\ Len(tasks) = 0 /\ Ids = {}
      /\ mainQueue \in Seq([view : Views, image : Urls \cup {NoUrl}])
  BY DEF Init, Ids
<1>2. pc \in [Threads -> Steps] /\ pc["main"] = "idle" /\ pc["net"] = "idle"
  BY DEF Init, Threads, Steps
<1>3. imagesDownloadTasks \in [Urls -> Ids \cup {NoTask}]
  BY DEF Init
<1>. QED  BY <1>1, <1>2, <1>3, MaxTasksAssumption DEF Init, TypeOK, LocalInv, Steps

(* What TypeOK says of each step of each thread. *)
LEMMA Typed ==
  ASSUME TypeOK, LocalInv
  PROVE  /\ pc \in [Threads -> Steps] /\ tasks \in Seq(Task) /\ mainQueue \in Seq(Handler)
         /\ "main" \in Threads /\ "net" \in Threads
         /\ {"idle", "find", "cancel", "erase", "populate", "lookup", "register", "resume",
             "cache", "remove", "post"} \subseteq Steps
         /\ {"created", "running", "arrived", "cancelled", "done"} \subseteq Statuses
         /\ {"failed", "junk", "late", "dropped", "foreign", "raced"} \subseteq Events
         /\ reply # NoReply =>
              /\ reply.task \in Ids /\ reply.image \in Urls \cup {NoUrl}
              /\ tasks[reply.task].view \in Views /\ tasks[reply.task].url \in Urls
         /\ \A t \in Ids : tasks[t] \in Task /\ tasks[t].view \in Views /\ tasks[t].url \in Urls
         /\ Cells \subseteq Views /\ Headers \subseteq Views
         /\ Len(tasks) \in Nat /\ Ids = 1..Len(tasks)
<1>1. tasks \in Seq(Task) /\ mainQueue \in Seq(Handler) /\ Len(tasks) \in Nat /\ Ids = 1..Len(tasks)
  BY DEF TypeOK, Handler, Ids
<1>2. \A t \in Ids : tasks[t] \in Task /\ tasks[t].view \in Views /\ tasks[t].url \in Urls
  <2>1. \A t \in Ids : tasks[t] \in Task
    BY <1>1
  <2>. QED  BY <2>1 DEF Task
<1>3. reply # NoReply => reply.task \in Ids /\ reply.image \in Urls \cup {NoUrl}
  BY DEF TypeOK
<1>. QED  BY <1>1, <1>2, <1>3 DEF TypeOK, Threads, Steps, Statuses, Events, Views

(* Where each step takes the thread that runs it; the other one stays. *)
LEMMA Moved ==
  ASSUME TypeOK, LocalInv
  PROVE
  /\ \A c \in Cells, u \in Urls \cup {NoUrl} : Dequeue(c, u) =>
       /\ pc' \in [Threads -> Steps] /\ pc'["net"] = pc["net"]
       /\ pc'["main"] = IF imageUrl[c] = NoUrl THEN "populate" ELSE "find"
  /\ \A h \in Headers, u \in Urls : PopulateHeader(h, u) =>
       /\ pc' \in [Threads -> Steps] /\ pc'["net"] = pc["net"]
       /\ pc'["main"] = "populate"
  /\ FindTask =>
       /\ pc' \in [Threads -> Steps] /\ pc'["net"] = pc["net"]
       /\ pc'["main"] = IF found' = NoTask THEN "populate" ELSE "cancel"
  /\ EraseEntry =>
       /\ pc' \in [Threads -> Steps] /\ pc'["net"] = pc["net"]
       /\ pc'["main"] = "populate"
  /\ CancelTask =>
       /\ pc' \in [Threads -> Steps] /\ pc'["net"] = pc["net"]
       /\ pc'["main"] = "erase"
  /\ Populate =>
       /\ pc' \in [Threads -> Steps] /\ pc'["net"] = pc["net"]
       /\ pc'["main"] = IF url = NoUrl THEN "idle" ELSE "lookup"
  /\ LookupImage =>
       /\ pc' \in [Threads -> Steps] /\ pc'["net"] = pc["net"]
       /\ pc'["main"] = IF url \in cachedImages \cup Malformed THEN "idle" ELSE "register"
  /\ FindInFlight =>
       /\ pc' \in [Threads -> Steps] /\ pc'["net"] = pc["net"]
       /\ pc'["main"] = "idle"
  /\ Register =>
       /\ pc' \in [Threads -> Steps] /\ pc'["net"] = pc["net"]
       /\ pc'["main"] = "resume"
  /\ Resume =>
       /\ pc' \in [Threads -> Steps] /\ pc'["net"] = pc["net"]
       /\ pc'["main"] = "idle"
  /\ CacheImage =>
       /\ pc' \in [Threads -> Steps] /\ pc'["main"] = pc["main"]
       /\ pc'["net"] = "remove"
  /\ RemoveEntry =>
       /\ pc' \in [Threads -> Steps] /\ pc'["main"] = pc["main"]
       /\ pc'["net"] = "post"
  /\ PostHandler =>
       /\ pc' \in [Threads -> Steps] /\ pc'["main"] = pc["main"]
       /\ pc'["net"] = "idle"
  /\ \A t \in Ids : DataArrived(t) =>
       /\ pc' \in [Threads -> Steps] /\ pc'["main"] = pc["main"]
       /\ pc'["net"] = "cache"
<1>1. \A c \in Cells, u \in Urls \cup {NoUrl} : Dequeue(c, u) =>
     /\ pc' \in [Threads -> Steps] /\ pc'["net"] = pc["net"]
     /\ pc'["main"] = IF imageUrl[c] = NoUrl THEN "populate" ELSE "find"
  BY Typed, Went DEF Dequeue
<1>2. \A h \in Headers, u \in Urls : PopulateHeader(h, u) =>
     /\ pc' \in [Threads -> Steps] /\ pc'["net"] = pc["net"]
     /\ pc'["main"] = "populate"
  BY Typed, Went DEF PopulateHeader
<1>3. FindTask =>
     /\ pc' \in [Threads -> Steps] /\ pc'["net"] = pc["net"]
     /\ pc'["main"] = IF found' = NoTask THEN "populate" ELSE "cancel"
  BY Typed, Went DEF FindTask
<1>4. EraseEntry =>
     /\ pc' \in [Threads -> Steps] /\ pc'["net"] = pc["net"]
     /\ pc'["main"] = "populate"
  BY Typed, Went DEF EraseEntry
<1>5. CancelTask =>
     /\ pc' \in [Threads -> Steps] /\ pc'["net"] = pc["net"]
     /\ pc'["main"] = "erase"
  BY Typed, Went DEF CancelTask
<1>6. Populate =>
     /\ pc' \in [Threads -> Steps] /\ pc'["net"] = pc["net"]
     /\ pc'["main"] = IF url = NoUrl THEN "idle" ELSE "lookup"
  BY Typed, Went DEF Populate, Leave
<1>7. LookupImage =>
     /\ pc' \in [Threads -> Steps] /\ pc'["net"] = pc["net"]
     /\ pc'["main"] = IF url \in cachedImages \cup Malformed THEN "idle" ELSE "register"
  BY Typed, Went DEF LookupImage, Leave
<1>8. FindInFlight =>
     /\ pc' \in [Threads -> Steps] /\ pc'["net"] = pc["net"]
     /\ pc'["main"] = "idle"
  BY Typed, Went DEF FindInFlight, Leave
<1>9. Register =>
     /\ pc' \in [Threads -> Steps] /\ pc'["net"] = pc["net"]
     /\ pc'["main"] = "resume"
  BY Typed, Went DEF Register
<1>10. Resume =>
     /\ pc' \in [Threads -> Steps] /\ pc'["net"] = pc["net"]
     /\ pc'["main"] = "idle"
  BY Typed, Went DEF Resume, Leave
<1>11. CacheImage =>
     /\ pc' \in [Threads -> Steps] /\ pc'["main"] = pc["main"]
     /\ pc'["net"] = "remove"
  BY Typed, Went DEF CacheImage
<1>12. RemoveEntry =>
     /\ pc' \in [Threads -> Steps] /\ pc'["main"] = pc["main"]
     /\ pc'["net"] = "post"
  BY Typed, Went DEF RemoveEntry
<1>13. PostHandler =>
     /\ pc' \in [Threads -> Steps] /\ pc'["main"] = pc["main"]
     /\ pc'["net"] = "idle"
  BY Typed, Went DEF PostHandler
<1>14. \A t \in Ids : DataArrived(t) =>
     /\ pc' \in [Threads -> Steps] /\ pc'["main"] = pc["main"]
     /\ pc'["net"] = "cache"
  BY Typed, Went DEF DataArrived
<1>. QED  BY <1>1, <1>2, <1>3, <1>4, <1>5, <1>6, <1>7, <1>8, <1>9, <1>10, <1>11, <1>12, <1>13, <1>14

(* Every step keeps the types, and leaves each thread what its next step needs. *)
LEMMA TypeStep == TypeOK /\ LocalInv /\ [Next]_vars => TypeOK' /\ LocalInv'
<1>. SUFFICES ASSUME TypeOK, LocalInv, [Next]_vars PROVE (TypeOK /\ LocalInv)'
  OBVIOUS
<1>. USE Typed, NoUrlAssumption, ViewsAssumption
     DEF TypeOK, LocalInv, dictionaries, views, locals, Note, Handler
<1>1. ASSUME NEW c \in Cells, NEW u \in Urls \cup {NoUrl}, Dequeue(c, u) PROVE (TypeOK /\ LocalInv)'
  <2>1. pc' \in [Threads -> Steps] /\ pc'["net"] = pc["net"]
        /\ pc'["main"] = IF imageUrl[c] = NoUrl THEN "populate" ELSE "find"
    BY <1>1, Moved
  <2>. QED  BY <1>1, <2>1 DEF Dequeue, Ids
<1>2. ASSUME NEW h \in Headers, NEW u \in Urls, PopulateHeader(h, u) PROVE (TypeOK /\ LocalInv)'
  <2>1. pc' \in [Threads -> Steps] /\ pc'["net"] = pc["net"]
        /\ pc'["main"] = "populate"
    BY <1>2, Moved
  <2>. QED  BY <1>2, <2>1 DEF PopulateHeader, Ids
<1>3. CASE FindTask
  <2>1. pc' \in [Threads -> Steps] /\ pc'["net"] = pc["net"]
        /\ pc'["main"] = IF found' = NoTask THEN "populate" ELSE "cancel"
    BY <1>3, Moved
  <2>. QED  BY <1>3, <2>1 DEF FindTask, Ids
<1>4. CASE CancelTask
  <2>1. pc' \in [Threads -> Steps] /\ pc'["net"] = pc["net"]
        /\ pc'["main"] = "erase"
    BY <1>4, Moved
  <2>2. /\ tasks' \in Seq(Task) /\ Len(tasks') = Len(tasks) /\ Ids' = Ids
    <3>1. UNCHANGED tasks => UNCHANGED Ids
      BY DEF Ids
    <3>. QED  BY <1>4, <3>1, Marked DEF CancelTask
  <2>. QED  BY <1>4, <2>1, <2>2 DEF CancelTask
<1>5. CASE EraseEntry
  <2>1. pc' \in [Threads -> Steps] /\ pc'["net"] = pc["net"]
        /\ pc'["main"] = "populate"
    BY <1>5, Moved
  <2>. QED  BY <1>5, <2>1 DEF EraseEntry, Ids
<1>6. CASE Populate
  <2>1. pc' \in [Threads -> Steps] /\ pc'["net"] = pc["net"]
        /\ pc'["main"] = IF url = NoUrl THEN "idle" ELSE "lookup"
    BY <1>6, Moved
  <2>. QED  BY <1>6, <2>1 DEF Populate, Leave, Ids
<1>7. CASE LookupImage
  <2>1. pc' \in [Threads -> Steps] /\ pc'["net"] = pc["net"]
        /\ pc'["main"] = IF url \in cachedImages \cup Malformed THEN "idle" ELSE "register"
    BY <1>7, Moved
  <2>. QED  BY <1>7, <2>1, ZenonT(30) DEF LookupImage, Leave, Ids
<1>8. CASE FindInFlight
  <2>1. pc' \in [Threads -> Steps] /\ pc'["net"] = pc["net"]
        /\ pc'["main"] = "idle"
    BY <1>8, Moved
  <2>0. view' = NoView /\ url' = NoUrl /\ found' = NoTask
    BY <1>8 DEF FindInFlight, Leave
  <2>. QED  BY <1>8, <2>0, <2>1 DEF FindInFlight, Ids
<1>9. CASE Register
  <2>1. pc' \in [Threads -> Steps] /\ pc'["net"] = pc["net"]
        /\ pc'["main"] = "resume"
    BY <1>9, Moved
  <2>2. /\ tasks' \in Seq(Task) /\ Len(tasks') = Len(tasks) + 1 /\ Len(tasks') <= MaxTasks
        /\ Ids' = Ids \cup {Len(tasks')} /\ imagesDownloadTasks' \in [Urls -> Ids' \cup {NoTask}]
    BY <1>9, Created DEF Register
  <2>. QED  BY <1>9, <2>1, <2>2 DEF Register
<1>10. CASE Resume
  <2>1. pc' \in [Threads -> Steps] /\ pc'["net"] = pc["net"]
        /\ pc'["main"] = "idle"
    BY <1>10, Moved
  <2>0. view' = NoView /\ url' = NoUrl /\ found' = NoTask
    BY <1>10 DEF Resume, Leave
  <2>2. /\ tasks' \in Seq(Task) /\ Len(tasks') = Len(tasks) /\ Ids' = Ids
    <3>1. Len(tasks) \in Ids
      BY <1>10 DEF Resume
    <3>. QED  BY <1>10, <3>1, Marked DEF Resume
  <2>. QED  BY <1>10, <2>0, <2>1, <2>2 DEF Resume
<1>11. CASE RunHandler
  <2>1. mainQueue' \in Seq(Handler) /\ Head(mainQueue) \in Handler
    BY <1>11, Served DEF RunHandler
  <2>. QED  BY <1>11, <2>1 DEF RunHandler, Ids
<1>12. CASE CacheImage
  <2>1. pc' \in [Threads -> Steps] /\ pc'["main"] = pc["main"]
        /\ pc'["net"] = "remove"
    BY <1>12, Moved
  <2>. QED  BY <1>12, <2>1 DEF CacheImage, Ids
<1>13. CASE RemoveEntry
  <2>1. pc' \in [Threads -> Steps] /\ pc'["main"] = pc["main"]
        /\ pc'["net"] = "post"
    BY <1>13, Moved
  <2>. QED  BY <1>13, <2>1 DEF RemoveEntry, Ids
<1>14. CASE PostHandler
  <2>1. pc' \in [Threads -> Steps] /\ pc'["main"] = pc["main"]
        /\ pc'["net"] = "idle"
    BY <1>14, Moved
  <2>2. PICK x \in Handler : x = [view |-> tasks[reply.task].view, image |-> reply.image]
    BY <1>14 DEF PostHandler
  <2>3. mainQueue' \in Seq(Handler)
    BY <1>14, <2>2, Appended DEF PostHandler
  <2>. QED  BY <1>14, <2>1, <2>3 DEF PostHandler, Ids
<1>15. ASSUME NEW t \in Ids, NoData(t) PROVE (TypeOK /\ LocalInv)'
  BY <1>15, Went, Marked DEF NoData, Note, Leave, Running
<1>16. ASSUME NEW t \in Ids, Truncated(t) PROVE (TypeOK /\ LocalInv)'
  BY <1>16, Went, Marked DEF Truncated, Note, Leave, Running
<1>17. ASSUME NEW t \in Ids, DataArrived(t) PROVE (TypeOK /\ LocalInv)'
  <2>1. pc' \in [Threads -> Steps] /\ pc'["main"] = pc["main"]
        /\ pc'["net"] = "cache"
    BY <1>17, Moved
  <2>2. /\ tasks' \in Seq(Task) /\ Len(tasks') = Len(tasks) /\ Ids' = Ids
    BY <1>17, Marked DEF DataArrived
  <2>3. reply' \in [task : Ids', image : Urls \cup {NoUrl}] /\ reply' # NoReply
    <3>1. PICK image \in Urls \cup {NoUrl} : reply' = [task |-> t, image |-> image]
      BY <1>17 DEF DataArrived
    <3>2. t \in Ids' /\ t # NoTask
      BY <2>2 DEF NoTask
    <3>. QED  BY <3>1, <3>2 DEF NoReply
  <2>. QED  BY <1>17, <2>1, <2>2, <2>3 DEF DataArrived
<1>18. CASE UNCHANGED vars
  BY <1>18 DEF vars, Ids
<1>. QED
  BY <1>1, <1>2, <1>3, <1>4, <1>5, <1>6, <1>7, <1>8, <1>9, <1>10, <1>11,
     <1>12, <1>13, <1>14, <1>15, <1>16, <1>17, <1>18
  DEF Next, Scroll, Main, Net, Completion

----------------------------------------------------------------------------
(* There is no entry. *)
LEMMA EntryInit == Init => EntryInv
<1>1. Init => Ids = {}
  BY DEF Init, Ids
<1>. QED  BY <1>1 DEF Init, EntryInv, EntryIsLive, Threads

(* An entry is erased by whoever ends its task, unless that fails to.          *)
LEMMA EntryStep == TypeOK /\ LocalInv /\ EntryInv /\ [Next]_vars => EntryInv'
<1>. SUFFICES ASSUME TypeOK, LocalInv, EntryInv, [Next]_vars PROVE EntryInv'
  OBVIOUS
<1>0. /\ imagesDownloadTasks \in [Urls -> Ids \cup {NoTask}] /\ NoTask \notin Ids
      /\ found \in Ids \cup {NoTask} /\ NoReply.task = NoTask
      /\ \A v \in Views : imageUrl[v] \in Urls \cup {NoUrl}
  BY DEF TypeOK, Ids, NoTask, NoReply
<1>0a. UNCHANGED tasks => UNCHANGED Ids
  BY DEF Ids
<1>. USE Typed, <1>0, <1>0a, NoUrlAssumption
     DEF EntryInv, EntryIsLive, LocalInv, dictionaries, views, locals, Note, Running
<1>1. ASSUME NEW c \in Cells, NEW u \in Urls \cup {NoUrl}, Dequeue(c, u) PROVE EntryInv'
  <2>1. pc' \in [Threads -> Steps] /\ pc'["net"] = pc["net"]
        /\ pc'["main"] = IF imageUrl[c] = NoUrl THEN "populate" ELSE "find"
    BY <1>1, Moved
  <2>. QED  BY <1>1, <2>1 DEF Dequeue
<1>2. ASSUME NEW h \in Headers, NEW u \in Urls, PopulateHeader(h, u) PROVE EntryInv'
  <2>1. pc' \in [Threads -> Steps] /\ pc'["net"] = pc["net"]
        /\ pc'["main"] = "populate"
    BY <1>2, Moved
  <2>. QED  BY <1>2, <2>1 DEF PopulateHeader
<1>3. CASE FindTask
  <2>1. pc' \in [Threads -> Steps] /\ pc'["net"] = pc["net"]
        /\ pc'["main"] = IF found' = NoTask THEN "populate" ELSE "cancel"
    BY <1>3, Moved
  <2>. QED  BY <1>3, <2>1 DEF FindTask
<1>4. CASE CancelTask
  <2>1. pc' \in [Threads -> Steps] /\ pc'["net"] = pc["net"]
        /\ pc'["main"] = "erase"
    BY <1>4, Moved
  <2>2. /\ Ids' = Ids /\ Len(tasks') = Len(tasks)
        /\ \A i \in Ids : tasks'[i].view = tasks[i].view /\ tasks'[i].url = tasks[i].url
        /\ \A i \in Ids : i # found => tasks'[i].status = tasks[i].status
        /\ tasks'[found].status \in {tasks[found].status, "cancelled", "arrived"}
        /\ tasks[found].status # "running" => UNCHANGED tasks
    <3>1. UNCHANGED tasks => UNCHANGED Ids
      BY DEF Ids
    <3>. QED  BY <1>4, <3>1, Marked DEF CancelTask, Running
  <2>3. \A u \in Urls : imagesDownloadTasks'[u] \in {imagesDownloadTasks[u], NoTask}
    BY <1>4, <2>1, <2>2 DEF CancelTask
  <2>4. \A u \in Urls : imagesDownloadTasks'[u] # NoTask => tasks'[imagesDownloadTasks'[u]].url = u
    BY <1>4, <2>1, <2>2, <2>3 DEF CancelTask
  <2>5. /\ pc'["main"] \in {"cancel", "erase"} => tasks'[found'].url = imageUrl'[view']
        /\ \A t1 \in Ids' : tasks'[t1].status = "created" => pc'["main"] = "resume" /\ t1 = Len(tasks')
        /\ pc'["main"] = "resume" => tasks'[Len(tasks')].status = "created"
    BY <1>4, <2>1, <2>2 DEF CancelTask
  <2>6. ASSUME Without({"failed", "raced"})', NEW u \in Urls, imagesDownloadTasks'[u] # NoTask
        PROVE  LET e == imagesDownloadTasks'[u]
               IN  \/ tasks'[e].status \in {"created", "running", "arrived"}
                   \/ pc'["net"] \in {"cache", "remove"} /\ tasks'[reply'.task].url = u
                   \/ pc'["main"] \in {"cancel", "erase"} /\ found' = e
    <3>1. Without({"failed", "raced"})
      BY <1>4, <2>1, <2>2, <2>6 DEF Without, CancelTask
    <3>2. imagesDownloadTasks[u] = imagesDownloadTasks'[u] /\ imagesDownloadTasks[u] \in Ids
      BY <2>3, <2>6
    <3>3. LET e == imagesDownloadTasks[u]
          IN  \/ tasks[e].status \in {"created", "running", "arrived"}
              \/ pc["net"] \in {"cache", "remove"} /\ tasks[reply.task].url = u
              \/ pc["main"] \in {"cancel", "erase"} /\ found = e
      BY <3>1, <3>2 DEF Without
    <3>. QED  BY <1>4, <2>1, <2>2, <2>6, <3>2, <3>3 DEF Without, CancelTask
  <2>. QED  BY <2>4, <2>5, <2>6 DEF Without
<1>5. CASE EraseEntry
  <2>1. pc' \in [Threads -> Steps] /\ pc'["net"] = pc["net"]
        /\ pc'["main"] = "populate"
    BY <1>5, Moved
  <2>3. \A u \in Urls : imagesDownloadTasks'[u] \in {imagesDownloadTasks[u], NoTask}
    BY <1>5, <2>1 DEF EraseEntry
  <2>4. \A u \in Urls : imagesDownloadTasks'[u] # NoTask => tasks'[imagesDownloadTasks'[u]].url = u
    BY <1>5, <2>1, <2>3 DEF EraseEntry
  <2>5. /\ pc'["main"] \in {"cancel", "erase"} => tasks'[found'].url = imageUrl'[view']
        /\ \A t1 \in Ids' : tasks'[t1].status = "created" => pc'["main"] = "resume" /\ t1 = Len(tasks')
        /\ pc'["main"] = "resume" => tasks'[Len(tasks')].status = "created"
    BY <1>5, <2>1 DEF EraseEntry
  <2>6. ASSUME Without({"failed", "raced"})', NEW u \in Urls, imagesDownloadTasks'[u] # NoTask
        PROVE  LET e == imagesDownloadTasks'[u]
               IN  \/ tasks'[e].status \in {"created", "running", "arrived"}
                   \/ pc'["net"] \in {"cache", "remove"} /\ tasks'[reply'.task].url = u
                   \/ pc'["main"] \in {"cancel", "erase"} /\ found' = e
    <3>1. Without({"failed", "raced"})
      BY <1>5, <2>1, <2>6 DEF Without, EraseEntry
    <3>2. imagesDownloadTasks[u] = imagesDownloadTasks'[u] /\ imagesDownloadTasks[u] \in Ids
      BY <2>3, <2>6
    <3>3. LET e == imagesDownloadTasks[u]
          IN  \/ tasks[e].status \in {"created", "running", "arrived"}
              \/ pc["net"] \in {"cache", "remove"} /\ tasks[reply.task].url = u
              \/ pc["main"] \in {"cancel", "erase"} /\ found = e
      BY <3>1, <3>2 DEF Without
    <3>4. u # imageUrl[view] /\ imageUrl[view] \in Urls /\ tasks[found].url = imageUrl[view]
      BY <1>5, <2>6 DEF Without, EraseEntry
    <3>5. UNCHANGED <<tasks, reply>> /\ pc["net"] = pc'["net"] /\ pc["main"] = "erase"
      BY <1>5, <2>1 DEF EraseEntry
    <3>. QED  BY <2>4, <3>2, <3>3, <3>4, <3>5, <2>6
  <2>. QED  BY <2>4, <2>5, <2>6 DEF Without
<1>6. CASE Populate
  <2>1. pc' \in [Threads -> Steps] /\ pc'["net"] = pc["net"]
        /\ pc'["main"] = IF url = NoUrl THEN "idle" ELSE "lookup"
    BY <1>6, Moved
  <2>. QED  BY <1>6, <2>1 DEF Populate, Leave
<1>7. CASE LookupImage
  <2>1. pc' \in [Threads -> Steps] /\ pc'["net"] = pc["net"]
        /\ pc'["main"] = IF url \in cachedImages \cup Malformed THEN "idle" ELSE "register"
    BY <1>7, Moved
  <2>. QED  BY <1>7, <2>1 DEF LookupImage, Leave
<1>8. CASE FindInFlight
  <2>1. pc' \in [Threads -> Steps] /\ pc'["net"] = pc["net"]
        /\ pc'["main"] = "idle"
    BY <1>8, Moved
  <2>. QED  BY <1>8, <2>1 DEF FindInFlight, Leave
<1>9. CASE Register
  <2>1. pc' \in [Threads -> Steps] /\ pc'["net"] = pc["net"]
        /\ pc'["main"] = "resume"
    BY <1>9, Moved
  <2>2. /\ Ids' = Ids \cup {Len(tasks')} /\ Len(tasks') \notin Ids /\ Len(tasks') # NoTask
        /\ \A i \in Ids : tasks'[i] = tasks[i]
        /\ tasks'[Len(tasks')].view = view /\ tasks'[Len(tasks')].url = url
        /\ tasks'[Len(tasks')].status = "created" /\ imagesDownloadTasks'[url] = Len(tasks')
        /\ \A u \in Urls : u # url => imagesDownloadTasks'[u] = imagesDownloadTasks[u]
    BY <1>9, Created DEF Register, NoTask
  <2>. QED  BY <1>9, <2>1, <2>2, SMTT(30) DEF Register
<1>10. CASE Resume
  <2>1. pc' \in [Threads -> Steps] /\ pc'["net"] = pc["net"]
        /\ pc'["main"] = "idle"
    BY <1>10, Moved
  <2>2. /\ Ids' = Ids /\ Len(tasks') = Len(tasks) /\ Len(tasks) \in Ids
        /\ \A i \in Ids : tasks'[i].view = tasks[i].view /\ tasks'[i].url = tasks[i].url
        /\ \A i \in Ids : i # Len(tasks) => tasks'[i].status = tasks[i].status
        /\ tasks'[Len(tasks)].status = "running"
    <3>1. Len(tasks) \in Ids
      BY <1>10 DEF Resume
    <3>. QED  BY <1>10, <3>1, Marked DEF Resume
  <2>3. \A u \in Urls : imagesDownloadTasks'[u] \in {imagesDownloadTasks[u], NoTask}
    BY <1>10, <2>1, <2>2 DEF Resume, Leave
  <2>4. \A u \in Urls : imagesDownloadTasks'[u] # NoTask => tasks'[imagesDownloadTasks'[u]].url = u
    BY <1>10, <2>1, <2>2, <2>3 DEF Resume, Leave
  <2>5. /\ pc'["main"] \in {"cancel", "erase"} => tasks'[found'].url = imageUrl'[view']
        /\ \A t1 \in Ids' : tasks'[t1].status = "created" => pc'["main"] = "resume" /\ t1 = Len(tasks')
        /\ pc'["main"] = "resume" => tasks'[Len(tasks')].status = "created"
    BY <1>10, <2>1, <2>2 DEF Resume, Leave
  <2>6. ASSUME Without({"failed", "raced"})', NEW u \in Urls, imagesDownloadTasks'[u] # NoTask
        PROVE  LET e == imagesDownloadTasks'[u]
               IN  \/ tasks'[e].status \in {"created", "running", "arrived"}
                   \/ pc'["net"] \in {"cache", "remove"} /\ tasks'[reply'.task].url = u
                   \/ pc'["main"] \in {"cancel", "erase"} /\ found' = e
    <3>1. Without({"failed", "raced"})
      BY <1>10, <2>1, <2>2, <2>6 DEF Without, Resume, Leave
    <3>2. imagesDownloadTasks[u] = imagesDownloadTasks'[u] /\ imagesDownloadTasks[u] \in Ids
      BY <2>3, <2>6
    <3>3. LET e == imagesDownloadTasks[u]
          IN  \/ tasks[e].status \in {"created", "running", "arrived"}
              \/ pc["net"] \in {"cache", "remove"} /\ tasks[reply.task].url = u
              \/ pc["main"] \in {"cancel", "erase"} /\ found = e
      BY <3>1, <3>2 DEF Without
    <3>. QED  BY <1>10, <2>1, <2>2, <2>6, <3>2, <3>3 DEF Without, Resume, Leave
  <2>. QED  BY <2>4, <2>5, <2>6 DEF Without
<1>11. CASE RunHandler
  BY <1>11 DEF RunHandler
<1>12. CASE CacheImage
  <2>1. pc' \in [Threads -> Steps] /\ pc'["main"] = pc["main"]
        /\ pc'["net"] = "remove"
    BY <1>12, Moved
  <2>. QED  BY <1>12, <2>1 DEF CacheImage
<1>13. CASE RemoveEntry
  <2>1. pc' \in [Threads -> Steps] /\ pc'["main"] = pc["main"]
        /\ pc'["net"] = "post"
    BY <1>13, Moved
  <2>3. \A u \in Urls : imagesDownloadTasks'[u] \in {imagesDownloadTasks[u], NoTask}
    BY <1>13, <2>1 DEF RemoveEntry
  <2>4. \A u \in Urls : imagesDownloadTasks'[u] # NoTask => tasks'[imagesDownloadTasks'[u]].url = u
    BY <1>13, <2>1, <2>3 DEF RemoveEntry
  <2>5. /\ pc'["main"] \in {"cancel", "erase"} => tasks'[found'].url = imageUrl'[view']
        /\ \A t1 \in Ids' : tasks'[t1].status = "created" => pc'["main"] = "resume" /\ t1 = Len(tasks')
        /\ pc'["main"] = "resume" => tasks'[Len(tasks')].status = "created"
    BY <1>13, <2>1 DEF RemoveEntry
  <2>6. ASSUME Without({"failed", "raced"})', NEW u \in Urls, imagesDownloadTasks'[u] # NoTask
        PROVE  LET e == imagesDownloadTasks'[u]
               IN  \/ tasks'[e].status \in {"created", "running", "arrived"}
                   \/ pc'["net"] \in {"cache", "remove"} /\ tasks'[reply'.task].url = u
                   \/ pc'["main"] \in {"cancel", "erase"} /\ found' = e
    <3>1. Without({"failed", "raced"})
      BY <1>13, <2>1, <2>6 DEF Without, RemoveEntry
    <3>2. imagesDownloadTasks[u] = imagesDownloadTasks'[u] /\ imagesDownloadTasks[u] \in Ids
      BY <2>3, <2>6
    <3>3. LET e == imagesDownloadTasks[u]
          IN  \/ tasks[e].status \in {"created", "running", "arrived"}
              \/ pc["net"] \in {"cache", "remove"} /\ tasks[reply.task].url = u
              \/ pc["main"] \in {"cancel", "erase"} /\ found = e
      BY <3>1, <3>2 DEF Without
    <3>. QED  BY <1>13, <2>1, <2>6, <3>2, <3>3 DEF Without, RemoveEntry
  <2>. QED  BY <2>4, <2>5, <2>6 DEF Without
<1>14. CASE PostHandler
  <2>1. pc' \in [Threads -> Steps] /\ pc'["main"] = pc["main"]
        /\ pc'["net"] = "idle"
    BY <1>14, Moved
  <2>. QED  BY <1>14, <2>1 DEF PostHandler
<1>15. ASSUME NEW t \in Ids, NoData(t) PROVE EntryInv'
  <2>2. /\ Ids' = Ids /\ Len(tasks') = Len(tasks)
        /\ \A i \in Ids : tasks'[i].view = tasks[i].view /\ tasks'[i].url = tasks[i].url
        /\ \A i \in Ids : i # t => tasks'[i].status = tasks[i].status
        /\ tasks'[t].status = "done"
    BY <1>15, Marked DEF NoData
  <2>3. \A u \in Urls : imagesDownloadTasks'[u] \in {imagesDownloadTasks[u], NoTask}
    BY <1>15, <2>2 DEF NoData
  <2>4. \A u \in Urls : imagesDownloadTasks'[u] # NoTask => tasks'[imagesDownloadTasks'[u]].url = u
    BY <1>15, <2>2, <2>3 DEF NoData
  <2>2a. pc["main"] = "resume" => t # Len(tasks) /\ Len(tasks) \in Ids
    BY <1>15 DEF NoData
  <2>5. /\ pc'["main"] \in {"cancel", "erase"} => tasks'[found'].url = imageUrl'[view']
        /\ \A t1 \in Ids' : tasks'[t1].status = "created" => pc'["main"] = "resume" /\ t1 = Len(tasks')
        /\ pc'["main"] = "resume" => tasks'[Len(tasks')].status = "created"
    <3>1. UNCHANGED <<view, found, imageUrl, pc>>
      BY <1>15 DEF NoData
    <3>2. pc["main"] \in {"cancel", "erase"} => tasks'[found].url = imageUrl[view]
      BY <2>2
    <3>3. \A t1 \in Ids : tasks'[t1].status = "created" => t1 # t /\ tasks[t1].status = "created"
      BY <2>2
    <3>4. pc["main"] = "resume" => tasks'[Len(tasks)].status = "created"
      BY <2>2, <2>2a
    <3>. QED  BY <2>2, <3>1, <3>2, <3>3, <3>4
  <2>6. ASSUME Without({"failed", "raced"})', NEW u \in Urls, imagesDownloadTasks'[u] # NoTask
        PROVE  LET e == imagesDownloadTasks'[u]
               IN  \/ tasks'[e].status \in {"created", "running", "arrived"}
                   \/ pc'["net"] \in {"cache", "remove"} /\ tasks'[reply'.task].url = u
                   \/ pc'["main"] \in {"cancel", "erase"} /\ found' = e
    <3>1. Without({"failed", "raced"})
      BY <1>15, <2>2, <2>6 DEF Without, NoData
    <3>2. imagesDownloadTasks[u] = imagesDownloadTasks'[u] /\ imagesDownloadTasks[u] \in Ids
      BY <2>3, <2>6
    <3>3. LET e == imagesDownloadTasks[u]
          IN  \/ tasks[e].status \in {"created", "running", "arrived"}
              \/ pc["net"] \in {"cache", "remove"} /\ tasks[reply.task].url = u
              \/ pc["main"] \in {"cancel", "erase"} /\ found = e
      BY <3>1, <3>2 DEF Without
    <3>. QED  BY <1>15, <2>2, <2>6, <3>2, <3>3 DEF Without, NoData
  <2>. QED  BY <2>4, <2>5, <2>6 DEF Without
<1>16. ASSUME NEW t \in Ids, Truncated(t) PROVE EntryInv'
  <2>2. /\ Ids' = Ids /\ Len(tasks') = Len(tasks)
        /\ \A i \in Ids : tasks'[i].view = tasks[i].view /\ tasks'[i].url = tasks[i].url
        /\ \A i \in Ids : i # t => tasks'[i].status = tasks[i].status
        /\ tasks'[t].status = "done"
    BY <1>16, Marked DEF Truncated
  <2>3. \A u \in Urls : imagesDownloadTasks'[u] \in {imagesDownloadTasks[u], NoTask}
    BY <1>16, <2>2 DEF Truncated
  <2>4. \A u \in Urls : imagesDownloadTasks'[u] # NoTask => tasks'[imagesDownloadTasks'[u]].url = u
    BY <1>16, <2>2, <2>3 DEF Truncated
  <2>2a. pc["main"] = "resume" => t # Len(tasks) /\ Len(tasks) \in Ids
    BY <1>16 DEF Truncated
  <2>5. /\ pc'["main"] \in {"cancel", "erase"} => tasks'[found'].url = imageUrl'[view']
        /\ \A t1 \in Ids' : tasks'[t1].status = "created" => pc'["main"] = "resume" /\ t1 = Len(tasks')
        /\ pc'["main"] = "resume" => tasks'[Len(tasks')].status = "created"
    <3>1. UNCHANGED <<view, found, imageUrl, pc>>
      BY <1>16 DEF Truncated
    <3>2. pc["main"] \in {"cancel", "erase"} => tasks'[found].url = imageUrl[view]
      BY <2>2
    <3>3. \A t1 \in Ids : tasks'[t1].status = "created" => t1 # t /\ tasks[t1].status = "created"
      BY <2>2
    <3>4. pc["main"] = "resume" => tasks'[Len(tasks)].status = "created"
      BY <2>2, <2>2a
    <3>. QED  BY <2>2, <3>1, <3>2, <3>3, <3>4
  <2>6. ASSUME Without({"failed", "raced"})', NEW u \in Urls, imagesDownloadTasks'[u] # NoTask
        PROVE  LET e == imagesDownloadTasks'[u]
               IN  \/ tasks'[e].status \in {"created", "running", "arrived"}
                   \/ pc'["net"] \in {"cache", "remove"} /\ tasks'[reply'.task].url = u
                   \/ pc'["main"] \in {"cancel", "erase"} /\ found' = e
    <3>1. Without({"failed", "raced"})
      BY <1>16, <2>2, <2>6 DEF Without, Truncated
    <3>2. imagesDownloadTasks[u] = imagesDownloadTasks'[u] /\ imagesDownloadTasks[u] \in Ids
      BY <2>3, <2>6
    <3>3. LET e == imagesDownloadTasks[u]
          IN  \/ tasks[e].status \in {"created", "running", "arrived"}
              \/ pc["net"] \in {"cache", "remove"} /\ tasks[reply.task].url = u
              \/ pc["main"] \in {"cancel", "erase"} /\ found = e
      BY <3>1, <3>2 DEF Without
    <3>. QED  BY <1>16, <2>2, <2>6, <3>2, <3>3 DEF Without, Truncated
  <2>. QED  BY <2>4, <2>5, <2>6 DEF Without
<1>17. ASSUME NEW t \in Ids, DataArrived(t) PROVE EntryInv'
  <2>1. pc' \in [Threads -> Steps] /\ pc'["main"] = pc["main"]
        /\ pc'["net"] = "cache"
    BY <1>17, Moved
  <2>2. /\ Ids' = Ids /\ Len(tasks') = Len(tasks)
        /\ \A i \in Ids : tasks'[i].view = tasks[i].view /\ tasks'[i].url = tasks[i].url
        /\ \A i \in Ids : i # t => tasks'[i].status = tasks[i].status
        /\ tasks'[t].status = "done"
    BY <1>17, Marked DEF DataArrived
  <2>3. \A u \in Urls : imagesDownloadTasks'[u] \in {imagesDownloadTasks[u], NoTask}
    BY <1>17, <2>1, <2>2 DEF DataArrived
  <2>4. \A u \in Urls : imagesDownloadTasks'[u] # NoTask => tasks'[imagesDownloadTasks'[u]].url = u
    BY <1>17, <2>1, <2>2, <2>3 DEF DataArrived
  <2>2a. pc["main"] = "resume" => t # Len(tasks) /\ Len(tasks) \in Ids
    BY <1>17 DEF DataArrived
  <2>5. /\ pc'["main"] \in {"cancel", "erase"} => tasks'[found'].url = imageUrl'[view']
        /\ \A t1 \in Ids' : tasks'[t1].status = "created" => pc'["main"] = "resume" /\ t1 = Len(tasks')
        /\ pc'["main"] = "resume" => tasks'[Len(tasks')].status = "created"
    <3>1. UNCHANGED <<view, found, imageUrl>> /\ pc'["main"] = pc["main"]
      BY <1>17, <2>1 DEF DataArrived
    <3>2. pc["main"] \in {"cancel", "erase"} => tasks'[found].url = imageUrl[view]
      BY <2>2
    <3>3. \A t1 \in Ids : tasks'[t1].status = "created" => t1 # t /\ tasks[t1].status = "created"
      BY <2>2
    <3>4. pc["main"] = "resume" => tasks'[Len(tasks)].status = "created"
      BY <2>2, <2>2a
    <3>. QED  BY <2>2, <3>1, <3>2, <3>3, <3>4
  <2>6. ASSUME Without({"failed", "raced"})', NEW u \in Urls, imagesDownloadTasks'[u] # NoTask
        PROVE  LET e == imagesDownloadTasks'[u]
               IN  \/ tasks'[e].status \in {"created", "running", "arrived"}
                   \/ pc'["net"] \in {"cache", "remove"} /\ tasks'[reply'.task].url = u
                   \/ pc'["main"] \in {"cancel", "erase"} /\ found' = e
    <3>1. Without({"failed", "raced"})
      BY <1>17, <2>1, <2>2, <2>6 DEF Without, DataArrived
    <3>2. imagesDownloadTasks[u] = imagesDownloadTasks'[u] /\ imagesDownloadTasks[u] \in Ids
      BY <2>3, <2>6
    <3>3. LET e == imagesDownloadTasks[u]
          IN  \/ tasks[e].status \in {"created", "running", "arrived"}
              \/ pc["net"] \in {"cache", "remove"} /\ tasks[reply.task].url = u
              \/ pc["main"] \in {"cancel", "erase"} /\ found = e
      BY <3>1, <3>2 DEF Without
    <3>. QED  BY <1>17, <2>1, <2>2, <2>6, <3>2, <3>3, SMTT(30) DEF Without, DataArrived
  <2>. QED  BY <2>4, <2>5, <2>6 DEF Without
<1>18. CASE UNCHANGED vars
  BY <1>18 DEF vars
<1>. QED
  BY <1>1, <1>2, <1>3, <1>4, <1>5, <1>6, <1>7, <1>8, <1>9, <1>10, <1>11,
     <1>12, <1>13, <1>14, <1>15, <1>16, <1>17, <1>18
  DEF Next, Scroll, Main, Net, Completion

----------------------------------------------------------------------------
(* What happened stays in the history. *)
LEMMA HistoryGrows == [Next]_vars => history \subseteq history'
<1>. SUFFICES ASSUME [Next]_vars PROVE history \subseteq history'
  OBVIOUS
<1>. USE DEF Note, locals, dictionaries, views
<1>1. ASSUME NEW c \in Cells, NEW u \in Urls \cup {NoUrl}, Dequeue(c, u) PROVE history \subseteq history'
  BY <1>1 DEF Dequeue
<1>2. ASSUME NEW h \in Headers, NEW u \in Urls, PopulateHeader(h, u) PROVE history \subseteq history'
  BY <1>2 DEF PopulateHeader
<1>3. CASE FindTask
  BY <1>3 DEF FindTask
<1>4. CASE CancelTask
  BY <1>4 DEF CancelTask
<1>5. CASE EraseEntry
  BY <1>5 DEF EraseEntry
<1>6. CASE Populate
  BY <1>6 DEF Populate
<1>7. CASE LookupImage
  BY <1>7 DEF LookupImage
<1>8. CASE FindInFlight
  BY <1>8 DEF FindInFlight
<1>9. CASE Register
  BY <1>9 DEF Register
<1>10. CASE Resume
  BY <1>10 DEF Resume
<1>11. CASE RunHandler
  BY <1>11 DEF RunHandler
<1>12. CASE CacheImage
  BY <1>12 DEF CacheImage
<1>13. CASE RemoveEntry
  BY <1>13 DEF RemoveEntry
<1>14. CASE PostHandler
  BY <1>14 DEF PostHandler
<1>15. ASSUME NEW t \in Ids, NoData(t) PROVE history \subseteq history'
  BY <1>15 DEF NoData
<1>16. ASSUME NEW t \in Ids, Truncated(t) PROVE history \subseteq history'
  BY <1>16 DEF Truncated
<1>17. ASSUME NEW t \in Ids, DataArrived(t) PROVE history \subseteq history'
  BY <1>17 DEF DataArrived
<1>18. CASE UNCHANGED vars
  BY <1>18 DEF vars
<1>. QED
  BY <1>1, <1>2, <1>3, <1>4, <1>5, <1>6, <1>7, <1>8, <1>9, <1>10, <1>11,
     <1>12, <1>13, <1>14, <1>15, <1>16, <1>17, <1>18
  DEF Next, Scroll, Main, Net, Completion

(* There is no task. *)
LEMMA TaskInit == Init => TaskInv
<1>1. Init => Ids = {}
  BY DEF Init, Ids
<1>. QED  BY <1>1 DEF Init, TaskInv, OneTask, Threads

(* Only the main thread registers, and it registers no url whose entry still   *)
(* names a task; a cell erases an entry only after it ended the task.          *)
LEMMA TaskStep ==
  TypeOK /\ LocalInv /\ EntryInv /\ TaskInv /\ [Next]_vars => TaskInv'
<1>. SUFFICES ASSUME TypeOK, LocalInv, EntryInv, TaskInv, [Next]_vars,
                     Without({"late", "raced"})'
              PROVE  OneTask'
  BY DEF TaskInv
<1>0. /\ imagesDownloadTasks \in [Urls -> Ids \cup {NoTask}] /\ NoTask \notin Ids
      /\ found \in Ids \cup {NoTask} /\ NoReply.task = NoTask
      /\ \A v \in Views : imageUrl[v] \in Urls \cup {NoUrl}
  BY DEF TypeOK, Ids, NoTask, NoReply
<1>0a. UNCHANGED tasks => UNCHANGED Ids
  BY DEF Ids
<1>0b. /\ \A u \in Urls : imagesDownloadTasks[u] # NoTask => tasks[imagesDownloadTasks[u]].url = u
       /\ pc["main"] \in {"cancel", "erase"} => tasks[found].url = imageUrl[view]
       /\ \A t \in Ids : tasks[t].status = "created" => pc["main"] = "resume" /\ t = Len(tasks)
       /\ pc["main"] = "resume" => tasks[Len(tasks)].status = "created"
  BY DEF EntryInv
<1>0c. OneTask /\ "late" \notin history' /\ "raced" \notin history'
  BY HistoryGrows DEF TaskInv, Without
<1>. USE Typed, <1>0, <1>0a, <1>0b, <1>0c, NoUrlAssumption
     DEF OneTask, LocalInv, Live, dictionaries, views, locals, Note, Running
<1>1. ASSUME NEW c \in Cells, NEW u \in Urls \cup {NoUrl}, Dequeue(c, u) PROVE OneTask'
  <2>1. pc' \in [Threads -> Steps] /\ pc'["net"] = pc["net"]
        /\ pc'["main"] = IF imageUrl[c] = NoUrl THEN "populate" ELSE "find"
    BY <1>1, Moved
  <2>. QED  BY <1>1, <2>1 DEF Dequeue
<1>2. ASSUME NEW h \in Headers, NEW u \in Urls, PopulateHeader(h, u) PROVE OneTask'
  <2>1. pc' \in [Threads -> Steps] /\ pc'["net"] = pc["net"]
        /\ pc'["main"] = "populate"
    BY <1>2, Moved
  <2>. QED  BY <1>2, <2>1 DEF PopulateHeader
<1>3. CASE FindTask
  <2>1. pc' \in [Threads -> Steps] /\ pc'["net"] = pc["net"]
        /\ pc'["main"] = IF found' = NoTask THEN "populate" ELSE "cancel"
    BY <1>3, Moved
  <2>. QED  BY <1>3, <2>1 DEF FindTask
<1>4. CASE CancelTask
  <2>1. pc' \in [Threads -> Steps] /\ pc'["net"] = pc["net"]
        /\ pc'["main"] = "erase"
    BY <1>4, Moved
  <2>2. /\ Ids' = Ids /\ Len(tasks') = Len(tasks)
        /\ \A i \in Ids : tasks'[i].view = tasks[i].view /\ tasks'[i].url = tasks[i].url
        /\ \A i \in Ids : i # found => tasks'[i].status = tasks[i].status
        /\ tasks'[found].status \in {tasks[found].status, "cancelled", "arrived"}
        /\ tasks[found].status # "running" => UNCHANGED tasks
    <3>1. UNCHANGED tasks => UNCHANGED Ids
      BY DEF Ids
    <3>. QED  BY <1>4, <3>1, Marked DEF CancelTask, Running
  <2>3. /\ tasks[found].status = "running" => tasks'[found].status = "cancelled"
        /\ tasks[found].status # "running" => reply.task # found
        /\ UNCHANGED <<imagesDownloadTasks, imageUrl, view, found, reply>> /\ pc["main"] = "cancel"
    BY <1>4, Marked DEF CancelTask
  <2>4. tasks[found].status # "created" /\ reply.task # found /\ found \in Ids
    BY <2>3
  <2>5. \A i \in Ids : /\ tasks'[i].status \in {"created", "running"} => Live(i)
                      /\ tasks'[i].status # "arrived"
    BY <2>2, <2>3
  <2>. QED  BY <2>1, <2>2, <2>3, <2>4, <2>5
<1>5. CASE EraseEntry
  <2>1. pc' \in [Threads -> Steps] /\ pc'["net"] = pc["net"]
        /\ pc'["main"] = "populate"
    BY <1>5, Moved
  <2>. QED  BY <1>5, <2>1 DEF EraseEntry
<1>6. CASE Populate
  <2>1. pc' \in [Threads -> Steps] /\ pc'["net"] = pc["net"]
        /\ pc'["main"] = IF url = NoUrl THEN "idle" ELSE "lookup"
    BY <1>6, Moved
  <2>. QED  BY <1>6, <2>1 DEF Populate, Leave
<1>7. CASE LookupImage
  <2>1. pc' \in [Threads -> Steps] /\ pc'["net"] = pc["net"]
        /\ pc'["main"] = IF url \in cachedImages \cup Malformed THEN "idle" ELSE "register"
    BY <1>7, Moved
  <2>. QED  BY <1>7, <2>1 DEF LookupImage, Leave
<1>8. CASE FindInFlight
  <2>1. pc' \in [Threads -> Steps] /\ pc'["net"] = pc["net"]
        /\ pc'["main"] = "idle"
    BY <1>8, Moved
  <2>. QED  BY <1>8, <2>1 DEF FindInFlight, Leave
<1>9. CASE Register
  <2>1. pc' \in [Threads -> Steps] /\ pc'["net"] = pc["net"]
        /\ pc'["main"] = "resume"
    BY <1>9, Moved
  <2>2. /\ Ids' = Ids \cup {Len(tasks')} /\ Len(tasks') \notin Ids /\ Len(tasks') # NoTask
        /\ \A i \in Ids : tasks'[i] = tasks[i]
        /\ tasks'[Len(tasks')].view = view /\ tasks'[Len(tasks')].url = url
        /\ tasks'[Len(tasks')].status = "created" /\ imagesDownloadTasks'[url] = Len(tasks')
        /\ \A u \in Urls : u # url => imagesDownloadTasks'[u] = imagesDownloadTasks[u]
    BY <1>9, Created DEF Register, NoTask
  <2>. QED  BY <1>9, <2>1, <2>2 DEF Register
<1>10. CASE Resume
  <2>1. pc' \in [Threads -> Steps] /\ pc'["net"] = pc["net"]
        /\ pc'["main"] = "idle"
    BY <1>10, Moved
  <2>2. /\ Ids' = Ids /\ Len(tasks') = Len(tasks) /\ Len(tasks) \in Ids
        /\ \A i \in Ids : tasks'[i].view = tasks[i].view /\ tasks'[i].url = tasks[i].url
        /\ \A i \in Ids : i # Len(tasks) => tasks'[i].status = tasks[i].status
        /\ tasks'[Len(tasks)].status = "running"
    <3>1. Len(tasks) \in Ids
      BY <1>10 DEF Resume
    <3>. QED  BY <1>10, <3>1, Marked DEF Resume
  <2>3. UNCHANGED <<imagesDownloadTasks, reply>> /\ pc["main"] = "resume"
    BY <1>10 DEF Resume, Leave
  <2>4. \A i \in Ids : /\ tasks'[i].status \in {"created", "running"} => i = Len(tasks) \/ Live(i)
                      /\ tasks'[i].status # "arrived"
    BY <2>2
  <2>. QED  BY <2>1, <2>2, <2>3, <2>4
<1>11. CASE RunHandler
  BY <1>11 DEF RunHandler
<1>12. CASE CacheImage
  <2>1. pc' \in [Threads -> Steps] /\ pc'["main"] = pc["main"]
        /\ pc'["net"] = "remove"
    BY <1>12, Moved
  <2>. QED  BY <1>12, <2>1 DEF CacheImage
<1>13. CASE RemoveEntry
  <2>1. pc' \in [Threads -> Steps] /\ pc'["main"] = pc["main"]
        /\ pc'["net"] = "post"
    BY <1>13, Moved
  <2>. QED  BY <1>13, <2>1 DEF RemoveEntry
<1>14. CASE PostHandler
  <2>1. pc' \in [Threads -> Steps] /\ pc'["main"] = pc["main"]
        /\ pc'["net"] = "idle"
    BY <1>14, Moved
  <2>. QED  BY <1>14, <2>1 DEF PostHandler
<1>15. ASSUME NEW t \in Ids, NoData(t) PROVE OneTask'
  <2>2. /\ Ids' = Ids /\ Len(tasks') = Len(tasks)
        /\ \A i \in Ids : tasks'[i].view = tasks[i].view /\ tasks'[i].url = tasks[i].url
        /\ \A i \in Ids : i # t => tasks'[i].status = tasks[i].status
        /\ tasks'[t].status = "done"
    BY <1>15, Marked DEF NoData
  <2>. QED  BY <1>15, <2>2, SMTT(30) DEF NoData
<1>16. ASSUME NEW t \in Ids, Truncated(t) PROVE OneTask'
  <2>2. /\ Ids' = Ids /\ Len(tasks') = Len(tasks)
        /\ \A i \in Ids : tasks'[i].view = tasks[i].view /\ tasks'[i].url = tasks[i].url
        /\ \A i \in Ids : i # t => tasks'[i].status = tasks[i].status
        /\ tasks'[t].status = "done"
    BY <1>16, Marked DEF Truncated
  <2>. QED  BY <1>16, <2>2 DEF Truncated
<1>17. ASSUME NEW t \in Ids, DataArrived(t) PROVE OneTask'
  <2>1. pc' \in [Threads -> Steps] /\ pc'["main"] = pc["main"]
        /\ pc'["net"] = "cache"
    BY <1>17, Moved
  <2>2. /\ Ids' = Ids /\ Len(tasks') = Len(tasks)
        /\ \A i \in Ids : tasks'[i].view = tasks[i].view /\ tasks'[i].url = tasks[i].url
        /\ \A i \in Ids : i # t => tasks'[i].status = tasks[i].status
        /\ tasks'[t].status = "done"
    BY <1>17, Marked DEF DataArrived
  <2>3. /\ UNCHANGED <<imagesDownloadTasks, imageUrl, view, found>> /\ tasks[t].status = "running"
        /\ reply'.task = t
    BY <1>17 DEF DataArrived
  <2>4. \A i \in Ids : /\ tasks'[i].status \in {"created", "running"} => Live(i) /\ i # t
                      /\ tasks'[i].status # "arrived"
    BY <2>2
  <2>5. imagesDownloadTasks[tasks[t].url] = t
    BY <2>3
  <2>6. pc["main"] = "erase" => found # t /\ tasks'[found].status \notin {"created", "running"}
    BY <2>2, <2>3, <2>4
  <2>7. \A i \in Ids : tasks'[i].status \in {"created", "running"} => imagesDownloadTasks[tasks'[i].url] = i
    BY <2>2, <2>4
  <2>. QED  BY <2>1, <2>2, <2>3, <2>4, <2>5, <2>6, <2>7
<1>18. CASE UNCHANGED vars
  BY <1>18 DEF vars
<1>. QED
  BY <1>1, <1>2, <1>3, <1>4, <1>5, <1>6, <1>7, <1>8, <1>9, <1>10, <1>11,
     <1>12, <1>13, <1>14, <1>15, <1>16, <1>17, <1>18
  DEF Next, Scroll, Main, Net, Completion

(* Nothing is shown. *)
LEMMA ViewInit == Init => ViewInv
<1>1. Init => Ids = {} /\ pc["main"] = "idle" /\ DOMAIN mainQueue = {} /\ Headers \subseteq Views
  BY DEF Init, Ids, Threads, Views
<1>. QED  BY <1>1 DEF Init, ViewInv, OwnImage, TasksOwn, ReplyOwn, HandlersOwn,
     RowAtHand, Quiet

(* Tasks are for their rows still when only their statuses change. *)
LEMMA TasksStillOwn ==
  ASSUME TasksOwn, Ids' = Ids, UNCHANGED <<row, imageUrl>>,
         \A i \in Ids : tasks'[i].view = tasks[i].view /\ tasks'[i].url = tasks[i].url,
         \A i \in Ids : tasks'[i].status \in {"created", "running"} => Live(i),
         \/ pc'["main"] = pc["main"] /\ UNCHANGED view
         \/ pc'["main"] = "idle" /\ pc["main"] = "resume"
  PROVE  TasksOwn'
<1>. QED  BY DEF TasksOwn, Live, Quiet

(* A cell that is reused ends the task of its last url, the only one that can  *)
(* still be answered for it, and nothing of it is on its way when it asks      *)
(* anew, or the Events say so.                                                 *)
LEMMA ViewStep ==
  TypeOK /\ LocalInv /\ EntryInv /\ TaskInv /\ ViewInv /\ [Next]_vars => ViewInv'
<1>. SUFFICES ASSUME TypeOK, LocalInv, EntryInv, TaskInv, ViewInv, [Next]_vars,
                     Without({"late", "raced"})'
              PROVE  OwnImage'
  BY DEF ViewInv
<1>0. /\ imagesDownloadTasks \in [Urls -> Ids \cup {NoTask}] /\ NoTask \notin Ids
      /\ found \in Ids \cup {NoTask} /\ NoReply.task = NoTask
      /\ imageUrl \in [Views -> Urls \cup {NoUrl}] /\ shown \in [Views -> Urls \cup {NoUrl}]
      /\ row \in [Views -> Urls \cup {NoUrl}]
      /\ \A i \in DOMAIN mainQueue : mainQueue[i].view \in Views
  <2>1. \A i \in DOMAIN mainQueue : mainQueue[i] \in Handler
    BY Typed
  <2>. QED  BY <2>1 DEF TypeOK, Ids, NoTask, NoReply, Handler
<1>0a. UNCHANGED tasks => UNCHANGED Ids
  BY DEF Ids
<1>0b. /\ \A u \in Urls : imagesDownloadTasks[u] # NoTask => tasks[imagesDownloadTasks[u]].url = u
       /\ pc["main"] \in {"cancel", "erase"} => tasks[found].url = imageUrl[view]
       /\ \A t \in Ids : tasks[t].status = "created" => pc["main"] = "resume" /\ t = Len(tasks)
       /\ pc["main"] = "resume" => tasks[Len(tasks)].status = "created"
  BY DEF EntryInv
<1>0c. OneTask /\ OwnImage /\ "late" \notin history' /\ "raced" \notin history'
  BY HistoryGrows DEF TaskInv, ViewInv, Without
<1>. USE Typed, <1>0, <1>0a, <1>0b, <1>0c, NoUrlAssumption, ViewsAssumption
     DEF OwnImage, TasksOwn, ReplyOwn, HandlersOwn, RowAtHand, Quiet, LocalInv, Live, dictionaries, views, locals, Note, Running
<1>1. ASSUME NEW c \in Cells, NEW u \in Urls \cup {NoUrl}, Dequeue(c, u) PROVE OwnImage'
  <2>1. pc' \in [Threads -> Steps] /\ pc'["net"] = pc["net"]
        /\ pc'["main"] = IF imageUrl[c] = NoUrl THEN "populate" ELSE "find"
    BY <1>1, Moved
  <2>. QED  BY <1>1, <2>1 DEF Dequeue
<1>2. ASSUME NEW h \in Headers, NEW u \in Urls, PopulateHeader(h, u) PROVE OwnImage'
  <2>1. pc' \in [Threads -> Steps] /\ pc'["net"] = pc["net"]
        /\ pc'["main"] = "populate"
    BY <1>2, Moved
  <2>. QED  BY <1>2, <2>1 DEF PopulateHeader
<1>3. CASE FindTask
  <2>1. pc' \in [Threads -> Steps] /\ pc'["net"] = pc["net"]
        /\ pc'["main"] = IF found' = NoTask THEN "populate" ELSE "cancel"
    BY <1>3, Moved
  <2>2. \A t \in Ids : Live(t) /\ tasks[t].view = view => imagesDownloadTasks[imageUrl[view]] = t
    BY <1>3 DEF OneTask, FindTask
  <2>3. UNCHANGED <<tasks, shown, row, imageUrl, view, url, reply, mainQueue>> /\ pc["main"] = "find"
        /\ found' = imagesDownloadTasks[imageUrl[view]]
    BY <1>3 DEF FindTask
  <2>. QED  BY <2>1, <2>2, <2>3
<1>4. CASE CancelTask
  <2>1. pc' \in [Threads -> Steps] /\ pc'["net"] = pc["net"]
        /\ pc'["main"] = "erase"
    BY <1>4, Moved
  <2>2. /\ Ids' = Ids /\ Len(tasks') = Len(tasks)
        /\ \A i \in Ids : tasks'[i].view = tasks[i].view /\ tasks'[i].url = tasks[i].url
        /\ \A i \in Ids : i # found => tasks'[i].status = tasks[i].status
        /\ tasks'[found].status \in {tasks[found].status, "cancelled", "arrived"}
        /\ tasks[found].status # "running" => UNCHANGED tasks
    <3>1. UNCHANGED tasks => UNCHANGED Ids
      BY DEF Ids
    <3>. QED  BY <1>4, <3>1, Marked DEF CancelTask, Running
  <2>3. UNCHANGED <<shown, row, imageUrl, view, url, found, reply, mainQueue>> /\ pc["main"] = "cancel"
    BY <1>4 DEF CancelTask
  <2>4. tasks[found].status = "running" => tasks'[found].status = "cancelled"
    BY <1>4, Marked DEF CancelTask
  <2>5. \A t \in Ids : Live(t) /\ tasks[t].view = view => t = found
    BY <2>3 DEF OneTask
  <2>6. \A t \in Ids : tasks'[t].status \in {"created", "running"} => Live(t) /\ tasks[t].view # view
    BY <2>2, <2>3, <2>4, <2>5
  <2>7. TasksOwn'
    BY <2>1, <2>2, <2>3, <2>6, TasksStillOwn
  <2>8. reply # NoReply => tasks'[reply.task].view = tasks[reply.task].view
    BY <2>2
  <2>. QED  BY <2>1, <2>3, <2>7, <2>8
<1>5. CASE EraseEntry
  <2>1. pc' \in [Threads -> Steps] /\ pc'["net"] = pc["net"]
        /\ pc'["main"] = "populate"
    BY <1>5, Moved
  <2>2. UNCHANGED <<tasks, shown, row, imageUrl, view, url, reply, mainQueue>> /\ pc["main"] = "erase"
    BY <1>5 DEF EraseEntry
  <2>. QED  BY <2>1, <2>2
<1>6. CASE Populate
  <2>1. pc' \in [Threads -> Steps] /\ pc'["net"] = pc["net"]
        /\ pc'["main"] = IF url = NoUrl THEN "idle" ELSE "lookup"
    BY <1>6, Moved
  <2>2. /\ UNCHANGED <<tasks, shown, row, reply, mainQueue>> /\ pc["main"] = "populate"
        /\ imageUrl' = IF url = NoUrl THEN imageUrl ELSE [imageUrl EXCEPT ![view] = url]
        /\ url # NoUrl => UNCHANGED <<view, url>>
    BY <1>6 DEF Populate
  <2>3. /\ reply # NoReply => tasks[reply.task].view # view
        /\ \A i \in DOMAIN mainQueue : mainQueue[i].view # view
    BY <1>6 DEF Populate, HandlerPending
  <2>4. \A t \in Ids : Live(t) /\ tasks[t].view = view => view \in Headers /\ tasks[t].url = url
    BY <2>2 DEF Views
  <2>5. view \in Headers => url # NoUrl
    BY <2>2
  <2>. QED  BY <2>1, <2>2, <2>3, <2>4, <2>5
<1>7. CASE LookupImage
  <2>1. pc' \in [Threads -> Steps] /\ pc'["net"] = pc["net"]
        /\ pc'["main"] = IF url \in cachedImages \cup Malformed THEN "idle" ELSE "register"
    BY <1>7, Moved
  <2>. QED  BY <1>7, <2>1 DEF LookupImage, Leave
<1>8. CASE FindInFlight
  <2>1. pc' \in [Threads -> Steps] /\ pc'["net"] = pc["net"]
        /\ pc'["main"] = "idle"
    BY <1>8, Moved
  <2>. QED  BY <1>8, <2>1 DEF FindInFlight, Leave
<1>9. CASE Register
  <2>1. pc' \in [Threads -> Steps] /\ pc'["net"] = pc["net"]
        /\ pc'["main"] = "resume"
    BY <1>9, Moved
  <2>2. /\ Ids' = Ids \cup {Len(tasks')} /\ Len(tasks') \notin Ids /\ Len(tasks') # NoTask
        /\ \A i \in Ids : tasks'[i] = tasks[i]
        /\ tasks'[Len(tasks')].view = view /\ tasks'[Len(tasks')].url = url
        /\ tasks'[Len(tasks')].status = "created" /\ imagesDownloadTasks'[url] = Len(tasks')
        /\ \A u \in Urls : u # url => imagesDownloadTasks'[u] = imagesDownloadTasks[u]
    BY <1>9, Created DEF Register, NoTask
  <2>. QED  BY <1>9, <2>1, <2>2 DEF Register
<1>10. CASE Resume
  <2>1. pc' \in [Threads -> Steps] /\ pc'["net"] = pc["net"]
        /\ pc'["main"] = "idle"
    BY <1>10, Moved
  <2>2. /\ Ids' = Ids /\ Len(tasks') = Len(tasks) /\ Len(tasks) \in Ids
        /\ \A i \in Ids : tasks'[i].view = tasks[i].view /\ tasks'[i].url = tasks[i].url
        /\ \A i \in Ids : i # Len(tasks) => tasks'[i].status = tasks[i].status
        /\ tasks'[Len(tasks)].status = "running"
    <3>1. Len(tasks) \in Ids
      BY <1>10 DEF Resume
    <3>. QED  BY <1>10, <3>1, Marked DEF Resume
  <2>3. \A i \in Ids : tasks'[i].status \in {"created", "running"} => Live(i)
    BY <1>10, <2>2 DEF Resume
  <2>4. UNCHANGED <<shown, row, imageUrl, reply, mainQueue>> /\ pc["main"] = "resume"
    BY <1>10 DEF Resume
  <2>7. TasksOwn'
    BY <2>1, <2>2, <2>3, <2>4, TasksStillOwn
  <2>8. reply # NoReply => tasks'[reply.task].view = tasks[reply.task].view
    BY <2>2
  <2>. QED  BY <2>1, <2>4, <2>7, <2>8
<1>11. CASE RunHandler
  BY <1>11 DEF RunHandler
<1>12. CASE CacheImage
  <2>1. pc' \in [Threads -> Steps] /\ pc'["main"] = pc["main"]
        /\ pc'["net"] = "remove"
    BY <1>12, Moved
  <2>. QED  BY <1>12, <2>1 DEF CacheImage
<1>13. CASE RemoveEntry
  <2>1. pc' \in [Threads -> Steps] /\ pc'["main"] = pc["main"]
        /\ pc'["net"] = "post"
    BY <1>13, Moved
  <2>. QED  BY <1>13, <2>1 DEF RemoveEntry
<1>14. CASE PostHandler
  <2>1. pc' \in [Threads -> Steps] /\ pc'["main"] = pc["main"]
        /\ pc'["net"] = "idle"
    BY <1>14, Moved
  <2>. QED  BY <1>14, <2>1 DEF PostHandler
<1>15. ASSUME NEW t \in Ids, NoData(t) PROVE OwnImage'
  <2>2. /\ Ids' = Ids /\ Len(tasks') = Len(tasks)
        /\ \A i \in Ids : tasks'[i].view = tasks[i].view /\ tasks'[i].url = tasks[i].url
        /\ \A i \in Ids : i # t => tasks'[i].status = tasks[i].status
        /\ tasks'[t].status = "done"
    BY <1>15, Marked DEF NoData
  <2>. QED  BY <1>15, <2>2 DEF NoData
<1>16. ASSUME NEW t \in Ids, Truncated(t) PROVE OwnImage'
  <2>2. /\ Ids' = Ids /\ Len(tasks') = Len(tasks)
        /\ \A i \in Ids : tasks'[i].view = tasks[i].view /\ tasks'[i].url = tasks[i].url
        /\ \A i \in Ids : i # t => tasks'[i].status = tasks[i].status
        /\ tasks'[t].status = "done"
    BY <1>16, Marked DEF Truncated
  <2>3. \A i \in Ids : tasks'[i].status \in {"created", "running"} => Live(i)
    BY <2>2
  <2>4. UNCHANGED <<shown, row, imageUrl, view, url, reply, pc>> /\ tasks[t].view \in Views
    BY <1>16 DEF Truncated
  <2>5. PICK x \in Handler : x = [view |-> tasks[t].view, image |-> NoUrl]
    BY <2>4 DEF Handler
  <2>6. \A i \in DOMAIN mainQueue' : (i \in DOMAIN mainQueue /\ mainQueue'[i] = mainQueue[i]) \/ mainQueue'[i] = x
    BY <1>16, <2>5, Appended DEF Truncated
  <2>7. TasksOwn'
    BY <2>2, <2>3, <2>4, TasksStillOwn
  <2>8. reply # NoReply => tasks'[reply.task].view = tasks[reply.task].view
    BY <2>2
  <2>9. \A i \in DOMAIN mainQueue' :
          Quiet(mainQueue'[i].view) => mainQueue'[i].image \in {NoUrl, row[mainQueue'[i].view]}
    BY <2>5, <2>6
  <2>. QED  BY <2>4, <2>7, <2>8, <2>9
<1>17. ASSUME NEW t \in Ids, DataArrived(t) PROVE OwnImage'
  <2>1. pc' \in [Threads -> Steps] /\ pc'["main"] = pc["main"]
        /\ pc'["net"] = "cache"
    BY <1>17, Moved
  <2>2. /\ Ids' = Ids /\ Len(tasks') = Len(tasks)
        /\ \A i \in Ids : tasks'[i].view = tasks[i].view /\ tasks'[i].url = tasks[i].url
        /\ \A i \in Ids : i # t => tasks'[i].status = tasks[i].status
        /\ tasks'[t].status = "done"
    BY <1>17, Marked DEF DataArrived
  <2>3. \A i \in Ids : tasks'[i].status \in {"created", "running"} => Live(i)
    BY <2>2
  <2>4. UNCHANGED <<shown, row, imageUrl, view, url, mainQueue>> /\ tasks[t].status \in {"running", "arrived"}
    BY <1>17 DEF DataArrived
  <2>5. reply'.task = t /\ reply'.image \in {tasks[t].url, NoUrl}
    BY <1>17 DEF DataArrived
  <2>6. Live(t)
    BY <2>4 DEF OneTask
  <2>7. TasksOwn'
    BY <2>1, <2>2, <2>3, <2>4, TasksStillOwn
  <2>8. Quiet(tasks'[t].view) => reply'.image \in {NoUrl, row[tasks'[t].view]}
    BY <2>2, <2>5, <2>6
  <2>. QED  BY <2>1, <2>4, <2>5, <2>7, <2>8
<1>18. CASE UNCHANGED vars
  BY <1>18 DEF vars
<1>. QED
  BY <1>1, <1>2, <1>3, <1>4, <1>5, <1>6, <1>7, <1>8, <1>9, <1>10, <1>11,
     <1>12, <1>13, <1>14, <1>15, <1>16, <1>17, <1>18
  DEF Next, Scroll, Main, Net, Completion

----------------------------------------------------------------------------
(* Nothing is under way. *)
LEMMA BringInit == Init => BringInv
<1>. QED  BY DEF Init, BringInv

(* Only a transfer that failed, or whose data is no image, brings none. *)
LEMMA BringStep == TypeOK /\ LocalInv /\ BringInv /\ [Next]_vars => BringInv'
<1>. SUFFICES ASSUME TypeOK, LocalInv, BringInv, [Next]_vars, Without({"failed", "junk"})'
              PROVE  BringInv'
  BY DEF BringInv
<1>0. Without({"failed", "junk"})
  BY HistoryGrows DEF Without
<1>a. /\ reply # NoReply => reply.image # NoUrl
      /\ \A i \in DOMAIN mainQueue : mainQueue[i].image # NoUrl
  BY <1>0 DEF BringInv
<1>b. UNCHANGED <<reply, mainQueue>> => BringInv'
  BY <1>a DEF BringInv
<1>1. ASSUME NEW c \in Cells, NEW u \in Urls \cup {NoUrl}, Dequeue(c, u) PROVE BringInv'
  BY <1>1, <1>b DEF Dequeue
<1>2. ASSUME NEW h \in Headers, NEW u \in Urls, PopulateHeader(h, u) PROVE BringInv'
  BY <1>2, <1>b DEF PopulateHeader
<1>3. CASE FindTask
  BY <1>3, <1>b DEF FindTask
<1>4. CASE CancelTask
  BY <1>4, <1>b DEF CancelTask
<1>5. CASE EraseEntry
  BY <1>5, <1>b DEF EraseEntry
<1>6. CASE Populate
  BY <1>6, <1>b DEF Populate
<1>7. CASE LookupImage
  BY <1>7, <1>b DEF LookupImage
<1>8. CASE FindInFlight
  BY <1>8, <1>b DEF FindInFlight
<1>9. CASE Register
  BY <1>9, <1>b DEF Register
<1>10. CASE Resume
  BY <1>10, <1>b DEF Resume
<1>11. CASE RunHandler
  <2>1. \A i \in DOMAIN mainQueue' : i + 1 \in DOMAIN mainQueue /\ mainQueue'[i] = mainQueue[i + 1]
    BY <1>11, Served, Typed DEF RunHandler
  <2>. QED  BY <1>11, <1>a, <2>1 DEF RunHandler, BringInv
<1>12. CASE CacheImage
  BY <1>12, <1>b DEF CacheImage
<1>13. CASE RemoveEntry
  BY <1>13, <1>b DEF RemoveEntry
<1>14. CASE PostHandler
  <2>1. reply # NoReply
    BY <1>14 DEF PostHandler, LocalInv
  <2>2. PICK x \in Handler : x = [view |-> tasks[reply.task].view, image |-> reply.image]
    BY <2>1, Typed DEF Handler
  <2>3. mainQueue' = Append(mainQueue, x) /\ reply' = NoReply
    BY <1>14, <2>2 DEF PostHandler
  <2>4. \A i \in DOMAIN mainQueue' :
          (i \in DOMAIN mainQueue /\ mainQueue'[i] = mainQueue[i]) \/ mainQueue'[i] = x
    BY <2>3, Typed, Appended
  <2>. QED  BY <1>a, <2>1, <2>2, <2>3, <2>4 DEF BringInv
<1>15. ASSUME NEW t \in Ids, NoData(t) PROVE BringInv'
  BY <1>15, <1>b DEF NoData
<1>16. ASSUME NEW t \in Ids, Truncated(t) PROVE BringInv'
  BY <1>16 DEF Truncated, Note, Without
<1>17. ASSUME NEW t \in Ids, DataArrived(t) PROVE BringInv'
  <2>1. reply'.image # NoUrl /\ UNCHANGED mainQueue
    BY <1>17 DEF DataArrived, Note, Without
  <2>. QED  BY <1>a, <2>1 DEF BringInv
<1>18. CASE UNCHANGED vars
  BY <1>18, <1>b DEF vars
<1>. QED
  BY <1>1, <1>2, <1>3, <1>4, <1>5, <1>6, <1>7, <1>8, <1>9, <1>10, <1>11,
     <1>12, <1>13, <1>14, <1>15, <1>16, <1>17, <1>18
  DEF Next, Scroll, Main, Net, Completion

(* No view has a row. *)
LEMMA AwaitInit == Init => AwaitInv
<1>. QED  BY DEF Init, AwaitInv, Awaited, Threads

(* An image is under way still when its task, its reply and its handler are. *)
LEMMA StillUnderWay ==
  ASSUME NEW v, UnderWay(v), row'[v] = row[v], UNCHANGED <<reply, mainQueue>>, Ids \subseteq Ids',
         reply # NoReply => reply.task \in Ids,
         \A i \in Ids : tasks'[i].view = tasks[i].view /\ tasks'[i].url = tasks[i].url,
         \A i \in Ids : Running(i) /\ tasks[i].view = v => tasks'[i].status = "running"
  PROVE  UnderWay(v)'
<1>. QED  BY DEF UnderWay, Running

(* The main thread leaves a view only when it shows its image or its task runs, *)
(* and the image passes from the task to the reply to the handler to the view.  *)
LEMMA AwaitStep ==
  TypeOK /\ LocalInv /\ ViewInv /\ BringInv /\ AwaitInv /\ [Next]_vars => AwaitInv'
<1>. SUFFICES ASSUME TypeOK, LocalInv, ViewInv, BringInv, AwaitInv, [Next]_vars PROVE AwaitInv'
  OBVIOUS
<1>0. /\ imagesDownloadTasks \in [Urls -> Ids \cup {NoTask}] /\ found \in Ids \cup {NoTask}
      /\ shown \in [Views -> Urls \cup {NoUrl}] /\ row \in [Views -> Urls \cup {NoUrl}]
  BY DEF TypeOK
<1>a. UNCHANGED tasks => UNCHANGED <<Ids, Len(tasks)>>
  BY DEF Ids
<1>b. history' = {} => /\ history = {} /\ OwnImage
                       /\ reply # NoReply => reply.image # NoUrl
                       /\ \A i \in DOMAIN mainQueue : mainQueue[i].image # NoUrl
  BY HistoryGrows DEF ViewInv, BringInv, Without
<1>c. \A v : UNCHANGED <<tasks, reply, mainQueue, row>> /\ UnderWay(v) => UnderWay(v)'
  BY <1>a DEF UnderWay, Running
<1>. USE Typed, <1>0, NoUrlAssumption, ViewsAssumption
     DEF AwaitInv, LocalInv, dictionaries, views, locals, Note
<1>1. ASSUME NEW c \in Cells, NEW u \in Urls \cup {NoUrl}, Dequeue(c, u) PROVE AwaitInv'
  <2>1. pc'["main"] \in {"populate", "find"}
    BY <1>1, Moved
  <2>2. ASSUME history' = {}, NEW v \in Views PROVE Awaited(v)'
    <3>1. CASE v = c
      BY <1>1, <3>1 DEF Dequeue, Awaited
    <3>2. CASE v # c
      <4>1. shown'[v] = shown[v] /\ row'[v] = row[v] /\ UNCHANGED <<tasks, reply, mainQueue>>
        BY <1>1, <3>2 DEF Dequeue
      <4>2. shown[v] = row[v] \/ row[v] \in Malformed \/ UnderWay(v)
        BY <1>1, <1>b, <2>2 DEF Dequeue, Awaited
      <4>3. UnderWay(v) => UnderWay(v)'
        BY <4>1, <1>a DEF UnderWay, Running
      <4>. QED  BY <4>1, <4>2, <4>3 DEF Awaited
    <3>. QED  BY <3>1, <3>2
  <2>. QED  BY <2>1, <2>2
<1>2. ASSUME NEW h \in Headers, NEW u \in Urls, PopulateHeader(h, u) PROVE AwaitInv'
  <2>1. pc'["main"] = "populate"
    BY <1>2, Moved
  <2>2. ASSUME history' = {}, NEW v \in Views PROVE Awaited(v)'
    <3>1. CASE v = h
      BY <1>2, <3>1 DEF PopulateHeader, Awaited
    <3>2. CASE v # h
      <4>1. shown'[v] = shown[v] /\ row'[v] = row[v] /\ UNCHANGED <<tasks, reply, mainQueue>>
        BY <1>2, <3>2 DEF PopulateHeader
      <4>2. shown[v] = row[v] \/ row[v] \in Malformed \/ UnderWay(v)
        BY <1>2, <1>b, <2>2 DEF PopulateHeader, Awaited
      <4>3. UnderWay(v) => UnderWay(v)'
        BY <4>1, <1>a DEF UnderWay, Running
      <4>. QED  BY <4>1, <4>2, <4>3 DEF Awaited
    <3>. QED  BY <3>1, <3>2
  <2>. QED  BY <2>1, <2>2
<1>3. CASE FindTask
  <2>1. pc'["main"] \in {"populate", "cancel"}
    BY <1>3, Moved
  <2>2. UNCHANGED <<tasks, shown, row, view, reply, mainQueue, history>>
    BY <1>3 DEF FindTask
  <2>. QED  BY <1>c, <2>1, <2>2 DEF Awaited
<1>4. CASE CancelTask
  <2>1. pc'["main"] = "erase"
    BY <1>4, Moved
  <2>2. UNCHANGED <<shown, row, view, reply, mainQueue>>
    BY <1>4 DEF CancelTask
  <2>3. /\ Ids' = Ids
        /\ \A i \in Ids : tasks'[i].view = tasks[i].view /\ tasks'[i].url = tasks[i].url
        /\ \A i \in Ids : i # found => tasks'[i].status = tasks[i].status
    BY <1>4, <1>a, Marked DEF CancelTask
  <2>4. ASSUME history' = {}, NEW v \in Views PROVE Awaited(v)'
    <3>1. Running(found) => tasks[found].view = view
      BY <1>4, <2>4 DEF CancelTask
    <3>2. view # v /\ UnderWay(v) => UnderWay(v)'
      BY <2>2, <2>3, <3>1, StillUnderWay DEF Running
    <3>. QED  BY <1>b, <2>2, <2>4, <3>2 DEF Awaited
  <2>. QED  BY <2>1, <2>4
<1>5. CASE EraseEntry
  <2>1. pc'["main"] = "populate"
    BY <1>5, Moved
  <2>2. UNCHANGED <<tasks, shown, row, view, reply, mainQueue>>
    BY <1>5 DEF EraseEntry
  <2>. QED  BY <1>b, <1>c, <2>1, <2>2 DEF Awaited
<1>6. CASE Populate
  <2>1. pc'["main"] = IF url = NoUrl THEN "idle" ELSE "lookup"
    BY <1>6, Moved
  <2>2. /\ UNCHANGED <<tasks, shown, row, reply, mainQueue>>
        /\ IF url = NoUrl THEN view' = NoView ELSE view' = view
    BY <1>6 DEF Populate, Leave
  <2>3. history' = {} /\ url = NoUrl => shown[view] = row[view]
    BY <1>6, <1>b DEF Populate, OwnImage, RowAtHand
  <2>. QED  BY <1>b, <1>c, <2>1, <2>2, <2>3 DEF Awaited
<1>7. CASE LookupImage
  <2>1. pc'["main"] = IF url \in cachedImages \cup Malformed THEN "idle" ELSE "register"
    BY <1>7, Moved
  <2>2. UNCHANGED <<tasks, row, reply, mainQueue, history>>
    BY <1>7 DEF LookupImage
  <2>3. CASE url \in cachedImages
    <3>1. shown' = [shown EXCEPT ![view] = url] /\ view' = NoView
      BY <1>7, <2>3 DEF LookupImage, Leave
    <3>2. history' = {} => row[view] = url
      BY <1>7, <1>b DEF LookupImage, OwnImage, RowAtHand
    <3>3. view \in Views /\ pc'["main"] = "idle"
      BY <1>7, <2>1, <2>3 DEF LookupImage
    <3>. QED  BY <1>b, <1>c, <2>2, <3>1, <3>2, <3>3 DEF Awaited
  <2>4. CASE url \in Malformed \ cachedImages
    <3>1. shown' = [shown EXCEPT ![view] = NoUrl] /\ view' = NoView
      BY <1>7, <2>4 DEF LookupImage, Leave
    <3>2. history' = {} => row[view] \in Malformed
      BY <1>7, <1>b, <2>4 DEF LookupImage, OwnImage, RowAtHand
    <3>3. view \in Views /\ pc'["main"] = "idle"
      BY <1>7, <2>1, <2>4 DEF LookupImage
    <3>. QED  BY <1>b, <1>c, <2>2, <3>1, <3>2, <3>3 DEF Awaited
  <2>5. CASE url \notin cachedImages \cup Malformed
    <3>1. UNCHANGED <<shown, view>>
      BY <1>7, <2>5 DEF LookupImage
    <3>. QED  BY <1>c, <2>1, <2>2, <2>5, <3>1 DEF Awaited
  <2>. QED  BY <2>3, <2>4, <2>5
<1>8. CASE FindInFlight
  <2>1. pc'["main"] = "idle"
    BY <1>8, Moved
  <2>2. view' = NoView /\ history' # {}
    BY <1>8 DEF FindInFlight, Leave
  <2>. QED  BY <2>1, <2>2
<1>9. CASE Register
  <2>1. pc'["main"] = "resume"
    BY <1>9, Moved
  <2>2. UNCHANGED <<shown, row, view, url, reply, mainQueue, history>>
    BY <1>9 DEF Register
  <2>3. /\ Ids' = Ids \cup {Len(tasks')} /\ Len(tasks') \notin Ids
        /\ \A i \in Ids : tasks'[i] = tasks[i]
        /\ tasks'[Len(tasks')].view = view /\ tasks'[Len(tasks')].url = url
    BY <1>9, Created DEF Register
  <2>4. \A v \in Views : UnderWay(v) => UnderWay(v)'
    BY <2>2, <2>3, StillUnderWay DEF Running
  <2>. QED  BY <2>1, <2>2, <2>3, <2>4 DEF Awaited
<1>10. CASE Resume
  <2>1. pc'["main"] = "idle"
    BY <1>10, Moved
  <2>2. UNCHANGED <<shown, row, reply, mainQueue, history>> /\ view' = NoView
    BY <1>10 DEF Resume, Leave
  <2>3. /\ Ids' = Ids /\ Len(tasks) \in Ids
        /\ \A i \in Ids : tasks'[i].view = tasks[i].view /\ tasks'[i].url = tasks[i].url
        /\ \A i \in Ids : i # Len(tasks) => tasks'[i].status = tasks[i].status
        /\ tasks'[Len(tasks)].status = "running"
    <3>1. Len(tasks) \in Ids
      BY <1>10 DEF Resume
    <3>. QED  BY <1>10, <3>1, Marked DEF Resume
  <2>4. \A v \in Views : UnderWay(v) => UnderWay(v)'
    BY <2>2, <2>3, StillUnderWay DEF Running
  <2>5. ASSUME history' = {}, NEW v \in Views, v = view PROVE UnderWay(v)'
    <3>1. row[view] = url
      BY <1>10, <1>b, <2>5 DEF Resume, OwnImage, RowAtHand
    <3>2. tasks[Len(tasks)].view = view /\ tasks[Len(tasks)].url = url
      BY <1>10 DEF Resume
    <3>. QED  BY <2>2, <2>3, <2>5, <3>1, <3>2 DEF UnderWay, Running
  <2>. QED  BY <1>b, <2>1, <2>2, <2>4, <2>5 DEF Awaited
<1>11. CASE RunHandler
  <2>1. /\ UNCHANGED <<tasks, row, view, reply, pc, history>> /\ mainQueue # <<>> /\ view = NoView
        /\ shown' = [shown EXCEPT ![Head(mainQueue).view] = Head(mainQueue).image]
    BY <1>11 DEF RunHandler
  <2>2. /\ 1 \in DOMAIN mainQueue /\ Head(mainQueue) = mainQueue[1] /\ Head(mainQueue) \in Handler
        /\ \A i \in DOMAIN mainQueue : i # 1 =>
              i - 1 \in DOMAIN mainQueue' /\ mainQueue'[i - 1] = mainQueue[i]
    BY <1>11 DEF RunHandler
  <2>3. ASSUME history' = {} PROVE Head(mainQueue).image = row[Head(mainQueue).view]
    <3>1. Quiet(Head(mainQueue).view)
      BY <1>11 DEF RunHandler, Quiet
    <3>. QED  BY <1>b, <2>2, <2>3, <3>1 DEF OwnImage, HandlersOwn
  <2>4. ASSUME history' = {}, NEW v \in Views PROVE Awaited(v)'
    <3>1. CASE v = Head(mainQueue).view
      BY <2>1, <2>3, <2>4, <3>1 DEF Awaited
    <3>2. CASE v # Head(mainQueue).view
      <4>1. shown'[v] = shown[v]
        BY <2>1, <3>2
      <4>2. shown[v] = row[v] \/ row[v] \in Malformed \/ UnderWay(v)
        BY <1>b, <2>1, <2>4 DEF Awaited
      <4>3. UnderWay(v) => UnderWay(v)'
        BY <1>a, <2>1, <2>2, <3>2 DEF UnderWay, Running
      <4>. QED  BY <2>1, <4>1, <4>2, <4>3 DEF Awaited
    <3>. QED  BY <3>1, <3>2
  <2>. QED  BY <1>a, <2>1, <2>4, <1>11 DEF RunHandler
<1>12. CASE CacheImage
  <2>1. pc'["main"] = pc["main"]
    BY <1>12, Moved
  <2>. QED  BY <1>12, <1>a, <1>c, <2>1 DEF CacheImage, Awaited
<1>13. CASE RemoveEntry
  <2>1. pc'["main"] = pc["main"]
    BY <1>13, Moved
  <2>. QED  BY <1>13, <1>a, <1>b, <1>c, <2>1 DEF RemoveEntry, Awaited
<1>14. CASE PostHandler
  <2>1. pc'["main"] = pc["main"]
    BY <1>14, Moved
  <2>2. UNCHANGED <<tasks, shown, row, view, url, history>> /\ reply # NoReply
    BY <1>14 DEF PostHandler
  <2>3. PICK x \in Handler : x = [view |-> tasks[reply.task].view, image |-> reply.image]
    BY <2>2 DEF Handler
  <2>4. mainQueue' = Append(mainQueue, x)
    BY <1>14, <2>3 DEF PostHandler
  <2>5. /\ DOMAIN mainQueue' = DOMAIN mainQueue \cup {Len(mainQueue) + 1}
        /\ mainQueue'[Len(mainQueue) + 1] = x
        /\ \A i \in DOMAIN mainQueue : mainQueue'[i] = mainQueue[i]
    BY <2>4, Appended
  <2>6. \A v \in Views : UnderWay(v) => UnderWay(v)'
    BY <1>a, <2>2, <2>3, <2>5, SMTT(30) DEF UnderWay, Running
  <2>. QED  BY <1>a, <2>1, <2>2, <2>6 DEF Awaited
<1>15. ASSUME NEW t \in Ids, NoData(t) PROVE AwaitInv'
  <2>1. UNCHANGED <<shown, row, view, url, reply, mainQueue, pc>>
    BY <1>15 DEF NoData
  <2>2. /\ Ids' = Ids /\ Len(tasks') = Len(tasks)
        /\ \A i \in Ids : tasks'[i].view = tasks[i].view /\ tasks'[i].url = tasks[i].url
        /\ \A i \in Ids : i # t => tasks'[i].status = tasks[i].status
    BY <1>15, Marked DEF NoData
  <2>3. ASSUME history' = {}, NEW v \in Views PROVE Awaited(v)'
    <3>1. ~Running(t)
      BY <1>15, <2>3 DEF NoData
    <3>2. UnderWay(v) => UnderWay(v)'
      BY <2>1, <2>2, <3>1, StillUnderWay DEF Running
    <3>. QED  BY <1>b, <2>1, <2>3, <3>2 DEF Awaited
  <2>. QED  BY <2>1, <2>2, <2>3
<1>16. ASSUME NEW t \in Ids, Truncated(t) PROVE AwaitInv'
  <2>1. UNCHANGED <<view, url, pc>> /\ history' # {}
    BY <1>16 DEF Truncated
  <2>2. /\ Ids' = Ids /\ Len(tasks') = Len(tasks)
        /\ \A i \in Ids : tasks'[i].view = tasks[i].view /\ tasks'[i].url = tasks[i].url
    BY <1>16, Marked DEF Truncated
  <2>. QED  BY <2>1, <2>2
<1>17. ASSUME NEW t \in Ids, DataArrived(t) PROVE AwaitInv'
  <2>1. pc'["main"] = pc["main"]
    BY <1>17, Moved
  <2>2. UNCHANGED <<shown, row, view, url, mainQueue>> /\ reply = NoReply
    BY <1>17 DEF DataArrived
  <2>3. /\ Ids' = Ids /\ Len(tasks') = Len(tasks)
        /\ \A i \in Ids : tasks'[i].view = tasks[i].view /\ tasks'[i].url = tasks[i].url
        /\ \A i \in Ids : i # t => tasks'[i].status = tasks[i].status
    BY <1>17, Marked DEF DataArrived
  <2>4. ASSUME history' = {}, NEW v \in Views PROVE Awaited(v)'
    <3>1. reply' = [task |-> t, image |-> tasks[t].url]
      BY <1>17, <2>4 DEF DataArrived
    <3>2. reply' # NoReply /\ reply'.task = t /\ reply'.image = tasks[t].url
      BY <3>1 DEF NoReply, NoTask
    <3>3. UnderWay(v) => UnderWay(v)'
      BY <2>2, <2>3, <3>2 DEF UnderWay, Running
    <3>. QED  BY <1>b, <2>2, <2>4, <3>3 DEF Awaited
  <2>. QED  BY <2>1, <2>2, <2>3, <2>4
<1>18. CASE UNCHANGED vars
  BY <1>18, <1>a, <1>c DEF vars, Awaited
<1>. QED
  BY <1>1, <1>2, <1>3, <1>4, <1>5, <1>6, <1>7, <1>8, <1>9, <1>10, <1>11,
     <1>12, <1>13, <1>14, <1>15, <1>16, <1>17, <1>18
  DEF Next, Scroll, Main, Net, Completion

----------------------------------------------------------------------------
(* The loader stays typed: an entry names a task, and a completion is one. *)
THEOREM TypeCorrect == Spec => []TypeOK
<1>. QED  BY TypeInit, TypeStep, PTL DEF Spec

(* An entry names a task of its url that will still be answered or whose entry *)
(* is about to go, until a transfer fails or a write is lost.                  *)
THEOREM EntriesLive == Spec => []EntryIsLive
<1>1. EntryInv => EntryIsLive
  BY DEF EntryInv
<1>. QED  BY TypeInit, TypeStep, EntryInit, EntryStep, <1>1, PTL DEF Spec

(* No url is downloaded twice at a time while cancellations beat replies. *)
THEOREM OneDownload == Spec => []SingleDownload
<1>1. TypeOK /\ LocalInv /\ TaskInv => SingleDownload
  BY DEF TaskInv, OneTask, Without, Live, Running, SingleDownload
<1>. QED
  BY TypeInit, TypeStep, EntryInit, EntryStep, TaskInit, TaskStep, <1>1, PTL DEF Spec

(* Nor does a reused view show the image of a row it left. *)
THEOREM ImagesOwn == Spec => []NoForeignImage
<1>1. ViewInv => NoForeignImage
  BY DEF ViewInv, OwnImage, Without, NoForeignImage
<1>. QED
  BY TypeInit, TypeStep, EntryInit, EntryStep, TaskInit, TaskStep, ViewInit, ViewStep, <1>1, PTL
  DEF Spec

(* A view that does not show its row's image is never forgotten: as long as    *)
(* none of the Events has happened, its row's text makes no url, its task runs, *)
(* its reply is being handled, or its handler is queued.                       *)
THEOREM ImagesUnderWay == Spec => []NoImageForgotten
<1>1. AwaitInv => NoImageForgotten
  BY DEF AwaitInv, Awaited, NoImageForgotten
<1>. QED
  BY TypeInit, TypeStep, EntryInit, EntryStep, TaskInit, TaskStep, ViewInit, ViewStep,
     BringInit, BringStep, AwaitInit, AwaitStep, <1>1, PTL
  DEF Spec

(* A step of the loader is one of the views' or none: a view is given a row,    *)
(* or shows its image, or a mishap happens.                                    *)
LEMMA ViewsMapped ==
  TypeOK /\ LocalInv /\ ViewInv /\ BringInv /\ [Next]_vars => [Image!Next]_(Image!vars)
<1>. DEFINE Mishaps == {"late", "raced", "failed", "junk"}
            spoiled == history \cap Mishaps # {}
<1>. SUFFICES ASSUME TypeOK, LocalInv, ViewInv, BringInv, [Next]_vars
              PROVE  [Image!Next]_(Image!vars)
  OBVIOUS
<1>0. /\ shown \in [Views -> Urls \cup {NoUrl}] /\ row \in [Views -> Urls \cup {NoUrl}]
      /\ imageUrl \in [Views -> Urls \cup {NoUrl}]
  BY DEF TypeOK
<1>a. UNCHANGED <<row, shown>> => [Image!Next]_(Image!vars)
  <2>1. spoiled => spoiled'
    BY HistoryGrows
  <2>. QED  BY <2>1 DEF Image!Next, Image!Spoil, Image!vars
<1>b. ~spoiled => /\ OwnImage
                  /\ reply # NoReply => reply.image # NoUrl
                  /\ \A i \in DOMAIN mainQueue : mainQueue[i].image # NoUrl
  BY DEF ViewInv, BringInv, Without
<1>. USE Typed, <1>0, NoUrlAssumption, ViewsAssumption DEF LocalInv, dictionaries, views, locals
<1>1. ASSUME NEW c \in Cells, NEW u \in Urls \cup {NoUrl}, Dequeue(c, u) PROVE Image!Next
  <2>1. Image!Stand(c, u)
    BY <1>1 DEF Dequeue, Image!Stand
  <2>. QED  BY <2>1 DEF Image!Next
<1>2. ASSUME NEW h \in Headers, NEW u \in Urls, PopulateHeader(h, u) PROVE Image!Next
  <2>1. UNCHANGED <<shown, history>> /\ row' = [row EXCEPT ![h] = u]
    BY <1>2 DEF PopulateHeader
  <2>2. row[h] = u \/ shown[h] = NoUrl \/ spoiled
    <3>1. pc["main"] = "idle" /\ imageUrl[h] \in {NoUrl, u}
      BY <1>2 DEF PopulateHeader
    <3>2. ~spoiled => row[h] = imageUrl[h] /\ shown[h] \in {NoUrl, row[h]}
      BY <1>b, <3>1 DEF OwnImage, RowAtHand, Quiet
    <3>. QED  BY <3>1, <3>2
  <2>3. Image!Stand(h, u)
    BY <2>1, <2>2 DEF Image!Stand
  <2>. QED  BY <2>3 DEF Image!Next
<1>7. CASE LookupImage
  <2>1. CASE url \in cachedImages
    <3>1. /\ shown' = [shown EXCEPT ![view] = url] /\ UNCHANGED <<row, history>>
          /\ view \in Views /\ url \in Urls
      BY <1>7, <2>1 DEF LookupImage
    <3>2. ~spoiled => row[view] = url
      BY <1>7, <1>b DEF LookupImage, OwnImage, RowAtHand
    <3>3. PICK v \in Views : v = view
      BY <3>1
    <3>4. Image!Show(v) \/ Image!ShowAny(v)
      BY <3>1, <3>2, <3>3 DEF Image!Show, Image!ShowAny
    <3>. QED  BY <3>4 DEF Image!Next
  <2>2. CASE url \in Malformed \ cachedImages
    <3>1. shown' = [shown EXCEPT ![view] = NoUrl] /\ UNCHANGED <<row, history>> /\ view \in Views
      BY <1>7, <2>2 DEF LookupImage
    <3>2. PICK v \in Views, u \in Urls \cup {NoUrl} : v = view /\ u = row[v]
      BY <3>1
    <3>3. Image!Stand(v, u)
      BY <3>1, <3>2 DEF Image!Stand
    <3>. QED  BY <3>3 DEF Image!Next
  <2>3. CASE url \notin cachedImages \cup Malformed
    BY <1>7, <1>a, <2>3 DEF LookupImage
  <2>. QED  BY <2>1, <2>2, <2>3
<1>11. CASE RunHandler
  <2>1. /\ shown' = [shown EXCEPT ![Head(mainQueue).view] = Head(mainQueue).image]
        /\ UNCHANGED <<row, history>> /\ pc["main"] = "idle" /\ mainQueue # <<>>
    BY <1>11 DEF RunHandler
  <2>2. Head(mainQueue) = mainQueue[1] /\ 1 \in DOMAIN mainQueue /\ Head(mainQueue) \in Handler
    BY <2>1, Served
  <2>3. PICK v \in Views : v = Head(mainQueue).view
    BY <2>2 DEF Handler
  <2>4. ~spoiled => Head(mainQueue).image = row[v] /\ row[v] # NoUrl
    BY <1>b, <2>1, <2>2, <2>3 DEF OwnImage, HandlersOwn, Quiet
  <2>5. Image!Show(v) \/ Image!ShowAny(v)
    BY <2>1, <2>2, <2>3, <2>4 DEF Image!Show, Image!ShowAny, Handler
  <2>. QED  BY <2>5 DEF Image!Next
<1>19. CASE \/ FindTask \/ CancelTask \/ EraseEntry \/ Populate \/ FindInFlight \/ Register \/ Resume
  BY <1>19, <1>a DEF FindTask, CancelTask, EraseEntry, Populate, FindInFlight, Register, Resume
<1>20. CASE CacheImage \/ RemoveEntry \/ PostHandler
  BY <1>20, <1>a DEF CacheImage, RemoveEntry, PostHandler
<1>21. ASSUME NEW t \in Ids, NoData(t) \/ Truncated(t) \/ DataArrived(t)
       PROVE  [Image!Next]_(Image!vars)
  BY <1>21, <1>a DEF NoData, Truncated, DataArrived
<1>22. CASE UNCHANGED vars
  BY <1>22, <1>a DEF vars
<1>. QED
  BY <1>1, <1>2, <1>7, <1>11, <1>19, <1>20, <1>21, <1>22 DEF Next, Scroll, Main, Net, Completion

(* The loader implements ImageView: short of the four mishaps a view shows     *)
(* nothing or its row's image, and keeps that image until it is given another  *)
(* row, however requests, cancellations and replies alternate.                 *)
THEOREM LoaderIsImageView == Spec => ViewSpec
<1>1. Init => Image!Init
  BY DEF Init, Image!Init
<1>. QED
  BY TypeInit, TypeStep, EntryInit, EntryStep, TaskInit, TaskStep, ViewInit, ViewStep,
     BringInit, BringStep, ViewsMapped, <1>1, PTL
  DEF Spec, ViewSpec, Image!Spec
================================================================================
