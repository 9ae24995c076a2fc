--------------------------- MODULE ImageDownlaoder ---------------------------
(* The image loader shared by every screen (ImageDownlaoder.swift), with the    *)
(* reusable cells and the album header that ask it for images.  Requests and    *)
(* cancellations come on the main thread, completions on the URLSession queue,  *)
(* and handlers are sent back to the main queue.  The two dictionaries sit      *)
(* behind concurrent queues: reads are `sync`, writes `sync` with a barrier,    *)
(* except the one in cancelDownloadForUrl.                                      *)
(*                                                                              *)
(* An image is the url it was loaded from; NoUrl stands for no url and for the  *)
(* blank and placeholder images.                                                *)
EXTENDS Naturals, Sequences, FiniteSets

CONSTANTS
  Cells,     \* reusable cells of the two grids
  Headers,   \* album headers: they load an image and never cancel
  Urls,      \* image urls, as text
  Malformed, \* those that make no URL
  NoView, NoUrl,
  MaxTasks   \* bound: number of data tasks created

Views == Cells \cup Headers
NoTask == 0

ASSUME ViewsAssumption == Cells \cap Headers = {} /\ NoView \notin Views
ASSUME NoUrlAssumption == NoUrl \notin Urls
ASSUME MalformedAssumption == Malformed \subseteq Urls
ASSUME MaxTasksAssumption == MaxTasks \in Nat

VARIABLES
  cachedImages,         \* urls with an image
  imagesDownloadTasks,  \* url -> its registered task
  tasks,                \* the data tasks created so far
  imageUrl, shown,      \* per view: the url asked for last, and the image on display
  row,                  \* per view: the url of the row it stands for now
  view, url, found,     \* what the main thread is working on
  reply,                \* the completion the delegate queue is running
  pc,                   \* the next step of each thread
  mainQueue,            \* handlers dispatched to the main queue
  history               \* events the properties are conditioned on

dictionaries == <<cachedImages, imagesDownloadTasks>>
views == <<imageUrl, shown, row>>
locals == <<view, url, found>>
vars == <<dictionaries, tasks, views, locals, reply, pc, mainQueue, history>>

Threads == {"main", "net"}
Steps == {"idle", "find", "cancel", "erase", "populate", "lookup", "register", "resume",
          "cache", "remove", "post"}
Statuses == {"created", "running", "arrived", "cancelled", "done"}
Events == {"failed", "junk", "late", "dropped", "foreign", "raced"}
Task == [view : Views, url : Urls, status : Statuses]
NoReply == [task |-> NoTask, image |-> NoUrl]
Ids == DOMAIN tasks
Running(t) == tasks[t].status = "running"

Goto(th, step) == pc' = [pc EXCEPT ![th] = step]
Leave == Goto("main", "idle") /\ view' = NoView /\ url' = NoUrl /\ found' = NoTask
Mark(t, s) == tasks' = [tasks EXCEPT ![t].status = s]
Note(b, event) == history' = IF b THEN history \cup {event} ELSE history

Init ==
  /\ cachedImages = {}
  /\ imagesDownloadTasks = [u \in Urls |-> NoTask]
  /\ tasks = <<>>
  /\ imageUrl = [v \in Views |-> NoUrl] /\ shown = [v \in Views |-> NoUrl]
  /\ row = [v \in Views |-> NoUrl]
  /\ view = NoView /\ url = NoUrl /\ found = NoTask
  /\ reply = NoReply
  /\ pc = [th \in Threads |-> "idle"]
  /\ mainQueue = <<>> /\ history = {}

----------------------------------------------------------------------------
(* A cell is dequeued and reused *)

(* A prepareForReuse that leaves the image to populate. *)
DequeueShowing(c, u) ==
  /\ pc["main"] = "idle"
  /\ u = NoUrl \/ Len(tasks) < MaxTasks
  /\ view' = c /\ url' = u
  /\ row' = [row EXCEPT ![c] = u]
  /\ Goto("main", IF imageUrl[c] = NoUrl THEN "populate" ELSE "find")
  /\ UNCHANGED <<dictionaries, tasks, imageUrl, shown, found, reply, mainQueue, history>>

(* cellForItemAt: prepareForReuse of a used cell, then populate with the url   *)
(* of the new row's image, if it has one.                                      *)
Dequeue(c, u) ==
  /\ pc["main"] = "idle"
  /\ u = NoUrl \/ Len(tasks) < MaxTasks
  /\ view' = c /\ url' = u
  /\ row' = [row EXCEPT ![c] = u]
  /\ shown' = [shown EXCEPT ![c] = NoUrl]
  /\ Goto("main", IF imageUrl[c] = NoUrl THEN "populate" ELSE "find")
  /\ UNCHANGED <<dictionaries, tasks, imageUrl, found, reply, mainQueue, history>>

(* The header is populated anew for every header the grid dequeues. *)
PopulateHeader(h, u) ==
  /\ pc["main"] = "idle"
  /\ Len(tasks) < MaxTasks
  /\ imageUrl[h] \in {NoUrl, u}
  /\ view' = h /\ url' = u
  /\ row' = [row EXCEPT ![h] = u]
  /\ Goto("main", "populate")
  /\ UNCHANGED <<dictionaries, tasks, imageUrl, shown, found, reply, mainQueue, history>>

(* cancelDownloadForUrl: a synchronised read ... *)
FindTask ==
  /\ pc["main"] = "find"
  /\ found' = imagesDownloadTasks[imageUrl[view]]
  /\ Goto("main", IF found' = NoTask THEN "populate" ELSE "cancel")
  /\ UNCHANGED <<dictionaries, tasks, views, view, url, reply, mainQueue, history>>

CancelForgotten ==
  /\ pc["main"] = "cancel"
  /\ Goto("main", "erase")
  /\ UNCHANGED <<dictionaries, tasks, views, locals, reply, mainQueue, history>>

(* ... the cancellation of whatever task it found, which the reply may have    *)
(* overtaken: on the wire, or already in its completion ...                    *)
CancelTask ==
  /\ pc["main"] = "cancel"
  /\ \/ Running(found) /\ Mark(found, "cancelled") /\ Note(tasks[found].view # view, "foreign")
     \/ Running(found) /\ Mark(found, "arrived") /\ Note(TRUE, "late")
     \/ ~Running(found) /\ Note(reply.task = found, "late") /\ UNCHANGED tasks
  /\ Goto("main", "erase")
  /\ UNCHANGED <<dictionaries, views, locals, reply, mainQueue>>

(* ... and a write outside the queue, which may race with the barrier of       *)
(* RemoveEntry; then either write may be the one that is lost.                 *)
EraseEntry ==
  /\ pc["main"] = "erase"
  /\ \/ imagesDownloadTasks' = [imagesDownloadTasks EXCEPT ![imageUrl[view]] = NoTask]
     \/ pc["net"] = "remove" /\ UNCHANGED imagesDownloadTasks
  /\ Note(pc["net"] = "remove", "raced")
  /\ Goto("main", "populate")
  /\ UNCHANGED <<cachedImages, tasks, views, locals, reply, mainQueue>>

(* A handler of the view's earlier download is already on its way. *)
HandlerPending(v) ==
  \/ reply # NoReply /\ tasks[reply.task].view = v
  \/ \E i \in DOMAIN mainQueue : mainQueue[i].view = v

Populate ==
  /\ pc["main"] = "populate"
  /\ \/ url = NoUrl /\ Leave /\ UNCHANGED imageUrl
     \/ /\ url # NoUrl
        /\ imageUrl' = [imageUrl EXCEPT ![view] = url]
        /\ Goto("main", "lookup") /\ UNCHANGED locals
  /\ Note(HandlerPending(view), "late")
  /\ UNCHANGED <<dictionaries, tasks, shown, row, reply, mainQueue>>

----------------------------------------------------------------------------
(* downloadImage *)

(* The image, the placeholder for a text that is no url, or a download. *)
LookupImage ==
  /\ pc["main"] = "lookup"
  /\ \/ url \in cachedImages /\ shown' = [shown EXCEPT ![view] = url] /\ Leave
     \/ url \in Malformed \ cachedImages /\ shown' = [shown EXCEPT ![view] = NoUrl] /\ Leave
     \/ url \notin cachedImages \cup Malformed /\ Goto("main", "register") /\ UNCHANGED <<shown, locals>>
  /\ UNCHANGED <<dictionaries, tasks, imageUrl, row, reply, mainQueue, history>>

(* A url somebody is loading is not loaded again, and this handler is dropped. *)
FindInFlight ==
  /\ pc["main"] = "register"
  /\ imagesDownloadTasks[url] # NoTask
  /\ Note(TRUE, "dropped")
  /\ Leave
  /\ UNCHANGED <<dictionaries, tasks, views, reply, mainQueue>>

NewTask ==
  /\ Len(tasks) < MaxTasks
  /\ tasks' = Append(tasks, [view |-> view, url |-> url, status |-> "created"])
  /\ imagesDownloadTasks' = [imagesDownloadTasks EXCEPT ![url] = Len(tasks')]

RegisterUnchecked ==
  /\ pc["main"] = "register"
  /\ NewTask
  /\ Goto("main", "resume")
  /\ UNCHANGED <<cachedImages, views, locals, reply, mainQueue, history>>

(* Only the main thread registers, so the check and the barrier are one step.  *)
Register ==
  /\ pc["main"] = "register"
  /\ imagesDownloadTasks[url] = NoTask
  /\ NewTask
  /\ Goto("main", "resume")
  /\ UNCHANGED <<cachedImages, views, locals, reply, mainQueue, history>>

(* A task is created suspended; nobody starts it. *)
ResumeForgotten ==
  /\ pc["main"] = "resume"
  /\ Leave
  /\ UNCHANGED <<dictionaries, tasks, views, reply, mainQueue, history>>

Resume ==
  /\ pc["main"] = "resume"
  /\ Mark(Len(tasks), "running")
  /\ Leave
  /\ UNCHANGED <<dictionaries, views, reply, mainQueue, history>>

----------------------------------------------------------------------------
(* Completions, on the delegate queue *)

(* No data: a failed or cancelled transfer.  The completion returns at once,   *)
(* and the entry of a failed one stays.                                        *)
NoData(t) ==
  /\ reply = NoReply /\ tasks[t].status \in {"running", "cancelled"}
  /\ Mark(t, "done")
  /\ Note(Running(t), "failed")
  /\ UNCHANGED <<dictionaries, views, locals, reply, pc, mainQueue>>

(* Data and an error: the placeholder is sent, and the entry stays. *)
Truncated(t) ==
  /\ reply = NoReply /\ Running(t)
  /\ Mark(t, "done")
  /\ mainQueue' = Append(mainQueue, [view |-> tasks[t].view, image |-> NoUrl])
  /\ Note(TRUE, "failed")
  /\ UNCHANGED <<dictionaries, views, locals, reply, pc>>

(* Data, which may be no image. *)
DataArrived(t) ==
  /\ reply = NoReply /\ tasks[t].status \in {"running", "arrived"}
  /\ \E image \in {tasks[t].url, NoUrl} :
       reply' = [task |-> t, image |-> image] /\ Note(image = NoUrl, "junk")
  /\ Mark(t, "done")
  /\ Goto("net", "cache")
  /\ UNCHANGED <<dictionaries, views, locals, mainQueue>>

(* Keeps a blank image for data that is none. *)
CacheBlank ==
  /\ pc["net"] = "cache"
  /\ cachedImages' = cachedImages \cup {reply.image}
  /\ Goto("net", "remove")
  /\ UNCHANGED <<imagesDownloadTasks, tasks, views, locals, reply, mainQueue, history>>

(* cachedImages[urlString] = image, which erases the entry when there is none. *)
CacheImage ==
  /\ pc["net"] = "cache"
  /\ cachedImages' = IF reply.image = NoUrl THEN cachedImages \ {tasks[reply.task].url}
                                            ELSE cachedImages \cup {reply.image}
  /\ Goto("net", "remove")
  /\ UNCHANGED <<imagesDownloadTasks, tasks, views, locals, reply, mainQueue, history>>

RemoveOnlyImages ==
  /\ pc["net"] = "remove"
  /\ imagesDownloadTasks' = IF reply.image = NoUrl THEN imagesDownloadTasks
                              ELSE [imagesDownloadTasks EXCEPT ![reply.image] = NoTask]
  /\ Goto("net", "post")
  /\ UNCHANGED <<cachedImages, tasks, views, locals, reply, mainQueue, history>>

(* Removes the entry of the url, whichever task it names by now. *)
RemoveEntry ==
  /\ pc["net"] = "remove"
  /\ \/ imagesDownloadTasks' = [imagesDownloadTasks EXCEPT ![tasks[reply.task].url] = NoTask]
     \/ pc["main"] = "erase" /\ UNCHANGED imagesDownloadTasks
  /\ Note(pc["main"] = "erase", "raced")
  /\ Goto("net", "post")
  /\ UNCHANGED <<cachedImages, tasks, views, locals, reply, mainQueue>>

PostNothing ==
  /\ pc["net"] = "post"
  /\ reply' = NoReply
  /\ Goto("net", "idle")
  /\ UNCHANGED <<dictionaries, tasks, views, locals, mainQueue, history>>

(* DispatchQueue.main.async: the handler, with the image this reply decoded to. *)
PostHandler ==
  /\ pc["net"] = "post"
  /\ mainQueue' = Append(mainQueue, [view |-> tasks[reply.task].view, image |-> reply.image])
  /\ reply' = NoReply
  /\ Goto("net", "idle")
  /\ UNCHANGED <<dictionaries, tasks, views, locals, history>>

(* The handler of a view: it does not look at what the view asked for last. *)
RunHandler ==
  /\ pc["main"] = "idle" /\ mainQueue # <<>>
  /\ shown' = [shown EXCEPT ![Head(mainQueue).view] = Head(mainQueue).image]
  /\ mainQueue' = Tail(mainQueue)
  /\ UNCHANGED <<dictionaries, tasks, imageUrl, row, locals, reply, pc, history>>

----------------------------------------------------------------------------
Main ==
  \/ FindTask \/ CancelTask \/ EraseEntry \/ Populate \/ LookupImage
  \/ FindInFlight \/ Register \/ Resume \/ RunHandler

Net == CacheImage \/ RemoveEntry \/ PostHandler

Completion(t) == NoData(t) \/ Truncated(t) \/ DataArrived(t)

Scroll ==
  \/ \E c \in Cells, u \in Urls \cup {NoUrl} : Dequeue(c, u)
  \/ \E h \in Headers, u \in Urls : PopulateHeader(h, u)

Next == Scroll \/ Main \/ Net \/ (\E t \in Ids : Completion(t))

(* Both threads go on with their work, the run loop of the main thread comes    *)
(* back to its queue between two user events (hence SF), and every task         *)
(* completes, with a reply, an error or a timeout; nobody has to scroll.        *)
Fairness ==
  /\ WF_vars(Main) /\ SF_vars(RunHandler) /\ WF_vars(Net)
  /\ \A t \in 1..MaxTasks : WF_vars(t \in Ids /\ Completion(t))

Spec == Init /\ [][Next]_vars
FairSpec == Spec /\ Fairness

----------------------------------------------------------------------------
TypeOK ==
  /\ cachedImages \subseteq Urls
  /\ tasks \in Seq(Task) /\ Len(tasks) <= MaxTasks
  /\ imagesDownloadTasks \in [Urls -> Ids \cup {NoTask}]
  /\ imageUrl \in [Views -> Urls \cup {NoUrl}] /\ shown \in [Views -> Urls \cup {NoUrl}]
  /\ row \in [Views -> Urls \cup {NoUrl}]
  /\ view \in Views \cup {NoView} /\ url \in Urls \cup {NoUrl} /\ found \in Ids \cup {NoTask}
  /\ reply \in [task : Ids, image : Urls \cup {NoUrl}] \cup {NoReply}
  /\ pc \in [Threads -> Steps]
  /\ mainQueue \in Seq([view : Views, image : Urls \cup {NoUrl}])
  /\ history \subseteq Events

(* An entry turns every later request for its url away.  It names a task for   *)
(* that very url whose completion will still remove it, or whose canceller     *)
(* will; only after a failure or a lost write does it stay for nothing.        *)
EntryIsLive ==
  history \cap {"failed", "raced"} = {} =>
    \A u \in Urls : imagesDownloadTasks[u] # NoTask =>
      LET t == imagesDownloadTasks[u]
      IN /\ tasks[t].url = u
         /\ \/ tasks[t].status \in {"created", "running", "arrived"}
            \/ pc["net"] \in {"cache", "remove"} /\ tasks[reply.task].url = u
            \/ pc["main"] \in {"cancel", "erase"} /\ found = t

(* However requests and cancellations alternate, a url is not downloaded twice *)
(* at a time, as long as every cancellation beats its reply and no write of    *)
(* the dictionary is lost.                                                     *)
SingleDownload ==
  history \cap {"late", "raced"} = {} =>
    \A s, t \in Ids : Running(s) /\ Running(t) /\ tasks[s].url = tasks[t].url => s = t

(* A view shows another row's image only when the handler of an earlier row's  *)
(* download had got away before the cell was reused.                           *)
NoForeignImage ==
  history \cap {"late", "raced"} = {} =>
    \A v \in Views : shown[v] \in {NoUrl, row[v]}

(* A view that does not show its row's image has not been forgotten: its row's *)
(* text makes no url, its task runs, its reply is being handled, or its handler *)
(* is queued.  Once an Event has befallen a view this may fail, and the view   *)
(* stays as it is.                                                             *)
UnderWay(v) ==
  \/ \E t \in Ids : Running(t) /\ tasks[t].view = v /\ tasks[t].url = row[v]
  \/ reply # NoReply /\ tasks[reply.task].view = v /\ reply.image = row[v]
  \/ \E i \in DOMAIN mainQueue : mainQueue[i].view = v /\ mainQueue[i].image = row[v]

NoImageForgotten ==
  history = {} =>
    \A v \in Views : shown[v] = row[v] \/ row[v] \in Malformed \/ view = v \/ UnderWay(v)

(* The views are what ImageView says, as long as every cancellation beats its  *)
(* reply, no write of the dictionary is lost and every transfer brings an      *)
(* image.                                                                      *)
Image == INSTANCE ImageView WITH
  spoiled <- history \cap {"late", "raced", "failed", "junk"} # {}

ViewSpec == Image!Spec

(* A view whose row has a url gets its image, or moves on to another row, unless *)
(* one of the Events befalls some view: a url in flight or cancelled for       *)
(* another view, a late or lost cancellation, a transfer without an image.     *)
ViewGetsImage ==
  \A v \in Views, u \in Urls \ Malformed :
    (row[v] = u) ~> (shown[v] = u \/ row[v] # u \/ history # {})
=============================================================================
