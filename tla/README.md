# A verification of the Spotify artist browser

TLA+ modules for the iOS app under `src/Spotify/Spotify`: an artist search over
Spotify's web API with login, albums and images. The app has about 2,500 lines
of Swift; `src/Spotify/Pods` is vendored (RxSwift, Firebase) and not a subject of
its own. The repository has no documentation: the code, its names, the texts it
shows and one unit test of the login are the reference.

## The system

Two threads matter everywhere: the **main thread** (screens, taps, the main
queue, RxSwift's `MainScheduler`) and the **URLSession delegate queue**, serial,
on which every completion of a request runs. The classes share singletons and
`UserDefaults`, and almost nothing is locked.

| component | state | operations | talks to |
|---|---|---|---|
| `AuthenticationManager` (singleton) | token, refresh token and expiry date in UserDefaults; `isRefreshing`; `refresh`, the parked closures; the stored user | `validateToke`, `refreshToken`, `generateToken`, `cacheToken`, `signout`, `saveUser`, `clearUser` | token endpoint; called by every API call |
| `APIClient` | none | profile, search and album requests, each through `validateToke` | `AuthenticationManager`, URLSession |
| `ImageDownlaoder` (singleton) | image cache, task per url, two concurrent queues with barriers | `downloadImage`, `cancelDownloadForUrl`, completions | URLSession; cells, album header, profile picture |
| reusable cells, album header | the url asked for last, the image shown, labels, stars | `populate`, `prepareForReuse`, handlers | `ImageDownlaoder` |
| `SearchViewModel`, `SearchViewController` | search text, debounce, the result twice (`artist`, `artistArray`), spinner, grid | typing, debounced query, reply, reload, cells, taps, profile sheet, sign-out | `APIClient`, `AuthenticationManager` |
| `LoginViewModel`, `LoginViewController` | the user; relays | code to token to profile to search screen | `AuthenticationManager`, `APIClient` |
| `SceneDelegate` | the root screen, the view model that gets the codes | launch, redirect from the browser | login, search |
| `AlbumViewModel`, `ArtistAlbumViewController` | one artist's albums, spinner, header model | one request, taps, header | `APIClient`, `ImageDownlaoder` |

What is hard here: unlocked read-modify-writes and flags between two threads;
writes of several keys that a kill, a sign-out or a reader falls between; replies
that come in another order than the requests, after a sign-out, or never; reused
cells whose callbacks outlive the row; a grid that remembers a row count while
the list is replaced on the other thread. `PROJECT.json` lists each hazard with
its line and the properties that watch it.

What makes each part correct: a caller of the manager gets a token that is not
about to expire, once, or is given up for a known reason, and refreshes do not
pile up; an image lands in the row it was loaded for and a url's entry never
outlives its task; the search settles on the text in the field with the spinner
off; an album screen shows its albums or says why not; a reused cell's stars rate
its artist; the stored session, the user and the screen are of one account.

## Modules

**`AuthenticationManager.tla`**: the token store and the refresh gate. Each
thread has a `pc`, and each action is one read or write of shared state: the
unlocked `refresh.append` is `AppendLoad` and `AppendStore`, `cacheToken` is
`CacheAccess`, `CacheRefresh`, `CacheExpiry`, `signout` is three steps too. A
call of `validateToke` runs `ValidateToke`, then either the append, or
`CheckExpiry` and `ReadToken`, or the refresh path `RefreshGuard`, `Recheck`,
`ReadRefreshToken`, `Raise`. A reply is `RefreshFailed`, or `RefreshSucceeded`
and the caching steps, `Drain`, `Clear`, `Finish`. Calls of the screens come on
main (`Calls`); the profile call after a login comes on the delegate queue
(`Logins`), which is what can start a second refresh. `Kill` keeps UserDefaults
and loses the rest. A token is the number of the reply that brought it, and time
is `expiring`, the newest reply whose date is within the 300 s margin.

**`ImageDownlaoder.tla`**: the two dictionaries, the tasks, the reply being
handled, and the handlers on their way to the main queue. A barrier block is one
step; the unlocked write of `cancelDownloadForUrl` (`EraseEntry`) may race with
the barrier of a completion (`RemoveEntry`), which is undefined in Swift, and
then either write may be lost. `LookupImage` has the three answers of
`downloadImage` before it looks for a task: no text or a cached image, a text that
makes no URL (`Malformed`; the placeholder at once, and no task), or a download.
`Dequeue` is the reuse of a cell (cancel by the
old url, populate with the new row), `PopulateHeader` the album header, which
never cancels.

**`SearchViewModel.tla`**: the search with the controller's grid. `Type` is
`textDidChange`, `FireDebounce` the debounce and everything its binding does,
`ReplyFailed` and `ReplyDecoded` with `SetArtist`, `SetArray`, `AskReload` the
completion of `getArtists`. Relay events of the delegate queue go through
`events`, the main queue; those of main itself run at once when none is queued,
as `MainScheduler` does. `Layout` is the pass after `reloadData` that reads the
number of rows, `ShowCell` and `Tap` index the two copies of the result and may
trap. `inFlight` includes queries parked at the manager; one it drops, or whose
text makes no URL, goes to `dropped`.

**`Session.tla`**: login, sign-out and launch as the user meets them, across
`SceneDelegate`, `LoginViewModel`, the two controllers and the stored token and
user. The navigation stack is a sequence of screens, alerts are `alert`. The
login screen of `SceneDelegate` hears of logins; the one pushed after a sign-out
(`FreshLogin`) has a view model nobody sends codes to. A redirect (`OpenURL`) is
taken whatever is on the screen, as `openURLContexts` does, over a search too.
A login's profile request goes through `validateToke` on the delegate queue: it
is parked while a refresh is out (`ValidateToke`, `parked`), starts one, or is
dropped when a screen was faster (`RefreshIfDue`, `claimant`), or is sent with
the token of its moment (`SendProfile`). A refresh that succeeds fetches the
parked profiles with its token and lets its claimant go on; one that fails
leaves the parked where they are and gives its claimant up. Refreshes come one
at a time and an append is one step here, as is a write of the token: two
refreshes at once, the race of the array and the writes of `cacheToken` are
`AuthenticationManager`'s matter, which has all three.

The properties of this module are conditioned on three classes of event.
`"torn"`: the stored session may be of two accounts, because a login or a sign-out
began while a login was under way, a profile was not fetched, failed or was left
behind by a failed refresh, a refresh brought the token of another account or
came after a sign-out, or the app was killed half way; an undisturbed sign-out
clears it. `"strayed"`: a search of another account may be on top, because the
user declined the sign-out question, swiped back, or was redirected over a search
with no login screen at the bottom of the stack, so that nobody heard of the
login; a relaunch clears it. `"lost"`: a login ended outside both, because its code
was refused or the app was killed with the code or the event pending.

**`ArtistAlbum.tla`**: one album screen. The view model asks for the albums while
it is being made, so `phase` follows the main thread through `init` and the
bindings of `viewDidLoad` (`Request`, `GenerateHeaderModel`, `BindLoading`,
`BindError`, `BindReload`), and the reply may fall between any two of them.
`BehaviorRelay`s replay to a late subscriber, `PublishRelay`s do not; `Post` sends
an event only if its binding exists, `Emit` is an event of the main thread. Each
`DequeueHeader` adds a subscription. The screen may be popped (`Back`) while its
reply is under way; `Released` says when it is gone.

**`GridCells.tla`**: what `populate` writes into a reused cell of either grid,
missing fields and early returns included. `Painted` has the branches of the star
rating; `Rating`, one star for every twenty points begun, is what they are
compared with. Labels and images are modelled, but no property is about them: it
could only repeat what `populate` assigns.

**`TokenGate.tla`** is the abstract specification of the manager: a closure
handed in is held until it is called or given up, once; it is given up only after
a mishap, and called again only after a race of the unlocked array.
`AuthenticationManager` implements it (`GateSpec`): `answered` is `calls`, and a
closure is `lost` when it is at none of the `Places` the code can still call it
from. That a closure is lost is thus read off the code's state, so a step that
forgets one does not escape.

**`GatedSearch.tla`** composes the gate with the search: a query is asked at the
gate, goes to the endpoint when called, and is dropped when the gate gives it up
or its text makes no URL. `inFlight` of the search is what is at the gate or at
the endpoint. The composition implements the search alone (`SearchSpec`), which
justifies `Drop`, the search's assumption about its environment. `ArtistAlbum` is
behind the same gate, its races included.

**`ImageView.tla`** is the abstract specification of the image loader as a view
sees it: a view that is given a row shows nothing or the row's image, and an image
on display changes only with the row, until a mishap spoils the loader.
`ImageDownlaoder` with its cells and headers implements it (`ViewSpec`); dictionary,
tasks, completions and the main queue are hidden. `spoiled` is that a cancellation
came too late, a write of the dictionary was lost, or a transfer brought no image.

So the manager's promise is stated once, proved of the manager, and is what both
screens are checked against.

`history`, in three of the modules, collects the mishaps that have happened, and
a property excludes exactly those that really break it. It is an observer: no
guard reads it. `overtaken` is not sticky: it says whether the last answer written
was an older query's. (`seen`, `row`, `overtaken`, `lastReply`, `failed`, `answered`,
`populated`, `alerts` and `unheard` are observers too.)

The `MC*` modules add at most the symmetry sets. Each module holds beside its
actions a few variants of them, such as `ClearForgotten` or `ShouldRefreshLate`, that
no next-state relation uses: each is a plausible bug that one of the properties
was seen to catch.

## Runs

| run | states | shows |
|---|---|---|
| `auth_safety` | 0.98 M | eight invariants of the manager and `GateSpec`, three calls and a login, three replies |
| `auth_live` | 0.21 M | the flag falls; every closure settles |
| `image_safety` | 9.8 M | the dictionary, single downloads, no foreign image, no view waiting in vain; two cells, two urls and a text that makes none, three tasks |
| `image_live` | 0.12 M | a row gets its image, and the loader is an `ImageView`; one cell and one header |
| `search_safety` | 0.93 M | what the search settles on; three edits, up to two rows |
| `search_gate` | 0.01 M | behind the gate the search is still the search, and its spinner stops; two edits |
| `search_cell`, `search_tap` | | violated: the grid or a tap indexes a row that is gone |
| `session` | 0.04 M | stored session and search screen agree, a login reaches its search, also through a refresh; two accounts, two logins |
| `session_logout` | | violated: the session is gone before the question is answered |
| `album` | 0.12 M | an album screen and a reply that may come before its bindings; two albums, two headers |
| `cells` | 1,875 | the stars of reused cells, at every threshold |

**Bounds.** `MaxGen`, `MaxTasks`, `MaxTyped`, `MaxItems` and `MaxLogins` count
replies, tasks, edits, list lengths and redirects. Three replies are an old
token, one that replaces it and one that comes late. Three screens suffice for a
refresh, a closure parked behind it and one racing the drain. Three tasks on two
urls give a cancelled, a replaced and a foreign download. Three edits give an
older, a newer and a cancelled query, two rows a list that shrinks without
becoming empty. Two logins overlap, or stand on both sides of a sign-out; for
more the theorems stand in. A raced gate calls the album's closure twice
(`MaxCalls`), two headers subscribe (`MaxHeaders`). The popularities of `cells`
are both sides of every threshold. Runs with liveness are smaller, for they use
no symmetry. `search_gate` has lists of one artist and one text of two that makes
no URL (`Unsendable`), enough to lose, drop and answer a query. Besides, only
one sign-out question waits at a time (`ShowProfile`), and an album header keeps
its url; one `openUrl` of an album screen waits at a time. Deadlock is checked but
in the search and the album screen, which stop when the app has died, the edits
are used up or the screen is gone.

**Fairness.** A thread that has a next step takes it (weak fairness). URLSession
completes every task, at the latest with a timeout, and its serial queue gets to
each completion; where the queue is shared with other work this is strong
fairness on the completion. The main run loop comes back to its queue between
touches, which is strong fairness on handlers and relay events where touches can
forever occupy the thread. In `GatedSearch` and `ArtistAlbum` the gate calls
what it holds as long as the session is undisturbed: that is `CallSettles`, which
`auth_live` checks of the manager (an undisturbed closure is called or dropped)
together with `QuietSessionNeverDrops` (a screen's is then not dropped). Nothing
is owed by the user, by time or by the
process killer.

**What the violated runs show.** `search_cell`: the delegate queue writes a
shorter `artist` while the grid holds the old row count; the next cell indexes
past its end (SearchViewModel.swift:97). `search_tap`: a search is answered and
both copies are written; emptying the field then empties `artistArray` but not
`artist`, so the layout after its reload counts the old rows again, and a tap on
one traps (SearchViewcontroller.swift:275). The property leaves out taps while a
reply is being written or a reload is under way, where a tap may trap as well:
between the writes of `artist` and `artistArray` (SearchViewModel.swift:107-108),
or in the old rows before the reload. `session_logout`: "Are you sure you want to
logout?" comes after the tokens and the user were erased; "No" leaves a search
screen without a session.

**What holding means here.** Several properties hold only outside named mishaps,
and those are what a maintainer should know of: a failed refresh strands the
parked closures (`"failed"`), the unlocked array loses or keeps one (`"raced"`),
a reply cached while a sign-out or a kill falls in between leaves a token without
a date (`"torn"`), an image in flight for another cell is not delivered
(`"dropped"`, `"foreign"`), an older search result that arrives last stays on the
screen (`overtaken`), a query that is never sent leaves the spinner on
(`dropped`). On the album screen, a failure that comes before `onError` has a
subscriber is told to nobody (`unheard`), and a raced gate can replace the list
under the grid, which `album!` does not survive (`raced`). A popularity of 81, or
none, leaves a reused cell with another artist's stars. A profile request that
waits for a refresh is stranded when the refresh fails, with a token and no user
stored, and a code that comes over a search screen signs another account in under
it (`"torn"` and `"strayed"` of `Session`). `PROJECT.json` says of each hazard whether a
property catches it or it is modelled, named and excluded.

## Proofs

The proofs hold for any sets of calls, views, texts and accounts and for every
value of the bounds, from the named assumptions of each module (sets that are
distinct, a "none" value outside its set, bounds that are naturals). In each
module every step lemma has one step per action, and each invariant was
model-checked before it was proved. `TypeOK` is inductive in most modules as it
stands; the others need more:

`AuthenticationManagerProofs.tla`:
- `FreshToken`, `DateVouches`, `TokensExpire`, from `FreshInv`. That the token
  handed out was outside the margin when the date was checked is not inductive:
  between check and read the other thread may have written any of the three keys.
  The invariant adds that no date on record is newer than the last completed
  reply (`DatesBehind`), what the token can be between two writes of `cacheToken`
  or `signout` (`TokenBetweenWrites`), and that a thread has not seen the future
  (`SeenBehind`). The write order of `cacheToken`, token before date, is what
  carries it.
- `OneRefresh`, from `SingleInv`: while a refresh is out the flag is up, and main
  is between the flag's check and its raising only when none is out. This last
  part fails when a login claims on the other thread, hence the exception.
- `StrandedAfterFailure`, from `StrandInv`: the flag is up only while a request
  is out, so a closure that is parked, or about to be, has a refresh to wait for.
- `FlagHasRequest`, from the same invariant.

`AuthenticationGateProofs.tla`: `EveryCallAccounted` from `PlaceInv`, which says
of each place a closure can be in that it is in no other, and turns the sum of
`CallsAccounted` into disjointness; `NoCallGivenUp` from `QuietInv`: in a quiet
session both tokens are there, and main never finds the flag up once it has found
it down, so no silent return is reached. With both,
`ManagerIsGate` maps every step of the manager to `Ask`, `Call`, `Lose` or a
stutter, and `ManagerKeepsPromise` reads the promise off the gate.
`NoCallForgotten` joins `PlaceInv` and `StrandInv`.

`SearchViewModelProofs.tla`: `RowsBacked`, `TapsOpenShown` and `SettlesOnField`
from `FieldInv` (the newest query is the field's text unless the debounce holds
it), `GridInv` (between reloads the grid is what `artist` says), `CopiesInv`
(the two copies differ only while one is being written or after the field was
emptied) and `AnswerInv` (what the newest reply in order has left);
`SpinnerComesToRest` from `SpinnerInv`, on the last loading event in the queue.

`GatedSearchProofs.tla`: `SearchBehindGate`, the refinement, from
`GateAndEndpointApart`: no query is both at the gate and at the endpoint. Without
it a reply would leave its query in flight. `GatedIsProved` then carries the
theorems of `SearchViewModelProofs` over: that module is instantiated with the
same substitutions, and `SameState` and `SameStep` show the two instances to
agree. `GatedSettlesOnField` and `GatedGridTrue` come of it, and
`StuckSpinnerExplained`, which adds that an undisturbed gate loses no query
(`QuietGate`).

`ImageDownlaoderProofs.tla`: `EntriesLive` from `EntryInv` (an entry's task will
still remove it, or its canceller will); `OneDownload` from `TaskInv` (a task
that can still be answered is the one its url's entry names);
`ImagesOwn` from `ViewInv`, which follows the image through task, reply and
handler and says that each belongs to the row its view has now. `ImagesUnderWay`
turns the question round: by `AwaitInv` a view without its row's image has a text
that makes no URL, or is the one being populated, or its task, its reply or its handler is there. After a mishap a
view may wait for ever, so it holds until the first. `LoaderIsImageView` maps
each step to `Stand`, `Show`, `ShowAny`, `Spoil` or a stutter; that a handler
shows the image of its view's present row is `ViewInv` again, that it brings one
`BringInv` (`ViewsMapped`).

`SessionProofs.tla`: `SessionIsWhole` from `WholeInv`, which says what token and
user are at each step of a login, with its profile request in the hands of the
queue (`NetInv`), parked, its refresh's claimant, or out (`OneStage`: in one of
these at a time; `OneLogin`: until the session may be torn, there is one login).
`SearchIsSignedIn` from `ScreenInv`, which says what may be on the stack while the
user has not strayed. `NoLoginForgotten` is an action property: `OwnInv` gives the
login under way the token and the profile of its own code, and its event is the
only one in the queue, so the search that is pushed is that of its account.

`ArtistAlbumProofs.tla`: `SettlesOnAlbum` from `ReloadInv` (a list not yet laid
out has a reload, a layout or the first layout ahead of it); `HeadersFilledOnce`
from `HeaderInv`, counting the header events in the queue; `SpinnerFollows` from
`LoaderInv`, on the last loading event and the binding's replay; `FailuresTold`
from `TellInv`; `RowsAreBacked` from `CallsInv`, by which one call makes one reply;
`LoadingIsAnswered` from `AnswerInv`: until it is answered, each call of the
closure is a request that is out.

`GridCellsProofs.tla`: the stars over all of 0..100 (`PaintedRates` has one case
per branch).

**Liveness** is only model-checked: fairness and `ENABLED` are beyond the prover.
What is proved of each liveness property is its safety half, that what it waits
for is always on its way, so that only fairness is left to TLC:

| checked | proved for all constants |
|---|---|
| `RefreshFlagFalls` | `FlagHasRequest`: the flag is up only while a request is out |
| `CallSettles` | `NoCallForgotten`: a closure is in a thread's or a request's hands, or parked with a refresh coming |
| `ViewGetsImage` | `ImagesUnderWay`: a task, a reply or a handler brings the image of a text that makes a URL |
| `SpinnerStops` of the search | `StuckSpinnerExplained`: a spinner over a finished search was left by a mishap or a text that made no URL |
| `SpinnerStops` of the album | `LoadingIsAnswered`: a loading screen has its request at the gate or the endpoint |
| `LoginReachesSearch` | `NoLoginForgotten`: each step keeps a login under way, waiting for a refresh or not, or pushes its search |

## Not modelled

Decoding beyond success, failure and missing fields; number formatting, layout,
colours, the back button's place; `WebViewController`, which nothing opens, and
`WebViewModel`, which is commented out; Firebase. The vendored code under `Pods`
is the bulk of the repository by size but no part of the program's own logic: the
app configures Firebase and calls nothing else of it, and of RxSwift it uses
relays, `debounce`, `MainScheduler` and `withUnretained`, which are modelled where
they are used. Torn reads of a Swift array or struct are modelled as one of the
written values, not as memory corruption. Dates are taken to grow from reply to
reply, i.e. the endpoint keeps its `expires_in` and the clock is not set back.

## Plan

Done, in this order: `AuthenticationManager`, `ImageDownlaoder`, `SearchViewModel`,
`Session`, then `TokenGate` and its refinement, `GatedSearch`, `ArtistAlbum`,
`GridCells`, the proofs of all their safety properties, `ImageView` and its
refinement, and the safety halves of the liveness properties. Left:

1. A composition of `Session` with `AuthenticationManager`: what a reply that
   crosses a sign-out, two refreshes at once or a race of the array does to the
   next launch, with the writes of `cacheToken` as separate as they are there.
2. The profile picture of the search screen as a third kind of view.
