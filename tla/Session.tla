-------------------------------- MODULE Session --------------------------------
(* Signing in and out as the user meets it: the screens SceneDelegate and the    *)
(* controllers push, the login of LoginViewModel, the sign-out of                *)
(* SearchViewController, and the token and user that UserDefaults keeps for the  *)
(* next launch.  cacheToken and signout are one write of the token here, and of  *)
(* the calls that wait for a refresh only the profile requests are kept; the     *)
(* rest is in AuthenticationManager.                                             *)
(*                                                                               *)
(* A token or a stored user is the account it belongs to.                        *)
EXTENDS Naturals, Sequences

CONSTANTS
  Accounts,
  NoAccount,
  MaxLogins  \* bound: number of redirects with a code

ASSUME NoAccountAssumption == NoAccount \notin Accounts
ASSUME MaxLoginsAssumption == MaxLogins \in Nat

VARIABLES
  token, savedUser,  \* UserDefaults: access token and user
  stack,             \* the navigation stack
  alert,             \* the alert over it
  logins,            \* accounts of the codes received so far
  codes, profiles,   \* logins whose code, whose profile, is being fetched
  refreshing,        \* the account whose token is being refreshed
  parked, claimant,  \* logins whose profile request waits in the array refresh;
                     \* the one that started the refresh itself
  login, pc,         \* the login the delegate queue works on; next step of each thread
  events,            \* what is on its way to the main queue
  history            \* events the properties are conditioned on

stored   == <<token, savedUser>>
screens  == <<stack, alert>>
requests == <<logins, codes, profiles>>
refresh  == <<refreshing, parked, claimant>>
control  == <<login, pc>>
vars == <<stored, screens, requests, refresh, control, events, history>>

Owner == Accounts \cup {NoAccount}
Ids == DOMAIN logins
NoLogin == 0

(* The login screen of SceneDelegate listens to the view model that gets the   *)
(* codes; the one pushed after a sign-out has a view model of its own.         *)
LoginScreen == [kind |-> "login", account |-> NoAccount]
FreshLogin  == [kind |-> "freshLogin", account |-> NoAccount]
Search(a)   == [kind |-> "search", account |-> a]
Top == stack[Len(stack)]
UserCanAct == pc["main"] = "idle"

(* A login whose token is stored and whose user is not yet; one that is anywhere. *)
HalfIn == login # NoLogin \/ parked # {} \/ claimant # NoLogin \/ profiles # {}
LoggingIn == codes # {} \/ HalfIn \/ events # <<>>

(* What the properties are conditioned on, noted where it happens: the stored  *)
(* session may be torn, an old screen come back, a login end before it stored  *)
(* anything or after it stored everything.                                     *)
Events == {"torn", "strayed", "lost"}
Note(b, event) == history' = IF b THEN history \cup {event} ELSE history

(* willConnectTo: the search when a token and a user are stored. *)
Launched == IF token # NoAccount /\ savedUser # NoAccount
              THEN <<Search(savedUser)>> ELSE <<LoginScreen>>

Init ==
  /\ token \in Owner /\ savedUser = token
  /\ stack = Launched /\ alert = "none"
  /\ logins = <<>> /\ codes = {} /\ profiles = {}
  /\ refreshing = NoAccount /\ parked = {} /\ claimant = NoLogin
  /\ login = NoLogin /\ pc = [th \in {"main", "net"} |-> "idle"]
  /\ events = <<>> /\ history = {}

----------------------------------------------------------------------------
(* Login *)

(* The browser comes back with a code, whatever is on the screen:               *)
(* openURLContexts, fetchToken.  Over a search whose stack has no login screen   *)
(* at the bottom nobody hears how it ends.                                       *)
OpenURL(a) ==
  /\ UserCanAct /\ Len(logins) < MaxLogins
  /\ logins' = Append(logins, a)
  /\ codes' = codes \cup {Len(logins')}
  /\ history' = history \cup (IF LoggingIn THEN {"torn"} ELSE {})
                  \cup (IF Top.kind = "search" /\ stack[1] # LoginScreen THEN {"strayed"} ELSE {})
  /\ UNCHANGED <<stored, screens, profiles, refresh, control, events>>

CodeFailed(i) ==
  /\ pc["net"] = "idle" /\ i \in codes
  /\ codes' = codes \ {i}
  /\ Note(TRUE, "lost")
  /\ UNCHANGED <<stored, screens, logins, profiles, refresh, control, events>>

(* generateToken's completion caches the token, then login() asks for one. *)
CodeAccepted(i) ==
  /\ pc["net"] = "idle" /\ i \in codes
  /\ codes' = codes \ {i}
  /\ token' = logins[i]
  /\ login' = i /\ pc' = [pc EXCEPT !["net"] = "login"]
  /\ UNCHANGED <<savedUser, screens, logins, profiles, refresh, events, history>>

(* getUserProfile waits in the array while a refresh is under way, *)
ValidateToke ==
  /\ pc["net"] = "login"
  /\ \/ /\ refreshing # NoAccount
        /\ parked' = parked \cup {login} /\ login' = NoLogin
        /\ pc' = [pc EXCEPT !["net"] = "idle"]
     \/ /\ refreshing = NoAccount
        /\ pc' = [pc EXCEPT !["net"] = "due"] /\ UNCHANGED <<parked, login>>
  /\ UNCHANGED <<stored, screens, requests, refreshing, claimant, events, history>>

(* starts one when the token is expiring, unless a screen was faster, and then  *)
(* the request is dropped; or goes on.                                          *)
RefreshIfDue ==
  /\ pc["net"] = "due"
  /\ \/ /\ token # NoAccount /\ login' = NoLogin
        /\ pc' = [pc EXCEPT !["net"] = "idle"]
        /\ \/ /\ refreshing = NoAccount
              /\ refreshing' = token /\ claimant' = login /\ UNCHANGED history
           \/ /\ refreshing # NoAccount
              /\ Note(TRUE, "torn") /\ UNCHANGED <<refreshing, claimant>>
     \/ pc' = [pc EXCEPT !["net"] = "send"] /\ UNCHANGED <<refreshing, claimant, login, history>>
  /\ UNCHANGED <<stored, screens, requests, parked, events>>

(* The profile is fetched with the token of this moment; with none, nothing is *)
(* fetched and nobody is told.                                                 *)
SendProfile ==
  /\ pc["net"] = "send"
  /\ \/ /\ token # NoAccount
        /\ profiles' = profiles \cup {[login |-> login, account |-> token]}
        /\ UNCHANGED history
     \/ token = NoAccount /\ Note(TRUE, "torn") /\ UNCHANGED profiles
  /\ login' = NoLogin /\ pc' = [pc EXCEPT !["net"] = "idle"]
  /\ UNCHANGED <<stored, screens, logins, codes, refresh, events>>

ProfileFailed(p) ==
  /\ pc["net"] = "idle" /\ p \in profiles
  /\ profiles' = profiles \ {p}
  /\ Note(TRUE, "torn")
  /\ UNCHANGED <<stored, screens, logins, codes, refresh, control, events>>

(* user's didSet stores the user; setupUser tells the login screen. *)
ProfileFetched(p) ==
  /\ pc["net"] = "idle" /\ p \in profiles
  /\ profiles' = profiles \ {p}
  /\ savedUser' = p.account
  /\ events' = Append(events, [kind |-> "signedIn", account |-> p.account])
  /\ UNCHANGED <<token, screens, logins, codes, refresh, control, history>>

SignedInBesideLogin ==
  /\ UserCanAct /\ events # <<>> /\ Head(events).kind = "signedIn"
  /\ stack' = IF Top = LoginScreen THEN Append(stack, Search(Head(events).account)) ELSE stack
  /\ events' = Tail(events)
  /\ UNCHANGED <<stored, alert, requests, refresh, control, history>>

(* signinSucceed, if the screen that listens is there: at the bottom, when the *)
(* app was launched signed out.                                                *)
SignedIn ==
  /\ UserCanAct /\ events # <<>> /\ Head(events).kind = "signedIn"
  /\ stack' = IF stack[1] = LoginScreen THEN Append(stack, Search(Head(events).account)) ELSE stack
  /\ events' = Tail(events)
  /\ UNCHANGED <<stored, alert, requests, refresh, control, history>>

----------------------------------------------------------------------------
(* Sign-out *)

(* Bound: one question at a time waits for the main queue. *)
ShowProfile ==
  /\ UserCanAct /\ alert = "none" /\ Top.kind = "search"
  /\ \A k \in DOMAIN events : events[k].kind # "signedOut"
  /\ alert' = "profile"
  /\ UNCHANGED <<stored, stack, requests, refresh, control, events, history>>

CancelProfile ==
  /\ UserCanAct /\ alert = "profile"
  /\ alert' = "none"
  /\ UNCHANGED <<stored, stack, requests, refresh, control, events, history>>

(* "Log out": the token goes at once ... A sign-out that crosses no login gives *)
(* the stored session a fresh start.                                           *)
SignOut ==
  /\ UserCanAct /\ alert = "profile"
  /\ token' = NoAccount /\ alert' = "none"
  /\ pc' = [pc EXCEPT !["main"] = "clearUser"]
  /\ history' = IF LoggingIn THEN history \cup {"torn"} ELSE history \ {"torn", "lost"}
  /\ UNCHANGED <<savedUser, stack, requests, refresh, login, events>>

(* ... and the user, and then the question is put, behind the events that      *)
(* already wait for the main queue.                                            *)
ClearUser ==
  /\ pc["main"] = "clearUser"
  /\ savedUser' = NoAccount
  /\ \/ events = <<>> /\ alert' = "confirm" /\ UNCHANGED events
     \/ events # <<>> /\ events' = Append(events, [kind |-> "signedOut", account |-> NoAccount])
          /\ UNCHANGED alert
  /\ pc' = [pc EXCEPT !["main"] = "idle"]
  /\ UNCHANGED <<token, stack, requests, refresh, login, history>>

SignedOut ==
  /\ UserCanAct /\ events # <<>> /\ Head(events).kind = "signedOut"
  /\ alert' = IF alert = "none" THEN "confirm" ELSE alert
  /\ events' = Tail(events)
  /\ UNCHANGED <<stored, stack, requests, refresh, control, history>>

ConfirmStaying ==
  /\ UserCanAct /\ alert = "confirm"
  /\ alert' = "none"
  /\ UNCHANGED <<stored, stack, requests, refresh, control, events, history>>

Confirm ==
  /\ UserCanAct /\ alert = "confirm"
  /\ alert' = "none"
  /\ stack' = Append(stack, FreshLogin)
  /\ UNCHANGED <<stored, requests, refresh, control, events, history>>

(* "No" only closes the question. *)
Decline ==
  /\ UserCanAct /\ alert = "confirm"
  /\ alert' = "none"
  /\ Note(TRUE, "strayed")
  /\ UNCHANGED <<stored, stack, requests, refresh, control, events>>

(* An interactive pop that is not stopped at the bottom of the stack. *)
SwipeBackToNothing ==
  /\ UserCanAct /\ alert = "none"
  /\ stack' = SubSeq(stack, 1, Len(stack) - 1)
  /\ Note(TRUE, "strayed")
  /\ UNCHANGED <<stored, alert, requests, refresh, control, events>>

(* The edge swipe stays on: the search is its delegate and forbids nothing. *)
SwipeBack ==
  /\ UserCanAct /\ alert = "none" /\ Len(stack) > 1
  /\ stack' = SubSeq(stack, 1, Len(stack) - 1)
  /\ Note(TRUE, "strayed")
  /\ UNCHANGED <<stored, alert, requests, refresh, control, events>>

----------------------------------------------------------------------------
(* A call of a search screen, or of an album over it, finds the token expiring. *)
StartRefresh ==
  /\ UserCanAct /\ \E k \in DOMAIN stack : stack[k].kind = "search"
  /\ token # NoAccount /\ refreshing = NoAccount
  /\ refreshing' = token
  /\ UNCHANGED <<stored, screens, requests, parked, claimant, control, events, history>>

(* A refresh that fails leaves the waiting requests in the array, and gives up *)
(* the one that started it.                                                    *)
RefreshFailed ==
  /\ pc["net"] = "idle" /\ refreshing # NoAccount
  /\ refreshing' = NoAccount /\ claimant' = NoLogin
  /\ Note(parked # {} \/ claimant # NoLogin, "torn")
  /\ UNCHANGED <<stored, screens, requests, parked, control, events>>

RefreshUndrained ==
  /\ pc["net"] = "idle" /\ refreshing # NoAccount
  /\ token' = refreshing
  /\ parked' = {} /\ refreshing' = NoAccount /\ claimant' = NoLogin
  /\ login' = claimant
  /\ pc' = [pc EXCEPT !["net"] = IF claimant = NoLogin THEN "idle" ELSE "send"]
  /\ Note(token' # token, "torn")
  /\ UNCHANGED <<savedUser, screens, requests, events>>

(* The reply brings a token of the account it was asked for.  The waiting      *)
(* profiles are fetched with it, then the one that started the refresh with    *)
(* the token of its moment.                                                    *)
RefreshSucceeded ==
  /\ pc["net"] = "idle" /\ refreshing # NoAccount
  /\ token' = refreshing
  /\ profiles' = profiles \cup {[login |-> i, account |-> refreshing] : i \in parked}
  /\ parked' = {} /\ refreshing' = NoAccount /\ claimant' = NoLogin
  /\ login' = claimant
  /\ pc' = [pc EXCEPT !["net"] = IF claimant = NoLogin THEN "idle" ELSE "send"]
  /\ Note(token' # token, "torn")
  /\ UNCHANGED <<savedUser, screens, logins, codes, events>>

(* The app is killed and launched again. *)
Kill ==
  /\ stack' = Launched /\ alert' = "none"
  /\ codes' = {} /\ profiles' = {}
  /\ refreshing' = NoAccount /\ parked' = {} /\ claimant' = NoLogin
  /\ login' = NoLogin /\ pc' = [th \in {"main", "net"} |-> "idle"]
  /\ events' = <<>>
  /\ history' = (history \ {"strayed"}) \cup (IF ~UserCanAct \/ HalfIn THEN {"torn"} ELSE {})
                  \cup (IF codes # {} \/ events # <<>> THEN {"lost"} ELSE {})
  /\ UNCHANGED <<stored, logins>>

----------------------------------------------------------------------------
Main == SignedIn \/ ClearUser \/ SignedOut
Net == ValidateToke \/ RefreshIfDue \/ SendProfile
CodeReply(i) == CodeFailed(i) \/ CodeAccepted(i)
ProfileReply(p) == ProfileFailed(p) \/ ProfileFetched(p)
RefreshReply == RefreshFailed \/ RefreshSucceeded

User ==
  \/ \E a \in Accounts : OpenURL(a)
  \/ ShowProfile \/ CancelProfile \/ SignOut \/ Confirm \/ Decline \/ SwipeBack

Next ==
  \/ User \/ Main \/ Net
  \/ \E i \in Ids : CodeReply(i)
  \/ \E p \in profiles : ProfileReply(p)
  \/ StartRefresh \/ RefreshReply \/ Kill

(* The main run loop reaches its queue, the delegate queue goes on, and every  *)
(* request completes or times out; the user owes nothing.                      *)
Fairness ==
  /\ WF_vars(ClearUser) /\ SF_vars(SignedIn \/ SignedOut) /\ WF_vars(Net)
  /\ \A i \in 1..MaxLogins : SF_vars(i \in Ids /\ CodeReply(i))
  /\ \A i \in 1..MaxLogins : SF_vars(\E p \in profiles : p.login = i /\ ProfileReply(p))
  /\ SF_vars(RefreshReply)

Spec == Init /\ [][Next]_vars
FairSpec == Spec /\ Fairness

----------------------------------------------------------------------------
TypeOK ==
  /\ token \in Owner /\ savedUser \in Owner
  /\ stack \in Seq([kind : {"login", "freshLogin", "search"}, account : Owner]) /\ stack # <<>>
  /\ alert \in {"none", "profile", "confirm"}
  /\ logins \in Seq(Accounts) /\ Len(logins) <= MaxLogins
  /\ codes \subseteq Ids /\ profiles \subseteq [login : Ids, account : Accounts]
  /\ refreshing \in Owner /\ parked \subseteq Ids /\ claimant \in Ids \cup {NoLogin}
  /\ login \in Ids \cup {NoLogin}
  /\ pc \in [{"main", "net"} -> {"idle", "login", "due", "send", "clearUser"}]
  /\ events \in Seq([kind : {"signedIn", "signedOut"}, account : Owner])
  /\ history \subseteq Events

Settled == UserCanAct /\ ~LoggingIn

(* Whenever no login is between its token and its user, the stored token and   *)
(* the stored user are of one account, or both are gone, so that the next      *)
(* launch finds a whole session.  What can tear them apart: a login or a       *)
(* sign-out that starts while a login is under way, a profile that is not      *)
(* fetched or fails, one that waits for a refresh that fails, a refresh that   *)
(* brings back the token of another account or after a sign-out, a kill half   *)
(* way.  A redirect over a search screen, a code refused and a swipe back tear *)
(* nothing.                                                                    *)
StoredSessionWhole ==
  UserCanAct /\ ~HalfIn /\ "torn" \notin history => token = savedUser

(* With nothing under way and no question open, the search screen is on top    *)
(* only for the account that is signed in, refreshes and logins in between or  *)
(* not.  Not claimed once the stored session may be torn, in any of the ways   *)
(* above; after the user declined the question that comes after the sign-out   *)
(* or swiped back; and after a redirect over a search that has no login screen *)
(* at the bottom.                                                              *)
SearchMeansSignedIn ==
  /\ Settled /\ alert = "none" /\ Top.kind = "search"
  /\ "torn" \notin history /\ "strayed" \notin history
  => Top.account = token

(* A code that an app launched signed out has received leads to the search of  *)
(* that account, whatever waits for a refresh, is pushed or popped meanwhile,  *)
(* unless the code is refused, the app killed, or the stored session may be    *)
(* torn in one of the ways above.                                              *)
LoginReachesSearch ==
  \A i \in 1..MaxLogins :
    (i \in codes /\ stack[1] = LoginScreen) ~>
      ("torn" \in history \/ "lost" \in history \/
         (i \in Ids \ codes /\ \E k \in DOMAIN stack : stack[k] = Search(logins[i])))

(* "Are you sure you want to logout?": the user is asked before it happens. *)
LogoutAwaitsYes == alert = "confirm" => token # NoAccount
================================================================================
