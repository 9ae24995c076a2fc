----------------------------- MODULE SessionProofs -----------------------------
(* What signing in and out guarantees for any accounts and number of logins. *)
EXTENDS Session, SequenceTheorems, TLAPS

Screens == [kind : {"login", "freshLogin", "search"}, account : Owner]
Notices == [kind : {"signedIn", "signedOut"}, account : Owner]
Steps == {"idle", "login", "due", "send", "clearUser"}

(* The delegate queue logs somebody in exactly when it is at one of its steps. *)
NetInv ==
  /\ pc["net"] = "idle" <=> login = NoLogin
  /\ pc["net"] # "clearUser" /\ pc["main"] \in {"idle", "clearUser"}

(* A login under way is at one of its stages: its code is fetched, the delegate *)
(* queue is at it, its request waits in the array or for the refresh it started, *)
(* its profile is fetched, or its event waits for the main queue.              *)
OneStage ==
  /\ codes # {} => ~HalfIn /\ events = <<>>
  /\ login # NoLogin => parked = {} /\ claimant = NoLogin /\ profiles = {} /\ events = <<>>
  /\ parked # {} => claimant = NoLogin /\ profiles = {} /\ events = <<>>
  /\ claimant # NoLogin => profiles = {} /\ events = <<>>
  /\ profiles # {} => events = <<>>

OneLogin ==
  /\ \A i, j \in codes : i = j
  /\ \A i, j \in parked : i = j
  /\ \A p, q \in profiles : p = q
  /\ events # <<>> => Len(events) = 1

(* Why the stored session is whole: unless it may be torn one login at a time   *)
(* is under way, at one stage; who waits for a refresh has one to wait for;     *)
(* profile and event are those of the token; and a sign-out that is half done   *)
(* has erased the token.                                                       *)
WholeInv ==
  "torn" \notin history =>
    /\ ~UserCanAct => token = NoAccount /\ ~LoggingIn
    /\ UserCanAct /\ ~HalfIn => token = savedUser
    /\ OneStage /\ OneLogin
    /\ parked # {} \/ claimant # NoLogin => refreshing # NoAccount
    /\ \A p \in profiles : p.account = token
    /\ events # <<>> => events[1].kind = "signedIn" /\ events[1].account = token

(* Why the search on top is that of the token: a login that ends puts its own   *)
(* search there, if a login screen is at the bottom, and over another search    *)
(* only then; and the only way out of a search that neither declines nor goes   *)
(* back is the question and its Yes.                                           *)
ScreenInv ==
  "torn" \notin history /\ "strayed" \notin history =>
    /\ LoggingIn /\ Top.kind = "search" => stack[1] = LoginScreen
    /\ alert = "profile" => Top.kind = "search"
    /\ Top.kind = "search" /\ UserCanAct /\ alert # "confirm" /\ ~HalfIn /\ events = <<>>
         => Top.account = token

(* The login under way has the token and the profile of its own code. *)
OwnInv ==
  "torn" \notin history =>
    /\ login # NoLogin => token = logins[login]
    /\ claimant # NoLogin => token = logins[claimant]
    /\ \A i \in parked : token = logins[i]
    /\ \A p \in profiles : p.account = logins[p.login]

Forgiven == "torn" \in history \/ "lost" \in history

(* What a login is waiting for, with the screen that listens at the bottom: its *)
(* code, its turn on the delegate queue, a refresh, its profile, or the main   *)
(* queue.                                                                      *)
UnderWay(i) ==
  /\ ~Forgiven /\ stack[1] = LoginScreen
  /\ \/ i \in codes \/ login = i \/ i \in parked \/ claimant = i
     \/ \E p \in profiles : p.login = i
     \/ events # <<>> /\ events[1].kind = "signedIn" /\ events[1].account = logins[i]

ReachesSearch(i) == \E k \in DOMAIN stack : stack[k] = Search(logins[i])

----------------------------------------------------------------------------
(* The screens of a launch. *)
LEMMA LaunchedType ==
  ASSUME token \in Owner, savedUser \in Owner
  PROVE  /\ Launched \in Seq(Screens)
         /\ Launched # <<>>
         /\ Launched[Len(Launched)].kind = "search" =>
              Launched[Len(Launched)].account = savedUser
<1>1. Search(savedUser) \in Screens /\ LoginScreen \in Screens
  BY DEF Search, LoginScreen, Owner, Screens
<1>2. CASE token # NoAccount /\ savedUser # NoAccount
  <2>1. Launched = <<Search(savedUser)>>
    BY <1>2 DEF Launched
  <2>2. Launched[Len(Launched)] = Search(savedUser)
    BY <2>1
  <2>. QED  BY <1>1, <2>1, <2>2 DEF Search
<1>3. CASE ~(token # NoAccount /\ savedUser # NoAccount)
  <2>1. Launched = <<LoginScreen>>
    BY <1>3 DEF Launched
  <2>2. Launched[Len(Launched)] = LoginScreen
    BY <2>1
  <2>. QED  BY <1>1, <2>1, <2>2 DEF LoginScreen
<1>. QED  BY <1>2, <1>3

(* What is pushed is on top, and what is popped leaves the bottom. *)
LEMMA Pushed ==
  ASSUME NEW S, NEW s \in Seq(S), NEW x \in S
  PROVE  /\ Append(s, x) \in Seq(S) /\ Append(s, x) # <<>>
         /\ Len(Append(s, x)) = Len(s) + 1 /\ Append(s, x)[Len(s) + 1] = x
         /\ \A i \in DOMAIN s : Append(s, x)[i] = s[i]
<1>. QED  OBVIOUS

(* Going back from a screen that is not the first leaves the bottom of the stack. *)
LEMMA Popped ==
  ASSUME NEW S, NEW s \in Seq(S), Len(s) > 1
  PROVE  /\ SubSeq(s, 1, Len(s) - 1) \in Seq(S) /\ SubSeq(s, 1, Len(s) - 1) # <<>>
         /\ SubSeq(s, 1, Len(s) - 1)[1] = s[1]
<1>1. 1 \in Int /\ Len(s) - 1 \in Int /\ 1 <= Len(s) - 1
  OBVIOUS
<1>2. \A i \in 1..Len(s) - 1 : s[i] \in S
  OBVIOUS
<1>3. SubSeq(s, 1, Len(s) - 1) \in Seq(S)
  BY <1>1, <1>2, SubSeqProperties
<1>4. Len(SubSeq(s, 1, Len(s) - 1)) >= 1
  BY <1>1, <1>2, SubSeqProperties
<1>5. SubSeq(s, 1, Len(s) - 1)[1] = s[1]
  BY <1>1, <1>2, SubSeqProperties
<1>. QED  BY <1>3, <1>4, <1>5

(* The event served first leaves the queue of the others. *)
LEMMA Served ==
  ASSUME NEW S, NEW s \in Seq(S), s # <<>>
  PROVE  /\ Head(s) \in S /\ Head(s) = s[1] /\ 1 \in DOMAIN s /\ Tail(s) \in Seq(S)
         /\ Len(Tail(s)) = Len(s) - 1
<1>. QED  OBVIOUS

(* The first launch. *)
LEMMA TypeInit == Init => TypeOK /\ NetInv
<1>. SUFFICES ASSUME Init PROVE TypeOK /\ NetInv
  OBVIOUS
<1>1. stack \in Seq(Screens) /\ stack # <<>>
  BY LaunchedType DEF Init
<1>2. logins \in Seq(Accounts) /\ Len(logins) <= MaxLogins
  BY MaxLoginsAssumption DEF Init
<1>3. events \in Seq(Notices)
  BY DEF Init
<1>4. pc \in [{"main", "net"} -> Steps] /\ NetInv
  BY DEF Init, NetInv, Steps
<1>5. token \in Owner /\ savedUser \in Owner /\ refreshing \in Owner
  BY DEF Init, Owner
<1>. QED  BY <1>1, <1>2, <1>3, <1>4, <1>5 DEF Init, TypeOK, Screens, Notices, Steps

(* Each step of login, sign-out, refresh and launch. *)
LEMMA TypeStep == TypeOK /\ NetInv /\ [Next]_vars => TypeOK' /\ NetInv'
<1>. SUFFICES ASSUME TypeOK, NetInv, [Next]_vars PROVE TypeOK' /\ NetInv'
  OBVIOUS
<1>0. stack \in Seq(Screens) /\ events \in Seq(Notices) /\ pc \in [{"main", "net"} -> Steps]
  BY DEF TypeOK, Screens, Notices, Steps
<1>. USE MaxLoginsAssumption, NoAccountAssumption
     DEF TypeOK, NetInv, stored, screens, requests, refresh, control, Note, Owner, NoLogin, Ids,
         UserCanAct, Events
<1>1. ASSUME NEW a \in Accounts, OpenURL(a) PROVE TypeOK' /\ NetInv'
  <2>1. logins' \in Seq(Accounts) /\ Len(logins') <= MaxLogins /\ DOMAIN logins \subseteq DOMAIN logins'
        /\ Len(logins') \in DOMAIN logins'
    BY <1>1 DEF OpenURL
  <2>2. history' \subseteq Events
    BY <1>1 DEF OpenURL
  <2>3. profiles' \subseteq [login : Ids', account : Accounts]
    BY <1>1, <2>1 DEF OpenURL
  <2>. QED  BY <1>1, <2>1, <2>2, <2>3 DEF OpenURL
<1>2. ASSUME NEW j \in Ids, CodeFailed(j) PROVE TypeOK' /\ NetInv'
  BY <1>2 DEF CodeFailed
<1>3. ASSUME NEW j \in Ids, CodeAccepted(j) PROVE TypeOK' /\ NetInv'
  BY <1>3 DEF CodeAccepted
<1>4. CASE ValidateToke
  BY <1>4 DEF ValidateToke
<1>5. CASE RefreshIfDue
  <2>1. pc' \in [{"main", "net"} -> Steps] /\ NetInv'
    BY <1>5, <1>0 DEF RefreshIfDue, Steps
  <2>2. refreshing' \in Owner /\ claimant' \in Ids \cup {NoLogin} /\ login' \in Ids \cup {NoLogin}
    BY <1>5 DEF RefreshIfDue
  <2>3. history' \subseteq Events
    BY <1>5 DEF RefreshIfDue
  <2>. QED  BY <1>5, <2>1, <2>2, <2>3 DEF RefreshIfDue, Steps
<1>6. CASE SendProfile
  <2>1. profiles' \subseteq [login : Ids, account : Accounts]
    <3>1. CASE token # NoAccount
      <4>1. [login |-> login, account |-> token] \in [login : Ids, account : Accounts]
        BY <1>6, <3>1 DEF SendProfile
      <4>. QED  BY <1>6, <3>1, <4>1 DEF SendProfile
    <3>2. CASE token = NoAccount
      BY <1>6, <3>2 DEF SendProfile
    <3>. QED  BY <3>1, <3>2
  <2>2. history' \subseteq Events
    BY <1>6 DEF SendProfile
  <2>. QED  BY <1>6, <2>1, <2>2 DEF SendProfile
<1>7. ASSUME NEW p \in profiles, ProfileFailed(p) PROVE TypeOK' /\ NetInv'
  BY <1>7 DEF ProfileFailed
<1>8. ASSUME NEW p \in profiles, ProfileFetched(p) PROVE TypeOK' /\ NetInv'
  BY <1>8 DEF ProfileFetched
<1>9. CASE SignedIn
  <2>0. Head(events) \in Notices
    BY <1>9, <1>0, Served DEF SignedIn
  <2>1. Search(Head(events).account) \in Screens
    BY <2>0 DEF Search, Screens, Notices
  <2>2. stack' = stack \/ stack' = Append(stack, Search(Head(events).account))
    BY <1>9 DEF SignedIn
  <2>3. stack' \in Seq(Screens) /\ stack' # <<>>
    <3>1. Append(stack, Search(Head(events).account)) \in Seq(Screens) /\ Append(stack, Search(Head(events).account)) # <<>>
      BY <1>0, <2>1, Pushed
    <3>. QED  BY <1>0, <2>2, <3>1
  <2>. QED  BY <1>9, <2>3 DEF SignedIn, Screens, Notices
<1>10. CASE ShowProfile
  BY <1>10 DEF ShowProfile
<1>11. CASE CancelProfile
  BY <1>11 DEF CancelProfile
<1>12. CASE SignOut
  BY <1>12 DEF SignOut
<1>13. CASE ClearUser
  <2>1. [kind |-> "signedOut", account |-> NoAccount] \in Notices
    BY DEF Notices
  <2>2. events' \in Seq(Notices)
    <3>1. events' = events \/ events' = Append(events, [kind |-> "signedOut", account |-> NoAccount])
      BY <1>13 DEF ClearUser
    <3>2. Append(events, [kind |-> "signedOut", account |-> NoAccount]) \in Seq(Notices)
      BY <1>0, <2>1, Pushed
    <3>. QED  BY <1>0, <3>1, <3>2
  <2>3. pc' \in [{"main", "net"} -> Steps] /\ NetInv'
    BY <1>13, <1>0 DEF ClearUser, Steps
  <2>4. alert' \in {"none", "profile", "confirm"}
    BY <1>13 DEF ClearUser
  <2>. QED  BY <1>13, <2>2, <2>3, <2>4 DEF ClearUser, Screens, Notices, Steps
<1>14. CASE SignedOut
  BY <1>14 DEF SignedOut
<1>15. CASE Confirm
  <2>1. FreshLogin \in Screens
    BY DEF FreshLogin, Screens
  <2>2. stack' \in Seq(Screens) /\ stack' # <<>>
    BY <1>15, <1>0, <2>1, Pushed DEF Confirm
  <2>. QED  BY <1>15, <2>2 DEF Confirm, Screens, Notices
<1>16. CASE Decline
  BY <1>16 DEF Decline
<1>17. CASE SwipeBack
  <2>1. stack' \in Seq(Screens) /\ stack' # <<>>
    BY <1>17, <1>0, Popped DEF SwipeBack
  <2>2. history' \subseteq Events
    BY <1>17 DEF SwipeBack
  <2>. QED  BY <1>17, <2>1, <2>2 DEF SwipeBack, Screens, Notices
<1>18. CASE StartRefresh
  BY <1>18 DEF StartRefresh
<1>19. CASE RefreshFailed
  BY <1>19 DEF RefreshFailed
<1>20. CASE RefreshSucceeded
  <2>1. refreshing \in Accounts
    BY <1>20 DEF RefreshSucceeded
  <2>2. {[login |-> i, account |-> refreshing] : i \in parked} \subseteq [login : Ids, account : Accounts]
    BY <2>1
  <2>3. profiles' \subseteq [login : Ids, account : Accounts]
    BY <1>20, <2>2 DEF RefreshSucceeded
  <2>4. pc' \in [{"main", "net"} -> Steps] /\ NetInv'
    BY <1>20, <1>0 DEF RefreshSucceeded, Steps
  <2>. QED  BY <1>20, <2>1, <2>3, <2>4 DEF RefreshSucceeded, Steps
<1>21. CASE Kill
  <2>1. stack' \in Seq(Screens) /\ stack' # <<>>
    BY <1>21, LaunchedType DEF Kill
  <2>2. history' \subseteq Events
    BY <1>21 DEF Kill
  <2>. QED  BY <1>21, <2>1, <2>2 DEF Kill, Screens, Notices
<1>22. CASE UNCHANGED vars
  BY <1>22 DEF vars
<1>. QED
  BY <1>1, <1>2, <1>3, <1>4, <1>5, <1>6, <1>7, <1>8, <1>9, <1>10, <1>11, <1>12,
     <1>13, <1>14, <1>15, <1>16, <1>17, <1>18, <1>19, <1>20, <1>21, <1>22
  DEF Next, User, Main, Net, CodeReply, ProfileReply, RefreshReply

(* The stored session is whole at a launch, and stays so. *)
LEMMA WholeInit == Init => WholeInv
<1>. QED  BY DEF Init, WholeInv, OneStage, OneLogin, UserCanAct, HalfIn, LoggingIn, NoLogin

(* No step of either thread tears it, but for the crossings that are noted. *)
LEMMA WholeStep == TypeOK /\ NetInv /\ WholeInv /\ [Next]_vars => WholeInv'
<1>. SUFFICES ASSUME TypeOK, NetInv, WholeInv, [Next]_vars PROVE WholeInv'
  OBVIOUS
<1>0. /\ pc \in [{"main", "net"} -> Steps] /\ logins \in Seq(Accounts)
      /\ codes \subseteq DOMAIN logins /\ login \in Nat /\ claimant \in Nat
      /\ events \in Seq(Notices) /\ refreshing \in Owner
  BY DEF TypeOK, Ids, NoLogin, Notices, Steps
<1>. USE <1>0
     DEF WholeInv, OneStage, OneLogin, NetInv, stored, screens, requests, refresh, control, Note,
         NoLogin, UserCanAct, HalfIn, LoggingIn
<1>1. ASSUME NEW a \in Accounts, OpenURL(a) PROVE WholeInv'
  BY <1>1 DEF OpenURL
<1>2. ASSUME NEW j \in Ids, CodeFailed(j) PROVE WholeInv'
  BY <1>2 DEF CodeFailed
<1>3. ASSUME NEW j \in Ids, CodeAccepted(j) PROVE WholeInv'
  BY <1>3 DEF CodeAccepted
<1>4. CASE ValidateToke
  <2>. SUFFICES ASSUME "torn" \notin history PROVE WholeInv'
    BY <1>4 DEF ValidateToke
  <2>1. login # NoLogin
    BY <1>4 DEF ValidateToke
  <2>2. CASE refreshing # NoAccount
    <3>1. parked' = {login} /\ login' = NoLogin
      BY <1>4, <2>1, <2>2 DEF ValidateToke
    <3>2. \A i, j \in parked' : i = j
      BY <3>1
    <3>. QED  BY <1>4, <2>1, <2>2, <3>1, <3>2 DEF ValidateToke
  <2>3. CASE refreshing = NoAccount
    BY <1>4, <2>1, <2>3 DEF ValidateToke
  <2>. QED  BY <2>2, <2>3
<1>5. CASE RefreshIfDue
  BY <1>5 DEF RefreshIfDue
<1>6. CASE SendProfile
  <2>. SUFFICES ASSUME "torn" \notin history' PROVE WholeInv'
    BY DEF WholeInv
  <2>1. token # NoAccount /\ history' = history /\ login # NoLogin
    BY <1>6 DEF SendProfile
  <2>2. codes = {} /\ profiles = {} /\ UserCanAct
    BY <2>1
  <2>3. profiles' = {[login |-> login, account |-> token]}
    BY <1>6, <2>1, <2>2 DEF SendProfile
  <2>4. \A p, q \in profiles' : p = q /\ p.account = token
    BY <2>3
  <2>. QED  BY <1>6, <2>1, <2>2, <2>4 DEF SendProfile
<1>7. ASSUME NEW p \in profiles, ProfileFailed(p) PROVE WholeInv'
  BY <1>7 DEF ProfileFailed
<1>8. ASSUME NEW p \in profiles, ProfileFetched(p) PROVE WholeInv'
  <2>. SUFFICES ASSUME "torn" \notin history PROVE WholeInv'
    BY <1>8 DEF ProfileFetched
  <2>1. events = <<>> /\ profiles' = {} /\ p.account = token
    BY <1>8 DEF ProfileFetched
  <2>2. events' = <<[kind |-> "signedIn", account |-> token]>>
    BY <1>8, <2>1 DEF ProfileFetched
  <2>3. Len(events') = 1 /\ events'[1].kind = "signedIn" /\ events'[1].account = token
    BY <2>2
  <2>. QED  BY <1>8, <2>1, <2>3 DEF ProfileFetched
<1>9. CASE SignedIn
  <2>. SUFFICES ASSUME "torn" \notin history PROVE WholeInv'
    BY <1>9 DEF SignedIn
  <2>1. events' = <<>>
    BY <1>9, Served DEF SignedIn
  <2>. QED  BY <1>9, <2>1 DEF SignedIn
<1>10. CASE ShowProfile
  BY <1>10 DEF ShowProfile
<1>11. CASE CancelProfile
  BY <1>11 DEF CancelProfile
<1>12. CASE SignOut
  BY <1>12 DEF SignOut
<1>13. CASE ClearUser
  BY <1>13 DEF ClearUser
<1>14. CASE SignedOut
  BY <1>14 DEF SignedOut
<1>15. CASE Confirm
  BY <1>15 DEF Confirm
<1>16. CASE Decline
  BY <1>16 DEF Decline
<1>17. CASE SwipeBack
  BY <1>17 DEF SwipeBack
<1>18. CASE StartRefresh
  BY <1>18 DEF StartRefresh
<1>19. CASE RefreshFailed
  BY <1>19 DEF RefreshFailed
<1>20. CASE RefreshSucceeded
  <2>. SUFFICES ASSUME "torn" \notin history' PROVE WholeInv'
    BY DEF WholeInv
  <2>1. token = refreshing /\ token' = token /\ history' = history /\ token # NoAccount
    BY <1>20 DEF RefreshSucceeded
  <2>2. UserCanAct
    BY <2>1
  <2>3. \A p \in profiles' : p.account = token
    BY <1>20, <2>1 DEF RefreshSucceeded
  <2>4. CASE parked = {}
    <3>1. profiles' = profiles
      BY <1>20, <2>4 DEF RefreshSucceeded
    <3>. QED  BY <1>20, <2>1, <2>2, <2>3, <2>4, <3>1 DEF RefreshSucceeded
  <2>5. CASE parked # {}
    <3>1. PICK i \in parked : parked = {i}
      BY <2>1, <2>5
    <3>2. profiles' = {[login |-> i, account |-> refreshing]}
      BY <1>20, <2>1, <3>1 DEF RefreshSucceeded
    <3>3. \A p, q \in profiles' : p = q
      BY <3>2
    <3>4. claimant = NoLogin /\ codes = {} /\ login = NoLogin /\ events = <<>>
      BY <2>1, <2>5
    <3>. QED  BY <1>20, <2>1, <2>2, <2>3, <3>2, <3>3, <3>4 DEF RefreshSucceeded
  <2>. QED  BY <2>4, <2>5
<1>21. CASE Kill
  BY <1>21 DEF Kill
<1>22. CASE UNCHANGED vars
  BY <1>22 DEF vars
<1>. QED
  BY <1>1, <1>2, <1>3, <1>4, <1>5, <1>6, <1>7, <1>8, <1>9, <1>10, <1>11, <1>12,
     <1>13, <1>14, <1>15, <1>16, <1>17, <1>18, <1>19, <1>20, <1>21, <1>22
  DEF Next, User, Main, Net, CodeReply, ProfileReply, RefreshReply

(* The screen of a launch is that of the stored session. *)
LEMMA ScreenInit == Init => ScreenInv
<1>. SUFFICES ASSUME Init PROVE ScreenInv
  OBVIOUS
<1>. QED  BY LaunchedType DEF Init, ScreenInv, UserCanAct, HalfIn, LoggingIn, NoLogin, Top

(* Each push is that of the login that ends, each pop is noted. *)
LEMMA ScreenStep ==
  TypeOK /\ NetInv /\ WholeInv /\ ScreenInv /\ [Next]_vars => ScreenInv'
<1>. SUFFICES ASSUME TypeOK, NetInv, WholeInv, ScreenInv, [Next]_vars PROVE ScreenInv'
  OBVIOUS
<1>0. /\ pc \in [{"main", "net"} -> Steps] /\ logins \in Seq(Accounts)
      /\ codes \subseteq DOMAIN logins /\ login \in Nat /\ claimant \in Nat
      /\ events \in Seq(Notices) /\ refreshing \in Owner
      /\ stack \in Seq(Screens) /\ stack # <<>> /\ token \in Owner /\ savedUser \in Owner
  BY DEF TypeOK, Ids, NoLogin, Screens, Notices, Steps
<1>. USE <1>0
     DEF ScreenInv, Top, WholeInv, OneStage, OneLogin, NetInv, stored, screens, requests, refresh, control, Note,
         NoLogin, UserCanAct, HalfIn, LoggingIn
<1>1. ASSUME NEW a \in Accounts, OpenURL(a) PROVE ScreenInv'
  BY <1>1 DEF OpenURL
<1>2. ASSUME NEW j \in Ids, CodeFailed(j) PROVE ScreenInv'
  BY <1>2 DEF CodeFailed
<1>3. ASSUME NEW j \in Ids, CodeAccepted(j) PROVE ScreenInv'
  BY <1>3 DEF CodeAccepted
<1>4. CASE ValidateToke
  BY <1>4 DEF ValidateToke
<1>5. CASE RefreshIfDue
  BY <1>5 DEF RefreshIfDue
<1>6. CASE SendProfile
  <2>1. UNCHANGED <<stack, alert, token>> /\ login # NoLogin /\ UserCanAct' = UserCanAct
    BY <1>6 DEF SendProfile
  <2>2. "torn" \notin history' => profiles' # {}
    BY <1>6 DEF SendProfile
  <2>3. history \subseteq history'
    BY <1>6 DEF SendProfile
  <2>. QED  BY <2>1, <2>2, <2>3
<1>7. ASSUME NEW p \in profiles, ProfileFailed(p) PROVE ScreenInv'
  BY <1>7 DEF ProfileFailed
<1>8. ASSUME NEW p \in profiles, ProfileFetched(p) PROVE ScreenInv'
  <2>1. UNCHANGED <<stack, alert, token, history, login, parked, claimant, pc>> /\ profiles # {}
    BY <1>8 DEF ProfileFetched
  <2>2. events' # <<>>
    BY <1>8 DEF ProfileFetched
  <2>. QED  BY <2>1, <2>2
<1>9. CASE SignedIn
  <2>. SUFFICES ASSUME "torn" \notin history, "strayed" \notin history PROVE ScreenInv'
    BY <1>9 DEF SignedIn
  <2>1. Head(events) = events[1] /\ events' = <<>> /\ Head(events).account = token
        /\ codes = {} /\ ~HalfIn
    BY <1>9, Served DEF SignedIn
  <2>2. CASE stack[1] = LoginScreen
    <3>1. Search(token) \in Screens
      BY DEF Search, Screens
    <3>2. stack' = Append(stack, Search(token))
      BY <1>9, <2>1, <2>2 DEF SignedIn
    <3>3. stack'[Len(stack')] = Search(token)
      BY <3>1, <3>2, Pushed
    <3>. QED  BY <1>9, <2>1, <3>3 DEF SignedIn, Search
  <2>3. CASE stack[1] # LoginScreen
    BY <1>9, <2>1, <2>3 DEF SignedIn
  <2>. QED  BY <2>2, <2>3
<1>10. CASE ShowProfile
  BY <1>10 DEF ShowProfile
<1>11. CASE CancelProfile
  BY <1>11 DEF CancelProfile
<1>12. CASE SignOut
  BY <1>12 DEF SignOut
<1>13. CASE ClearUser
  BY <1>13 DEF ClearUser
<1>14. CASE SignedOut
  BY <1>14 DEF SignedOut
<1>15. CASE Confirm
  <2>1. FreshLogin \in Screens /\ stack' = Append(stack, FreshLogin)
    BY <1>15 DEF Confirm, FreshLogin, Screens, Owner
  <2>2. stack'[Len(stack')] = FreshLogin
    BY <2>1, Pushed
  <2>. QED  BY <1>15, <2>2 DEF Confirm, FreshLogin
<1>16. CASE Decline
  BY <1>16 DEF Decline
<1>17. CASE SwipeBack
  BY <1>17 DEF SwipeBack
<1>18. CASE StartRefresh
  BY <1>18 DEF StartRefresh
<1>19. CASE RefreshFailed
  BY <1>19 DEF RefreshFailed
<1>20. CASE RefreshSucceeded
  <2>. SUFFICES ASSUME "torn" \notin history', "strayed" \notin history' PROVE ScreenInv'
    BY DEF ScreenInv
  <2>1. token' = token /\ history' = history
    BY <1>20 DEF RefreshSucceeded
  <2>2. HalfIn' => HalfIn
    BY <1>20 DEF RefreshSucceeded
  <2>3. HalfIn => HalfIn'
    <3>1. CASE parked # {}
      <4>1. PICK i : i \in parked
        BY <3>1
      <4>2. [login |-> i, account |-> refreshing] \in profiles'
        BY <1>20, <4>1 DEF RefreshSucceeded
      <4>. QED  BY <4>2
    <3>2. CASE parked = {}
      BY <1>20, <3>2 DEF RefreshSucceeded
    <3>. QED  BY <3>1, <3>2
  <2>4. UNCHANGED <<stack, alert, codes, events>> /\ UserCanAct' = UserCanAct
    BY <1>20 DEF RefreshSucceeded
  <2>. QED  BY <2>1, <2>2, <2>3, <2>4
<1>21. CASE Kill
  <2>. SUFFICES ASSUME "torn" \notin history' PROVE ScreenInv'
    BY DEF ScreenInv
  <2>1. "torn" \notin history /\ UserCanAct /\ ~HalfIn
    BY <1>21 DEF Kill
  <2>2. token = savedUser
    BY <2>1
  <2>3. stack'[Len(stack')].kind = "search" => stack'[Len(stack')].account = token
    BY <1>21, <2>2, LaunchedType DEF Kill
  <2>. QED  BY <1>21, <2>3 DEF Kill
<1>22. CASE UNCHANGED vars
  BY <1>22 DEF vars
<1>. QED
  BY <1>1, <1>2, <1>3, <1>4, <1>5, <1>6, <1>7, <1>8, <1>9, <1>10, <1>11, <1>12,
     <1>13, <1>14, <1>15, <1>16, <1>17, <1>18, <1>19, <1>20, <1>21, <1>22
  DEF Next, User, Main, Net, CodeReply, ProfileReply, RefreshReply

(* No login is under way at a launch. *)
LEMMA OwnInit == Init => OwnInv
<1>. QED  BY DEF Init, OwnInv, NoLogin

(* A code brings its own token, and what would change it under way is noted. *)
LEMMA OwnStep == TypeOK /\ NetInv /\ WholeInv /\ OwnInv /\ [Next]_vars => OwnInv'
<1>. SUFFICES ASSUME TypeOK, NetInv, WholeInv, OwnInv, [Next]_vars PROVE OwnInv'
  OBVIOUS
<1>0. /\ pc \in [{"main", "net"} -> Steps] /\ logins \in Seq(Accounts) /\ codes \subseteq DOMAIN logins
      /\ login \in Nat /\ login # NoLogin => login \in DOMAIN logins
      /\ claimant \in Nat /\ claimant # NoLogin => claimant \in DOMAIN logins
      /\ parked \subseteq DOMAIN logins
      /\ \A p \in profiles : p.login \in DOMAIN logins
  BY DEF TypeOK, Ids, NoLogin, Steps
<1>. USE <1>0
     DEF OwnInv, WholeInv, OneStage, OneLogin, NetInv, stored, screens, requests, refresh, control, Note,
         NoLogin, UserCanAct, HalfIn, LoggingIn
<1>1. ASSUME NEW a \in Accounts, OpenURL(a) PROVE OwnInv'
  BY <1>1 DEF OpenURL
<1>2. ASSUME NEW j \in Ids, CodeFailed(j) PROVE OwnInv'
  BY <1>2 DEF CodeFailed
<1>3. ASSUME NEW j \in Ids, CodeAccepted(j) PROVE OwnInv'
  BY <1>3 DEF CodeAccepted
<1>4. CASE ValidateToke
  <2>1. \A i \in parked' : i \in parked \/ i = login
    BY <1>4 DEF ValidateToke
  <2>. QED  BY <1>4, <2>1 DEF ValidateToke
<1>5. CASE RefreshIfDue
  BY <1>5 DEF RefreshIfDue
<1>6. CASE SendProfile
  <2>1. CASE token # NoAccount
    <3>1. profiles' = profiles \cup {[login |-> login, account |-> token]}
      BY <1>6, <2>1 DEF SendProfile
    <3>. QED  BY <1>6, <2>1, <3>1 DEF SendProfile
  <2>2. CASE token = NoAccount
    BY <1>6, <2>2 DEF SendProfile
  <2>. QED  BY <2>1, <2>2
<1>7. ASSUME NEW p \in profiles, ProfileFailed(p) PROVE OwnInv'
  BY <1>7 DEF ProfileFailed
<1>8. ASSUME NEW p \in profiles, ProfileFetched(p) PROVE OwnInv'
  BY <1>8 DEF ProfileFetched
<1>9. CASE SignedIn
  BY <1>9 DEF SignedIn
<1>10. CASE ShowProfile
  BY <1>10 DEF ShowProfile
<1>11. CASE CancelProfile
  BY <1>11 DEF CancelProfile
<1>12. CASE SignOut
  BY <1>12 DEF SignOut
<1>13. CASE ClearUser
  BY <1>13 DEF ClearUser
<1>14. CASE SignedOut
  BY <1>14 DEF SignedOut
<1>15. CASE Confirm
  BY <1>15 DEF Confirm
<1>16. CASE Decline
  BY <1>16 DEF Decline
<1>17. CASE SwipeBack
  BY <1>17 DEF SwipeBack
<1>18. CASE StartRefresh
  BY <1>18 DEF StartRefresh
<1>19. CASE RefreshFailed
  BY <1>19 DEF RefreshFailed
<1>20. CASE RefreshSucceeded
  <2>. SUFFICES ASSUME "torn" \notin history' PROVE OwnInv'
    BY DEF OwnInv
  <2>1. token' = token /\ token = refreshing /\ history' = history
    BY <1>20 DEF RefreshSucceeded
  <2>2. \A p \in profiles' : p \in profiles \/ \E i \in parked : p = [login |-> i, account |-> refreshing]
    BY <1>20 DEF RefreshSucceeded
  <2>3. \A p \in profiles' : p.account = logins[p.login]
    BY <2>1, <2>2
  <2>. QED  BY <1>20, <2>1, <2>3 DEF RefreshSucceeded
<1>21. CASE Kill
  BY <1>21 DEF Kill
<1>22. CASE UNCHANGED vars
  BY <1>22 DEF vars
<1>. QED
  BY <1>1, <1>2, <1>3, <1>4, <1>5, <1>6, <1>7, <1>8, <1>9, <1>10, <1>11, <1>12,
     <1>13, <1>14, <1>15, <1>16, <1>17, <1>18, <1>19, <1>20, <1>21, <1>22
  DEF Next, User, Main, Net, CodeReply, ProfileReply, RefreshReply

(* A login under way stays under way until its search is pushed. *)
LEMMA KeptStep ==
  ASSUME TypeOK, NetInv, WholeInv, ScreenInv, OwnInv, [Next]_vars, NEW i \in Ids, UnderWay(i)
  PROVE  UnderWay(i)' \/ Forgiven' \/ ReachesSearch(i)'
<1>. DEFINE Kept == UnderWay(i)' \/ Forgiven' \/ ReachesSearch(i)'
<1>0. /\ pc \in [{"main", "net"} -> Steps] /\ logins \in Seq(Accounts)
      /\ i \in DOMAIN logins /\ i # NoLogin /\ "torn" \notin history
      /\ stack \in Seq(Screens) /\ stack # <<>> /\ events \in Seq(Notices)
      /\ profiles \subseteq [login : Ids, account : Accounts]
  BY DEF TypeOK, Ids, NoLogin, Screens, Notices, Steps, UnderWay, Forgiven
<1>00. LoggingIn
  BY <1>0 DEF UnderWay, LoggingIn, HalfIn
<1>. USE <1>0, <1>00
     DEF UnderWay, Forgiven, stored, screens, requests, refresh, control, Note, UserCanAct
<1>1. ASSUME NEW a \in Accounts, OpenURL(a) PROVE Kept
  BY <1>1 DEF OpenURL
<1>2. ASSUME NEW j \in Ids, CodeFailed(j) PROVE Kept
  BY <1>2 DEF CodeFailed
<1>3. ASSUME NEW j \in Ids, CodeAccepted(j) PROVE Kept
  <2>1. UNCHANGED <<stack, logins, profiles, parked, claimant, events, history>> /\ login' = j /\ codes' = codes \ {j}
    BY <1>3 DEF CodeAccepted
  <2>2. login = NoLogin
    BY <1>3 DEF CodeAccepted, NetInv
  <2>. QED  BY <2>1, <2>2
<1>4. CASE ValidateToke
  <2>1. UNCHANGED <<stack, logins, codes, profiles, claimant, events, history>>
    BY <1>4 DEF ValidateToke
  <2>2. CASE refreshing # NoAccount
    <3>1. parked' = parked \cup {login}
      BY <1>4, <2>2 DEF ValidateToke
    <3>. QED  BY <2>1, <3>1
  <2>3. CASE refreshing = NoAccount
    BY <1>4, <2>3 DEF ValidateToke
  <2>. QED  BY <2>2, <2>3
<1>5. CASE RefreshIfDue
  <2>1. UNCHANGED <<stack, logins, codes, profiles, parked, events>>
    BY <1>5 DEF RefreshIfDue
  <2>2. login # NoLogin => claimant = NoLogin
    BY DEF WholeInv, OneStage
  <2>3. Forgiven' \/ (history' = history /\ ((login' = login /\ claimant' = claimant) \/ claimant' = login))
    BY <1>5 DEF RefreshIfDue
  <2>4. login # NoLogin
    BY <1>5 DEF RefreshIfDue, NetInv
  <2>. QED  BY <2>1, <2>2, <2>3, <2>4
<1>6. CASE SendProfile
  <2>1. CASE token # NoAccount
    <3>1. profiles' = profiles \cup {[login |-> login, account |-> token]}
      BY <1>6, <2>1 DEF SendProfile
    <3>2. [login |-> login, account |-> token] \in profiles'
      BY <3>1
    <3>3. UNCHANGED <<stack, logins, codes, parked, claimant, events, history>>
      BY <1>6, <2>1 DEF SendProfile
    <3>4. CASE login = i
      <4>1. [login |-> login, account |-> token].login = i
        BY <3>4
      <4>. QED  BY <3>2, <3>3, <4>1
    <3>5. CASE login # i
      BY <3>1, <3>3, <3>5
    <3>. QED  BY <3>4, <3>5
  <2>2. CASE token = NoAccount
    BY <1>6, <2>2 DEF SendProfile
  <2>. QED  BY <2>1, <2>2
<1>7. ASSUME NEW p \in profiles, ProfileFailed(p) PROVE Kept
  BY <1>7 DEF ProfileFailed
<1>8. ASSUME NEW p \in profiles, ProfileFetched(p) PROVE Kept
  <2>1. events = <<>> /\ p.account = logins[p.login]
    BY DEF WholeInv, OneStage, OwnInv
  <2>2. events' = <<[kind |-> "signedIn", account |-> p.account]>>
    BY <1>8, <2>1 DEF ProfileFetched
  <2>3. events' # <<>> /\ events'[1].kind = "signedIn" /\ events'[1].account = p.account
    BY <2>2
  <2>4. UNCHANGED <<stack, logins, codes, login, parked, claimant, history>> /\ profiles' = profiles \ {p}
    BY <1>8 DEF ProfileFetched
  <2>5. CASE p.login = i
    BY <2>1, <2>3, <2>4, <2>5
  <2>6. CASE p.login # i
    BY <2>1, <2>4, <2>6
  <2>. QED  BY <2>5, <2>6
<1>9. CASE SignedIn
  <2>1. events # <<>> /\ Head(events) = events[1] /\ codes = {} /\ ~HalfIn
    BY <1>9, Served DEF SignedIn, WholeInv, OneStage, HalfIn
  <2>2. Head(events).account = logins[i]
    BY <2>1 DEF HalfIn
  <2>3. Search(logins[i]) \in Screens
    BY DEF Search, Screens, Owner
  <2>4. stack' = Append(stack, Search(logins[i])) /\ logins' = logins
    BY <1>9, <2>2 DEF SignedIn
  <2>5. stack'[Len(stack) + 1] = Search(logins[i]) /\ Len(stack) + 1 \in DOMAIN stack'
    BY <2>3, <2>4, Pushed
  <2>. QED  BY <2>4, <2>5 DEF ReachesSearch, Search
<1>10. CASE ShowProfile
  BY <1>10 DEF ShowProfile
<1>11. CASE CancelProfile
  BY <1>11 DEF CancelProfile
<1>12. CASE SignOut
  BY <1>12 DEF SignOut
<1>13. CASE ClearUser
  <2>1. ~LoggingIn
    BY <1>13 DEF ClearUser, WholeInv
  <2>. QED  BY <2>1
<1>14. CASE SignedOut
  <2>1. events[1].kind = "signedIn" /\ Head(events) = events[1]
    BY <1>14, Served DEF SignedOut, WholeInv
  <2>. QED  BY <1>14, <2>1 DEF SignedOut
<1>15. CASE Confirm
  <2>1. FreshLogin \in Screens
    BY DEF FreshLogin, Screens, Owner
  <2>2. 1 \in DOMAIN stack /\ stack'[1] = stack[1]
    BY <1>15, <2>1, Pushed DEF Confirm
  <2>. QED  BY <1>15, <2>2 DEF Confirm
<1>16. CASE Decline
  BY <1>16 DEF Decline
<1>17. CASE SwipeBack
  <2>1. stack'[1] = stack[1]
    BY <1>17, Popped DEF SwipeBack
  <2>. QED  BY <1>17, <2>1 DEF SwipeBack
<1>18. CASE StartRefresh
  BY <1>18 DEF StartRefresh
<1>19. CASE RefreshFailed
  BY <1>19 DEF RefreshFailed
<1>20. CASE RefreshSucceeded
  <2>1. UNCHANGED <<stack, logins, codes, events>> /\ login = NoLogin /\ login' = claimant
    BY <1>20 DEF RefreshSucceeded, NetInv
  <2>2. profiles \subseteq profiles' /\ \A k \in parked : [login |-> k, account |-> refreshing] \in profiles'
    BY <1>20 DEF RefreshSucceeded
  <2>3. Forgiven' \/ history' = history
    BY <1>20 DEF RefreshSucceeded
  <2>4. CASE i \in parked
    <3>1. [login |-> i, account |-> refreshing].login = i
      OBVIOUS
    <3>. QED  BY <2>1, <2>2, <2>3, <2>4, <3>1
  <2>5. CASE i \notin parked
    BY <2>1, <2>2, <2>3, <2>5
  <2>. QED  BY <2>4, <2>5
<1>21. CASE Kill
  BY <1>21 DEF Kill, LoggingIn
<1>22. CASE UNCHANGED vars
  BY <1>22 DEF vars
<1>. QED
  BY <1>1, <1>2, <1>3, <1>4, <1>5, <1>6, <1>7, <1>8, <1>9, <1>10, <1>11, <1>12,
     <1>13, <1>14, <1>15, <1>16, <1>17, <1>18, <1>19, <1>20, <1>21, <1>22
  DEF Next, User, Main, Net, CodeReply, ProfileReply, RefreshReply

----------------------------------------------------------------------------
(* The session stays typed for any accounts and number of logins. *)
THEOREM TypeCorrect == Spec => []TypeOK
<1>. QED  BY TypeInit, TypeStep, PTL DEF Spec

(* Whenever no login is between its token and its user, what UserDefaults holds *)
(* is a whole session: its token and its user are of one account, or both are  *)
(* gone.  Requests that wait for a refresh, refreshes, redirects over any      *)
(* screen and kills included; the exceptions are those StoredSessionWhole      *)
(* lists.                                                                      *)
THEOREM SessionIsWhole == Spec => []StoredSessionWhole
<1>1. TypeOK /\ NetInv /\ WholeInv => StoredSessionWhole
  BY DEF StoredSessionWhole, WholeInv
<1>. QED  BY TypeInit, TypeStep, WholeInit, WholeStep, <1>1, PTL DEF Spec

(* A search screen on top is that of the account that is signed in, unless the *)
(* stored session may be torn, the user declined the late question or swiped   *)
(* back, or a redirect came over a search with no login screen at the bottom.  *)
THEOREM SearchIsSignedIn == Spec => []SearchMeansSignedIn
<1>1. TypeOK /\ NetInv /\ WholeInv /\ ScreenInv => SearchMeansSignedIn
  BY DEF SearchMeansSignedIn, ScreenInv, Settled, UserCanAct, LoggingIn
<1>. QED  BY TypeInit, TypeStep, WholeInit, WholeStep, ScreenInit, ScreenStep, <1>1, PTL DEF Spec

(* What LoginReachesSearch waits for, short of fairness: no step forgets a      *)
(* login but those that Forgiven names.  A code whose login screen listens is  *)
(* fetched, has its turn, its request waits for a refresh or is sent, its      *)
(* profile is fetched, its event queued, until the search of its own account   *)
(* is pushed.                                                                  *)
THEOREM NoLoginForgotten ==
  Spec => [][\A i \in Ids : UnderWay(i) => UnderWay(i)' \/ Forgiven' \/ ReachesSearch(i)']_vars
<1>1. /\ TypeOK /\ NetInv /\ WholeInv /\ ScreenInv /\ OwnInv /\ [Next]_vars
      => [\A i \in Ids : UnderWay(i) => UnderWay(i)' \/ Forgiven' \/ ReachesSearch(i)']_vars
  BY KeptStep
<1>. QED
  BY TypeInit, TypeStep, WholeInit, WholeStep, ScreenInit, ScreenStep, OwnInit, OwnStep, <1>1, PTL
  DEF Spec
=============================================================================
