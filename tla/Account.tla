-------------------------------- MODULE Account --------------------------------
(***************************************************************************)
(* Accounts on one phone: the profile page, the sign-in sheet over it, the *)
(* current user of Firebase Auth, and the documents of the collection      *)
(* "Users", which registration writes after Auth has made the account.     *)
(*                                                                         *)
(* Auth changes its user on a queue of its own and posts to the main queue *)
(* a notification, and after it the callback of the request that made the  *)
(* change.  The two clients see the notification differently: Firestore    *)
(* takes the user named in it, the page's listener asks who is the user    *)
(* when it is called.  Firestore keeps the pending writes of each user     *)
(* apart and sends those of the user it knows.                             *)
(***************************************************************************)
EXTENDS Naturals, Sequences

CONSTANTS
    Email,          \* addresses typed into the sheet
    Nobody,         \* no user
    Unset,          \* the listener has not been called yet
    MaxReturns,     \* bound: requests to Auth
    MaxSheets,      \* bound: times the sheet is opened
    MaxFaults       \* bound: crashes, broken streams, refusals and lost responses

ASSUME AccountAssumption ==
    /\ Nobody \notin Email /\ Unset \notin Email \cup {Nobody}
    /\ Email \cap {"storyboard", "invitation", "error"} = {}
    /\ {MaxReturns, MaxSheets, MaxFaults} \subseteq Nat

User == Email \cup {Nobody}

VARIABLES
    accounts,       \* the accounts the Auth backend knows
    documents,      \* documents[e]: e's document in the backend
    currentUser,    \* the user of Auth, kept in the keychain
    clientUser,     \* the user Firestore has been told of
    writes,         \* writes[u]: pending writes made while Firestore's user was u
    sent,           \* how many of clientUser's the backend has applied
    requests,       \* requests to Auth without response
    reads,          \* reads[e]: reads of e's document without answer
    mainQueue,      \* blocks waiting for the main queue
    loaded,         \* the profile page has been shown and listens
    previousUserID, \* the user of the listener's last call
    signup,         \* the flag of the page: somebody is signed in
    shown,          \* what the page shows: an account, or one of three texts
    sheet,          \* the number of the sheet on the screen, or 0
    alert,          \* an alert covers the sheet
    singup,         \* the sheet registers, it does not sign in
    returns, sheets, faults,    \* how much of the bounds is used up
    lost,           \* accounts whose document is lost on the way (history)
    resent,         \* accounts whose document is stored and will be sent again (history)
    raced           \* the user has changed before the page caught up (history)

cloudVars == <<accounts, documents>>
writeVars == <<writes, sent, resent>>
pageVars == <<loaded, previousUserID, signup, shown>>
sheetVars == <<sheet, alert, singup>>
bounds == <<returns, sheets, faults>>
vars == <<accounts, documents, currentUser, clientUser, writes, sent, requests, reads,
          mainQueue, loaded, previousUserID, signup, shown, sheet, alert, singup,
          returns, sheets, faults, lost, resent, raced>>

Request == [id: 1..MaxReturns, kind: {"register", "signIn"}, email: Email, sheet: 1..MaxSheets]

Block == [do: {"first"}]
         \cup [do: {"notify"}, user: User]
         \cup [do: {"registered", "signedIn"}, email: Email, sheet: 1..MaxSheets]
         \cup [do: {"document"}, email: Email, exists: BOOLEAN]

TypeOK ==
    /\ accounts \subseteq Email
    /\ documents \in [Email -> {"none", "member", "master"}]
    /\ currentUser \in User
    /\ clientUser \in User
    /\ writes \in [User -> Seq(Email)]
    /\ sent \in 0..Len(writes[clientUser])
    /\ requests \subseteq Request
    /\ reads \in [Email -> Nat]
    /\ mainQueue \in Seq(Block)
    /\ loaded \in BOOLEAN
    /\ previousUserID \in User \cup {Unset}
    /\ signup \in BOOLEAN
    /\ shown \in Email \cup {"storyboard", "invitation", "error"}
    /\ sheet \in 0..MaxSheets
    /\ alert \in BOOLEAN
    /\ singup \in BOOLEAN
    /\ returns \in 0..MaxReturns
    /\ sheets \in 0..MaxSheets
    /\ faults \in 0..MaxFaults
    /\ lost \subseteq Email
    /\ resent \subseteq Email
    /\ raced \in BOOLEAN

Fault == faults < MaxFaults /\ faults' = faults + 1

Init ==
    /\ accounts = {}
    /\ documents = [e \in Email |-> "none"]
    /\ currentUser = Nobody
    /\ clientUser = Nobody
    /\ writes = [u \in User |-> <<>>]
    /\ sent = 0
    /\ requests = {}
    /\ reads = [e \in Email |-> 0]
    /\ mainQueue = <<>>
    /\ loaded = FALSE
    /\ previousUserID = Unset
    /\ signup = TRUE
    /\ shown = "storyboard"
    /\ sheet = 0
    /\ alert = FALSE
    /\ singup = TRUE
    /\ returns = 0 /\ sheets = 0 /\ faults = 0
    /\ lost = {}
    /\ resent = {}
    /\ raced = FALSE

--------------------------------------------------------------------------------
(* Auth: its user changes, and the main queue is told.                     *)

Notify(u) == [do |-> "notify", user |-> u]

\* The page has not painted the present user yet, or not for good.
Painting ==
    loaded /\ \/ \E i \in DOMAIN mainQueue : mainQueue[i].do \in {"notify", "document"}
              \/ \E e \in Email : reads[e] > 0

ChangeUser(u, callbacks) ==
    /\ currentUser' = u
    /\ mainQueue' = mainQueue \o <<Notify(u)>> \o callbacks
    /\ raced' = (raced \/ Painting)

\* mutant: an address may be registered twice
CreateUserAgain ==
    \E r \in requests :
        /\ r.kind = "register"
        /\ accounts' = accounts \cup {r.email}
        /\ requests' = requests \ {r}
        /\ ChangeUser(r.email, <<[do |-> "registered", email |-> r.email, sheet |-> r.sheet]>>)
        /\ UNCHANGED <<documents, clientUser, writeVars, reads, pageVars, sheetVars,
                       bounds, lost>>

\* A registration succeeds only for an address without account.
CreateUser ==
    \E r \in requests :
        /\ r.kind = "register"
        /\ r.email \notin accounts
        /\ accounts' = accounts \cup {r.email}
        /\ requests' = requests \ {r}
        /\ ChangeUser(r.email, <<[do |-> "registered", email |-> r.email, sheet |-> r.sheet]>>)
        /\ UNCHANGED <<documents, clientUser, writeVars, reads, pageVars, sheetVars,
                       bounds, lost>>

SignIn ==
    \E r \in requests :
        /\ r.kind = "signIn"
        /\ r.email \in accounts
        /\ requests' = requests \ {r}
        /\ ChangeUser(r.email, <<[do |-> "signedIn", email |-> r.email, sheet |-> r.sheet]>>)
        /\ UNCHANGED <<cloudVars, clientUser, writeVars, reads, pageVars, sheetVars,
                       bounds, lost>>

\* A wrong password, an address that is taken, or no network: the callback
\* of a failed request does nothing.
RequestFails ==
    \E r \in requests :
        /\ requests' = requests \ {r}
        /\ UNCHANGED <<cloudVars, currentUser, clientUser, writeVars, reads, mainQueue,
                       pageVars, sheetVars, bounds, lost, raced>>

\* The account is made, and the phone is told of an error.
ResponseLost ==
    /\ Fault
    /\ \E r \in requests :
        /\ r.kind = "register"
        /\ r.email \notin accounts
        /\ accounts' = accounts \cup {r.email}
        /\ lost' = lost \cup {r.email}
        /\ requests' = requests \ {r}
        /\ UNCHANGED <<documents, currentUser, clientUser, writeVars, reads, mainQueue,
                       pageVars, sheetVars, returns, sheets, raced>>

--------------------------------------------------------------------------------
(* The profile page.                                                       *)

ViewDidLoad ==
    /\ ~loaded
    /\ loaded' = TRUE
    /\ mainQueue' = Append(mainQueue, [do |-> "first"])
    /\ UNCHANGED <<cloudVars, currentUser, clientUser, writeVars, requests, reads,
                   previousUserID, signup, shown, sheetVars, bounds, lost, raced>>

\* The flag follows the user: without one the page makes its offer, with one
\* it reads the account's document and keeps what it shows until the answer.
SetSignup ==
    /\ signup' = (currentUser # Nobody)
    /\ IF currentUser = Nobody
       THEN shown' = "invitation" /\ UNCHANGED reads
       ELSE reads' = [reads EXCEPT ![currentUser] = @ + 1] /\ UNCHANGED shown

\* mutant: the listener is called once
TellOnce ==
    /\ previousUserID' = currentUser
    /\ IF previousUserID # Unset THEN UNCHANGED <<signup, shown, reads>> ELSE SetSignup

\* The listener is called for the present user, unless it was the last time.
Tell ==
    /\ previousUserID' = currentUser
    /\ IF previousUserID = currentUser THEN UNCHANGED <<signup, shown, reads>> ELSE SetSignup

\* The write stream starts over: what it has sent without an acknowledgement
\* is sent again.
SendAgain ==
    /\ sent' = 0
    /\ resent' = resent \cup {writes[clientUser][i] : i \in 1..sent}

NextBlock(do) == mainQueue # <<>> /\ Head(mainQueue).do = do

Done == mainQueue' = Tail(mainQueue)

\* mutant: the listener is not told the state it starts with
HandleFirstQuietly ==
    /\ NextBlock("first")
    /\ Done
    /\ UNCHANGED <<cloudVars, currentUser, clientUser, writeVars, requests, reads,
                   pageVars, sheetVars, bounds, lost, raced>>

HandleFirst ==
    /\ NextBlock("first")
    /\ Done
    /\ Tell
    /\ UNCHANGED <<cloudVars, currentUser, clientUser, writeVars, requests, loaded,
                   sheetVars, bounds, lost, raced>>

\* mutant: the writes of the last user are counted on
HandleAndKeepSent ==
    /\ NextBlock("notify")
    /\ Done
    /\ clientUser' = Head(mainQueue).user
    /\ IF loaded THEN Tell ELSE UNCHANGED <<previousUserID, signup, shown, reads>>
    /\ UNCHANGED <<cloudVars, currentUser, writeVars, requests, loaded,
                   sheetVars, bounds, lost, raced>>

\* Firestore swaps its queue of writes and restarts its streams.
HandleNotification ==
    /\ NextBlock("notify")
    /\ Done
    /\ clientUser' = Head(mainQueue).user
    /\ SendAgain
    /\ IF loaded THEN Tell ELSE UNCHANGED <<previousUserID, signup, shown, reads>>
    /\ UNCHANGED <<cloudVars, currentUser, writes, requests, loaded,
                   sheetVars, bounds, lost, raced>>

\* The answer about a document paints the page, whoever is the user now.
HandleDocument ==
    /\ NextBlock("document")
    /\ Done
    /\ shown' = IF Head(mainQueue).exists THEN Head(mainQueue).email ELSE "error"
    /\ UNCHANGED <<cloudVars, currentUser, clientUser, writeVars, requests, reads,
                   loaded, previousUserID, signup, sheetVars, bounds, lost, raced>>

\* The button of the page signs out when the flag says so ...
SignOut ==
    /\ loaded /\ sheet = 0 /\ signup
    /\ signup' = FALSE
    /\ shown' = "invitation"
    /\ IF currentUser = Nobody
       THEN UNCHANGED <<currentUser, mainQueue, raced>>
       ELSE ChangeUser(Nobody, <<>>)
    /\ UNCHANGED <<cloudVars, clientUser, writeVars, requests, reads, loaded,
                   previousUserID, sheetVars, bounds, lost>>

\* ... and else opens the sheet.
PresentSheet ==
    /\ loaded /\ sheet = 0 /\ ~signup
    /\ sheets < MaxSheets
    /\ sheets' = sheets + 1
    /\ sheet' = sheets'
    /\ singup' = TRUE
    /\ UNCHANGED <<cloudVars, currentUser, clientUser, writeVars, requests, reads,
                   mainQueue, pageVars, alert, returns, faults, lost, raced>>

--------------------------------------------------------------------------------
(* The sign-in sheet.                                                      *)

ToggleSingup ==
    /\ sheet # 0 /\ ~alert
    /\ singup' = ~singup
    /\ UNCHANGED <<cloudVars, currentUser, clientUser, writeVars, requests, reads,
                   mainQueue, pageVars, sheet, alert, bounds, lost, raced>>

\* mutant: the document is written with the request, not after its success
ReturnAndWrite ==
    /\ sheet # 0 /\ ~alert
    /\ returns < MaxReturns
    /\ returns' = returns + 1
    /\ \E e \in Email :
        /\ requests' = requests \cup
            {[id |-> returns', kind |-> IF singup THEN "register" ELSE "signIn",
              email |-> e, sheet |-> sheet]}
        /\ writes' = IF singup THEN [writes EXCEPT ![clientUser] = Append(@, e)] ELSE writes
    /\ UNCHANGED <<cloudVars, currentUser, clientUser, sent, resent, reads, mainQueue,
                   pageVars, sheetVars, sheets, faults, lost, raced>>

\* Return with the fields filled in; nothing keeps the user from a second one.
Return ==
    /\ sheet # 0 /\ ~alert
    /\ returns < MaxReturns
    /\ returns' = returns + 1
    /\ \E e \in Email :
        requests' = requests \cup
            {[id |-> returns', kind |-> IF singup THEN "register" ELSE "signIn",
              email |-> e, sheet |-> sheet]}
    /\ UNCHANGED <<cloudVars, currentUser, clientUser, writeVars, reads, mainQueue,
                   pageVars, sheetVars, sheets, faults, lost, raced>>

\* Return with a field left empty
Alert ==
    /\ sheet # 0 /\ ~alert
    /\ alert' = TRUE
    /\ UNCHANGED <<cloudVars, currentUser, clientUser, writeVars, requests, reads,
                   mainQueue, pageVars, sheet, singup, bounds, lost, raced>>

\* What dismissing a sheet takes off the screen: the alert over it, the
\* sheet, or nothing when the sheet is gone already.
Dismiss(s) ==
    /\ alert' = (alert /\ sheet # s)
    /\ sheet' = IF sheet = s /\ ~alert THEN 0 ELSE sheet

\* The user confirms the alert, or swipes the sheet away.
CloseTop ==
    /\ sheet # 0
    /\ Dismiss(sheet)
    /\ UNCHANGED <<cloudVars, currentUser, clientUser, writeVars, requests, reads,
                   mainQueue, pageVars, singup, bounds, lost, raced>>

HandleSignedIn ==
    /\ NextBlock("signedIn")
    /\ Done
    /\ Dismiss(Head(mainQueue).sheet)
    /\ UNCHANGED <<cloudVars, currentUser, clientUser, writeVars, requests, reads,
                   pageVars, singup, bounds, lost, raced>>

\* mutant: a sheet that was swiped away writes nothing
HandleRegisteredOnSheet ==
    /\ NextBlock("registered")
    /\ Done
    /\ writes' = IF sheet = Head(mainQueue).sheet
                 THEN [writes EXCEPT ![clientUser] = Append(@, Head(mainQueue).email)]
                 ELSE writes
    /\ Dismiss(Head(mainQueue).sheet)
    /\ UNCHANGED <<cloudVars, currentUser, clientUser, sent, resent, requests, reads,
                   pageVars, singup, bounds, lost, raced>>

\* The document of a new account is written, into the queue of the user
\* Firestore knows.
HandleRegistered ==
    /\ NextBlock("registered")
    /\ Done
    /\ writes' = [writes EXCEPT ![clientUser] = Append(@, Head(mainQueue).email)]
    /\ Dismiss(Head(mainQueue).sheet)
    /\ UNCHANGED <<cloudVars, currentUser, clientUser, sent, resent, requests, reads,
                   pageVars, singup, bounds, lost, raced>>

HandleBlock ==
    HandleFirst \/ HandleNotification \/ HandleDocument \/ HandleSignedIn \/ HandleRegistered

--------------------------------------------------------------------------------
(* Firestore.                                                              *)

Pending(e, queue) == \E i \in DOMAIN queue : queue[i] = e

\* A read finds the document in the backend or among the pending writes of
\* the user Firestore knows; it may fail, and offline it may find nothing.
AnswerDocument(e) ==
    /\ reads[e] > 0
    /\ reads' = [reads EXCEPT ![e] = @ - 1]
    /\ \E exists \in {documents[e] # "none" \/ Pending(e, writes[clientUser]), FALSE} :
        mainQueue' = Append(mainQueue, [do |-> "document", email |-> e, exists |-> exists])
    /\ UNCHANGED <<cloudVars, currentUser, clientUser, writeVars, requests, pageVars,
                   sheetVars, bounds, lost, raced>>

\* setData replaces the document; the role of a new account is not Master.
CommitNext ==
    /\ sent < Len(writes[clientUser])
    /\ documents' = [documents EXCEPT ![writes[clientUser][sent + 1]] = "member"]
    /\ sent' = sent + 1
    /\ UNCHANGED <<accounts, currentUser, clientUser, writes, resent, requests, reads,
                   mainQueue, pageVars, sheetVars, bounds, lost, raced>>

HandleSuccessfulWrite ==
    /\ sent > 0
    /\ writes' = [writes EXCEPT ![clientUser] = Tail(@)]
    /\ sent' = sent - 1
    /\ resent' = resent \ {Head(writes[clientUser])}
    /\ UNCHANGED <<cloudVars, currentUser, clientUser, requests, reads, mainQueue,
                   pageVars, sheetVars, bounds, lost, raced>>

HandleRejectedWrite ==
    /\ Fault
    /\ sent = 0 /\ writes[clientUser] # <<>>
    /\ writes' = [writes EXCEPT ![clientUser] = Tail(@)]
    /\ lost' = lost \cup {Head(writes[clientUser])}
    /\ resent' = resent \ {Head(writes[clientUser])}
    /\ UNCHANGED <<cloudVars, currentUser, clientUser, sent, requests, reads, mainQueue,
                   pageVars, sheetVars, returns, sheets, raced>>

OnWriteStreamClose ==
    /\ Fault
    /\ sent > 0
    /\ SendAgain
    /\ UNCHANGED <<cloudVars, currentUser, clientUser, writes, requests, reads, mainQueue,
                   pageVars, sheetVars, returns, sheets, lost, raced>>

--------------------------------------------------------------------------------
(* The world.                                                              *)

\* The school makes a user a master, outside of this app.
Promote(e) ==
    /\ documents[e] = "member"
    /\ documents' = [documents EXCEPT ![e] = "master"]
    /\ UNCHANGED <<accounts, currentUser, clientUser, writeVars, requests, reads,
                   mainQueue, pageVars, sheetVars, bounds, lost, raced>>

\* Firestore starts with the user Auth has kept.
StartWithUser == clientUser' = currentUser /\ SendAgain

\* The process ends and the app is launched again.  A request on its way may
\* reach the backend all the same: that is ResponseLost before this step.
Kill ==
    /\ Fault
    /\ StartWithUser
    /\ requests' = {}
    /\ reads' = [e \in Email |-> 0]
    /\ mainQueue' = <<>>
    /\ loaded' = FALSE /\ previousUserID' = Unset /\ signup' = TRUE /\ shown' = "storyboard"
    /\ sheet' = 0 /\ alert' = FALSE /\ singup' = TRUE
    /\ lost' = lost \cup {mainQueue[i].email : i \in
                            {j \in DOMAIN mainQueue : mainQueue[j].do = "registered"}}
    /\ raced' = FALSE
    /\ UNCHANGED <<cloudVars, currentUser, writes, returns, sheets>>

Next ==
    \/ ViewDidLoad \/ SignOut \/ PresentSheet
    \/ ToggleSingup \/ Return \/ Alert \/ CloseTop
    \/ HandleBlock
    \/ CreateUser \/ SignIn \/ RequestFails \/ ResponseLost
    \/ (\E e \in Email : AnswerDocument(e) \/ Promote(e))
    \/ CommitNext \/ HandleSuccessfulWrite \/ HandleRejectedWrite \/ OnWriteStreamClose
    \/ Kill

Spec == Init /\ [][Next]_vars

--------------------------------------------------------------------------------
(* Safety.                                                                 *)

\* The document of e is still to be written, or to be written again.
Coming(e) ==
    \/ \E u \in User : Pending(e, writes[u])
    \/ \E i \in DOMAIN mainQueue : mainQueue[i].do = "registered" /\ mainQueue[i].email = e

(***************************************************************************)
(* Nobody has a document who has no account: however often return is       *)
(* pressed, requests fail and users change in between, registration writes *)
(* only for an account it has made.                                        *)
(***************************************************************************)
DocumentNeedsAccount ==
    \A e \in Email : documents[e] # "none" \/ Coming(e) => e \in accounts

(***************************************************************************)
(* An account is without document only while the document is on its way,   *)
(* or because a crash, a lost response or a refusal fell between the two   *)
(* steps of its registration.  Leaving the sheet or signing out does not   *)
(* lose it.                                                                *)
(***************************************************************************)
AccountHasDocument ==
    \A e \in accounts : documents[e] # "none" \/ Coming(e) \/ e \in lost

(***************************************************************************)
(* An account's document is written once: no second registration, sheet or *)
(* user change queues it again when it is off the queue.  A master's       *)
(* document is therefore replaced, and the master demoted, in one case     *)
(* only: the backend had applied the registration's write, the stream      *)
(* broke, the user changed or the process ended before the phone handled   *)
(* the acknowledgement, and the same write is sent once more.  That case   *)
(* does happen, in the code as in the model.                               *)
(***************************************************************************)
PromotionStands ==
    [][\A e \in accounts :
            /\ ~Coming(e) => ~Coming(e)'
            /\ documents[e] = "master" /\ e \notin resent => documents'[e] = "master"]_vars

(***************************************************************************)
(* When nothing is left to be painted the page and its flag agree with     *)
(* Auth, unless the user changed again before the page had caught up with  *)
(* the last change.                                                        *)
(***************************************************************************)
Settled ==
    /\ loaded
    /\ mainQueue = <<>>
    /\ \A e \in Email : reads[e] = 0

PageAgrees ==
    /\ signup <=> currentUser # Nobody
    /\ shown \in IF currentUser = Nobody THEN {"invitation"} ELSE {currentUser, "error"}

PageAgreesUnlessRaced == Settled /\ ~raced => PageAgrees

(***************************************************************************)
(* The comment at ProfileViewController.swift:28: the page puts the        *)
(* account on the screen, or else the offer to register or sign in.  So    *)
(* when nobody is signed in and nothing is left to be painted, the page    *)
(* makes the offer.                                                        *)
(***************************************************************************)
PageOffersSignIn == Settled /\ currentUser = Nobody => shown = "invitation"

--------------------------------------------------------------------------------
(* Liveness.  The main queue runs its blocks and Firestore answers reads.   *)

Fairness ==
    /\ WF_vars(HandleBlock)
    /\ \A e \in Email : WF_vars(AnswerDocument(e))

FairSpec == Spec /\ Fairness

(***************************************************************************)
(* A profile page that has been opened comes to show something: it does    *)
(* not keep the storyboard's texts.                                        *)
(***************************************************************************)
PageIsPainted == loaded ~> (shown # "storyboard" \/ ~loaded)
================================================================================
