-------------------------------- MODULE PostFeed --------------------------------
(***************************************************************************)
(* The news feed of one device (MainViewController): its half-second       *)
(* timer, the array of posts that late answers replace, the table view     *)
(* that was told an earlier number of rows, and the button that only a     *)
(* master may press.                                                       *)
(*                                                                         *)
(* A read of the posts and a read of the user's role are answered          *)
(* independently; answers run on the main queue in the order of their      *)
(* arrival.  Of a board the feed's control needs the number of posts and   *)
(* which board it is: the boards the backend has held are numbered, and a  *)
(* snapshot is the number of one.  Firestore models the client itself.     *)
(***************************************************************************)
EXTENDS Naturals, Sequences, FiniteSets

CONSTANTS
    Post,           \* posts
    User,           \* accounts used on the device
    Nobody,         \* nobody is signed in
    Masters,        \* accounts whose document says Master: true
    Failed,         \* the answer of a read that ended in an error
    MaxEdits,       \* bound: changes of the board by other devices
    MaxVisits,      \* bound: appearances of the feed
    MaxReads        \* bound: reads and answers of posts in flight

ASSUME FeedAssumption ==
    /\ IsFiniteSet(Post)
    /\ Masters \subseteq User
    /\ Nobody \notin User
    /\ Failed \notin Nat
    /\ MaxEdits \in Nat /\ MaxVisits \in Nat /\ MaxReads \in Nat

VARIABLES
    boards,         \* the boards the backend has held, the present one last
    cached,         \* the board the device's cache holds; survives the app
    user,           \* Auth.auth().currentUser
    page,           \* "feed" while the feed is on the screen
    timer,          \* the timer is scheduled
    taskArray,      \* the board the array holds, 0 for the initial empty array
    rows,           \* how many rows the table view believes in
    hidden,         \* tv.isHidden
    master,         \* the flag of the view controller
    masterOf,       \* whose role the flag tells (history)
    raced,          \* the feed appeared with another user's role still to come (history)
    button,         \* newPostButton.isEnabled
    postReads,      \* reads of posts without answer
    roleReads,      \* users whose role has been asked for, without answer
    inbox,          \* answers waiting for the main queue
    alive,          \* the process has not trapped
    visits

remoteVars == <<boards, cached>>
tableVars  == <<taskArray, rows, hidden>>
roleVars   == <<master, masterOf, raced, button>>
vars == <<boards, cached, user, page, timer, taskArray, rows, hidden, master,
          masterOf, raced, button, postReads, roleReads, inbox, alive, visits>>

PostAnswer == [for: {"posts"}, result: Nat \cup {Failed}]
RoleAnswer == [for: {"role"}, of: User, value: BOOLEAN]

TypeOK ==
    /\ boards \in Seq(SUBSET Post)
    /\ cached \in 0..Len(boards)
    /\ user \in User \cup {Nobody}
    /\ page \in {"feed", "away"}
    /\ timer \in BOOLEAN
    /\ taskArray \in 0..Len(boards)
    /\ rows \in Nat
    /\ hidden \in BOOLEAN
    /\ master \in BOOLEAN
    /\ masterOf \in User \cup {Nobody}
    /\ raced \in BOOLEAN
    /\ button \in BOOLEAN
    /\ postReads \in Nat
    /\ roleReads \in Seq(User)
    /\ inbox \in Seq(PostAnswer \cup RoleAnswer)
    /\ alive \in BOOLEAN
    /\ visits \in 0..MaxVisits

\* The number of posts of a board, and of what the array holds now
Count(n) == IF n = 0 THEN 0 ELSE Cardinality(boards[n])

Init ==
    /\ \E b \in SUBSET Post : boards = <<b>>
    /\ cached = 0
    /\ user \in User \cup {Nobody}
    /\ page = "away"
    /\ timer = FALSE
    /\ taskArray = 0
    /\ rows = 0
    /\ hidden = TRUE
    /\ master = FALSE
    /\ masterOf = Nobody
    /\ raced = FALSE
    /\ button = TRUE
    /\ postReads = 0
    /\ roleReads = <<>>
    /\ inbox = <<>>
    /\ alive = TRUE
    /\ visits = 0

--------------------------------------------------------------------------------
(* The view controller.                                                    *)

RolesComing == {roleReads[i] : i \in DOMAIN roleReads}
               \cup {inbox[i].of : i \in {j \in DOMAIN inbox : inbox[j].for = "role"}}

\* mutant: nobody signed in leaves the flag as it is
AppearAsBefore ==
    /\ alive
    /\ page = "away"
    /\ visits < MaxVisits
    /\ visits' = visits + 1
    /\ page' = "feed"
    /\ timer' = TRUE
    /\ roleReads' = IF user # Nobody THEN Append(roleReads, user) ELSE roleReads
    /\ button' = master
    /\ raced' = (RolesComing \ {user} # {})
    /\ UNCHANGED <<remoteVars, user, tableVars, master, masterOf, postReads, inbox, alive>>

\* The flag is read before the answer about the user can have come.
ViewWillAppear ==
    /\ alive
    /\ page = "away"
    /\ visits < MaxVisits
    /\ visits' = visits + 1
    /\ page' = "feed"
    /\ timer' = TRUE
    /\ IF user # Nobody
       THEN /\ roleReads' = Append(roleReads, user)
            /\ UNCHANGED <<master, masterOf>>
       ELSE /\ master' = FALSE
            /\ masterOf' = Nobody
            /\ UNCHANGED roleReads
    /\ button' = master'
    /\ raced' = (RolesComing \ {user} # {})
    /\ UNCHANGED <<remoteVars, user, tableVars, postReads, inbox, alive>>

Cover == page' = "away" /\ timer' = FALSE

\* Another tab or another page covers the feed.
ViewWillDisappear ==
    /\ alive
    /\ page = "feed"
    /\ Cover
    /\ UNCHANGED <<remoteVars, user, tableVars, roleVars,
                   postReads, roleReads, inbox, alive, visits>>

NewPostButton ==
    /\ button
    /\ ViewWillDisappear

PostsWaiting == postReads + Cardinality({i \in DOMAIN inbox : inbox[i].for = "posts"})

\* mutant: the tick leaves the button to viewWillAppear
TickWithoutButton ==
    /\ alive
    /\ timer
    /\ PostsWaiting < MaxReads
    /\ postReads' = postReads + 1
    /\ hidden' = (Count(taskArray) = 0)
    /\ rows' = Count(taskArray)
    /\ UNCHANGED <<remoteVars, user, page, timer, taskArray, master, masterOf,
                   raced, button, roleReads, inbox, alive, visits>>

\* update(), fetchyData() and reloadData() in this order: all three see the
\* array as it was before the answer to this very read.
UpdateTimer ==
    /\ alive
    /\ timer
    /\ PostsWaiting < MaxReads
    /\ postReads' = postReads + 1
    /\ button' = master
    /\ hidden' = (Count(taskArray) = 0)
    /\ rows' = Count(taskArray)
    /\ UNCHANGED <<remoteVars, user, page, timer, taskArray, master, masterOf,
                   raced, roleReads, inbox, alive, visits>>

\* mutant: rows are counted from one
CellPastRow(i) ==
    /\ alive
    /\ page = "feed"
    /\ alive' = (i < Count(taskArray))
    /\ UNCHANGED <<remoteVars, user, page, timer, tableVars, roleVars,
                   postReads, roleReads, inbox, visits>>

\* The table view asks for the cell of a row it believes in.
CellForRow(i) ==
    /\ alive
    /\ page = "feed"
    /\ alive' = (i <= Count(taskArray))
    /\ UNCHANGED <<remoteVars, user, page, timer, tableVars, roleVars,
                   postReads, roleReads, inbox, visits>>

\* A tap on a row opens the page of the post with that index, or traps.
DidSelectRow(i) ==
    /\ alive
    /\ page = "feed"
    /\ IF i <= Count(taskArray)
       THEN Cover /\ UNCHANGED alive
       ELSE alive' = FALSE /\ UNCHANGED <<page, timer>>
    /\ UNCHANGED <<remoteVars, user, tableVars, roleVars,
                   postReads, roleReads, inbox, visits>>

NextAnswer(purpose) == alive /\ inbox # <<>> /\ Head(inbox).for = purpose

\* mutant: the answer is not asked whether it is an error
UpdateUnchecked ==
    /\ NextAnswer("posts")
    /\ inbox' = Tail(inbox)
    /\ taskArray' = Head(inbox).result
    /\ UNCHANGED <<remoteVars, user, page, timer, rows, hidden, roleVars,
                   postReads, roleReads, alive, visits>>

\* The answer to update()
Update ==
    /\ NextAnswer("posts")
    /\ inbox' = Tail(inbox)
    /\ taskArray' = IF Head(inbox).result = Failed THEN taskArray ELSE Head(inbox).result
    /\ UNCHANGED <<remoteVars, user, page, timer, rows, hidden, roleVars,
                   postReads, roleReads, alive, visits>>

\* The answer to the read of viewWillAppear
SetMaster ==
    /\ NextAnswer("role")
    /\ inbox' = Tail(inbox)
    /\ master' = Head(inbox).value
    /\ masterOf' = Head(inbox).of
    /\ UNCHANGED <<remoteVars, user, page, timer, tableVars, raced, button,
                   postReads, roleReads, alive, visits>>

--------------------------------------------------------------------------------
(* The rest of the app and the world.                                      *)

\* The user signs in or out on the profile page.
ChangeUser ==
    /\ alive
    /\ page = "away"
    /\ user' \in (User \cup {Nobody}) \ {user}
    /\ (user = Nobody \/ user' = Nobody)
    /\ UNCHANGED <<remoteVars, page, timer, tableVars, roleVars,
                   postReads, roleReads, inbox, alive, visits>>

\* Another device publishes or deletes a post.
EditBoard ==
    /\ Len(boards) <= MaxEdits
    /\ \E p \in Post, b \in {boards[Len(boards)]} :
          boards' = Append(boards, IF p \in b THEN b \ {p} ELSE b \cup {p})
    /\ UNCHANGED <<cached, user, page, timer, tableVars, roleVars,
                   postReads, roleReads, inbox, alive, visits>>

\* All reads of the posts are answered by one snapshot.
AnswerPosts(result) ==
    /\ postReads > 0
    /\ inbox' = inbox \o [i \in 1..postReads |-> [for |-> "posts", result |-> result]]
    /\ postReads' = 0
    /\ UNCHANGED <<boards, user, page, timer, tableVars, roleVars, roleReads, alive, visits>>

\* mutant: the answer is not kept in the cache
SyncedUncached == AnswerPosts(Len(boards)) /\ UNCHANGED cached

Synced  == AnswerPosts(Len(boards)) /\ cached' = Len(boards)
Offline == AnswerPosts(cached) /\ UNCHANGED cached
Refused == AnswerPosts(Failed) /\ UNCHANGED cached

\* A read of a role is answered; no document, or an error, means no master.
AnswerRole ==
    /\ \E i \in DOMAIN roleReads :
        \E value \in {roleReads[i] \in Masters, FALSE} :
            /\ inbox' = Append(inbox, [for |-> "role", of |-> roleReads[i], value |-> value])
            /\ roleReads' = [j \in 1..(Len(roleReads) - 1) |->
                                roleReads[IF j < i THEN j ELSE j + 1]]
    /\ UNCHANGED <<remoteVars, user, page, timer, tableVars, roleVars,
                   postReads, alive, visits>>

\* After a trap, or at any time: the app is launched again.
Relaunch ==
    /\ page' = "away" /\ timer' = FALSE
    /\ taskArray' = 0 /\ rows' = 0 /\ hidden' = TRUE
    /\ master' = FALSE /\ masterOf' = Nobody /\ raced' = FALSE /\ button' = TRUE
    /\ postReads' = 0 /\ roleReads' = <<>> /\ inbox' = <<>>
    /\ alive' = TRUE
    /\ UNCHANGED <<remoteVars, user, visits>>

TouchRow == \E i \in 1..rows : CellForRow(i) \/ DidSelectRow(i)
HandleAnswer == Update \/ SetMaster

Next ==
    \/ ViewWillAppear \/ ViewWillDisappear \/ NewPostButton
    \/ UpdateTimer \/ TouchRow \/ HandleAnswer
    \/ ChangeUser \/ EditBoard
    \/ Synced \/ Offline \/ Refused \/ AnswerRole
    \/ Relaunch

Spec == Init /\ [][Next]_vars

--------------------------------------------------------------------------------
(* Safety.                                                                 *)

(***************************************************************************)
(* The array is never replaced by an older board than the one it holds,    *)
(* however answers from the backend, from the cache and errors mix.        *)
(***************************************************************************)
FeedNeverGoesBack == [][Relaunch \/ taskArray' >= taskArray]_vars

Shrunk == \E i, j \in DOMAIN boards : i < j /\ Cardinality(boards[i]) > Cardinality(boards[j])

(***************************************************************************)
(* The table view traps on a row the array has lost only when the board    *)
(* itself has lost posts: as long as no snapshot holds fewer posts than an *)
(* older one, no interleaving of ticks, answers, scrolling and taps ends   *)
(* the process.  (The snapshots are the backend's boards.  A master's own  *)
(* pending posts, which a refusal takes away again, are not among them.)   *)
(***************************************************************************)
NoTrapUnlessShrunk == ~alive => Shrunk

(***************************************************************************)
(* Once the roles asked for have been told, the flag of a feed on the      *)
(* screen tells the role of the user signed in, unless the feed appeared   *)
(* while the role of another user was still to come: then the late answer  *)
(* may win.                                                                *)
(***************************************************************************)
RoleIsOfTheUser ==
    page = "feed" /\ alive /\ RolesComing = {} /\ ~raced => masterOf = user

--------------------------------------------------------------------------------
(* Liveness.  The run loop fires the timer and runs the main queue; the    *)
(* device is online again and again.                                       *)

Fairness ==
    /\ WF_vars(UpdateTimer)
    /\ WF_vars(HandleAnswer)
    /\ SF_vars(Synced)
    /\ WF_vars(AnswerRole)

FairSpec == Spec /\ Fairness

(***************************************************************************)
(* A feed that stays on the screen of a live process comes to show as many *)
(* rows as the board has posts, or to hide a table without rows: the tick  *)
(* that follows the answer repaints, whatever was asked, refused or        *)
(* answered from the cache before.  And its button comes to agree with the *)
(* flag, which is set after the button in viewWillAppear.                  *)
(***************************************************************************)
FeedShowsBoard ==
    <>[](page = "feed" /\ alive) =>
        <>[](/\ rows = Cardinality(boards[Len(boards)])
             /\ hidden <=> rows = 0
             /\ button = master)
================================================================================
