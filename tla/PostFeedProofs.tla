---------------------------- MODULE PostFeedProofs -----------------------------
(***************************************************************************)
(* Proofs about PostFeed, for all posts, accounts and bounds: types, the   *)
(* order of answers, traps, and whose role the flag tells.                 *)
(***************************************************************************)
EXTENDS PostFeed, SequenceTheorems, FiniteSetTheorems, TLAPS

--------------------------------------------------------------------------------
(* The inductive invariant.                                                *)

IsBoard(i) == inbox[i].for = "posts" /\ inbox[i].result # Failed

\* The answers waiting are boards in the order of their age, none older than the
\* array and none newer than the cache.
InOrder ==
    /\ taskArray <= cached
    /\ \A i \in DOMAIN inbox : IsBoard(i) =>
          taskArray <= inbox[i].result /\ inbox[i].result <= cached
    /\ \A i, j \in DOMAIN inbox : i < j /\ IsBoard(i) /\ IsBoard(j) =>
          inbox[i].result <= inbox[j].result

\* The table view believes in the rows of a board the array holds or has held.
RowsOfBoard == \E k \in 0..taskArray : rows = Count(k)

\* Without a race only the role of the present user is still to come, or it has.
RoleComes ==
    page = "feed" /\ alive /\ ~raced =>
        RolesComing \subseteq {user} /\ (masterOf = user \/ RolesComing # {})

FeedInvariant ==
    /\ TypeOK /\ boards # <<>>
    /\ InOrder /\ RowsOfBoard /\ NoTrapUnlessShrunk /\ RoleComes

--------------------------------------------------------------------------------
(* The number of posts of a board.                                         *)

LEMMA CountType ==
    ASSUME TypeOK, NEW n \in 0..Len(boards)
    PROVE  Count(n) \in Nat /\ Count(0) = 0
  <1>1. CASE n = 0
    BY <1>1 DEF Count
  <1>2. CASE n # 0
    <2>1. Len(boards) \in Nat /\ boards[n] \subseteq Post
      BY <1>2, LenProperties, ElementOfSeq DEF TypeOK
    <2>2. IsFiniteSet(boards[n])
      BY <2>1, FeedAssumption, FS_Subset
    <2> QED  BY <1>2, <2>2, FS_CardinalityType DEF Count
  <1> QED  BY <1>1, <1>2

\* A board that has fewer posts than an earlier one has lost some.
LEMMA ShrunkBetween ==
    ASSUME TypeOK, NEW n \in 0..Len(boards), NEW k \in 0..n, Count(k) > Count(n)
    PROVE  Shrunk
  <1>1. Len(boards) \in Nat /\ DOMAIN boards = 1..Len(boards)
    BY LenProperties DEF TypeOK
  <1>2. k \in 0..Len(boards) /\ Count(k) \in Nat /\ Count(n) \in Nat /\ Count(0) = 0
    BY <1>1, CountType
  <1>3. k # 0 /\ k # n
    BY <1>2
  <1>4. k \in DOMAIN boards /\ n \in DOMAIN boards /\ k < n /\ n # 0
    BY <1>1, <1>3
  <1> QED  BY <1>3, <1>4 DEF Count, Shrunk

--------------------------------------------------------------------------------
(* What the steps do to the inbox.                                         *)

LEMMA NextAnswerTaken ==
    ASSUME TypeOK, NEW for, NextAnswer(for), inbox' = Tail(inbox)
    PROVE  /\ Head(inbox) = inbox[1] /\ 1 \in DOMAIN inbox
           /\ Head(inbox).for = for
           /\ Head(inbox) \in PostAnswer \cup RoleAnswer
           /\ inbox' \in Seq(PostAnswer \cup RoleAnswer)
           /\ DOMAIN inbox' = 1 .. Len(inbox) - 1 /\ DOMAIN inbox = 1 .. Len(inbox)
           /\ Len(inbox) \in Nat
           /\ \A i \in DOMAIN inbox' : i + 1 \in DOMAIN inbox /\ inbox'[i] = inbox[i + 1]
  <1>1. inbox \in Seq(PostAnswer \cup RoleAnswer) /\ inbox # <<>>
    BY DEF TypeOK, NextAnswer
  <1>2. Len(inbox) \in Nat /\ DOMAIN inbox = 1 .. Len(inbox) /\ Len(inbox) > 0
    BY <1>1, LenProperties, EmptySeq
  <1>3. /\ Tail(inbox) \in Seq(PostAnswer \cup RoleAnswer)
        /\ Len(Tail(inbox)) = Len(inbox) - 1
        /\ \A i \in 1 .. Len(inbox) - 1 : Tail(inbox)[i] = inbox[i + 1]
        /\ Head(inbox) \in PostAnswer \cup RoleAnswer
    BY <1>1, <1>2, HeadTailProperties
  <1>4. DOMAIN Tail(inbox) = 1 .. Len(inbox) - 1
    BY <1>3, LenProperties
  <1>5. Head(inbox) = inbox[1]
    BY <1>1
  <1> QED  BY <1>2, <1>3, <1>4, <1>5 DEF NextAnswer

\* All reads get the same answer.
LEMMA PostsAnswered ==
    ASSUME TypeOK, NEW result \in Nat \cup {Failed}, AnswerPosts(result)
    PROVE  /\ inbox' \in Seq(PostAnswer \cup RoleAnswer)
           /\ DOMAIN inbox \subseteq DOMAIN inbox'
           /\ DOMAIN inbox' \subseteq Nat
           /\ \A i \in DOMAIN inbox : inbox'[i] = inbox[i]
           /\ \A i \in DOMAIN inbox' : i \notin DOMAIN inbox =>
                 /\ inbox'[i] = [for |-> "posts", result |-> result]
                 /\ \A j \in DOMAIN inbox : j < i
  <1> DEFINE a == [for |-> "posts", result |-> result]
             more == [i \in 1..postReads |-> a]
  <1>1. inbox \in Seq(PostAnswer \cup RoleAnswer) /\ postReads \in Nat
    BY DEF TypeOK
  <1>2. a \in PostAnswer \cup RoleAnswer
    BY DEF PostAnswer
  <1>3. more \in [1..postReads -> PostAnswer \cup RoleAnswer]
    BY <1>2
  <1>4. more \in Seq(PostAnswer \cup RoleAnswer) /\ Len(more) = postReads
    BY <1>1, <1>3, SeqDef
  <1>5. inbox' = inbox \o more
    BY DEF AnswerPosts
  <1> HIDE DEF more
  <1>6. /\ inbox' \in Seq(PostAnswer \cup RoleAnswer)
        /\ Len(inbox') = Len(inbox) + postReads
        /\ \A i \in 1 .. Len(inbox) + postReads :
              inbox'[i] = IF i <= Len(inbox) THEN inbox[i] ELSE more[i - Len(inbox)]
    BY <1>1, <1>4, <1>5, ConcatProperties
  <1>7. Len(inbox) \in Nat /\ DOMAIN inbox = 1 .. Len(inbox)
        /\ DOMAIN inbox' = 1 .. Len(inbox) + postReads
    BY <1>1, <1>6, LenProperties
  <1>8. \A i \in 1..postReads : more[i] = a
    BY DEF more
  <1>9. \A i \in DOMAIN inbox' : i \notin DOMAIN inbox =>
            i - Len(inbox) \in 1..postReads /\ i > Len(inbox)
    BY <1>1, <1>7
  <1> QED  BY <1>1, <1>6, <1>7, <1>8, <1>9

\* A role is told: it leaves the reads, and what is to come stays the same or less.
LEMMA RoleAnswered ==
    ASSUME TypeOK, AnswerRole
    PROVE  /\ inbox' \in Seq(PostAnswer \cup RoleAnswer) /\ roleReads' \in Seq(User)
           /\ DOMAIN inbox' = 1 .. Len(inbox) + 1 /\ DOMAIN inbox = 1 .. Len(inbox)
           /\ Len(inbox) \in Nat
           /\ \A i \in DOMAIN inbox : inbox'[i] = inbox[i]
           /\ inbox'[Len(inbox) + 1].for = "role"
           /\ RolesComing' \subseteq RolesComing /\ RolesComing' # {}
  <1>1. /\ inbox \in Seq(PostAnswer \cup RoleAnswer) /\ roleReads \in Seq(User)
        /\ Len(inbox) \in Nat /\ DOMAIN inbox = 1 .. Len(inbox)
        /\ Len(roleReads) \in Nat /\ DOMAIN roleReads = 1 .. Len(roleReads)
        /\ \A j \in 1 .. Len(roleReads) : roleReads[j] \in User
    BY LenProperties, ElementOfSeq DEF TypeOK
  <1>2. PICK i \in DOMAIN roleReads : \E value \in {roleReads[i] \in Masters, FALSE} :
            /\ inbox' = Append(inbox, [for |-> "role", of |-> roleReads[i], value |-> value])
            /\ roleReads' = [j \in 1..(Len(roleReads) - 1) |->
                                roleReads[IF j < i THEN j ELSE j + 1]]
    BY DEF AnswerRole
  <1>2a. PICK value \in {roleReads[i] \in Masters, FALSE} :
            /\ inbox' = Append(inbox, [for |-> "role", of |-> roleReads[i], value |-> value])
            /\ roleReads' = [j \in 1..(Len(roleReads) - 1) |->
                                roleReads[IF j < i THEN j ELSE j + 1]]
    BY <1>2
  <1>3. value \in BOOLEAN
    <2>1. (roleReads[i] \in Masters) \in BOOLEAN
      OBVIOUS
    <2> QED  BY <2>1
  <1> DEFINE a == [for |-> "role", of |-> roleReads[i], value |-> value]
  <1>4. a \in PostAnswer \cup RoleAnswer
    BY <1>1, <1>2, <1>3 DEF RoleAnswer
  <1>5. /\ inbox' \in Seq(PostAnswer \cup RoleAnswer) /\ Len(inbox') = Len(inbox) + 1
        /\ \A j \in 1 .. Len(inbox) : inbox'[j] = inbox[j]
        /\ inbox'[Len(inbox) + 1] = a
    BY <1>1, <1>2a, <1>3, <1>4, AppendProperties
  <1>6. DOMAIN inbox' = 1 .. Len(inbox) + 1
    BY <1>1, <1>5, LenProperties
  <1>7. \A j \in 1..(Len(roleReads) - 1) :
            (IF j < i THEN j ELSE j + 1) \in 1 .. Len(roleReads)
    BY <1>1
  <1>8. roleReads' \in [1..(Len(roleReads) - 1) -> User] /\ Len(roleReads) - 1 \in Nat
    BY <1>1, <1>2a, <1>3, <1>7
  <1>9. roleReads' \in Seq(User)
    BY <1>8, SeqDef
  <1>10. \A j \in DOMAIN roleReads' : \E k \in DOMAIN roleReads : roleReads'[j] = roleReads[k]
    BY <1>1, <1>2a, <1>3, <1>7
  <1>11. RolesComing' \subseteq RolesComing
    <2> SUFFICES ASSUME NEW u \in RolesComing' PROVE u \in RolesComing
      OBVIOUS
    <2>1. CASE \E j \in DOMAIN roleReads' : u = roleReads'[j]
      BY <1>10, <2>1 DEF RolesComing
    <2>2. CASE \E j \in DOMAIN inbox' : inbox'[j].for = "role" /\ u = inbox'[j].of
      <3>1. PICK j \in 1 .. Len(inbox) + 1 : inbox'[j].for = "role" /\ u = inbox'[j].of
        BY <1>6, <2>2
      <3>2. CASE j \in 1 .. Len(inbox)
        BY <1>1, <1>5, <3>1, <3>2 DEF RolesComing
      <3>3. CASE j = Len(inbox) + 1
        BY <1>2, <1>5, <3>1, <3>3 DEF RolesComing
      <3> QED  BY <1>1, <3>2, <3>3
    <2> QED  BY <2>1, <2>2 DEF RolesComing
  <1>12. Len(inbox) + 1 \in DOMAIN inbox' /\ inbox'[Len(inbox) + 1].for = "role"
    BY <1>1, <1>5, <1>6
  <1>13. RolesComing' # {}
    BY <1>12 DEF RolesComing
  <1> QED  BY <1>1, <1>5, <1>6, <1>9, <1>11, <1>12, <1>13

--------------------------------------------------------------------------------
(* Type correctness.                                                       *)

LEMMA FeedTypeInit == Init => TypeOK
  <1> SUFFICES ASSUME Init PROVE TypeOK
    OBVIOUS
  <1>1. boards \in Seq(SUBSET Post) /\ Len(boards) = 1
    BY DEF Init
  <1>2. inbox \in Seq(PostAnswer \cup RoleAnswer) /\ roleReads \in Seq(User)
    BY DEF Init
  <1>3. cached \in 0..Len(boards) /\ taskArray \in 0..Len(boards) /\ visits \in 0..MaxVisits
    BY <1>1, FeedAssumption DEF Init
  <1>4. /\ timer \in BOOLEAN /\ hidden \in BOOLEAN /\ master \in BOOLEAN /\ raced \in BOOLEAN
        /\ button \in BOOLEAN /\ alive \in BOOLEAN
    BY DEF Init
  <1> QED  BY <1>1, <1>2, <1>3, <1>4 DEF Init, TypeOK

LEMMA FeedTypeNext ==
    ASSUME TypeOK, boards # <<>>, InOrder, [Next]_vars
    PROVE  TypeOK' /\ boards' # <<>>
  <1> USE DEF remoteVars, tableVars, roleVars
  <1>a. Len(boards) \in Nat \ {0} /\ boards \in Seq(SUBSET Post) /\ \A n \in 0..Len(boards) : Count(n) \in Nat
    BY CountType, LenProperties, EmptySeq DEF TypeOK
  <1>1. CASE ViewWillAppear
    <2>1. roleReads' \in Seq(User)
      BY <1>1, AppendProperties DEF ViewWillAppear, TypeOK
    <2>2. master' \in BOOLEAN /\ button' = master'
      BY <1>1 DEF ViewWillAppear, TypeOK
    <2>3. raced' \in BOOLEAN
      BY <1>1 DEF ViewWillAppear
    <2>4. button' \in BOOLEAN
      BY <2>2, Zenon
    <2> QED  BY <1>1, <2>1, <2>2, <2>3, <2>4, FeedAssumption DEF ViewWillAppear, TypeOK
  <1>2. CASE ViewWillDisappear
    BY <1>2 DEF ViewWillDisappear, Cover, TypeOK
  <1>3. CASE UpdateTimer
    <2>1. button' \in BOOLEAN
      BY <1>3, Zenon DEF UpdateTimer, TypeOK
    <2>2. rows' \in Nat /\ hidden' \in BOOLEAN
      BY <1>3, <1>a DEF UpdateTimer, TypeOK
    <2>3. postReads' \in Nat
      BY <1>3 DEF UpdateTimer, TypeOK
    <2> QED  BY <1>3, <2>1, <2>2, <2>3 DEF UpdateTimer, TypeOK
  <1>4. CASE TouchRow
    <2>0. PICK i \in 1..rows : CellForRow(i) \/ DidSelectRow(i)
      BY <1>4 DEF TouchRow
    <2>a. alive' \in BOOLEAN
      <3>1. CASE CellForRow(i)
        <4>1. alive' = (i <= Count(taskArray))
          BY <3>1 DEF CellForRow
        <4> QED  BY <4>1
      <3>2. CASE DidSelectRow(i)
        <4>1. alive' = alive \/ alive' = FALSE
          BY <3>2, Zenon DEF DidSelectRow
        <4> QED  BY <4>1, Zenon DEF TypeOK
      <3> QED  BY <2>0, <3>1, <3>2
    <2>1. page' \in {"feed", "away"}
      BY <1>4 DEF TouchRow, CellForRow, DidSelectRow, Cover, TypeOK
    <2>2. timer' \in BOOLEAN
      BY <1>4, Zenon DEF TouchRow, CellForRow, DidSelectRow, Cover, TypeOK
    <2>3. UNCHANGED <<remoteVars, user, tableVars, roleVars, postReads, roleReads, inbox, visits>>
      BY <1>4 DEF TouchRow, CellForRow, DidSelectRow
    <2> QED  BY <2>a, <2>1, <2>2, <2>3 DEF TypeOK
  <1>5. CASE Update
    <2>1. inbox' \in Seq(PostAnswer \cup RoleAnswer) /\ Head(inbox) = inbox[1] /\ 1 \in DOMAIN inbox
          /\ Head(inbox).for = "posts" /\ Head(inbox) \in PostAnswer \cup RoleAnswer
      BY <1>5, NextAnswerTaken DEF Update
    <2>2. Head(inbox).result \in Nat \cup {Failed}
      BY <2>1 DEF PostAnswer, RoleAnswer
    <2>3. taskArray' \in 0..Len(boards)
      <3>1. CASE Head(inbox).result = Failed
        BY <1>5, <3>1 DEF Update, TypeOK
      <3>2. CASE Head(inbox).result # Failed
        BY <1>5, <1>a, <2>1, <2>2, <3>2 DEF Update, TypeOK, InOrder, IsBoard
      <3> QED  BY <3>1, <3>2
    <2> QED  BY <1>5, <2>1, <2>3 DEF Update, TypeOK
  <1>6. CASE SetMaster
    <2>1. inbox' \in Seq(PostAnswer \cup RoleAnswer) /\ Head(inbox).for = "role"
          /\ Head(inbox) \in PostAnswer \cup RoleAnswer
      BY <1>6, NextAnswerTaken DEF SetMaster
    <2>2. Head(inbox).of \in User /\ Head(inbox).value \in BOOLEAN
      BY <2>1 DEF PostAnswer, RoleAnswer
    <2>3. master' \in BOOLEAN
      BY <1>6, <2>2, Zenon DEF SetMaster
    <2> QED  BY <1>6, <2>1, <2>2, <2>3 DEF SetMaster, TypeOK
  <1>7. CASE ChangeUser
    BY <1>7 DEF ChangeUser, TypeOK
  <1>8. CASE EditBoard
    <2>1. boards[Len(boards)] \in SUBSET Post
      BY <1>a, ElementOfSeq
    <2>2. PICK p \in Post : boards' = Append(boards, IF p \in boards[Len(boards)]
                THEN boards[Len(boards)] \ {p} ELSE boards[Len(boards)] \cup {p})
      BY <1>8 DEF EditBoard
    <2>3. boards' \in Seq(SUBSET Post) /\ Len(boards') = Len(boards) + 1
      BY <1>a, <2>1, <2>2, AppendProperties
    <2> QED  BY <1>8, <1>a, <2>3, EmptySeq DEF EditBoard, TypeOK
  <1>9. CASE Synced
    <2>1. inbox' \in Seq(PostAnswer \cup RoleAnswer)
      BY <1>9, <1>a, PostsAnswered DEF Synced
    <2>2. /\ UNCHANGED <<boards, user, page, timer, tableVars, roleVars, roleReads, alive, visits>>
          /\ postReads' \in Nat /\ cached' = Len(boards)
      BY <1>9 DEF Synced, AnswerPosts
    <2>3. cached' \in 0..Len(boards')
      BY <1>a, <2>2
    <2> QED  BY <2>1, <2>2, <2>3, <1>a DEF TypeOK
  <1>10. CASE Offline
    <2>1. inbox' \in Seq(PostAnswer \cup RoleAnswer)
      <3>1. cached \in Nat \cup {Failed} /\ AnswerPosts(cached)
        BY <1>10, <1>a DEF Offline, TypeOK
      <3> QED  BY <3>1, PostsAnswered
    <2>2. /\ UNCHANGED <<remoteVars, user, page, timer, tableVars, roleVars, roleReads, alive, visits>>
          /\ postReads' \in Nat
      BY <1>10 DEF Offline, AnswerPosts
    <2> QED  BY <2>1, <2>2, <1>a DEF TypeOK
  <1>11. CASE Refused
    <2>1. inbox' \in Seq(PostAnswer \cup RoleAnswer)
      BY <1>11, PostsAnswered DEF Refused
    <2>2. /\ UNCHANGED <<remoteVars, user, page, timer, tableVars, roleVars, roleReads, alive, visits>>
          /\ postReads' \in Nat
      BY <1>11 DEF Refused, AnswerPosts
    <2> QED  BY <2>1, <2>2, <1>a DEF TypeOK
  <1>12. CASE AnswerRole
    BY <1>12, RoleAnswered DEF AnswerRole, TypeOK
  <1>13. CASE Relaunch
    <2>1. /\ timer' \in BOOLEAN /\ hidden' \in BOOLEAN /\ master' \in BOOLEAN /\ raced' \in BOOLEAN
          /\ button' \in BOOLEAN /\ alive' \in BOOLEAN
      BY <1>13 DEF Relaunch
    <2>2. inbox' \in Seq(PostAnswer \cup RoleAnswer) /\ roleReads' \in Seq(User)
      BY <1>13 DEF Relaunch
    <2>3. taskArray' \in 0..Len(boards)
      BY <1>13, <1>a DEF Relaunch
    <2> QED  BY <1>13, <2>1, <2>2, <2>3 DEF Relaunch, TypeOK
  <1>14. CASE UNCHANGED vars
    BY <1>14 DEF vars, TypeOK
  <1> QED  BY <1>1, <1>2, <1>3, <1>4, <1>5, <1>6, <1>7, <1>8, <1>9, <1>10, <1>11, <1>12,
              <1>13, <1>14 DEF Next, NewPostButton, HandleAnswer

--------------------------------------------------------------------------------
(* Answers come in the order of the boards they bring.                     *)

LEMMA InOrderNext ==
    ASSUME TypeOK, InOrder, [Next]_vars
    PROVE  InOrder' /\ (Relaunch \/ taskArray' >= taskArray)
  <1> USE DEF remoteVars, tableVars, roleVars
  <1>a. /\ taskArray \in Nat /\ cached \in Nat /\ Len(boards) \in Nat /\ cached <= Len(boards)
        /\ \A i \in DOMAIN inbox : inbox[i] \in PostAnswer \cup RoleAnswer
        /\ DOMAIN inbox \subseteq Nat
    BY LenProperties, ElementOfSeq DEF TypeOK
  <1>b. \A i \in DOMAIN inbox : IsBoard(i) => inbox[i].result \in Nat
    BY <1>a DEF IsBoard, PostAnswer, RoleAnswer
  <1>1. CASE UNCHANGED <<cached, taskArray, inbox>>
    BY <1>1, <1>a DEF InOrder, IsBoard
  <1>2. ASSUME NEW result \in Nat \cup {Failed}, AnswerPosts(result), cached <= cached',
               cached' \in Nat, result # Failed => result = cached'
        PROVE  InOrder' /\ taskArray' >= taskArray
    <2>1. /\ \A i \in DOMAIN inbox : i \in DOMAIN inbox' /\ inbox'[i] = inbox[i]
          /\ DOMAIN inbox' \subseteq Nat
          /\ \A i \in DOMAIN inbox' : i \notin DOMAIN inbox =>
                /\ inbox'[i] = [for |-> "posts", result |-> result]
                /\ \A j \in DOMAIN inbox : j < i
      BY <1>2, PostsAnswered
    <2>2. taskArray' = taskArray
      BY <1>2 DEF AnswerPosts
    <2>3. taskArray' <= cached'
      BY <1>2, <1>a, <2>2 DEF InOrder
    <2>4. ASSUME NEW i \in DOMAIN inbox', IsBoard(i)'
          PROVE  /\ inbox'[i].result \in Nat
                 /\ taskArray' <= inbox'[i].result /\ inbox'[i].result <= cached'
                 /\ i \in DOMAIN inbox => inbox[i].result <= cached /\ IsBoard(i)
                 /\ i \notin DOMAIN inbox => inbox'[i].result = cached'
      <3>1. CASE i \in DOMAIN inbox
        BY <1>2, <1>a, <1>b, <2>1, <2>2, <2>4, <3>1 DEF InOrder, IsBoard
      <3>2. CASE i \notin DOMAIN inbox
        BY <1>2, <2>1, <2>3, <2>4, <3>2, <1>a DEF IsBoard
      <3> QED  BY <3>1, <3>2
    <2>5. ASSUME NEW i \in DOMAIN inbox', NEW j \in DOMAIN inbox', i < j, IsBoard(i)', IsBoard(j)'
          PROVE  inbox'[i].result <= inbox'[j].result
      <3>1. CASE j \notin DOMAIN inbox
        BY <2>4, <2>5, <3>1
      <3>2. CASE j \in DOMAIN inbox /\ i \notin DOMAIN inbox
        BY <2>1, <2>5, <3>2
      <3>3. CASE j \in DOMAIN inbox /\ i \in DOMAIN inbox
        BY <2>1, <2>4, <2>5, <3>3 DEF InOrder
      <3> QED  BY <3>1, <3>2, <3>3
    <2> QED  BY <1>a, <2>2, <2>3, <2>4, <2>5 DEF InOrder
  <1>3. CASE Synced
    BY <1>3, <1>2, <1>a DEF Synced
  <1>4. CASE Offline
    BY <1>4, <1>2, <1>a DEF Offline
  <1>5. CASE Refused
    <2>1. Failed \in Nat \cup {Failed} /\ AnswerPosts(Failed) /\ cached' = cached
          /\ cached <= cached' /\ cached' \in Nat
      BY <1>5, <1>a DEF Refused
    <2>2. Failed # Failed => Failed = cached'
      OBVIOUS
    <2> QED  BY <1>2, <2>1, <2>2
  <1>6. ASSUME NEW for, NextAnswer(for), inbox' = Tail(inbox), UNCHANGED cached,
               taskArray' \in {taskArray, Head(inbox).result},
               taskArray' # taskArray => IsBoard(1)
        PROVE  InOrder' /\ taskArray' >= taskArray
    <2>1. /\ Head(inbox) = inbox[1] /\ 1 \in DOMAIN inbox
          /\ \A i \in DOMAIN inbox' : i + 1 \in DOMAIN inbox /\ inbox'[i] = inbox[i + 1]
          /\ DOMAIN inbox' = 1 .. Len(inbox) - 1 /\ Len(inbox) \in Nat
      BY <1>6, NextAnswerTaken
    <2>2. \A i \in DOMAIN inbox' : IsBoard(i)' => IsBoard(i + 1)
      BY <2>1 DEF IsBoard
    <2>3. taskArray' \in Nat /\ taskArray' >= taskArray /\ taskArray' <= cached
      BY <1>6, <1>a, <1>b, <2>1 DEF InOrder
    <2>4. \A i \in DOMAIN inbox' : IsBoard(i)' =>
              taskArray' <= inbox'[i].result /\ inbox'[i].result <= cached
      <3> SUFFICES ASSUME NEW i \in DOMAIN inbox', IsBoard(i)'
                   PROVE  taskArray' <= inbox'[i].result /\ inbox'[i].result <= cached
        OBVIOUS
      <3>1. i + 1 \in DOMAIN inbox /\ IsBoard(i + 1) /\ inbox'[i] = inbox[i + 1] /\ 1 < i + 1
        BY <2>1, <2>2
      <3>2. CASE taskArray' = taskArray
        BY <3>1, <3>2 DEF InOrder
      <3>3. CASE taskArray' # taskArray
        BY <1>6, <2>1, <3>1, <3>3 DEF InOrder
      <3> QED  BY <3>2, <3>3
    <2>5. \A i, j \in DOMAIN inbox' : i < j /\ IsBoard(i)' /\ IsBoard(j)' =>
              inbox'[i].result <= inbox'[j].result
      <3> SUFFICES ASSUME NEW i \in DOMAIN inbox', NEW j \in DOMAIN inbox', i < j,
                          IsBoard(i)', IsBoard(j)'
                   PROVE  inbox'[i].result <= inbox'[j].result
        OBVIOUS
      <3>1. i + 1 \in DOMAIN inbox /\ j + 1 \in DOMAIN inbox /\ i + 1 < j + 1
            /\ IsBoard(i + 1) /\ IsBoard(j + 1)
        BY <2>1, <2>2
      <3> QED  BY <2>1, <3>1 DEF InOrder
    <2> QED  BY <1>6, <2>3, <2>4, <2>5 DEF InOrder
  <1>7. CASE Update
    <2>1. NextAnswer("posts") /\ inbox' = Tail(inbox) /\ UNCHANGED cached
      BY <1>7 DEF Update
    <2>2. Head(inbox) = inbox[1] /\ Head(inbox).for = "posts"
      BY <2>1, NextAnswerTaken
    <2>3. taskArray' \in {taskArray, Head(inbox).result} /\ (taskArray' # taskArray => IsBoard(1))
      BY <1>7, <2>2 DEF Update, IsBoard
    <2> QED  BY <1>6, <2>1, <2>3
  <1>8. CASE SetMaster
    <2>1. NextAnswer("role") /\ inbox' = Tail(inbox) /\ UNCHANGED <<cached, taskArray>>
      BY <1>8 DEF SetMaster
    <2> QED  BY <1>6, <2>1
  <1>9. CASE AnswerRole
    <2>1. /\ DOMAIN inbox' = 1 .. Len(inbox) + 1 /\ DOMAIN inbox = 1 .. Len(inbox)
          /\ Len(inbox) \in Nat
          /\ \A i \in DOMAIN inbox : inbox'[i] = inbox[i]
          /\ inbox'[Len(inbox) + 1].for = "role"
      BY <1>9, RoleAnswered
    <2>2. \A i \in DOMAIN inbox' : IsBoard(i)' =>
              i \in DOMAIN inbox /\ inbox'[i] = inbox[i] /\ IsBoard(i)
      BY <2>1 DEF IsBoard
    <2>3. UNCHANGED <<cached, taskArray>>
      BY <1>9 DEF AnswerRole
    <2> QED  BY <1>a, <2>2, <2>3 DEF InOrder
  <1>10. CASE Relaunch
    <2>1. taskArray' = 0 /\ cached' = cached /\ inbox' = <<>>
      BY <1>10 DEF Relaunch
    <2> QED  BY <1>10, <1>a, <2>1 DEF InOrder
  <1>11. CASE ViewWillAppear
    BY <1>11, <1>1 DEF ViewWillAppear
  <1>12. CASE ViewWillDisappear \/ NewPostButton
    BY <1>12, <1>1 DEF ViewWillDisappear, NewPostButton
  <1>13. CASE UpdateTimer
    BY <1>13, <1>1 DEF UpdateTimer
  <1>14. CASE TouchRow
    BY <1>14, <1>1 DEF TouchRow, CellForRow, DidSelectRow
  <1>15. CASE ChangeUser \/ EditBoard
    BY <1>15, <1>1 DEF ChangeUser, EditBoard
  <1>16. CASE UNCHANGED vars
    BY <1>16, <1>1 DEF vars
  <1> QED  BY <1>3, <1>4, <1>5, <1>7, <1>8, <1>9, <1>10, <1>11, <1>12, <1>13, <1>14,
              <1>15, <1>16 DEF Next, HandleAnswer


--------------------------------------------------------------------------------
(* Rows and traps.                                                         *)

\* The boards only grow, and what an earlier board held stays.
LEMMA BoardsGrow ==
    ASSUME TypeOK, boards # <<>>, [Next]_vars
    PROVE  /\ Len(boards) \in Nat \ {0} /\ Len(boards') \in Nat /\ Len(boards) <= Len(boards')
           /\ \A n \in 1..Len(boards) : boards'[n] = boards[n]
           /\ \A n \in 0..Len(boards) : Count(n)' = Count(n)
           /\ Shrunk => Shrunk'
  <1> USE DEF remoteVars, tableVars, roleVars
  <1>a. Len(boards) \in Nat \ {0} /\ boards \in Seq(SUBSET Post) /\ DOMAIN boards = 1..Len(boards)
    BY LenProperties, EmptySeq DEF TypeOK
  <1>1. /\ Len(boards') \in Nat /\ Len(boards) <= Len(boards') /\ DOMAIN boards' = 1..Len(boards')
        /\ \A n \in 1..Len(boards) : boards'[n] = boards[n]
    <2>1. CASE boards' = boards
      BY <1>a, <2>1
    <2>2. CASE EditBoard
      <3>1. boards[Len(boards)] \in SUBSET Post
        BY <1>a, ElementOfSeq
      <3>2. PICK p \in Post : boards' = Append(boards, IF p \in boards[Len(boards)]
                THEN boards[Len(boards)] \ {p} ELSE boards[Len(boards)] \cup {p})
        BY <2>2 DEF EditBoard
      <3>3. /\ boards' \in Seq(SUBSET Post) /\ Len(boards') = Len(boards) + 1
            /\ \A n \in 1..Len(boards) : boards'[n] = boards[n]
        BY <1>a, <3>1, <3>2, AppendProperties
      <3> QED  BY <1>a, <3>3, LenProperties
    <2> QED  BY <2>1, <2>2 DEF Next, vars, ViewWillAppear, ViewWillDisappear, NewPostButton,
                UpdateTimer, TouchRow, CellForRow, DidSelectRow, HandleAnswer, Update, SetMaster,
                ChangeUser, Synced, Offline, Refused, AnswerPosts, AnswerRole, Relaunch
  <1>2. \A n \in 0..Len(boards) : Count(n)' = Count(n)
    BY <1>a, <1>1 DEF Count
  <1>3. Shrunk => Shrunk'
    <2> SUFFICES ASSUME NEW i \in DOMAIN boards, NEW j \in DOMAIN boards, i < j,
                        Cardinality(boards[i]) > Cardinality(boards[j])
                 PROVE  Shrunk'
      BY DEF Shrunk
    <2>1. i \in DOMAIN boards' /\ j \in DOMAIN boards' /\ boards'[i] = boards[i] /\ boards'[j] = boards[j]
      BY <1>a, <1>1
    <2> QED  BY <2>1 DEF Shrunk
  <1> QED  BY <1>a, <1>1, <1>2, <1>3

LEMMA RowsNext ==
    ASSUME TypeOK, boards # <<>>, InOrder, RowsOfBoard, [Next]_vars
    PROVE  RowsOfBoard'
  <1> USE DEF remoteVars, tableVars, roleVars
  <1>a. /\ taskArray \in 0..Len(boards) /\ taskArray' \in 0..Len(boards')
        /\ Len(boards) \in Nat /\ Len(boards') \in Nat
        /\ \A n \in 0..Len(boards) : Count(n)' = Count(n)
    BY FeedTypeNext, BoardsGrow DEF TypeOK
  <1>1. CASE Relaunch
    <2>1. rows' = 0 /\ 0 \in 0..taskArray'
      BY <1>1, <1>a DEF Relaunch
    <2>2. Count(0)' = 0
      BY DEF Count
    <2> QED  BY <2>1, <2>2 DEF RowsOfBoard
  <1>2. CASE UpdateTimer
    <2>1. rows' = Count(taskArray) /\ taskArray' = taskArray
      BY <1>2 DEF UpdateTimer
    <2>2. Count(taskArray)' = Count(taskArray) /\ taskArray \in 0..taskArray'
      BY <1>2, <1>a, <2>1 DEF UpdateTimer, Count
    <2> QED  BY <2>1, <2>2 DEF RowsOfBoard, Count
  <1>3. CASE rows' = rows /\ ~Relaunch
    <2>1. PICK k \in 0..taskArray : rows = Count(k)
      BY DEF RowsOfBoard
    <2>2. taskArray' >= taskArray
      BY <1>3, InOrderNext
    <2>3. k \in 0..taskArray' /\ k \in 0..Len(boards)
      BY <1>a, <2>1, <2>2
    <2>4. rows' = Count(k)'
      BY <1>3, <1>a, <2>1, <2>3
    <2> QED  BY <2>3, <2>4 DEF RowsOfBoard
  <1> QED  BY <1>1, <1>2, <1>3 DEF Next, vars, ViewWillAppear, ViewWillDisappear, NewPostButton,
                TouchRow, CellForRow, DidSelectRow, HandleAnswer, Update, SetMaster,
                ChangeUser, EditBoard, Synced, Offline, Refused, AnswerPosts, AnswerRole

LEMMA TrapNext ==
    ASSUME TypeOK, boards # <<>>, RowsOfBoard, NoTrapUnlessShrunk, [Next]_vars
    PROVE  NoTrapUnlessShrunk'
  <1> USE DEF remoteVars, tableVars, roleVars
  <1>a. Shrunk => Shrunk'
    BY BoardsGrow
  <1>1. CASE TouchRow
    <2>1. PICK i \in 1..rows : CellForRow(i) \/ DidSelectRow(i)
      BY <1>1 DEF TouchRow
    <2>2. boards' = boards /\ alive
      BY <2>1 DEF CellForRow, DidSelectRow
    <2>3. ~(i <= Count(taskArray)) => Shrunk
      <3>1. taskArray \in 0..Len(boards) /\ Len(boards) \in Nat /\ rows \in Nat
        BY LenProperties DEF TypeOK
      <3>2. PICK k \in 0..taskArray : rows = Count(k)
        BY DEF RowsOfBoard
      <3>3. k \in 0..Len(boards)
        BY <3>1
      <3>4. Count(taskArray) \in Nat
        BY <3>1, CountType
      <3>5. ~(i <= Count(taskArray)) => Count(k) > Count(taskArray)
        BY <3>1, <3>2, <3>4
      <3> QED  BY <3>1, <3>5, ShrunkBetween
    <2>4. ~alive' => ~(i <= Count(taskArray))
      BY <2>1, <2>2, Zenon DEF CellForRow, DidSelectRow
    <2> QED  BY <1>a, <2>3, <2>4 DEF NoTrapUnlessShrunk
  <1>2. CASE Relaunch
    BY <1>2 DEF Relaunch, NoTrapUnlessShrunk
  <1>3. CASE alive' = alive
    BY <1>a, <1>3 DEF NoTrapUnlessShrunk
  <1> QED  BY <1>1, <1>2, <1>3 DEF Next, vars, ViewWillAppear, ViewWillDisappear, NewPostButton,
                UpdateTimer, HandleAnswer, Update, SetMaster,
                ChangeUser, EditBoard, Synced, Offline, Refused, AnswerPosts, AnswerRole

--------------------------------------------------------------------------------
(* Roles.                                                                  *)

\* Answers about posts bring no role, so nothing comes or goes with them.
LEMMA PostsBringNoRole ==
    ASSUME TypeOK, NEW result \in Nat \cup {Failed}, AnswerPosts(result)
    PROVE  RolesComing' = RolesComing
  <1>1. /\ \A i \in DOMAIN inbox : i \in DOMAIN inbox' /\ inbox'[i] = inbox[i]
        /\ \A i \in DOMAIN inbox' : i \notin DOMAIN inbox => inbox'[i].for = "posts"
        /\ roleReads' = roleReads
    <2>1. /\ DOMAIN inbox \subseteq DOMAIN inbox'
          /\ \A i \in DOMAIN inbox : inbox'[i] = inbox[i]
          /\ \A i \in DOMAIN inbox' : i \notin DOMAIN inbox =>
                inbox'[i] = [for |-> "posts", result |-> result]
      BY PostsAnswered
    <2>2. roleReads' = roleReads
      BY DEF AnswerPosts
    <2>3. \A i \in DOMAIN inbox' : i \notin DOMAIN inbox => inbox'[i].for = "posts"
      BY <2>1
    <2> QED  BY <2>1, <2>2, <2>3
  <1>2. \A i \in DOMAIN inbox' : inbox'[i].for = "role" => i \in DOMAIN inbox
    BY <1>1
  <1>3. {i \in DOMAIN inbox' : inbox'[i].for = "role"} = {i \in DOMAIN inbox : inbox[i].for = "role"}
    BY <1>1, <1>2
  <1>4. {inbox'[i].of : i \in {j \in DOMAIN inbox' : inbox'[j].for = "role"}}
         = {inbox[i].of : i \in {j \in DOMAIN inbox : inbox[j].for = "role"}}
    BY <1>1, <1>3
  <1> QED  BY <1>1, <1>4 DEF RolesComing

\* The main queue takes an answer: only a role that is now told stops coming.
LEMMA TakingRoles ==
    ASSUME TypeOK, NEW for, NextAnswer(for), inbox' = Tail(inbox), roleReads' = roleReads
    PROVE  /\ RolesComing' \subseteq RolesComing
           /\ for = "role" => Head(inbox).of \in RolesComing
           /\ for # "role" => RolesComing \subseteq RolesComing'
  <1>1. /\ Head(inbox) = inbox[1] /\ 1 \in DOMAIN inbox /\ Head(inbox).for = for
        /\ DOMAIN inbox' = 1 .. Len(inbox) - 1 /\ DOMAIN inbox = 1 .. Len(inbox)
        /\ Len(inbox) \in Nat
        /\ \A i \in DOMAIN inbox' : i + 1 \in DOMAIN inbox /\ inbox'[i] = inbox[i + 1]
    BY NextAnswerTaken
  <1>2. for = "role" => Head(inbox).of \in RolesComing
    BY <1>1 DEF RolesComing
  <1>3. ASSUME NEW u \in RolesComing' PROVE u \in RolesComing
    <2>1. CASE u \in {roleReads'[i] : i \in DOMAIN roleReads'}
      BY <2>1 DEF RolesComing
    <2>2. CASE u \in {inbox'[i].of : i \in {j \in DOMAIN inbox' : inbox'[j].for = "role"}}
      <3>1. PICK i \in DOMAIN inbox' : inbox'[i].for = "role" /\ u = inbox'[i].of
        BY <2>2
      <3>2. i + 1 \in DOMAIN inbox /\ inbox[i + 1].for = "role" /\ u = inbox[i + 1].of
        BY <1>1, <3>1
      <3> QED  BY <3>2 DEF RolesComing
    <2> QED  BY <1>3, <2>1, <2>2 DEF RolesComing
  <1>4. ASSUME for # "role", NEW u \in RolesComing PROVE u \in RolesComing'
    <2>1. CASE u \in {roleReads[i] : i \in DOMAIN roleReads}
      BY <2>1 DEF RolesComing
    <2>2. CASE u \in {inbox[i].of : i \in {j \in DOMAIN inbox : inbox[j].for = "role"}}
      <3>1. PICK i \in DOMAIN inbox : inbox[i].for = "role" /\ u = inbox[i].of
        BY <2>2
      <3>2. i # 1
        BY <1>1, <1>4, <3>1
      <3>3. i - 1 \in DOMAIN inbox' /\ (i - 1) + 1 = i
        BY <1>1, <3>1, <3>2
      <3>4. inbox'[i - 1] = inbox[i]
        BY <1>1, <3>3
      <3>5. inbox'[i - 1].for = "role" /\ u = inbox'[i - 1].of
        BY <3>1, <3>4
      <3> QED  BY <3>3, <3>5 DEF RolesComing
    <2> QED  BY <1>4, <2>1, <2>2 DEF RolesComing
  <1> QED  BY <1>2, <1>3, <1>4

\* The feed asks for the role of the user who is signed in.
LEMMA AskingRole ==
    ASSUME TypeOK, NEW u \in User, roleReads' = Append(roleReads, u), inbox' = inbox
    PROVE  RolesComing' = RolesComing \cup {u}
  <1>1. /\ DOMAIN roleReads' = 1 .. Len(roleReads) + 1 /\ DOMAIN roleReads = 1 .. Len(roleReads)
        /\ Len(roleReads) \in Nat
        /\ \A i \in 1 .. Len(roleReads) : roleReads'[i] = roleReads[i]
        /\ roleReads'[Len(roleReads) + 1] = u
    BY AppendProperties, LenProperties DEF TypeOK
  <1>2. {roleReads'[i] : i \in DOMAIN roleReads'} = {roleReads[i] : i \in DOMAIN roleReads} \cup {u}
    <2>1. \A i \in 1 .. Len(roleReads) + 1 : i \in 1 .. Len(roleReads) \/ i = Len(roleReads) + 1
      BY <1>1
    <2>2. Len(roleReads) + 1 \in 1 .. Len(roleReads) + 1
          /\ \A i \in 1 .. Len(roleReads) : i \in 1 .. Len(roleReads) + 1
      BY <1>1
    <2>3. \A i \in DOMAIN roleReads' : roleReads'[i] \in {roleReads[j] : j \in DOMAIN roleReads} \cup {u}
      BY <1>1, <2>1
    <2>4. \A i \in DOMAIN roleReads : i \in DOMAIN roleReads' /\ roleReads[i] = roleReads'[i]
      BY <1>1, <2>2
    <2>5. Len(roleReads) + 1 \in DOMAIN roleReads' /\ u = roleReads'[Len(roleReads) + 1]
      BY <1>1, <2>2
    <2> QED  BY <2>3, <2>4, <2>5
  <1> QED  BY <1>2 DEF RolesComing

LEMMA RoleNext ==
    ASSUME TypeOK, RoleComes, [Next]_vars
    PROVE  RoleComes'
  <1> USE DEF remoteVars, tableVars, roleVars
  <1>a. user \in User \cup {Nobody} /\ cached \in Nat \cup {Failed} /\ Len(boards) \in Nat \cup {Failed}
    BY LenProperties DEF TypeOK
  <1>1. CASE ViewWillAppear
    <2>1. inbox' = inbox /\ user' = user /\ raced' = (RolesComing \ {user} # {})
      BY <1>1 DEF ViewWillAppear
    <2>2. ~raced' => RolesComing \subseteq {user}
      BY <2>1
    <2>3. CASE user # Nobody
      <3>1. roleReads' = Append(roleReads, user)
        BY <1>1, <2>3 DEF ViewWillAppear
      <3>2. RolesComing' = RolesComing \cup {user}
        BY <1>a, <2>1, <2>3, <3>1, AskingRole
      <3> QED  BY <2>1, <2>2, <3>2 DEF RoleComes
    <2>4. CASE user = Nobody
      <3>1. roleReads' = roleReads /\ masterOf' = user'
        BY <1>1, <2>4 DEF ViewWillAppear
      <3>2. RolesComing' = RolesComing
        BY <2>1, <3>1 DEF RolesComing
      <3> QED  BY <2>1, <2>2, <3>1, <3>2 DEF RoleComes
    <2> QED  BY <2>3, <2>4
  <1>2. CASE page' = "away"
    BY <1>2 DEF RoleComes
  <1>3. CASE /\ UNCHANGED <<user, raced, masterOf>> /\ (page' = "feed" => page = "feed")
             /\ (alive' => alive) /\ RolesComing' = RolesComing
    BY <1>3 DEF RoleComes
  <1>4. CASE Update
    <2>1. NextAnswer("posts") /\ inbox' = Tail(inbox) /\ roleReads' = roleReads
      BY <1>4 DEF Update
    <2>2. RolesComing' = RolesComing
      <3>1. /\ RolesComing' \subseteq RolesComing
            /\ "posts" # "role" => RolesComing \subseteq RolesComing'
        BY <2>1, TakingRoles
      <3> QED  BY <3>1
    <2> QED  BY <1>4, <2>2 DEF Update, RoleComes
  <1>5. CASE SetMaster
    <2>1. RolesComing' \subseteq RolesComing /\ Head(inbox).of \in RolesComing
      BY <1>5, TakingRoles DEF SetMaster
    <2>2. masterOf' = Head(inbox).of /\ UNCHANGED <<user, page, alive, raced>>
      BY <1>5 DEF SetMaster
    <2> QED  BY <2>1, <2>2 DEF RoleComes
  <1>6. CASE AnswerRole
    <2>1. RolesComing' \subseteq RolesComing /\ RolesComing' # {}
      BY <1>6, RoleAnswered
    <2>2. UNCHANGED <<user, page, alive, raced>>
      BY <1>6 DEF AnswerRole
    <2> QED  BY <2>1, <2>2 DEF RoleComes
  <1>7. CASE Synced \/ Offline \/ Refused
    <2>1. RolesComing' = RolesComing
      BY <1>7, <1>a, PostsBringNoRole DEF Synced, Offline, Refused
    <2> QED  BY <1>7, <2>1, <1>3 DEF Synced, Offline, Refused, AnswerPosts
  <1>8. CASE UpdateTimer \/ TouchRow \/ EditBoard \/ UNCHANGED vars
    <2>1. UNCHANGED <<roleReads, inbox, user, raced, masterOf>>
      BY <1>8 DEF UpdateTimer, TouchRow, CellForRow, DidSelectRow, EditBoard, vars
    <2>2. (page' = "feed" => page = "feed") /\ (alive' => alive)
      BY <1>8 DEF UpdateTimer, TouchRow, CellForRow, DidSelectRow, Cover, EditBoard, vars
    <2>3. RolesComing' = RolesComing
      BY <2>1 DEF RolesComing
    <2> QED  BY <2>1, <2>2, <2>3, <1>3
  <1>9. CASE ViewWillDisappear \/ NewPostButton \/ ChangeUser \/ Relaunch
    BY <1>9, <1>2 DEF ViewWillDisappear, NewPostButton, Cover, ChangeUser, Relaunch
  <1> QED  BY <1>1, <1>4, <1>5, <1>6, <1>7, <1>8, <1>9 DEF Next, HandleAnswer

--------------------------------------------------------------------------------
(* The theorems.                                                           *)

LEMMA FeedInit == Init => FeedInvariant
  <1> SUFFICES ASSUME Init PROVE FeedInvariant
    OBVIOUS
  <1>1. TypeOK /\ boards # <<>>
    BY FeedTypeInit DEF Init
  <1>2. InOrder
    BY DEF Init, InOrder
  <1>3. RowsOfBoard
    <2>1. rows = 0 /\ 0 \in 0..taskArray /\ Count(0) = 0
      BY DEF Init, Count
    <2> QED  BY <2>1 DEF RowsOfBoard
  <1>4. NoTrapUnlessShrunk /\ RoleComes
    BY DEF Init, NoTrapUnlessShrunk, RoleComes
  <1> QED  BY <1>1, <1>2, <1>3, <1>4 DEF FeedInvariant

LEMMA FeedNext == FeedInvariant /\ [Next]_vars => FeedInvariant'
  <1> SUFFICES ASSUME FeedInvariant, [Next]_vars PROVE FeedInvariant'
    OBVIOUS
  <1>1. TypeOK /\ boards # <<>> /\ InOrder /\ RowsOfBoard /\ NoTrapUnlessShrunk /\ RoleComes
    BY DEF FeedInvariant
  <1> QED  BY <1>1, FeedTypeNext, InOrderNext, RowsNext, TrapNext, RoleNext DEF FeedInvariant

LEMMA FeedInductive == Spec => []FeedInvariant
  BY FeedInit, FeedNext, PTL DEF Spec

\* The feed's variables keep their types: the array and the cache always name a
\* board the backend has held, for any posts, accounts and bounds.
THEOREM FeedTypeCorrect == Spec => []TypeOK
  <1>1. FeedInvariant => TypeOK
    BY DEF FeedInvariant
  <1> QED  BY <1>1, FeedInductive, PTL

\* The feed traps on a row only if the board has lost posts: while posts are only
\* published, no order of ticks, answers, scrolling and taps ends the process.
THEOREM NoTrapCorrect == Spec => []NoTrapUnlessShrunk
  <1>1. FeedInvariant => NoTrapUnlessShrunk
    BY DEF FeedInvariant
  <1> QED  BY <1>1, FeedInductive, PTL

\* When no role is still to come and the feed did not appear in a race, the flag
\* that enables the new post button tells the role of the user signed in.
THEOREM RoleCorrect == Spec => []RoleIsOfTheUser
  <1>1. FeedInvariant => RoleIsOfTheUser
    BY DEF FeedInvariant, RoleComes, RoleIsOfTheUser
  <1> QED  BY <1>1, FeedInductive, PTL

\* No answer to update() replaces the array by an older board than it holds.
THEOREM FeedForwardCorrect == Spec => FeedNeverGoesBack
  <1>1. FeedInvariant /\ [Next]_vars => [Relaunch \/ taskArray' >= taskArray]_vars
    BY InOrderNext DEF FeedInvariant
  <1> QED  BY <1>1, FeedInductive, PTL DEF Spec, FeedNeverGoesBack
================================================================================
