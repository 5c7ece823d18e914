----------------------------- MODULE AccountProofs -----------------------------
(***************************************************************************)
(* Proofs about Account, for every set of addresses and every bound:       *)
(* types, what holds between accounts, documents and writes, and that the  *)
(* profile page follows the user.                                          *)
(***************************************************************************)
EXTENDS Account, SequenceTheorems, TLAPS

--------------------------------------------------------------------------------
(* Type correctness.                                                       *)

\* What a block carries
LEMMA BlockFields ==
    ASSUME NEW b \in Block
    PROVE  /\ b.do = "notify" => b.user \in User
           /\ b.do \in {"registered", "signedIn"} => b.email \in Email /\ b.sheet \in 1..MaxSheets
           /\ b.do = "document" => b.email \in Email
  BY DEF Block

\* Taking the first block of the main queue
LEMMA BlockTaken ==
    ASSUME TypeOK, NEW do, NextBlock(do), Done
    PROVE  /\ Head(mainQueue) \in Block /\ Head(mainQueue).do = do
           /\ mainQueue' \in Seq(Block)
  BY HeadTailProperties DEF TypeOK, NextBlock, Done

LEMMA ChangeUserType ==
    ASSUME TypeOK, NEW u \in User, NEW callbacks \in Seq(Block), ChangeUser(u, callbacks)
    PROVE  currentUser' \in User /\ mainQueue' \in Seq(Block) /\ raced' \in BOOLEAN
  <1>1. Notify(u) \in Block
    BY DEF Notify, Block
  <1>2. mainQueue \o <<Notify(u)>> \in Seq(Block)
    BY <1>1, ConcatProperties DEF TypeOK
  <1>3. mainQueue' \in Seq(Block)
    BY <1>2, ConcatProperties DEF ChangeUser
  <1>4. Painting \in BOOLEAN
    BY DEF Painting
  <1> QED  BY <1>3, <1>4 DEF ChangeUser, TypeOK

LEMMA TellType ==
    ASSUME TypeOK, Tell
    PROVE  /\ previousUserID' \in User \cup {Unset}
           /\ signup' \in BOOLEAN
           /\ shown' \in Email \cup {"storyboard", "invitation", "error"}
           /\ reads' \in [Email -> Nat]
  <1>1. currentUser # Nobody => currentUser \in Email
    BY DEF TypeOK, User
  <1>2. previousUserID' \in User \cup {Unset}
    BY DEF Tell, TypeOK
  <1>3. signup' \in BOOLEAN
    <2>1. signup' = signup \/ signup' = (currentUser # Nobody)
      BY DEF Tell, SetSignup
    <2> QED  BY <2>1, Zenon DEF TypeOK
  <1>4. shown' \in Email \cup {"storyboard", "invitation", "error"}
    BY DEF Tell, SetSignup, TypeOK
  <1>5. reads' \in [Email -> Nat]
    <2>1. CASE UNCHANGED reads
      BY <2>1 DEF TypeOK
    <2>2. CASE currentUser \in Email /\ reads' = [reads EXCEPT ![currentUser] = @ + 1]
      BY <2>2 DEF TypeOK
    <2> QED  BY <1>1, <2>1, <2>2 DEF Tell, SetSignup
  <1> QED  BY <1>2, <1>3, <1>4, <1>5

LEMMA DismissType ==
    ASSUME TypeOK, NEW s, Dismiss(s)
    PROVE  sheet' \in 0..MaxSheets /\ alert' \in BOOLEAN
  BY AccountAssumption DEF Dismiss, TypeOK

\* The queue of Firestore's user gains a write, or loses its oldest.
LEMMA AppendType ==
    ASSUME TypeOK, NEW e \in Email,
           writes' = [writes EXCEPT ![clientUser] = Append(@, e)],
           UNCHANGED <<clientUser, sent>>
    PROVE  /\ writes' \in [User -> Seq(Email)]
           /\ sent' \in 0..Len(writes'[clientUser'])
  <1>1. writes[clientUser] \in Seq(Email) /\ Len(writes[clientUser]) \in Nat
    BY LenProperties DEF TypeOK
  <1>2. Append(writes[clientUser], e) \in Seq(Email)
        /\ Len(Append(writes[clientUser], e)) = Len(writes[clientUser]) + 1
    BY <1>1, AppendProperties
  <1> QED  BY <1>1, <1>2 DEF TypeOK

LEMMA TailType ==
    ASSUME TypeOK, writes[clientUser] # <<>>,
           writes' = [writes EXCEPT ![clientUser] = Tail(@)],
           UNCHANGED clientUser, sent' = IF sent > 0 THEN sent - 1 ELSE sent
    PROVE  /\ writes' \in [User -> Seq(Email)]
           /\ sent' \in 0..Len(writes'[clientUser'])
  <1>1. writes[clientUser] \in Seq(Email) /\ Len(writes[clientUser]) \in Nat
    BY LenProperties DEF TypeOK
  <1>2. Tail(writes[clientUser]) \in Seq(Email)
        /\ Len(Tail(writes[clientUser])) = Len(writes[clientUser]) - 1
        /\ Len(writes[clientUser]) > 0
    BY <1>1, HeadTailProperties, EmptySeq
  <1> QED  BY <1>1, <1>2 DEF TypeOK

LEMMA FaultType ==
    ASSUME TypeOK, Fault
    PROVE  faults' \in 0..MaxFaults
  BY AccountAssumption DEF Fault, TypeOK

LEMMA SendAgainType ==
    ASSUME TypeOK, SendAgain
    PROVE  sent' = 0 /\ resent' \subseteq Email
  <1>1. \A i \in 1..sent : writes[clientUser][i] \in Email
    BY ElementOfSeq, LenProperties DEF TypeOK
  <1> QED  BY <1>1 DEF SendAgain, TypeOK

LEMMA AccountTypeInit == Init => TypeOK
  <1> SUFFICES ASSUME Init PROVE TypeOK
    OBVIOUS
  <1>1. MaxReturns \in Nat /\ MaxSheets \in Nat /\ MaxFaults \in Nat
    BY AccountAssumption
  <1>2. currentUser \in User /\ clientUser \in User
    BY DEF Init, User
  <1>3. writes \in [User -> Seq(Email)] /\ sent \in 0..Len(writes[clientUser])
    BY <1>2 DEF Init
  <1>4. mainQueue \in Seq(Block)
    BY DEF Init
  <1>5. documents \in [Email -> {"none", "member", "master"}] /\ reads \in [Email -> Nat]
    BY DEF Init
  <1>6. /\ accounts \subseteq Email /\ requests \subseteq Request /\ lost \subseteq Email
        /\ resent \subseteq Email /\ sheet \in 0..MaxSheets /\ sheets \in 0..MaxSheets
        /\ returns \in 0..MaxReturns /\ faults \in 0..MaxFaults
    BY <1>1 DEF Init
  <1>7. /\ previousUserID \in User \cup {Unset} /\ loaded \in BOOLEAN /\ signup \in BOOLEAN
        /\ shown \in Email \cup {"storyboard", "invitation", "error"}
        /\ alert \in BOOLEAN /\ singup \in BOOLEAN /\ raced \in BOOLEAN
    BY DEF Init
  <1> QED  BY <1>2, <1>3, <1>4, <1>5, <1>6, <1>7 DEF TypeOK

LEMMA AccountTypeNext == TypeOK /\ [Next]_vars => TypeOK'
  <1> SUFFICES ASSUME TypeOK, [Next]_vars PROVE TypeOK'
    OBVIOUS
  <1> USE DEF cloudVars, writeVars, pageVars, sheetVars, bounds
  <1>1. CASE ViewDidLoad
    <2>1. [do |-> "first"] \in Block
      BY DEF Block
    <2> QED  BY <1>1, <2>1, AppendProperties DEF ViewDidLoad, TypeOK
  <1>2. CASE SignOut
    <2>1. <<>> \in Seq(Block) /\ Nobody \in User
      BY DEF User
    <2>2. currentUser' \in User /\ mainQueue' \in Seq(Block) /\ raced' \in BOOLEAN
      BY <1>2, <2>1, ChangeUserType DEF SignOut, TypeOK
    <2> QED  BY <1>2, <2>2 DEF SignOut, TypeOK
  <1>3. CASE PresentSheet
    BY <1>3, AccountAssumption DEF PresentSheet, TypeOK
  <1>4. CASE ToggleSingup
    BY <1>4 DEF ToggleSingup, TypeOK
  <1>5. CASE Return
    <2>1. returns' \in 0..MaxReturns /\ returns' \in 1..MaxReturns /\ sheet \in 1..MaxSheets
      BY <1>5, AccountAssumption DEF Return, TypeOK
    <2>2. requests' \subseteq Request
      BY <1>5, <2>1 DEF Return, TypeOK, Request
    <2> QED  BY <1>5, <2>1, <2>2 DEF Return, TypeOK
  <1>6. CASE Alert
    BY <1>6 DEF Alert, TypeOK
  <1>7. CASE CloseTop
    BY <1>7, DismissType DEF CloseTop, TypeOK
  <1>8. CASE HandleFirst
    BY <1>8, BlockTaken, TellType DEF HandleFirst, TypeOK
  <1>9. CASE HandleNotification
    <2>1. clientUser' \in User /\ mainQueue' \in Seq(Block)
      BY <1>9, BlockTaken, BlockFields DEF HandleNotification
    <2>2. /\ previousUserID' \in User \cup {Unset}
          /\ signup' \in BOOLEAN
          /\ shown' \in Email \cup {"storyboard", "invitation", "error"}
          /\ reads' \in [Email -> Nat]
      BY <1>9, TellType DEF HandleNotification, TypeOK
    <2>3. sent' \in 0..Len(writes'[clientUser']) /\ resent' \subseteq Email
      BY <1>9, <2>1, SendAgainType, LenProperties DEF HandleNotification, TypeOK
    <2> QED  BY <1>9, <2>1, <2>2, <2>3 DEF HandleNotification, TypeOK
  <1>10. CASE HandleDocument
    <2>1. mainQueue' \in Seq(Block) /\ Head(mainQueue).email \in Email
      BY <1>10, BlockTaken, BlockFields DEF HandleDocument
    <2>2. shown' \in Email \cup {"storyboard", "invitation", "error"}
      BY <1>10, <2>1 DEF HandleDocument
    <2> QED  BY <1>10, <2>1, <2>2 DEF HandleDocument, TypeOK
  <1>11. CASE HandleSignedIn
    BY <1>11, BlockTaken, DismissType DEF HandleSignedIn, TypeOK
  <1>12. CASE HandleRegistered
    <2>1. mainQueue' \in Seq(Block) /\ Head(mainQueue).email \in Email
      BY <1>12, BlockTaken, BlockFields DEF HandleRegistered
    <2>2. writes' \in [User -> Seq(Email)] /\ sent' \in 0..Len(writes'[clientUser'])
      BY <1>12, <2>1, AppendType DEF HandleRegistered
    <2>3. sheet' \in 0..MaxSheets /\ alert' \in BOOLEAN
      BY <1>12, DismissType DEF HandleRegistered
    <2> QED  BY <1>12, <2>1, <2>2, <2>3 DEF HandleRegistered, TypeOK
  <1>13. CASE CreateUser
    <2>1. PICK r \in requests :
            /\ accounts' = accounts \cup {r.email}
            /\ requests' = requests \ {r}
            /\ ChangeUser(r.email,
                   <<[do |-> "registered", email |-> r.email, sheet |-> r.sheet]>>)
      BY <1>13 DEF CreateUser
    <2>2. r.email \in Email /\ r.sheet \in 1..MaxSheets /\ r.email \in User
      BY DEF TypeOK, Request, User
    <2>3. <<[do |-> "registered", email |-> r.email, sheet |-> r.sheet]>> \in Seq(Block)
      BY <2>2 DEF Block
    <2>4. currentUser' \in User /\ mainQueue' \in Seq(Block) /\ raced' \in BOOLEAN
      BY <2>1, <2>2, <2>3, ChangeUserType
    <2> QED  BY <1>13, <2>1, <2>2, <2>4 DEF CreateUser, TypeOK
  <1>14. CASE SignIn
    <2>1. PICK r \in requests :
            /\ requests' = requests \ {r}
            /\ ChangeUser(r.email,
                   <<[do |-> "signedIn", email |-> r.email, sheet |-> r.sheet]>>)
      BY <1>14 DEF SignIn
    <2>2. r.email \in Email /\ r.sheet \in 1..MaxSheets /\ r.email \in User
      BY DEF TypeOK, Request, User
    <2>3. <<[do |-> "signedIn", email |-> r.email, sheet |-> r.sheet]>> \in Seq(Block)
      BY <2>2 DEF Block
    <2>4. currentUser' \in User /\ mainQueue' \in Seq(Block) /\ raced' \in BOOLEAN
      BY <2>1, <2>2, <2>3, ChangeUserType
    <2> QED  BY <1>14, <2>1, <2>4 DEF SignIn, TypeOK
  <1>15. CASE RequestFails
    BY <1>15 DEF RequestFails, TypeOK
  <1>16. CASE ResponseLost
    BY <1>16, FaultType DEF ResponseLost, TypeOK, Request
  <1>17. ASSUME NEW e \in Email, AnswerDocument(e) PROVE TypeOK'
    <2>1. PICK exists \in BOOLEAN :
            mainQueue' = Append(mainQueue, [do |-> "document", email |-> e, exists |-> exists])
      BY <1>17 DEF AnswerDocument
    <2>2. [do |-> "document", email |-> e, exists |-> exists] \in Block
      BY DEF Block
    <2>3. mainQueue' \in Seq(Block)
      BY <2>1, <2>2, AppendProperties DEF TypeOK
    <2> QED  BY <1>17, <2>3 DEF AnswerDocument, TypeOK
  <1>18. ASSUME NEW e \in Email, Promote(e) PROVE TypeOK'
    BY <1>18 DEF Promote, TypeOK
  <1>19. CASE CommitNext
    BY <1>19, LenProperties DEF CommitNext, TypeOK
  <1>20. CASE HandleSuccessfulWrite
    <2>1. writes[clientUser] # <<>>
      BY <1>20, EmptySeq DEF HandleSuccessfulWrite, TypeOK
    <2>2. writes' \in [User -> Seq(Email)] /\ sent' \in 0..Len(writes'[clientUser'])
      BY <1>20, <2>1, TailType DEF HandleSuccessfulWrite, TypeOK
    <2> QED  BY <1>20, <2>2 DEF HandleSuccessfulWrite, TypeOK
  <1>21. CASE HandleRejectedWrite
    <2>1. writes' \in [User -> Seq(Email)] /\ sent' \in 0..Len(writes'[clientUser'])
      BY <1>21, TailType DEF HandleRejectedWrite, TypeOK
    <2>2. Head(writes[clientUser]) \in Email
      BY <1>21, HeadTailProperties DEF HandleRejectedWrite, TypeOK
    <2> QED  BY <1>21, <2>1, <2>2, FaultType DEF HandleRejectedWrite, TypeOK
  <1>22. CASE OnWriteStreamClose
    BY <1>22, FaultType, SendAgainType, LenProperties DEF OnWriteStreamClose, TypeOK
  <1>23. CASE Kill
    <2>1. /\ clientUser' \in User /\ sent' \in 0..Len(writes'[clientUser'])
          /\ resent' \subseteq Email
      BY <1>23, SendAgainType, LenProperties DEF Kill, StartWithUser, TypeOK
    <2>2. lost' \subseteq Email
      <3>1. \A i \in DOMAIN mainQueue : mainQueue[i] \in Block
        BY ElementOfSeq DEF TypeOK
      <3> QED  BY <1>23, <3>1, BlockFields DEF Kill, TypeOK
    <2>3. faults' \in 0..MaxFaults
      BY <1>23, FaultType DEF Kill
    <2>4. mainQueue' \in Seq(Block) /\ reads' \in [Email -> Nat] /\ sheet' \in 0..MaxSheets
      BY <1>23, AccountAssumption DEF Kill
    <2> QED  BY <1>23, <2>1, <2>2, <2>3, <2>4 DEF Kill, TypeOK
  <1>24. CASE UNCHANGED vars
    BY <1>24 DEF vars, TypeOK
  <1> QED  BY <1>1, <1>2, <1>3, <1>4, <1>5, <1>6, <1>7, <1>8, <1>9, <1>10, <1>11, <1>12,
              <1>13, <1>14, <1>15, <1>16, <1>17, <1>18, <1>19, <1>20, <1>21, <1>22, <1>23,
              <1>24
           DEF Next, HandleBlock

(***************************************************************************)
(* The variables of Account keep their types: in particular the writes     *)
(* counted as sent are never more than Firestore's user has pending, while *)
(* users come and go (LocalStore::HandleUserChange).                       *)
(***************************************************************************)
THEOREM AccountTypeCorrect == Spec => []TypeOK
  BY AccountTypeInit, AccountTypeNext, PTL DEF Spec

--------------------------------------------------------------------------------
(* Documents on their way: in a queue of writes, or in a block.            *)

Registering(e, blocks) ==
    \E i \in DOMAIN blocks : blocks[i].do = "registered" /\ blocks[i].email = e

\* The documents of the writes counted as sent are in the backend.
SentStored == \A i \in 1..sent : documents[writes[clientUser][i]] # "none"

LEMMA PendingAppend ==
    ASSUME NEW S, NEW q \in Seq(S), NEW new \in S, NEW e
    PROVE  Pending(e, Append(q, new)) <=> Pending(e, q) \/ e = new
  <1>1. /\ Len(Append(q, new)) = Len(q) + 1 /\ Len(q) \in Nat
        /\ DOMAIN q = 1..Len(q) /\ DOMAIN Append(q, new) = 1..(Len(q) + 1)
        /\ \A i \in 1..Len(q) : Append(q, new)[i] = q[i]
        /\ Append(q, new)[Len(q) + 1] = new
    BY AppendProperties, LenProperties
  <1> QED  BY <1>1 DEF Pending

LEMMA PendingTail ==
    ASSUME NEW S, NEW q \in Seq(S), q # <<>>, NEW e
    PROVE  Pending(e, q) <=> e = Head(q) \/ Pending(e, Tail(q))
  <1>1. /\ Len(q) \in Nat /\ Len(q) > 0 /\ DOMAIN q = 1..Len(q)
        /\ Tail(q) \in Seq(S) /\ Len(Tail(q)) = Len(q) - 1
        /\ DOMAIN Tail(q) = 1..(Len(q) - 1)
        /\ \A i \in 1..(Len(q) - 1) : Tail(q)[i] = q[i + 1]
        /\ Head(q) = q[1]
    BY HeadTailProperties, LenProperties, EmptySeq
  <1>2. ASSUME NEW i \in 1..Len(q), q[i] = e, i # 1 PROVE Pending(e, Tail(q))
    <2>1. i - 1 \in 1..(Len(q) - 1) /\ Tail(q)[i - 1] = e
      BY <1>1, <1>2
    <2> QED  BY <1>1, <2>1 DEF Pending
  <1>3. Pending(e, q) => e = Head(q) \/ Pending(e, Tail(q))
    BY <1>1, <1>2 DEF Pending
  <1>4. e = Head(q) => Pending(e, q)
    BY <1>1 DEF Pending
  <1>5. ASSUME NEW i \in 1..(Len(q) - 1), Tail(q)[i] = e PROVE Pending(e, q)
    <2>1. i + 1 \in 1..Len(q) /\ q[i + 1] = e
      BY <1>1, <1>5
    <2> QED  BY <1>1, <2>1 DEF Pending
  <1>6. Pending(e, Tail(q)) => Pending(e, q)
    BY <1>1, <1>5 DEF Pending
  <1> QED  BY <1>3, <1>4, <1>6

LEMMA RegisteringTail ==
    ASSUME NEW q \in Seq(Block), q # <<>>, NEW e
    PROVE  Registering(e, q) <=> \/ Head(q).do = "registered" /\ Head(q).email = e
                                 \/ Registering(e, Tail(q))
  <1>1. /\ Len(q) \in Nat /\ Len(q) > 0 /\ DOMAIN q = 1..Len(q)
        /\ Tail(q) \in Seq(Block) /\ Len(Tail(q)) = Len(q) - 1
        /\ DOMAIN Tail(q) = 1..(Len(q) - 1)
        /\ \A i \in 1..(Len(q) - 1) : Tail(q)[i] = q[i + 1]
        /\ Head(q) = q[1]
    BY HeadTailProperties, LenProperties, EmptySeq
  <1>2. ASSUME NEW i \in 1..Len(q), q[i].do = "registered", q[i].email = e, i # 1
        PROVE  Registering(e, Tail(q))
    <2>1. i - 1 \in 1..(Len(q) - 1) /\ Tail(q)[i - 1] = q[i]
      BY <1>1, <1>2
    <2> QED  BY <1>1, <1>2, <2>1 DEF Registering
  <1>3. Registering(e, q) => \/ Head(q).do = "registered" /\ Head(q).email = e
                             \/ Registering(e, Tail(q))
    BY <1>1, <1>2 DEF Registering
  <1>4. Head(q).do = "registered" /\ Head(q).email = e => Registering(e, q)
    BY <1>1 DEF Registering
  <1>5. ASSUME NEW i \in 1..(Len(q) - 1), Tail(q)[i].do = "registered", Tail(q)[i].email = e
        PROVE  Registering(e, q)
    <2>1. i + 1 \in 1..Len(q) /\ q[i + 1] = Tail(q)[i]
      BY <1>1
    <2> QED  BY <1>1, <1>5, <2>1 DEF Registering
  <1>6. Registering(e, Tail(q)) => Registering(e, q)
    BY <1>1, <1>5 DEF Registering
  <1> QED  BY <1>3, <1>4, <1>6

LEMMA RegisteringAppend ==
    ASSUME NEW q \in Seq(Block), NEW b \in Block, NEW e
    PROVE  Registering(e, Append(q, b)) <=>
              Registering(e, q) \/ (b.do = "registered" /\ b.email = e)
  <1>1. /\ Len(Append(q, b)) = Len(q) + 1 /\ Len(q) \in Nat
        /\ DOMAIN q = 1..Len(q) /\ DOMAIN Append(q, b) = 1..(Len(q) + 1)
        /\ \A i \in 1..Len(q) : Append(q, b)[i] = q[i]
        /\ Append(q, b)[Len(q) + 1] = b
    BY AppendProperties, LenProperties
  <1>2. Registering(e, Append(q, b)) => Registering(e, q) \/ (b.do = "registered" /\ b.email = e)
    <2>1. SUFFICES ASSUME NEW i \in 1..(Len(q) + 1), Append(q, b)[i].do = "registered",
                          Append(q, b)[i].email = e, i # Len(q) + 1
                   PROVE  Registering(e, q)
      BY <1>1 DEF Registering
    <2>2. i \in 1..Len(q) /\ q[i] = Append(q, b)[i]
      BY <1>1, <2>1
    <2> QED  BY <1>1, <2>1, <2>2 DEF Registering
  <1>3. Registering(e, q) => Registering(e, Append(q, b))
    <2>1. SUFFICES ASSUME NEW i \in 1..Len(q), q[i].do = "registered", q[i].email = e
                   PROVE  Registering(e, Append(q, b))
      BY <1>1 DEF Registering
    <2>2. i \in 1..(Len(q) + 1) /\ Append(q, b)[i] = q[i]
      BY <1>1
    <2> QED  BY <1>1, <2>1, <2>2 DEF Registering
  <1>4. Len(q) + 1 \in DOMAIN Append(q, b)
    BY <1>1
  <1>5. b.do = "registered" /\ b.email = e => Registering(e, Append(q, b))
    BY <1>1, <1>4 DEF Registering
  <1> QED  BY <1>2, <1>3, <1>5

\* No address waits twice for its document to be written.
Single(blocks) ==
    \A i, j \in DOMAIN blocks :
        /\ blocks[i].do = "registered" /\ blocks[j].do = "registered"
        /\ blocks[i].email = blocks[j].email
        => i = j

LEMMA SingleAppend ==
    ASSUME NEW q \in Seq(Block), NEW b \in Block, Single(q),
           b.do = "registered" => ~Registering(b.email, q)
    PROVE  Single(Append(q, b))
  <1>1. /\ Len(q) \in Nat
        /\ DOMAIN q = 1..Len(q) /\ DOMAIN Append(q, b) = 1..(Len(q) + 1)
        /\ \A i \in 1..Len(q) : Append(q, b)[i] = q[i]
        /\ Append(q, b)[Len(q) + 1] = b
    BY AppendProperties, LenProperties
  <1>2. SUFFICES ASSUME NEW i \in 1..(Len(q) + 1), NEW j \in 1..(Len(q) + 1),
                        Append(q, b)[i].do = "registered", Append(q, b)[j].do = "registered",
                        Append(q, b)[i].email = Append(q, b)[j].email
                 PROVE  i = j
    BY <1>1 DEF Single
  <1>3. CASE i \in 1..Len(q) /\ j \in 1..Len(q)
    BY <1>1, <1>2, <1>3 DEF Single
  <1>4. CASE i \in 1..Len(q) /\ j = Len(q) + 1
    BY <1>1, <1>2, <1>4 DEF Registering
  <1>5. CASE i = Len(q) + 1 /\ j \in 1..Len(q)
    BY <1>1, <1>2, <1>5 DEF Registering
  <1>6. CASE i = Len(q) + 1 /\ j = Len(q) + 1
    BY <1>6
  <1> QED  BY <1>1, <1>3, <1>4, <1>5, <1>6

LEMMA SingleTail ==
    ASSUME NEW q \in Seq(Block), q # <<>>, Single(q)
    PROVE  /\ Single(Tail(q))
           /\ Head(q).do = "registered" => ~Registering(Head(q).email, Tail(q))
  <1>1. /\ Len(q) \in Nat /\ Len(q) > 0 /\ DOMAIN q = 1..Len(q)
        /\ DOMAIN Tail(q) = 1..(Len(q) - 1)
        /\ \A i \in 1..(Len(q) - 1) : Tail(q)[i] = q[i + 1] /\ i + 1 \in 1..Len(q)
        /\ Head(q) = q[1] /\ 1 \in 1..Len(q)
    BY HeadTailProperties, LenProperties, EmptySeq
  <1>2. ASSUME NEW i \in 1..(Len(q) - 1), NEW j \in 1..(Len(q) - 1),
               Tail(q)[i].do = "registered", Tail(q)[j].do = "registered",
               Tail(q)[i].email = Tail(q)[j].email
        PROVE  i = j
    <2>1. i + 1 = j + 1
      BY <1>1, <1>2 DEF Single
    <2> QED  BY <2>1
  <1>3. Single(Tail(q))
    BY <1>1, <1>2 DEF Single
  <1>4. ASSUME NEW i \in 1..(Len(q) - 1), Head(q).do = "registered",
               Tail(q)[i].do = "registered", Tail(q)[i].email = Head(q).email
        PROVE  FALSE
    <2>1. i + 1 = 1
      BY <1>1, <1>4 DEF Single
    <2> QED  BY <2>1
  <1>5. Head(q).do = "registered" => ~Registering(Head(q).email, Tail(q))
    BY <1>1, <1>4 DEF Registering
  <1> QED  BY <1>3, <1>5

\* The registrations waiting in q and in r are the same.
Keeps(q, r) ==
    /\ \A e \in Email : Registering(e, r) <=> Registering(e, q)
    /\ Single(q) => Single(r)

LEMMA KeepsAppend ==
    ASSUME NEW q \in Seq(Block), NEW b \in Block, b.do # "registered"
    PROVE  Keeps(q, Append(q, b))
  BY RegisteringAppend, SingleAppend DEF Keeps

LEMMA KeepsDone ==
    ASSUME TypeOK, NEW do, NextBlock(do), Done, do # "registered"
    PROVE  Keeps(mainQueue, mainQueue')
  BY RegisteringTail, SingleTail DEF TypeOK, NextBlock, Done, Keeps

\* A step that moves a document along its way, or does not touch it
Quiet ==
    /\ UNCHANGED <<accounts, documents, lost>>
    /\ \A e \in Email : Coming(e)' <=> Coming(e)
    /\ SentStored => SentStored'

\* Steps that leave the writes alone and handle or post no registration
LEMMA QuietQueue ==
    ASSUME TypeOK, UNCHANGED <<accounts, documents, lost, writes>>,
           sent' = 0 \/ UNCHANGED <<sent, clientUser>>,
           \A e \in Email : Registering(e, mainQueue') <=> Registering(e, mainQueue)
    PROVE  Quiet
  <1>1. \A e \in Email : Coming(e)' <=> Coming(e)
    BY DEF Coming, Registering
  <1>2. SentStored => SentStored'
    BY DEF SentStored
  <1> QED  BY <1>1, <1>2 DEF Quiet

\* A change of the user posts its notification before the callback.
LEMMA ChangeUserBlocks ==
    ASSUME TypeOK, NEW u \in User, NEW b \in Block, ChangeUser(u, <<b>>)
    PROVE  \E q \in Seq(Block) : mainQueue' = Append(q, b) /\ Keeps(mainQueue, q)
  <1>1. Notify(u) \in Block /\ Notify(u).do # "registered"
    BY DEF Notify, Block
  <1> DEFINE q == Append(mainQueue, Notify(u))
  <1>2. q \in Seq(Block) /\ Keeps(mainQueue, q)
    BY <1>1, AppendProperties, KeepsAppend DEF TypeOK
  <1>3. mainQueue \o <<Notify(u)>> = q
    BY <1>1, AppendIsConcat DEF TypeOK
  <1>4. q \o <<b>> = Append(q, b)
    BY <1>2, AppendIsConcat
  <1> QED  BY <1>2, <1>3, <1>4 DEF ChangeUser

\* Only a registration posts a block for a document to be written.
LEMMA RegistrationsKept ==
    ASSUME TypeOK, [Next]_vars, ~(CreateUser \/ HandleRegistered \/ Kill)
    PROVE  Keeps(mainQueue, mainQueue')
  <1> USE DEF cloudVars, writeVars, pageVars, sheetVars, bounds
  <1>0. mainQueue \in Seq(Block)
    BY DEF TypeOK
  <1>1. CASE UNCHANGED mainQueue
    BY <1>1 DEF Keeps
  <1>2. CASE ViewDidLoad
    <2>1. [do |-> "first"] \in Block /\ [do |-> "first"].do # "registered"
      BY DEF Block
    <2> QED  BY <1>0, <1>2, <2>1, KeepsAppend DEF ViewDidLoad
  <1>3. CASE SignOut /\ ~UNCHANGED mainQueue
    <2>1. Notify(Nobody) \in Block /\ Notify(Nobody).do # "registered"
      BY DEF Notify, Block, User
    <2>2. mainQueue' = (mainQueue \o <<Notify(Nobody)>>) \o <<>>
      BY <1>3 DEF SignOut, ChangeUser
    <2>3. mainQueue \o <<Notify(Nobody)>> \in Seq(Block)
      BY <1>0, <2>1, ConcatProperties
    <2>4. mainQueue' = Append(mainQueue, Notify(Nobody))
      BY <1>0, <2>1, <2>2, <2>3, ConcatEmptySeq, AppendIsConcat
    <2> QED  BY <1>0, <2>1, <2>4, KeepsAppend
  <1>4. CASE HandleFirst
    BY <1>4, KeepsDone DEF HandleFirst
  <1>5. CASE HandleNotification
    BY <1>5, KeepsDone DEF HandleNotification
  <1>6. CASE HandleDocument
    BY <1>6, KeepsDone DEF HandleDocument
  <1>7. CASE HandleSignedIn
    BY <1>7, KeepsDone DEF HandleSignedIn
  <1>8. CASE SignIn
    <2>1. PICK r \in requests :
            ChangeUser(r.email, <<[do |-> "signedIn", email |-> r.email, sheet |-> r.sheet]>>)
      BY <1>8 DEF SignIn
    <2> DEFINE b == [do |-> "signedIn", email |-> r.email, sheet |-> r.sheet]
    <2>2. r.email \in User /\ b \in Block /\ b.do # "registered"
      BY DEF TypeOK, Request, User, Block
    <2>3. PICK q \in Seq(Block) : mainQueue' = Append(q, b) /\ Keeps(mainQueue, q)
      BY <2>1, <2>2, ChangeUserBlocks
    <2>4. Keeps(q, Append(q, b))
      BY <2>2, KeepsAppend
    <2> QED  BY <2>3, <2>4 DEF Keeps
  <1>9. ASSUME NEW e \in Email, AnswerDocument(e) PROVE Keeps(mainQueue, mainQueue')
    <2>1. PICK exists \in BOOLEAN :
            mainQueue' = Append(mainQueue, [do |-> "document", email |-> e, exists |-> exists])
      BY <1>9 DEF AnswerDocument
    <2> DEFINE b == [do |-> "document", email |-> e, exists |-> exists]
    <2>2. b \in Block /\ b.do # "registered"
      BY DEF Block
    <2> QED  BY <1>0, <2>1, <2>2, KeepsAppend
  <1>10. \/ PresentSheet \/ ToggleSingup \/ Return \/ Alert \/ CloseTop
         \/ RequestFails \/ ResponseLost \/ (\E e \in Email : Promote(e))
         \/ CommitNext \/ HandleSuccessfulWrite \/ HandleRejectedWrite
         \/ OnWriteStreamClose \/ UNCHANGED vars
         => UNCHANGED mainQueue
    BY DEF PresentSheet, ToggleSingup, Return, Alert, CloseTop, RequestFails, ResponseLost,
           Promote, CommitNext, HandleSuccessfulWrite, HandleRejectedWrite,
           OnWriteStreamClose, vars
  <1> QED  BY <1>1, <1>2, <1>3, <1>4, <1>5, <1>6, <1>7, <1>8, <1>9, <1>10
           DEF Next, HandleBlock

\* The document of a new account is put into the queue of Firestore's user.
LEMMA RegisteredWrite ==
    ASSUME TypeOK, HandleRegistered
    PROVE  \E new \in Email :
              /\ writes' = [writes EXCEPT ![clientUser] = Append(@, new)]
              /\ Head(mainQueue).do = "registered" /\ Head(mainQueue).email = new
              /\ \A e \in Email : Registering(e, mainQueue) <=>
                                     e = new \/ Registering(e, mainQueue')
              /\ \A e \in Email, u \in User : Pending(e, writes'[u]) <=>
                     Pending(e, writes[u]) \/ (u = clientUser /\ e = new)
  <1> DEFINE new == Head(mainQueue).email
             q   == writes[clientUser]
  <1>1. /\ Head(mainQueue).do = "registered" /\ new \in Email
        /\ mainQueue \in Seq(Block) /\ mainQueue # <<>>
    BY BlockTaken, BlockFields DEF HandleRegistered, NextBlock, TypeOK
  <1>2. writes \in [User -> Seq(Email)] /\ clientUser \in User /\ q \in Seq(Email)
    BY DEF TypeOK
  <1>3. writes' = [writes EXCEPT ![clientUser] = Append(q, new)]
    BY DEF HandleRegistered
  <1>4. \A e \in Email : Registering(e, mainQueue) <=> e = new \/ Registering(e, mainQueue')
    BY <1>1, RegisteringTail DEF HandleRegistered, Done
  <1>5. \A e \in Email, u \in User :
            Pending(e, writes'[u]) <=> Pending(e, writes[u]) \/ (u = clientUser /\ e = new)
    BY <1>1, <1>2, <1>3, PendingAppend
  <1> QED  BY <1>1, <1>3, <1>4, <1>5

\* All steps but seven are quiet.
LEMMA QuietSteps ==
    ASSUME TypeOK, [Next]_vars,
           ~(\/ CreateUser \/ ResponseLost \/ CommitNext \/ HandleSuccessfulWrite
             \/ HandleRejectedWrite \/ Kill \/ (\E e \in Email : Promote(e)))
    PROVE  Quiet
  <1> USE DEF cloudVars, writeVars, pageVars, sheetVars, bounds
  <1>1. CASE HandleRegistered
    <2> DEFINE q == writes[clientUser]
    <2>1. /\ writes \in [User -> Seq(Email)] /\ clientUser \in User /\ q \in Seq(Email)
          /\ sent \in 0..Len(q)
      BY DEF TypeOK
    <2>2. PICK new \in Email :
            /\ writes' = [writes EXCEPT ![clientUser] = Append(q, new)]
            /\ \A e \in Email : Registering(e, mainQueue) <=>
                                   e = new \/ Registering(e, mainQueue')
            /\ \A e \in Email, u \in User : Pending(e, writes'[u]) <=>
                   Pending(e, writes[u]) \/ (u = clientUser /\ e = new)
      BY <1>1, RegisteredWrite
    <2>3. \A e \in Email : Coming(e)' <=> Coming(e)
      <3>1. \A e \in Email :
                /\ Coming(e) <=> (\E u \in User : Pending(e, writes[u]))
                                 \/ Registering(e, mainQueue)
                /\ Coming(e)' <=> (\E u \in User : Pending(e, writes'[u]))
                                  \/ Registering(e, mainQueue')
        BY DEF Coming, Registering
      <3> QED  BY <2>1, <2>2, <3>1
    <2>4. \A i \in 1..sent : writes'[clientUser][i] = q[i]
      BY <2>1, <2>2, AppendProperties
    <2>5. SentStored => SentStored'
      BY <1>1, <2>2, <2>4 DEF SentStored, HandleRegistered
    <2> QED  BY <1>1, <2>3, <2>5 DEF Quiet, HandleRegistered
  <1>2. CASE ~HandleRegistered
    <2>1. /\ UNCHANGED <<accounts, documents, lost, writes>>
          /\ sent' = 0 \/ UNCHANGED <<sent, clientUser>>
      BY <1>2 DEF Next, HandleBlock, vars, ViewDidLoad, SignOut, PresentSheet, ToggleSingup,
                  Return, Alert, CloseTop, HandleFirst, HandleNotification, HandleDocument,
                  HandleSignedIn, SignIn, RequestFails, AnswerDocument, OnWriteStreamClose,
                  SendAgain
    <2>2. Keeps(mainQueue, mainQueue')
      BY <1>2, RegistrationsKept
    <2> QED  BY <2>1, <2>2, QuietQueue DEF Keeps
  <1> QED  BY <1>1, <1>2

--------------------------------------------------------------------------------
(* Accounts and documents.                                                 *)

\* Neither property is inductive alone: an acknowledged write leaves the queue,
\* and AccountHasDocument needs to know that the backend has its document.
DocumentInvariant ==
    /\ TypeOK
    /\ DocumentNeedsAccount
    /\ AccountHasDocument
    /\ SentStored

LEMMA DocumentInit == Init => DocumentInvariant
  <1> SUFFICES ASSUME Init PROVE DocumentInvariant
    OBVIOUS
  <1>1. TypeOK
    BY AccountTypeInit
  <1>2. \A e \in Email : ~Coming(e)
    <2>1. \A u \in User : writes[u] = <<>>
      BY DEF Init
    <2>2. DOMAIN << >> = {}
      OBVIOUS
    <2>3. mainQueue = <<>>
      BY DEF Init
    <2> QED  BY <2>1, <2>2, <2>3, Zenon DEF Coming, Pending
  <1> QED  BY <1>1, <1>2
           DEF Init, DocumentInvariant, DocumentNeedsAccount, AccountHasDocument, SentStored

LEMMA QuietKeepsDocuments ==
    ASSUME DocumentInvariant, Quiet
    PROVE  DocumentNeedsAccount' /\ AccountHasDocument' /\ SentStored'
  <1>1. \A e \in Email : Coming(e)' <=> Coming(e)
    BY DEF Quiet
  <1>2. accounts \subseteq Email
    BY DEF DocumentInvariant, TypeOK
  <1> QED  BY <1>1, <1>2
           DEF Quiet, DocumentInvariant, DocumentNeedsAccount, AccountHasDocument

\* What the oldest write of Firestore's user leaves on its way
LEMMA OldestWrite ==
    ASSUME TypeOK, writes[clientUser] # <<>>, UNCHANGED mainQueue,
           writes' = [writes EXCEPT ![clientUser] = Tail(@)]
    PROVE  /\ Head(writes[clientUser]) \in Email
           /\ \A e \in Email :
                 Coming(e) <=> Coming(e)' \/ e = Head(writes[clientUser])
  <1>1. /\ writes \in [User -> Seq(Email)] /\ clientUser \in User
        /\ writes[clientUser] \in Seq(Email)
    BY DEF TypeOK
  <1>2. Head(writes[clientUser]) \in Email
    BY <1>1, HeadTailProperties
  <1>3. \A e \in Email, u \in User : Pending(e, writes[u]) <=>
            Pending(e, writes'[u]) \/ (u = clientUser /\ e = Head(writes[clientUser]))
    BY <1>1, PendingTail
  <1> QED  BY <1>1, <1>2, <1>3 DEF Coming

\* The rest of the queue counts one write less as sent.
LEMMA SentTail ==
    ASSUME TypeOK, SentStored, UNCHANGED <<clientUser, documents>>,
           writes' = [writes EXCEPT ![clientUser] = Tail(@)],
           writes[clientUser] # <<>>, sent' = IF sent > 0 THEN sent - 1 ELSE sent
    PROVE  SentStored'
  <1>1. /\ writes \in [User -> Seq(Email)] /\ clientUser \in User
        /\ writes[clientUser] \in Seq(Email) /\ sent \in 0..Len(writes[clientUser])
        /\ Len(writes[clientUser]) \in Nat
    BY LenProperties DEF TypeOK
  <1>2. \A i \in 1..(Len(writes[clientUser]) - 1) :
            Tail(writes[clientUser])[i] = writes[clientUser][i + 1]
    BY <1>1, HeadTailProperties
  <1>3. ASSUME NEW i \in 1..sent' PROVE documents'[writes'[clientUser'][i]] # "none"
    <2>1. sent > 0 /\ i + 1 \in 1..sent /\ i \in 1..(Len(writes[clientUser]) - 1)
      BY <1>1
    <2>2. writes'[clientUser'][i] = writes[clientUser][i + 1]
      BY <1>1, <1>2, <2>1
    <2> QED  BY <2>1, <2>2 DEF SentStored
  <1> QED  BY <1>3 DEF SentStored

\* A new account, and its document on the way
LEMMA CreateUserComing ==
    ASSUME TypeOK, CreateUser
    PROVE  \E new \in Email \ accounts :
              /\ accounts' = accounts \cup {new}
              /\ \A e \in Email : Coming(e)' <=> Coming(e) \/ e = new
  <1>1. PICK r \in requests :
          /\ r.email \notin accounts
          /\ accounts' = accounts \cup {r.email}
          /\ ChangeUser(r.email,
                 <<[do |-> "registered", email |-> r.email, sheet |-> r.sheet]>>)
    BY DEF CreateUser
  <1> DEFINE b == [do |-> "registered", email |-> r.email, sheet |-> r.sheet]
  <1>2. r.email \in Email /\ r.email \in User /\ b \in Block
        /\ b.do = "registered" /\ b.email = r.email
    BY DEF TypeOK, Request, User, Block
  <1>3. \A e \in Email : Registering(e, mainQueue') <=>
                            Registering(e, mainQueue) \/ e = r.email
    <2>1. PICK q \in Seq(Block) : mainQueue' = Append(q, b) /\ Keeps(mainQueue, q)
      BY <1>1, <1>2, ChangeUserBlocks
    <2>2. \A e \in Email : Registering(e, Append(q, b)) <=> Registering(e, q) \/ e = r.email
      BY <1>2, RegisteringAppend
    <2> QED  BY <2>1, <2>2 DEF Keeps
  <1>4. \A e \in Email : Coming(e)' <=> Coming(e) \/ e = r.email
    BY <1>3 DEF CreateUser, Coming, Registering, writeVars
  <1> QED  BY <1>1, <1>2, <1>4

\* A document arrives: one that was on its way.
LEMMA CommitNextArrives ==
    ASSUME TypeOK, CommitNext
    PROVE  /\ \A e \in Email : Coming(e)' <=> Coming(e)
           /\ writes[clientUser][sent + 1] \in Email
           /\ Coming(writes[clientUser][sent + 1])
           /\ \A e \in Email : documents'[e] = IF e = writes[clientUser][sent + 1]
                                               THEN "member" ELSE documents[e]
  <1>1. /\ sent \in Nat /\ sent + 1 \in 1..Len(writes[clientUser])
        /\ DOMAIN writes[clientUser] = 1..Len(writes[clientUser])
        /\ \A i \in 1..Len(writes[clientUser]) : writes[clientUser][i] \in Email
        /\ clientUser \in User
    BY LenProperties, ElementOfSeq DEF CommitNext, TypeOK
  <1>2. Coming(writes[clientUser][sent + 1])
    BY <1>1 DEF Coming, Pending
  <1>3. \A e \in Email : Coming(e)' <=> Coming(e)
    BY DEF CommitNext, Coming
  <1> QED  BY <1>1, <1>2, <1>3 DEF CommitNext, TypeOK

LEMMA DocumentNext == DocumentInvariant /\ [Next]_vars => DocumentInvariant'
  <1> SUFFICES ASSUME DocumentInvariant, [Next]_vars PROVE DocumentInvariant'
    OBVIOUS
  <1> USE DEF cloudVars, writeVars, pageVars, sheetVars, bounds
  <1>0. TypeOK /\ DocumentNeedsAccount /\ AccountHasDocument /\ SentStored
    BY DEF DocumentInvariant
  <1>1. TypeOK'
    BY <1>0, AccountTypeNext
  <1> SUFFICES DocumentNeedsAccount' /\ AccountHasDocument' /\ SentStored'
    BY <1>1 DEF DocumentInvariant
  <1>2. CASE CreateUser
    <2>1. PICK new \in Email \ accounts :
            /\ accounts' = accounts \cup {new}
            /\ \A e \in Email : Coming(e)' <=> Coming(e) \/ e = new
      BY <1>0, <1>2, CreateUserComing
    <2>2. accounts' \subseteq Email
      BY <1>1 DEF TypeOK
    <2> QED  BY <1>0, <1>2, <2>1, <2>2
             DEF CreateUser, DocumentNeedsAccount, AccountHasDocument, SentStored
  <1>3. CASE ResponseLost
    <2>1. \A e \in Email : Coming(e)' <=> Coming(e)
      BY <1>3 DEF ResponseLost, Coming
    <2>2. accounts' \subseteq Email
      BY <1>1 DEF TypeOK
    <2> QED  BY <1>0, <1>3, <2>1, <2>2
             DEF ResponseLost, DocumentNeedsAccount, AccountHasDocument, SentStored
  <1>4. ASSUME NEW f \in Email, Promote(f)
        PROVE  DocumentNeedsAccount' /\ AccountHasDocument' /\ SentStored'
    <2>1. \A e \in Email : Coming(e)' <=> Coming(e)
      BY <1>4 DEF Promote, Coming
    <2>2. \A e \in Email : documents'[e] # "none" <=> documents[e] # "none"
      BY <1>0, <1>4 DEF Promote, TypeOK
    <2>3. \A i \in 1..sent : writes[clientUser][i] \in Email
      BY <1>0, ElementOfSeq DEF TypeOK
    <2>4. accounts \subseteq Email
      BY <1>0 DEF TypeOK
    <2>5. SentStored'
      BY <1>0, <1>4, <2>2, <2>3 DEF Promote, SentStored
    <2> QED  BY <1>0, <1>4, <2>1, <2>2, <2>4, <2>5
             DEF Promote, DocumentNeedsAccount, AccountHasDocument
  <1>5. CASE CommitNext
    <2> DEFINE new == writes[clientUser][sent + 1]
    <2>1. /\ \A e \in Email : Coming(e)' <=> Coming(e)
          /\ new \in Email /\ Coming(new)
          /\ \A e \in Email : documents'[e] = IF e = new THEN "member" ELSE documents[e]
      BY <1>0, <1>5, CommitNextArrives
    <2>2. \A e \in Email : documents'[e] # "none" <=> documents[e] # "none" \/ e = new
      BY <2>1
    <2>3. accounts \subseteq Email
      BY <1>0 DEF TypeOK
    <2>4. SentStored'
      <3>1. \A i \in 1..sent : writes[clientUser][i] \in Email
        BY <1>0, ElementOfSeq DEF TypeOK
      <3>2. \A i \in 1..(sent + 1) : i = sent + 1 \/ i \in 1..sent
        BY <1>0 DEF TypeOK
      <3>3. \A i \in 1..(sent + 1) : documents'[writes[clientUser][i]] # "none"
        BY <1>0, <2>1, <2>2, <3>1, <3>2 DEF SentStored
      <3> QED  BY <1>5, <3>3 DEF CommitNext, SentStored
    <2> QED  BY <1>0, <1>5, <2>1, <2>2, <2>3, <2>4
             DEF CommitNext, DocumentNeedsAccount, AccountHasDocument
  <1>6. CASE HandleSuccessfulWrite
    <2>1. writes[clientUser] # <<>> /\ 1 \in 1..sent
      BY <1>0, <1>6, EmptySeq DEF HandleSuccessfulWrite, TypeOK
    <2>2. \A e \in Email : Coming(e) <=> Coming(e)' \/ e = Head(writes[clientUser])
      BY <1>0, <1>6, <2>1, OldestWrite DEF HandleSuccessfulWrite
    <2>3. documents[Head(writes[clientUser])] # "none"
      <3>1. Head(writes[clientUser]) = writes[clientUser][1]
        BY <1>0, <2>1, HeadTailProperties DEF TypeOK
      <3> QED  BY <1>0, <2>1, <3>1 DEF SentStored
    <2>4. SentStored'
      BY <1>0, <1>6, <2>1, SentTail DEF HandleSuccessfulWrite
    <2>5. accounts \subseteq Email
      BY <1>0 DEF TypeOK
    <2> QED  BY <1>0, <1>6, <2>2, <2>3, <2>4, <2>5
             DEF HandleSuccessfulWrite, DocumentNeedsAccount, AccountHasDocument
  <1>7. CASE HandleRejectedWrite
    <2>1. \A e \in Email : Coming(e) <=> Coming(e)' \/ e = Head(writes[clientUser])
      BY <1>0, <1>7, OldestWrite DEF HandleRejectedWrite
    <2>2. SentStored'
      BY <1>7 DEF HandleRejectedWrite, SentStored
    <2>3. accounts \subseteq Email
      BY <1>0 DEF TypeOK
    <2> QED  BY <1>0, <1>7, <2>1, <2>2, <2>3
             DEF HandleRejectedWrite, DocumentNeedsAccount, AccountHasDocument
  <1>8. CASE Kill
    <2>1. \A e \in Email : Coming(e) <=> Coming(e)' \/ Registering(e, mainQueue)
      BY <1>8 DEF Kill, Coming, Registering
    <2>2. \A e \in Email : Registering(e, mainQueue) => e \in lost'
      BY <1>8 DEF Kill, Registering
    <2>3. SentStored'
      BY <1>8 DEF Kill, StartWithUser, SendAgain, SentStored
    <2>4. accounts \subseteq Email
      BY <1>0 DEF TypeOK
    <2>5. lost \subseteq lost'
      BY <1>8 DEF Kill
    <2> QED  BY <1>0, <1>8, <2>1, <2>2, <2>3, <2>4, <2>5
             DEF Kill, DocumentNeedsAccount, AccountHasDocument
  <1>9. CASE Quiet
    BY <1>9, QuietKeepsDocuments
  <1> QED  BY <1>0, <1>2, <1>3, <1>4, <1>5, <1>6, <1>7, <1>8, <1>9, QuietSteps

(***************************************************************************)
(* Registration writes documents for accounts alone, whichever requests    *)
(* overlap or fail and whoever is signed in (AuthViewController.swift:64). *)
(***************************************************************************)
THEOREM DocumentNeedsAccountCorrect == Spec => []DocumentNeedsAccount
  BY DocumentInit, DocumentNext, PTL DEF Spec, DocumentInvariant

(***************************************************************************)
(* An account is without document only while the document is on its way,   *)
(* or because a crash, a lost response or a refusal cut its registration   *)
(* in two: users who sign out, sheets swiped away, restarts and broken     *)
(* streams lose no document (AuthViewController.swift:69).                 *)
(***************************************************************************)
THEOREM AccountHasDocumentCorrect == Spec => []AccountHasDocument
  BY DocumentInit, DocumentNext, PTL DEF Spec, DocumentInvariant

--------------------------------------------------------------------------------
(* Promotions.                                                             *)

Distinct(q) == \A i, j \in DOMAIN q : q[i] = q[j] => i = j

\* Every document is written once: it waits in one place, ...
WaitsOnce ==
    /\ Single(mainQueue)
    /\ \A e \in Email : Registering(e, mainQueue) =>
          documents[e] = "none" /\ \A u \in User : ~Pending(e, writes[u])

\* ... in one queue of writes, ...
PendingOnce ==
    /\ \A u \in User : Distinct(writes[u])
    /\ \A u, v \in User, e \in Email : Pending(e, writes[u]) /\ Pending(e, writes[v]) => u = v

\* ... and what the stream has not sent yet is not in the backend, but for
\* what it sends again.
UnsentNew ==
    \A u \in User : \A i \in DOMAIN writes[u] :
        (u = clientUser => i > sent) =>
            documents[writes[u][i]] = "none" \/ writes[u][i] \in resent

OnceInvariant == WaitsOnce /\ PendingOnce /\ UnsentNew

LEMMA DistinctAppend ==
    ASSUME NEW S, NEW q \in Seq(S), NEW new \in S, Distinct(q), ~Pending(new, q)
    PROVE  Distinct(Append(q, new))
  <1>1. /\ Len(q) \in Nat /\ DOMAIN q = 1..Len(q)
        /\ DOMAIN Append(q, new) = 1..(Len(q) + 1)
        /\ \A i \in 1..Len(q) : Append(q, new)[i] = q[i]
        /\ Append(q, new)[Len(q) + 1] = new
    BY AppendProperties, LenProperties
  <1>2. \A i \in 1..Len(q) : q[i] # new
    BY <1>1 DEF Pending
  <1>3. ASSUME NEW i \in 1..(Len(q) + 1), NEW j \in 1..(Len(q) + 1),
               Append(q, new)[i] = Append(q, new)[j]
        PROVE  i = j
    BY <1>1, <1>2, <1>3 DEF Distinct
  <1> QED  BY <1>1, <1>3 DEF Distinct

LEMMA DistinctTail ==
    ASSUME NEW S, NEW q \in Seq(S), q # <<>>, Distinct(q)
    PROVE  Distinct(Tail(q)) /\ ~Pending(Head(q), Tail(q))
  <1>1. /\ Len(q) \in Nat /\ DOMAIN q = 1..Len(q) /\ 1 \in 1..Len(q)
        /\ DOMAIN Tail(q) = 1..(Len(q) - 1)
        /\ \A i \in 1..(Len(q) - 1) : Tail(q)[i] = q[i + 1] /\ i + 1 \in 1..Len(q)
        /\ Head(q) = q[1]
    BY HeadTailProperties, LenProperties, EmptySeq
  <1>2. ASSUME NEW i \in 1..(Len(q) - 1), NEW j \in 1..(Len(q) - 1), Tail(q)[i] = Tail(q)[j]
        PROVE  i = j
    <2>1. i + 1 = j + 1
      BY <1>1, <1>2 DEF Distinct
    <2> QED  BY <2>1
  <1>3. ASSUME NEW i \in 1..(Len(q) - 1), Tail(q)[i] = Head(q) PROVE FALSE
    <2>1. i + 1 = 1
      BY <1>1, <1>3 DEF Distinct
    <2> QED  BY <2>1
  <1> QED  BY <1>1, <1>2, <1>3 DEF Distinct, Pending

LEMMA OnceInit == Init => OnceInvariant
  <1> SUFFICES ASSUME Init PROVE OnceInvariant
    OBVIOUS
  <1>1. \A u \in User : writes[u] = <<>>
    BY DEF Init
  <1>2. mainQueue = <<>> /\ DOMAIN << >> = {}
    BY DEF Init
  <1> QED  BY <1>1, <1>2, Zenon DEF OnceInvariant, WaitsOnce, Single, Registering, PendingOnce,
                                    Distinct, Pending, UnsentNew

\* The writes stay what they are: at most the stream starts over, for this
\* user or for the next, or registrations are forgotten.
LEMMA OnceKept ==
    ASSUME TypeOK, OnceInvariant, UNCHANGED <<writes, documents>>, Single(mainQueue)',
           \A e \in Email : Registering(e, mainQueue') => Registering(e, mainQueue),
           SendAgain \/ UNCHANGED <<clientUser, sent, resent>>
    PROVE  OnceInvariant'
  <1>1. WaitsOnce' /\ PendingOnce'
    BY DEF OnceInvariant, WaitsOnce, PendingOnce
  <1>2. ASSUME SendAgain PROVE UnsentNew'
    <2>1. SUFFICES ASSUME NEW u \in User, NEW i \in DOMAIN writes[u],
                          documents[writes[u][i]] # "none", writes[u][i] \notin resent
                   PROVE  writes[u][i] \in resent'
      BY <1>2 DEF UnsentNew, SendAgain
    <2>2. u = clientUser /\ ~(i > sent)
      BY <2>1 DEF OnceInvariant, UnsentNew
    <2>3. i \in 1..sent
      BY <2>1, <2>2, LenProperties DEF TypeOK
    <2> QED  BY <1>2, <2>2, <2>3 DEF SendAgain
  <1>3. ASSUME UNCHANGED <<clientUser, sent, resent>> PROVE UnsentNew'
    BY <1>3 DEF OnceInvariant, UnsentNew
  <1> QED  BY <1>1, <1>2, <1>3 DEF OnceInvariant

\* A write leaves the queue of Firestore's user: no copy of it stays behind.
LEMMA OnceTail ==
    ASSUME TypeOK, OnceInvariant, writes[clientUser] # <<>>,
           UNCHANGED <<documents, mainQueue, clientUser>>,
           writes' = [writes EXCEPT ![clientUser] = Tail(@)],
           sent' = IF sent > 0 THEN sent - 1 ELSE sent,
           resent' = resent \ {Head(writes[clientUser])}
    PROVE  OnceInvariant'
  <1> DEFINE q    == writes[clientUser]
             head == Head(q)
  <1>1. /\ writes \in [User -> Seq(Email)] /\ clientUser \in User /\ q \in Seq(Email)
        /\ sent \in 0..Len(q) /\ head \in Email
        /\ Len(q) \in Nat /\ DOMAIN q = 1..Len(q)
        /\ DOMAIN Tail(q) = 1..(Len(q) - 1)
        /\ \A i \in 1..(Len(q) - 1) : Tail(q)[i] = q[i + 1] /\ i + 1 \in 1..Len(q)
    BY HeadTailProperties, LenProperties, EmptySeq DEF TypeOK
  <1>2. /\ \A u \in User : Distinct(writes[u])
        /\ \A u, v \in User, e \in Email :
              Pending(e, writes[u]) /\ Pending(e, writes[v]) => u = v
    BY DEF OnceInvariant, PendingOnce
  <1>3. Distinct(Tail(q)) /\ ~Pending(head, Tail(q))
    BY <1>1, <1>2, DistinctTail
  <1>4. \A e \in Email, u \in User : Pending(e, writes'[u]) => Pending(e, writes[u])
    BY <1>1, PendingTail
  <1>5. WaitsOnce'
    BY <1>4 DEF OnceInvariant, WaitsOnce
  <1>6. PendingOnce'
    <2>1. \A u \in User : Distinct(writes'[u])
      BY <1>1, <1>2, <1>3
    <2> QED  BY <1>2, <1>4, <2>1 DEF PendingOnce
  <1>7. Pending(head, q)
    BY <1>1, PendingTail
  <1>8. \A u \in User : ~Pending(head, writes'[u])
    <2>1. \A u \in User \ {clientUser} : writes'[u] = writes[u] /\ ~Pending(head, writes[u])
      BY <1>1, <1>2, <1>7
    <2> QED  BY <1>1, <1>3, <2>1
  <1>9. UnsentNew'
    <2>1. SUFFICES ASSUME NEW u \in User, NEW i \in DOMAIN writes'[u],
                          u = clientUser => i > sent'
                   PROVE  documents[writes'[u][i]] = "none" \/ writes'[u][i] \in resent'
      BY DEF UnsentNew
    <2>2. writes'[u][i] # head
      BY <1>8 DEF Pending
    <2>3. CASE u # clientUser
      BY <1>1, <2>1, <2>2, <2>3 DEF OnceInvariant, UnsentNew
    <2>4. CASE u = clientUser
      <3>1. i \in 1..(Len(q) - 1) /\ writes'[u][i] = q[i + 1] /\ i + 1 \in DOMAIN q
        BY <1>1, <2>1, <2>4
      <3>2. i + 1 > sent
        BY <1>1, <2>1, <2>4, <3>1
      <3> QED  BY <1>1, <2>2, <2>4, <3>1, <3>2 DEF OnceInvariant, UnsentNew
    <2> QED  BY <2>3, <2>4
  <1> QED  BY <1>5, <1>6, <1>9 DEF OnceInvariant

LEMMA OnceNext == DocumentInvariant /\ OnceInvariant /\ [Next]_vars => OnceInvariant'
  <1> SUFFICES ASSUME DocumentInvariant, OnceInvariant, [Next]_vars PROVE OnceInvariant'
    OBVIOUS
  <1> USE DEF cloudVars, writeVars, pageVars, sheetVars, bounds
  <1>0. /\ TypeOK /\ DocumentNeedsAccount
        /\ mainQueue \in Seq(Block) /\ Single(mainQueue)
        /\ \A e \in Email : Registering(e, mainQueue) \/ (\E u \in User : Pending(e, writes[u]))
                            => Coming(e)
    BY DEF DocumentInvariant, OnceInvariant, WaitsOnce, Coming, Registering, TypeOK
  <1>1. CASE CreateUser
    <2>1. PICK r \in requests :
            /\ r.email \notin accounts
            /\ ChangeUser(r.email,
                   <<[do |-> "registered", email |-> r.email, sheet |-> r.sheet]>>)
      BY <1>1 DEF CreateUser
    <2> DEFINE b == [do |-> "registered", email |-> r.email, sheet |-> r.sheet]
    <2>2. r.email \in Email /\ r.email \in User /\ b \in Block
          /\ b.do = "registered" /\ b.email = r.email
      BY <1>0 DEF TypeOK, Request, User, Block
    <2>3. PICK q \in Seq(Block) : mainQueue' = Append(q, b) /\ Keeps(mainQueue, q)
      BY <1>0, <2>1, <2>2, ChangeUserBlocks
    <2>4. documents[r.email] = "none" /\ ~Coming(r.email)
      BY <1>0, <2>1, <2>2 DEF DocumentNeedsAccount
    <2>5. Single(mainQueue')
      BY <1>0, <2>2, <2>3, <2>4, SingleAppend DEF Keeps
    <2>6. \A e \in Email : Registering(e, mainQueue') => Registering(e, mainQueue) \/ e = r.email
      <3>1. \A e \in Email : Registering(e, Append(q, b)) <=> Registering(e, q) \/ e = r.email
        BY <2>2, RegisteringAppend
      <3> QED  BY <2>3, <3>1 DEF Keeps
    <2>7. UNCHANGED <<writes, documents, clientUser, sent, resent>>
      BY <1>1 DEF CreateUser
    <2>8. WaitsOnce'
      BY <1>0, <2>4, <2>5, <2>6, <2>7 DEF OnceInvariant, WaitsOnce
    <2> QED  BY <2>7, <2>8 DEF OnceInvariant, PendingOnce, UnsentNew
  <1>2. CASE HandleRegistered
    <2> DEFINE q == writes[clientUser]
    <2>1. /\ writes \in [User -> Seq(Email)] /\ clientUser \in User /\ q \in Seq(Email)
          /\ sent \in 0..Len(q)
      BY <1>0 DEF TypeOK
    <2>2. PICK new \in Email :
            /\ writes' = [writes EXCEPT ![clientUser] = Append(q, new)]
            /\ Head(mainQueue).do = "registered" /\ Head(mainQueue).email = new
            /\ \A e \in Email : Registering(e, mainQueue) <=>
                                   e = new \/ Registering(e, mainQueue')
            /\ \A e \in Email, u \in User : Pending(e, writes'[u]) <=>
                   Pending(e, writes[u]) \/ (u = clientUser /\ e = new)
      BY <1>0, <1>2, RegisteredWrite
    <2>3. mainQueue # <<>> /\ mainQueue' = Tail(mainQueue)
      BY <1>2 DEF HandleRegistered, NextBlock, Done
    <2>4. Single(mainQueue') /\ ~Registering(new, mainQueue')
      BY <1>0, <2>2, <2>3, SingleTail
    <2>5. documents[new] = "none" /\ \A u \in User : ~Pending(new, writes[u])
      BY <2>2 DEF OnceInvariant, WaitsOnce
    <2>6. UNCHANGED <<documents, clientUser, sent, resent>>
      BY <1>2 DEF HandleRegistered
    <2>7. WaitsOnce'
      BY <2>2, <2>4, <2>6 DEF OnceInvariant, WaitsOnce
    <2>8. PendingOnce'
      <3>1. \A u \in User : Distinct(writes'[u])
        <4>1. Distinct(Append(q, new))
          BY <2>1, <2>5, DistinctAppend DEF OnceInvariant, PendingOnce
        <4> QED  BY <2>1, <2>2, <4>1 DEF OnceInvariant, PendingOnce
      <3>2. \A u, v \in User, e \in Email :
                Pending(e, writes'[u]) /\ Pending(e, writes'[v]) => u = v
        BY <2>2, <2>5 DEF OnceInvariant, PendingOnce
      <3> QED  BY <3>1, <3>2 DEF PendingOnce
    <2>9. UnsentNew'
      <3>1. SUFFICES ASSUME NEW u \in User, NEW i \in DOMAIN writes'[u],
                            u = clientUser => i > sent
                     PROVE  documents[writes'[u][i]] = "none" \/ writes'[u][i] \in resent
        BY <2>6 DEF UnsentNew
      <3>2. /\ DOMAIN Append(q, new) = 1..(Len(q) + 1) /\ DOMAIN q = 1..Len(q)
            /\ Len(q) \in Nat
            /\ \A k \in 1..Len(q) : Append(q, new)[k] = q[k]
            /\ Append(q, new)[Len(q) + 1] = new
        BY <2>1, AppendProperties, LenProperties
      <3>3. CASE u # clientUser
        BY <2>1, <2>2, <3>1, <3>3 DEF OnceInvariant, UnsentNew
      <3>4. CASE u = clientUser /\ i \in 1..Len(q)
        BY <2>1, <2>2, <3>1, <3>2, <3>4 DEF OnceInvariant, UnsentNew
      <3>5. CASE u = clientUser /\ i = Len(q) + 1
        BY <2>1, <2>2, <2>5, <3>2, <3>5
      <3>6. u = clientUser => i \in 1..Len(q) \/ i = Len(q) + 1
        BY <2>1, <2>2, <3>1, <3>2
      <3> QED  BY <3>3, <3>4, <3>5, <3>6
    <2> QED  BY <2>7, <2>8, <2>9 DEF OnceInvariant
  <1>3. CASE CommitNext
    <2> DEFINE q   == writes[clientUser]
               new == q[sent + 1]
    <2>1. /\ new \in Email /\ clientUser \in User
          /\ \A e \in Email : documents'[e] = IF e = new THEN "member" ELSE documents[e]
      BY <1>0, <1>3, CommitNextArrives DEF TypeOK
    <2>2. UNCHANGED <<writes, mainQueue, clientUser, resent>> /\ sent' = sent + 1
      BY <1>3 DEF CommitNext
    <2>3. sent \in Nat /\ DOMAIN q \subseteq Nat /\ sent + 1 \in DOMAIN q
      BY <1>0, <1>3, LenProperties DEF CommitNext, TypeOK
    <2>4. \A u \in User : \A i \in DOMAIN writes[u] : writes[u][i] \in Email
      BY <1>0, ElementOfSeq, LenProperties DEF TypeOK
    <2>5. Pending(new, q)
      BY <2>3 DEF Pending
    <2>6. WaitsOnce'
      BY <2>1, <2>2, <2>5 DEF OnceInvariant, WaitsOnce
    <2>7. PendingOnce'
      BY <2>2 DEF OnceInvariant, PendingOnce
    <2>8. UnsentNew'
      <3>1. SUFFICES ASSUME NEW u \in User, NEW i \in DOMAIN writes[u],
                            u = clientUser => i > sent + 1
                     PROVE  documents'[writes[u][i]] = "none" \/ writes[u][i] \in resent
        BY <2>2 DEF UnsentNew
      <3>2. writes[u][i] \in Email /\ Pending(writes[u][i], writes[u])
        BY <2>4 DEF Pending
      <3>3. writes[u][i] # new
        <4>1. ASSUME writes[u][i] = new PROVE FALSE
          <5>1. u = clientUser
            BY <2>1, <2>5, <3>2, <4>1 DEF OnceInvariant, PendingOnce
          <5>2. i = sent + 1
            BY <2>1, <2>3, <4>1, <5>1 DEF OnceInvariant, PendingOnce, Distinct
          <5> QED  BY <2>3, <3>1, <5>1, <5>2
        <4> QED  BY <4>1
      <3>4. u = clientUser => i > sent
        BY <2>3, <3>1
      <3> QED  BY <2>1, <3>2, <3>3, <3>4 DEF OnceInvariant, UnsentNew
    <2> QED  BY <2>6, <2>7, <2>8 DEF OnceInvariant
  <1>4. CASE HandleSuccessfulWrite
    <2>1. writes[clientUser] # <<>>
      BY <1>0, <1>4, EmptySeq DEF HandleSuccessfulWrite, TypeOK
    <2> QED  BY <1>0, <1>4, <2>1, OnceTail DEF HandleSuccessfulWrite
  <1>5. CASE HandleRejectedWrite
    BY <1>0, <1>5, OnceTail DEF HandleRejectedWrite
  <1>6. ASSUME NEW f \in Email, Promote(f) PROVE OnceInvariant'
    <2>1. \A e \in Email : documents'[e] = "none" <=> documents[e] = "none"
      BY <1>0, <1>6 DEF Promote, TypeOK
    <2>2. UNCHANGED <<writes, mainQueue, clientUser, sent, resent>>
      BY <1>6 DEF Promote
    <2>3. \A u \in User : \A i \in DOMAIN writes[u] : writes[u][i] \in Email
      BY <1>0, ElementOfSeq, LenProperties DEF TypeOK
    <2>4. WaitsOnce' /\ PendingOnce'
      BY <2>1, <2>2 DEF OnceInvariant, WaitsOnce, PendingOnce
    <2>5. UnsentNew'
      BY <2>1, <2>2, <2>3 DEF OnceInvariant, UnsentNew
    <2> QED  BY <2>4, <2>5 DEF OnceInvariant
  <1>7. CASE Kill
    <2>1. Single(mainQueue)' /\ \A e \in Email : ~Registering(e, mainQueue')
      BY <1>7 DEF Kill, Single, Registering
    <2> QED  BY <1>0, <1>7, <2>1, OnceKept DEF Kill, StartWithUser
  <1>8. CASE HandleNotification \/ OnWriteStreamClose
    <2>1. Keeps(mainQueue, mainQueue')
      BY <1>0, <1>8, KeepsDone DEF HandleNotification, OnWriteStreamClose, Keeps
    <2> QED  BY <1>0, <1>8, <2>1, OnceKept DEF HandleNotification, OnWriteStreamClose, Keeps
  <1>9. CASE ~(\/ CreateUser \/ HandleRegistered \/ CommitNext \/ HandleSuccessfulWrite
               \/ HandleRejectedWrite \/ (\E f \in Email : Promote(f)) \/ Kill
               \/ HandleNotification \/ OnWriteStreamClose)
    <2>1. UNCHANGED <<writes, documents, clientUser, sent, resent>>
      BY <1>9 DEF Next, HandleBlock, vars, ViewDidLoad, SignOut, PresentSheet, ToggleSingup,
                  Return, Alert, CloseTop, HandleFirst, HandleDocument, HandleSignedIn,
                  SignIn, RequestFails, ResponseLost, AnswerDocument
    <2>2. Keeps(mainQueue, mainQueue')
      BY <1>0, <1>9, RegistrationsKept
    <2> QED  BY <1>0, <2>1, <2>2, OnceKept DEF Keeps
  <1> QED  BY <1>1, <1>2, <1>3, <1>4, <1>5, <1>6, <1>7, <1>8, <1>9

\* What a step may not do to the document of e
StandsFor(e) ==
    /\ ~Coming(e) => ~Coming(e)'
    /\ documents[e] = "master" /\ e \notin resent => documents'[e] = "master"

LEMMA PromotionStep ==
    ASSUME TypeOK, OnceInvariant, [Next]_vars, NEW e \in accounts
    PROVE  StandsFor(e)
  <1> USE DEF cloudVars, writeVars, pageVars, sheetVars, bounds
  <1>1. e \in Email
    BY DEF TypeOK
  <1>2. CASE CreateUser
    <2>1. PICK new \in Email \ accounts :
            \A f \in Email : Coming(f)' <=> Coming(f) \/ f = new
      BY <1>2, CreateUserComing
    <2> QED  BY <1>1, <1>2, <2>1 DEF CreateUser, StandsFor
  <1>3. CASE ResponseLost
    BY <1>3 DEF ResponseLost, StandsFor, Coming
  <1>4. ASSUME NEW f \in Email, Promote(f) PROVE StandsFor(e)
    <2>1. Coming(e)' <=> Coming(e)
      BY <1>4 DEF Promote, Coming
    <2> QED  BY <1>1, <1>4, <2>1 DEF Promote, StandsFor, TypeOK
  <1>5. CASE CommitNext
    <2> DEFINE new == writes[clientUser][sent + 1]
    <2>1. /\ Coming(e)' <=> Coming(e)
          /\ documents'[e] = IF e = new THEN "member" ELSE documents[e]
      BY <1>1, <1>5, CommitNextArrives
    <2>2. documents[new] = "none" \/ new \in resent
      <3>1. /\ clientUser \in User /\ sent + 1 \in DOMAIN writes[clientUser]
            /\ sent + 1 > sent
        BY <1>5, LenProperties DEF CommitNext, TypeOK
      <3> QED  BY <3>1 DEF OnceInvariant, UnsentNew
    <2> QED  BY <2>1, <2>2 DEF StandsFor
  <1>6. CASE HandleSuccessfulWrite
    <2>1. writes[clientUser] # <<>>
      BY <1>6, EmptySeq DEF HandleSuccessfulWrite, TypeOK
    <2> QED  BY <1>1, <1>6, <2>1, OldestWrite DEF HandleSuccessfulWrite, StandsFor
  <1>7. CASE HandleRejectedWrite
    BY <1>1, <1>7, OldestWrite DEF HandleRejectedWrite, StandsFor
  <1>8. CASE Kill
    <2>1. Coming(e)' => Coming(e)
      BY <1>8 DEF Kill, Coming
    <2> QED  BY <1>8, <2>1 DEF Kill, StandsFor
  <1>9. CASE Quiet
    BY <1>1, <1>9 DEF Quiet, StandsFor
  <1> QED  BY <1>2, <1>3, <1>4, <1>5, <1>6, <1>7, <1>8, <1>9, QuietSteps

(***************************************************************************)
(* No registration, sheet or change of user queues an account's document   *)
(* a second time, and only a write the backend had applied already, sent   *)
(* again before its acknowledgement was handled, can replace a master's    *)
(* document (AuthViewController.swift:73).                                 *)
(***************************************************************************)
THEOREM PromotionCorrect == Spec => PromotionStands
  <1>1. DocumentInvariant /\ OnceInvariant /\ [Next]_vars =>
            [\A e \in accounts :
                /\ ~Coming(e) => ~Coming(e)'
                /\ documents[e] = "master" /\ e \notin resent => documents'[e] = "master"]_vars
    BY PromotionStep DEF StandsFor, DocumentInvariant
  <1> QED  BY <1>1, DocumentInit, DocumentNext, OnceInit, OnceNext, PTL
           DEF Spec, PromotionStands

--------------------------------------------------------------------------------
(* The profile page follows the user.                                      *)

\* A block of this kind waits in q.
Waiting(do, q) == \E b \in Block : b.do = do /\ Pending(b, q)

\* The answer about e's document waits in q.
Answered(e, q) == \E b \in Block : b.do = "document" /\ b.email = e /\ Pending(b, q)

\* The page will paint e.
Reading(e) == reads[e] > 0 \/ Answered(e, mainQueue)

\* A page that is not loaded has heard of no user and waits for no answer.
BeforePage ==
    ~loaded => /\ previousUserID = Unset
               /\ ~Waiting("first", mainQueue)
               /\ \A e \in Email : ~Reading(e)

\* The listener is still to be called for a user it does not know.
Heard ==
    previousUserID # currentUser =>
        \/ Waiting("notify", mainQueue)
        \/ previousUserID = Unset /\ Waiting("first", mainQueue)

ReadsPresent == \A e \in Email : Reading(e) => e = currentUser

\* Once the listener has been called for the present user, the flag is right
\* and the page shows the user, or will.
Painted ==
    previousUserID = currentUser =>
        /\ signup <=> currentUser # Nobody
        /\ IF currentUser = Nobody
           THEN shown = "invitation"
           ELSE shown \in {currentUser, "error"} \/ Reading(currentUser)

PageFollows ==
    /\ BeforePage
    /\ loaded /\ ~raced => Heard /\ ReadsPresent /\ Painted

\* Appending a block to the main queue, and taking its first
LEMMA WaitingAppend ==
    ASSUME NEW q \in Seq(Block), NEW b \in Block, NEW do, NEW e
    PROVE  /\ Append(q, b) \in Seq(Block)
           /\ Waiting(do, Append(q, b)) <=> Waiting(do, q) \/ b.do = do
           /\ Answered(e, Append(q, b)) <=>
                 Answered(e, q) \/ (b.do = "document" /\ b.email = e)
  <1>1. \A c : Pending(c, Append(q, b)) <=> Pending(c, q) \/ c = b
    BY PendingAppend
  <1>2. Append(q, b) \in Seq(Block)
    BY AppendProperties
  <1> QED  BY <1>1, <1>2 DEF Waiting, Answered

LEMMA WaitingDone ==
    ASSUME TypeOK, NEW head, NextBlock(head), Done, NEW do, NEW e
    PROVE  /\ Waiting(do, mainQueue) <=> Waiting(do, mainQueue') \/ head = do
           /\ Answered(e, mainQueue) <=>
                 \/ Answered(e, mainQueue')
                 \/ head = "document" /\ Head(mainQueue).email = e
  <1>1. /\ mainQueue \in Seq(Block) /\ mainQueue # <<>> /\ mainQueue' = Tail(mainQueue)
        /\ Head(mainQueue) \in Block /\ Head(mainQueue).do = head
    BY BlockTaken DEF TypeOK, NextBlock, Done
  <1>2. \A c : Pending(c, mainQueue) <=> c = Head(mainQueue) \/ Pending(c, mainQueue')
    BY <1>1, PendingTail
  <1> QED  BY <1>1, <1>2 DEF Waiting, Answered

LEMMA NothingWaits ==
    ASSUME mainQueue = <<>>, NEW do, NEW e
    PROVE  ~Waiting(do, mainQueue) /\ ~Answered(e, mainQueue)
  <1>1. DOMAIN mainQueue = {}
    OBVIOUS
  <1> QED  BY <1>1, Zenon DEF Waiting, Answered, Pending

\* When nothing is being painted, nothing will be.
LEMMA NotPainting ==
    ASSUME TypeOK, loaded, ~Painting
    PROVE  ~Waiting("notify", mainQueue) /\ \A e \in Email : ~Reading(e)
  <1>1. ~\E i \in DOMAIN mainQueue : mainQueue[i].do \in {"notify", "document"}
    BY DEF Painting
  <1>2. \A b : Pending(b, mainQueue) => b.do # "notify" /\ b.do # "document"
    BY <1>1 DEF Pending
  <1>3. \A e \in Email : ~(reads[e] > 0)
    BY DEF Painting
  <1> QED  BY <1>2, <1>3 DEF Waiting, Answered, Reading

\* Steps that change neither the user nor the page, and keep what it waits for
LEMMA PageStays ==
    ASSUME PageFollows,
           UNCHANGED <<currentUser, loaded, previousUserID, signup, shown, raced>>,
           Waiting("notify", mainQueue') <=> Waiting("notify", mainQueue),
           Waiting("first", mainQueue') <=> Waiting("first", mainQueue),
           \A e \in Email : Reading(e)' <=> Reading(e),
           currentUser \in User
    PROVE  PageFollows'
  <1>1. currentUser # Nobody => currentUser \in Email
    BY DEF User
  <1>2. BeforePage'
    BY DEF PageFollows, BeforePage
  <1>3. ASSUME loaded', ~raced' PROVE Heard' /\ ReadsPresent' /\ Painted'
    <2>1. Heard /\ ReadsPresent /\ Painted
      BY <1>3 DEF PageFollows
    <2>2. Heard'
      BY <2>1 DEF Heard
    <2>3. ReadsPresent'
      BY <2>1 DEF ReadsPresent
    <2>4. Painted'
      BY <1>1, <2>1 DEF Painted
    <2> QED  BY <2>2, <2>3, <2>4
  <1> QED  BY <1>2, <1>3 DEF PageFollows

\* A change of the user while the page is quiet: the listener will be called.
LEMMA UserChanges ==
    ASSUME TypeOK, PageFollows, NEW u \in User, NEW callbacks, ChangeUser(u, callbacks),
           \/ callbacks = <<>>
           \/ \E b \in Block : b.do \in {"registered", "signedIn"} /\ callbacks = <<b>>,
           UNCHANGED <<reads, loaded, previousUserID>>,
           \/ UNCHANGED <<signup, shown>>
           \/ u = Nobody /\ signup' = FALSE /\ shown' = "invitation"
    PROVE  PageFollows'
  <1>1. Notify(u) \in Block /\ Notify(u).do = "notify" /\ mainQueue \in Seq(Block)
    BY DEF Notify, Block, TypeOK
  <1> DEFINE q == Append(mainQueue, Notify(u))
  <1>2. q \in Seq(Block)
    BY <1>1, AppendProperties
  <1>3. mainQueue' = q \/ \E b \in Block : b.do \in {"registered", "signedIn"}
                                          /\ mainQueue' = Append(q, b)
    <2>1. mainQueue' = q \o callbacks
      <3>1. mainQueue \o <<Notify(u)>> = q
        BY <1>1, AppendIsConcat
      <3> QED  BY <3>1 DEF ChangeUser
    <2>2. CASE callbacks = <<>>
      BY <1>2, <2>1, <2>2, ConcatEmptySeq
    <2>3. ASSUME NEW b \in Block, b.do \in {"registered", "signedIn"}, callbacks = <<b>>
          PROVE  mainQueue' = Append(q, b)
      BY <1>2, <2>1, <2>3, AppendIsConcat
    <2> QED  BY <2>2, <2>3
  <1>4. /\ Waiting("notify", q)
        /\ Waiting("first", q) <=> Waiting("first", mainQueue)
        /\ \A e : Answered(e, q) <=> Answered(e, mainQueue)
    BY <1>1, WaitingAppend
  <1>5. /\ Waiting("notify", mainQueue')
        /\ Waiting("first", mainQueue') <=> Waiting("first", mainQueue)
        /\ \A e : Answered(e, mainQueue') <=> Answered(e, mainQueue)
    <2>1. CASE mainQueue' = q
      BY <1>4, <2>1
    <2>2. ASSUME NEW b \in Block, b.do \in {"registered", "signedIn"},
                 mainQueue' = Append(q, b)
          PROVE  /\ Waiting("notify", mainQueue')
                 /\ Waiting("first", mainQueue') <=> Waiting("first", mainQueue)
                 /\ \A e : Answered(e, mainQueue') <=> Answered(e, mainQueue)
      <3>1. /\ Waiting("notify", Append(q, b)) <=> Waiting("notify", q)
            /\ Waiting("first", Append(q, b)) <=> Waiting("first", q)
            /\ \A e : Answered(e, Append(q, b)) <=> Answered(e, q)
        <4> HIDE DEF q
        <4> QED  BY <1>2, <2>2, WaitingAppend
      <3> QED  BY <1>4, <2>2, <3>1
    <2> QED  BY <1>3, <2>1, <2>2
  <1>6. \A e \in Email : Reading(e)' <=> Reading(e)
    BY <1>5 DEF Reading, Answered, Pending
  <1>7. BeforePage'
    BY <1>5, <1>6 DEF PageFollows, BeforePage
  <1>8. ASSUME loaded', ~raced' PROVE Heard' /\ ReadsPresent' /\ Painted'
    <2>1. loaded /\ ~raced /\ ~Painting /\ currentUser' = u
      BY <1>8 DEF ChangeUser
    <2>2. ~Waiting("notify", mainQueue) /\ \A e \in Email : ~Reading(e)
      BY <2>1, NotPainting
    <2>3. Heard /\ Painted
      BY <2>1 DEF PageFollows
    <2>4. Heard'
      BY <1>5 DEF Heard, Waiting, Pending
    <2>5. ReadsPresent'
      BY <1>6, <2>2 DEF ReadsPresent
    <2>6. ASSUME previousUserID = u
          PROVE  /\ signup' <=> u # Nobody
                 /\ IF u = Nobody THEN shown' = "invitation" ELSE shown' \in {u, "error"}
      <3>1. previousUserID # Unset
        BY <2>6, AccountAssumption DEF User
      <3>2. currentUser = u
        BY <2>2, <2>3, <2>6, <3>1 DEF Heard
      <3>3. u = Nobody \/ ~Reading(u)
        BY <2>2 DEF User
      <3> QED  BY <2>3, <2>6, <3>2, <3>3 DEF Painted
    <2>7. Painted'
      BY <2>1, <2>6 DEF Painted
    <2> QED  BY <2>4, <2>5, <2>7
  <1> QED  BY <1>7, <1>8 DEF PageFollows

\* The listener is called: it has heard of the present user.
LEMMA TellFollows ==
    ASSUME TypeOK, PageFollows, loaded, Tell, UNCHANGED <<currentUser, loaded, raced>>,
           \A e : Answered(e, mainQueue') <=> Answered(e, mainQueue)
    PROVE  PageFollows'
  <1>1. currentUser # Nobody => currentUser \in Email
    BY DEF TypeOK, User
  <1>2. previousUserID' = currentUser'
    BY DEF Tell
  <1>3. /\ reads \in [Email -> Nat]
        /\ \/ UNCHANGED reads
           \/ currentUser \in Email /\ reads' = [reads EXCEPT ![currentUser] = @ + 1]
    BY <1>1 DEF Tell, SetSignup, TypeOK
  <1>4. \A e \in Email : e # currentUser => (Reading(e)' <=> Reading(e))
    <2>1. \A e \in Email : e # currentUser => reads'[e] = reads[e]
      BY <1>3
    <2> QED  BY <2>1 DEF Reading, Answered, Pending
  <1>5. ASSUME ~raced' PROVE ReadsPresent' /\ Painted'
    <2>1. ReadsPresent /\ Painted
      BY <1>5 DEF PageFollows
    <2>2. ReadsPresent'
      BY <1>4, <2>1 DEF ReadsPresent
    <2>3. CASE previousUserID = currentUser
      <3>1. UNCHANGED <<signup, shown, reads>>
        BY <2>3 DEF Tell
      <3>2. \A e : Reading(e)' <=> Reading(e)
        BY <3>1 DEF Reading, Answered, Pending
      <3> QED  BY <2>1, <2>2, <2>3, <3>1, <3>2 DEF Painted
    <2>4. CASE previousUserID # currentUser
      <3>1. SetSignup
        BY <2>4 DEF Tell
      <3>2. signup' <=> currentUser' # Nobody
        BY <3>1 DEF SetSignup
      <3>3. currentUser' = Nobody => shown' = "invitation"
        BY <3>1 DEF SetSignup
      <3>4. currentUser' # Nobody => Reading(currentUser)'
        <4>1. currentUser # Nobody => reads'[currentUser] > 0
          BY <1>1, <1>3, <3>1 DEF SetSignup
        <4> QED  BY <4>1 DEF Reading
      <3> QED  BY <2>2, <3>2, <3>3, <3>4 DEF Painted
    <2> QED  BY <2>3, <2>4
  <1>6. Heard'
    BY <1>2 DEF Heard
  <1> QED  BY <1>5, <1>6 DEF PageFollows, BeforePage

\* The answer about a document arrives: without a race, the present user's.
LEMMA DocumentFollows ==
    ASSUME TypeOK, PageFollows, HandleDocument
    PROVE  PageFollows'
  <1> DEFINE h == Head(mainQueue).email
  <1>1. /\ NextBlock("document") /\ Done /\ h \in Email
        /\ shown' = h \/ shown' = "error"
        /\ UNCHANGED <<currentUser, reads, loaded, previousUserID, signup, raced>>
    BY BlockTaken, BlockFields DEF HandleDocument, pageVars
  <1>2. /\ Waiting("notify", mainQueue) <=> Waiting("notify", mainQueue')
        /\ Waiting("first", mainQueue) <=> Waiting("first", mainQueue')
        /\ \A e : Answered(e, mainQueue) <=> Answered(e, mainQueue') \/ h = e
    BY <1>1, WaitingDone
  <1>3. /\ Reading(h)
        /\ \A e \in Email : Reading(e)' => Reading(e)
    BY <1>1, <1>2 DEF Reading, Answered, Pending
  <1>4. loaded
    BY <1>1, <1>3 DEF PageFollows, BeforePage
  <1>5. ASSUME ~raced' PROVE Heard' /\ ReadsPresent' /\ Painted'
    <2>1. Heard /\ ReadsPresent /\ Painted
      BY <1>1, <1>4, <1>5 DEF PageFollows
    <2>2. h = currentUser /\ h # Nobody
      BY <1>1, <1>3, <2>1, AccountAssumption DEF ReadsPresent
    <2>3. Heard'
      <3>1. previousUserID # currentUser =>
                \/ Waiting("notify", mainQueue')
                \/ previousUserID = Unset /\ Waiting("first", mainQueue')
        BY <1>2, <2>1 DEF Heard
      <3> QED  BY <1>1, <3>1 DEF Heard, Waiting, Pending
    <2>4. ReadsPresent'
      BY <1>1, <1>3, <2>1 DEF ReadsPresent
    <2>5. Painted'
      BY <1>1, <2>1, <2>2 DEF Painted
    <2> QED  BY <2>3, <2>4, <2>5
  <1> QED  BY <1>1, <1>4, <1>5 DEF PageFollows, BeforePage

\* Firestore answers a read: the block waits where the read did.
LEMMA AnswerFollows ==
    ASSUME TypeOK, PageFollows, NEW e \in Email, AnswerDocument(e)
    PROVE  PageFollows'
  <1>1. PICK exists \in BOOLEAN :
          mainQueue' = Append(mainQueue, [do |-> "document", email |-> e, exists |-> exists])
    BY DEF AnswerDocument
  <1> DEFINE b == [do |-> "document", email |-> e, exists |-> exists]
  <1>2. /\ b \in Block /\ b.do = "document" /\ b.email = e
        /\ mainQueue \in Seq(Block) /\ mainQueue' = Append(mainQueue, b)
    BY <1>1 DEF Block, TypeOK
  <1>3. /\ Waiting("notify", mainQueue') <=> Waiting("notify", mainQueue)
        /\ Waiting("first", mainQueue') <=> Waiting("first", mainQueue)
        /\ \A f : Answered(f, mainQueue') <=> Answered(f, mainQueue) \/ e = f
    BY <1>2, WaitingAppend
  <1>4. \A f \in Email : Reading(f)' <=> Reading(f)
    <2>1. /\ reads[e] > 0
          /\ \A f \in Email : f # e => reads'[f] = reads[f]
      BY DEF AnswerDocument, TypeOK
    <2>2. \A f \in Email : Reading(f)' <=> reads'[f] > 0 \/ Answered(f, mainQueue')
      BY DEF Reading, Answered, Pending
    <2>3. ASSUME NEW f \in Email, f # e PROVE Reading(f)' <=> Reading(f)
      BY <1>3, <2>1, <2>2, <2>3 DEF Reading
    <2>4. Reading(e)' /\ Reading(e)
      BY <1>3, <2>1, <2>2 DEF Reading
    <2> QED  BY <2>3, <2>4
  <1>5. currentUser \in User
    BY DEF TypeOK
  <1> QED  BY <1>3, <1>4, <1>5, PageStays DEF AnswerDocument, pageVars

LEMMA PageInit == Init => PageFollows
  <1> SUFFICES ASSUME Init PROVE PageFollows
    OBVIOUS
  <1>1. mainQueue = <<>> /\ loaded = FALSE /\ previousUserID = Unset
    BY DEF Init
  <1>2. \A e \in Email : ~(reads[e] > 0)
    <2>1. \A e \in Email : reads[e] = 0
      BY DEF Init
    <2>2. ~(0 > 0)
      OBVIOUS
    <2> QED  BY <2>1, <2>2, Zenon
  <1>3. ~Waiting("first", mainQueue) /\ \A e : ~Answered(e, mainQueue)
    BY <1>1, NothingWaits
  <1> QED  BY <1>1, <1>2, <1>3 DEF PageFollows, BeforePage, Reading

LEMMA PageNext == TypeOK /\ PageFollows /\ [Next]_vars => PageFollows'
  <1> SUFFICES ASSUME TypeOK, PageFollows, [Next]_vars PROVE PageFollows'
    OBVIOUS
  <1> USE DEF cloudVars, writeVars, pageVars, sheetVars, bounds
  <1>0. currentUser \in User
    BY DEF TypeOK
  <1>1. CASE ViewDidLoad
    <2> DEFINE b == [do |-> "first"]
    <2>1. b \in Block /\ b.do = "first" /\ mainQueue \in Seq(Block)
      BY DEF Block, TypeOK
    <2>2. /\ Waiting("first", mainQueue')
          /\ \A e : Answered(e, mainQueue') <=> Answered(e, mainQueue)
      BY <1>1, <2>1, WaitingAppend DEF ViewDidLoad
    <2>3. previousUserID' = Unset /\ loaded' /\ \A e \in Email : ~Reading(e)'
      <3>1. \A e \in Email : Reading(e)' <=> Reading(e)
        BY <1>1, <2>2 DEF ViewDidLoad, Reading, Answered, Pending
      <3> QED  BY <1>1, <3>1 DEF ViewDidLoad, PageFollows, BeforePage
    <2>4. previousUserID' # currentUser'
      BY <1>0, <1>1, <2>3, AccountAssumption DEF ViewDidLoad, User
    <2>5. Heard'
      BY <2>2, <2>3 DEF Heard, Waiting, Pending
    <2> QED  BY <2>3, <2>4, <2>5 DEF PageFollows, BeforePage, ReadsPresent, Painted
  <1>2. CASE SignOut
    <2>1. CASE currentUser = Nobody
      <3>1. /\ signup' = FALSE /\ shown' = "invitation" /\ loaded /\ loaded'
            /\ UNCHANGED <<currentUser, mainQueue, raced, reads, previousUserID>>
        BY <1>2, <2>1 DEF SignOut
      <3>2. /\ Heard' <=> Heard
            /\ ReadsPresent' <=> ReadsPresent
        BY <3>1 DEF Heard, ReadsPresent, Reading, Answered, Waiting, Pending
      <3>3. Painted'
        BY <2>1, <3>1 DEF Painted
      <3> QED  BY <3>1, <3>2, <3>3 DEF PageFollows, BeforePage
    <2>2. CASE currentUser # Nobody
      <3>1. /\ ChangeUser(Nobody, <<>>) /\ signup' = FALSE /\ shown' = "invitation"
            /\ UNCHANGED <<reads, loaded, previousUserID>> /\ Nobody \in User
        BY <1>2, <2>2 DEF SignOut, User
      <3> QED  BY <3>1, UserChanges
    <2> QED  BY <2>1, <2>2
  <1>3. CASE CreateUser
    <2>1. PICK r \in requests :
            ChangeUser(r.email, <<[do |-> "registered", email |-> r.email, sheet |-> r.sheet]>>)
      BY <1>3 DEF CreateUser
    <2> DEFINE b == [do |-> "registered", email |-> r.email, sheet |-> r.sheet]
    <2>2. r.email \in User /\ b \in Block /\ b.do \in {"registered", "signedIn"}
      BY DEF TypeOK, Request, User, Block
    <2>3. UNCHANGED <<reads, loaded, previousUserID, signup, shown>>
      BY <1>3 DEF CreateUser
    <2> QED  BY <2>1, <2>2, <2>3, UserChanges
  <1>4. CASE SignIn
    <2>1. PICK r \in requests :
            ChangeUser(r.email, <<[do |-> "signedIn", email |-> r.email, sheet |-> r.sheet]>>)
      BY <1>4 DEF SignIn
    <2> DEFINE b == [do |-> "signedIn", email |-> r.email, sheet |-> r.sheet]
    <2>2. r.email \in User /\ b \in Block /\ b.do \in {"registered", "signedIn"}
      BY DEF TypeOK, Request, User, Block
    <2>3. UNCHANGED <<reads, loaded, previousUserID, signup, shown>>
      BY <1>4 DEF SignIn
    <2> QED  BY <2>1, <2>2, <2>3, UserChanges
  <1>5. CASE HandleFirst
    <2>1. /\ NextBlock("first") /\ Done /\ Tell
          /\ UNCHANGED <<currentUser, loaded, raced>>
      BY <1>5 DEF HandleFirst
    <2>2. /\ Waiting("first", mainQueue)
          /\ \A e : Answered(e, mainQueue') <=> Answered(e, mainQueue)
      BY <2>1, WaitingDone
    <2>3. loaded
      BY <2>2 DEF PageFollows, BeforePage
    <2> QED  BY <2>1, <2>2, <2>3, TellFollows
  <1>6. CASE HandleNotification
    <2>1. /\ NextBlock("notify") /\ Done
          /\ IF loaded THEN Tell ELSE UNCHANGED <<previousUserID, signup, shown, reads>>
          /\ UNCHANGED <<currentUser, loaded, raced>>
      BY <1>6 DEF HandleNotification
    <2>2. /\ Waiting("first", mainQueue') <=> Waiting("first", mainQueue)
          /\ \A e : Answered(e, mainQueue') <=> Answered(e, mainQueue)
      BY <2>1, WaitingDone
    <2>3. CASE loaded
      BY <2>1, <2>2, <2>3, TellFollows
    <2>4. CASE ~loaded
      <3>1. ~Waiting("first", mainQueue)'
        BY <2>2, <2>4 DEF PageFollows, BeforePage, Waiting, Pending
      <3>2. \A e \in Email : Reading(e)' <=> Reading(e)
        BY <2>1, <2>2, <2>4 DEF Reading, Answered, Pending
      <3> QED  BY <2>1, <2>4, <3>1, <3>2 DEF PageFollows, BeforePage
    <2> QED  BY <2>3, <2>4
  <1>7. CASE HandleDocument
    BY <1>7, DocumentFollows
  <1>8. CASE HandleSignedIn \/ HandleRegistered
    <2>1. PICK do \in {"signedIn", "registered"} : NextBlock(do) /\ Done
      BY <1>8 DEF HandleSignedIn, HandleRegistered
    <2>2. /\ Waiting("notify", mainQueue') <=> Waiting("notify", mainQueue)
          /\ Waiting("first", mainQueue') <=> Waiting("first", mainQueue)
          /\ \A e : Answered(e, mainQueue') <=> Answered(e, mainQueue)
      BY <2>1, WaitingDone
    <2>3. UNCHANGED <<currentUser, loaded, previousUserID, signup, shown, raced, reads>>
      BY <1>8 DEF HandleSignedIn, HandleRegistered
    <2>4. \A e \in Email : Reading(e)' <=> Reading(e)
      BY <2>2, <2>3 DEF Reading, Answered, Pending
    <2> QED  BY <1>0, <2>2, <2>3, <2>4, PageStays
  <1>9. ASSUME NEW e \in Email, AnswerDocument(e) PROVE PageFollows'
    BY <1>9, AnswerFollows
  <1>10. CASE Kill
    <2>1. loaded' = FALSE /\ previousUserID' = Unset /\ mainQueue' = <<>>
      BY <1>10 DEF Kill
    <2>2. \A e \in Email : ~(reads'[e] > 0)
      BY <1>10 DEF Kill
    <2>3. DOMAIN mainQueue' = {}
      BY <2>1
    <2>4. /\ ~Waiting("first", mainQueue)'
          /\ \A e : ~Answered(e, mainQueue)'
      BY <2>3, Zenon DEF Waiting, Answered, Pending
    <2> QED  BY <2>1, <2>2, <2>4 DEF PageFollows, BeforePage, Reading
  <1>11. CASE UNCHANGED <<currentUser, reads, mainQueue, loaded, previousUserID, signup,
                         shown, raced>>
    BY <1>0, <1>11, PageStays DEF Reading, Answered, Waiting, Pending
  <1>12. \/ UNCHANGED <<currentUser, reads, mainQueue, loaded, previousUserID, signup,
                       shown, raced>>
         \/ ViewDidLoad \/ SignOut \/ CreateUser \/ SignIn \/ HandleFirst
         \/ HandleNotification \/ HandleDocument \/ HandleSignedIn \/ HandleRegistered
         \/ Kill \/ \E e \in Email : AnswerDocument(e)
    BY DEF Next, HandleBlock, vars, PresentSheet, ToggleSingup, Return, Alert, CloseTop,
           RequestFails, ResponseLost, Promote, CommitNext, HandleSuccessfulWrite,
           HandleRejectedWrite, OnWriteStreamClose
  <1> QED  BY <1>1, <1>2, <1>3, <1>4, <1>5, <1>6, <1>7, <1>8, <1>9, <1>10, <1>11, <1>12

LEMMA PageSettled ==
    ASSUME TypeOK, PageFollows
    PROVE  PageAgreesUnlessRaced
  <1> SUFFICES ASSUME Settled, ~raced PROVE PageAgrees
    BY DEF PageAgreesUnlessRaced
  <1>1. loaded /\ mainQueue = <<>> /\ \A e \in Email : reads[e] = 0
    BY DEF Settled
  <1>2. /\ ~Waiting("notify", mainQueue) /\ ~Waiting("first", mainQueue)
        /\ \A e : ~Answered(e, mainQueue)
    BY <1>1, NothingWaits
  <1>3. Heard /\ Painted
    BY <1>1 DEF PageFollows
  <1>4. previousUserID = currentUser
    BY <1>2, <1>3 DEF Heard
  <1>5. currentUser # Nobody => ~Reading(currentUser)
    BY <1>1, <1>2 DEF Reading, TypeOK, User
  <1> QED  BY <1>3, <1>4, <1>5 DEF Painted, PageAgrees

(***************************************************************************)
(* When nothing is left to be painted, the profile page and its flag agree *)
(* with Auth, unless the user changed again before the page had caught up: *)
(* the listener asks for the present user, not the one of the notification *)
(* (ProfileViewController.swift:28).                                       *)
(***************************************************************************)
THEOREM PageAgreesCorrect == Spec => []PageAgreesUnlessRaced
  BY AccountTypeInit, AccountTypeNext, PageInit, PageNext, PageSettled, PTL DEF Spec
================================================================================
