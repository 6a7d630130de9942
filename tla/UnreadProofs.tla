---------------------------- MODULE UnreadProofs ----------------------------
(***************************************************************************)
(* Theorems about Unread, for any members, messages and requests of every  *)
(* kind, any number of attempts and any failures.  The invariant that      *)
(* carries CountIsExact is IInv of Unread.                                 *)
(***************************************************************************)
EXTENDS Unread, FiniteSetTheorems, TLAPS

(* A request is of one kind. *)
LEMMA Kinds ==
    /\ Messages \subseteq Requests /\ Reads \subseteq Requests
    /\ Recalls \subseteq Requests /\ Patches \subseteq Requests
    /\ \A r \in Messages : r \notin Reads /\ r \notin Recalls /\ r \notin Patches
    /\ \A r \in Reads : r \notin Recalls /\ r \notin Patches /\ r \notin Messages
    /\ \A r \in Recalls : r \notin Patches /\ r \notin Messages /\ r \notin Reads
    /\ \A r \in Patches : r \notin Messages /\ r \notin Reads /\ r \notin Recalls
    /\ NoRequest \notin Requests
  BY RequestsAssumption DEF Requests

(* The sets that are counted are finite. *)
LEMMA Finite ==
    ASSUME NEW u \in Members
    PROVE  /\ IsFiniteSet(Unseen(u)) /\ IsFiniteSet(Owing(u))
           /\ Cardinality(Unseen(u)) \in Nat /\ Cardinality(Owing(u)) \in Nat
           /\ \A S : IsFiniteSet(Unseen(u) \ S) /\ Cardinality(Unseen(u) \ S) \in Nat
  <1>1. Unseen(u) \subseteq Messages /\ Owing(u) \subseteq Patches
    BY DEF Unseen, Owing
  <1>2. IsFiniteSet(Unseen(u)) /\ IsFiniteSet(Owing(u))
    BY <1>1, FS_Subset, FiniteAssumption
  <1>3. \A S : IsFiniteSet(Unseen(u) \ S)
    BY <1>1, FS_Subset, FiniteAssumption
  <1> QED
    BY <1>2, <1>3, FS_CardinalityType

(* The conditions of the COUNT select what the counter stands for. *)
LEMMA CountedIsUnseen ==
    ASSUME TypeOK, NEW u \in Members PROVE CountedFor(u) = Unseen(u)
  BY DEF TypeOK, CountedFor, Unseen

(* Who holds which lock after a request has ended. *)
LEMMA Released ==
    ASSUME TypeOK, NEW r \in Requests, Release(r)
    PROVE  /\ lock' \in [Members -> Requests \cup {NoRequest}]
           /\ \A u \in Members : lock'[u] # r
           /\ \A q \in Requests \ {r}, u \in Members : lock'[u] = q <=> lock[u] = q
  BY Kinds DEF Release, TypeOK

LEMMA InitIInv == Init => IInv
  <1> SUFFICES ASSUME Init PROVE IInv
    OBVIOUS
  <1>1. TypeOK
    BY AttemptsAssumption DEF Init, TypeOK
  <1>2. LocksAreHeld
    BY Kinds DEF Init, LocksAreHeld
  <1>3. AbsentMeansNothing
    BY Kinds, AboutAssumption DEF Init, AbsentMeansNothing
  <1>4. AttemptsAreLeft /\ MarksAreDelivered
    BY AttemptsAssumption DEF Init, AttemptsAreLeft, MarksAreDelivered
  <1>5. TargetsArePresent /\ NumbersAreCounted
    BY Kinds DEF Init, TargetsArePresent, NumbersAreCounted
  <1>6. CountIsExact
    <2> SUFFICES ASSUME NEW u \in Members
                 PROVE  unread[u] + Cardinality(Owing(u)) = Cardinality(Unseen(u))
      BY DEF CountIsExact
    <2>1. Owing(u) = {} /\ Unseen(u) = {}
      BY Kinds DEF Init, Owing, Unseen
    <2> QED
      BY <2>1, FS_EmptySet DEF Init
  <1> QED
    BY <1>1, <1>2, <1>3, <1>4, <1>5, <1>6 DEF IInv

(***************************************************************************)
(* Types.                                                                  *)
(***************************************************************************)
LEMMA TypeStep == IInv /\ Next => TypeOK'
  <1> SUFFICES ASSUME IInv, Next PROVE TypeOK'
    OBVIOUS
  <1> USE DEF IInv
  <1> USE Kinds, AboutAssumption
  <1>1. ASSUME NEW r \in Requests, NEW u \in Members, LockRow(r, u) PROVE TypeOK'
    BY <1>1 DEF LockRow, TypeOK, data
  <1>2. ASSUME NEW m \in Messages, persist(m) PROVE TypeOK'
    BY <1>2 DEF persist, TypeOK, data, Others
  <1>3. ASSUME NEW m \in Messages, CommitMessage(m) PROVE TypeOK'
    <2>1. Delivered(m) \in [Members -> {"none", "unread", "read"}]
      BY DEF Delivered
    <2>2. unread' \in [Members -> Nat]
      BY <1>3 DEF CommitMessage, Incremented, TypeOK
    <2>3. lock' \in [Members -> Requests \cup {NoRequest}]
      BY <1>3, Released DEF CommitMessage, End
    <2> QED
      BY <1>3, <2>1, <2>2, <2>3 DEF CommitMessage, End, TypeOK
  <1>4. ASSUME NEW m \in Messages, Unhidden(m) PROVE TypeOK'
    BY <1>4, Released DEF Unhidden, End, TypeOK, data, work
  <1>5. ASSUME NEW r \in Reads, NEW ids \in SUBSET Messages, MarkDeliveries(r, ids)
        PROVE  TypeOK'
    BY <1>5 DEF MarkDeliveries, TypeOK, data
  <1>6. ASSUME NEW r \in Reads, CountUnread(r) PROVE TypeOK'
    <2> DEFINE u == Reader[r]
    <2>1. u \in Members
      OBVIOUS
    <2>2. Cardinality(CountedFor(u) \ marks[r]) \in Nat /\ Unseen(u) \in SUBSET Messages
      BY <2>1, Finite, CountedIsUnseen DEF Unseen
    <2> QED
      BY <1>6, <2>1, <2>2 DEF CountUnread, TypeOK, data
  <1>7. ASSUME NEW r \in Reads, CommitRead(r) PROVE TypeOK'
    <2>1. lock' \in [Members -> Requests \cup {NoRequest}]
      BY <1>7, Released DEF CommitRead, End
    <2>2. delivery' \in [Messages -> [Members -> {"none", "unread", "read"}]]
      BY <1>7 DEF CommitRead, TypeOK
    <2>3. StillRight(r, Reader[r]) \in BOOLEAN
      BY DEF StillRight
    <2>4. exact' \in [Members -> BOOLEAN]
      BY <1>7, <2>3 DEF CommitRead, TypeOK
    <2>5. unread' \in [Members -> Nat]
      BY <1>7 DEF CommitRead, TypeOK
    <2>6. pc' = [pc EXCEPT ![r] = "done"]
      BY <1>7 DEF CommitRead, End
    <2>7. UNCHANGED <<message, hidden, rows, attempts, marks, count, base>>
      BY <1>7 DEF CommitRead, work
    <2> QED
      BY <2>1, <2>2, <2>4, <2>5, <2>6, <2>7 DEF TypeOK
  <1>8. ASSUME NEW c \in Recalls, Recall(c) PROVE TypeOK'
    <2>1. \A u \in Members : /\ Cardinality(CountedFor(u) \ {Recalled[c]}) \in Nat
                             /\ Unseen(u) \in SUBSET Messages
      BY Finite, CountedIsUnseen DEF Unseen
    <2> QED
      BY <1>8, <2>1 DEF Recall, TypeOK, data
  <1>9. ASSUME NEW c \in Recalls, CommitRecall(c) PROVE TypeOK'
    <2>1. lock' \in [Members -> Requests \cup {NoRequest}]
      BY <1>9, Released DEF CommitRecall, End
    <2>2. \A u \in Members : StillRight(c, u) \in BOOLEAN
      BY DEF StillRight
    <2> QED
      BY <1>9, <2>1, <2>2 DEF CommitRecall, End, TypeOK, work
  <1>10. ASSUME NEW batch \in SUBSET Messages, NEW u \in Members, Hide(batch, u) PROVE TypeOK'
    BY <1>10 DEF Hide, HideForUsers, TypeOK, work
  <1>11. ASSUME NEW p \in Patches, GetContent(p) PROVE TypeOK'
    BY <1>11 DEF GetContent, TypeOK, data, work
  <1>12. ASSUME NEW p \in Patches, UpdateContent(p) PROVE TypeOK'
    BY <1>12 DEF UpdateContent, TypeOK, PatchKeeps, Others
  <1>13. ASSUME NEW p \in Patches, NotFound(p) PROVE TypeOK'
    BY <1>13, Released DEF NotFound, End, TypeOK, data, work
  <1>14. ASSUME NEW p \in Patches, CommitIncr(p) PROVE TypeOK'
    <2>1. unread' \in [Members -> Nat]
      BY <1>14 DEF CommitIncr, Incremented, TypeOK
    <2> QED
      BY <1>14, <2>1, Released DEF CommitIncr, End, TypeOK, data, work
  <1>15. ASSUME NEW r \in Requests, Victim(r) \/ Fail(r) PROVE TypeOK'
    <2>1. PICK how \in {"retry", "done", "failed"} : Abort(r, how)
      BY <1>15 DEF Victim, Fail, Broken
    <2>2. attempts' \in [Messages -> 0 .. MaxAttempts]
      BY <1>15, AttemptsAssumption DEF Victim, Fail, TypeOK, AttemptsAreLeft
    <2>3. lock' \in [Members -> Requests \cup {NoRequest}]
      BY <2>1, Released DEF Abort, End
    <2> QED
      BY <2>1, <2>2, <2>3 DEF Abort, End, TypeOK, data, Lost
  <1> QED
    BY <1>1, <1>2, <1>3, <1>4, <1>5, <1>6, <1>7, <1>8, <1>9, <1>10, <1>11, <1>12,
       <1>13, <1>14, <1>15
    DEF Next, Send, Read, Delete, Patch, MarkRead, MarkMessagesRead,
        ListUnreadMessageIDsByConv, TypeOK

(***************************************************************************)
(* Locks.                                                                  *)
(***************************************************************************)
Waiting == {"locking", "unhiding"}

(* A request that has ended, or not begun its UPDATE, leaves the others'     *)
(* locks and rows alone.                                                     *)
LEMMA EndedLocks ==
    ASSUME TypeOK, LocksAreHeld, NEW r \in Requests,
           NEW how \in {"retry", "done", "failed"}, End(r, how),
           rows' = [rows EXCEPT ![r] = {}]
    PROVE  LocksAreHeld'
  <1> SUFFICES ASSUME NEW q \in Requests
               PROVE  IF pc'[q] \in Waiting
                      THEN /\ rows'[q] = {u \in Wanted(q)' : lock'[u] # q}
                           /\ \A u \in Members : lock'[u] = q => u \in Wanted(q)'
                      ELSE /\ rows'[q] = {}
                           /\ \A u \in Members : lock'[u] # q
    BY DEF LocksAreHeld, Waiting
  <1>1. /\ \A u \in Members : lock'[u] # r
        /\ q # r => \A u \in Members : lock'[u] = q <=> lock[u] = q
    BY Released DEF End
  <1>2. CASE q = r
    BY <1>1, <1>2 DEF End, TypeOK, Waiting
  <1>3. CASE q # r
    <2>1. pc'[q] = pc[q] /\ rows'[q] = rows[q]
      BY <1>3 DEF End, TypeOK
    <2>2. Wanted(q)' = Wanted(q)
      BY <2>1 DEF Wanted
    <2>3. Wanted(q) \subseteq Members
      BY AboutAssumption DEF Wanted, Others, Requests
    <2> QED
      BY <1>1, <1>3, <2>1, <2>2, <2>3 DEF LocksAreHeld, Waiting
  <1> QED
    BY <1>2, <1>3

(* A request that enters its UPDATE has its rows still to lock.              *)
LEMMA BegunLocks ==
    ASSUME TypeOK, LocksAreHeld, NEW r \in Requests, NEW where \in Waiting,
           pc[r] \notin Waiting \/ Release(r), pc[r] \in Waiting \/ lock' = lock,
           pc' = [pc EXCEPT ![r] = where], rows' = [rows EXCEPT ![r] = Wanted(r)']
    PROVE  LocksAreHeld'
  <1> SUFFICES ASSUME NEW q \in Requests
               PROVE  IF pc'[q] \in Waiting
                      THEN /\ rows'[q] = {u \in Wanted(q)' : lock'[u] # q}
                           /\ \A u \in Members : lock'[u] = q => u \in Wanted(q)'
                      ELSE /\ rows'[q] = {}
                           /\ \A u \in Members : lock'[u] # q
    BY DEF LocksAreHeld, Waiting
  <1>w. Wanted(q)' \subseteq Members
    BY AboutAssumption DEF Wanted, Others, Requests
  <1>1. /\ \A u \in Members : lock'[u] # r
        /\ q # r => \A u \in Members : lock'[u] = q <=> lock[u] = q
    <2>1. CASE pc[r] \in Waiting
      BY <2>1, Released
    <2>2. CASE pc[r] \notin Waiting
      BY <2>2 DEF LocksAreHeld, Waiting
    <2> QED
      BY <2>1, <2>2
  <1>2. CASE q = r
    <2>1. pc'[r] \in Waiting /\ rows'[r] = Wanted(r)'
      BY DEF TypeOK
    <2> QED
      BY <1>1, <1>2, <1>w, <2>1
  <1>3. CASE q # r
    <2>1. pc'[q] = pc[q] /\ rows'[q] = rows[q]
      BY <1>3 DEF TypeOK
    <2>2. Wanted(q)' = Wanted(q)
      BY <2>1 DEF Wanted
    <2> QED
      BY <1>1, <1>3, <1>w, <2>1, <2>2 DEF LocksAreHeld, Waiting
  <1> QED
    BY <1>2, <1>3

(* A step that leaves the locks and the state of every UPDATE alone.         *)
LEMMA OtherLocks ==
    ASSUME TypeOK, LocksAreHeld, UNCHANGED <<lock, rows>>,
           \A q \in Requests : pc'[q] = pc[q] \/ {pc[q], pc'[q]} \cap Waiting = {}
    PROVE  LocksAreHeld'
  <1>1. \A q \in Requests : pc'[q] = pc[q] => Wanted(q)' = Wanted(q)
    BY DEF Wanted
  <1> SUFFICES ASSUME NEW q \in Requests
               PROVE  IF pc'[q] \in Waiting
                      THEN /\ rows'[q] = {u \in Wanted(q)' : lock'[u] # q}
                           /\ \A u \in Members : lock'[u] = q => u \in Wanted(q)'
                      ELSE /\ rows'[q] = {}
                           /\ \A u \in Members : lock'[u] # q
    BY DEF LocksAreHeld, Waiting
  <1>2. CASE pc'[q] = pc[q]
    BY <1>1, <1>2 DEF LocksAreHeld, Waiting
  <1>3. CASE pc'[q] # pc[q]
    <2>1. pc[q] \notin Waiting /\ pc'[q] \notin Waiting
      BY <1>3
    <2> QED
      BY <2>1 DEF LocksAreHeld, Waiting
  <1> QED
    BY <1>2, <1>3

LEMMA LocksStep == IInv /\ Next => LocksAreHeld'
  <1> SUFFICES ASSUME IInv, Next PROVE LocksAreHeld'
    OBVIOUS
  <1>t. TypeOK /\ LocksAreHeld
    BY DEF IInv
  <1> USE Kinds, AboutAssumption
  <1>1. ASSUME NEW r \in Requests, NEW u \in Members, LockRow(r, u) PROVE LocksAreHeld'
    <2>1. pc[r] \in Waiting /\ rows[r] = {v \in Wanted(r) : lock[v] # r}
      BY <1>t, <1>1 DEF LockRow, LocksAreHeld, Waiting
    <2>2. \A q \in Requests : Wanted(q)' = Wanted(q)
      BY <1>1 DEF LockRow, Wanted
    <2>3. \A q \in Requests \ {r} : /\ rows'[q] = rows[q]
                                    /\ \A v \in Members : lock'[v] = q <=> lock[v] = q
      BY <1>t, <1>1 DEF LockRow, TypeOK
    <2>4. /\ rows'[r] = rows[r] \ {u}
          /\ \A v \in Members : lock'[v] = r <=> (lock[v] = r \/ v = u)
      BY <1>t, <1>1 DEF LockRow, TypeOK
    <2>5. \A q \in Requests : Wanted(q) \subseteq Members
      BY DEF Wanted, Others, Requests
    <2>6. \A q \in Requests : pc'[q] = pc[q]
      BY <1>1 DEF LockRow
    <2>7. u \in Wanted(r)
      BY <1>1, <2>1 DEF LockRow
    <2>8. rows'[r] = {v \in Wanted(r) : lock'[v] # r}
      BY <2>1, <2>4, <2>5
    <2> QED
      BY <1>t, <2>1, <2>2, <2>3, <2>4, <2>5, <2>6, <2>7, <2>8 DEF LocksAreHeld, Waiting
  <1>2. ASSUME NEW m \in Messages, persist(m) PROVE LocksAreHeld'
    <2>1. Wanted(m)' = IF Counts(m) THEN Others(m) ELSE {}
      BY <1>t, <1>2 DEF persist, Wanted, TypeOK
    <2> QED
      BY <1>t, <1>2, <2>1, BegunLocks DEF persist, Waiting
  <1>3. ASSUME NEW m \in Messages, CommitMessage(m) PROVE LocksAreHeld'
    <2>1. Wanted(m)' = Members
      BY <1>t, <1>3 DEF CommitMessage, End, Wanted, TypeOK
    <2> QED
      BY <1>t, <1>3, <2>1, BegunLocks DEF CommitMessage, End, Updated, Waiting
  <1>4. ASSUME NEW m \in Messages, Unhidden(m) PROVE LocksAreHeld'
    <2>1. rows' = [rows EXCEPT ![m] = {}]
      BY <1>t, <1>4 DEF Unhidden, work, TypeOK
    <2> QED
      BY <1>t, <1>4, <2>1, EndedLocks DEF Unhidden
  <1>5. ASSUME NEW r \in Reads, NEW ids \in SUBSET Messages, MarkDeliveries(r, ids)
        PROVE  LocksAreHeld'
    BY <1>t, <1>5, OtherLocks DEF MarkDeliveries, Waiting, TypeOK
  <1>6. ASSUME NEW r \in Reads, CountUnread(r) PROVE LocksAreHeld'
    <2>1. Wanted(r)' = {Reader[r]}
      BY DEF Wanted
    <2> QED
      BY <1>t, <1>6, <2>1, BegunLocks DEF CountUnread, Waiting
  <1>7. ASSUME NEW r \in Reads, CommitRead(r) PROVE LocksAreHeld'
    <2>1. rows' = [rows EXCEPT ![r] = {}]
      BY <1>t, <1>7 DEF CommitRead, Updated, work, TypeOK
    <2> QED
      BY <1>t, <1>7, <2>1, EndedLocks DEF CommitRead
  <1>8. ASSUME NEW c \in Recalls, Recall(c) PROVE LocksAreHeld'
    <2>1. Wanted(c)' = Members
      BY DEF Wanted
    <2> QED
      BY <1>t, <1>8, <2>1, BegunLocks DEF Recall, Waiting
  <1>9. ASSUME NEW c \in Recalls, CommitRecall(c) PROVE LocksAreHeld'
    <2>1. rows' = [rows EXCEPT ![c] = {}]
      BY <1>t, <1>9 DEF CommitRecall, Updated, work, TypeOK
    <2> QED
      BY <1>t, <1>9, <2>1, EndedLocks DEF CommitRecall
  <1>10. ASSUME NEW batch \in SUBSET Messages, NEW u \in Members, Hide(batch, u) PROVE LocksAreHeld'
    BY <1>t, <1>10, OtherLocks DEF Hide, work
  <1>11. ASSUME NEW p \in Patches, GetContent(p) PROVE LocksAreHeld'
    BY <1>t, <1>11, OtherLocks DEF GetContent, work, TypeOK, Waiting
  <1>12. ASSUME NEW p \in Patches, UpdateContent(p) PROVE LocksAreHeld'
    <2>1. Wanted(p)' = Others(Patched[p])
      BY DEF Wanted
    <2> QED
      BY <1>t, <1>12, <2>1, BegunLocks DEF UpdateContent, Waiting
  <1>13. ASSUME NEW p \in Patches, NotFound(p) PROVE LocksAreHeld'
    <2>1. rows' = [rows EXCEPT ![p] = {}]
      BY <1>t, <1>13 DEF NotFound, work, TypeOK, LocksAreHeld
    <2> QED
      BY <1>t, <1>13, <2>1, EndedLocks DEF NotFound
  <1>14. ASSUME NEW p \in Patches, CommitIncr(p) PROVE LocksAreHeld'
    <2>1. rows' = [rows EXCEPT ![p] = {}]
      BY <1>t, <1>14 DEF CommitIncr, Updated, work, TypeOK
    <2> QED
      BY <1>t, <1>14, <2>1, EndedLocks DEF CommitIncr
  <1>15. ASSUME NEW r \in Requests, Victim(r) \/ Fail(r) PROVE LocksAreHeld'
    <2>1. PICK how \in {"retry", "done", "failed"} : Abort(r, how)
      BY <1>15 DEF Victim, Fail, Broken
    <2> QED
      BY <1>t, <2>1, EndedLocks DEF Abort
  <1> QED
    BY <1>t, <1>1, <1>2, <1>3, <1>4, <1>5, <1>6, <1>7, <1>8, <1>9, <1>10, <1>11,
       <1>12, <1>13, <1>14, <1>15
    DEF Next, Send, Read, Delete, Patch, MarkRead, MarkMessagesRead,
        ListUnreadMessageIDsByConv, TypeOK

(***************************************************************************)
(* What is committed, and what the requests have in hand.                  *)
(***************************************************************************)
Books == AbsentMeansNothing /\ MarksAreDelivered /\ AttemptsAreLeft /\ TargetsArePresent

LEMMA BooksStep == IInv /\ Next => Books'
  <1> SUFFICES ASSUME IInv, Next PROVE Books'
    OBVIOUS
  <1>t. TypeOK /\ Books
    BY DEF IInv, Books
  <1> USE Kinds, AboutAssumption DEF Books
  <1>1. ASSUME NEW r \in Requests, NEW u \in Members, LockRow(r, u) PROVE Books'
    BY <1>t, <1>1
    DEF LockRow, data, AbsentMeansNothing, MarksAreDelivered, AttemptsAreLeft,
        TargetsArePresent
  <1>2. ASSUME NEW m \in Messages, persist(m) PROVE Books'
    BY <1>t, <1>2
    DEF persist, data, TypeOK, AbsentMeansNothing, MarksAreDelivered,
        AttemptsAreLeft, TargetsArePresent
  <1>3. ASSUME NEW m \in Messages, CommitMessage(m) PROVE Books'
    <2>1. /\ message' = [message EXCEPT ![m] = message'[m]]
          /\ message'[m] \in {"silent", "counted"}
          /\ delivery' = [delivery EXCEPT ![m] = Delivered(m)]
          /\ pc' = [pc EXCEPT ![m] = "unhiding"]
          /\ UNCHANGED <<hidden, attempts, marks>>
      BY <1>t, <1>3 DEF CommitMessage, End, TypeOK
    <2>2. message[m] = "absent"
      BY <1>t, <1>3 DEF CommitMessage, Updated, AbsentMeansNothing
    <2>3. Delivered(m)[Sender[m]] = "none"
      BY DEF Delivered
    <2>4. AbsentMeansNothing'
      BY <1>t, <2>1, <2>3 DEF AbsentMeansNothing, TypeOK
    <2>5. ASSUME NEW r \in Reads, m \in marks[r] PROVE FALSE
      <3>1. delivery[m][Reader[r]] # "none"
        BY <1>t, <2>5 DEF MarksAreDelivered
      <3>2. \A u \in Members : delivery[m][u] = "none"
        BY <1>t, <2>2 DEF AbsentMeansNothing
      <3>3. Reader[r] \in Members
        OBVIOUS
      <3> QED
        BY <3>1, <3>2, <3>3
    <2>6. MarksAreDelivered'
      BY <1>t, <2>1, <2>5 DEF MarksAreDelivered, TypeOK
    <2> QED
      BY <1>t, <2>1, <2>4, <2>6 DEF AttemptsAreLeft, TargetsArePresent, TypeOK
  <1>4. ASSUME NEW m \in Messages, Unhidden(m) PROVE Books'
    BY <1>t, <1>4
    DEF Unhidden, End, data, work, TypeOK, AbsentMeansNothing, MarksAreDelivered,
        AttemptsAreLeft, TargetsArePresent
  <1>5. ASSUME NEW r \in Reads, NEW ids \in SUBSET Messages, MarkDeliveries(r, ids)
        PROVE  Books'
    BY <1>t, <1>5
    DEF MarkDeliveries, data, TypeOK, AbsentMeansNothing, MarksAreDelivered,
        AttemptsAreLeft, TargetsArePresent
  <1>6. ASSUME NEW r \in Reads, CountUnread(r) PROVE Books'
    BY <1>t, <1>6
    DEF CountUnread, data, TypeOK, AbsentMeansNothing, MarksAreDelivered,
        AttemptsAreLeft, TargetsArePresent
  <1>7. ASSUME NEW r \in Reads, CommitRead(r) PROVE Books'
    <2>1. /\ delivery' = [m \in Messages |->
               IF m \in marks[r] THEN [delivery[m] EXCEPT ![Reader[r]] = "read"]
                                 ELSE delivery[m]]
          /\ pc' = [pc EXCEPT ![r] = "done"]
          /\ UNCHANGED <<message, hidden, attempts, marks>>
      BY <1>t, <1>7 DEF CommitRead, End, work
    <2>2. \A m \in Messages, u \in Members :
             (delivery'[m][u] = "none") <=> (delivery[m][u] = "none")
      BY <1>t, <2>1 DEF MarksAreDelivered, TypeOK
    <2>3. AbsentMeansNothing'
      BY <1>t, <2>1, <2>2 DEF AbsentMeansNothing, TypeOK
    <2>4. MarksAreDelivered'
      BY <1>t, <2>1, <2>2 DEF MarksAreDelivered, TypeOK
    <2> QED
      BY <1>t, <2>1, <2>3, <2>4 DEF AttemptsAreLeft, TargetsArePresent, TypeOK
  <1>8. ASSUME NEW c \in Recalls, Recall(c) PROVE Books'
    BY <1>t, <1>8
    DEF Recall, data, TypeOK, AbsentMeansNothing, MarksAreDelivered,
        AttemptsAreLeft, TargetsArePresent
  <1>9. ASSUME NEW c \in Recalls, CommitRecall(c) PROVE Books'
    <2>1. message[Recalled[c]] # "absent"
      BY <1>t, <1>9 DEF CommitRecall, Updated, TargetsArePresent
    <2>2. /\ message' = [message EXCEPT ![Recalled[c]] = "recalled"]
          /\ pc' = [pc EXCEPT ![c] = "done"]
          /\ UNCHANGED <<delivery, hidden, attempts, marks>>
      BY <1>9 DEF CommitRecall, End, work
    <2>3. AbsentMeansNothing'
      BY <1>t, <2>1, <2>2 DEF AbsentMeansNothing, TypeOK
    <2> QED
      BY <1>t, <2>2, <2>3 DEF MarksAreDelivered, AttemptsAreLeft, TargetsArePresent, TypeOK
  <1>10. ASSUME NEW batch \in SUBSET Messages, NEW u \in Members, Hide(batch, u) PROVE Books'
    BY <1>t, <1>10
    DEF Hide, HideForUsers, work, TypeOK, AbsentMeansNothing, MarksAreDelivered,
        AttemptsAreLeft, TargetsArePresent
  <1>11. ASSUME NEW p \in Patches, GetContent(p) PROVE Books'
    BY <1>t, <1>11
    DEF GetContent, data, work, TypeOK, AbsentMeansNothing, MarksAreDelivered,
        AttemptsAreLeft, TargetsArePresent
  <1>12. ASSUME NEW p \in Patches, UpdateContent(p) PROVE Books'
    <2>1. message[Patched[p]] # "absent"
      BY <1>t, <1>12 DEF UpdateContent, TargetsArePresent
    <2>2. /\ message' = [message EXCEPT ![Patched[p]] = "counted"]
          /\ pc' = [pc EXCEPT ![p] = "locking"]
          /\ UNCHANGED <<delivery, hidden, attempts, marks>>
      BY <1>12 DEF UpdateContent
    <2>3. AbsentMeansNothing'
      BY <1>t, <2>1, <2>2 DEF AbsentMeansNothing, TypeOK
    <2> QED
      BY <1>t, <2>2, <2>3 DEF MarksAreDelivered, AttemptsAreLeft, TargetsArePresent, TypeOK
  <1>13. ASSUME NEW p \in Patches, NotFound(p) PROVE Books'
    BY <1>t, <1>13
    DEF NotFound, End, data, work, TypeOK, AbsentMeansNothing, MarksAreDelivered,
        AttemptsAreLeft, TargetsArePresent
  <1>14. ASSUME NEW p \in Patches, CommitIncr(p) PROVE Books'
    BY <1>t, <1>14
    DEF CommitIncr, End, data, work, TypeOK, AbsentMeansNothing, MarksAreDelivered,
        AttemptsAreLeft, TargetsArePresent
  <1>15. ASSUME NEW r \in Requests, Victim(r) \/ Fail(r) PROVE Books'
    <2>1. PICK how \in {"retry", "done", "failed"} :
             /\ Abort(r, how)
             /\ how = "retry" => /\ r \in Messages
                                 /\ pc[r] = "locking"
                                 /\ attempts' = [attempts EXCEPT ![r] = @ + 1]
                                 /\ attempts[r] + 1 < MaxAttempts
             /\ how # "retry" => \/ UNCHANGED attempts
                                 \/ attempts' = [attempts EXCEPT ![r] = @ + 1]
      BY <1>15 DEF Victim, Fail, Broken
    <2>2. /\ pc' = [pc EXCEPT ![r] = how]
          /\ UNCHANGED <<message, delivery, hidden, marks>>
      BY <2>1 DEF Abort, End, data
    <2>3. AttemptsAreLeft'
      BY <1>t, <2>1, <2>2 DEF AttemptsAreLeft, TypeOK
    <2> QED
      BY <1>t, <2>1, <2>2, <2>3
      DEF TypeOK, AbsentMeansNothing, MarksAreDelivered, TargetsArePresent
  <1> QED
    BY <1>t, <1>1, <1>2, <1>3, <1>4, <1>5, <1>6, <1>7, <1>8, <1>9, <1>10, <1>11,
       <1>12, <1>13, <1>14, <1>15
    DEF Next, Send, Read, Delete, Patch, MarkRead, MarkMessagesRead,
        ListUnreadMessageIDsByConv, TypeOK

(***************************************************************************)
(* Numbers.                                                                *)
(***************************************************************************)
LEMMA SameNumbers ==
    ASSUME NumbersAreCounted, UNCHANGED <<marks, count, base>>,
           \A r \in Reads \cup Recalls : pc'[r] = "locking" => pc[r] = "locking"
    PROVE  NumbersAreCounted'
  BY DEF NumbersAreCounted

LEMMA NumbersStep == IInv /\ Next => NumbersAreCounted'
  <1> SUFFICES ASSUME IInv, Next PROVE NumbersAreCounted'
    OBVIOUS
  <1>t. TypeOK /\ NumbersAreCounted
    BY DEF IInv
  <1> USE Kinds, AboutAssumption
  <1>1. ASSUME NEW r \in Requests, NEW u \in Members, LockRow(r, u)
        PROVE  NumbersAreCounted'
    BY <1>t, <1>1, SameNumbers DEF LockRow
  <1>2. ASSUME NEW m \in Messages, Send(m) PROVE NumbersAreCounted'
    BY <1>t, <1>2, SameNumbers
    DEF Send, persist, CommitMessage, Unhidden, End, work, data, TypeOK
  <1>3. ASSUME NEW r \in Reads, NEW ids \in SUBSET Messages, MarkDeliveries(r, ids)
        PROVE  NumbersAreCounted'
    BY <1>t, <1>3 DEF MarkDeliveries, NumbersAreCounted, TypeOK
  <1>4. ASSUME NEW r \in Reads, CountUnread(r) PROVE NumbersAreCounted'
    <2> DEFINE u == Reader[r]
    <2>1. CountedFor(u) = Unseen(u)
      BY <1>t, CountedIsUnseen
    <2>2. /\ count' = [count EXCEPT ![r] = count'[r]]
          /\ base' = [base EXCEPT ![r] = base'[r]]
          /\ pc' = [pc EXCEPT ![r] = "locking"]
          /\ marks' = marks
      BY <1>t, <1>4 DEF CountUnread, TypeOK
    <2>3. count'[r][u] = Cardinality(Unseen(u) \ marks[r]) /\ base'[r][u] = Unseen(u)
      BY <1>t, <1>4, <2>1 DEF CountUnread, TypeOK
    <2>4. \A q \in (Reads \cup Recalls) \ {r} :
             pc'[q] = pc[q] /\ count'[q] = count[q] /\ base'[q] = base[q]
      BY <1>t, <2>2 DEF TypeOK
    <2> QED
      BY <1>t, <2>2, <2>3, <2>4 DEF NumbersAreCounted
  <1>5. ASSUME NEW r \in Reads, CommitRead(r) PROVE NumbersAreCounted'
    BY <1>t, <1>5, SameNumbers DEF CommitRead, End, work, TypeOK
  <1>6. ASSUME NEW c \in Recalls, Recall(c) PROVE NumbersAreCounted'
    <2>1. \A u \in Members : CountedFor(u) = Unseen(u)
      BY <1>t, CountedIsUnseen
    <2>2. /\ count' = [count EXCEPT ![c] = count'[c]]
          /\ base' = [base EXCEPT ![c] = base'[c]]
          /\ pc' = [pc EXCEPT ![c] = "locking"]
          /\ marks' = marks
      BY <1>t, <1>6 DEF Recall, TypeOK
    <2>3. \A u \in Members : /\ count'[c][u] = Cardinality(Unseen(u) \ {Recalled[c]})
                             /\ base'[c][u] = Unseen(u)
      BY <1>t, <1>6, <2>1 DEF Recall, TypeOK
    <2>4. \A q \in (Reads \cup Recalls) \ {c} :
             pc'[q] = pc[q] /\ count'[q] = count[q] /\ base'[q] = base[q]
      BY <1>t, <2>2 DEF TypeOK
    <2>5. \A r \in Reads : pc'[r] = "locking" =>
             count'[r][Reader[r]] = Cardinality(base'[r][Reader[r]] \ marks'[r])
      BY <1>t, <2>2, <2>4 DEF NumbersAreCounted
    <2>6. \A q \in Recalls \ {c} : pc'[q] = "locking" => \A u \in Members :
             count'[q][u] = Cardinality(base'[q][u] \ {Recalled[q]})
      BY <1>t, <2>4 DEF NumbersAreCounted
    <2>7. \A u \in Members : count'[c][u] = Cardinality(base'[c][u] \ {Recalled[c]})
      BY <2>3
    <2> QED
      BY <2>5, <2>6, <2>7 DEF NumbersAreCounted
  <1>7. ASSUME NEW c \in Recalls, CommitRecall(c) PROVE NumbersAreCounted'
    BY <1>t, <1>7, SameNumbers DEF CommitRecall, End, work, TypeOK
  <1>8. ASSUME NEW p \in Patches, Patch(p) PROVE NumbersAreCounted'
    BY <1>t, <1>8, SameNumbers
    DEF Patch, GetContent, UpdateContent, NotFound, CommitIncr, End, work, data, TypeOK
  <1>9. ASSUME NEW batch \in SUBSET Messages, NEW u \in Members, Hide(batch, u) PROVE NumbersAreCounted'
    BY <1>t, <1>9, SameNumbers DEF Hide, work
  <1>10. ASSUME NEW r \in Requests, Victim(r) \/ Fail(r) PROVE NumbersAreCounted'
    <2>1. PICK how \in {"retry", "done", "failed"} : Abort(r, how)
      BY <1>10 DEF Victim, Fail, Broken
    <2> QED
      BY <1>t, <2>1, SameNumbers DEF Abort, End, TypeOK
  <1> QED
    BY <1>t, <1>1, <1>2, <1>3, <1>4, <1>5, <1>6, <1>7, <1>8, <1>9, <1>10
    DEF Next, Read, Delete, MarkRead, MarkMessagesRead, ListUnreadMessageIDsByConv, TypeOK

(***************************************************************************)
(* The counter.                                                            *)
(***************************************************************************)
Right(u) == exact[u] => unread[u] + Cardinality(Owing(u)) = Cardinality(Unseen(u))

(* A step that changes neither side for the member.                          *)
LEMMA SameRight ==
    ASSUME NEW u \in Members, Right(u), Unseen(u)' = Unseen(u), Owing(u)' = Owing(u),
           unread'[u] = unread[u], exact'[u] => exact[u]
    PROVE  Right(u)'
  BY DEF Right

(* Only patches owe, from the change of the content to the end.              *)
LEMMA SameOwing ==
    ASSUME NEW u \in Members,
           \A p \in Patches : (pc'[p] = "locking") <=> (pc[p] = "locking")
    PROVE  Owing(u)' = Owing(u)
  BY DEF Owing

LEMMA ExactStep == IInv /\ Next => CountIsExact'
  <1> SUFFICES ASSUME IInv, Next, NEW u \in Members PROVE Right(u)'
    BY DEF CountIsExact, Right
  <1>t. TypeOK /\ Right(u)
    BY DEF IInv, CountIsExact, Right
  <1> USE Kinds, AboutAssumption
  <1>1. ASSUME NEW r \in Requests, NEW v \in Members, LockRow(r, v) PROVE Right(u)'
    BY <1>t, <1>1, SameRight, SameOwing DEF LockRow, data, Unseen
  <1>2. ASSUME NEW m \in Messages, persist(m) \/ Unhidden(m) PROVE Right(u)'
    <2>1. Unseen(u)' = Unseen(u) /\ unread' = unread /\ exact' = exact
      BY <1>2 DEF persist, Unhidden, data, Unseen
    <2>2. \A p \in Patches : pc'[p] = pc[p]
      BY <1>t, <1>2 DEF persist, Unhidden, End, TypeOK
    <2>3. Owing(u)' = Owing(u)
      BY <2>2, SameOwing
    <2> QED
      BY <1>t, <2>1, <2>3, SameRight
  <1>3. ASSUME NEW m \in Messages, CommitMessage(m) PROVE Right(u)'
    <2>1. Owing(u)' = Owing(u)
      BY <1>t, <1>3, SameOwing DEF CommitMessage, End, TypeOK
    <2>2. /\ message[m] = "absent" /\ <<m, u>> \notin hidden
          /\ m \notin Unseen(u)
      BY <1>3 DEF IInv, CommitMessage, Updated, AbsentMeansNothing, Unseen
    <2>3. lock[u] = m <=> Counts(m) /\ u \in Others(m)
      <3>1. Wanted(m) = IF Counts(m) THEN Others(m) ELSE {}
        BY <1>3 DEF CommitMessage, Updated, Wanted
      <3>2. u \in Others(m) => u \in Members
        BY DEF Others
      <3> QED
        BY <1>3, <3>1 DEF IInv, LocksAreHeld, CommitMessage, Updated
    <2>4. /\ message' = [message EXCEPT ![m] = message'[m]]
          /\ message'[m] = IF m \in Silent THEN "silent" ELSE "counted"
          /\ delivery' = [delivery EXCEPT ![m] = Delivered(m)]
          /\ UNCHANGED <<hidden, exact>>
          /\ unread'[u] = IF lock[u] = m THEN unread[u] + 1 ELSE unread[u]
      BY <1>t, <1>3 DEF CommitMessage, TypeOK, Incremented
    <2>5. Delivered(m)[u] = "unread" <=> u \in Others(m) /\ m \notin Child
      BY DEF Delivered, Others
    <2>6. m \in Unseen(u)' <=> Counts(m) /\ u \in Others(m)
      BY <1>t, <2>2, <2>4, <2>5 DEF Unseen, Counts, TypeOK
    <2>7. \A n \in Messages \ {m} : n \in Unseen(u)' <=> n \in Unseen(u)
      BY <1>t, <2>4 DEF Unseen, TypeOK
    <2>8. CASE Counts(m) /\ u \in Others(m)
      <3>1. Unseen(u)' = Unseen(u) \cup {m}
        BY <2>6, <2>7, <2>8 DEF Unseen
      <3>2. Cardinality(Unseen(u)') = Cardinality(Unseen(u)) + 1
        BY <2>2, <3>1, Finite, FS_AddElement
      <3> QED
        BY <1>t, <2>1, <2>3, <2>4, <2>8, <3>2, Finite DEF Right, TypeOK
    <2>9. CASE ~(Counts(m) /\ u \in Others(m))
      <3>1. Unseen(u)' = Unseen(u)
        BY <2>2, <2>6, <2>7, <2>9 DEF Unseen
      <3> QED
        BY <1>t, <2>1, <2>3, <2>4, <2>9, <3>1, SameRight
    <2> QED
      BY <2>8, <2>9
  <1>4. ASSUME NEW r \in Reads, NEW ids \in SUBSET Messages, MarkDeliveries(r, ids)
        PROVE  Right(u)'
    <2>1. Unseen(u)' = Unseen(u) /\ unread' = unread /\ exact' = exact
      BY <1>4 DEF MarkDeliveries, data, Unseen
    <2>2. Owing(u)' = Owing(u)
      BY <1>t, <1>4, SameOwing DEF MarkDeliveries, TypeOK
    <2> QED
      BY <1>t, <2>1, <2>2, SameRight
  <1>5. ASSUME NEW r \in Reads, CountUnread(r) PROVE Right(u)'
    <2>1. Unseen(u)' = Unseen(u) /\ unread' = unread /\ exact' = exact
      BY <1>5 DEF CountUnread, data, Unseen
    <2>2. Owing(u)' = Owing(u)
      BY <1>t, <1>5, SameOwing DEF CountUnread, TypeOK
    <2> QED
      BY <1>t, <2>1, <2>2, SameRight
  <1>6. ASSUME NEW r \in Reads, CommitRead(r) PROVE Right(u)'
    <2>1. Owing(u)' = Owing(u)
      BY <1>t, <1>6, SameOwing DEF CommitRead, End, TypeOK
    <2>2. /\ delivery' = [m \in Messages |->
               IF m \in marks[r] THEN [delivery[m] EXCEPT ![Reader[r]] = "read"]
                                 ELSE delivery[m]]
          /\ unread' = [unread EXCEPT ![Reader[r]] = count[r][Reader[r]]]
          /\ exact' = [exact EXCEPT ![Reader[r]] = StillRight(r, Reader[r])]
          /\ UNCHANGED <<message, hidden>>
      BY <1>6 DEF CommitRead
    <2>3. CASE u = Reader[r]
      <3> SUFFICES ASSUME exact'[u]
                   PROVE  unread'[u] + Cardinality(Owing(u)') = Cardinality(Unseen(u)')
        BY DEF Right
      <3>1. base[r][u] = Unseen(u) /\ Owing(u) = {}
        BY <1>t, <2>2, <2>3 DEF StillRight, TypeOK
      <3>2. Unseen(u)' = Unseen(u) \ marks[r]
        BY <1>t, <2>2, <2>3 DEF Unseen, TypeOK
      <3>3. unread'[u] = Cardinality(Unseen(u) \ marks[r])
        BY <1>t, <1>6, <2>2, <2>3, <3>1 DEF IInv, NumbersAreCounted, CommitRead, Updated, TypeOK
      <3>4. Cardinality(Owing(u)') = 0 /\ Cardinality(Unseen(u) \ marks[r]) \in Nat
        BY <2>1, <3>1, Finite, FS_EmptySet
      <3> QED
        BY <3>2, <3>3, <3>4
    <2>4. CASE u # Reader[r]
      <3>1. Unseen(u)' = Unseen(u)
        BY <1>t, <2>2, <2>4 DEF Unseen, TypeOK
      <3>2. unread'[u] = unread[u] /\ exact'[u] = exact[u]
        BY <1>t, <2>2, <2>4 DEF TypeOK
      <3> QED
        BY <1>t, <2>1, <3>1, <3>2, SameRight
    <2> QED
      BY <2>3, <2>4
  <1>7. ASSUME NEW c \in Recalls, Recall(c) PROVE Right(u)'
    <2>1. Unseen(u)' = Unseen(u) /\ unread' = unread /\ exact' = exact
      BY <1>7 DEF Recall, data, Unseen
    <2>2. Owing(u)' = Owing(u)
      BY <1>t, <1>7, SameOwing DEF Recall, TypeOK
    <2> QED
      BY <1>t, <2>1, <2>2, SameRight
  <1>8. ASSUME NEW c \in Recalls, CommitRecall(c) PROVE Right(u)'
    <2> SUFFICES ASSUME exact'[u]
                 PROVE  unread'[u] + Cardinality(Owing(u)') = Cardinality(Unseen(u)')
      BY DEF Right
    <2>1. Owing(u)' = Owing(u)
      BY <1>t, <1>8, SameOwing DEF CommitRecall, End, TypeOK
    <2>2. base[c][u] = Unseen(u) /\ Owing(u) = {}
      BY <1>8 DEF CommitRecall, StillRight
    <2>3. Unseen(u)' = Unseen(u) \ {Recalled[c]}
      BY <1>t, <1>8 DEF CommitRecall, Unseen, TypeOK
    <2>4. unread'[u] = Cardinality(Unseen(u) \ {Recalled[c]})
      BY <1>8, <2>2 DEF IInv, NumbersAreCounted, CommitRecall, Updated
    <2>5. /\ Cardinality(Owing(u)') = 0
          /\ Cardinality(Unseen(u) \ {Recalled[c]}) \in Nat
      BY <2>1, <2>2, Finite, FS_EmptySet
    <2> QED
      BY <2>3, <2>4, <2>5
  <1>9. ASSUME NEW batch \in SUBSET Messages, NEW v \in Members, Hide(batch, v) PROVE Right(u)'
    <2>1. Owing(u)' = Owing(u)
      BY <1>9, SameOwing DEF Hide
    <2>2. CASE exact'[u]
      <3>1. exact[u] /\ (u = v => batch \cap Unseen(u) = {})
        BY <1>t, <1>9, <2>2 DEF Hide, TypeOK
      <3>2. Unseen(u)' = Unseen(u) /\ unread' = unread
        BY <1>9, <3>1 DEF Hide, HideForUsers, Unseen
      <3> QED
        BY <1>t, <2>1, <3>1, <3>2, SameRight
    <2> QED
      BY <2>2 DEF Right
  <1>10. ASSUME NEW p \in Patches, GetContent(p) \/ NotFound(p) PROVE Right(u)'
    <2>1. Unseen(u)' = Unseen(u) /\ unread' = unread /\ exact' = exact
      BY <1>10 DEF GetContent, NotFound, data, Unseen
    <2>2. Owing(u)' = Owing(u)
      BY <1>t, <1>10, SameOwing DEF GetContent, NotFound, End, TypeOK
    <2> QED
      BY <1>t, <2>1, <2>2, SameRight
  <1>11. ASSUME NEW p \in Patches, UpdateContent(p) PROVE Right(u)'
    <2> DEFINE m == Patched[p]
    <2>1. /\ pc[p] = "update"
          /\ message' = [message EXCEPT ![m] = "counted"]
          /\ pc' = [pc EXCEPT ![p] = "locking"]
          /\ UNCHANGED <<delivery, hidden, unread>>
          /\ exact'[u] = (exact[u] /\ (u \in Others(m) => PatchKeeps(p, u)))
          /\ message[m] # "recalled"
      BY <1>11 DEF UpdateContent
    <2>2. CASE u \in Others(m)
      <3> SUFFICES ASSUME exact'[u]
                   PROVE  unread'[u] + Cardinality(Owing(u)') = Cardinality(Unseen(u)')
        BY DEF Right
      <3>1. exact[u] /\ PatchKeeps(p, u)
        BY <2>1, <2>2
      <3>2. m \notin Unseen(u) /\ Unseen(u)' = Unseen(u) \cup {m}
        <4>1. /\ m \in Messages /\ message[m] = "silent"
              /\ delivery[m][u] = "unread" /\ <<m, u>> \notin hidden
          BY <3>1 DEF PatchKeeps
        <4>2. message'[m] = "counted" /\ \A n \in Messages \ {m} : message'[n] = message[n]
          BY <1>t, <2>1, <4>1 DEF TypeOK
        <4> QED
          BY <2>1, <4>1, <4>2 DEF Unseen
      <3>3. p \notin Owing(u) /\ Owing(u)' = Owing(u) \cup {p}
        BY <1>t, <2>1, <2>2 DEF Owing, TypeOK
      <3>4. /\ Cardinality(Unseen(u)') = Cardinality(Unseen(u)) + 1
            /\ Cardinality(Owing(u)') = Cardinality(Owing(u)) + 1
        BY <3>2, <3>3, Finite, FS_AddElement
      <3> QED
        BY <1>t, <2>1, <3>1, <3>4, Finite DEF Right, TypeOK
    <2>3. CASE u \notin Others(m)
      <3>1. delivery[m][u] = "none"
        BY <2>3 DEF IInv, AbsentMeansNothing, Others
      <3>2. Unseen(u)' = Unseen(u)
        BY <1>t, <2>1, <3>1 DEF Unseen, TypeOK
      <3>3. Owing(u)' = Owing(u)
        BY <1>t, <2>1, <2>3 DEF Owing, TypeOK
      <3> QED
        BY <1>t, <2>1, <3>2, <3>3, SameRight
    <2> QED
      BY <2>2, <2>3
  <1>12. ASSUME NEW p \in Patches, CommitIncr(p) PROVE Right(u)'
    <2> DEFINE m == Patched[p]
    <2>1. /\ pc[p] = "locking"
          /\ pc' = [pc EXCEPT ![p] = "done"]
          /\ UNCHANGED <<message, delivery, hidden, exact>>
          /\ unread'[u] = IF lock[u] = p THEN unread[u] + 1 ELSE unread[u]
      BY <1>12 DEF CommitIncr, Updated, End, data, Incremented
    <2>2. lock[u] = p <=> u \in Others(m)
      <3>1. Wanted(p) = Others(m)
        BY DEF Wanted
      <3> QED
        BY <1>12, <3>1 DEF IInv, LocksAreHeld, CommitIncr, Updated
    <2>3. Unseen(u)' = Unseen(u)
      BY <2>1 DEF Unseen
    <2>4. CASE u \in Others(m)
      <3>1. p \in Owing(u) /\ Owing(u)' = Owing(u) \ {p}
        BY <1>t, <2>1, <2>4 DEF Owing, TypeOK
      <3>2. Cardinality(Owing(u)') = Cardinality(Owing(u)) - 1
        BY <3>1, Finite, FS_RemoveElement
      <3> QED
        BY <1>t, <2>1, <2>2, <2>3, <2>4, <3>2, Finite DEF Right, TypeOK
    <2>5. CASE u \notin Others(m)
      <3>1. Owing(u)' = Owing(u)
        BY <1>t, <2>1, <2>5 DEF Owing, TypeOK
      <3> QED
        BY <1>t, <2>1, <2>2, <2>3, <2>5, <3>1, SameRight
    <2> QED
      BY <2>4, <2>5
  <1>13. ASSUME NEW r \in Requests, Victim(r) \/ Fail(r) PROVE Right(u)'
    <2>1. PICK how \in {"retry", "done", "failed"} : Abort(r, how)
      BY <1>13 DEF Victim, Fail, Broken
    <2>2. Unseen(u)' = Unseen(u) /\ unread' = unread
      BY <2>1 DEF Abort, data, Unseen
    <2>3. CASE exact'[u]
      <3>1. exact[u] /\ ~Lost(r, u)
        BY <2>1, <2>3 DEF Abort
      <3>2. Owing(u)' = Owing(u)
        BY <1>t, <2>1, <3>1 DEF Owing, Lost, Abort, End, TypeOK
      <3> QED
        BY <1>t, <2>2, <3>1, <3>2, SameRight
    <2> QED
      BY <2>3 DEF Right
  <1> QED
    BY <1>t, <1>1, <1>2, <1>3, <1>4, <1>5, <1>6, <1>7, <1>8, <1>9, <1>10, <1>11,
       <1>12, <1>13
    DEF Next, Send, Read, Delete, Patch, MarkRead, MarkMessagesRead,
        ListUnreadMessageIDsByConv, TypeOK

LEMMA NextIInv == IInv /\ [Next]_vars => IInv'
  <1>1. IInv /\ Next => IInv'
    BY TypeStep, LocksStep, BooksStep, NumbersStep, ExactStep DEF IInv, Books
  <1>2. IInv /\ UNCHANGED vars => IInv'
    <2> SUFFICES ASSUME IInv, UNCHANGED vars PROVE IInv'
      OBVIOUS
    <2>1. TypeOK' /\ LocksAreHeld'
      BY DEF IInv, vars, TypeOK, LocksAreHeld, Wanted
    <2>2. Books' /\ NumbersAreCounted'
      BY DEF IInv, vars, Books, AbsentMeansNothing, MarksAreDelivered,
             AttemptsAreLeft, TargetsArePresent, NumbersAreCounted
    <2>3. CountIsExact'
      BY DEF IInv, vars, CountIsExact, Unseen, Owing
    <2> QED
      BY <2>1, <2>2, <2>3 DEF IInv, Books
  <1> QED
    BY <1>1, <1>2

(* The invariant holds in every behaviour: the types, the locks that belong  *)
(* to requests in their UPDATE, what is committed, the numbers counted, and  *)
(* the exact counter.                                                        *)
THEOREM InvariantHolds == Spec => []IInv
  BY InitIInv, NextIInv, PTL DEF Spec

(* The counter is the number of unread messages on the screen, for any       *)
(* number of concurrent sends, readers and recalls, except after the         *)
(* overlaps that Unread names.                                               *)
THEOREM CounterIsExact == Spec => []CountIsExact
  <1>1. IInv => CountIsExact
    BY DEF IInv
  <1> QED
    BY <1>1, InvariantHolds, PTL
=============================================================================
