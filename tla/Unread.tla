------------------------------- MODULE Unread -------------------------------
(***************************************************************************)
(* The unread counter of one conversation: messages, message_deliveries,   *)
(* message_hidden and conversation_participants.unread_count, and the      *)
(* requests that write them (message/processor.go, message_handler.go,     *)
(* conversation_read.go and their repositories).                           *)
(*                                                                         *)
(* PostgreSQL runs at READ COMMITTED: a statement reads what was committed *)
(* when it started and what its own transaction wrote; an UPDATE locks the *)
(* participant rows it meets one after the other, in an order the program  *)
(* does not choose, holds them to the end of its transaction, and applies  *)
(* "unread_count + 1" to the row as the previous holder left it.  A number *)
(* that was counted earlier is written as it was counted.                  *)
(*                                                                         *)
(* The members of the conversation do not change here.                     *)
(***************************************************************************)
EXTENDS Integers, FiniteSets

CONSTANTS
    Members,        \* the participants, users and agents
    Messages,       \* one request to send for each
    Sender,         \* who sends it
    Silent,         \* messages whose content says silent = true
    Child,          \* events of a sub-agent, delivered as read
    Reads,          \* requests to mark as read
    Reader,         \* the member behind each of them
    Recalls,        \* requests to recall
    Recalled,       \* the message each of them is about
    Patches,        \* PATCH requests that set silent = false
    Patched,        \* the message each of them is about
    Hiders,         \* the members who hide messages
    Faulty,         \* the requests that may fail
    MaxAttempts,    \* maxRetries of PersistAndDispatch
    NoRequest       \* nobody holds the row

Requests == Messages \cup Reads \cup Recalls \cup Patches

ASSUME FiniteAssumption == IsFiniteSet(Messages) /\ IsFiniteSet(Patches)
ASSUME RequestsAssumption ==
    /\ Messages \cap (Reads \cup Recalls \cup Patches) = {}
    /\ Reads \cap (Recalls \cup Patches) = {}
    /\ Recalls \cap Patches = {}
    /\ NoRequest \notin Requests
ASSUME AboutAssumption ==
    /\ Sender \in [Messages -> Members]
    /\ Reader \in [Reads -> Members]
    /\ Recalled \in [Recalls -> Messages]
    /\ Patched \in [Patches -> Messages]
    /\ Hiders \subseteq Members
    /\ Faulty \subseteq Requests
ASSUME AttemptsAssumption == MaxAttempts \in Nat \ {0}

VARIABLES
    message,    \* what is committed of each message
    delivery,   \* message_deliveries: none, unread (read_at NULL) or read
    hidden,     \* message_hidden
    unread,     \* conversation_participants.unread_count
    lock,       \* who has updated a participant row and not ended yet
    pc,         \* where each request stands
    rows,       \* the participant rows its UPDATE has still to lock
    attempts,   \* deadlocks a send has met
    marks,      \* the deliveries a reader's UPDATE has turned to read
    count,      \* the numbers a COUNT returned
    (* History, read by no action: *)
    base,       \* what was Unseen when that COUNT read the tables
    exact       \* no number for the member was written over a later change

data == <<message, delivery, hidden>>
work == <<rows, attempts, marks, count, base>>
vars == <<message, delivery, hidden, unread, lock, pc, rows, attempts, marks,
          count, base, exact>>

Others(m) == Members \ {Sender[m]}

(***************************************************************************)
(* What the counter stands for: the messages on the member's screen that   *)
(* count and that the member has not read.                                 *)
(***************************************************************************)
Unseen(u) == {m \in Messages : /\ message[m] = "counted"
                               /\ delivery[m][u] = "unread"
                               /\ <<m, u>> \notin hidden}

\* Patches that have changed the content and not yet added their +1.
Owing(u) == {p \in Patches : pc[p] = "locking" /\ u \in Others(Patched[p])}

InFlight(r) == pc[r] \in {"update", "counting", "locking", "unhiding"}

Init ==
    /\ message = [m \in Messages |-> "absent"]
    /\ delivery = [m \in Messages |-> [u \in Members |-> "none"]]
    /\ hidden = {}
    /\ unread = [u \in Members |-> 0]
    /\ lock = [u \in Members |-> NoRequest]
    /\ pc = [r \in Requests |-> "idle"]
    /\ rows = [r \in Requests |-> {}]
    /\ attempts = [m \in Messages |-> 0]
    /\ marks = [r \in Reads |-> {}]
    /\ count = [r \in Reads \cup Recalls |-> [u \in Members |-> 0]]
    /\ base = [r \in Reads \cup Recalls |-> [u \in Members |-> {}]]
    /\ exact = [u \in Members |-> TRUE]

----------------------------------------------------------------------------
(* Statements and transactions *)

\* An UPDATE of participant rows reaches the next row.
LockRow(r, u) ==
    /\ u \in rows[r]
    /\ lock[u] = NoRequest
    /\ lock' = [lock EXCEPT ![u] = r]
    /\ rows' = [rows EXCEPT ![r] = @ \ {u}]
    /\ UNCHANGED <<data, unread, pc, attempts, marks, count, base, exact>>

\* Its last row is locked: the UPDATE is over.
Updated(r) == pc[r] = "locking" /\ rows[r] = {}

\* The transaction is over: its locks go.
Release(r) == lock' = [u \in Members |-> IF lock[u] = r THEN NoRequest ELSE lock[u]]

End(r, how) == pc' = [pc EXCEPT ![r] = how] /\ Release(r)

\* A recall's UPDATE of the message row makes other writers of it wait.
Recalling(m) == \E c \in Recalls : Recalled[c] = m /\ pc[c] = "locking"

\* A number counted earlier is written: has anything happened to it since?
StillRight(r, u) == base[r][u] = Unseen(u) /\ Owing(u) = {}

----------------------------------------------------------------------------
(* Processor.PersistAndDispatch *)

Counts(m) == m \notin Silent \cup Child

\* The transaction inserts the message and its deliveries, which nobody else
\* sees yet, and IncrUnreadTx starts unless the message is not to be counted.
persist(m) ==
    /\ pc[m] \in {"idle", "retry"}
    /\ pc' = [pc EXCEPT ![m] = "locking"]
    /\ rows' = [rows EXCEPT ![m] = IF Counts(m) THEN Others(m) ELSE {}]
    /\ UNCHANGED <<data, unread, lock, attempts, marks, count, base, exact>>

Delivered(m) == [u \in Members |->
    IF u = Sender[m] THEN "none" ELSE IF m \in Child THEN "read" ELSE "unread"]

\* unread_count + 1 on the rows the request has locked.
Incremented(r) == [u \in Members |-> IF lock[u] = r THEN unread[u] + 1 ELSE unread[u]]

\* After the commit Unhide, a transaction of its own, updates every row.
CommitMessage(m) ==
    /\ Updated(m)
    /\ message' = [message EXCEPT ![m] = IF m \in Silent THEN "silent" ELSE "counted"]
    /\ delivery' = [delivery EXCEPT ![m] = Delivered(m)]
    /\ unread' = Incremented(m)
    /\ End(m, "unhiding")
    /\ rows' = [rows EXCEPT ![m] = Members]
    /\ UNCHANGED <<hidden, attempts, marks, count, base, exact>>

Unhidden(m) ==
    /\ pc[m] = "unhiding"
    /\ rows[m] = {}
    /\ End(m, "done")
    /\ UNCHANGED <<data, unread, work, exact>>

----------------------------------------------------------------------------
(* ConversationHandler.MarkRead and MarkMessagesRead *)

\* The UPDATE of the deliveries; it waits for a reader of the same member that
\* has turned one of them and not ended.
MarkDeliveries(r, ids) ==
    LET u == Reader[r]
    IN /\ pc[r] = "idle"
       /\ \A q \in Reads : Reader[q] = u /\ InFlight(q) => marks[q] \cap ids = {}
       /\ marks' = [marks EXCEPT ![r] = {m \in ids : delivery[m][u] = "unread"}]
       /\ pc' = [pc EXCEPT ![r] = "counting"]
       /\ UNCHANGED <<data, unread, lock, rows, attempts, count, base, exact>>

ListUnreadMessageIDsByConv(u) ==
    {m \in Messages : message[m] = "counted" /\ delivery[m][u] = "unread"}

MarkRead(r) == MarkDeliveries(r, ListUnreadMessageIDsByConv(Reader[r]))

\* The client names any messages it has seen.
MarkMessagesRead(r) ==
    \E ids \in SUBSET {m \in Messages : message[m] # "absent"} : MarkDeliveries(r, ids)

\* A slip in that condition, hidden messages counted; checked to be caught.
CountedWithHidden(u) == {m \in Messages : /\ delivery[m][u] = "unread"
                                          /\ message[m] = "counted"}

\* The condition of the COUNT in MarkMessagesReadTx and RecomputeUnreadForConvTx.
CountedFor(u) == {m \in Messages : /\ delivery[m][u] = "unread"
                                   /\ message[m] \notin {"absent", "recalled"}
                                   /\ message[m] # "silent"
                                   /\ <<m, u>> \notin hidden}

CountUnread(r) ==
    LET u == Reader[r]
    IN /\ pc[r] = "counting"
       /\ count' = [count EXCEPT ![r][u] = Cardinality(CountedFor(u) \ marks[r])]
       /\ base' = [base EXCEPT ![r][u] = Unseen(u)]
       /\ rows' = [rows EXCEPT ![r] = {u}]
       /\ pc' = [pc EXCEPT ![r] = "locking"]
       /\ UNCHANGED <<data, unread, lock, attempts, marks, exact>>

CommitRead(r) ==
    LET u == Reader[r]
    IN /\ Updated(r)
       /\ delivery' = [m \in Messages |->
             IF m \in marks[r] THEN [delivery[m] EXCEPT ![u] = "read"] ELSE delivery[m]]
       /\ unread' = [unread EXCEPT ![u] = count[r][u]]
       /\ exact' = [exact EXCEPT ![u] = StillRight(r, u)]
       /\ End(r, "done")
       /\ UNCHANGED <<message, hidden, work>>

----------------------------------------------------------------------------
(* MessageHandler.Delete *)

\* SoftDeleteTx, and RecomputeUnreadForConvTx starts: its sub-query keeps the
\* snapshot of its start for every row, however long it waits for a row.
Recall(c) ==
    LET m == Recalled[c]
    IN /\ pc[c] = "idle"
       /\ message[m] # "absent"
       /\ ~Recalling(m)
       /\ count' = [count EXCEPT ![c] =
             [u \in Members |-> Cardinality(CountedFor(u) \ {m})]]
       /\ base' = [base EXCEPT ![c] = [u \in Members |-> Unseen(u)]]
       /\ rows' = [rows EXCEPT ![c] = Members]
       /\ pc' = [pc EXCEPT ![c] = "locking"]
       /\ UNCHANGED <<data, unread, lock, attempts, marks, exact>>

CommitRecall(c) ==
    /\ Updated(c)
    /\ message' = [message EXCEPT ![Recalled[c]] = "recalled"]
    /\ unread' = count[c]
    /\ exact' = [u \in Members |-> StillRight(c, u)]
    /\ End(c, "done")
    /\ UNCHANGED <<delivery, hidden, work>>

\* One INSERT for the whole batch; what is hidden already stays so.
HideForUsers(batch, u) == hidden \cup (batch \X {u})

\* BatchDelete, and scope=hide of Delete, whose batch is one message: an id
\* that names no message refuses the batch.  The counter is left as it is.
Hide(batch, u) ==
    /\ batch # {}
    /\ \A m \in batch : message[m] # "absent"
    /\ hidden' = HideForUsers(batch, u)
    /\ exact' = [exact EXCEPT ![u] = @ /\ batch \cap Unseen(u) = {}]
    /\ UNCHANGED <<message, delivery, unread, lock, pc, work>>

----------------------------------------------------------------------------
(* MessageHandler.UpdateContent, when it turns silent to false *)

\* msgRepo.Get: the request acts on the content it reads here.
GetContent(p) ==
    /\ pc[p] = "idle"
    /\ message[Patched[p]] = "silent"
    /\ pc' = [pc EXCEPT ![p] = "update"]
    /\ UNCHANGED <<data, unread, lock, work, exact>>

\* The member's +1 is due if this patch is the one that turned the content and
\* the member has not read the message before it counted.
PatchKeeps(p, u) ==
    LET m == Patched[p]
    IN message[m] = "silent" /\ delivery[m][u] = "unread" /\ <<m, u>> \notin hidden

\* UpdateContent commits; then IncrUnread, a transaction of its own, starts.
UpdateContent(p) ==
    LET m == Patched[p]
    IN /\ pc[p] = "update"
       /\ message[m] # "recalled"
       /\ ~Recalling(m)
       /\ message' = [message EXCEPT ![m] = "counted"]
       /\ exact' = [u \in Members |->
             exact[u] /\ (u \in Others(m) => PatchKeeps(p, u))]
       /\ pc' = [pc EXCEPT ![p] = "locking"]
       /\ rows' = [rows EXCEPT ![p] = Others(m)]
       /\ UNCHANGED <<delivery, hidden, unread, lock, attempts, marks, count, base>>

\* No row has deleted_at IS NULL any more: 404.
NotFound(p) ==
    /\ pc[p] = "update"
    /\ message[Patched[p]] = "recalled"
    /\ End(p, "failed")
    /\ UNCHANGED <<data, unread, work, exact>>

CommitIncr(p) ==
    /\ Updated(p)
    /\ unread' = Incremented(p)
    /\ End(p, "done")
    /\ UNCHANGED <<data, work, exact>>

----------------------------------------------------------------------------
(* Failures *)

\* The rows an aborted request leaves as they were; a patch has already turned
\* the content and its +1 is lost.
Lost(r, u) == r \in Patches /\ pc[r] = "locking" /\ u \in Others(Patched[r])

Abort(r, how) ==
    /\ End(r, how)
    /\ rows' = [rows EXCEPT ![r] = {}]
    /\ exact' = [u \in Members |-> exact[u] /\ ~Lost(r, u)]
    /\ UNCHANGED <<data, unread, marks, count, base>>

\* Each of them waits for a row another of them has locked.
Circle(Q) == \A q \in Q :
    /\ \E u \in rows[q] : lock[u] \in Q \ {q}
    /\ \E u \in Members : lock[u] = q /\ \E r \in Q \ {q} : u \in rows[r]

Deadlocked == UNION {Q \in SUBSET {r \in Requests : rows[r] # {}} : Circle(Q)}

\* An error ends a request; after the commit of the message it is only logged.
Broken(r) == IF pc[r] = "unhiding" THEN "done" ELSE "failed"

\* PostgreSQL ends one of those that wait in a circle (40P01).  A send that has
\* not committed starts over.
Victim(r) ==
    /\ r \in Deadlocked
    /\ IF r \in Messages /\ pc[r] = "locking"
       THEN /\ attempts' = [attempts EXCEPT ![r] = @ + 1]
            /\ Abort(r, IF attempts[r] + 1 < MaxAttempts THEN "retry" ELSE "failed")
       ELSE /\ UNCHANGED attempts
            /\ Abort(r, Broken(r))

\* A statement fails, the caller goes away, or the server stops.
Fail(r) ==
    /\ r \in Faulty
    /\ InFlight(r)
    /\ UNCHANGED attempts
    /\ Abort(r, Broken(r))

----------------------------------------------------------------------------

Send(m) == persist(m) \/ CommitMessage(m) \/ Unhidden(m)
Read(r) == MarkRead(r) \/ MarkMessagesRead(r) \/ CountUnread(r) \/ CommitRead(r)
Delete(c) == Recall(c) \/ CommitRecall(c)
Patch(p) == GetContent(p) \/ UpdateContent(p) \/ NotFound(p) \/ CommitIncr(p)

Next ==
    \/ \E m \in Messages : Send(m)
    \/ \E r \in Reads : Read(r)
    \/ \E c \in Recalls : Delete(c)
    \/ \E p \in Patches : Patch(p)
    \/ \E r \in Requests : (\E u \in Members : LockRow(r, u)) \/ Victim(r) \/ Fail(r)
    \/ \E batch \in SUBSET Messages, u \in Hiders : Hide(batch, u)

Spec == Init /\ [][Next]_vars

----------------------------------------------------------------------------
(* Properties *)

TypeOK ==
    /\ message \in [Messages -> {"absent", "silent", "counted", "recalled"}]
    /\ delivery \in [Messages -> [Members -> {"none", "unread", "read"}]]
    /\ hidden \subseteq Messages \X Members
    /\ unread \in [Members -> Nat]
    /\ lock \in [Members -> Requests \cup {NoRequest}]
    /\ pc \in [Requests -> {"idle", "retry", "update", "counting", "locking",
                            "unhiding", "done", "failed"}]
    /\ rows \in [Requests -> SUBSET Members]
    /\ attempts \in [Messages -> 0 .. MaxAttempts]
    /\ marks \in [Reads -> SUBSET Messages]
    /\ count \in [Reads \cup Recalls -> [Members -> Nat]]
    /\ base \in [Reads \cup Recalls -> [Members -> SUBSET Messages]]
    /\ exact \in [Members -> BOOLEAN]

\* The counter of a member is the number of unread messages on the screen, with
\* any number of sends, readers, recalls and deadlock victims at once, unless a
\* number counted before a change was written after it, a message was hidden
\* unread, or a patch's +1 was not due or got lost.  (processor.go,
\* participant_repo.go: the increments of concurrent sends are never lost, a
\* retried send is counted once, and MarkRead repairs what was off.)
CountIsExact == \A u \in Members :
    exact[u] => unread[u] + Cardinality(Owing(u)) = Cardinality(Unseen(u))

(* The inductive invariant. *)

\* The rows a request's UPDATE is about.
Wanted(r) ==
    IF r \in Messages
    THEN IF pc[r] = "unhiding" THEN Members
         ELSE IF Counts(r) THEN Others(r) ELSE {}
    ELSE IF r \in Reads THEN {Reader[r]}
    ELSE IF r \in Recalls THEN Members
    ELSE Others(Patched[r])

\* A request in its UPDATE has locked the rows it is about, except those it has
\* still to lock; no other request holds a lock.
LocksAreHeld == \A r \in Requests :
    IF pc[r] \in {"locking", "unhiding"}
    THEN /\ rows[r] = {u \in Wanted(r) : lock[u] # r}
         /\ \A u \in Members : lock[u] = r => u \in Wanted(r)
    ELSE /\ rows[r] = {}
         /\ \A u \in Members : lock[u] # r

\* A message that is not committed has left no trace, nobody delivers to the
\* sender, and a send that has not committed has not been seen.
AbsentMeansNothing == \A m \in Messages :
    /\ message[m] = "absent" =>
          \A u \in Members : delivery[m][u] = "none" /\ <<m, u>> \notin hidden
    /\ delivery[m][Sender[m]] = "none"
    /\ pc[m] \in {"idle", "retry", "locking"} => message[m] = "absent"

\* A reader turns deliveries that exist.
MarksAreDelivered == \A r \in Reads : \A m \in marks[r] : delivery[m][Reader[r]] # "none"

\* A send that may still begin or lock has not used up its attempts.
AttemptsAreLeft == \A m \in Messages :
    pc[m] \in {"idle", "retry", "locking"} => attempts[m] < MaxAttempts

\* A patch or a recall in progress is about a committed message.
TargetsArePresent ==
    /\ \A p \in Patches : pc[p] \in {"update", "locking"} => message[Patched[p]] # "absent"
    /\ \A c \in Recalls : pc[c] = "locking" => message[Recalled[c]] # "absent"

\* A number waiting to be written is that of the messages it was counted from.
NumbersAreCounted ==
    /\ \A r \in Reads : pc[r] = "locking" =>
          count[r][Reader[r]] = Cardinality(base[r][Reader[r]] \ marks[r])
    /\ \A c \in Recalls : pc[c] = "locking" => \A u \in Members :
          count[c][u] = Cardinality(base[c][u] \ {Recalled[c]})

IInv == /\ TypeOK
        /\ LocksAreHeld
        /\ AbsentMeansNothing
        /\ MarksAreDelivered
        /\ AttemptsAreLeft
        /\ TargetsArePresent
        /\ NumbersAreCounted
        /\ CountIsExact

\* What processor.go says of the commit: when a message is visible, the counter
\* agrees with the deliveries.  Reads and sends alone break it.
CountAligned ==
    (hidden = {} /\ \A r \in Recalls \cup Patches : pc[r] = "idle") =>
        \A u \in Members : unread[u] = Cardinality(Unseen(u))
=============================================================================
