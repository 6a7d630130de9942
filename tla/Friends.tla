------------------------------- MODULE Friends -------------------------------
(***************************************************************************)
(* Friendships: requests, decisions, removal, and the notices about them   *)
(* (handler/friendship_handler.go, repository/friendship_repo.go).  A      *)
(* handler runs a few statements without a transaction and tells the other *)
(* user when the database has changed.                                     *)
(***************************************************************************)
EXTENDS Handlers

VARIABLES
    rel,        \* friendships
    told,       \* the notices that were sent
    crossed     \* history: pairs whose requests were made at the same time

friendVars == <<rel, told, crossed>>

Decisions == {"accepted", "rejected", "canceled"}
Pair(r) == {job[r].user, job[r].whom}

\* Rows of two users in either direction.
Between(pair) == {f \in rel : {f.from, f.to} = pair}
FriendsNow(pair) == \E f \in Between(pair) : f.status = "accepted"

FriendsInit(first) ==
    /\ rel = first
    /\ told = {}
    /\ crossed = {}

\* ---------------------------------------------------------------- CreateRequest
\* Any row of the two, in any state and direction, refuses the request; so does one's
\* own name.
KnownOneWay(r) == {f \in rel : f.from = job[r].user /\ f.to = job[r].whom}
Known(r) == Between(Pair(r))

FriendLook(r) ==
    /\ Is(r, "befriend", "new")
    /\ Goto(r, IF Cardinality(Pair(r)) = 2 /\ Known(r) = {} THEN "insert" ELSE "done")
    /\ UNCHANGED <<job, snap, friendVars>>

\* UNIQUE (user_id, friend_id) stops the second of two equal requests, not two that cross.
Crossing(r) == {o \in Requests \ {r} : Is(o, "befriend", "insert") /\ Pair(o) = Pair(r)}
FriendInsert(r) ==
    /\ Is(r, "befriend", "insert")
    /\ IF KnownOneWay(r) # {}
         THEN Goto(r, "done") /\ UNCHANGED rel
         ELSE /\ Goto(r, "tell")
              /\ rel' = rel \cup {[id |-> r, from |-> job[r].user, to |-> job[r].whom,
                                   status |-> "pending"]}
    /\ crossed' = crossed \cup {Pair(o) : o \in Crossing(r)}
    /\ UNCHANGED <<job, snap, told>>

\* ------------------------------------------------------- Accept, Reject, Cancel
\* UPDATE .. WHERE id, the caller's side and status = 'pending'.
DecidesAnything(r, f) ==
    /\ f.id = job[r].about
    /\ job[r].user = IF job[r].op = "canceled" THEN f.from ELSE f.to
Decides(r, f) ==
    /\ f.id = job[r].about
    /\ job[r].user = IF job[r].op = "canceled" THEN f.from ELSE f.to
    /\ f.status = "pending"

Advance(r) ==
    /\ job[r].op \in Decisions /\ pc[r] = "new"
    /\ \/ \E f \in rel : /\ Decides(r, f)
                         /\ rel' = (rel \ {f}) \cup {[f EXCEPT !.status = job[r].op]}
                         /\ Goto(r, "tell")
       \/ (\A f \in rel : ~Decides(r, f)) /\ Goto(r, "done") /\ UNCHANGED rel
    /\ UNCHANGED <<job, snap, told, crossed>>

\* --------------------------------------------------------- RemoveFriend, notices
Unfriend(r) ==
    LET gone == {f \in Between(Pair(r)) : f.status = "accepted"} IN
    /\ Is(r, "unfriend", "new")
    /\ rel' = rel \ gone
    /\ Goto(r, IF gone = {} THEN "done" ELSE "tell")
    /\ UNCHANGED <<job, snap, told, crossed>>

\* A decision's handler reads the row again for its other side: it may be gone.  The
\* notice names what the handler did.
Notice(r, id, to) == [id |-> id, what |-> job[r].op, by |-> r, to |-> to]
Notices(r) ==
    IF job[r].op \in Decisions
    THEN {Notice(r, f.id, IF job[r].op = "canceled" THEN f.to ELSE f.from) :
             f \in {g \in rel : g.id = job[r].about}}
    ELSE {Notice(r, r, job[r].whom)}
Tell(r) ==
    /\ pc[r] = "tell"
    /\ told' = told \cup Notices(r)
    /\ Goto(r, "done")
    /\ UNCHANGED <<job, snap, rel, crossed>>

\* A statement fails.  What was written stays, and nobody is told.
FriendFails(r) ==
    /\ pc[r] \in {"insert", "tell"}
    /\ Goto(r, "done")
    /\ UNCHANGED <<job, snap, friendVars>>

FriendStep(r) ==
    \/ FriendLook(r) \/ FriendInsert(r) \/ Advance(r) \/ Unfriend(r)
    \/ Tell(r) \/ FriendFails(r)

\* ------------------------------------------------------------------ properties
\* One row for two users however their requests interleave, unless both asked each
\* other at the same time (CreateRequest looks, then inserts).
OneRelation ==
    \A f, g \in rel :
        {f.from, f.to} = {g.from, g.to} /\ f # g => {f.from, f.to} \in crossed

\* A request is decided once: accepting, rejecting and withdrawing it at the same time,
\* one of them wins, the notices tell of that one only, and the row agrees (advanceState).
DecidedOnce ==
    \A n \in told : n.what \in Decisions =>
        /\ \A o \in told : o.id = n.id /\ o.what \in Decisions => o = n
        /\ \A f \in rel : f.id = n.id => f.status = n.what
=============================================================================
