--------------------------- MODULE DispatchProofs ---------------------------
(***************************************************************************)
(* Proofs about the dispatch of events to one member's connections: the    *)
(* replay ring is the log of the newest events, for every bufferSize and   *)
(* every set of events, also as the fan-outs, unregistrations and restarts *)
(* of Dispatch drive it; and a fan-out serves whom it listed.              *)
(***************************************************************************)
EXTENDS Dispatch, Integers, SequenceTheorems, TLAPS

\* The only reductions the ring makes: an index is less than two rounds.
LEMMA Wrap ==
    ASSUME NEW h \in Cells, NEW i \in 0..bufferSize
    PROVE  (h + i) % bufferSize =
               IF h + i < bufferSize THEN h + i ELSE h + i - bufferSize
<1>1. /\ h \in Nat /\ i \in Nat /\ bufferSize \in Nat \ {0}
      /\ h + i < 2 * bufferSize
  BY BufferSizeAssumption DEF Cells
<1>2. QED
  BY ONLY <1>1

\* Where the i-th element is, without the remainder.
LEMMA AtIs ==
    ASSUME RingSound, NEW i \in 0..bufferSize
    PROVE  At(i) = IF head + i < bufferSize THEN head + i
                                            ELSE head + i - bufferSize
BY Wrap DEF At, RingSound

LEMMA DiscardInvariant ==
    ASSUME Discard
    PROVE  RingSound'
BY BufferSizeAssumption DEF Discard, RingSound, Cells

LEMMA PushInvariant ==
    ASSUME RingSound, NEW e \in Events, push(e)
    PROVE  RingSound'
<1> USE BufferSizeAssumption, EmptyAssumption DEF Cells
<1>1. At(count) \in Cells
  BY AtIs DEF RingSound
<1>2. msgs' \in [Cells -> Events \cup {Empty}]
  BY <1>1 DEF RingSound, push
<1>3. CASE count < bufferSize
  <2>1. head = 0 /\ At(count) = count
    BY <1>3, AtIs DEF RingSound
  <2>2. QED
    BY <1>2, <1>3, <2>1 DEF RingSound, push
<1>4. CASE count = bufferSize
  <2>1. head' \in Cells
    <3>1. head \in Cells /\ 1 \in 0..bufferSize
      BY DEF RingSound
    <3>2. (head + 1) % bufferSize =
            IF head + 1 < bufferSize THEN head + 1 ELSE head + 1 - bufferSize
      BY <3>1, Wrap
    <3>3. QED
      BY <1>4, <3>1, <3>2 DEF RingSound, push
  <2>2. QED
    BY <1>1, <1>2, <1>4, <2>1 DEF RingSound, push
<1>5. QED
  BY <1>3, <1>4 DEF RingSound

\* The ring never exposes a cell that was not written.
THEOREM RingIsSound == RingSpec => []RingSound
<1>1. Fresh => RingSound
  BY BufferSizeAssumption DEF Fresh, RingSound, Cells
<1>2. RingSound /\ [RingNext]_ringVars => RingSound'
  <2> SUFFICES ASSUME RingSound, [RingNext]_ringVars PROVE RingSound'
    OBVIOUS
  <2>1. CASE RingNext
    BY <2>1, PushInvariant, DiscardInvariant DEF RingNext
  <2>2. CASE UNCHANGED ringVars
    BY <2>2 DEF ringVars, RingSound, Cells
  <2>3. QED
    BY <2>1, <2>2
<1>3. QED
  BY <1>1, <1>2, PTL DEF RingSpec

---------------------------------------------------------------------------
\* What is visited is a sequence of count cells.
LEMMA VisitedIsSeq ==
    ASSUME RingSound
    PROVE  /\ Visited \in Seq(Events \cup {Empty})
           /\ Len(Visited) = count
           /\ DOMAIN Visited = 1..count
<1>1. \A i \in 1..count : At(i - 1) \in Cells
  BY AtIs, BufferSizeAssumption DEF RingSound, Cells
<1>2. \A i \in 1..count : msgs[At(i - 1)] \in Events \cup {Empty}
  BY <1>1 DEF RingSound
<1>3. count \in Nat
  BY BufferSizeAssumption DEF RingSound
<1>4. QED
  BY <1>2, <1>3 DEF Visited

\* While the ring fills, a push appends.
LEMMA FillingAppends ==
    ASSUME RingSound, NEW e \in Events, push(e), count < bufferSize
    PROVE  Visited' = Append(Visited, e)
<1> USE BufferSizeAssumption, EmptyAssumption
<1>1. head = 0 /\ head' = 0 /\ count' = count + 1 /\ count \in Nat
  BY DEF RingSound, push
<1>2. \A i \in 0..count : i \in Cells /\ At(i) = i
  BY <1>1, AtIs DEF RingSound, Cells
<1>3. msgs' = [msgs EXCEPT ![count] = e]
  BY <1>1, <1>2, count \in 0..count DEF push
<1>4. Visited = [i \in 1..count |-> msgs[i - 1]]
  BY <1>1, <1>2 DEF Visited
<1>5. \A i \in 1..(count + 1) : (0 + (i - 1)) % bufferSize = i - 1
  <2> TAKE i \in 1..(count + 1)
  <2>1. 0 \in Cells /\ i - 1 \in 0..bufferSize /\ i - 1 < bufferSize
    BY <1>1 DEF Cells
  <2>2. (0 + (i - 1)) % bufferSize =
          IF 0 + (i - 1) < bufferSize THEN 0 + (i - 1)
                                      ELSE 0 + (i - 1) - bufferSize
    BY <2>1, Wrap
  <2>3. QED
    BY <1>1, <2>1, <2>2
<1>6. Visited' = [i \in 1..(count + 1) |-> msgs'[i - 1]]
  BY <1>1, <1>5 DEF Visited, At
<1>7. Visited' = [i \in 1..(count + 1) |->
                      IF i <= count THEN Visited[i] ELSE e]
  BY <1>1, <1>2, <1>3, <1>4, <1>6 DEF RingSound
<1>8. QED
  <2> DEFINE S == Events \cup {Empty}
             new == [i \in 1..(count + 1) |->
                        IF i <= count THEN Visited[i] ELSE e]
  <2>1. Visited \in Seq(S) /\ Len(Visited) = count /\ e \in S
    BY VisitedIsSeq
  <2>2. \A i \in 1..count : Visited[i] \in S
    BY <2>1, ElementOfSeq
  <2>3. new \in Seq(S) /\ Len(new) = count + 1
    BY <1>1, <2>1, <2>2
  <2> HIDE DEF S
  <2>4. new = Append(Visited, e)
    <3>1. /\ Append(Visited, e) \in Seq(S)
          /\ Len(Append(Visited, e)) = count + 1
          /\ \A i \in 1..count : Append(Visited, e)[i] = Visited[i]
          /\ Append(Visited, e)[count + 1] = e
      BY <2>1, AppendProperties
    <3>2. \A i \in 1..(count + 1) : new[i] = Append(Visited, e)[i]
      BY <1>1, <3>1
    <3>3. QED
      BY ONLY <2>3, <3>1, <3>2, SeqEqual
  <2>5. QED
    BY <1>7, <2>4

\* A full ring drops its oldest element.
LEMMA FullShifts ==
    ASSUME RingSound, NEW e \in Events, push(e), count = bufferSize
    PROVE  Visited' = Append(Tail(Visited), e)
<1> USE BufferSizeAssumption, EmptyAssumption
<1> DEFINE next == IF head + 1 < bufferSize THEN head + 1 ELSE 0
<1>1. head \in Cells /\ next \in Cells /\ bufferSize \in 1..bufferSize
  BY DEF RingSound, Cells
<1>2. At(count) = head /\ count' = bufferSize
  BY AtIs DEF RingSound, push, Cells
<1>3. head' = next
  <2>1. (head + 1) % bufferSize =
          IF head + 1 < bufferSize THEN head + 1 ELSE head + 1 - bufferSize
    BY <1>1, Wrap
  <2>2. QED
    BY <1>1, <2>1 DEF push, Cells
<1>4. msgs' = [msgs EXCEPT ![head] = e]
  BY <1>2 DEF push
<1>5. \A i \in 1..(bufferSize - 1) :
        /\ (next + (i - 1)) % bufferSize = At(i)
        /\ At(i) # head
        /\ At(i) \in Cells
  <2> TAKE i \in 1..(bufferSize - 1)
  <2>1. At(i) = IF head + i < bufferSize THEN head + i
                                          ELSE head + i - bufferSize
    BY AtIs
  <2>2. (next + (i - 1)) % bufferSize =
          IF next + (i - 1) < bufferSize THEN next + (i - 1)
                                       ELSE next + (i - 1) - bufferSize
    BY <1>1, Wrap
  <2>3. QED
    BY <1>1, <2>1, <2>2 DEF Cells
<1>6. (next + (bufferSize - 1)) % bufferSize = head
  <2>1. bufferSize - 1 \in 0..bufferSize
    OBVIOUS
  <2>2. (next + (bufferSize - 1)) % bufferSize =
          IF next + (bufferSize - 1) < bufferSize
          THEN next + (bufferSize - 1) ELSE next + (bufferSize - 1) - bufferSize
    BY <1>1, <2>1, Wrap
  <2>3. QED
    BY <1>1, <2>2 DEF Cells
<1>7. Visited' = [i \in 1..bufferSize |-> msgs'[(next + (i - 1)) % bufferSize]]
  BY <1>2, <1>3 DEF Visited, At
<1>8. \A i \in 1..(bufferSize - 1) : Visited'[i] = Visited[i + 1]
  <2> TAKE i \in 1..(bufferSize - 1)
  <2>1. Visited[i + 1] = msgs[At(i)]
    <3>1. i + 1 \in 1..count /\ (i + 1) - 1 = i
      OBVIOUS
    <3>2. QED
      BY <3>1 DEF Visited
  <2>2. Visited'[i] = msgs'[At(i)]
    BY <1>5, <1>7
  <2>3. QED
    BY <1>4, <1>5, <2>1, <2>2 DEF RingSound
<1>9. Visited'[bufferSize] = e
  BY <1>1, <1>4, <1>6, <1>7 DEF RingSound
<1>10. Visited' = [i \in 1..bufferSize |->
                       IF i < bufferSize THEN Visited[i + 1] ELSE e]
  <2>1. \A i \in 1..bufferSize :
          Visited'[i] = IF i < bufferSize THEN Visited[i + 1] ELSE e
    BY <1>8, <1>9
  <2>2. QED
    BY <1>7, <2>1
<1>11. QED
  <2> DEFINE S == Events \cup {Empty}
             new == [i \in 1..bufferSize |->
                        IF i < bufferSize THEN Visited[i + 1] ELSE e]
  <2>1. Visited \in Seq(S) /\ Len(Visited) = bufferSize /\ e \in S
    BY VisitedIsSeq
  <2>2. /\ Tail(Visited) \in Seq(S)
        /\ Len(Tail(Visited)) = bufferSize - 1
        /\ \A i \in 1..(bufferSize - 1) : Tail(Visited)[i] = Visited[i + 1]
    BY <2>1
  <2>3. \A i \in 1..bufferSize : Visited[i] \in S
    BY <2>1, ElementOfSeq
  <2>4. new \in Seq(S) /\ Len(new) = bufferSize
    BY <1>1, <2>1, <2>3
  <2> HIDE DEF S
  <2>5. new = Append(Tail(Visited), e)
    <3>1. /\ Append(Tail(Visited), e) \in Seq(S)
          /\ Len(Append(Tail(Visited), e)) = bufferSize - 1 + 1
          /\ \A i \in 1..(bufferSize - 1) :
                Append(Tail(Visited), e)[i] = Tail(Visited)[i]
          /\ Append(Tail(Visited), e)[bufferSize - 1 + 1] = e
      BY <2>1, <2>2, AppendProperties
    <3>2. bufferSize - 1 + 1 = bufferSize
      OBVIOUS
    <3>3. \A i \in 1..bufferSize : new[i] = Append(Tail(Visited), e)[i]
      <4> TAKE i \in 1..bufferSize
      <4>1. CASE i < bufferSize
        BY <2>2, <3>1, <4>1
      <4>2. CASE i = bufferSize
        BY <3>1, <3>2, <4>2
      <4>3. i < bufferSize \/ i = bufferSize
        OBVIOUS
      <4>4. QED
        BY ONLY <4>1, <4>2, <4>3
    <3>4. QED
      BY ONLY <2>4, <3>1, <3>2, <3>3, SeqEqual
  <2>6. QED
    BY <1>10, <2>5

\* Resume reads the newest events, oldest first: the ring implements the log.
THEOREM RingImplements == RingSpec => IsReplayLog
<1>1. Fresh => Log!Init
  BY DEF Fresh, Log!Init, Visited
<1>2. RingSound /\ [RingNext]_ringVars => [Log!Next]_Visited
  <2> SUFFICES ASSUME RingSound, [RingNext]_ringVars PROVE [Log!Next]_Visited
    OBVIOUS
  <2>1. CASE UNCHANGED ringVars
    BY <2>1 DEF ringVars, Visited, At
  <2>2. ASSUME NEW e \in Events, push(e) PROVE Log!Push(e)
    <3>1. Len(Visited) = count
      BY DEF Visited, RingSound
    <3>2. CASE count < bufferSize
      BY <2>2, <3>1, <3>2, FillingAppends DEF Log!Push
    <3>3. CASE count = bufferSize
      BY <2>2, <3>1, <3>3, FullShifts DEF Log!Push
    <3>4. QED
      BY <3>2, <3>3, BufferSizeAssumption DEF RingSound
  <2>3. ASSUME Discard PROVE Log!Discard
    BY <2>3 DEF Discard, Log!Discard, Visited
  <2>4. QED
    BY <2>1, <2>2, <2>3 DEF RingNext, Log!Next
<1>3. QED
  BY <1>1, <1>2, RingIsSound, PTL DEF RingSpec, IsReplayLog, Log!Spec

---------------------------------------------------------------------------
\* Whatever Dispatch does to the ring is a push or a Discard.
LEMMA DispatchDrivesRing == Spec => RingSpec
<1>1. Init => Fresh
  BY DEF Init
<1>2. [Next]_vars => [RingNext]_ringVars
  <2> SUFFICES ASSUME [Next]_vars PROVE [RingNext]_ringVars
    OBVIOUS
  <2>1. CASE UNCHANGED vars
    BY <2>1 DEF vars
  <2>2. ASSUME NEW e \in Events, TakeSeq(e) \/ broadcastAgentStatus(e) \/ Load(e)
        PROVE  UNCHANGED ringVars
    BY <2>2 DEF TakeSeq, broadcastAgentStatus, Load
  <2>3. ASSUME NEW e \in Events, NEW c \in Conns, Push(e, c) \/ Enqueue(e, c)
        PROVE  [RingNext]_ringVars
    BY <2>3 DEF Push, Enqueue, RingNext
  <2>4. ASSUME NEW c \in Conns,
               \/ Connect(c) \/ Store(c) \/ ReadResume(c) \/ SendMissed(c) \/ Break(c)
               \/ Close(c) \/ GcClose(c) \/ Deliver(c)
        PROVE  UNCHANGED ringVars
    BY <2>4 DEF Connect, Store, ReadResume, SendMissed, Break, Close, GcClose, Deliver
  <2>5. ASSUME NEW c \in Conns, Unregister(c) PROVE [RingNext]_ringVars
    BY <2>5 DEF Unregister, RingNext
  <2>6. CASE GcStore \/ Lose \/ Restart
    BY <2>6 DEF GcStore, Lose, Restart, RingNext
  <2> QED
    BY <2>1, <2>2, <2>3, <2>4, <2>5, <2>6 DEF Next
<1> QED
  BY <1>1, <1>2, PTL DEF Spec, RingSpec

\* The buffer that Resume reads is the log of the newest events, whatever fan-outs,
\* unregistrations and restarts meet on it (hub.dispatchBuffer).
THEOREM Implementation == Spec => IsReplayLog
  BY DispatchDrivesRing, RingImplements, PTL

---------------------------------------------------------------------------
(* Whom a fan-out has listed. *)

\* A connection is in the list, or was in a list that was loaded, only once it has been
\* accepted: it can not come up later for a fan-out that has passed it.
ListedAreKnown ==
    /\ \A c \in clients : c \in Conns /\ line[c] # "new"
    /\ \A e \in Events : \A c \in listed[e] : c \in Conns /\ line[c] # "new"

Queues == \E Frames : queue \in [Conns -> Seq(Frames)]

Shapes ==
    /\ DOMAIN line = Conns /\ DOMAIN listed = Events /\ DOMAIN sender = Events
    /\ DOMAIN targets = Events /\ DOMAIN pushed = Events
    /\ Queues

\* bufferedSend has buffered for one connection at most.
OnePushed == \A e \in Events : \A c, d \in pushed[e] : c = d

ListInv == Shapes /\ OnePushed /\ ListedAreKnown /\ ListedReceive

LEMMA AppendKeeps ==
    ASSUME NEW S, NEW s \in Seq(S), NEW x, NEW e \in S, InSeq(x, s) \/ x = e
    PROVE  InSeq(x, Append(s, e))
<1>1. CASE InSeq(x, s)
  <2>1. PICK i \in 1..Len(s) : s[i] = x
    BY <1>1 DEF InSeq
  <2> QED
    BY <2>1 DEF InSeq
<1>2. CASE x = e
  BY <1>2 DEF InSeq
<1> QED
  BY <1>1, <1>2

LEMMA TailKeeps ==
    ASSUME NEW S, NEW s \in Seq(S), s # <<>>, NEW x, InSeq(x, s), x # Head(s)
    PROVE  InSeq(x, Tail(s))
<1>1. PICK i \in 1..Len(s) : s[i] = x
  BY DEF InSeq
<1>2. i # 1
  BY <1>1
<1>3. i - 1 \in 1..Len(Tail(s)) /\ Tail(s)[i - 1] = x
  BY <1>1, <1>2
<1> QED
  BY <1>3 DEF InSeq

LEMMA ListInvInit == Init => ListInv
  BY DEF Init, ListInv, Shapes, Queues, OnePushed, ListedAreKnown, ListedReceive

LEMMA EnqueueIsQueue ==
    ASSUME Queues, NEW c \in Conns, NEW e,
           queue' = queue \/ queue' = [queue EXCEPT ![c] = Append(@, e)]
    PROVE  /\ Queues'
           /\ queue' = [queue EXCEPT ![c] = Append(@, e)] => InSeq(e, queue'[c])
           /\ \A f : \A d \in Conns : InSeq(f, queue[d]) => InSeq(f, queue'[d])
<1>1. PICK Frames : queue \in [Conns -> Seq(Frames)]
  BY DEF Queues
<1>2. \A d \in Conns : queue[d] \in Seq(Frames \cup {e})
  BY <1>1
<1>3. Append(queue[c], e) \in Seq(Frames \cup {e})
  BY <1>2
<1>4. Queues'
  <2>1. queue' \in [Conns -> Seq(Frames \cup {e})]
    BY <1>1, <1>2, <1>3
  <2> QED
    BY <2>1 DEF Queues
<1>5. \A f : InSeq(f, queue[c]) \/ f = e => InSeq(f, Append(queue[c], e))
  BY <1>2, AppendKeeps
<1> QED
  BY <1>1, <1>4, <1>5

\* What a step must keep, once the lists have not grown: a frame that was queued for a
\* connection that is up stays queued or is received.
LEMMA Keeping ==
    ASSUME ListInv, Shapes', OnePushed', ListedAreKnown',
           listed' = listed, sender' = sender, targets' = targets, pushed' = pushed,
           dropped' = dropped,
           \A c \in Conns : line[c] # "new" /\ Up(c)' => Up(c),
           \A e \in Events, c \in Conns : Up(c)' /\ HasOrWillGet(c, e) => HasOrWillGet(c, e)'
    PROVE  ListInv'
  BY DEF ListInv, ListedReceive, ListedAreKnown

LEMMA FanOutKeeps ==
    ASSUME ListInv, NEW e \in Events,
           \/ TakeSeq(e) \/ broadcastAgentStatus(e) \/ Load(e)
           \/ \E c \in Conns : Push(e, c) \/ Enqueue(e, c)
    PROVE  ListInv'
<1> USE DEF ListInv, Shapes, OnePushed, conns, client, resume
<1>1. CASE TakeSeq(e) \/ broadcastAgentStatus(e)
  <2>1. /\ UNCHANGED <<listed, targets, pushed, dropped, conns, queue, client>>
        /\ missed' = missed
        /\ sender' = [sender EXCEPT ![e] = "numbered"]
    BY <1>1 DEF TakeSeq, broadcastAgentStatus
  <2>2. Shapes' /\ OnePushed' /\ ListedAreKnown'
    BY <2>1 DEF Queues, ListedAreKnown
  <2>3. ListedReceive'
    BY <2>1 DEF ListedReceive, Up, HasOrWillGet
  <2> QED
    BY <2>2, <2>3
<1>2. CASE Load(e)
  <2>1. Shapes' /\ OnePushed' /\ ListedAreKnown'
    BY <1>2 DEF Load, Queues, ListedAreKnown
  <2>2. ListedReceive'
    BY <1>2 DEF Load, ListedReceive, Up, HasOrWillGet
  <2> QED
    BY <2>1, <2>2
<1>3. ASSUME NEW c \in Conns, Push(e, c) PROVE ListInv'
  <2>1. Shapes' /\ OnePushed' /\ ListedAreKnown'
    BY <1>3 DEF Push, Queues, ListedAreKnown
  <2>2. ListedReceive'
    BY <1>3 DEF Push, ListedReceive, Up, HasOrWillGet
  <2> QED
    BY <2>1, <2>2
<1>4. ASSUME NEW c \in Conns, Enqueue(e, c) PROVE ListInv'
  <2>0. queue' = queue \/ queue' = [queue EXCEPT ![c] = Append(@, e)]
    BY <1>4 DEF Enqueue
  <2>1. Shapes' /\ OnePushed' /\ ListedAreKnown'
    <3>1. Queues'
      BY <2>0, EnqueueIsQueue
    <3>2. /\ DOMAIN sender' = Events /\ DOMAIN targets' = Events /\ DOMAIN pushed' = Events
          /\ UNCHANGED <<listed, conns>>
          /\ \A f \in Events : pushed'[f] \subseteq pushed[f]
      BY <1>4 DEF Enqueue
    <3>3. OnePushed'
      BY <3>2
    <3> QED
      BY <3>1, <3>2, <3>3 DEF ListedAreKnown
  <2>2. SUFFICES ASSUME NEW f \in Events, NEW d \in listed'[f], sender'[f] = "sending",
                        d \notin targets'[f] \cup pushed'[f], Up(d)', <<d, f>> \notin dropped'
                 PROVE  HasOrWillGet(d, f)'
    BY <2>1 DEF ListedReceive
  <2>3. /\ listed' = listed /\ Up(d) /\ <<d, f>> \notin dropped /\ d \in Conns
        /\ sender[f] = "sending" /\ received' = received
    BY <1>4, <2>2 DEF Enqueue, Up, ListedAreKnown
  <2>4. CASE f = e /\ d = c
    <3>1. queue' = [queue EXCEPT ![c] = Append(@, e)]
      BY <1>4, <2>2, <2>4 DEF Enqueue
    <3>2. InSeq(e, queue'[c])
      BY <3>1, EnqueueIsQueue
    <3> QED
      BY <2>4, <3>2 DEF HasOrWillGet
  <2>5. CASE ~(f = e /\ d = c)
    <3>1. d \notin targets[f] \cup pushed[f]
      <4>1. CASE f = e
        <5>1. sender'[e] = "sending"
          BY <2>2, <4>1
        <5>2. targets'[e] = targets[e] /\ pushed'[e] = {} /\ pushed[e] = {c}
          BY <1>4, <5>1 DEF Enqueue, GoOn
        <5> QED
          BY <1>4, <2>2, <2>5, <4>1, <5>2
      <4>2. CASE f # e
        BY <1>4, <2>2, <4>2 DEF Enqueue
      <4> QED
        BY <4>1, <4>2
    <3>2. HasOrWillGet(d, f)
      BY <2>3, <3>1 DEF ListedReceive
    <3>4. InSeq(f, queue[d]) => InSeq(f, queue'[d])
      BY <2>0, <2>3, EnqueueIsQueue
    <3> QED
      BY <3>2, <3>4, <2>3 DEF HasOrWillGet
  <2> QED
    BY <2>4, <2>5
<1> QED
  BY <1>1, <1>2, <1>3, <1>4

LEMMA ConnKeeps ==
    ASSUME ListInv, NEW c \in Conns,
           \/ Connect(c) \/ Store(c) \/ ReadResume(c) \/ SendMissed(c) \/ Break(c)
           \/ Unregister(c) \/ Close(c) \/ GcClose(c) \/ Deliver(c)
    PROVE  ListInv'
<1> USE DEF ListInv, Shapes, OnePushed, sending, conns, client, resume
<1>1. CASE Connect(c) \/ Store(c)
  <2>1. Shapes' /\ OnePushed' /\ ListedAreKnown'
    BY <1>1 DEF Connect, Store, Queues, ListedAreKnown
  <2>2. \A d \in Conns : line[d] # "new" /\ Up(d)' => Up(d)
    BY <1>1 DEF Connect, Store, Up
  <2>3. UNCHANGED <<sending, queue, received>>
    BY <1>1 DEF Connect, Store
  <2> QED
    BY <2>1, <2>2, <2>3, Keeping DEF HasOrWillGet
<1>2. CASE ReadResume(c) \/ Break(c) \/ Unregister(c) \/ GcClose(c)
  <2>2. Shapes' /\ OnePushed' /\ ListedAreKnown'
    BY <1>2 DEF ReadResume, Break, Unregister, GcClose, Queues, ListedAreKnown
  <2>3. \A d \in Conns : line[d] # "new" /\ Up(d)' => Up(d)
    BY <1>2 DEF ReadResume, Break, Unregister, GcClose, Up
  <2>4. UNCHANGED <<sending, queue, received>>
    BY <1>2 DEF ReadResume, Break, Unregister, GcClose
  <2> QED
    BY <2>2, <2>3, <2>4, Keeping DEF HasOrWillGet
<1>3. CASE SendMissed(c)
  <2>1. \/ queue' = queue
        \/ queue' = [queue EXCEPT ![c] = Append(@, Head(missed[c]))]
    BY <1>3 DEF SendMissed
  <2>2. Shapes' /\ OnePushed' /\ ListedAreKnown'
    BY <1>3, <2>1, EnqueueIsQueue DEF SendMissed, ListedAreKnown
  <2>3. \A d \in Conns : line[d] # "new" /\ Up(d)' => Up(d)
    BY <1>3 DEF SendMissed, Up
  <2>5. \A e \in Events, d \in Conns : InSeq(e, queue[d]) => InSeq(e, queue'[d])
    BY <2>1, EnqueueIsQueue
  <2>6. UNCHANGED <<sending, received>>
    BY <1>3 DEF SendMissed
  <2> QED
    BY <2>2, <2>3, <2>5, <2>6, Keeping DEF HasOrWillGet
<1>4. CASE Close(c)
  <2>1. Shapes' /\ OnePushed' /\ ListedAreKnown'
    BY <1>4 DEF Close, Queues, ListedAreKnown
  <2>2. \A d \in Conns : Up(d)' => Up(d) /\ d # c
    BY <1>4 DEF Close, Up
  <2>3. UNCHANGED <<sending, received>> /\ \A d \in Conns \ {c} : queue'[d] = queue[d]
    BY <1>4 DEF Close
  <2> QED
    BY <2>1, <2>2, <2>3, Keeping DEF HasOrWillGet
<1>5. CASE Deliver(c)
  <2>1. /\ received' = received \cup {Head(queue[c])} /\ queue[c] # <<>>
        /\ queue' = [queue EXCEPT ![c] = Tail(@)]
        /\ UNCHANGED <<sending, conns, missed, online>>
    BY <1>5 DEF Deliver
  <2>2. Shapes' /\ OnePushed' /\ ListedAreKnown'
    <3>1. Queues'
      <4>1. PICK Frames : queue \in [Conns -> Seq(Frames)]
        BY DEF Queues
      <4>2. queue' \in [Conns -> Seq(Frames)]
        BY <2>1, <4>1
      <4> QED
        BY <4>2 DEF Queues
    <3> QED
      BY <2>1, <3>1 DEF ListedAreKnown
  <2>3. \A d \in Conns : Up(d)' => Up(d)
    BY <2>1 DEF Up
  <2>4. \A e \in Events, d \in Conns : HasOrWillGet(d, e) => HasOrWillGet(d, e)'
    BY <2>1, TailKeeps DEF HasOrWillGet, Queues
  <2> QED
    BY <2>1, <2>2, <2>3, <2>4, Keeping
<1> QED
  BY <1>1, <1>2, <1>3, <1>4, <1>5

LEMMA OthersKeep == ASSUME ListInv, GcStore \/ Lose \/ Restart PROVE ListInv'
<1> USE DEF ListInv, Shapes, OnePushed, sending, conns, client, resume
<1>1. CASE Lose
  <2>1. Shapes' /\ OnePushed' /\ ListedAreKnown'
    BY <1>1 DEF Lose, Queues, ListedAreKnown
  <2> QED
    BY <1>1, <2>1, Keeping DEF Lose, Up
<1>2. CASE Restart
  <2>1. Shapes' /\ OnePushed' /\ ListedAreKnown'
    BY <1>2 DEF Restart, Queues, ListedAreKnown
  <2> QED
    BY <1>2, <2>1 DEF Restart, ListedReceive
<1>3. CASE GcStore
  <2>1. Shapes' /\ OnePushed' /\ ListedAreKnown'
    BY <1>3 DEF GcStore, Swept, Queues, ListedAreKnown
  <2>2. \A d \in Conns : Up(d)' => Up(d)
    BY <1>3 DEF GcStore, Up
  <2>3. UNCHANGED <<sending, queue, received>>
    BY <1>3 DEF GcStore
  <2> QED
    BY <2>1, <2>2, <2>3, Keeping DEF HasOrWillGet
<1> QED
  BY <1>1, <1>2, <1>3

LEMMA ListInvNext == ListInv /\ [Next]_vars => ListInv'
<1> SUFFICES ASSUME ListInv, [Next]_vars PROVE ListInv'
  OBVIOUS
<1>1. CASE UNCHANGED vars
  BY <1>1, Keeping DEF vars, sending, conns, client, resume, ListInv, Shapes, Queues, OnePushed, ListedAreKnown, Up,
                       HasOrWillGet
<1> QED
  BY <1>1, FanOutKeeps, ConnKeeps, OthersKeep DEF Next

\* Who was in a fan-out's list and is still up gets the frame, or its own queue was full
\* (hub.SendToUser, bufferedSend).
THEOREM ListedAreServed == Spec => []ListedReceive
<1>1. ListInv => ListedReceive
  BY DEF ListInv
<1> QED
  BY <1>1, ListInvInit, ListInvNext, PTL DEF Spec
=============================================================================
