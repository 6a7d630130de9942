------------------------------ MODULE Dispatch ------------------------------
(***************************************************************************)
(* How events travel to the connections of one member: the seq allocator,  *)
(* the fan-out of SendToUser / SendToAgent (bufferedSend), the per-member  *)
(* replay buffer, the Send queues, the Resume frame, and the SDK client    *)
(* that remembers the largest seq it has seen.                             *)
(*                                                                         *)
(* A fan-out is a goroutine of its own (an HTTP handler, a readPump): it   *)
(* takes a seq, loads the connection list once, then buffers and enqueues  *)
(* for one connection after the other while hub.Run changes the list.      *)
(* The member's replay buffer is the ring of module RingBuffer.            *)
(***************************************************************************)
EXTENDS RingBuffer, Naturals, Sequences, FiniteSets

\* Events, from RingBuffer: those fanned out to the member, each once.
CONSTANTS
    Conns,          \* the member's connections, each dialled once
    sendSize,       \* capacity of Client.Send (256 in the code)
    MaxRestarts     \* how often the server restarts

ASSUME SendSizeAssumption == sendSize \in Nat \ {0}

VARIABLES
    nextSeq,    \* Hub.seq
    seqOf,      \* WSMessage.S; 0 until numbered
    sender,     \* where the fan-out of an event is
    targets,    \* connections of the loaded list still to be served
    pushed,     \* the connection bufferedSend has buffered for, at most one
    clients,    \* the member's entry in Hub.clients
    line,       \* the connection as the server sees it
    closed,     \* Client.Close has run
    queue,      \* Client.Send
    askFrom,    \* last_seq of a Resume frame not yet read; 0 when none
    missed,     \* what the Resume handler has yet to enqueue
    online,     \* the connection the client application has open
    lastSeq,    \* the client's retry.lastSeq
    received,   \* events the client has been given
    restarts,
    listed,     \* history: the list each fan-out loaded
    dropped,    \* history: <<conn, event>> refused by a full queue
    due         \* history: events numbered once the client had received one

sending == <<nextSeq, seqOf, sender, targets, pushed, listed, dropped, due>>
conns == <<clients, line, closed>>
resume == <<askFrom, missed>>
client == <<online, lastSeq, received>>
vars == <<sending, conns, queue, ringVars, resume, client, restarts>>

InSeq(x, s) == \E i \in 1..Len(s) : s[i] = x

Init ==
    /\ nextSeq = 0
    /\ seqOf = [e \in Events |-> 0]
    /\ sender = [e \in Events |-> "new"]
    /\ targets = [e \in Events |-> {}]
    /\ pushed = [e \in Events |-> {}]
    /\ clients = {}
    /\ line = [c \in Conns |-> "new"]
    /\ closed = {}
    /\ queue = [c \in Conns |-> <<>>]
    /\ Fresh
    /\ askFrom = [c \in Conns |-> 0]
    /\ missed = [c \in Conns |-> <<>>]
    /\ online = {}
    /\ lastSeq = 0
    /\ received = {}
    /\ restarts = 0
    /\ listed = [e \in Events |-> {}]
    /\ dropped = {}
    /\ due = {}

Served(e) == targets[e] = {} /\ pushed[e] = {}

\* hub.Run is in the middle of no Register or Unregister, and of no status
\* broadcast of its own, whose message carries no seq.
BetweenEvents ==
    /\ \A d \in Conns : line[d] \notin {"accepted", "dropped"}
    /\ \A e \in Events : seqOf[e] = 0 /\ sender[e] # "new" =>
           sender[e] # "numbered" /\ Served(e)

\* Nor in the middle of gcStaleClients.
Swept == {c \in Conns : line[c] = "swept"}
HubFree == BetweenEvents /\ Swept = {}

---------------------------------------------------------------------------
(* The fan-out *)

\* Every broadcast takes its S from NextSeq,
TakeSeq(e) ==
    /\ sender[e] = "new"
    /\ sender' = [sender EXCEPT ![e] = "numbered"]
    /\ nextSeq' = nextSeq + 1
    /\ seqOf' = [seqOf EXCEPT ![e] = nextSeq + 1]
    /\ due' = IF received # {} THEN due \cup {e} ELSE due
    /\ UNCHANGED <<targets, pushed, listed, dropped>>
    /\ UNCHANGED <<conns, queue, ringVars, resume, client, restarts>>

\* except hub.Run's own broadcastAgentStatus, whose message carries none.
broadcastAgentStatus(e) ==
    /\ sender[e] = "new"
    /\ HubFree
    /\ sender' = [sender EXCEPT ![e] = "numbered"]
    /\ UNCHANGED <<nextSeq, seqOf, targets, pushed, listed, dropped, due>>
    /\ UNCHANGED <<conns, queue, ringVars, resume, client, restarts>>

\* h.clients.Load; with no entry there is nothing to do, not even to buffer.
Load(e) ==
    /\ sender[e] = "numbered"
    /\ sender' = [sender EXCEPT ![e] = "sending"]
    /\ targets' = [targets EXCEPT ![e] = clients]
    /\ listed' = [listed EXCEPT ![e] = clients]
    /\ UNCHANGED <<nextSeq, seqOf, pushed, dropped, due>>
    /\ UNCHANGED <<conns, queue, ringVars, resume, client, restarts>>

\* bufferedSend, first half: LoadOrStore the buffer and push, once per
\* connection of the list. (A Delete between the two loses the event as a
\* Delete right after them does.)
Push(e, c) ==
    /\ sender[e] = "sending"
    /\ c \in targets[e]
    /\ pushed[e] = {}
    /\ push(e)
    /\ targets' = [targets EXCEPT ![e] = @ \ {c}]
    /\ pushed' = [pushed EXCEPT ![e] = {c}]
    /\ UNCHANGED <<nextSeq, seqOf, sender, listed, dropped, due>>
    /\ UNCHANGED <<conns, queue, resume, client, restarts>>

\* The connections the loop goes on with when a queue was full.
GiveUpRest(e) == {}
GoOn(e) == targets[e]

\* Client.Send takes a frame without blocking.
HasRoom(c) == Len(queue[c]) < sendSize

\* Second half: the send on client.Send. A full queue drops the frame; a
\* closed channel panics and takes the rest of the loop with it.
Enqueue(e, c) ==
    /\ sender[e] = "sending"
    /\ c \in pushed[e]
    /\ pushed' = [pushed EXCEPT ![e] = {}]
    /\ IF c \in closed
       THEN /\ sender' = [sender EXCEPT ![e] = "panicked"]
            /\ targets' = [targets EXCEPT ![e] = {}]
            /\ UNCHANGED <<queue, dropped>>
       ELSE IF HasRoom(c)
       THEN /\ queue' = [queue EXCEPT ![c] = Append(@, e)]
            /\ UNCHANGED <<sender, targets, dropped>>
       ELSE /\ dropped' = dropped \cup {<<c, e>>}
            /\ targets' = [targets EXCEPT ![e] = GoOn(e)]
            /\ UNCHANGED <<sender, queue>>
    /\ UNCHANGED <<nextSeq, seqOf, listed, due>>
    /\ UNCHANGED <<conns, ringVars, resume, client, restarts>>

---------------------------------------------------------------------------
(* Connections *)

\* The client connects, identifies, and, if it has seen a seq, asks for what
\* came after it. ServeHTTP's Register has been received by hub.Run.
Connect(c) ==
    /\ online = {}
    /\ line[c] = "new"
    /\ HubFree
    /\ online' = {c}
    /\ line' = [line EXCEPT ![c] = "accepted"]
    /\ askFrom' = [askFrom EXCEPT ![c] = lastSeq]
    /\ UNCHANGED sending
    /\ UNCHANGED <<clients, closed, queue, ringVars, missed, lastSeq, received,
                   restarts>>

Store(c) ==
    /\ line[c] = "accepted"
    /\ line' = [line EXCEPT ![c] = "up"]
    /\ clients' = clients \cup {c}
    /\ UNCHANGED sending
    /\ UNCHANGED <<closed, queue, ringVars, resume, client, restarts>>

\* The events GetMissedMessages returns.
AfterSeq(s) == getAfter({e \in Events : seqOf[e] > s})

ReadResume(c) ==
    /\ line[c] \in {"accepted", "up"}
    /\ askFrom[c] > 0
    /\ askFrom' = [askFrom EXCEPT ![c] = 0]
    /\ missed' = [missed EXCEPT ![c] = AfterSeq(askFrom[c])]
    /\ UNCHANGED sending
    /\ UNCHANGED <<conns, queue, ringVars, client, restarts>>

\* The loop over the missed frames; a full queue ends readPump.
SendMissed(c) ==
    /\ missed[c] # <<>>
    /\ line[c] \in {"accepted", "up"}
    /\ IF c \notin closed /\ HasRoom(c)
       THEN /\ queue' = [queue EXCEPT ![c] = Append(@, Head(missed[c]))]
            /\ missed' = [missed EXCEPT ![c] = Tail(@)]
            /\ UNCHANGED line
       ELSE /\ line[c] = "up"
            /\ line' = [line EXCEPT ![c] = "broken"]
            /\ missed' = [missed EXCEPT ![c] = <<>>]
            /\ UNCHANGED queue
    /\ UNCHANGED sending
    /\ UNCHANGED <<clients, closed, ringVars, askFrom, client, restarts>>

\* A pump of the connection stops.
Break(c) ==
    /\ line[c] = "up"
    /\ line' = [line EXCEPT ![c] = "broken"]
    /\ missed' = [missed EXCEPT ![c] = <<>>]
    /\ UNCHANGED sending
    /\ UNCHANGED <<clients, closed, queue, ringVars, askFrom, client, restarts>>

\* hub.Run's Unregister: the member's buffer goes with the last connection.
\* The other pump's Unregister finds c gone and changes none of this.
Unregister(c) ==
    /\ line[c] = "broken"
    /\ HubFree
    /\ line' = [line EXCEPT ![c] = "dropped"]
    /\ clients' = clients \ {c}
    /\ IF clients # {} /\ clients \ {c} = {} THEN Discard
                                            ELSE UNCHANGED ringVars
    /\ UNCHANGED sending
    /\ UNCHANGED <<closed, queue, resume, client, restarts>>

Close(c) ==
    /\ line[c] = "dropped"
    /\ line' = [line EXCEPT ![c] = "gone"]
    /\ closed' = closed \cup {c}
    /\ queue' = [queue EXCEPT ![c] = <<>>]
    /\ UNCHANGED sending
    /\ UNCHANGED <<clients, ringVars, resume, client, restarts>>

\* gcStaleClients closes the silent connections one after the other; the list
\* that others load still has them,
GcClose(c) ==
    /\ BetweenEvents
    /\ c \in clients \ closed
    /\ closed' = closed \cup {c}
    /\ line' = [line EXCEPT ![c] = "swept"]
    /\ missed' = [missed EXCEPT ![c] = <<>>]
    /\ UNCHANGED sending
    /\ UNCHANGED <<clients, queue, ringVars, askFrom, client, restarts>>

\* until the others are stored. The buffer stays.
GcStore ==
    /\ Swept # {}
    /\ clients' = clients \ Swept
    /\ line' = [c \in Conns |-> IF c \in Swept THEN "broken" ELSE line[c]]
    /\ UNCHANGED sending
    /\ UNCHANGED <<closed, queue, ringVars, resume, client, restarts>>

---------------------------------------------------------------------------
(* The client *)

\* writePump writes the head of the queue and the client takes it, also while
\* only the other pump has stopped. A frame without s leaves lastSeq alone.
Deliver(c) ==
    /\ c \in online \ closed
    /\ line[c] # "new"
    /\ queue[c] # <<>>
    /\ LET e == Head(queue[c])
       IN  /\ received' = received \cup {e}
           /\ lastSeq' = IF seqOf[e] > lastSeq THEN seqOf[e] ELSE lastSeq
    /\ queue' = [queue EXCEPT ![c] = Tail(@)]
    /\ UNCHANGED sending
    /\ UNCHANGED <<conns, ringVars, resume, online, restarts>>

\* The client loses its connection; the server need not have noticed.
Lose ==
    /\ online # {}
    /\ online' = {}
    /\ UNCHANGED sending
    /\ UNCHANGED <<conns, queue, ringVars, resume, lastSeq, received, restarts>>

\* The server stops and starts again: seq, ringVars, list and queues were in
\* memory, the client's lastSeq was not.
Restart ==
    /\ restarts < MaxRestarts
    /\ restarts' = restarts + 1
    /\ nextSeq' = 0
    /\ sender' = [e \in Events |->
                    IF sender[e] = "new" THEN "new" ELSE "killed"]
    /\ targets' = [e \in Events |-> {}]
    /\ pushed' = [e \in Events |-> {}]
    /\ clients' = {}
    /\ closed' = {c \in Conns : line[c] # "new"}
    /\ line' = [c \in Conns |-> IF line[c] = "new" THEN "new" ELSE "gone"]
    /\ queue' = [c \in Conns |-> <<>>]
    /\ Discard
    /\ askFrom' = [c \in Conns |-> 0]
    /\ missed' = [c \in Conns |-> <<>>]
    /\ online' = {}
    /\ UNCHANGED <<seqOf, lastSeq, received, listed, dropped, due>>

---------------------------------------------------------------------------
Next ==
    \/ \E e \in Events :
         \/ TakeSeq(e) \/ broadcastAgentStatus(e) \/ Load(e)
         \/ \E c \in Conns : Push(e, c) \/ Enqueue(e, c)
    \/ \E c \in Conns :
         \/ Connect(c) \/ Store(c) \/ ReadResume(c) \/ SendMissed(c)
         \/ Break(c) \/ Unregister(c) \/ Close(c) \/ GcClose(c) \/ Deliver(c)
    \/ GcStore
    \/ Lose
    \/ Restart

Spec == Init /\ [][Next]_vars

---------------------------------------------------------------------------
(* Properties *)

\* The client and the server both have c open.
Up(c) == c \in online /\ line[c] \in {"accepted", "up"}
HasOrWillGet(c, e) == e \in received \/ InSeq(e, queue[c])

(***************************************************************************)
(* A fan-out that does not panic reaches every connection that was in its  *)
(* list and is still up, whatever happened to the others of the list in    *)
(* the meantime; only a full queue of its own costs a connection a frame.  *)
(***************************************************************************)
ListedReceive ==
    \A e \in Events : \A c \in listed[e] :
        /\ sender[e] = "sending"
        /\ c \notin targets[e] \cup pushed[e]
        /\ Up(c)
        /\ <<c, e>> \notin dropped
        => HasOrWillGet(c, e)

\* Nothing is under way: the client is connected and resumed, every fan-out
\* is over, and every queue it reads is empty.
Quiet(c) ==
    /\ Up(c)
    /\ line[c] = "up"
    /\ queue[c] = <<>>
    /\ missed[c] = <<>>
    /\ askFrom[c] = 0
    /\ \A e \in Events : sender[e] # "numbered" /\ Served(e)

=============================================================================
