-------------------------------- MODULE Hub --------------------------------
(***************************************************************************)
(* The connection side of the WebSocket hub: hub.Run's event loop, the two *)
(* pumps of every connection (handler/ws_handler.go), the Redis presence   *)
(* keys, the agent-to-owner map behind AGENT_ONLINE / AGENT_OFFLINE and    *)
(* the mini-program subscription tables.                                   *)
(*                                                                         *)
(* A Client object is an element of Conns: it is dialled once and never    *)
(* reused, so a reconnection is another element with the same Member.      *)
(* hub.Run is one goroutine: it takes one event when Idle and runs it step *)
(* by step (work[c]); the pumps and Redis run between those steps.         *)
(***************************************************************************)
EXTENDS Naturals, FiniteSets

CONSTANTS
    Conns,      \* the Client objects
    Agents,     \* members that connect with role "agent"
    Users,      \* members that connect with role "user" (admin is made user)
    Channels,   \* (appid, coll) pairs that pass the subscription gate
    Member,     \* the role:id key of every connection
    Owner       \* agents.owner_id

ASSUME MembersAssumption ==
    /\ Agents \cap Users = {}
    /\ Member \in [Conns -> Agents \cup Users]
    /\ Owner \in [Agents -> Users]

VARIABLES
    reader,         \* ServeHTTP and its readPump
    writer,         \* the writePump goroutine
    work,           \* the step hub.Run has reached for the connection's event
    sweeping,       \* the key gcStaleClients is at: one member, or none
    unchecked,      \* the connections of its list it has yet to look at
    alive,          \* the ones it keeps
    clients,        \* Hub.clients; {} when the key is absent
    closed,         \* Client.Close has run: Send and the socket are closed
    stale,          \* LastHeartbeat is older than heartbeatTimeout
    presence,       \* members whose presence key is in Redis
    owners,         \* the keys of Hub.agentOwnerMap
    status,         \* the last agent status sent to the owner's apps
    asked,          \* channels that passed the gate, about to be subscribed
    mpChannels,     \* Hub.mpChannels
    mpClientChans   \* Hub.mpClientChans

pumps == <<reader, writer>>
gc == <<sweeping, unchecked, alive>>
tables == <<clients, owners, status>>
mp == <<asked, mpChannels, mpClientChans>>
vars == <<reader, writer, work, gc, clients, closed, stale, presence, owners,
          status, asked, mpChannels, mpClientChans>>

Members == Agents \cup Users
ConnsOf(m) == {c \in Conns : Member[c] = m}

ReaderStates == {"new", "dialing", "reading", "refreshing", "subscribing",
                 "leaving", "gone"}
WriterStates == {"new", "writing", "leaving", "gone"}
WorkSteps == {"none", "register", "announce", "drop", "cancel", "cleanup"}
Statuses == {"none", "online", "offline"}

\* hub.Run is at its select.
Idle == sweeping = {} /\ \A c \in Conns : work[c] = "none"

Init ==
    /\ reader = [c \in Conns |-> "new"]
    /\ writer = [c \in Conns |-> "new"]
    /\ work = [c \in Conns |-> "none"]
    /\ sweeping = {} /\ unchecked = {} /\ alive = {}
    /\ clients = [m \in Members |-> {}]
    /\ closed = {}
    /\ stale = {}
    /\ presence = {}
    /\ owners = {}
    /\ status = [a \in Agents |-> "none"]
    /\ asked = [c \in Conns |-> {}]
    /\ mpChannels = [ch \in Channels |-> {}]
    /\ mpClientChans = [c \in Conns |-> {}]

---------------------------------------------------------------------------
(* ServeHTTP and hub.Run's Register branch *)

\* Upgrade, Hello, Identify and the token checks have passed; ServeHTTP
\* blocks on h.hub.Register <- client.
Dial(c) ==
    /\ reader[c] = "new"
    /\ reader' = [reader EXCEPT ![c] = "dialing"]
    /\ UNCHANGED <<writer, work, gc, clients, closed, stale, presence, owners,
                   status, asked, mpChannels, mpClientChans>>

\* The rendezvous on the unbuffered channel: both pumps start at once, while
\* hub.Run has yet to store the client.
TakeRegister(c) ==
    /\ Idle
    /\ reader[c] = "dialing"
    /\ reader' = [reader EXCEPT ![c] = "reading"]
    /\ writer' = [writer EXCEPT ![c] = "writing"]
    /\ work' = [work EXCEPT ![c] = "register"]
    /\ UNCHANGED <<gc, closed, stale, presence>>
    /\ UNCHANGED tables
    /\ UNCHANGED mp

StoreClient(c) ==
    /\ work[c] = "register"
    /\ clients' = [clients EXCEPT ![Member[c]] = @ \cup {c}]
    /\ work' = [work EXCEPT ![c] = "announce"]
    /\ UNCHANGED <<gc, closed, stale, presence, owners, status>>
    /\ UNCHANGED pumps
    /\ UNCHANGED mp

\* agentOwnerMap.Store; with no entry Unregister will not tell the owner.
NotStored(a) == owners
Stored(a) == owners \cup {a}

\* presence.Online; an agent's owner is looked up (GetByID may fail), stored
\* and told AGENT_ONLINE.
Announce(c) ==
    /\ work[c] = "announce"
    /\ work' = [work EXCEPT ![c] = "none"]
    /\ presence' = presence \cup {Member[c]}
    /\ \/ /\ Member[c] \in Agents
          /\ owners' = Stored(Member[c])
          /\ status' = [status EXCEPT ![Member[c]] = "online"]
       \/ UNCHANGED <<owners, status>>
    /\ UNCHANGED <<gc, clients, closed, stale>>
    /\ UNCHANGED pumps
    /\ UNCHANGED mp

---------------------------------------------------------------------------
(* readPump and writePump *)

\* RefreshTTL writes the key with SET; EXPIRE would not bring it back.
ExpireOnly(m) == presence
RefreshTTL(m) == presence \cup {m}

\* An OpHeartbeat frame: LastHeartbeat is set, then the presence key is
\* written and the ACK sent. A send on a closed channel panics; the deferred
\* Unregister still runs.
ReadHeartbeat(c) ==
    /\ reader[c] = "reading"
    /\ reader' = [reader EXCEPT ![c] = "refreshing"]
    /\ stale' = stale \ {c}
    /\ UNCHANGED <<writer, work, gc, closed, presence>>
    /\ UNCHANGED tables
    /\ UNCHANGED mp

Heartbeat(c) ==
    /\ reader[c] = "refreshing"
    /\ presence' = RefreshTTL(Member[c])
    /\ reader' = [reader EXCEPT ![c] =
                    IF c \in closed THEN "leaving" ELSE "reading"]
    /\ UNCHANGED <<writer, work, gc, closed, stale>>
    /\ UNCHANGED tables
    /\ UNCHANGED mp

\* An OpMpSubscribe frame of a user whose gate (GetByAppid, visibility,
\* declared collections) let the channels S through; other frames change
\* nothing.
ReadSubscribe(c, S) ==
    /\ reader[c] = "reading"
    /\ Member[c] \in Users
    /\ S # {}
    /\ reader' = [reader EXCEPT ![c] = "subscribing"]
    /\ asked' = [asked EXCEPT ![c] = S]
    /\ UNCHANGED <<writer, work, gc, closed, stale, presence>>
    /\ UNCHANGED tables
    /\ UNCHANGED <<mpChannels, mpClientChans>>

\* The reverse index after a subscription: merged with what c already had.
Merged(c) == mpClientChans[c] \cup asked[c]

SubscribeMp(c) ==
    /\ reader[c] = "subscribing"
    /\ mpChannels' = [ch \in Channels |->
            IF ch \in asked[c] THEN mpChannels[ch] \cup {c}
                               ELSE mpChannels[ch]]
    /\ mpClientChans' = [mpClientChans EXCEPT ![c] = Merged(c)]
    /\ asked' = [asked EXCEPT ![c] = {}]
    /\ reader' = [reader EXCEPT ![c] = "reading"]
    /\ UNCHANGED <<writer, work, gc, closed, stale, presence>>
    /\ UNCHANGED tables

\* UnsubscribeMp walks the client's own channels, found in the reverse index.
WalkedOnce(c) == IF c \in closed THEN {} ELSE mpClientChans[c]
Walked(c) == mpClientChans[c]

UnsubscribeMp(c) ==
    /\ mpChannels' = [ch \in Channels |->
            IF ch \in Walked(c) THEN mpChannels[ch] \ {c}
                                ELSE mpChannels[ch]]
    /\ mpClientChans' = [mpClientChans EXCEPT ![c] = {}]

ReadUnsubscribe(c) ==
    /\ reader[c] = "reading"
    /\ UnsubscribeMp(c)
    /\ UNCHANGED <<work, gc, closed, stale, presence, asked>>
    /\ UNCHANGED pumps
    /\ UNCHANGED tables

\* ReadMessage fails: peer gone, 90 s read deadline, socket closed by Close.
\* A Resume that fills Send ends the pump in the same way.
ReaderStops(c) ==
    /\ reader[c] = "reading"
    /\ reader' = [reader EXCEPT ![c] = "leaving"]
    /\ UNCHANGED <<writer, work, gc, closed, stale, presence>>
    /\ UNCHANGED tables
    /\ UNCHANGED mp

\* A write fails, or Send is closed and the range loop ends.
WriterStops(c) ==
    /\ writer[c] = "writing"
    /\ writer' = [writer EXCEPT ![c] = "leaving"]
    /\ UNCHANGED <<reader, work, gc, closed, stale, presence>>
    /\ UNCHANGED tables
    /\ UNCHANGED mp

---------------------------------------------------------------------------
(* hub.Run's Unregister branch, entered once per pump *)

TakeUnregister(c) ==
    /\ Idle
    /\ \/ /\ reader[c] = "leaving"
          /\ reader' = [reader EXCEPT ![c] = "gone"]
          /\ UNCHANGED writer
       \/ /\ writer[c] = "leaving"
          /\ writer' = [writer EXCEPT ![c] = "gone"]
          /\ UNCHANGED reader
    /\ work' = [work EXCEPT ![c] = "drop"]
    /\ UNCHANGED <<gc, closed, stale, presence>>
    /\ UNCHANGED tables
    /\ UNCHANGED mp

\* The connections left under the key when c goes.
FilteredAll(c) == {}
Filtered(c) == clients[Member[c]] \ {c}

\* The key goes with its last connection (an absent key is left alone). The
\* presence DEL runs under the connection's own ctx, which ServeHTTP cancels
\* when readPump has returned: it may then fail.
DropClient(c) ==
    /\ work[c] = "drop"
    /\ clients' = [clients EXCEPT ![Member[c]] = Filtered(c)]
    /\ IF clients[Member[c]] # {} /\ Filtered(c) = {}
       THEN \/ presence' = presence \ {Member[c]}
            \/ reader[c] = "gone" /\ UNCHANGED presence
       ELSE UNCHANGED presence
    /\ work' = [work EXCEPT ![c] = "cancel"]
    /\ UNCHANGED <<gc, closed, stale, owners, status>>
    /\ UNCHANGED pumps
    /\ UNCHANGED mp

\* rpcRegistry.CancelAllForAgent; the registry is module Rpc.
CancelRpcs(c) ==
    /\ work[c] = "cancel"
    /\ work' = [work EXCEPT ![c] = "cleanup"]
    /\ UNCHANGED <<gc, closed, stale, presence>>
    /\ UNCHANGED pumps
    /\ UNCHANGED tables
    /\ UNCHANGED mp

\* Client.Close: Send and the socket are closed, once.
LeaveOpen(c) == closed' = closed
Close(c) == closed' = closed \cup {c}

\* UnsubscribeMp, Client.Close, and AGENT_OFFLINE if the owner was stored.
CleanUp(c) ==
    /\ work[c] = "cleanup"
    /\ work' = [work EXCEPT ![c] = "none"]
    /\ UnsubscribeMp(c)
    /\ Close(c)
    /\ IF Member[c] \in owners
       THEN /\ owners' = owners \ {Member[c]}
            /\ status' = [status EXCEPT ![Member[c]] = "offline"]
       ELSE UNCHANGED <<owners, status>>
    /\ UNCHANGED <<gc, clients, stale, presence, asked>>
    /\ UNCHANGED pumps

---------------------------------------------------------------------------
(* Time: heartbeats that stop, the stale-connection sweep, the Redis TTL *)

FallSilent(c) ==
    /\ c \in clients[Member[c]] \ stale
    /\ stale' = stale \cup {c}
    /\ UNCHANGED <<work, gc, closed, presence>>
    /\ UNCHANGED pumps
    /\ UNCHANGED tables
    /\ UNCHANGED mp

\* gcStaleClients takes the list of one key; hub.Run does nothing else until
\* it is done, everybody else goes on and may load the list.
GcTake(m) ==
    /\ Idle
    /\ clients[m] # {}
    /\ sweeping' = {m}
    /\ unchecked' = clients[m]
    /\ UNCHANGED <<work, alive, closed, stale, presence>>
    /\ UNCHANGED pumps
    /\ UNCHANGED tables
    /\ UNCHANGED mp

\* What is stale is closed at once,
KeepsStale(c) == alive \cup {c}
Keeps(c) == IF c \in stale THEN alive ELSE alive \cup {c}

GcCheck(c) ==
    /\ c \in unchecked
    /\ unchecked' = unchecked \ {c}
    /\ closed' = IF c \in stale THEN closed \cup {c} ELSE closed
    /\ alive' = Keeps(c)
    /\ UNCHANGED <<work, sweeping, stale, presence>>
    /\ UNCHANGED pumps
    /\ UNCHANGED tables
    /\ UNCHANGED mp

\* and leaves the map when the rest is stored, or the key deleted. Neither
\* the presence key nor the subscriptions are touched.
GcStore(m) ==
    /\ m \in sweeping
    /\ unchecked = {}
    /\ clients' = [clients EXCEPT ![m] = alive]
    /\ sweeping' = {}
    /\ alive' = {}
    /\ UNCHANGED <<work, unchecked, closed, stale, presence, owners, status>>
    /\ UNCHANGED pumps
    /\ UNCHANGED mp

\* The presence key is lost: TTL, eviction, a Redis flush.
Expire(m) ==
    /\ m \in presence
    /\ presence' = presence \ {m}
    /\ UNCHANGED <<work, gc, closed, stale>>
    /\ UNCHANGED pumps
    /\ UNCHANGED tables
    /\ UNCHANGED mp

---------------------------------------------------------------------------
HubStep(c) == StoreClient(c) \/ Announce(c) \/ DropClient(c) \/ CancelRpcs(c)
                \/ CleanUp(c)
GcStep == (\E c \in Conns : GcCheck(c)) \/ (\E m \in Members : GcStore(m))

Next ==
    \/ \E c \in Conns :
         \/ Dial(c) \/ TakeRegister(c) \/ StoreClient(c) \/ Announce(c)
         \/ ReadHeartbeat(c) \/ Heartbeat(c)
         \/ \E S \in SUBSET Channels : ReadSubscribe(c, S)
         \/ SubscribeMp(c) \/ ReadUnsubscribe(c)
         \/ ReaderStops(c) \/ WriterStops(c)
         \/ TakeUnregister(c) \/ DropClient(c) \/ CancelRpcs(c) \/ CleanUp(c)
         \/ FallSilent(c)
    \/ \E m \in Members : GcTake(m) \/ Expire(m)
    \/ GcStep

Spec == Init /\ [][Next]_vars

\* hub.Run keeps running and its select starves no ready case; a pump goes
\* on with what it holds; the socket and Send of a closed client wake its
\* pumps; clients send their heartbeats.
Fairness ==
    /\ WF_vars(GcStep \/ \E c \in Conns : HubStep(c))
    /\ \A c \in Conns :
         /\ SF_vars(TakeRegister(c) \/ TakeUnregister(c))
         /\ WF_vars(Heartbeat(c) \/ SubscribeMp(c))
         /\ SF_vars(ReadHeartbeat(c))
         /\ SF_vars(c \in closed /\ ReaderStops(c))
         /\ WF_vars(c \in closed /\ WriterStops(c))

LiveSpec == Spec /\ Fairness

---------------------------------------------------------------------------
(* Properties *)

TypeOK ==
    /\ reader \in [Conns -> ReaderStates]
    /\ writer \in [Conns -> WriterStates]
    /\ work \in [Conns -> WorkSteps]
    /\ sweeping \subseteq Members
    /\ unchecked \subseteq Conns
    /\ alive \subseteq Conns
    /\ clients \in [Members -> SUBSET Conns]
    /\ closed \subseteq Conns
    /\ stale \subseteq Conns
    /\ presence \subseteq Members
    /\ owners \subseteq Agents
    /\ status \in [Agents -> Statuses]
    /\ asked \in [Conns -> SUBSET Channels]
    /\ mpChannels \in [Channels -> SUBSET Conns]
    /\ mpClientChans \in [Conns -> SUBSET Channels]

\* Both pumps of a registered connection have returned.
Finished(c) == reader[c] = "gone" /\ writer[c] = "gone"
Attached(c) == reader[c] \notin {"new", "dialing"} /\ ~ Finished(c)

(***************************************************************************)
(* A send on a closed channel panics, and the recover of hub.Run is        *)
(* outside its loop: one of its own status broadcasts to a closed client   *)
(* would end the event loop for good. So whatever the order of gc,         *)
(* Unregister and Register, no closed client is in the routing map while   *)
(* hub.Run works on an event of a connection. The one time a closed client *)
(* is routed is while gcStaleClients, which has just closed it, goes       *)
(* through the same list: other goroutines may meet it, hub.Run does not.  *)
(***************************************************************************)
OnlySweptAreClosed ==
    \A m \in Members : \A c \in clients[m] :
        /\ Member[c] = m
        /\ c \in closed => m \in sweeping /\ c \notin unchecked \cup alive

HubSendsToOpen ==
    (\E c \in Conns : work[c] # "none") =>
        \A m \in Members : clients[m] \cap closed = {}

RoutedAreOpen == OnlySweptAreClosed /\ HubSendsToOpen

(***************************************************************************)
(* One connection going must not take another of the same member out of    *)
(* the map: an open connection that hub.Run has stored, and whose own      *)
(* Unregister has not come, is routed to.                                  *)
(***************************************************************************)
OpenAreRouted ==
    \A c \in Conns :
        /\ reader[c] \in {"reading", "refreshing", "subscribing", "leaving"}
        /\ writer[c] \in {"writing", "leaving"}
        /\ c \notin closed
        /\ work[c] # "register"
        => c \in clients[Member[c]]

(***************************************************************************)
(* When both pumps have returned and hub.Run has dealt with them, the      *)
(* connection is closed and is in no table: in particular a subscription   *)
(* granted after the first Unregister has cleaned up (the gate reads the   *)
(* database) is removed by the second.                                     *)
(***************************************************************************)
NothingLeft ==
    \A c \in Conns :
        Finished(c) /\ work[c] = "none" =>
            /\ c \in closed
            /\ c \notin clients[Member[c]]
            /\ mpClientChans[c] = {}
            /\ \A ch \in Channels : c \notin mpChannels[ch]

\* The forward and the reverse subscription index say the same, whatever
\* frames and disconnections interleave.
IndexesAgree ==
    \A c \in Conns, ch \in Channels :
        c \in mpChannels[ch] <=> ch \in mpClientChans[c]

(***************************************************************************)
(* An owner's apps do not show an agent online for ever: if AGENT_ONLINE   *)
(* was the last word, some connection of the agent still has an Unregister *)
(* to come, or hub.Run is in the middle of one.                            *)
(***************************************************************************)
OnlineWillEnd ==
    \A a \in Agents :
        status[a] = "online" =>
            \E c \in ConnsOf(a) :
                Attached(c) \/ work[c] \in {"drop", "cancel", "cleanup"}

\* The facts that carry the invariants above through every step.

\* hub.Run works on one event at a time.
OneEvent ==
    \A c, d \in Conns : work[c] # "none" /\ work[d] # "none" => c = d

\* A sweep of one key is an event too; what it closes it does not keep, and
\* what it does not keep it has closed.
OneSweep ==
    /\ sweeping # {} => \A c \in Conns : work[c] = "none"
    /\ sweeping = {} => unchecked = {} /\ alive = {}
    /\ unchecked \cap alive = {}
    /\ \A m \in sweeping :
          /\ sweeping = {m}
          /\ unchecked \cup alive \subseteq clients[m]
          /\ \A c \in clients[m] \ closed : c \in unchecked \cup alive

\* At least one Unregister of c has been taken.
Leaving(c) == reader[c] = "gone" \/ writer[c] = "gone"

\* How far a connection is tells what the hub has done with it.
Stages ==
    \A c \in Conns :
        /\ writer[c] = "new" <=> reader[c] \in {"new", "dialing"}
        /\ writer[c] = "new" =>
               /\ work[c] = "none"
               /\ c \notin closed
               /\ c \notin clients[Member[c]]
        /\ work[c] = "register" => c \notin closed
        /\ work[c] \in {"register", "announce"} => ~ Leaving(c)
        /\ work[c] \in {"drop", "cancel", "cleanup"} => Leaving(c)
        /\ Leaving(c) /\ work[c] # "drop" => c \notin clients[Member[c]]
        /\ Leaving(c) /\ work[c] = "none" => c \in closed

\* An agent is shown online exactly while its owner is stored.
OwnersStored == \A a \in Agents : status[a] = "online" <=> a \in owners

IInv ==
    /\ TypeOK
    /\ OneEvent
    /\ OneSweep
    /\ Stages
    /\ OwnersStored
    /\ OnlySweptAreClosed
    /\ OpenAreRouted
    /\ NothingLeft
    /\ IndexesAgree
    /\ OnlineWillEnd

\* Neither pump, nor hub.Run, waits for ever: when one pump of a connection
\* has stopped, both Unregisters are eventually taken.
BothPumpsReturn ==
    \A c \in Conns :
        (reader[c] = "leaving" \/ writer[c] = "leaving") ~> Finished(c)

\* The presence key of a connection that keeps beating comes back after any
\* loss (presence.go: SET and not EXPIRE).
PresenceHeals ==
    \A c \in Conns :
        reader[c] = "reading" ~>
            (Member[c] \in presence \/ reader[c] \in {"leaving", "gone"})
=============================================================================
