------------------------------- MODULE HubRpc -------------------------------
(***************************************************************************)
(* The hub and the RPC registry together: what a caller of POST /rpc gets  *)
(* when the agent's connections come and go under it. GetClient and        *)
(* SendToAgent read the routing map without a lock shared with hub.Run,    *)
(* and hub.Run cancels an agent's calls from inside its Unregister branch. *)
(***************************************************************************)
EXTENDS Hub, Sequences

CONSTANTS Calls, AgentOf, NoAnswer

ASSUME CallsAssumption == AgentOf \in [Calls -> Agents]

VARIABLES
    caller, answer, pending, inHand, chan, regDone, ctxDone, watcher, doomed,
    atPlugin, produced,
    targets,    \* the connection list SendToAgent has loaded and not yet used
    loaded,     \* calls whose SendToAgent has loaded it
    sentTo      \* connections whose Send queue took the call's frame

R == INSTANCE Rpc

rpcVars == <<caller, answer, pending, inHand, chan, regDone, ctxDone, watcher,
             doomed, atPlugin, produced>>
sendVars == <<targets, loaded, sentTo>>
allVars == <<vars, rpcVars, sendVars>>

InitAll ==
    /\ Init
    /\ R!Init
    /\ targets = [k \in Calls |-> {}]
    /\ loaded = {}
    /\ sentTo = [k \in Calls |-> {}]

---------------------------------------------------------------------------
(* The handler, reading the hub's map *)

CheckOnline(k) ==
    /\ R!CheckOnline(k, clients[AgentOf[k]] # {})
    /\ UNCHANGED <<vars, sendVars>>

Register(k) ==
    /\ R!Register(k)
    /\ UNCHANGED <<vars, sendVars>>

\* SendToAgent reads the list once; what happens to the map afterwards does
\* not change where the frame goes. RPCRegistry.Register comes first.
LoadBeforeRegister(k) == caller[k] = "checked"
LoadAfterRegister(k) == caller[k] = "registered"

LoadClients(k) ==
    /\ LoadAfterRegister(k)
    /\ k \notin loaded
    /\ loaded' = loaded \cup {k}
    /\ targets' = [targets EXCEPT ![k] = clients[AgentOf[k]]]
    /\ UNCHANGED <<vars, rpcVars, sentTo>>

\* bufferedSend on one connection. The frame reaches the plugin, or is lost
\* with the connection or a full queue.
SendFrame(k, c) ==
    /\ caller[k] = "registered"
    /\ c \in targets[k] \ closed
    /\ targets' = [targets EXCEPT ![k] = @ \ {c}]
    /\ sentTo' = [sentTo EXCEPT ![k] = @ \cup {c}]
    /\ R!Frame(k) \/ UNCHANGED rpcVars
    /\ UNCHANGED <<vars, loaded>>

SendPanics(k) ==
    /\ targets[k] \cap closed # {}
    /\ R!SendPanics(k)
    /\ UNCHANGED <<vars, sendVars>>

Sent(k) ==
    /\ k \in loaded
    /\ targets[k] = {}
    /\ R!Sent(k)
    /\ UNCHANGED <<vars, sendVars>>

\* An OpPluginResult frame read by one of the agent's readPumps.
Resolve(k) ==
    /\ \E c \in ConnsOf(AgentOf[k]) : reader[c] = "reading"
    /\ R!Resolve(k)
    /\ UNCHANGED <<vars, sendVars>>

\* The steps of the call that do not look at the hub.
CallStep(k) ==
    /\ \/ R!Receive(k) \/ R!GiveUp(k) \/ R!Expire(k)
       \/ R!WatcherFires(k) \/ R!CancelOne(k)
       \/ \E h \in inHand : h.call = k /\ R!Deliver(h)
    /\ UNCHANGED <<vars, sendVars>>

---------------------------------------------------------------------------
(* hub.Run, cancelling calls inside Unregister *)

\* The calls CancelAllForAgent collects when c goes.
CancelAll(c) == R!CancelAllForAgent(Member[c])

CancelAgentRpcs(c) ==
    /\ CancelRpcs(c)
    /\ IF Member[c] \in Agents THEN CancelAll(c) ELSE UNCHANGED rpcVars
    /\ UNCHANGED sendVars

\* CancelAllForAgent has returned before hub.Run goes on.
CleanUpAfterCancel(c) ==
    /\ R!CancelOver
    /\ CleanUp(c)
    /\ UNCHANGED <<rpcVars, sendVars>>

\* Heartbeats and presence keys change nothing a call can see: module Hub.
ConnStep ==
    /\ \/ \E c \in Conns :
            \/ Dial(c) \/ TakeRegister(c) \/ StoreClient(c) \/ Announce(c)
            \/ ReaderStops(c) \/ WriterStops(c)
            \/ TakeUnregister(c) \/ DropClient(c) \/ FallSilent(c)
       \/ \E m \in Members : GcTake(m)
       \/ GcStep
    /\ UNCHANGED <<rpcVars, sendVars>>

NextAll ==
    \/ ConnStep
    \/ \E c \in Conns : CancelAgentRpcs(c) \/ CleanUpAfterCancel(c)
    \/ \E k \in Calls :
         \/ CheckOnline(k) \/ Register(k) \/ LoadClients(k)
         \/ \E c \in Conns : SendFrame(k, c)
         \/ SendPanics(k) \/ Sent(k) \/ Resolve(k) \/ CallStep(k)

SpecAll == InitAll /\ [][NextAll]_allVars

---------------------------------------------------------------------------
(* Properties *)

(***************************************************************************)
(* The fail-fast that does hold: a call that any connection of the agent   *)
(* took is not left pending once hub.Run has dealt with an Unregister of   *)
(* that connection. It rests on two orders, Register before SendToAgent in *)
(* the handler and the map before CancelAllForAgent in the hub.            *)
(***************************************************************************)
SentFailsFast ==
    Idle => \A k \in pending : \A c \in sentTo[k] :
                reader[c] # "gone" /\ writer[c] # "gone"

\* What SentFailsFast needs of the calls themselves. A connection a call's
\* frame went to, or is about to go to, and that is being unregistered, is
\* one whose cancellation is still to come or has the call on its list.
SendTypes ==
    /\ caller \in [Calls -> R!CallerStates]
    /\ pending \subseteq Calls
    /\ targets \in [Calls -> SUBSET Conns]
    /\ loaded \subseteq Calls
    /\ sentTo \in [Calls -> SUBSET Conns]

Reached(k) == targets[k] \cup sentTo[k]

ReachedAreOwn == \A k \in Calls : Reached(k) \subseteq ConnsOf(AgentOf[k])

NoneReachedEarly ==
    \A k \in Calls : caller[k] \in {"idle", "checked"} => Reached(k) = {}

CancelToCome ==
    \A k \in pending : \A c \in Reached(k) :
        Leaving(c) => \/ work[c] \in {"drop", "cancel"}
                      \/ work[c] = "cleanup" /\ k \in doomed

IInvAll ==
    /\ IInv
    /\ SendTypes
    /\ ReachedAreOwn
    /\ NoneReachedEarly
    /\ CancelToCome
=============================================================================
