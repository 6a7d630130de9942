-------------------------------- MODULE Rpc --------------------------------
(***************************************************************************)
(* The RPC registry (hub/rpc.go) and its callers (handler/rpc_handler.go). *)
(*                                                                         *)
(* A call lives in several goroutines at once: the HTTP handler that waits *)
(* for it, the watcher Register starts, the plugin's readPump that         *)
(* resolves it, and the hub goroutine that cancels an agent's calls. Each  *)
(* takes the entry out of the map under the lock, and only then, unlocked, *)
(* sends to the entry's channel of capacity one.                           *)
(*                                                                         *)
(* Whether the agent is connected, and whether a frame reaches the plugin, *)
(* is left open here; module HubRpc binds both to the hub.                 *)
(***************************************************************************)
EXTENDS Naturals, Sequences, FiniteSets

CONSTANTS
    Calls,      \* the POST /rpc requests
    Agents,
    AgentOf,    \* the agent each call is for
    NoAnswer

ASSUME AgentOfAssumption == AgentOf \in [Calls -> Agents]
ASSUME NoAnswerAssumption ==
    NoAnswer \notin {"result", "timeout", "disconnected", "offline", "failed"}

\* -32002, -32003, -32001, and the 500 of a handler that panicked.
Failures == {"timeout", "disconnected", "offline", "failed"}
Answers == Failures \cup {"result"}

VARIABLES
    caller,     \* the HTTP handler's position
    answer,     \* what it has answered
    pending,    \* RPCRegistry.pending
    inHand,     \* taken out of pending, not yet sent: [call, ans]
    chan,       \* the response channel
    regDone,    \* regCtx is done: cancelled, or the caller's ctx is
    ctxDone,    \* the caller's ctx has met its deadline or was abandoned
    watcher,    \* the goroutine Register starts
    doomed,     \* the ids CancelAllForAgent still has to cancel
    atPlugin,   \* OpPluginCall frames the plugin has received
    produced    \* calls the plugin has answered

vars == <<caller, answer, pending, inHand, chan, regDone, ctxDone, watcher,
          doomed, atPlugin, produced>>

CallerStates == {"idle", "checked", "registered", "waiting", "done"}
WatcherStates == {"none", "watching", "gone"}

Init ==
    /\ caller = [k \in Calls |-> "idle"]
    /\ answer = [k \in Calls |-> NoAnswer]
    /\ pending = {}
    /\ inHand = {}
    /\ chan = [k \in Calls |-> <<>>]
    /\ regDone = {}
    /\ ctxDone = {}
    /\ watcher = [k \in Calls |-> "none"]
    /\ doomed = {}
    /\ atPlugin = {}
    /\ produced = {}

---------------------------------------------------------------------------
(* The handler: RPCHandler.Call *)

\* The handler answers and its deferred cancel() runs.
Reply(k, a) ==
    /\ answer' = [answer EXCEPT ![k] = a]
    /\ caller' = [caller EXCEPT ![k] = "done"]

\* hub.GetClient, after the owner and body checks (a call refused there has
\* touched nothing).
CheckOnline(k, online) ==
    /\ caller[k] = "idle"
    /\ IF online THEN /\ caller' = [caller EXCEPT ![k] = "checked"]
                      /\ UNCHANGED answer
                 ELSE Reply(k, "offline")
    /\ UNCHANGED <<pending, inHand, chan, regDone, ctxDone, watcher, doomed,
                   atPlugin, produced>>

\* RPCRegistry.Register: the entry, its channel and its watcher.
Register(k) ==
    /\ caller[k] = "checked"
    /\ caller' = [caller EXCEPT ![k] = "registered"]
    /\ pending' = pending \cup {k}
    /\ watcher' = [watcher EXCEPT ![k] = "watching"]
    /\ UNCHANGED <<answer, inHand, chan, regDone, ctxDone, doomed, atPlugin,
                   produced>>

\* hub.SendToAgent, on one of the agent's connections: the OpPluginCall
\* frame gets to the plugin.
Frame(k) ==
    /\ caller[k] = "registered"
    /\ atPlugin' = atPlugin \cup {k}
    /\ UNCHANGED <<caller, answer, pending, inHand, chan, regDone, ctxDone,
                   watcher, doomed, produced>>

\* SendToAgent returns nil, whether or not anybody was there.
Sent(k) ==
    /\ caller[k] = "registered"
    /\ caller' = [caller EXCEPT ![k] = "waiting"]
    /\ UNCHANGED <<answer, pending, inHand, chan, regDone, ctxDone, watcher,
                   doomed, atPlugin, produced>>

\* The connection was closed after its list was loaded: the send panics, the
\* deferred cancel() runs and gin's recovery answers 500.
SendPanics(k) ==
    /\ caller[k] = "registered"
    /\ Reply(k, "failed")
    /\ regDone' = regDone \cup {k}
    /\ UNCHANGED <<pending, inHand, chan, ctxDone, watcher, doomed, atPlugin,
                   produced>>

Receive(k) ==
    /\ caller[k] = "waiting"
    /\ chan[k] # <<>>
    /\ Reply(k, Head(chan[k]))
    /\ chan' = [chan EXCEPT ![k] = Tail(@)]
    /\ regDone' = regDone \cup {k}
    /\ UNCHANGED <<pending, inHand, ctxDone, watcher, doomed, atPlugin,
                   produced>>

\* A handler that answers the timeout and falls through to wait again.
GiveUpAndStay(k) ==
    /\ caller[k] = "waiting"
    /\ k \in ctxDone
    /\ answer' = [answer EXCEPT ![k] = "timeout"]
    /\ UNCHANGED <<caller, pending, inHand, chan, regDone, ctxDone, watcher,
                   doomed, atPlugin, produced>>

\* select takes ctx.Done(), even when the channel is ready too.
GiveUp(k) ==
    /\ caller[k] = "waiting"
    /\ k \in ctxDone
    /\ Reply(k, "timeout")
    /\ UNCHANGED <<pending, inHand, chan, regDone, ctxDone, watcher, doomed,
                   atPlugin, produced>>

\* WithTimeout gives every call a deadline, its own or the global one.
WithoutTimeout(k) == FALSE
HasDeadline(k) == k \notin ctxDone

\* The deadline of the call passes, or its HTTP client goes away; regCtx is
\* derived from that ctx.
Expire(k) ==
    /\ caller[k] \in {"registered", "waiting"}
    /\ HasDeadline(k)
    /\ ctxDone' = ctxDone \cup {k}
    /\ regDone' = regDone \cup {k}
    /\ UNCHANGED <<caller, answer, pending, inHand, chan, watcher, doomed,
                   atPlugin, produced>>

---------------------------------------------------------------------------
(* The registry *)

\* The locked part of Resolve and cancelOne: look the id up and delete it.
\* Two ways to get it wrong: the lookup and the deletion in two critical
\* sections, and a deletion that forgets to send.
TakeLate(k, a) ==
    IF k \in pending \/ \E h \in inHand : h.call = k
    THEN /\ pending' = pending \ {k}
         /\ inHand' = inHand \cup {[call |-> k, ans |-> a]}
    ELSE UNCHANGED <<pending, inHand>>

Take(k, a) ==
    IF k \in pending
    THEN /\ pending' = pending \ {k}
         /\ inHand' = inHand \cup {[call |-> k, ans |-> a]}
    ELSE UNCHANGED <<pending, inHand>>

\* An OpPluginResult frame, routed to Resolve; a second one for the same
\* call finds no entry.
Resolve(k) ==
    /\ k \in atPlugin
    /\ produced' = produced \cup {k}
    /\ Take(k, "result")
    /\ UNCHANGED <<caller, answer, chan, regDone, ctxDone, watcher, doomed,
                   atPlugin>>

\* What the watcher does with its id once regCtx is done.
CancelTimedOut(k) == Take(k, "timeout")

\* The watcher wakes when regCtx is done, for whatever reason.
WatcherFires(k) ==
    /\ watcher[k] = "watching"
    /\ k \in regDone
    /\ watcher' = [watcher EXCEPT ![k] = "gone"]
    /\ CancelTimedOut(k)
    /\ UNCHANGED <<caller, answer, chan, regDone, ctxDone, doomed, atPlugin,
                   produced>>

\* The hub goroutine has cancelled all it collected.
CancelOver == doomed = {} /\ \A h \in inHand : h.ans # "disconnected"

\* The ids of one agent are collected under the lock ...
CancelAllForAgent(a) ==
    /\ CancelOver
    /\ doomed' = {k \in pending : AgentOf[k] = a}
    /\ UNCHANGED <<caller, answer, pending, inHand, chan, regDone, ctxDone,
                   watcher, atPlugin, produced>>

\* ... and cancelled one by one without it.
CancelOne(k) ==
    /\ k \in doomed
    /\ \A h \in inHand : h.ans # "disconnected"
    /\ doomed' = doomed \ {k}
    /\ Take(k, "disconnected")
    /\ UNCHANGED <<caller, answer, chan, regDone, ctxDone, watcher, atPlugin,
                   produced>>

\* p.ch <- resp, which would block on a full channel; then p.cancel().
Deliver(h) ==
    /\ h \in inHand
    /\ chan[h.call] = <<>>
    /\ chan' = [chan EXCEPT ![h.call] = Append(@, h.ans)]
    /\ inHand' = inHand \ {h}
    /\ regDone' = regDone \cup {h.call}
    /\ UNCHANGED <<caller, answer, pending, ctxDone, watcher, doomed,
                   atPlugin, produced>>

---------------------------------------------------------------------------
Next ==
    \/ \E k \in Calls :
         \/ \E b \in BOOLEAN : CheckOnline(k, b)
         \/ Register(k) \/ Frame(k) \/ Sent(k) \/ SendPanics(k)
         \/ Receive(k) \/ GiveUp(k) \/ Expire(k)
         \/ Resolve(k) \/ WatcherFires(k) \/ CancelOne(k)
    \/ \E a \in Agents : CancelAllForAgent(a)
    \/ \E h \in inHand : Deliver(h)

Spec == Init /\ [][Next]_vars

\* The handler runs on, deadlines arrive, and no goroutine that can move is
\* left behind. Nothing is assumed of the plugin.
CallerStep(k) == Register(k) \/ Sent(k) \/ SendPanics(k) \/ Receive(k)
                    \/ GiveUp(k)
Fairness ==
    \A k \in Calls :
        /\ WF_vars(CallerStep(k))
        /\ WF_vars(Expire(k))
        /\ WF_vars(WatcherFires(k))
        /\ SF_vars(CancelOne(k))
        /\ WF_vars(\E h \in inHand : h.call = k /\ Deliver(h))

LiveSpec == Spec /\ Fairness

---------------------------------------------------------------------------
(* Properties *)

TypeOK ==
    /\ caller \in [Calls -> CallerStates]
    /\ answer \in [Calls -> Answers \cup {NoAnswer}]
    /\ pending \subseteq Calls
    /\ inHand \subseteq [call : Calls, ans : Answers]
    /\ chan \in [Calls -> Seq(Answers)]
    /\ regDone \subseteq Calls
    /\ ctxDone \subseteq Calls
    /\ watcher \in [Calls -> WatcherStates]
    /\ doomed \subseteq Calls
    /\ atPlugin \subseteq Calls
    /\ produced \subseteq Calls

(***************************************************************************)
(* rpc.go: "channel buffer = 1, so that Resolve / cancelOne never block".  *)
(* The plugin's answer, the watcher's timeout and the hub's cancellation   *)
(* race for one entry; whoever holds it finds the channel empty, and is    *)
(* alone in holding it. Otherwise the hub goroutine would block for ever   *)
(* on a call whose handler has gone.                                       *)
(***************************************************************************)
DeliveryNeverBlocks ==
    \A h \in inHand :
        /\ chan[h.call] = <<>>
        /\ h.call \notin pending
        /\ \A g \in inHand : g.call = h.call => g = h

\* No answer is lost on the way to a caller that still waits: there is an
\* entry with a watcher, an answer in hand, or an answer in the channel.
WaitingIsServed ==
    \A k \in Calls :
        caller[k] = "waiting" =>
            \/ k \in pending /\ watcher[k] = "watching"
            \/ \E h \in inHand : h.call = k
            \/ chan[k] # <<>>

\* The facts that carry the two invariants above through every step.

\* Before Register there is nothing to cancel or to deliver.
NothingEarly ==
    \A k \in Calls :
        caller[k] \in {"idle", "checked"} =>
            /\ k \notin pending
            /\ chan[k] = <<>>
            /\ \A h \in inHand : h.call # k

\* While the entry is there, nobody has sent to it and its watcher lives.
EntryIsWhole ==
    \A k \in pending : chan[k] = <<>> /\ watcher[k] = "watching"

\* From Register to the reply the answer is somewhere.
AnswerSomewhere ==
    \A k \in Calls :
        caller[k] \in {"registered", "waiting"} =>
            \/ k \in pending
            \/ \E h \in inHand : h.call = k
            \/ chan[k] # <<>>

ChannelOfOne ==
    \A k \in Calls : chan[k] = <<>> \/ \E a \in Answers : chan[k] = <<a>>

\* A result on its way was produced by the plugin, for this call.
ResultsAreProduced ==
    /\ \A h \in inHand : h.ans = "result" => h.call \in produced
    /\ \A k \in Calls : chan[k] = <<"result">> => k \in produced

RepliedWhenDone ==
    \A k \in Calls : caller[k] = "done" <=> answer[k] # NoAnswer

IInv ==
    /\ TypeOK
    /\ DeliveryNeverBlocks
    /\ NothingEarly
    /\ EntryIsWhole
    /\ AnswerSomewhere
    /\ ChannelOfOne
    /\ ResultsAreProduced
    /\ RepliedWhenDone

\* What the caller is promised (module RpcPromise).
Promise == INSTANCE RpcPromise
PromiseKept == Promise!Spec

\* Every call is answered, even if the plugin is silent for ever.
CallsAnswered == \A k \in Calls : caller[k] # "idle" ~> caller[k] = "done"

=============================================================================
