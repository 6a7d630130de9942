----------------------------- MODULE RpcProofs -----------------------------
(***************************************************************************)
(* Proofs about RPC calls, for every set of calls and agents: the entry of *)
(* a call is taken once, its channel never blocks the taker, the answer is *)
(* never lost, and the caller is answered once (RpcPromise).               *)
(***************************************************************************)
EXTENDS Rpc, TLAPS

\* Whoever takes an entry holds its answer.
LEMMA TakeKeepsAnswer ==
    ASSUME AnswerSomewhere, NEW k \in Calls, NEW a \in Answers,
           Take(k, a), UNCHANGED <<caller, chan>>
    PROVE  AnswerSomewhere'
<1>1. CASE k \notin pending
  BY <1>1 DEF Take, AnswerSomewhere
<1>2. CASE k \in pending
  <2>1. [call |-> k, ans |-> a] \in inHand' /\ inHand \subseteq inHand'
    BY <1>2 DEF Take
  <2>2. pending' = pending \ {k}
    BY <1>2 DEF Take
  <2>3. \E h \in inHand' : h.call = k
    BY <2>1
  <2>4. QED
    BY <2>1, <2>2, <2>3 DEF AnswerSomewhere
<1>3. QED
  BY <1>1, <1>2

LEMMA CheckOnlineStep ==
    ASSUME IInv, NEW k \in Calls, NEW b \in BOOLEAN, CheckOnline(k, b)
    PROVE  IInv'
<1> USE AgentOfAssumption, NoAnswerAssumption DEF IInv, CheckOnline, Reply
<1>1. TypeOK'
  BY DEF TypeOK, CallerStates, WatcherStates, Answers, Failures
<1>2. NothingEarly'
  BY DEF NothingEarly, TypeOK
<1>3. AnswerSomewhere'
  BY DEF AnswerSomewhere, TypeOK
<1>4. RepliedWhenDone'
  BY DEF RepliedWhenDone, TypeOK, CallerStates, Answers, Failures,
         ChannelOfOne
<1>5. (DeliveryNeverBlocks /\ EntryIsWhole /\ ChannelOfOne /\
       ResultsAreProduced)'
  BY DEF DeliveryNeverBlocks, EntryIsWhole, ChannelOfOne, ResultsAreProduced
<1>6. QED
  BY <1>1, <1>2, <1>3, <1>4, <1>5 DEF IInv

LEMMA RegisterStep ==
    ASSUME IInv, NEW k \in Calls, Register(k)
    PROVE  IInv'
<1> USE AgentOfAssumption, NoAnswerAssumption DEF IInv, Register
<1>1. TypeOK'
  BY DEF TypeOK, CallerStates, WatcherStates, Answers, Failures
<1>2. DeliveryNeverBlocks'
  BY DEF DeliveryNeverBlocks, EntryIsWhole, NothingEarly, TypeOK
<1>3. NothingEarly'
  BY DEF NothingEarly, TypeOK
<1>4. EntryIsWhole'
  BY DEF EntryIsWhole, NothingEarly, DeliveryNeverBlocks, TypeOK
<1>5. AnswerSomewhere'
  BY DEF AnswerSomewhere, TypeOK
<1>6. RepliedWhenDone'
  BY DEF RepliedWhenDone, TypeOK, CallerStates, Answers, Failures,
         ChannelOfOne
<1>7. (ChannelOfOne /\ ResultsAreProduced)'
  BY DEF ChannelOfOne, ResultsAreProduced
<1>8. QED
  BY <1>1, <1>2, <1>3, <1>4, <1>5, <1>6, <1>7 DEF IInv

LEMMA FrameStep ==
    ASSUME IInv, NEW k \in Calls, Frame(k)
    PROVE  IInv'
<1> USE AgentOfAssumption, NoAnswerAssumption DEF IInv, Frame
<1>1. TypeOK'
  BY DEF TypeOK, CallerStates, WatcherStates, Answers, Failures
<1>2. (DeliveryNeverBlocks /\ NothingEarly /\ EntryIsWhole /\
       AnswerSomewhere /\ ChannelOfOne /\ ResultsAreProduced /\
       RepliedWhenDone)'
  BY DEF DeliveryNeverBlocks, NothingEarly, EntryIsWhole, AnswerSomewhere,
         ChannelOfOne, ResultsAreProduced, RepliedWhenDone
<1>3. QED
  BY <1>1, <1>2 DEF IInv

LEMMA SentStep ==
    ASSUME IInv, NEW k \in Calls, Sent(k)
    PROVE  IInv'
<1> USE AgentOfAssumption, NoAnswerAssumption DEF IInv, Sent
<1>1. TypeOK'
  BY DEF TypeOK, CallerStates, WatcherStates, Answers, Failures
<1>2. NothingEarly'
  BY DEF NothingEarly, TypeOK
<1>3. AnswerSomewhere'
  BY DEF AnswerSomewhere, TypeOK
<1>4. RepliedWhenDone'
  BY DEF RepliedWhenDone, TypeOK, CallerStates, Answers, Failures,
         ChannelOfOne
<1>5. (DeliveryNeverBlocks /\ EntryIsWhole /\ ChannelOfOne /\
       ResultsAreProduced)'
  BY DEF DeliveryNeverBlocks, EntryIsWhole, ChannelOfOne, ResultsAreProduced
<1>6. QED
  BY <1>1, <1>2, <1>3, <1>4, <1>5 DEF IInv

LEMMA SendPanicsStep ==
    ASSUME IInv, NEW k \in Calls, SendPanics(k)
    PROVE  IInv'
<1> USE AgentOfAssumption, NoAnswerAssumption DEF IInv, SendPanics, Reply
<1>1. TypeOK'
  BY DEF TypeOK, CallerStates, WatcherStates, Answers, Failures
<1>2. NothingEarly'
  BY DEF NothingEarly, TypeOK
<1>3. AnswerSomewhere'
  BY DEF AnswerSomewhere, TypeOK
<1>4. RepliedWhenDone'
  BY DEF RepliedWhenDone, TypeOK, CallerStates, Answers, Failures,
         ChannelOfOne
<1>5. (DeliveryNeverBlocks /\ EntryIsWhole /\ ChannelOfOne /\
       ResultsAreProduced)'
  BY DEF DeliveryNeverBlocks, EntryIsWhole, ChannelOfOne, ResultsAreProduced
<1>6. QED
  BY <1>1, <1>2, <1>3, <1>4, <1>5 DEF IInv

LEMMA ReceiveStep ==
    ASSUME IInv, NEW k \in Calls, Receive(k)
    PROVE  IInv'
<1> USE AgentOfAssumption, NoAnswerAssumption DEF IInv, Receive, Reply
<1>1. TypeOK'
  BY DEF TypeOK, CallerStates, WatcherStates, Answers, Failures
<1>2. DeliveryNeverBlocks'
  BY DEF DeliveryNeverBlocks, EntryIsWhole, NothingEarly, TypeOK
<1>3. NothingEarly'
  BY DEF NothingEarly, TypeOK
<1>4. EntryIsWhole'
  BY DEF EntryIsWhole, NothingEarly, DeliveryNeverBlocks, TypeOK
<1>5. AnswerSomewhere'
  BY DEF AnswerSomewhere, TypeOK
<1>6. chan' = [chan EXCEPT ![k] = <<>>]
  <2>1. PICK a \in Answers : chan[k] = <<a>>
    BY DEF ChannelOfOne
  <2>2. Tail(chan[k]) = <<>>
    BY <2>1
  <2>3. QED
    BY <2>2
<1>7. (ChannelOfOne /\ ResultsAreProduced)'
  BY <1>6 DEF ChannelOfOne, ResultsAreProduced, TypeOK
<1>8. RepliedWhenDone'
  BY DEF RepliedWhenDone, TypeOK, CallerStates, Answers, Failures,
         ChannelOfOne
<1>9. QED
  BY <1>1, <1>2, <1>3, <1>4, <1>5, <1>7, <1>8 DEF IInv

LEMMA GiveUpStep ==
    ASSUME IInv, NEW k \in Calls, GiveUp(k)
    PROVE  IInv'
<1> USE AgentOfAssumption, NoAnswerAssumption DEF IInv, GiveUp, Reply
<1>1. TypeOK'
  BY DEF TypeOK, CallerStates, WatcherStates, Answers, Failures
<1>2. NothingEarly'
  BY DEF NothingEarly, TypeOK
<1>3. AnswerSomewhere'
  BY DEF AnswerSomewhere, TypeOK
<1>4. RepliedWhenDone'
  BY DEF RepliedWhenDone, TypeOK, CallerStates, Answers, Failures,
         ChannelOfOne
<1>5. (DeliveryNeverBlocks /\ EntryIsWhole /\ ChannelOfOne /\
       ResultsAreProduced)'
  BY DEF DeliveryNeverBlocks, EntryIsWhole, ChannelOfOne, ResultsAreProduced
<1>6. QED
  BY <1>1, <1>2, <1>3, <1>4, <1>5 DEF IInv

LEMMA ExpireStep ==
    ASSUME IInv, NEW k \in Calls, Expire(k)
    PROVE  IInv'
<1> USE AgentOfAssumption, NoAnswerAssumption DEF IInv, Expire
<1>1. TypeOK'
  BY DEF TypeOK, CallerStates, WatcherStates, Answers, Failures
<1>2. (DeliveryNeverBlocks /\ NothingEarly /\ EntryIsWhole /\
       AnswerSomewhere /\ ChannelOfOne /\ ResultsAreProduced /\
       RepliedWhenDone)'
  BY DEF DeliveryNeverBlocks, NothingEarly, EntryIsWhole, AnswerSomewhere,
         ChannelOfOne, ResultsAreProduced, RepliedWhenDone
<1>3. QED
  BY <1>1, <1>2 DEF IInv

LEMMA ResolveStep ==
    ASSUME IInv, NEW k \in Calls, Resolve(k)
    PROVE  IInv'
<1> USE AgentOfAssumption, NoAnswerAssumption DEF IInv, Resolve, Take
<1>1. TypeOK'
  BY DEF TypeOK, CallerStates, WatcherStates, Answers, Failures
<1>2. DeliveryNeverBlocks'
  BY DEF DeliveryNeverBlocks, EntryIsWhole, NothingEarly, TypeOK
<1>3. NothingEarly'
  BY DEF NothingEarly, TypeOK
<1>4. EntryIsWhole'
  BY DEF EntryIsWhole, NothingEarly, DeliveryNeverBlocks, TypeOK
<1>5. AnswerSomewhere'
  BY TakeKeepsAnswer DEF Answers, Failures
<1>6. ResultsAreProduced'
  BY DEF ResultsAreProduced, DeliveryNeverBlocks, EntryIsWhole, TypeOK
<1>7. (ChannelOfOne /\ RepliedWhenDone)'
  BY DEF ChannelOfOne, RepliedWhenDone
<1>8. QED
  BY <1>1, <1>2, <1>3, <1>4, <1>5, <1>6, <1>7 DEF IInv

LEMMA WatcherFiresStep ==
    ASSUME IInv, NEW k \in Calls, WatcherFires(k)
    PROVE  IInv'
<1> USE AgentOfAssumption, NoAnswerAssumption DEF IInv, WatcherFires,
        CancelTimedOut, Take
<1>1. TypeOK'
  BY DEF TypeOK, CallerStates, WatcherStates, Answers, Failures
<1>2. DeliveryNeverBlocks'
  BY DEF DeliveryNeverBlocks, EntryIsWhole, NothingEarly, TypeOK
<1>3. NothingEarly'
  BY DEF NothingEarly, TypeOK
<1>4. EntryIsWhole'
  BY DEF EntryIsWhole, NothingEarly, DeliveryNeverBlocks, TypeOK
<1>5. AnswerSomewhere'
  BY TakeKeepsAnswer DEF Answers, Failures
<1>6. ResultsAreProduced'
  BY DEF ResultsAreProduced, DeliveryNeverBlocks, EntryIsWhole, TypeOK
<1>7. (ChannelOfOne /\ RepliedWhenDone)'
  BY DEF ChannelOfOne, RepliedWhenDone
<1>8. QED
  BY <1>1, <1>2, <1>3, <1>4, <1>5, <1>6, <1>7 DEF IInv

LEMMA CancelOneStep ==
    ASSUME IInv, NEW k \in Calls, CancelOne(k)
    PROVE  IInv'
<1> USE AgentOfAssumption, NoAnswerAssumption DEF IInv, CancelOne, Take
<1>1. TypeOK'
  BY DEF TypeOK, CallerStates, WatcherStates, Answers, Failures
<1>2. DeliveryNeverBlocks'
  BY DEF DeliveryNeverBlocks, EntryIsWhole, NothingEarly, TypeOK
<1>3. NothingEarly'
  BY DEF NothingEarly, TypeOK
<1>4. EntryIsWhole'
  BY DEF EntryIsWhole, NothingEarly, DeliveryNeverBlocks, TypeOK
<1>5. AnswerSomewhere'
  BY TakeKeepsAnswer DEF Answers, Failures
<1>6. ResultsAreProduced'
  BY DEF ResultsAreProduced, DeliveryNeverBlocks, EntryIsWhole, TypeOK
<1>7. (ChannelOfOne /\ RepliedWhenDone)'
  BY DEF ChannelOfOne, RepliedWhenDone
<1>8. QED
  BY <1>1, <1>2, <1>3, <1>4, <1>5, <1>6, <1>7 DEF IInv

LEMMA CancelAllForAgentStep ==
    ASSUME IInv, NEW a \in Agents, CancelAllForAgent(a)
    PROVE  IInv'
<1> USE AgentOfAssumption, NoAnswerAssumption DEF IInv, CancelAllForAgent
<1>1. TypeOK'
  BY DEF TypeOK, CallerStates, WatcherStates, Answers, Failures
<1>2. (DeliveryNeverBlocks /\ NothingEarly /\ EntryIsWhole /\
       AnswerSomewhere /\ ChannelOfOne /\ ResultsAreProduced /\
       RepliedWhenDone)'
  BY DEF DeliveryNeverBlocks, NothingEarly, EntryIsWhole, AnswerSomewhere,
         ChannelOfOne, ResultsAreProduced, RepliedWhenDone
<1>3. QED
  BY <1>1, <1>2 DEF IInv

LEMMA DeliverStep ==
    ASSUME IInv, NEW h \in inHand, Deliver(h)
    PROVE  IInv'
<1> USE AgentOfAssumption, NoAnswerAssumption DEF IInv, Deliver
<1>1. TypeOK'
  BY DEF TypeOK, CallerStates, WatcherStates, Answers, Failures
<1>2. DeliveryNeverBlocks'
  BY DEF DeliveryNeverBlocks, EntryIsWhole, NothingEarly, TypeOK
<1>3. NothingEarly'
  BY DEF NothingEarly, TypeOK
<1>4. EntryIsWhole'
  BY DEF EntryIsWhole, NothingEarly, DeliveryNeverBlocks, TypeOK
<1>5. AnswerSomewhere'
  BY DEF AnswerSomewhere, TypeOK
<1>6. ChannelOfOne'
  BY DEF ChannelOfOne, TypeOK, Answers, Failures
<1>7. ResultsAreProduced'
  BY DEF ResultsAreProduced, DeliveryNeverBlocks, EntryIsWhole, TypeOK
<1>8. RepliedWhenDone'
  BY DEF RepliedWhenDone
<1>9. QED
  BY <1>1, <1>2, <1>3, <1>4, <1>5, <1>6, <1>7, <1>8 DEF IInv

LEMMA InitInvariant == Init => IInv
  BY NoAnswerAssumption
  DEF Init, IInv, TypeOK, CallerStates, WatcherStates, Answers, Failures,
      DeliveryNeverBlocks, NothingEarly, EntryIsWhole, AnswerSomewhere,
      ChannelOfOne, ResultsAreProduced, RepliedWhenDone

LEMMA StutterInvariant == IInv /\ UNCHANGED vars => IInv'
  BY DEF vars, IInv, TypeOK, DeliveryNeverBlocks, NothingEarly,
         EntryIsWhole, AnswerSomewhere, ChannelOfOne, ResultsAreProduced,
         RepliedWhenDone

(***************************************************************************)
(* Every step of the handler, the plugin, the watcher and the hub          *)
(* preserves the invariant.                                                *)
(***************************************************************************)
THEOREM NextInvariant == IInv /\ [Next]_vars => IInv'
<1> SUFFICES ASSUME IInv, [Next]_vars PROVE IInv'
  OBVIOUS
<1>1. CASE UNCHANGED vars
  BY <1>1, StutterInvariant
<1>2. CASE \E a \in Agents : CancelAllForAgent(a)
  BY <1>2, CancelAllForAgentStep
<1>3. CASE \E h \in inHand : Deliver(h)
  BY <1>3, DeliverStep
<1>4. ASSUME NEW k \in Calls,
             \/ \E b \in BOOLEAN : CheckOnline(k, b)
             \/ Register(k) \/ Frame(k) \/ Sent(k) \/ SendPanics(k)
             \/ Receive(k) \/ GiveUp(k) \/ Expire(k)
             \/ Resolve(k) \/ WatcherFires(k) \/ CancelOne(k)
      PROVE  IInv'
  BY <1>4, CheckOnlineStep, RegisterStep, FrameStep, SentStep,
     SendPanicsStep, ReceiveStep, GiveUpStep, ExpireStep, ResolveStep,
     WatcherFiresStep, CancelOneStep
<1>5. QED
  BY <1>1, <1>2, <1>3, <1>4 DEF Next

(***************************************************************************)
(* The inductive invariant holds in every behaviour of the registry.       *)
(***************************************************************************)
THEOREM InvariantHolds == Spec => []IInv
  BY InitInvariant, NextInvariant, PTL DEF Spec

(***************************************************************************)
(* Resolve, the watcher and the hub's cancellation never block on a call's *)
(* channel, and never deliver twice.                                       *)
(***************************************************************************)
THEOREM NeverBlocks == Spec => []DeliveryNeverBlocks
<1>1. IInv => DeliveryNeverBlocks
  BY DEF IInv
<1>2. QED
  BY <1>1, InvariantHolds, PTL

(***************************************************************************)
(* A waiting caller's answer is never lost: it is still owed by a live     *)
(* watcher, in somebody's hand, or in the channel.                         *)
(***************************************************************************)
THEOREM AnswerNotLost == Spec => []WaitingIsServed
<1>1. IInv => WaitingIsServed
  BY DEF IInv, WaitingIsServed, AnswerSomewhere, EntryIsWhole
<1>2. QED
  BY <1>1, InvariantHolds, PTL

---------------------------------------------------------------------------
(* Refinement: the registry implements RpcPromise. *)

\* A handler's reply is the promise's Answer.
LEMMA ReplyAnswers ==
    ASSUME IInv, NEW k \in Calls, NEW a \in Answers, Reply(k, a),
           caller[k] # "done", a = "result" => k \in produced,
           UNCHANGED produced
    PROVE  Promise!Next
<1>1. answer[k] = NoAnswer
  BY DEF IInv, RepliedWhenDone
<1>2. Promise!Answer(k, a)
  BY <1>1 DEF Reply, Promise!Answer
<1>3. QED
  BY <1>2 DEF Promise!Next, Answers, Failures

\* A step of the registry answers one call, lets the plugin produce one
\* result, or is invisible to the callers.
LEMMA StepRefines ==
    ASSUME IInv, [Next]_vars
    PROVE  [Promise!Next]_Promise!vars
<1> USE DEF Promise!vars
<1>1. CASE UNCHANGED vars
  BY <1>1 DEF vars
<1>2. ASSUME NEW a \in Agents, CancelAllForAgent(a)
      PROVE  UNCHANGED Promise!vars
  BY <1>2 DEF CancelAllForAgent
<1>3. ASSUME NEW h \in inHand, Deliver(h)
      PROVE  UNCHANGED Promise!vars
  BY <1>3 DEF Deliver
<1>4. ASSUME NEW k \in Calls, NEW b \in BOOLEAN, CheckOnline(k, b)
      PROVE  [Promise!Next]_Promise!vars
  <2>1. CASE b
    BY <1>4, <2>1 DEF CheckOnline
  <2>2. CASE ~ b
    BY <1>4, <2>2, ReplyAnswers DEF CheckOnline, Answers, Failures
  <2>3. QED
    BY <2>1, <2>2
<1>5. ASSUME NEW k \in Calls,
             Register(k) \/ Frame(k) \/ Sent(k) \/ Expire(k)
               \/ WatcherFires(k) \/ CancelOne(k)
      PROVE  UNCHANGED Promise!vars
  BY <1>5 DEF Register, Frame, Sent, Expire, WatcherFires, CancelOne
<1>6. ASSUME NEW k \in Calls, SendPanics(k) \/ GiveUp(k)
      PROVE  Promise!Next
  BY <1>6, ReplyAnswers DEF SendPanics, GiveUp, Answers, Failures
<1>7. ASSUME NEW k \in Calls, Receive(k)
      PROVE  Promise!Next
  <2>1. PICK a \in Answers : chan[k] = <<a>>
    BY <1>7 DEF Receive, IInv, ChannelOfOne
  <2>2. Head(chan[k]) = a
    BY <2>1
  <2>3. a = "result" => k \in produced
    BY <2>1 DEF IInv, ResultsAreProduced
  <2>4. QED
    BY <1>7, <2>2, <2>3, ReplyAnswers DEF Receive
<1>8. ASSUME NEW k \in Calls, Resolve(k)
      PROVE  Promise!Next
  BY <1>8 DEF Resolve, Promise!Next, Promise!Produce
<1>9. QED
  BY <1>1, <1>2, <1>3, <1>4, <1>5, <1>6, <1>7, <1>8 DEF Next

(***************************************************************************)
(* Every call is answered at most once, with a result only if the plugin   *)
(* produced it: the registry implements RpcPromise.                        *)
(***************************************************************************)
THEOREM Implementation == Spec => PromiseKept
<1>1. Init => Promise!Init
  BY DEF Init, Promise!Init
<1>2. IInv /\ [Next]_vars => [Promise!Next]_Promise!vars
  BY StepRefines
<1>3. QED
  BY <1>1, <1>2, InvariantHolds, PTL DEF Spec, PromiseKept, Promise!Spec
=============================================================================
