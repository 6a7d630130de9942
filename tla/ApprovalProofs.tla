---------------------------- MODULE ApprovalProofs ----------------------------
(***************************************************************************)
(* Theorems about Approval, for any number of asks and deciders, any card  *)
(* types and whitelist, and any number of failures.  The invariant of the  *)
(* six safety properties is IInv of Approval; the last theorem shows that  *)
(* the row implements ApprovalPromise.                                     *)
(***************************************************************************)
EXTENDS Approval, TLAPS

USE DEF Final, NoAction

(* The buttons of every card are verbs, and the repository, the service and   *)
(* the SDK map each of them to the same conclusion.                          *)
LEMMA ActionsAreVerbs ==
    /\ \A t \in CardTypes : Actions(t) \subseteq AllActions
    /\ AllActions \subseteq Verb
    /\ \A v \in Verb : /\ RowState(v) \in {"approved", "denied"}
                       /\ CardState(v) = RowState(v)
                       /\ AskState(v) = RowState(v)
  BY DEF AllActions, Verb, RowState, CardState, AskState

(* What a step of the agent's network or clock may assume about an event.    *)
LEMMA EventShape ==
    /\ \A a \in Asks, v \in Verb : DecidedEvent(a, v) \in Events
    /\ \A a \in Asks : ExpiredEvent(a) \in Events
  BY DEF DecidedEvent, ExpiredEvent, Events, Verb

LEMMA InitIInv == Init => IInv
  <1> SUFFICES ASSUME Init PROVE IInv
    OBVIOUS
  <1>1. TypeOK
    BY DEF Init, TypeOK, Verb
  <1>2. WinnerHoldsTheRow
    BY DEF Init, WinnerHoldsTheRow
  <1>3. CreationOrder
    BY DEF Init, CreationOrder
  <1>4. CardNeverContradicts /\ EventTellsTheRow
    BY DEF Init, CardNeverContradicts, EventTellsTheRow
  <1>5. ConsentIsReal /\ RefusalIsReal
    BY DEF Init, ConsentIsReal, RefusalIsReal
  <1> QED
    BY <1>1, <1>2, <1>3, <1>4, <1>5 DEF IInv

-----------------------------------------------------------------------------
(* Type correctness *)

LEMMA TypeStep == ASSUME IInv, [Next]_vars PROVE TypeOK'
  <1> USE DEF TypeOK
  <1>0. TypeOK /\ WinnerHoldsTheRow
    BY DEF IInv
  <1>1. ASSUME NEW a \in Asks, CreateStart(a) PROVE TypeOK'
    BY <1>0, <1>1 DEF CreateStart, rows, decider, sweep, net
  <1>2. ASSUME NEW a \in Asks, CreateMessage(a) PROVE TypeOK'
    BY <1>0, <1>2 DEF CreateMessage, rows, decider, sweep, net, agent
  <1>3. ASSUME NEW a \in Asks, CreateRow(a) PROVE TypeOK'
    BY <1>0, <1>3 DEF CreateRow, decider, sweep, net, agent
  <1>4. ASSUME NEW a \in Asks, AskReply(a) PROVE TypeOK'
    BY <1>0, <1>4 DEF AskReply, rows, decider, sweep, net
  <1>5. ASSUME NEW a \in Asks, CreateFail(a) PROVE TypeOK'
    BY <1>0, <1>5 DEF CreateFail, Fault, rows, decider, sweep, net
  <1>6. ASSUME NEW a \in Asks, Overrun(a) PROVE TypeOK'
    BY <1>0, <1>6 DEF Overrun, rows, decider, sweep, net, agent
  <1>7. ASSUME NEW a \in Asks, Timer(a) PROVE TypeOK'
    BY <1>0, <1>7 DEF Timer, Settle, rows, decider, sweep, net
  <1>8. ASSUME NEW a \in Asks, Fetch(a) PROVE TypeOK'
    BY <1>0, <1>8 DEF Fetch, Get, Settle, rows, decider, sweep, net
  <1>9. ASSUME NEW a \in Asks, FetchFail(a) PROVE TypeOK'
    BY <1>0, <1>9 DEF FetchFail, Fault, rows, decider, sweep, net
  <1>10. ASSUME NEW d \in Deciders, DecideStart(d) PROVE TypeOK'
    <2>1. PICK a \in Asks :
             /\ dask' = [dask EXCEPT ![d] = a]
             /\ \E action \in Actions(CardType[a]) : daction' = [daction EXCEPT ![d] = action]
      BY <1>10 DEF DecideStart, Admitted, GetForDecision
    <2>2. PICK action \in Actions(CardType[a]) : daction' = [daction EXCEPT ![d] = action]
      BY <2>1
    <2>3. action \in Verb
      BY <2>2, ActionsAreVerbs, ApprovalAssumption
    <2> QED
      BY <1>0, <1>10, <2>1, <2>2, <2>3 DEF DecideStart, rows, sweep, net, agent
  <1>11. ASSUME NEW d \in Deciders, DecideMark(d) PROVE TypeOK'
    BY <1>0, <1>11, ActionsAreVerbs
    DEF DecideMark, WinnerHoldsTheRow, KeptPattern, rows, sweep, net, agent
  <1>12. ASSUME NEW d \in Deciders, DecideWrite(d) PROVE TypeOK'
    BY <1>0, <1>12, ActionsAreVerbs
    DEF DecideWrite, WinnerHoldsTheRow, rows, sweep, net, agent
  <1>13. ASSUME NEW d \in Deciders, DecideNotify(d) PROVE TypeOK'
    BY <1>0, <1>13, EventShape, ActionsAreVerbs
    DEF DecideNotify, Send, WinnerHoldsTheRow, rows, sweep, agent
  <1>14. ASSUME NEW d \in Deciders, DecideFail(d) PROVE TypeOK'
    BY <1>0, <1>14 DEF DecideFail, Fault, rows, sweep, net, agent
  <1>15. CASE SweepScan
    BY <1>0, <1>15 DEF SweepScan, FindExpired, rows, decider, net, agent
  <1>16. CASE SweepMark
    BY <1>0, <1>16 DEF SweepMark, decider, net, agent
  <1>17. CASE SweepWrite
    BY <1>0, <1>17 DEF SweepWrite, rows, decider, net, agent
  <1>18. CASE SweepNotify
    BY <1>0, <1>18, EventShape DEF SweepNotify, WinnerHoldsTheRow, Send, rows, decider, agent
  <1>19. CASE SweepDone
    BY <1>0, <1>19 DEF SweepDone, rows, decider, net, agent
  <1>20. CASE SweepFail
    BY <1>0, <1>20 DEF SweepFail, Fault, rows, decider, net, agent
  <1>25. CASE SweepPanic
    BY <1>0, <1>25, EventShape
    DEF SweepPanic, Fault, WinnerHoldsTheRow, Send, rows, decider, net, agent
  <1>21. CASE Break \/ Notice \/ Redial \/ Registered
    <2>1. CASE Break
      BY <1>0, <2>1 DEF Break, Fault, rows, decider, sweep, agent
    <2>2. CASE Notice
      BY <1>0, <2>2 DEF Notice, rows, decider, sweep, agent
    <2>3. CASE Redial
      BY <1>0, <2>3 DEF Redial, rows, decider, sweep
    <2>4. CASE Registered
      BY <1>0, <2>4 DEF Registered, rows, decider, sweep, agent
    <2> QED
      BY <1>21, <2>1, <2>2, <2>3, <2>4
  <1>22. CASE Crash
    <2>1. /\ create' \in [Asks -> {"idle", "message", "row", "reply", "auto", "over"}]
          /\ ask' \in [Asks -> {"idle", "creating", "waiting", "settled", "failed"}]
      BY <1>0, <1>22 DEF Crash
    <2>2. dpc' \in [Deciders -> {"idle", "mark", "write", "notify"}]
      BY <1>22 DEF Crash
    <2>3. /\ cpc' = "scan" /\ ctodo' = {} /\ ccur' = NoAsk
          /\ link' = "down" /\ dialing' = FALSE /\ buffered' = {} /\ wire' = {}
          /\ faults' = faults + 1
          /\ UNCHANGED <<row, decided, pattern, card, overdue, dask, daction, answer, rtodo>>
      BY <1>22 DEF Crash, Fault, rows
    <2>4. ccur' \in Asks \cup {NoAsk} /\ ctodo' \subseteq Asks
      BY <2>3
    <2>5. wire' \subseteq Events /\ buffered' \subseteq Events
      BY <2>3
    <2>6. faults' \in Nat
      BY <1>0, <2>3
    <2> QED
      BY <1>0, <2>1, <2>2, <2>3, <2>4, <2>5, <2>6
  <1>23. ASSUME NEW e \in wire, Deliver(e) PROVE TypeOK'
    BY <1>0, <1>23, ActionsAreVerbs DEF Deliver, Settle, Events, rows, decider, sweep
  <1>24. CASE UNCHANGED vars
    BY <1>0, <1>24 DEF vars, rows, decider, sweep, net, agent
  <1> QED
    BY <1>1, <1>2, <1>3, <1>4, <1>5, <1>6, <1>7, <1>8, <1>9, <1>10, <1>11, <1>12,
       <1>13, <1>14, <1>15, <1>16, <1>17, <1>18, <1>19, <1>20, <1>21, <1>22, <1>23,
       <1>24, <1>25 DEF Next

-----------------------------------------------------------------------------
(* The two rows *)

(* The core of the argument: a row is inserted for an ask that has none, it   *)
(* is concluded once, and from then on neither verdict nor action moves.     *)
RowMoves(a) ==
    /\ row[a] \in Final => row'[a] = row[a] /\ decided'[a] = decided[a]
    /\ \/ row'[a] = row[a]
       \/ row[a] = "none" /\ row'[a] = "pending"
       \/ row[a] = "pending" /\ row'[a] \in Final

LEMMA RowStep ==
    ASSUME IInv, [Next]_vars
    PROVE  (\A a \in Asks : RowMoves(a)) /\ [Promise!Next]_row
  <1> USE DEF Promise!Next, Promise!Raise, Promise!Conclude, Promise!Open, Promise!Final
  <1>0. TypeOK /\ WinnerHoldsTheRow /\ CreationOrder
    BY DEF IInv
  <1>1. ASSUME NEW b \in Asks, CreateRow(b)
        PROVE (\A a \in Asks : RowMoves(a)) /\ [Promise!Next]_row
    BY <1>0, <1>1 DEF CreateRow, CreationOrder, TypeOK, RowMoves
  <1>2. ASSUME NEW d \in Deciders, DecideMark(d)
        PROVE (\A a \in Asks : RowMoves(a)) /\ [Promise!Next]_row
    <2>1. daction[d] \in Verb /\ RowState(daction[d]) \in Final
      BY <1>0, ActionsAreVerbs DEF TypeOK
    <2> QED
      BY <1>0, <1>2, <2>1 DEF DecideMark, StillPending, WinnerHoldsTheRow, TypeOK, RowMoves, rows
  <1>3. CASE SweepMark
    BY <1>0, <1>3 DEF SweepMark, StillPending, TypeOK, RowMoves
  <1>4. ASSUME UNCHANGED <<row, decided>>
        PROVE (\A a \in Asks : RowMoves(a)) /\ [Promise!Next]_row
    BY <1>4 DEF RowMoves
  <1>5. ASSUME NEW a \in Asks,
               \/ CreateStart(a) \/ CreateMessage(a) \/ AskReply(a) \/ CreateFail(a)
               \/ Overrun(a) \/ Timer(a) \/ Fetch(a) \/ FetchFail(a)
        PROVE UNCHANGED <<row, decided>>
    BY <1>5 DEF CreateStart, CreateMessage, AskReply, CreateFail, Overrun, Timer, Fetch,
                FetchFail, rows
  <1>6. ASSUME NEW d \in Deciders,
               DecideStart(d) \/ DecideWrite(d) \/ DecideNotify(d) \/ DecideFail(d)
        PROVE UNCHANGED <<row, decided>>
    BY <1>6 DEF DecideStart, DecideWrite, DecideNotify, DecideFail, rows
  <1>7. ASSUME SweepScan \/ SweepWrite \/ SweepNotify \/ SweepDone \/ SweepFail
               \/ SweepPanic
        PROVE UNCHANGED <<row, decided>>
    BY <1>7 DEF SweepScan, SweepWrite, SweepNotify, SweepDone, SweepFail,
                SweepPanic, rows
  <1>8. ASSUME Break \/ Notice \/ Redial \/ Registered \/ Crash
        PROVE UNCHANGED <<row, decided>>
    BY <1>8 DEF Break, Notice, Redial, Registered, Crash, rows
  <1>9. ASSUME NEW e \in wire, Deliver(e) PROVE UNCHANGED <<row, decided>>
    BY <1>9 DEF Deliver, rows
  <1>10. ASSUME UNCHANGED vars PROVE UNCHANGED <<row, decided>>
    BY <1>10 DEF vars, rows
  <1> QED
    BY <1>1, <1>2, <1>3, <1>4, <1>5, <1>6, <1>7, <1>8, <1>9, <1>10 DEF Next

(* What was true of a concluded row stays true of it. *)
LEMMA ConcludedStays ==
    ASSUME IInv, [Next]_vars, NEW a \in Asks, row[a] \in Final
    PROVE  row'[a] = row[a] /\ decided'[a] = decided[a]
  BY RowStep DEF RowMoves

LEMMA EarnedStays ==
    ASSUME IInv, [Next]_vars, NEW a \in Asks, Earned(a)
    PROVE  Earned(a)'
  BY RowStep DEF RowMoves, Earned

-----------------------------------------------------------------------------
(* Winners *)

LEMMA WinnerStep == ASSUME IInv, [Next]_vars PROVE WinnerHoldsTheRow'
  <1> DEFINE Holds(d) ==
          /\ dpc[d] # "idle" => dask[d] \in Asks /\ daction[d] \in AllActions
          /\ dpc[d] \in {"write", "notify"} =>
                /\ row[dask[d]] = RowState(daction[d])
                /\ decided[dask[d]] = daction[d]
      SweepHolds == cpc \in {"write", "notify"} => ccur \in Asks /\ row[ccur] = "expired"
  <1>0. TypeOK /\ (\A d \in Deciders : Holds(d)) /\ SweepHolds
    BY DEF IInv, WinnerHoldsTheRow
  <1>1. ASSUME UNCHANGED decider PROVE \A d \in Deciders : Holds(d)'
    <2> TAKE d \in Deciders
    <2>1. dpc[d] \in {"write", "notify"} => row[dask[d]] \in Final
      BY <1>0, ActionsAreVerbs DEF TypeOK
    <2> QED
      BY <1>0, <1>1, <2>1, ConcludedStays DEF decider
  <1>2. ASSUME UNCHANGED <<cpc, ccur>> PROVE SweepHolds'
    BY <1>0, <1>2, ConcludedStays
  <1>3. ASSUME NEW d \in Deciders,
               \/ DecideStart(d) \/ DecideMark(d) \/ DecideWrite(d)
               \/ DecideNotify(d) \/ DecideFail(d)
        PROVE (\A q \in Deciders : Holds(q)') /\ UNCHANGED <<cpc, ccur>>
    <2>1. UNCHANGED <<cpc, ccur>>
      BY <1>3 DEF DecideStart, DecideMark, DecideWrite, DecideNotify, DecideFail, sweep
    <2>2. \A q \in Deciders \ {d} :
             dpc'[q] = dpc[q] /\ dask'[q] = dask[q] /\ daction'[q] = daction[q]
      BY <1>0, <1>3 DEF DecideStart, DecideMark, DecideWrite, DecideNotify, DecideFail, TypeOK
    <2>3. \A q \in Deciders \ {d} : Holds(q)'
      <3> TAKE q \in Deciders \ {d}
      <3>1. dpc[q] \in {"write", "notify"} => row[dask[q]] \in Final
        BY <1>0, ActionsAreVerbs DEF TypeOK
      <3> QED
        BY <1>0, <2>2, <3>1, ConcludedStays
    <2>4. Holds(d)'
      <3>1. CASE DecideStart(d)
        <4>1. PICK a \in Asks :
                 /\ dask' = [dask EXCEPT ![d] = a]
                 /\ \E action \in Actions(CardType[a]) : daction' = [daction EXCEPT ![d] = action]
          BY <3>1 DEF DecideStart, Admitted, GetForDecision
        <4>2. PICK action \in Actions(CardType[a]) : daction' = [daction EXCEPT ![d] = action]
          BY <4>1
        <4>3. action \in AllActions
          BY <4>2, ActionsAreVerbs, ApprovalAssumption
        <4> QED
          BY <1>0, <3>1, <4>1, <4>2, <4>3 DEF DecideStart, TypeOK
      <3>2. CASE DecideMark(d)
        BY <1>0, <3>2 DEF DecideMark, StillPending, TypeOK, rows
      <3>3. CASE DecideWrite(d)
        BY <1>0, <3>3 DEF DecideWrite, TypeOK, rows
      <3>4. CASE DecideNotify(d) \/ DecideFail(d)
        BY <1>0, <3>4 DEF DecideNotify, DecideFail, TypeOK, rows
      <3> QED
        BY <1>3, <3>1, <3>2, <3>3, <3>4
    <2> QED
      BY <2>1, <2>3, <2>4
  <1>4. ASSUME SweepScan \/ SweepMark \/ SweepWrite \/ SweepNotify \/ SweepDone \/ SweepFail
               \/ SweepPanic
        PROVE SweepHolds' /\ UNCHANGED decider
    <2>1. UNCHANGED decider
      BY <1>4 DEF SweepScan, SweepMark, SweepWrite, SweepNotify, SweepDone, SweepFail,
                  SweepPanic
    <2>2. CASE SweepMark
      BY <1>0, <2>2 DEF SweepMark, StillPending, TypeOK
    <2>3. CASE SweepScan \/ SweepWrite \/ SweepNotify \/ SweepDone \/ SweepFail
               \/ SweepPanic
      BY <1>0, <2>3 DEF SweepScan, SweepWrite, SweepNotify, SweepDone, SweepFail,
                        SweepPanic, rows
    <2> QED
      BY <1>4, <2>1, <2>2, <2>3
  <1>5. CASE Crash
    <2>1. \A d \in Deciders : dpc'[d] = "idle"
      BY <1>5 DEF Crash
    <2>2. cpc' = "scan"
      BY <1>5 DEF Crash
    <2> QED
      BY <2>1, <2>2 DEF WinnerHoldsTheRow
  <1>6. ASSUME NEW a \in Asks,
               \/ CreateStart(a) \/ CreateMessage(a) \/ CreateRow(a) \/ AskReply(a)
               \/ CreateFail(a) \/ Overrun(a) \/ Timer(a) \/ Fetch(a) \/ FetchFail(a)
        PROVE UNCHANGED <<decider, cpc, ccur>>
    BY <1>6 DEF CreateStart, CreateMessage, CreateRow, AskReply, CreateFail, Overrun, Timer,
                Fetch, FetchFail, sweep
  <1>7. ASSUME Break \/ Notice \/ Redial \/ Registered PROVE UNCHANGED <<decider, cpc, ccur>>
    BY <1>7 DEF Break, Notice, Redial, Registered, sweep
  <1>8. ASSUME NEW e \in wire, Deliver(e) PROVE UNCHANGED <<decider, cpc, ccur>>
    BY <1>8 DEF Deliver, sweep
  <1>9. ASSUME UNCHANGED vars PROVE UNCHANGED <<decider, cpc, ccur>>
    BY <1>9 DEF vars, sweep
  <1> QED
    BY <1>1, <1>2, <1>3, <1>4, <1>5, <1>6, <1>7, <1>8, <1>9 DEF Next, WinnerHoldsTheRow

-----------------------------------------------------------------------------
(* The order of creation *)

LEMMA CreationStep == ASSUME IInv, [Next]_vars PROVE CreationOrder'
  <1> DEFINE Order(a) ==
          /\ create[a] \in {"idle", "message", "row", "auto"} => row[a] = "none"
          /\ create[a] = "auto" => Earned(a)
          /\ (ask[a] = "idle") <=> (create[a] = "idle")
          /\ (ask[a] = "creating") <=> (create[a] \in {"message", "row", "reply", "auto"})
          /\ answer[a] # "none" => ask[a] = "settled"
  <1>0. TypeOK /\ (\A a \in Asks : Order(a)) /\ (\A a \in Asks : Earned(a) => Earned(a)')
    BY EarnedStays DEF IInv, CreationOrder
  <1> SUFFICES ASSUME NEW a \in Asks PROVE Order(a)'
    BY DEF CreationOrder
  <1>1. ASSUME UNCHANGED <<create, ask, answer>>, row[a] = "none" => row'[a] = "none"
        PROVE Order(a)'
    BY <1>0, <1>1
  <1>2. ASSUME UNCHANGED <<create>>, UNCHANGED row,
               \/ ask'[a] = ask[a] /\ answer'[a] = answer[a]
               \/ ask[a] = "waiting" /\ ask'[a] = "settled"
        PROVE Order(a)'
    BY <1>0, <1>2 DEF TypeOK
  <1>3. ASSUME NEW b \in Asks, CreateStart(b) PROVE Order(a)'
    <2>1. UNCHANGED <<row, answer>>
      BY <1>3 DEF CreateStart, rows
    <2>2. Whitelisted(b) => Earned(b)
      BY DEF Whitelisted, Earned
    <2> QED
      BY <1>0, <1>3, <2>1, <2>2 DEF CreateStart, TypeOK
  <1>4. ASSUME NEW b \in Asks, CreateMessage(b) PROVE Order(a)'
    BY <1>0, <1>4 DEF CreateMessage, TypeOK, rows, agent
  <1>5. ASSUME NEW b \in Asks, CreateRow(b) PROVE Order(a)'
    BY <1>0, <1>5 DEF CreateRow, TypeOK, agent
  <1>6. ASSUME NEW b \in Asks, AskReply(b) PROVE Order(a)'
    BY <1>0, <1>6 DEF AskReply, TypeOK, rows
  <1>7. ASSUME NEW b \in Asks, CreateFail(b) PROVE Order(a)'
    BY <1>0, <1>7 DEF CreateFail, TypeOK, rows
  <1>8. ASSUME NEW b \in Asks, Overrun(b) \/ FetchFail(b) PROVE Order(a)'
    BY <1>0, <1>1, <1>8 DEF Overrun, FetchFail, rows, agent
  <1>9. ASSUME NEW b \in Asks, Timer(b) \/ Fetch(b) PROVE Order(a)'
    BY <1>0, <1>2, <1>9 DEF Timer, Fetch, Get, Settle, TypeOK, rows
  <1>10. ASSUME NEW d \in Deciders,
                \/ DecideStart(d) \/ DecideMark(d) \/ DecideWrite(d)
                \/ DecideNotify(d) \/ DecideFail(d)
         PROVE Order(a)'
    <2>1. UNCHANGED <<create, ask, answer>>
      BY <1>10 DEF DecideStart, DecideMark, DecideWrite, DecideNotify, DecideFail, agent
    <2>2. dpc[d] = "mark" => dask[d] \in Asks
      BY DEF IInv, WinnerHoldsTheRow
    <2>3. row[a] = "none" => row'[a] = "none"
      BY <1>0, <1>10, <2>2 DEF DecideStart, DecideMark, DecideWrite, DecideNotify, DecideFail,
                               StillPending, TypeOK, rows
    <2> QED
      BY <1>1, <2>1, <2>3
  <1>11. ASSUME SweepScan \/ SweepMark \/ SweepWrite \/ SweepNotify \/ SweepDone \/ SweepFail
                \/ SweepPanic
         PROVE Order(a)'
    <2>1. UNCHANGED <<create, ask, answer>>
      BY <1>11 DEF SweepScan, SweepMark, SweepWrite, SweepNotify, SweepDone, SweepFail,
                   SweepPanic, agent
    <2>2. row[a] = "none" => row'[a] = "none"
      BY <1>0, <1>11 DEF SweepScan, SweepMark, SweepWrite, SweepNotify, SweepDone, SweepFail,
                         SweepPanic,
                         StillPending, TypeOK, rows
    <2> QED
      BY <1>1, <2>1, <2>2
  <1>12. ASSUME Break \/ Notice \/ Redial \/ Registered PROVE Order(a)'
    BY <1>0, <1>1, <1>12 DEF Break, Notice, Redial, Registered, rows, agent
  <1>13. CASE Crash
    <2>1. /\ create' = [b \in Asks |-> IF b \in Running THEN "over" ELSE create[b]]
          /\ ask' = [b \in Asks |-> IF b \in Running THEN "failed" ELSE ask[b]]
          /\ UNCHANGED <<row, answer>>
      BY <1>13 DEF Crash, rows
    <2>2. a \in Running <=> create[a] \in {"message", "row", "reply", "auto"}
      BY DEF Running
    <2> QED
      BY <1>0, <2>1, <2>2 DEF TypeOK
  <1>14. ASSUME NEW e \in wire, Deliver(e) PROVE Order(a)'
    <2>1. e.ask \in Asks
      BY <1>0 DEF TypeOK, Events
    <2> QED
      BY <1>0, <1>2, <1>14, <2>1 DEF Deliver, Settle, TypeOK, rows
  <1>15. ASSUME UNCHANGED vars PROVE Order(a)'
    BY <1>0, <1>1, <1>15 DEF vars, rows, agent
  <1> QED
    BY <1>3, <1>4, <1>5, <1>6, <1>7, <1>8, <1>9, <1>10, <1>11, <1>12, <1>13, <1>14, <1>15
    DEF Next

-----------------------------------------------------------------------------
(* The card and the events follow the winner *)

LEMMA CardStep == ASSUME IInv, [Next]_vars PROVE CardNeverContradicts'
  <1>0. TypeOK /\ WinnerHoldsTheRow /\ CardNeverContradicts
    BY DEF IInv
  <1> SUFFICES ASSUME NEW a \in Asks, card'[a] \in Final PROVE card'[a] = row'[a]
    BY DEF CardNeverContradicts
  <1>1. ASSUME card'[a] = card[a] PROVE card'[a] = row'[a]
    BY <1>0, <1>1, ConcludedStays DEF CardNeverContradicts
  <1>2. ASSUME NEW b \in Asks, CreateMessage(b) PROVE card'[a] = row'[a]
    <2>1. a # b
      BY <1>0, <1>2 DEF CreateMessage, TypeOK
    <2> QED
      BY <1>0, <1>1, <1>2, <2>1 DEF CreateMessage, TypeOK
  <1>3. ASSUME NEW d \in Deciders, DecideWrite(d) PROVE card'[a] = row'[a]
    <2>1. /\ dask[d] \in Asks /\ daction[d] \in Verb
          /\ row[dask[d]] = CardState(daction[d])
      BY <1>0, <1>3, ActionsAreVerbs DEF DecideWrite, WinnerHoldsTheRow
    <2>2. CASE a = dask[d]
      BY <1>0, <1>3, <2>1, <2>2 DEF DecideWrite, TypeOK, rows
    <2>3. CASE a # dask[d]
      BY <1>0, <1>1, <1>3, <2>3 DEF DecideWrite, TypeOK
    <2> QED
      BY <2>2, <2>3
  <1>4. CASE SweepWrite
    <2>1. CASE a = ccur
      BY <1>0, <1>4, <2>1 DEF SweepWrite, WinnerHoldsTheRow, TypeOK, rows
    <2>2. CASE a # ccur
      BY <1>0, <1>1, <1>4, <2>2 DEF SweepWrite, TypeOK
    <2> QED
      BY <2>1, <2>2
  <1>5. ASSUME NEW b \in Asks,
               \/ CreateStart(b) \/ CreateRow(b) \/ AskReply(b) \/ CreateFail(b)
               \/ Overrun(b) \/ Timer(b) \/ Fetch(b) \/ FetchFail(b)
        PROVE UNCHANGED card
    BY <1>5 DEF CreateStart, CreateRow, AskReply, CreateFail, Overrun, Timer, Fetch, FetchFail
  <1>6. ASSUME NEW d \in Deciders,
               DecideStart(d) \/ DecideMark(d) \/ DecideNotify(d) \/ DecideFail(d)
        PROVE UNCHANGED card
    BY <1>6 DEF DecideStart, DecideMark, DecideNotify, DecideFail
  <1>7. ASSUME SweepScan \/ SweepMark \/ SweepNotify \/ SweepDone \/ SweepFail
               \/ SweepPanic
        PROVE UNCHANGED card
    BY <1>7 DEF SweepScan, SweepMark, SweepNotify, SweepDone, SweepFail, SweepPanic
  <1>8. ASSUME Break \/ Notice \/ Redial \/ Registered \/ Crash PROVE UNCHANGED card
    BY <1>8 DEF Break, Notice, Redial, Registered, Crash
  <1>9. ASSUME NEW e \in wire, Deliver(e) PROVE UNCHANGED card
    BY <1>9 DEF Deliver
  <1>10. ASSUME UNCHANGED vars PROVE UNCHANGED card
    BY <1>10 DEF vars
  <1> QED
    BY <1>1, <1>2, <1>3, <1>4, <1>5, <1>6, <1>7, <1>8, <1>9, <1>10 DEF Next

TellsTheRow(e) ==
    IF e.type = "expired" THEN row[e.ask] = "expired"
                          ELSE /\ row[e.ask] = RowState(e.action)
                               /\ decided[e.ask] = e.action

LEMMA EventStep == ASSUME IInv, [Next]_vars PROVE EventTellsTheRow'
  <1>0. TypeOK /\ WinnerHoldsTheRow /\ (\A e \in wire \cup buffered : TellsTheRow(e))
    BY DEF IInv, EventTellsTheRow, TellsTheRow
  <1>1. \A e \in wire \cup buffered : TellsTheRow(e)'
    <2> TAKE e \in wire \cup buffered
    <2>1. e.ask \in Asks /\ e.action \in Verb
      BY <1>0 DEF TypeOK, Events
    <2>2. row[e.ask] \in Final
      BY <1>0, <2>1, ActionsAreVerbs DEF TellsTheRow
    <2> QED
      BY <1>0, <2>1, <2>2, ConcludedStays DEF TellsTheRow
  <1>2. ASSUME wire' \cup buffered' \subseteq wire \cup buffered PROVE EventTellsTheRow'
    BY <1>1, <1>2 DEF EventTellsTheRow, TellsTheRow
  <1>3. ASSUME NEW e, TellsTheRow(e)', wire' \cup buffered' \subseteq wire \cup buffered \cup {e}
        PROVE  EventTellsTheRow'
    BY <1>1, <1>3 DEF EventTellsTheRow, TellsTheRow
  <1>4. ASSUME NEW d \in Deciders, DecideNotify(d) PROVE EventTellsTheRow'
    <2>1. /\ dask[d] \in Asks /\ row[dask[d]] = RowState(daction[d])
          /\ decided[dask[d]] = daction[d] /\ UNCHANGED <<row, decided>>
      BY <1>0, <1>4 DEF DecideNotify, WinnerHoldsTheRow, rows
    <2>2. PICK a, v : a = dask[d] /\ v = daction[d]
      OBVIOUS
    <2>3. TellsTheRow(DecidedEvent(a, v))'
      BY <2>1, <2>2 DEF DecidedEvent, TellsTheRow
    <2>4. wire' \cup buffered' \subseteq wire \cup buffered \cup {DecidedEvent(a, v)}
      BY <1>4, <2>2 DEF DecideNotify, Send
    <2> QED
      BY <1>3, <2>3, <2>4
  <1>5. CASE SweepNotify \/ SweepPanic
    <2>1. row[ccur] = "expired" /\ UNCHANGED row
      BY <1>0, <1>5 DEF SweepNotify, SweepPanic, WinnerHoldsTheRow, rows
    <2>2. PICK a : a = ccur
      OBVIOUS
    <2>3. TellsTheRow(ExpiredEvent(a))'
      BY <2>1, <2>2 DEF ExpiredEvent, TellsTheRow
    <2>4. wire' \cup buffered' \subseteq wire \cup buffered \cup {ExpiredEvent(a)}
      BY <1>5, <2>2 DEF SweepNotify, SweepPanic, Send, net
    <2> QED
      BY <1>3, <2>3, <2>4
  <1>6. ASSUME NEW b \in Asks,
               \/ CreateStart(b) \/ CreateMessage(b) \/ CreateRow(b) \/ AskReply(b)
               \/ CreateFail(b) \/ Overrun(b) \/ Timer(b) \/ Fetch(b) \/ FetchFail(b)
        PROVE EventTellsTheRow'
    BY <1>2, <1>6 DEF CreateStart, CreateMessage, CreateRow, AskReply, CreateFail, Overrun,
                      Timer, Fetch, FetchFail, net
  <1>7. ASSUME NEW d \in Deciders,
               DecideStart(d) \/ DecideMark(d) \/ DecideWrite(d) \/ DecideFail(d)
        PROVE EventTellsTheRow'
    BY <1>2, <1>7 DEF DecideStart, DecideMark, DecideWrite, DecideFail, net
  <1>8. ASSUME SweepScan \/ SweepMark \/ SweepWrite \/ SweepDone \/ SweepFail
        PROVE EventTellsTheRow'
    BY <1>2, <1>8 DEF SweepScan, SweepMark, SweepWrite, SweepDone, SweepFail, net
  <1>9. ASSUME Break \/ Notice \/ Redial \/ Registered \/ Crash PROVE EventTellsTheRow'
    BY <1>2, <1>9 DEF Break, Notice, Redial, Registered, Crash
  <1>10. ASSUME NEW e \in wire, Deliver(e) PROVE EventTellsTheRow'
    BY <1>2, <1>10 DEF Deliver
  <1>11. ASSUME UNCHANGED vars PROVE EventTellsTheRow'
    BY <1>2, <1>11 DEF vars, net
  <1> QED
    BY <1>4, <1>5, <1>6, <1>7, <1>8, <1>9, <1>10, <1>11 DEF Next

-----------------------------------------------------------------------------
(* What the agent concludes is what the users decided *)

(* An answer is sound when the row, or an earlier "always", stands behind it. *)
SoundAnswer(a) ==
    /\ answer[a] = "approved" => row[a] = "approved" \/ (row[a] = "none" /\ Earned(a))
    /\ answer[a] = "denied" => row[a] = "denied"

LEMMA AnswerStep == ASSUME IInv, [Next]_vars PROVE ConsentIsReal' /\ RefusalIsReal'
  <1>0. /\ TypeOK /\ CreationOrder /\ EventTellsTheRow
        /\ \A a \in Asks : SoundAnswer(a)
    BY DEF IInv, ConsentIsReal, RefusalIsReal, SoundAnswer
  <1> SUFFICES ASSUME NEW a \in Asks PROVE SoundAnswer(a)'
    BY DEF ConsentIsReal, RefusalIsReal, SoundAnswer
  <1>1. ASSUME answer'[a] = answer[a], row'[a] = row[a] \/ row[a] # "none"
        PROVE SoundAnswer(a)'
    BY <1>0, <1>1, ConcludedStays, EarnedStays DEF SoundAnswer
  <1>2. ASSUME NEW b \in Asks, CreateRow(b) PROVE SoundAnswer(a)'
    <2>1. UNCHANGED answer /\ row' = [row EXCEPT ![b] = "pending"]
      BY <1>2 DEF CreateRow, agent
    <2>2. create[b] = "row"
      BY <1>2 DEF CreateRow
    <2>3. answer[b] = "none"
      BY <1>0, <2>2 DEF CreationOrder
    <2> QED
      BY <1>0, <1>1, <2>1, <2>3 DEF TypeOK, SoundAnswer
  <1>3. ASSUME NEW b \in Asks, AskReply(b) PROVE SoundAnswer(a)'
    <2>1. UNCHANGED <<row, decided>>
      BY <1>3 DEF AskReply, rows
    <2>2. CASE answer' = answer
      BY <1>1, <2>1, <2>2
    <2>3. CASE create[b] = "auto" /\ answer' = [answer EXCEPT ![b] = "approved"]
      <3>1. row[b] = "none" /\ Earned(b)
        BY <1>0, <2>3 DEF CreationOrder
      <3> QED
        BY <1>0, <1>1, <2>1, <2>3, <3>1, EarnedStays DEF TypeOK, SoundAnswer
    <2> QED
      BY <1>3, <2>2, <2>3 DEF AskReply
  <1>4. ASSUME NEW b \in Asks, Timer(b) PROVE SoundAnswer(a)'
    BY <1>0, <1>1, <1>4 DEF Timer, Settle, TypeOK, SoundAnswer, rows
  <1>5. ASSUME NEW b \in Asks, Fetch(b) PROVE SoundAnswer(a)'
    BY <1>0, <1>1, <1>5 DEF Fetch, Get, Settle, TypeOK, SoundAnswer, rows
  <1>6. ASSUME NEW e \in wire, Deliver(e) PROVE SoundAnswer(a)'
    <2>1. e.ask \in Asks /\ e.action \in Verb /\ e.type \in {"decided", "expired"}
      BY <1>0 DEF TypeOK, Events
    <2>2. UNCHANGED <<row, decided>>
      BY <1>6 DEF Deliver, rows
    <2>3. CASE UNCHANGED answer
      BY <1>1, <2>2, <2>3
    <2>4. CASE answer' = [answer EXCEPT ![e.ask] =
                             IF e.type = "expired" THEN "expired" ELSE AskState(e.action)]
      <3>1. e.type # "expired" => row[e.ask] = AskState(e.action)
        BY <1>0, <2>1, ActionsAreVerbs DEF EventTellsTheRow
      <3> QED
        BY <1>0, <1>1, <2>1, <2>2, <2>4, <3>1 DEF TypeOK, SoundAnswer
    <2> QED
      BY <1>6, <2>3, <2>4 DEF Deliver, Settle
  <1>7. ASSUME UNCHANGED answer, row'[a] = row[a] \/ row[a] # "none"
        PROVE SoundAnswer(a)'
    BY <1>1, <1>7
  <1>8. ASSUME NEW b \in Asks,
               \/ CreateStart(b) \/ CreateMessage(b) \/ CreateFail(b)
               \/ Overrun(b) \/ FetchFail(b)
        PROVE UNCHANGED <<answer, row>>
    BY <1>8 DEF CreateStart, CreateMessage, CreateFail, Overrun, FetchFail, rows, agent
  <1>9. ASSUME NEW d \in Deciders,
               \/ DecideStart(d) \/ DecideMark(d) \/ DecideWrite(d)
               \/ DecideNotify(d) \/ DecideFail(d)
        PROVE UNCHANGED answer /\ (row'[a] = row[a] \/ row[a] # "none")
    <2>1. dpc[d] = "mark" => dask[d] \in Asks
      BY DEF IInv, WinnerHoldsTheRow
    <2> QED
      BY <1>0, <1>9, <2>1 DEF DecideStart, DecideMark, DecideWrite, DecideNotify, DecideFail,
                              StillPending, TypeOK, rows, agent
  <1>10. ASSUME SweepScan \/ SweepMark \/ SweepWrite \/ SweepNotify \/ SweepDone \/ SweepFail
                \/ SweepPanic
         PROVE UNCHANGED answer /\ (row'[a] = row[a] \/ row[a] # "none")
    BY <1>0, <1>10 DEF SweepScan, SweepMark, SweepWrite, SweepNotify, SweepDone, SweepFail,
                       SweepPanic,
                       StillPending, TypeOK, rows, agent
  <1>11. ASSUME Break \/ Notice \/ Redial \/ Registered \/ Crash PROVE UNCHANGED <<answer, row>>
    BY <1>11 DEF Break, Notice, Redial, Registered, Crash, rows, agent
  <1>12. ASSUME UNCHANGED vars PROVE UNCHANGED <<answer, row>>
    BY <1>12 DEF vars, rows, agent
  <1> QED
    BY <1>2, <1>3, <1>4, <1>5, <1>6, <1>7, <1>8, <1>9, <1>10, <1>11, <1>12 DEF Next

-----------------------------------------------------------------------------
(* Theorems *)

(* IInv is inductive: it holds initially and every step of the handlers, the  *)
(* sweep, the network and the agent preserves it.                            *)
THEOREM InvariantHolds == Spec => []IInv
  <1>1. ASSUME IInv, [Next]_vars PROVE IInv'
    BY <1>1, TypeStep, WinnerStep, CreationStep, CardStep, EventStep, AnswerStep DEF IInv
  <1> QED
    BY InitIInv, <1>1, PTL DEF Spec

(* The state copied into the message never contradicts the approval's row,    *)
(* whichever of its writers failed half-way.                                 *)
THEOREM CardSafe == Spec => []CardNeverContradicts
  <1>1. IInv => CardNeverContradicts
    BY DEF IInv
  <1> QED
    BY <1>1, InvariantHolds, PTL

(* No loser of the race for an approval ever announces a verdict. *)
THEOREM EventsSafe == Spec => []EventTellsTheRow
  <1>1. IInv => EventTellsTheRow
    BY DEF IInv
  <1> QED
    BY <1>1, InvariantHolds, PTL

(* The agent never takes for approved, or for denied, what no user approved   *)
(* or denied, however events are lost, replayed or overtaken.                *)
THEOREM AnswersSafe == Spec => [](ConsentIsReal /\ RefusalIsReal)
  <1>1. IInv => ConsentIsReal /\ RefusalIsReal
    BY DEF IInv
  <1> QED
    BY <1>1, InvariantHolds, PTL

(* The row implements the one-conclusion promise. *)
THEOREM Implementation == Spec => ConcludesOnce
  <1>1. Init => Promise!Init
    BY DEF Init, Promise!Init
  <1>2. ASSUME IInv, [Next]_vars PROVE [Promise!Next]_row
    BY <1>2, RowStep
  <1> QED
    BY <1>1, <1>2, InvariantHolds, PTL DEF Spec, ConcludesOnce, Promise!Spec
=============================================================================
