----------------------------- MODULE HubProofs -----------------------------
(***************************************************************************)
(* Proofs about the hub's connections, for every set of connections,       *)
(* members and channels. IInv is inductive: one lemma per action shows     *)
(* that the action preserves it, one step per conjunct.  Then the proof    *)
(* that a call whose frame went out fails fast: what the hub guarantees by *)
(* itself carries over, for every step of the composition with the RPC     *)
(* registry is a step of the hub or leaves the hub alone.                  *)
(***************************************************************************)
EXTENDS HubRpc, TLAPS

LEMMA DialStep ==
    ASSUME IInv, NEW c \in Conns, Dial(c)
    PROVE  IInv'
<1> USE MembersAssumption DEF IInv, Dial, pumps, gc, tables, mp, Members
<1>1. TypeOK'
  BY DEF TypeOK, ReaderStates, WriterStates, WorkSteps, Statuses
<1>2. Stages'
  BY DEF Stages, Leaving, TypeOK, OneEvent, OnlySweptAreClosed, ConnsOf
<1>3. OpenAreRouted'
  BY DEF OpenAreRouted, TypeOK, Stages, Leaving
<1>4. NothingLeft'
  BY DEF NothingLeft, Finished, Leaving, TypeOK, Stages
<1>5. OnlineWillEnd'
  BY DEF OnlineWillEnd, ConnsOf, Attached, Finished, OwnersStored, Stages, TypeOK
<1>6. (OneSweep /\ OneEvent /\ OwnersStored /\ OnlySweptAreClosed /\ IndexesAgree)'
  BY DEF OneSweep, OneEvent, OwnersStored, OnlySweptAreClosed, ConnsOf, IndexesAgree
<1>7. QED
  BY <1>1, <1>2, <1>3, <1>4, <1>5, <1>6 DEF IInv

LEMMA TakeRegisterStep ==
    ASSUME IInv, NEW c \in Conns, TakeRegister(c)
    PROVE  IInv'
<1> USE MembersAssumption DEF IInv, TakeRegister, Idle, pumps, gc, tables, mp, Members
<1>1. TypeOK'
  BY DEF TypeOK, ReaderStates, WriterStates, WorkSteps, Statuses
<1>2. OneEvent'
  BY DEF OneEvent, TypeOK
<1>3. Stages'
  BY DEF Stages, Leaving, TypeOK, OneEvent, OnlySweptAreClosed, ConnsOf
<1>4. OpenAreRouted'
  BY DEF OpenAreRouted, TypeOK, Stages, Leaving
<1>5. NothingLeft'
  BY DEF NothingLeft, Finished, Leaving, TypeOK, Stages
<1>6. OnlineWillEnd'
  BY DEF OnlineWillEnd, ConnsOf, Attached, Finished, OwnersStored, Stages, TypeOK
<1>7. (OwnersStored /\ OnlySweptAreClosed /\ IndexesAgree)'
  BY DEF OwnersStored, OnlySweptAreClosed, ConnsOf, IndexesAgree
<1>8. OneSweep'
  BY DEF OneSweep, TypeOK
<1>9. QED
  BY <1>1, <1>2, <1>3, <1>4, <1>5, <1>6, <1>7, <1>8 DEF IInv

LEMMA StoreClientStep ==
    ASSUME IInv, NEW c \in Conns, StoreClient(c)
    PROVE  IInv'
<1> USE MembersAssumption DEF IInv, StoreClient, pumps, gc, tables, mp, Members
<1>1. TypeOK'
  BY DEF TypeOK, ReaderStates, WriterStates, WorkSteps, Statuses
<1>2. OneEvent'
  BY DEF OneEvent, TypeOK
<1>3. Stages'
  BY DEF Stages, Leaving, TypeOK, OneEvent, OnlySweptAreClosed, ConnsOf
<1>4. OnlySweptAreClosed'
  BY DEF OnlySweptAreClosed, ConnsOf, TypeOK, Stages, OneEvent
<1>5. OpenAreRouted'
  BY DEF OpenAreRouted, TypeOK, Stages, Leaving
<1>6. NothingLeft'
  BY DEF NothingLeft, Finished, Leaving, TypeOK, Stages
<1>7. OnlineWillEnd'
  BY DEF OnlineWillEnd, ConnsOf, Attached, Finished, OwnersStored, Stages, TypeOK
<1>8. (OwnersStored /\ IndexesAgree)'
  BY DEF OwnersStored, IndexesAgree
<1>9. OneSweep'
  BY DEF OneSweep, TypeOK
<1>10. QED
  BY <1>1, <1>2, <1>3, <1>4, <1>5, <1>6, <1>7, <1>8, <1>9 DEF IInv

LEMMA AnnounceStep ==
    ASSUME IInv, NEW c \in Conns, Announce(c)
    PROVE  IInv'
<1> USE MembersAssumption DEF IInv, Announce, Stored, pumps, gc, tables, mp, Members
<1>1. TypeOK'
  <2>1. Member[c] \in Agents \cup Users
    OBVIOUS
  <2>2. CASE Member[c] \in Agents /\ status' = [status EXCEPT ![Member[c]] = "online"]
                /\ owners' = owners \cup {Member[c]}
    BY <2>2 DEF TypeOK, ReaderStates, WriterStates, WorkSteps, Statuses
  <2>3. CASE UNCHANGED <<owners, status>>
    BY <2>1, <2>3 DEF TypeOK, ReaderStates, WriterStates, WorkSteps, Statuses
  <2>4. QED
    BY <2>2, <2>3
<1>2. OneEvent'
  BY DEF OneEvent, TypeOK
<1>3. Stages'
  BY DEF Stages, Leaving, TypeOK, OneEvent, OnlySweptAreClosed, ConnsOf
<1>4. OwnersStored'
  BY DEF OwnersStored, TypeOK
<1>5. OpenAreRouted'
  BY DEF OpenAreRouted, TypeOK, Stages, Leaving
<1>6. NothingLeft'
  BY DEF NothingLeft, Finished, Leaving, TypeOK, Stages
<1>7. OnlineWillEnd'
  <2>1. Attached(c)'
    BY DEF Attached, Finished, Leaving, Stages, TypeOK, ReaderStates
  <2>2. \A d \in Conns : Attached(d) => Attached(d)'
    BY DEF Attached, Finished
  <2>3. \A d \in Conns : work[d] \in {"drop", "cancel", "cleanup"} => work'[d] = work[d]
    BY DEF TypeOK
  <2>4. \A a \in Agents : a # Member[c] => status'[a] = status[a]
    BY DEF TypeOK
  <2>5. QED
    BY <2>1, <2>2, <2>3, <2>4 DEF OnlineWillEnd, ConnsOf
<1>8. (OnlySweptAreClosed /\ IndexesAgree)'
  BY DEF OnlySweptAreClosed, ConnsOf, IndexesAgree
<1>9. OneSweep'
  BY DEF OneSweep, TypeOK
<1>10. QED
  BY <1>1, <1>2, <1>3, <1>4, <1>5, <1>6, <1>7, <1>8, <1>9 DEF IInv

LEMMA ReadHeartbeatStep ==
    ASSUME IInv, NEW c \in Conns, ReadHeartbeat(c)
    PROVE  IInv'
<1> USE MembersAssumption DEF IInv, ReadHeartbeat, pumps, gc, tables, mp, Members
<1>1. TypeOK'
  BY DEF TypeOK, ReaderStates, WriterStates, WorkSteps, Statuses
<1>2. Stages'
  BY DEF Stages, Leaving, TypeOK, OneEvent, OnlySweptAreClosed, ConnsOf
<1>3. OpenAreRouted'
  BY DEF OpenAreRouted, TypeOK, Stages, Leaving
<1>4. NothingLeft'
  BY DEF NothingLeft, Finished, Leaving, TypeOK, Stages
<1>5. OnlineWillEnd'
  BY DEF OnlineWillEnd, ConnsOf, Attached, Finished, OwnersStored, Stages, TypeOK
<1>6. (OneSweep /\ OneEvent /\ OwnersStored /\ OnlySweptAreClosed /\ IndexesAgree)'
  BY DEF OneSweep, OneEvent, OwnersStored, OnlySweptAreClosed, ConnsOf, IndexesAgree
<1>7. QED
  BY <1>1, <1>2, <1>3, <1>4, <1>5, <1>6 DEF IInv

LEMMA HeartbeatStep ==
    ASSUME IInv, NEW c \in Conns, Heartbeat(c)
    PROVE  IInv'
<1> USE MembersAssumption DEF IInv, Heartbeat, RefreshTTL, pumps, gc, tables, mp, Members
<1>1. TypeOK'
  BY DEF TypeOK, ReaderStates, WriterStates, WorkSteps, Statuses
<1>2. Stages'
  BY DEF Stages, Leaving, TypeOK, OneEvent, OnlySweptAreClosed, ConnsOf
<1>3. OpenAreRouted'
  BY DEF OpenAreRouted, TypeOK, Stages, Leaving
<1>4. NothingLeft'
  BY DEF NothingLeft, Finished, Leaving, TypeOK, Stages
<1>5. OnlineWillEnd'
  BY DEF OnlineWillEnd, ConnsOf, Attached, Finished, OwnersStored, Stages, TypeOK
<1>6. (OneSweep /\ OneEvent /\ OwnersStored /\ OnlySweptAreClosed /\ IndexesAgree)'
  BY DEF OneSweep, OneEvent, OwnersStored, OnlySweptAreClosed, ConnsOf, IndexesAgree
<1>7. QED
  BY <1>1, <1>2, <1>3, <1>4, <1>5, <1>6 DEF IInv

LEMMA ReadSubscribeStep ==
    ASSUME IInv, NEW c \in Conns, NEW S \in SUBSET Channels, ReadSubscribe(c, S)
    PROVE  IInv'
<1> USE MembersAssumption DEF IInv, ReadSubscribe, pumps, gc, tables, mp, Members
<1>1. TypeOK'
  BY DEF TypeOK, ReaderStates, WriterStates, WorkSteps, Statuses
<1>2. Stages'
  BY DEF Stages, Leaving, TypeOK, OneEvent, OnlySweptAreClosed, ConnsOf
<1>3. OpenAreRouted'
  BY DEF OpenAreRouted, TypeOK, Stages, Leaving
<1>4. NothingLeft'
  BY DEF NothingLeft, Finished, Leaving, TypeOK, Stages
<1>5. OnlineWillEnd'
  BY DEF OnlineWillEnd, ConnsOf, Attached, Finished, OwnersStored, Stages, TypeOK
<1>6. (OneSweep /\ OneEvent /\ OwnersStored /\ OnlySweptAreClosed /\ IndexesAgree)'
  BY DEF OneSweep, OneEvent, OwnersStored, OnlySweptAreClosed, ConnsOf, IndexesAgree
<1>7. QED
  BY <1>1, <1>2, <1>3, <1>4, <1>5, <1>6 DEF IInv

LEMMA SubscribeMpStep ==
    ASSUME IInv, NEW c \in Conns, SubscribeMp(c)
    PROVE  IInv'
<1> USE MembersAssumption DEF IInv, SubscribeMp, Merged, pumps, gc, tables, mp, Members
<1>1. TypeOK'
  BY DEF TypeOK, ReaderStates, WriterStates, WorkSteps, Statuses
<1>2. Stages'
  BY DEF Stages, Leaving, TypeOK, OneEvent, OnlySweptAreClosed, ConnsOf
<1>3. OpenAreRouted'
  BY DEF OpenAreRouted, TypeOK, Stages, Leaving
<1>4. NothingLeft'
  BY DEF NothingLeft, Finished, Leaving, TypeOK, Stages
<1>5. IndexesAgree'
  BY DEF IndexesAgree, TypeOK
<1>6. OnlineWillEnd'
  BY DEF OnlineWillEnd, ConnsOf, Attached, Finished, OwnersStored, Stages, TypeOK
<1>7. (OneSweep /\ OneEvent /\ OwnersStored /\ OnlySweptAreClosed)'
  BY DEF OneSweep, OneEvent, OwnersStored, OnlySweptAreClosed, ConnsOf
<1>8. QED
  BY <1>1, <1>2, <1>3, <1>4, <1>5, <1>6, <1>7 DEF IInv

LEMMA ReadUnsubscribeStep ==
    ASSUME IInv, NEW c \in Conns, ReadUnsubscribe(c)
    PROVE  IInv'
<1> USE MembersAssumption DEF IInv, ReadUnsubscribe, UnsubscribeMp, Walked, pumps, gc, tables, mp, Members
<1>1. TypeOK'
  BY DEF TypeOK, ReaderStates, WriterStates, WorkSteps, Statuses
<1>2. NothingLeft'
  BY DEF NothingLeft, Finished, Leaving, TypeOK, Stages
<1>3. IndexesAgree'
  BY DEF IndexesAgree, TypeOK
<1>4. (OneSweep /\ OneEvent /\ Stages /\ OwnersStored /\ OnlySweptAreClosed /\ OpenAreRouted
       /\ OnlineWillEnd)'
  BY DEF OneSweep, OneEvent, Stages, Leaving, OwnersStored, OnlySweptAreClosed, ConnsOf,
         OpenAreRouted, OnlineWillEnd, Attached, Finished
<1>5. QED
  BY <1>1, <1>2, <1>3, <1>4 DEF IInv

LEMMA ReaderStopsStep ==
    ASSUME IInv, NEW c \in Conns, ReaderStops(c)
    PROVE  IInv'
<1> USE MembersAssumption DEF IInv, ReaderStops, pumps, gc, tables, mp, Members
<1>1. TypeOK'
  BY DEF TypeOK, ReaderStates, WriterStates, WorkSteps, Statuses
<1>2. Stages'
  BY DEF Stages, Leaving, TypeOK, OneEvent, OnlySweptAreClosed, ConnsOf
<1>3. OpenAreRouted'
  BY DEF OpenAreRouted, TypeOK, Stages, Leaving
<1>4. NothingLeft'
  BY DEF NothingLeft, Finished, Leaving, TypeOK, Stages
<1>5. OnlineWillEnd'
  BY DEF OnlineWillEnd, ConnsOf, Attached, Finished, OwnersStored, Stages, TypeOK
<1>6. (OneSweep /\ OneEvent /\ OwnersStored /\ OnlySweptAreClosed /\ IndexesAgree)'
  BY DEF OneSweep, OneEvent, OwnersStored, OnlySweptAreClosed, ConnsOf, IndexesAgree
<1>7. QED
  BY <1>1, <1>2, <1>3, <1>4, <1>5, <1>6 DEF IInv

LEMMA WriterStopsStep ==
    ASSUME IInv, NEW c \in Conns, WriterStops(c)
    PROVE  IInv'
<1> USE MembersAssumption DEF IInv, WriterStops, pumps, gc, tables, mp, Members
<1>1. TypeOK'
  BY DEF TypeOK, ReaderStates, WriterStates, WorkSteps, Statuses
<1>2. Stages'
  BY DEF Stages, Leaving, TypeOK, OneEvent, OnlySweptAreClosed, ConnsOf
<1>3. OpenAreRouted'
  BY DEF OpenAreRouted, TypeOK, Stages, Leaving
<1>4. NothingLeft'
  BY DEF NothingLeft, Finished, Leaving, TypeOK, Stages
<1>5. OnlineWillEnd'
  BY DEF OnlineWillEnd, ConnsOf, Attached, Finished, OwnersStored, Stages, TypeOK
<1>6. (OneSweep /\ OneEvent /\ OwnersStored /\ OnlySweptAreClosed /\ IndexesAgree)'
  BY DEF OneSweep, OneEvent, OwnersStored, OnlySweptAreClosed, ConnsOf, IndexesAgree
<1>7. QED
  BY <1>1, <1>2, <1>3, <1>4, <1>5, <1>6 DEF IInv

LEMMA TakeUnregisterStep ==
    ASSUME IInv, NEW c \in Conns, TakeUnregister(c)
    PROVE  IInv'
<1> USE MembersAssumption DEF IInv, TakeUnregister, Idle, pumps, gc, tables, mp, Members
<1>1. TypeOK'
  BY DEF TypeOK, ReaderStates, WriterStates, WorkSteps, Statuses
<1>2. OneEvent'
  BY DEF OneEvent, TypeOK
<1>3. Stages'
  BY DEF Stages, Leaving, TypeOK, OneEvent, OnlySweptAreClosed, ConnsOf
<1>4. OpenAreRouted'
  BY DEF OpenAreRouted, TypeOK, Stages, Leaving
<1>5. NothingLeft'
  BY DEF NothingLeft, Finished, Leaving, TypeOK, Stages
<1>6. OnlineWillEnd'
  BY DEF OnlineWillEnd, ConnsOf, Attached, Finished, OwnersStored, Stages, TypeOK
<1>7. (OwnersStored /\ OnlySweptAreClosed /\ IndexesAgree)'
  BY DEF OwnersStored, OnlySweptAreClosed, ConnsOf, IndexesAgree
<1>8. OneSweep'
  BY DEF OneSweep, TypeOK
<1>9. QED
  BY <1>1, <1>2, <1>3, <1>4, <1>5, <1>6, <1>7, <1>8 DEF IInv

LEMMA DropClientStep ==
    ASSUME IInv, NEW c \in Conns, DropClient(c)
    PROVE  IInv'
<1> USE MembersAssumption DEF IInv, DropClient, Filtered, pumps, gc, tables, mp, Members
<1>1. TypeOK'
  BY DEF TypeOK, ReaderStates, WriterStates, WorkSteps, Statuses
<1>2. OneEvent'
  BY DEF OneEvent, TypeOK
<1>3. Stages'
  <2>1. c \notin clients'[Member[c]]
    BY DEF TypeOK
  <2>2. \A d \in Conns : clients'[Member[d]] \subseteq clients[Member[d]]
    BY DEF TypeOK
  <2>3. work' = [work EXCEPT ![c] = "cancel"]
    OBVIOUS
  <2> HIDE DEF DropClient, Filtered
  <2>4. UNCHANGED <<reader, writer, closed>>
    BY DEF DropClient
  <2>5. work[c] = "drop"
    BY DEF DropClient
  <2>6. QED
    BY <2>1, <2>2, <2>3, <2>4, <2>5 DEF Stages, Leaving, TypeOK
<1>4. OnlySweptAreClosed'
  BY DEF OnlySweptAreClosed, ConnsOf, TypeOK, Stages, OneEvent
<1>5. OpenAreRouted'
  BY DEF OpenAreRouted, TypeOK, Stages, Leaving
<1>6. NothingLeft'
  BY DEF NothingLeft, Finished, Leaving, TypeOK, Stages
<1>7. OnlineWillEnd'
  BY DEF OnlineWillEnd, ConnsOf, Attached, Finished, OwnersStored, Stages, TypeOK
<1>8. (OwnersStored /\ IndexesAgree)'
  BY DEF OwnersStored, IndexesAgree
<1>9. OneSweep'
  BY DEF OneSweep, TypeOK
<1>10. QED
  BY <1>1, <1>2, <1>3, <1>4, <1>5, <1>6, <1>7, <1>8, <1>9 DEF IInv

LEMMA CancelRpcsStep ==
    ASSUME IInv, NEW c \in Conns, CancelRpcs(c)
    PROVE  IInv'
<1> USE MembersAssumption DEF IInv, CancelRpcs, pumps, gc, tables, mp, Members
<1>1. TypeOK'
  BY DEF TypeOK, ReaderStates, WriterStates, WorkSteps, Statuses
<1>2. OneEvent'
  BY DEF OneEvent, TypeOK
<1>3. Stages'
  BY DEF Stages, Leaving, TypeOK, OneEvent, OnlySweptAreClosed, ConnsOf
<1>4. OpenAreRouted'
  BY DEF OpenAreRouted, TypeOK, Stages, Leaving
<1>5. NothingLeft'
  BY DEF NothingLeft, Finished, Leaving, TypeOK, Stages
<1>6. OnlineWillEnd'
  BY DEF OnlineWillEnd, ConnsOf, Attached, Finished, OwnersStored, Stages, TypeOK
<1>7. (OwnersStored /\ OnlySweptAreClosed /\ IndexesAgree)'
  BY DEF OwnersStored, OnlySweptAreClosed, ConnsOf, IndexesAgree
<1>8. OneSweep'
  BY DEF OneSweep, TypeOK
<1>9. QED
  BY <1>1, <1>2, <1>3, <1>4, <1>5, <1>6, <1>7, <1>8 DEF IInv

LEMMA CleanUpStep ==
    ASSUME IInv, NEW c \in Conns, CleanUp(c)
    PROVE  IInv'
<1> USE MembersAssumption DEF IInv, CleanUp, UnsubscribeMp, Walked, Close, pumps, gc, tables, mp, Members
<1>1. TypeOK'
  BY DEF TypeOK, ReaderStates, WriterStates, WorkSteps, Statuses
<1>2. OneEvent'
  BY DEF OneEvent, TypeOK
<1>3. Stages'
  BY DEF Stages, Leaving, TypeOK, OneEvent, OnlySweptAreClosed, ConnsOf
<1>4. OwnersStored'
  BY DEF OwnersStored, TypeOK
<1>5. OnlySweptAreClosed'
  BY DEF OnlySweptAreClosed, ConnsOf, TypeOK, Stages, OneEvent
<1>6. OpenAreRouted'
  BY DEF OpenAreRouted, TypeOK, Stages, Leaving
<1>7. NothingLeft'
  <2>1. /\ c \in closed'
        /\ c \notin clients'[Member[c]]
        /\ mpClientChans'[c] = {}
    BY DEF Stages, Leaving, TypeOK
  <2>2. \A ch \in Channels : c \notin mpChannels'[ch]
    BY DEF IndexesAgree, TypeOK
  <2>3. ASSUME NEW d \in Conns, d # c, Finished(d)', work'[d] = "none"
        PROVE  /\ d \in closed'
               /\ d \notin clients'[Member[d]]
               /\ mpClientChans'[d] = {}
               /\ \A ch \in Channels : d \notin mpChannels'[ch]
    <3>1. Finished(d) /\ work[d] = "none"
      BY <2>3 DEF Finished, TypeOK
    <3>2. mpClientChans'[d] = mpClientChans[d]
      BY <2>3 DEF TypeOK
    <3>3. \A ch \in Channels : mpChannels'[ch] \subseteq mpChannels[ch]
      BY DEF TypeOK
    <3>4. QED
      BY <3>1, <3>2, <3>3 DEF NothingLeft
  <2>4. QED
    BY <2>1, <2>2, <2>3 DEF NothingLeft
<1>8. IndexesAgree'
  BY DEF IndexesAgree, TypeOK
<1>9. OnlineWillEnd'
  BY DEF OnlineWillEnd, ConnsOf, Attached, Finished, OwnersStored, Stages, TypeOK
<1>10. OneSweep'
  BY DEF OneSweep, TypeOK
<1>11. QED
  BY <1>1, <1>2, <1>3, <1>4, <1>5, <1>6, <1>7, <1>8, <1>9, <1>10 DEF IInv

LEMMA FallSilentStep ==
    ASSUME IInv, NEW c \in Conns, FallSilent(c)
    PROVE  IInv'
<1> USE MembersAssumption DEF IInv, FallSilent, pumps, gc, tables, mp, Members
<1>1. TypeOK'
  BY DEF TypeOK, ReaderStates, WriterStates, WorkSteps, Statuses
<1>2. (OneSweep /\ OneEvent /\ Stages /\ OwnersStored /\ OnlySweptAreClosed /\ OpenAreRouted
       /\ NothingLeft /\ IndexesAgree /\ OnlineWillEnd)'
  BY DEF OneSweep, OneEvent, Stages, Leaving, OwnersStored, OnlySweptAreClosed, ConnsOf,
         OpenAreRouted, NothingLeft, Finished, IndexesAgree, OnlineWillEnd,
         Attached
<1>3. QED
  BY <1>1, <1>2 DEF IInv

LEMMA GcTakeStep ==
    ASSUME IInv, NEW m \in Members, GcTake(m)
    PROVE  IInv'
<1> USE MembersAssumption DEF IInv, GcTake, Idle, pumps, gc, tables, mp, Members
<1>1. TypeOK'
  BY DEF TypeOK, ReaderStates, WriterStates, WorkSteps, Statuses
<1>2. (OnlySweptAreClosed /\ OneSweep)'
  BY DEF OnlySweptAreClosed, OneSweep, TypeOK
<1>3. (OneEvent /\ Stages /\ OwnersStored /\ OpenAreRouted
       /\ NothingLeft /\ IndexesAgree /\ OnlineWillEnd)'
  BY DEF OneEvent, Stages, Leaving, OwnersStored, ConnsOf,
         OpenAreRouted, NothingLeft, Finished, IndexesAgree, OnlineWillEnd,
         Attached
<1>4. QED
  BY <1>1, <1>2, <1>3 DEF IInv

\* What a sweep closes is routed, so it has been stored and is not new.
LEMMA GcCheckStep ==
    ASSUME IInv, NEW c \in Conns, GcCheck(c)
    PROVE  IInv'
<1> USE MembersAssumption DEF IInv, GcCheck, Keeps, pumps, gc, tables, mp, Members
<1>1. TypeOK'
  BY DEF TypeOK, ReaderStates, WriterStates, WorkSteps, Statuses
<1>2. /\ c \in clients[Member[c]]
      /\ \A d \in Conns : work[d] = "none"
  BY DEF OneSweep, OnlySweptAreClosed, TypeOK
<1>3. Stages'
  BY <1>2 DEF Stages, Leaving, TypeOK
<1>4. OnlySweptAreClosed'
  BY DEF OnlySweptAreClosed, OneSweep, TypeOK
<1>5. OneSweep'
  BY DEF OneSweep, TypeOK
<1>6. (OpenAreRouted /\ NothingLeft)'
  BY DEF OpenAreRouted, NothingLeft, Finished, TypeOK
<1>7. (OneEvent /\ OwnersStored /\ IndexesAgree /\ OnlineWillEnd)'
  BY DEF OneEvent, OwnersStored, IndexesAgree, OnlineWillEnd, ConnsOf,
         Attached, Finished
<1>8. QED
  BY <1>1, <1>3, <1>4, <1>5, <1>6, <1>7 DEF IInv

\* When the list is stored, what is not kept is closed.
LEMMA GcStoreStep ==
    ASSUME IInv, NEW m \in Members, GcStore(m)
    PROVE  IInv'
<1> USE MembersAssumption DEF IInv, GcStore, pumps, gc, tables, mp, Members
<1>1. TypeOK'
  BY DEF TypeOK, ReaderStates, WriterStates, WorkSteps, Statuses
<1>2. sweeping = {m} /\ clients' = [clients EXCEPT ![m] = alive] /\ unchecked = {}
  BY DEF OneSweep
<1>3. alive \subseteq clients[m] /\ alive \cap closed = {}
  BY <1>2 DEF OneSweep, OnlySweptAreClosed, TypeOK
<1>4. \A d \in Conns : clients'[Member[d]] \subseteq clients[Member[d]]
  BY <1>2, <1>3 DEF TypeOK
<1>5. Stages'
  BY <1>4 DEF Stages, Leaving, TypeOK
<1>6. OnlySweptAreClosed'
  BY <1>2, <1>3 DEF OnlySweptAreClosed, TypeOK
<1>7. OneSweep'
  BY DEF OneSweep, TypeOK
<1>8. OpenAreRouted'
  BY <1>2 DEF OpenAreRouted, OneSweep, TypeOK
<1>9. NothingLeft'
  BY <1>4 DEF NothingLeft, Finished, TypeOK
<1>10. (OneEvent /\ OwnersStored /\ IndexesAgree /\ OnlineWillEnd)'
  BY DEF OneEvent, OwnersStored, IndexesAgree, OnlineWillEnd, ConnsOf,
         Attached, Finished
<1>11. QED
  BY <1>1, <1>5, <1>6, <1>7, <1>8, <1>9, <1>10 DEF IInv

LEMMA ExpireStep ==
    ASSUME IInv, NEW m \in Members, Expire(m)
    PROVE  IInv'
<1> USE MembersAssumption DEF IInv, Expire, pumps, gc, tables, mp, Members
<1>1. TypeOK'
  BY DEF TypeOK, ReaderStates, WriterStates, WorkSteps, Statuses
<1>2. (OneSweep /\ OneEvent /\ Stages /\ OwnersStored /\ OnlySweptAreClosed /\ OpenAreRouted
       /\ NothingLeft /\ IndexesAgree /\ OnlineWillEnd)'
  BY DEF OneSweep, OneEvent, Stages, Leaving, OwnersStored, OnlySweptAreClosed, ConnsOf,
         OpenAreRouted, NothingLeft, Finished, IndexesAgree, OnlineWillEnd,
         Attached
<1>3. QED
  BY <1>1, <1>2 DEF IInv

LEMMA InitInvariant == Init => IInv
  BY MembersAssumption
  DEF Init, IInv, TypeOK, ReaderStates, WriterStates, WorkSteps, Statuses,
      OneEvent, OneSweep, Stages, Leaving, OwnersStored, OnlySweptAreClosed, ConnsOf,
      OpenAreRouted, NothingLeft, Finished, IndexesAgree, OnlineWillEnd,
      Members

LEMMA StutterInvariant == IInv /\ UNCHANGED vars => IInv'
  BY DEF vars, gc, IInv, TypeOK, OneEvent, OneSweep, Stages, Leaving, OwnersStored,
         OnlySweptAreClosed, ConnsOf, OpenAreRouted, NothingLeft, Finished,
         IndexesAgree, OnlineWillEnd, Attached

(***************************************************************************)
(* Every step of the hub, of a pump, of the clock or of Redis preserves    *)
(* the invariant.                                                          *)
(***************************************************************************)
THEOREM NextInvariant == IInv /\ [Next]_vars => IInv'
<1> SUFFICES ASSUME IInv, [Next]_vars PROVE IInv'
  OBVIOUS
<1>1. CASE UNCHANGED vars
  BY <1>1, StutterInvariant
<1>2. CASE GcStep \/ \E m \in Members : GcTake(m) \/ Expire(m)
  BY <1>2, GcTakeStep, GcCheckStep, GcStoreStep, ExpireStep DEF GcStep
<1>3. ASSUME NEW c \in Conns,
             \/ Dial(c) \/ TakeRegister(c) \/ StoreClient(c) \/ Announce(c)
             \/ ReadHeartbeat(c) \/ Heartbeat(c)
             \/ \E S \in SUBSET Channels : ReadSubscribe(c, S)
             \/ SubscribeMp(c) \/ ReadUnsubscribe(c)
             \/ ReaderStops(c) \/ WriterStops(c)
             \/ TakeUnregister(c) \/ DropClient(c) \/ CancelRpcs(c)
             \/ CleanUp(c) \/ FallSilent(c)
      PROVE  IInv'
  BY <1>3, DialStep, TakeRegisterStep, StoreClientStep, AnnounceStep,
     ReadHeartbeatStep, HeartbeatStep, ReadSubscribeStep, SubscribeMpStep,
     ReadUnsubscribeStep, ReaderStopsStep, WriterStopsStep,
     TakeUnregisterStep, DropClientStep, CancelRpcsStep, CleanUpStep,
     FallSilentStep
<1>4. QED
  BY <1>1, <1>2, <1>3 DEF Next

(***************************************************************************)
(* The inductive invariant holds in every behaviour of the hub.            *)
(***************************************************************************)
THEOREM InvariantHolds == Spec => []IInv
  BY InitInvariant, NextInvariant, PTL DEF Spec

(***************************************************************************)
(* A closed client is in the routing map only while the sweep that closed  *)
(* it goes through its list: hub.Run's own broadcasts, which are never     *)
(* under way then, never send on a closed channel.                         *)
(***************************************************************************)
THEOREM RoutingSafe == Spec => []RoutedAreOpen
<1>1. IInv => RoutedAreOpen
  BY DEF IInv, RoutedAreOpen, OnlySweptAreClosed, HubSendsToOpen, OneSweep
<1>2. QED
  BY <1>1, InvariantHolds, PTL

(***************************************************************************)
(* A connection that is open and was stored stays routed to, whatever      *)
(* happens to the other connections of the same member.                    *)
(***************************************************************************)
THEOREM RoutingComplete == Spec => []OpenAreRouted
<1>1. IInv => OpenAreRouted
  BY DEF IInv
<1>2. QED
  BY <1>1, InvariantHolds, PTL

(***************************************************************************)
(* A finished connection is closed and is left in no table.                *)
(***************************************************************************)
THEOREM NoLeak == Spec => []NothingLeft
<1>1. IInv => NothingLeft
  BY DEF IInv
<1>2. QED
  BY <1>1, InvariantHolds, PTL

(***************************************************************************)
(* An agent shown online has an Unregister, and so an AGENT_OFFLINE, to    *)
(* come.                                                                   *)
(***************************************************************************)
THEOREM OnlineEnds == Spec => []OnlineWillEnd
<1>1. IInv => OnlineWillEnd
  BY DEF IInv
<1>2. QED
  BY <1>1, InvariantHolds, PTL

---------------------------------------------------------------------------
(* The hub and the calls. *)


LEMMA HubKeepsInvariant == IInv /\ [NextAll]_allVars => IInv'
<1>1. ConnStep => Next
  BY DEF ConnStep, Next
<1>2. \A c \in Conns : CancelAgentRpcs(c) \/ CleanUpAfterCancel(c) => Next
  BY DEF CancelAgentRpcs, CleanUpAfterCancel, Next
<1>3. \A k \in Calls :
        \/ CheckOnline(k) \/ Register(k) \/ LoadClients(k)
        \/ \E c \in Conns : SendFrame(k, c)
        \/ SendPanics(k) \/ Sent(k) \/ Resolve(k) \/ CallStep(k)
        => UNCHANGED vars
  BY DEF CheckOnline, Register, LoadClients, SendFrame, SendPanics, Sent,
         Resolve, CallStep
<1>4. [NextAll]_allVars => [Next]_vars
  BY <1>1, <1>2, <1>3 DEF NextAll, allVars
<1>5. QED
  BY <1>4, NextInvariant

CallInv == SendTypes /\ ReachedAreOwn /\ NoneReachedEarly /\ CancelToCome

\* A step of the connections leaves the calls alone. It takes an Unregister
\* only when idle, so no call is owed a cancellation then.
LEMMA ConnStepKeeps ==
    ASSUME IInv, CallInv, ConnStep
    PROVE  CallInv'
<1>1. UNCHANGED <<rpcVars, sendVars>>
  BY DEF ConnStep
<1>2. ASSUME NEW c \in Conns, Leaving(c)'
      PROVE  \/ Leaving(c) /\ work'[c] = work[c]
             \/ work'[c] \in {"drop", "cancel"}
             \/ Idle /\ Leaving(c)
  <2> USE DEF Leaving, pumps, tables, mp
  <2>1. CASE GcStep \/ \E m \in Members : GcTake(m)
    BY <1>2, <2>1 DEF GcStep, GcTake, GcCheck, GcStore
  <2>2. ASSUME NEW d \in Conns, TakeRegister(d) \/ TakeUnregister(d)
        PROVE  work'[c] \in {"drop", "cancel"} \/ (Idle /\ Leaving(c))
    <3>1. CASE TakeRegister(d)
      BY <1>2, <3>1 DEF TakeRegister, IInv, TypeOK
    <3>2. CASE TakeUnregister(d)
      BY <1>2, <3>2 DEF TakeUnregister, IInv, TypeOK
    <3>3. QED
      BY <2>2, <3>1, <3>2
  <2>3. ASSUME NEW d \in Conns, StoreClient(d) \/ Announce(d)
        PROVE  Leaving(c) /\ work'[c] = work[c]
    <3>1. d # c
      BY <1>2, <2>3 DEF StoreClient, Announce, IInv, Stages
    <3>2. QED
      BY <1>2, <2>3, <3>1 DEF StoreClient, Announce, IInv, TypeOK
  <2>4. ASSUME NEW d \in Conns, DropClient(d)
        PROVE  \/ Leaving(c) /\ work'[c] = work[c]
               \/ work'[c] \in {"drop", "cancel"}
    BY <1>2, <2>4 DEF DropClient, IInv, TypeOK
  <2>5. ASSUME NEW d \in Conns,
               Dial(d) \/ ReaderStops(d) \/ WriterStops(d) \/ FallSilent(d)
        PROVE  Leaving(c) /\ work'[c] = work[c]
    BY <1>2, <2>5 DEF Dial, ReaderStops, WriterStops, FallSilent, IInv, TypeOK
  <2>6. QED
    BY <2>1, <2>2, <2>3, <2>4, <2>5 DEF ConnStep
<1>3. CancelToCome'
  <2> SUFFICES ASSUME NEW k \in pending, NEW c \in Reached(k), Leaving(c)'
               PROVE  \/ work'[c] \in {"drop", "cancel"}
                      \/ work'[c] = "cleanup" /\ k \in doomed
    BY <1>1 DEF CancelToCome, Reached, rpcVars, sendVars
  <2>1. c \in Conns
    BY DEF CallInv, SendTypes, Reached
  <2>2. Leaving(c) => \/ work[c] \in {"drop", "cancel"}
                      \/ work[c] = "cleanup" /\ k \in doomed
    BY DEF CallInv, CancelToCome
  <2>3. QED
    BY <1>2, <2>1, <2>2 DEF Idle
<1>4. (SendTypes /\ ReachedAreOwn /\ NoneReachedEarly)'
  BY <1>1 DEF CallInv, SendTypes, ReachedAreOwn, NoneReachedEarly, Reached,
              rpcVars, sendVars
<1>5. QED
  BY <1>3, <1>4 DEF CallInv

\* When the hub cancels, every pending call that reached c is one of the
\* agent's, and so is put on the list.
LEMMA CancelKeeps ==
    ASSUME IInv, CallInv, NEW c \in Conns, CancelAgentRpcs(c)
    PROVE  CallInv'
<1>1. UNCHANGED <<caller, pending, targets, loaded, sentTo, reader, writer>>
  BY DEF CancelAgentRpcs, CancelRpcs, CancelAll, R!CancelAllForAgent, pumps,
         rpcVars, sendVars
<1>2. work' = [work EXCEPT ![c] = "cleanup"] /\ work[c] = "cancel"
  BY DEF CancelAgentRpcs, CancelRpcs
<1>3. CancelToCome'
  <2> SUFFICES ASSUME NEW k \in pending, NEW d \in Reached(k), Leaving(d)
               PROVE  \/ work'[d] \in {"drop", "cancel"}
                      \/ work'[d] = "cleanup" /\ k \in doomed'
    BY <1>1 DEF CancelToCome, Reached, Leaving
  <2>1. k \in Calls /\ d \in Conns
    BY DEF CallInv, SendTypes, Reached
  <2>2. work[d] # "none"
    BY DEF CallInv, CancelToCome
  <2>3. d = c
    BY <1>2, <2>1, <2>2 DEF IInv, OneEvent
  <2>4. Member[c] = AgentOf[k] /\ Member[c] \in Agents
    BY <2>1, <2>3, CallsAssumption DEF CallInv, ReachedAreOwn, ConnsOf
  <2>5. k \in doomed'
    BY <2>1, <2>4 DEF CancelAgentRpcs, CancelAll, R!CancelAllForAgent
  <2>6. QED
    BY <1>2, <2>3, <2>5 DEF IInv, TypeOK
<1>4. (SendTypes /\ ReachedAreOwn /\ NoneReachedEarly)'
  BY <1>1 DEF CallInv, SendTypes, ReachedAreOwn, NoneReachedEarly, Reached
<1>5. QED
  BY <1>3, <1>4 DEF CallInv

\* When it goes on, the list is empty: no pending call reached c.
LEMMA CleanUpKeeps ==
    ASSUME IInv, CallInv, NEW c \in Conns, CleanUpAfterCancel(c)
    PROVE  CallInv'
<1>1. UNCHANGED <<reader, writer, rpcVars, sendVars>> /\ doomed = {}
  BY DEF CleanUpAfterCancel, CleanUp, R!CancelOver, pumps
<1>2. work' = [work EXCEPT ![c] = "none"] /\ work[c] = "cleanup"
  BY DEF CleanUpAfterCancel, CleanUp
<1>3. CancelToCome'
  BY <1>1, <1>2 DEF CallInv, CancelToCome, Reached, Leaving, SendTypes, IInv,
                    TypeOK, rpcVars, sendVars
<1>4. (SendTypes /\ ReachedAreOwn /\ NoneReachedEarly)'
  BY <1>1 DEF CallInv, SendTypes, ReachedAreOwn, NoneReachedEarly, Reached,
              rpcVars, sendVars
<1>5. QED
  BY <1>3, <1>4 DEF CallInv

\* The list SendToAgent loads holds open connections, or one whose
\* Unregister has not cancelled yet.
LEMMA LoadKeeps ==
    ASSUME IInv, CallInv, NEW k \in Calls, LoadClients(k)
    PROVE  CallInv'
<1>1. UNCHANGED <<reader, writer, work, doomed, pending, caller, sentTo>>
  BY DEF LoadClients, vars, rpcVars
<1>2. clients[AgentOf[k]] \subseteq ConnsOf(AgentOf[k])
  BY CallsAssumption DEF IInv, TypeOK, OnlySweptAreClosed, ConnsOf, Members
<1>3. targets' = [targets EXCEPT ![k] = clients[AgentOf[k]]]
  BY DEF LoadClients
<1>4. \A c \in clients[AgentOf[k]] : Leaving(c) => work[c] = "drop"
  BY <1>2 DEF IInv, Stages, ConnsOf
<1>5. CancelToCome'
  <2> SUFFICES ASSUME NEW j \in pending, NEW c \in Reached(j)', Leaving(c)
               PROVE  \/ work[c] \in {"drop", "cancel"}
                      \/ work[c] = "cleanup" /\ j \in doomed
    BY <1>1 DEF CancelToCome, Leaving
  <2>1. c \in Reached(j) \/ c \in clients[AgentOf[k]]
    BY <1>1, <1>3 DEF Reached, CallInv, SendTypes
  <2>2. QED
    BY <1>4, <2>1 DEF CallInv, CancelToCome
<1>6. ReachedAreOwn'
  BY <1>1, <1>2, <1>3 DEF ReachedAreOwn, Reached, CallInv, SendTypes
<1>7. NoneReachedEarly'
  BY <1>1, <1>3 DEF NoneReachedEarly, Reached, CallInv, SendTypes, LoadClients,
                    LoadAfterRegister
<1>8. SendTypes'
  BY <1>1, <1>2, <1>3 DEF SendTypes, CallInv, LoadClients, ConnsOf
<1>9. QED
  BY <1>5, <1>6, <1>7, <1>8 DEF CallInv

LEMMA FrameKeeps ==
    ASSUME IInv, CallInv, NEW k \in Calls, NEW c \in Conns, SendFrame(k, c)
    PROVE  CallInv'
<1>1. UNCHANGED <<reader, writer, work, doomed, pending, caller, loaded>>
  BY DEF SendFrame, vars, rpcVars, R!Frame
<1>2. \A j \in Calls : Reached(j)' = Reached(j)
  BY DEF SendFrame, Reached, CallInv, SendTypes
<1>3. SendTypes'
  BY <1>1 DEF SendTypes, CallInv, SendFrame
<1>4. (ReachedAreOwn /\ NoneReachedEarly)'
  BY <1>1, <1>2 DEF CallInv, ReachedAreOwn, NoneReachedEarly
<1>5. CancelToCome'
  BY <1>1, <1>2 DEF CallInv, SendTypes, CancelToCome, Leaving
<1>6. QED
  BY <1>3, <1>4, <1>5 DEF CallInv

\* Register makes a call pending before its frame has gone anywhere.
LEMMA RegisterKeeps ==
    ASSUME IInv, CallInv, NEW k \in Calls, Register(k)
    PROVE  CallInv'
<1>1. UNCHANGED <<reader, writer, work, doomed, sendVars>>
  BY DEF Register, R!Register, vars
<1>2. /\ caller[k] = "checked"
      /\ caller' = [caller EXCEPT ![k] = "registered"]
      /\ pending' = pending \cup {k}
  BY DEF Register, R!Register
<1>3. Reached(k) = {}
  BY <1>2 DEF CallInv, NoneReachedEarly
<1>4. CancelToCome'
  BY <1>1, <1>2, <1>3 DEF CallInv, CancelToCome, Reached, Leaving, sendVars
<1>5. (ReachedAreOwn /\ NoneReachedEarly)'
  BY <1>1, <1>2 DEF CallInv, ReachedAreOwn, NoneReachedEarly, Reached,
                    SendTypes, sendVars
<1>6. SendTypes'
  BY <1>1, <1>2 DEF CallInv, SendTypes, R!CallerStates, sendVars
<1>7. QED
  BY <1>4, <1>5, <1>6 DEF CallInv

\* The other steps of a call make no call pending and send nothing.
LEMMA CallKeeps ==
    ASSUME IInv, CallInv, NEW k \in Calls,
           CheckOnline(k) \/ SendPanics(k) \/ Sent(k) \/ Resolve(k)
             \/ CallStep(k)
    PROVE  CallInv'
<1> USE DEF R!Take, R!Reply, R!CancelTimedOut
<1>1. UNCHANGED <<reader, writer, work, sendVars>>
  BY DEF CheckOnline, SendPanics, Sent, Resolve, CallStep, vars
<1>2. /\ pending' \subseteq pending
      /\ \A j \in doomed \ doomed' : j \notin pending'
  BY DEF CheckOnline, SendPanics, Sent, Resolve, CallStep, R!CheckOnline,
         R!SendPanics, R!Sent, R!Resolve, R!Receive, R!GiveUp, R!Expire,
         R!WatcherFires, R!CancelOne, R!Deliver
<1>3. \/ UNCHANGED caller
      \/ caller' = [caller EXCEPT ![k] = "done"]
      \/ caller' = [caller EXCEPT ![k] = "waiting"] /\ caller[k] = "registered"
      \/ caller' = [caller EXCEPT ![k] = "checked"] /\ caller[k] = "idle"
  BY DEF CheckOnline, SendPanics, Sent, Resolve, CallStep, R!CheckOnline,
         R!SendPanics, R!Sent, R!Resolve, R!Receive, R!GiveUp, R!Expire,
         R!WatcherFires, R!CancelOne, R!Deliver
<1>4. CancelToCome'
  BY <1>1, <1>2 DEF CallInv, CancelToCome, Reached, Leaving, sendVars
<1>5. (ReachedAreOwn /\ NoneReachedEarly)'
  BY <1>1, <1>3 DEF CallInv, ReachedAreOwn, NoneReachedEarly, Reached,
                    SendTypes, sendVars
<1>6. SendTypes'
  BY <1>1, <1>2, <1>3 DEF CallInv, SendTypes, R!CallerStates, sendVars
<1>7. QED
  BY <1>4, <1>5, <1>6 DEF CallInv

LEMMA InitInvariantAll == InitAll => IInvAll
<1>1. InitAll => IInv
  BY InitInvariant DEF InitAll
<1>2. InitAll => CallInv
  BY DEF InitAll, R!Init, CallInv, SendTypes, R!CallerStates, ReachedAreOwn,
         Reached, NoneReachedEarly, CancelToCome
<1>3. QED
  BY <1>1, <1>2 DEF IInvAll, CallInv

LEMMA NextInvariantAll == IInvAll /\ [NextAll]_allVars => IInvAll'
<1> SUFFICES ASSUME IInvAll, [NextAll]_allVars PROVE IInvAll'
  OBVIOUS
<1>1. IInv /\ CallInv
  BY DEF IInvAll, CallInv
<1>2. IInv'
  BY <1>1, HubKeepsInvariant
<1>3. ASSUME UNCHANGED allVars
      PROVE  CallInv'
  BY <1>1, <1>3 DEF allVars, vars, rpcVars, sendVars, CallInv, SendTypes,
     ReachedAreOwn, Reached, NoneReachedEarly, CancelToCome, Leaving
<1>4. ASSUME ConnStep
      PROVE  CallInv'
  BY <1>1, <1>4, ConnStepKeeps
<1>5. ASSUME NEW c \in Conns, CancelAgentRpcs(c) \/ CleanUpAfterCancel(c)
      PROVE  CallInv'
  BY <1>1, <1>5, CancelKeeps, CleanUpKeeps
<1>6. ASSUME NEW k \in Calls,
             \/ CheckOnline(k) \/ Register(k) \/ LoadClients(k)
             \/ \E c \in Conns : SendFrame(k, c)
             \/ SendPanics(k) \/ Sent(k) \/ Resolve(k) \/ CallStep(k)
      PROVE  CallInv'
  BY <1>1, <1>6, LoadKeeps, FrameKeeps, RegisterKeeps, CallKeeps
<1>7. CallInv'
  BY <1>3, <1>4, <1>5, <1>6 DEF NextAll
<1>8. QED
  BY <1>2, <1>7 DEF IInvAll, CallInv

(***************************************************************************)
(* The inductive invariant of the composition.                             *)
(***************************************************************************)
THEOREM InvariantAllHolds == SpecAll => []IInvAll
  BY InitInvariantAll, NextInvariantAll, PTL DEF SpecAll

(***************************************************************************)
(* A call whose frame any connection took is not pending once hub.Run has  *)
(* dealt with an Unregister of that connection.                            *)
(***************************************************************************)
THEOREM SentCallsFailFast == SpecAll => []SentFailsFast
<1>1. IInvAll => SentFailsFast
  BY DEF IInvAll, SendTypes, SentFailsFast, CancelToCome, Reached, Leaving, Idle
<1>2. QED
  BY <1>1, InvariantAllHolds, PTL
=============================================================================
