--------------------------- MODULE CredentialProofs ---------------------------
(***************************************************************************)
(* Theorems about the credentials that Backend hands out: the agents' keys *)
(* and the pairing tickets, the users' passwords and tokens.  They rest on *)
(* BackendProofs, which says whose step moves which handler.               *)
(***************************************************************************)
EXTENDS BackendProofs

(***************************************************************************)
(* The agents' keys.  A key is named after the request that makes it, and  *)
(* a request makes one at most: until then, nobody has seen its name.      *)
(***************************************************************************)
Before == {"create", "owner", "count", "issue", "reset"}
Fresh == {r \in Requests : pc[r] \in Before \cup {"new"}}
SubIds == {s.id : s \in subs}

KeysInv ==
    /\ \A a \in DOMAIN agents : /\ DOMAIN agents[a] = {"owner", "key", "type"}
                                /\ agents[a].key \notin Fresh \cup dead \cup SubIds
    /\ \A a, b \in DOMAIN agents : agents[a].key = agents[b].key => a = b
    /\ Fresh \cap dead = {}
    /\ \A s \in subs : /\ DOMAIN s = {"id", "agent", "revoked"} /\ s.id \notin Fresh
                       /\ s.id \in dead => s.revoked
    /\ \A s, t \in subs : s.id = t.id => s = t

LEMMA KeysInvInit == Init => KeysInv
  BY AgentsAssumption
     DEF Init, HandlersInit, RoomsInit, AgentsInit, KeysInv, Fresh, Before, SubIds

LEMMA OthersSpareKeys ==
    ASSUME Ready, [Next]_backendVars, \A r \in Requests : ~AgentStep(r)
    PROVE  Spares(Before) /\ UNCHANGED <<agents, subs, dead>>
  <1>1. ASSUME NEW r \in Requests, PackageStep(r) PROVE Spares(Before)
    BY <1>1, PackageMoves, MovesSpare DEF PackageStages, Before
  <1>2. ASSUME NEW r \in Requests, DataStep(r) PROVE Spares(Before)
    BY <1>2, DataMoves, MovesSpare DEF DataStages, Before
  <1>3. ASSUME NEW r \in Requests, FriendStep(r) PROVE Spares(Before)
    BY <1>3, FriendMoves, MovesSpare DEF FriendStages, Before
  <1>4. ASSUME NEW r \in Requests, RoomStep(r) PROVE Spares(Before)
    BY <1>4, RoomMoves, MovesSpare DEF Before, RoomStages
  <1>5. ASSUME NEW r \in Requests, SessionStep(r) PROVE Spares(Before)
    BY <1>5, SessionMoves, MovesSpare DEF Before, SessionStages
  <1>6. CASE ServerRestarts
    BY <1>6, RestartSpares DEF Before, roomless, agentVars
  <1>7. CASE TicketsAge /\ UNCHANGED handlerVars
    BY <1>7, StaySpares DEF TicketsAge, DeleteExpired, Ages
  <1> QED
    BY <1>1, <1>2, <1>3, <1>4, <1>5, <1>6, <1>7, StaySpares, Steps
       DEF peopleVars, roomless, roomVars, agentVars

\* A request that makes a key or an agent is fresh before and not afterwards; nobody
\* becomes fresh.
LEMMA FreshShrinks ==
    ASSUME Ready, NEW r \in Requests, AgentStep(r)
    PROVE  /\ Fresh' \subseteq Fresh
           /\ \/ CreateSubKey(r) /\ snap[r].agent \in DOMAIN agents
              \/ ResetSecretKey(r) /\ snap[r].agent \in DOMAIN agents
              \/ CreateAgent(r)
              => r \in Fresh /\ r \notin Fresh'
  <1>1. Moves(r, AgentStages, AgentStages \cup {"find"})
    BY AgentMoves
  <1>2. pc'[r] \in Before => pc[r] \in Before \cup {"new"}
    <2> USE DEF Before, Ready, Goto, Keep, Is
    <2>1. CASE CreateTicket(r) \/ ScanRead(r) \/ MarkScanned(r) \/ CompleteRead(r)
      BY <2>1 DEF CreateTicket, ScanRead, MarkScanned, CompleteRead
    <2>2. CASE OwnerRead(r) \/ CountActive(r) \/ CreateSubKey(r)
      BY <2>2 DEF OwnerRead, CountActive, CreateSubKey
    <2>3. CASE ResetSecretKey(r) \/ UpdateType(r) \/ CreateAgent(r) \/ MarkCompleted(r)
      BY <2>3 DEF ResetSecretKey, UpdateType, CreateAgent, MarkCompleted
    <2>4. CASE PollRead(r) \/ NameRead(r) \/ ConsumeSecretKey(r) \/ AgentFails(r)
      BY <2>4 DEF PollRead, NameRead, ConsumeSecretKey, AgentFails
    <2>5. CASE Update(r) \/ Delete(r) \/ RevokeAllForAgent(r) \/ ListByAgent(r) \/ Revoke(r)
      BY <2>5 DEF Update, Delete, RevokeAllForAgent, ListByAgent, Revoke
    <2> HIDE DEF Before, Ready, Goto, Keep, Is
    <2> QED
      BY <2>1, <2>2, <2>3, <2>4, <2>5 DEF AgentStep
  <1>3. Fresh' \subseteq Fresh
    BY <1>1, <1>2 DEF Moves, Fresh, AgentStages
  <1>4. CASE CreateSubKey(r) /\ snap[r].agent \in DOMAIN agents
    BY <1>3, <1>4 DEF CreateSubKey, Goto, Ready, Fresh, Before
  <1>5. CASE ResetSecretKey(r) /\ snap[r].agent \in DOMAIN agents
    BY <1>3, <1>5 DEF ResetSecretKey, Goto, Ready, Fresh, Before
  <1>6. CASE CreateAgent(r)
    BY <1>3, <1>6 DEF CreateAgent, Is, Goto, Ready, Fresh, Before
  <1> QED
    BY <1>3, <1>4, <1>5, <1>6

LEMMA AgentStepKeepsKeys ==
    ASSUME Ready, KeysInv, NEW r \in Requests, AgentStep(r) PROVE KeysInv'
  <1>1. Fresh' \subseteq Fresh
    BY FreshShrinks
  <1>2. CASE UNCHANGED <<agents, subs, dead>>
    BY <1>1, <1>2 DEF KeysInv, SubIds
  <1>3. CASE CreateSubKey(r) /\ snap[r].agent \in DOMAIN agents
    <2> DEFINE s == [id |-> r, agent |-> snap[r].agent, revoked |-> FALSE]
    <2>1. /\ subs' = subs \cup {s} /\ agents' = agents /\ dead' = dead
          /\ DOMAIN s = {"id", "agent", "revoked"} /\ s.id = r
      BY <1>3 DEF CreateSubKey
    <2> HIDE DEF s
    <2>2. r \in Fresh /\ r \notin Fresh'
      BY <1>3, FreshShrinks
    <2> QED
      BY <1>1, <2>1, <2>2 DEF KeysInv, SubIds
  <1>4. CASE ResetSecretKey(r) /\ snap[r].agent \in DOMAIN agents
    <2> DEFINE a == snap[r].agent
               row == [agents[a] EXCEPT !.key = r]
    <2>1. /\ a \in DOMAIN agents /\ DOMAIN agents' = DOMAIN agents
          /\ \A b \in DOMAIN agents : agents'[b] = IF b = a THEN row ELSE agents[b]
          /\ dead' = dead \cup {agents[a].key} /\ subs' = subs
      BY <1>4 DEF ResetSecretKey
    <2>2. DOMAIN row = {"owner", "key", "type"} /\ row.key = r
      BY <2>1 DEF KeysInv
    <2> HIDE DEF row, a
    <2>3. r \in Fresh /\ r \notin Fresh'
      BY <1>4, FreshShrinks
    <2>4. \A b, c \in DOMAIN agents' : agents'[b].key = agents'[c].key => b = c
      BY <2>1, <2>2, <2>3 DEF KeysInv
    <2>5. \A b \in DOMAIN agents' : /\ DOMAIN agents'[b] = {"owner", "key", "type"}
                                    /\ agents'[b].key \notin Fresh' \cup dead' \cup SubIds'
      BY <1>1, <2>1, <2>2, <2>3 DEF KeysInv, SubIds
    <2>6. Fresh' \cap dead' = {} /\ \A s \in subs' : s.id \in dead' => s.revoked
      BY <1>1, <2>1 DEF KeysInv, SubIds
    <2> QED
      BY <1>1, <2>1, <2>4, <2>5, <2>6 DEF KeysInv
  <1>5. CASE UpdateType(r)
    <2>1. CASE snap[r].agent \in DOMAIN agents
      <3> DEFINE a == snap[r].agent
                 row == [agents[a] EXCEPT !.type = snap[r].type]
      <3>1. /\ DOMAIN agents' = DOMAIN agents /\ dead' = dead /\ subs' = subs
            /\ \A b \in DOMAIN agents : agents'[b] = IF b = a THEN row ELSE agents[b]
        BY <1>5, <2>1 DEF UpdateType
      <3>2. DOMAIN row = {"owner", "key", "type"} /\ row.key = agents[a].key
        BY <2>1 DEF KeysInv
      <3> HIDE DEF row, a
      <3> QED
        BY <1>1, <3>1, <3>2 DEF KeysInv, SubIds
    <2>2. CASE snap[r].agent \notin DOMAIN agents
      BY <1>2, <1>5, <2>2 DEF UpdateType
    <2> QED
      BY <2>1, <2>2
  <1>6. CASE CreateAgent(r)
    <2>1. /\ DOMAIN agents' = DOMAIN agents \cup {r} /\ dead' = dead /\ subs' = subs
          /\ \A b \in DOMAIN agents \ {r} : agents'[b] = agents[b]
          /\ DOMAIN agents'[r] = {"owner", "key", "type"} /\ agents'[r].key = r
      BY <1>6 DEF CreateAgent, With
    <2>2. r \in Fresh /\ r \notin Fresh'
      BY <1>6, FreshShrinks
    <2> QED
      BY <1>1, <2>1, <2>2 DEF KeysInv, SubIds
  <1>7. CASE Delete(r)
    <2> DEFINE a == snap[r].agent
               gone == {agents[b].key : b \in {a} \cap DOMAIN agents} \cup {s.id : s \in subs \ subs'}
    <2>1. /\ DOMAIN agents' = DOMAIN agents \ {a} /\ subs' \subseteq subs /\ dead' = dead \cup gone
          /\ \A b \in DOMAIN agents' : agents'[b] = agents[b]
      BY <1>7 DEF Delete, Without, Restrict
    <2>2. gone \cap Fresh = {}
      BY DEF KeysInv
    <2>3. \A b \in DOMAIN agents' : agents[b].key \notin gone
      BY <2>1 DEF KeysInv, SubIds
    <2>4. \A s \in subs' : s.id \notin gone
      BY <2>1 DEF KeysInv, SubIds
    <2> HIDE DEF gone, a
    <2> QED
      BY <1>1, <2>1, <2>2, <2>3, <2>4 DEF KeysInv, SubIds
  <1>8. ASSUME NEW Gone \in SUBSET subs, agents' = agents, dead' = dead \cup {s.id : s \in Gone},
               subs' = (subs \ Gone) \cup {[s EXCEPT !.revoked = TRUE] : s \in Gone}
        PROVE  KeysInv'
    <2> DEFINE R(s) == [s EXCEPT !.revoked = TRUE]
    <2>0. /\ \A s \in Gone : DOMAIN R(s) = {"id", "agent", "revoked"} /\ R(s).id = s.id /\ R(s).revoked
          /\ subs' = (subs \ Gone) \cup {R(s) : s \in Gone}
      BY <1>8 DEF KeysInv
    <2> HIDE DEF R
    <2>1. \A s \in subs' : /\ DOMAIN s = {"id", "agent", "revoked"}
                           /\ \E t \in subs : (s.id = t.id) /\ ((s = t /\ t \notin Gone) \/ (s = R(t) /\ t \in Gone /\ s.revoked))
      <3> SUFFICES ASSUME NEW s \in subs'
                   PROVE  /\ DOMAIN s = {"id", "agent", "revoked"}
                          /\ \E t \in subs : (s.id = t.id) /\ ((s = t /\ t \notin Gone) \/ (s = R(t) /\ t \in Gone /\ s.revoked))
        OBVIOUS
      <3>1. CASE s \in subs \ Gone
        BY <3>1 DEF KeysInv
      <3>2. CASE s \in {R(t) : t \in Gone}
        <4>1. PICK t \in Gone : s = R(t)
          BY <3>2
        <4> QED
          BY <2>0, <4>1
      <3> QED
        BY <2>0, <3>1, <3>2
    <2>2. \A s \in subs' : \A t \in Gone : s.id = t.id => s.revoked
      BY <2>1 DEF KeysInv
    <2>3. SubIds' = SubIds
      BY <1>8, <2>0, <2>1 DEF SubIds
    <2>4. \A s, t \in subs' : s.id = t.id => s = t
      BY <2>1 DEF KeysInv
    <2>5. \A s \in subs' : s.id \in dead' => s.revoked
      BY <1>8, <2>1, <2>2 DEF KeysInv
    <2>6. \A s \in subs' : s.id \notin Fresh'
      BY <1>1, <2>1 DEF KeysInv
    <2>7. Fresh' \cap dead' = {}
      BY <1>1, <1>8 DEF KeysInv
    <2>8. \A a \in DOMAIN agents' : /\ DOMAIN agents'[a] = {"owner", "key", "type"}
                                    /\ agents'[a].key \notin Fresh' \cup dead' \cup SubIds'
      BY <1>1, <1>8, <2>3 DEF KeysInv, SubIds
    <2> QED
      BY <1>8, <2>1, <2>4, <2>5, <2>6, <2>7, <2>8 DEF KeysInv
  <1>9. CASE RevokeAllForAgent(r) \/ Revoke(r)
    BY <1>8, <1>9 DEF RevokeAllForAgent, Revoke, Active
  <1>10. UNCHANGED <<agents, subs, dead>>
         \/ CreateSubKey(r) \/ ResetSecretKey(r) \/ UpdateType(r) \/ CreateAgent(r)
         \/ Delete(r) \/ RevokeAllForAgent(r) \/ Revoke(r)
    BY DEF AgentStep, CreateTicket, ScanRead, MarkScanned, CompleteRead, OwnerRead, CountActive,
           MarkCompleted, PollRead, NameRead, ConsumeSecretKey, Update, ListByAgent, AgentFails, agentVars
  <1>11. CASE (CreateSubKey(r) \/ ResetSecretKey(r)) /\ snap[r].agent \notin DOMAIN agents
    BY <1>2, <1>11 DEF CreateSubKey, ResetSecretKey
  <1> QED
    BY <1>2, <1>3, <1>4, <1>5, <1>6, <1>7, <1>9, <1>10, <1>11

LEMMA KeysInvNext == Ready /\ KeysInv /\ [Next]_backendVars => KeysInv'
  <1> SUFFICES ASSUME Ready, KeysInv, [Next]_backendVars PROVE KeysInv'
    OBVIOUS
  <1>1. ASSUME Spares(Before), UNCHANGED <<agents, subs, dead>> PROVE KeysInv'
    BY <1>1 DEF Spares, KeysInv, Fresh, SubIds
  <1> QED
    BY <1>1, AgentStepKeepsKeys, OthersSpareKeys

\* A key that was replaced, revoked, swept or deleted never opens anything again, however
\* many authorizations, bindings, rotations, revocations and deletions overlap (AgentToken).
THEOREM DeadKeys == Spec => []DeadKeysStayDead
  <1>1. KeysInv => DeadKeysStayDead
    BY DEF KeysInv, DeadKeysStayDead, Accepted, MainKeys, SubKeyOpens, SubIds
  <1> QED
    BY <1>1, ReadyInit, ReadyNext, KeysInvInit, KeysInvNext, PTL DEF Spec

(***************************************************************************)
(* How many keys an agent has.                                             *)
(***************************************************************************)
IssueInv == \A r \in Requests : pc[r] \in {"count", "issue"} => job[r].op = "authorize"

\* While a key is about to be inserted there is room for it, and for one only.
Issuing(a) == {r \in Requests : pc[r] = "issue" /\ snap[r].agent = a}
RoomInvFor(a) ==
    /\ IsFiniteSet(Active(a)) /\ Cardinality(Active(a)) <= MaxSubKeys
    /\ Issuing(a) # {} => Cardinality(Active(a)) < MaxSubKeys
    /\ \A r, o \in Issuing(a) : r = o
LimitInv == IssueInv /\ \A a : a \notin crowded => RoomInvFor(a)

LEMMA LimitInvInit == Init => LimitInv
  <1> SUFFICES ASSUME Init PROVE LimitInv
    OBVIOUS
  <1>1. subs = {} /\ pc = [r \in Requests |-> "new"]
    BY DEF Init, HandlersInit, RoomsInit, AgentsInit
  <1>2. ASSUME NEW a PROVE RoomInvFor(a)
    <2>1. Active(a) = {} /\ Issuing(a) = {}
      BY <1>1 DEF Active, Issuing
    <2> QED
      BY <2>1, FS_EmptySet, AgentsAssumption DEF RoomInvFor
  <1> QED
    BY <1>1, <1>2 DEF LimitInv, IssueInv

\* No agent gets a key or comes closer to one.
NoMoreKeys ==
    /\ \A a : {s \in subs' : s.agent = a /\ ~s.revoked} \subseteq Active(a)
    /\ crowded \subseteq crowded'
    /\ \A r \in Requests : pc'[r] = "issue" => pc[r] = "issue" /\ snap'[r] = snap[r]

LEMMA FewerKeep ==
    ASSUME NEW a, RoomInvFor(a), NoMoreKeys PROVE RoomInvFor(a)'
  <1> DEFINE now == {s \in subs' : s.agent = a /\ ~s.revoked}
             issuing == {r \in Requests : pc'[r] = "issue" /\ snap'[r].agent = a}
  <1>1. now \in SUBSET Active(a) /\ issuing \subseteq Issuing(a)
    BY DEF NoMoreKeys, Issuing
  <1>2. Active(a)' = now /\ Issuing(a)' = issuing
    BY DEF Active, Issuing
  <1> HIDE DEF now, issuing
  <1>3. IsFiniteSet(Active(a))
    BY DEF RoomInvFor
  <1>4. IsFiniteSet(now) /\ Cardinality(now) <= Cardinality(Active(a))
    BY <1>1, <1>3, FS_Subset
  <1>5. Cardinality(now) \in Nat /\ Cardinality(Active(a)) \in Nat
    BY <1>3, <1>4, FS_CardinalityType
  <1>6. /\ IsFiniteSet(now) /\ Cardinality(now) <= MaxSubKeys
        /\ issuing # {} => Cardinality(now) < MaxSubKeys
        /\ \A r, o \in issuing : r = o
    BY <1>1, <1>4, <1>5, AgentsAssumption DEF RoomInvFor
  <1> QED
    BY <1>2, <1>6 DEF RoomInvFor

LEMMA FewerKeepAll ==
    ASSUME LimitInv, NoMoreKeys, IssueInv' PROVE LimitInv'
  <1>1. ASSUME NEW a, a \notin crowded' PROVE RoomInvFor(a)'
    <2>1. RoomInvFor(a)
      BY <1>1 DEF NoMoreKeys, LimitInv
    <2> QED
      BY <2>1, FewerKeep
  <1> QED
    BY <1>1 DEF LimitInv

LEMMA AgentStepKeepsIssue ==
    ASSUME Ready, IssueInv, NEW r \in Requests, AgentStep(r) PROVE IssueInv'
  <1>1. Moves(r, AgentStages, AgentStages \cup {"find"})
    BY AgentMoves
  <1>2. pc'[r] \in {"count", "issue"} => job[r].op = "authorize"
    <2> USE DEF Ready, IssueInv, Goto, Keep, Is
    <2>1. CASE CreateTicket(r) \/ ScanRead(r) \/ MarkScanned(r) \/ CompleteRead(r)
      BY <2>1 DEF CreateTicket, ScanRead, MarkScanned, CompleteRead
    <2>2. CASE OwnerRead(r)
      BY <2>2 DEF OwnerRead
    <2>3. CASE CountActive(r) \/ CreateSubKey(r)
      BY <2>3 DEF CountActive, CreateSubKey
    <2>4. CASE ResetSecretKey(r) \/ UpdateType(r) \/ MarkCompleted(r)
      BY <2>4 DEF ResetSecretKey, UpdateType, MarkCompleted
    <2>5. CASE CreateAgent(r)
      BY <2>5 DEF CreateAgent
    <2>6. CASE PollRead(r) \/ NameRead(r) \/ ConsumeSecretKey(r) \/ AgentFails(r)
      BY <2>6 DEF PollRead, NameRead, ConsumeSecretKey, AgentFails
    <2>7. CASE Update(r) \/ Delete(r) \/ RevokeAllForAgent(r) \/ ListByAgent(r) \/ Revoke(r)
      BY <2>7 DEF Update, Delete, RevokeAllForAgent, ListByAgent, Revoke
    <2> HIDE DEF Ready, IssueInv, Goto, Keep, Is
    <2> QED
      BY <2>1, <2>2, <2>3, <2>4, <2>5, <2>6, <2>7 DEF AgentStep
  <1> QED
    BY <1>1, <1>2 DEF Moves, IssueInv

\* The count found room and met no other authorization: this one takes the last place.
LEMMA CountKeepsLimit ==
    ASSUME Ready, LimitInv, IssueInv', NEW r \in Requests, CountActive(r) PROVE LimitInv'
  <1> DEFINE a == snap[r].agent
  <1>1. /\ pc[r] = "count" /\ subs' = subs /\ snap' = snap /\ crowded \subseteq crowded'
        /\ Goto(r, IF BelowLimit(a) THEN "issue" ELSE "done")
    BY DEF CountActive
  <1>2. /\ pc'[r] = (IF BelowLimit(a) THEN "issue" ELSE "done")
        /\ \A o \in Requests \ {r} : pc'[o] = pc[o]
    BY <1>1 DEF Goto, Ready
  <1>3. CASE ~BelowLimit(a)
    <2>1. NoMoreKeys
      BY <1>1, <1>2, <1>3 DEF NoMoreKeys, Active
    <2> QED
      BY <2>1, FewerKeepAll
  <1>4. ASSUME NEW b, b \notin crowded', BelowLimit(a) PROVE RoomInvFor(b)'
    <2>1. RoomInvFor(b)
      BY <1>1, <1>4 DEF LimitInv
    <2>2. Active(b)' = Active(b)
      BY <1>1 DEF Active
    <2>3. CASE b # a
      <3>1. Issuing(b)' = Issuing(b)
        BY <1>1, <1>2, <2>3 DEF Issuing
      <3> QED
        BY <2>1, <2>2, <3>1 DEF RoomInvFor
    <2>4. CASE b = a
      <3>1. Issuing(a) = {}
        BY <1>1, <1>4, <2>4 DEF CountActive, Issuing, LimitInv, IssueInv, Is
      <3>2. Issuing(b)' = {r}
        BY <1>1, <1>2, <1>4, <2>4, <3>1 DEF Issuing
      <3>3. Cardinality(Active(b)) < MaxSubKeys
        BY <1>4, <2>4 DEF BelowLimit
      <3> QED
        BY <2>1, <2>2, <3>2, <3>3 DEF RoomInvFor
    <2> QED
      BY <2>3, <2>4
  <1> QED
    BY <1>3, <1>4 DEF LimitInv

\* The key that was counted for is inserted.
LEMMA IssueKeepsLimit ==
    ASSUME Ready, LimitInv, IssueInv', NEW r \in Requests, CreateSubKey(r), snap[r].agent \in DOMAIN agents
    PROVE  LimitInv'
  <1> DEFINE a == snap[r].agent
             key1 == [id |-> r, agent |-> a, revoked |-> FALSE]
  <1>1. /\ pc[r] = "issue" /\ subs' = subs \cup {key1} /\ crowded' = crowded /\ Goto(r, "mark")
        /\ snap' = [snap EXCEPT ![r].key = r]
        /\ key1.agent = a /\ key1.revoked = FALSE
    BY DEF CreateSubKey
  <1> HIDE DEF key1
  <1>2. pc'[r] = "mark" /\ \A o \in Requests \ {r} : pc'[o] = pc[o] /\ snap'[o] = snap[o]
    BY <1>1 DEF Goto, Ready
  <1>3. ASSUME NEW b, b \notin crowded' PROVE RoomInvFor(b)'
    <2>1. RoomInvFor(b)
      BY <1>1, <1>3 DEF LimitInv
    <2>2. CASE b # a
      <3>1. Active(b)' = Active(b) /\ Issuing(b)' = Issuing(b)
        BY <1>1, <1>2, <2>2 DEF Active, Issuing
      <3> QED
        BY <2>1, <3>1 DEF RoomInvFor
    <2>3. CASE b = a
      <3>1. Active(b)' = Active(b) \cup {key1}
        BY <1>1, <2>3 DEF Active
      <3>2. r \in Issuing(b)
        BY <1>1, <2>3 DEF Issuing
      <3>3. Issuing(b)' = {}
        BY <1>2, <2>1, <3>2 DEF Issuing, RoomInvFor
      <3>4. /\ IsFiniteSet(Active(b)) /\ Cardinality(Active(b)) \in Nat
            /\ Cardinality(Active(b)) < MaxSubKeys
        BY <2>1, <3>2, FS_CardinalityType DEF RoomInvFor
      <3>5. /\ IsFiniteSet(Active(b) \cup {key1})
            /\ Cardinality(Active(b) \cup {key1}) <= Cardinality(Active(b)) + 1
        <4> DEFINE keys == Active(b)
        <4> HIDE DEF keys
        <4>1. /\ IsFiniteSet(keys \cup {key1})
              /\ Cardinality(keys \cup {key1}) = IF key1 \in keys THEN Cardinality(keys) ELSE Cardinality(keys) + 1
          BY <3>4, FS_AddElement DEF keys
        <4>2. Cardinality(keys) \in Nat
          BY <3>4 DEF keys
        <4> QED
          BY <4>1, <4>2 DEF keys
      <3>6. Cardinality(Active(b) \cup {key1}) <= MaxSubKeys
        BY <3>4, <3>5, FS_CardinalityType, AgentsAssumption
      <3> QED
        BY <3>1, <3>3, <3>5, <3>6 DEF RoomInvFor
    <2> QED
      BY <2>2, <2>3
  <1> QED
    BY <1>3 DEF LimitInv

LEMMA OtherAgentStepsNoMoreKeys ==
    ASSUME Ready, KeysInv, NEW r \in Requests, AgentStep(r), ~CountActive(r),
           ~(CreateSubKey(r) /\ snap[r].agent \in DOMAIN agents)
    PROVE  NoMoreKeys
  <1>1. Moves(r, AgentStages, AgentStages \cup {"find"})
    BY AgentMoves
  <1>2. pc'[r] # "issue" /\ crowded' = crowded
    <2> USE DEF Ready, Goto, Keep, Is
    <2>1. CASE CreateTicket(r) \/ ScanRead(r) \/ MarkScanned(r) \/ CompleteRead(r)
      BY <2>1 DEF CreateTicket, ScanRead, MarkScanned, CompleteRead
    <2>2. CASE OwnerRead(r)
      BY <2>2 DEF OwnerRead, agentVars
    <2>3. CASE CreateSubKey(r)
      BY <2>3 DEF CreateSubKey
    <2>4. CASE ResetSecretKey(r) \/ UpdateType(r) \/ MarkCompleted(r)
      BY <2>4 DEF ResetSecretKey, UpdateType, MarkCompleted
    <2>5. CASE CreateAgent(r)
      BY <2>5 DEF CreateAgent
    <2>6. CASE PollRead(r) \/ NameRead(r) \/ ConsumeSecretKey(r) \/ AgentFails(r)
      BY <2>6 DEF PollRead, NameRead, ConsumeSecretKey, AgentFails, agentVars
    <2>7. CASE Update(r) \/ Delete(r) \/ RevokeAllForAgent(r) \/ ListByAgent(r) \/ Revoke(r)
      BY <2>7 DEF Update, Delete, RevokeAllForAgent, ListByAgent, Revoke, agentVars
    <2> HIDE DEF Ready, Goto, Keep, Is
    <2> QED
      BY <2>1, <2>2, <2>3, <2>4, <2>5, <2>6, <2>7 DEF AgentStep
  <1>3. \A s \in subs' : s \in subs \/ s.revoked
    <2>1. CASE UNCHANGED subs \/ Delete(r)
      BY <2>1 DEF Delete
    <2> DEFINE Struck(s) == [s EXCEPT !.revoked = TRUE]
    <2>2. \A s \in subs : Struck(s).revoked
      BY DEF KeysInv
    <2>3. CASE RevokeAllForAgent(r)
      <3> DEFINE theirs == Active(snap[r].agent)
      <3>1. subs' = (subs \ theirs) \cup {Struck(s) : s \in theirs} /\ theirs \subseteq subs
        BY <2>3 DEF RevokeAllForAgent, Active
      <3> HIDE DEF Struck, theirs
      <3> QED
        BY <2>2, <3>1
    <2>4. CASE Revoke(r)
      BY <2>2, <2>4 DEF Revoke
    <2>5. CASE CreateTicket(r) \/ ScanRead(r) \/ MarkScanned(r) \/ CompleteRead(r) \/ OwnerRead(r)
               \/ CreateSubKey(r) \/ ResetSecretKey(r) \/ UpdateType(r) \/ CreateAgent(r)
               \/ MarkCompleted(r) \/ PollRead(r) \/ NameRead(r) \/ ConsumeSecretKey(r)
               \/ Update(r) \/ ListByAgent(r) \/ AgentFails(r)
      <3>1. UNCHANGED subs
        BY <2>5 DEF CreateTicket, ScanRead, MarkScanned, CompleteRead, OwnerRead, CreateSubKey,
             ResetSecretKey, UpdateType, CreateAgent, MarkCompleted, PollRead, NameRead,
             ConsumeSecretKey, Update, ListByAgent, AgentFails, agentVars
      <3> QED
        BY <3>1
    <2> QED
      BY <2>1, <2>3, <2>4, <2>5 DEF AgentStep
  <1> QED
    BY <1>1, <1>2, <1>3 DEF NoMoreKeys, Moves, Active

LEMMA LimitInvNext == Ready /\ KeysInv /\ LimitInv /\ [Next]_backendVars => LimitInv'
  <1> SUFFICES ASSUME Ready, KeysInv, LimitInv, [Next]_backendVars PROVE LimitInv'
    OBVIOUS
  <1>1. ASSUME NEW r \in Requests, AgentStep(r) PROVE LimitInv'
    <2>1. IssueInv'
      BY <1>1, AgentStepKeepsIssue DEF LimitInv
    <2>2. CASE CountActive(r)
      BY <2>1, <2>2, CountKeepsLimit
    <2>3. CASE CreateSubKey(r) /\ snap[r].agent \in DOMAIN agents
      BY <2>1, <2>3, IssueKeepsLimit
    <2> QED
      BY <1>1, <2>1, <2>2, <2>3, OtherAgentStepsNoMoreKeys, FewerKeepAll
  <1>2. ASSUME \A r \in Requests : ~AgentStep(r) PROVE LimitInv'
    <2>1. Spares(Before) /\ UNCHANGED subs
      BY <1>2, OthersSpareKeys
    <2>2. UNCHANGED crowded
      <3>1. CASE ServerRestarts
        BY <3>1 DEF ServerRestarts, roomless, agentVars
      <3>2. CASE TicketsAge
        BY <3>2 DEF TicketsAge, DeleteExpired, Ages
      <3> QED
        BY <1>2, <3>1, <3>2, Steps DEF peopleVars, roomless, roomVars, agentVars
    <2>3. NoMoreKeys
      BY <2>1, <2>2 DEF NoMoreKeys, Active, Spares, Before
    <2>4. IssueInv'
      BY <2>1 DEF LimitInv, IssueInv, Spares, Before
    <2> QED
      BY <2>3, <2>4, FewerKeepAll
  <1> QED
    BY <1>1, <1>2

(* An agent never has more sub keys that open it than the limit allows, however many      *)
(* authorizations, rotations and deletions run, unless one of its authorizations counted  *)
(* its keys while another was about to insert one (CompleteTicket counts, then inserts).  *)
THEOREM KeyLimitHolds == Spec => []KeyLimit
  <1>1. LimitInv => KeyLimit
    BY DEF LimitInv, RoomInvFor, KeyLimit
  <1> QED
    BY <1>1, ReadyInit, ReadyNext, KeysInvInit, KeysInvNext, LimitInvInit, LimitInvNext, PTL DEF Spec

(***************************************************************************)
(* The users' passwords and tokens.                                        *)
(***************************************************************************)
LEMMA OthersSpareSessions ==
    ASSUME Ready, [Next]_backendVars, \A r \in Requests : ~SessionStep(r)
    PROVE  Spares(SessionStages) /\ UNCHANGED sessionVars
  <1>1. ASSUME NEW r \in Requests, PackageStep(r) PROVE Spares(SessionStages)
    BY <1>1, PackageMoves, MovesSpare DEF PackageStages, SessionStages
  <1>2. ASSUME NEW r \in Requests, DataStep(r) PROVE Spares(SessionStages)
    BY <1>2, DataMoves, MovesSpare DEF DataStages, SessionStages
  <1>3. ASSUME NEW r \in Requests, FriendStep(r) PROVE Spares(SessionStages)
    BY <1>3, FriendMoves, MovesSpare DEF FriendStages, SessionStages
  <1>4. ASSUME NEW r \in Requests, RoomStep(r) PROVE Spares(SessionStages)
    BY <1>4, RoomMoves, MovesSpare DEF SessionStages, RoomStages
  <1>5. ASSUME NEW r \in Requests, AgentStep(r) PROVE Spares(SessionStages)
    BY <1>5, AgentMoves, MovesSpare DEF SessionStages, AgentStages
  <1>6. CASE ServerRestarts
    BY <1>6, RestartSpares DEF SessionStages, sessionVars
  <1>7. ASSUME UNCHANGED handlerVars PROVE Spares(SessionStages)
    BY <1>7, StaySpares
  <1> QED
    BY <1>1, <1>2, <1>3, <1>4, <1>5, <1>6, <1>7, Steps

\* A password is the one chosen last; a login about to upgrade the hash has verified the
\* one it writes.
PasswordInv ==
    /\ DOMAIN accounts = DOMAIN chosen
    /\ \A u \in DOMAIN accounts : DOMAIN accounts[u] = {"pass", "weak", "role"}
    /\ \A r \in Requests : pc[r] = "rehash" =>
          job[r].user \in DOMAIN accounts /\ snap[r].pass = job[r].whom
    /\ PasswordKept

LEMMA PasswordInvInit == Init => PasswordInv
  BY AccountsAssumption DEF Init, HandlersInit, SessionsInit, PasswordInv, PasswordKept

LEMMA SessionStepKeepsPassword ==
    ASSUME Ready, PasswordInv, NEW r \in Requests, SessionStep(r) PROVE PasswordInv'
  <1>1. Moves(r, SessionStages, SessionStages)
    BY SessionMoves
  <1>2. ASSUME pc'[r] # "rehash" PROVE \A o \in Requests : pc'[o] = "rehash" => /\ pc[o] = "rehash"
                                                                    /\ snap'[o] = snap[o] /\ job'[o] = job[o]
    BY <1>1, <1>2 DEF Moves
  <1>3. CASE UNCHANGED <<accounts, chosen, lost>> /\ pc'[r] # "rehash"
    BY <1>2, <1>3 DEF PasswordInv, PasswordKept
  <1>4. CASE LoginRead(r)
    <2>1. UNCHANGED <<accounts, chosen, lost>>
      BY <1>4 DEF LoginRead, sessionVars
    <2>2. pc'[r] = "rehash" => job[r].user \in DOMAIN accounts /\ snap'[r].pass = job[r].whom
      <3>1. CASE Verified(r)
        BY <1>4, <3>1 DEF LoginRead, Verified, Keep, Seen, Ready
      <3>2. CASE ~Verified(r)
        BY <1>4, <3>2 DEF LoginRead, Goto, Ready
      <3> QED
        BY <3>1, <3>2
    <2> QED
      BY <1>1, <2>1, <2>2 DEF Moves, PasswordInv, PasswordKept
  <1>5. CASE CreateUser(r)
    <2>1. pc'[r] # "rehash"
      BY <1>5 DEF CreateUser, Goto, Ready
    <2>2. CASE job[r].user \in DOMAIN accounts
      BY <1>3, <1>5, <2>1, <2>2 DEF CreateUser
    <2>3. CASE job[r].user \notin DOMAIN accounts
      <3> DEFINE u == job[r].user
                 row == [pass |-> job[r].whom, weak |-> FALSE, role |-> "user"]
      <3>1. /\ DOMAIN accounts' = DOMAIN accounts \cup {u} /\ DOMAIN chosen' = DOMAIN chosen \cup {u}
            /\ \A v \in DOMAIN accounts' : accounts'[v] = IF v = u THEN row ELSE accounts[v]
            /\ \A v \in DOMAIN chosen' : chosen'[v] = IF v = u THEN job[r].whom ELSE chosen[v]
            /\ lost' = lost /\ DOMAIN row = {"pass", "weak", "role"} /\ row.pass = job[r].whom
        BY <1>5, <2>3 DEF CreateUser
      <3> HIDE DEF row, u
      <3>2. \A v \in DOMAIN accounts' : v \in DOMAIN chosen'
        BY <3>1 DEF PasswordInv
      <3> QED
        BY <1>2, <2>1, <3>1, <3>2 DEF PasswordInv, PasswordKept
    <2> QED
      BY <2>2, <2>3
  <1>6. ASSUME NEW works \in BOOLEAN, Rehash(r, works) PROVE PasswordInv'
    <2> DEFINE u == job[r].user
               row == [accounts[u] EXCEPT !.pass = job[r].whom, !.weak = FALSE]
    <2>1. u \in DOMAIN accounts /\ snap[r].pass = job[r].whom /\ pc'[r] # "rehash"
      BY <1>6 DEF Rehash, PasswordInv, Goto, Ready
    <2>2. /\ chosen' = chosen /\ DOMAIN accounts' = DOMAIN accounts
          /\ \/ accounts' = accounts
             \/ \A v \in DOMAIN accounts : accounts'[v] = IF v = u THEN row ELSE accounts[v]
          /\ lost' = IF accounts[u].pass = job[r].whom THEN lost ELSE lost \cup {u}
      BY <1>6, <2>1 DEF Rehash
    <2>3. DOMAIN row = {"pass", "weak", "role"} /\ row.pass = job[r].whom
      BY <2>1 DEF PasswordInv
    <2> HIDE DEF row, u
    <2>4. \A v \in DOMAIN accounts : DOMAIN accounts'[v] = {"pass", "weak", "role"}
      BY <2>2, <2>3 DEF PasswordInv
    <2>5. PasswordKept'
      BY <2>1, <2>2, <2>3 DEF PasswordInv, PasswordKept
    <2> QED
      BY <1>2, <2>1, <2>2, <2>4, <2>5 DEF PasswordInv
  <1>7. CASE UpdatePassword(r)
    <2> DEFINE u == snap[r].user
               row == [accounts[u] EXCEPT !.pass = job[r].whom, !.weak = TRUE]
    <2>1. /\ DOMAIN accounts' = DOMAIN accounts /\ DOMAIN chosen' = DOMAIN chosen
          /\ \A v \in DOMAIN accounts : accounts'[v] = IF v = u THEN row ELSE accounts[v]
          /\ \A v \in DOMAIN chosen : chosen'[v] = IF v = u THEN job[r].whom ELSE chosen[v]
          /\ lost' = lost \ {u} /\ pc'[r] # "rehash"
      BY <1>7 DEF UpdatePassword, Goto, Ready
    <2>2. u \in DOMAIN accounts => DOMAIN row = {"pass", "weak", "role"} /\ row.pass = job[r].whom
      BY DEF PasswordInv
    <2> HIDE DEF row, u
    <2>3. \A v \in DOMAIN accounts : DOMAIN accounts'[v] = {"pass", "weak", "role"}
      BY <2>1, <2>2 DEF PasswordInv
    <2>4. PasswordKept'
      BY <2>1, <2>2 DEF PasswordInv, PasswordKept
    <2> QED
      BY <1>2, <2>1, <2>3, <2>4 DEF PasswordInv
  <1>8. CASE PromoteAdmins(r)
    <2> DEFINE u == job[r].user
               row == [accounts[u] EXCEPT !.role = "admin"]
    <2>1. /\ DOMAIN accounts' = DOMAIN accounts /\ chosen' = chosen /\ lost' = lost
          /\ \A v \in DOMAIN accounts : accounts'[v] = IF v = u THEN row ELSE accounts[v]
          /\ pc'[r] # "rehash"
      BY <1>8 DEF PromoteAdmins, Goto, Ready, Is
    <2>2. u \in DOMAIN accounts => DOMAIN row = {"pass", "weak", "role"} /\ row.pass = accounts[u].pass
      BY DEF PasswordInv
    <2> HIDE DEF row, u
    <2> QED
      BY <1>2, <2>1, <2>2 DEF PasswordInv, PasswordKept
  <1>9. ASSUME ~LoginRead(r), ~CreateUser(r), ~UpdatePassword(r), ~PromoteAdmins(r),
               \A works \in BOOLEAN : ~Rehash(r, works)
        PROVE  UNCHANGED <<accounts, chosen, lost>> /\ pc'[r] # "rehash"
    <2> USE DEF Ready, Goto, Is, sessionVars
    <2>1. CASE RegisterRead(r) \/ IssueVersion(r) \/ Issue(r) \/ GetRefresh(r)
      BY <2>1 DEF RegisterRead, IssueVersion, Issue, GetRefresh
    <2>2. CASE CompareVersion(r) \/ RoleRead(r) \/ SelfRead(r) \/ IncrTokenVersion(r) \/ SessionFails(r)
      BY <2>2 DEF CompareVersion, RoleRead, SelfRead, IncrTokenVersion, SessionFails
    <2>3. ASSUME NEW works \in BOOLEAN,
                 Rotate(r, works) \/ BlacklistToken(r, works) \/ ForgetRefresh(r, works)
          PROVE  UNCHANGED <<accounts, chosen, lost>> /\ pc'[r] # "rehash"
      BY <2>3 DEF Rotate, BlacklistToken, ForgetRefresh
    <2>4. ASSUME NEW works \in BOOLEAN, CheckBlack(r, works) \/ CheckVersion(r, works)
          PROVE  UNCHANGED <<accounts, chosen, lost>> /\ pc'[r] # "rehash"
      BY <2>4 DEF CheckBlack, CheckVersion, Gated
    <2> HIDE DEF Ready, Goto, Is, sessionVars
    <2> QED
      BY <1>9, <2>1, <2>2, <2>3, <2>4 DEF SessionStep
  <1> QED
    BY <1>3, <1>4, <1>5, <1>6, <1>7, <1>8, <1>9

LEMMA PasswordInvNext == Ready /\ PasswordInv /\ [Next]_backendVars => PasswordInv'
  <1> SUFFICES ASSUME Ready, PasswordInv, [Next]_backendVars PROVE PasswordInv'
    OBVIOUS
  <1>1. ASSUME Spares(SessionStages), UNCHANGED sessionVars PROVE PasswordInv'
    BY <1>1 DEF Spares, SessionStages, sessionVars, PasswordInv, PasswordKept
  <1> QED
    BY <1>1, SessionStepKeepsPassword, OthersSpareSessions

(* A password is the one its user chose last, however many logins upgrade its hash and    *)
(* however many changes overlap, unless a login writes back what it verified before the   *)
(* last change (AuthHandler.Login).                                                       *)
THEOREM PasswordsKept == Spec => []PasswordKept
  <1>1. PasswordInv => PasswordKept
    BY DEF PasswordInv
  <1> QED
    BY <1>1, ReadyInit, ReadyNext, PasswordInvInit, PasswordInvNext, PTL DEF Spec

\* The stages at which a handler carries what it read of a user, and those of them from
\* which it goes on to answer with tokens of the session that it verified.
Carrying == {"enrol", "version", "store", "renew", "rehash", "compare", "role", "rotate",
             "stamp", "self", "password", "bump"}
Verifying == {"enrol", "version", "store", "rehash", "role", "rotate"}

\* A mark <<n, v>> of a user: n changes were committed when the version became v. A session
\* that began before one of those is behind the mark: its version is an older one.
marks == [u \in Users |->
             {<<settled[u], version[u]>>} \cup
             {<<snap[o].since, snap[o].ver>> : o \in {o \in Requests : pc[o] = "renew" /\ snap[o].user = u}}]
Behind(m, s, v) == \A k \in m : s < k[1] => v < k[2]

CountsInv ==
    /\ job \in Jobs /\ DOMAIN accounts \subseteq Users
    /\ version \in [Users -> Nat] /\ changes \in [Users -> Nat] /\ settled \in [Users -> Nat]
    /\ \A u \in Users : settled[u] <= changes[u]

\* What was logged out is on the blacklist, or could not be put there.
LeftInv ==
    /\ left \subseteq black \cup unlisted
    /\ \A o \in Requests : pc[o] = "forget" => job[o].about \in black \cup unlisted

Carried(w, at, n, c, m) ==
    /\ at \in Carrying =>
          /\ DOMAIN w = {"user", "role", "pass", "ver", "open", "met", "since", "raced",
                         "settled", "out", "unlisted"}
          /\ w.user \in Users /\ w.ver \in Nat /\ w.since \in Nat /\ w.met \in Nat
          /\ w.ver <= n[w.user] /\ w.met <= n[w.user]
    /\ at = "renew" => w.since <= c[w.user]
    /\ at \in {"compare", "renew"} /\ ~w.raced => Behind(m[w.user], w.since, w.ver)
    /\ at \in Verifying /\ ~w.raced => Behind(m[w.user], w.since, w.met)
CarryInv == \A o \in Requests :
    /\ Carried(snap[o], pc[o], version, changes, marks)
    /\ pc[o] = "enrol" => job[o].user \in Users

IsToken(t, n, m) ==
    /\ t.user \in Users /\ t.ver \in Nat /\ t.since \in Nat
    /\ t.ver <= n[t.user]
    /\ ~t.raced => Behind(m[t.user], t.since, t.ver)

\* One token for each request that was answered with one.
AccessInv ==
    /\ \A t \in access : /\ IsToken(t, version, marks)
                         /\ t.id \in Requests => pc[t.id] = "done"
    /\ \A t, o \in access : t.id = o.id => t = o
    /\ \A d \in refreshes : IsToken(d, version, marks)

\* A request whose token is being checked has read a token that was not on the blacklist.
StampInv == \A o \in Requests : pc[o] = "stamp" =>
    /\ \E t \in access : t.id = job[o].about /\ snap[o].user = t.user
                         /\ snap[o].role = t.role /\ snap[o].ver = t.ver
    /\ ~snap[o].open => (snap[o].out => snap[o].unlisted)
    /\ snap[o].settled \in Nat /\ snap[o].settled <= settled[snap[o].user]

AdmitInv ==
    /\ \A a \in admitted : \E t \in access : t.id = a.token
    /\ EndedTokensStayOut

TokensInv == CountsInv /\ LeftInv /\ CarryInv /\ AccessInv /\ StampInv /\ AdmitInv

LEMMA TokensInvInit == Init => TokensInv
  <1> SUFFICES ASSUME Init PROVE TokensInv
    OBVIOUS
  <1> USE AccountsAssumption DEF Init, HandlersInit, SessionsInit
  <1>1. CountsInv /\ LeftInv
    BY DEF CountsInv, LeftInv
  <1>2. ASSUME NEW u \in Users, NEW s \in Nat, NEW v PROVE Behind(marks[u], s, v)
    <2>1. marks[u] = {<<0, 0>>}
      BY DEF marks
    <2> QED
      BY <2>1 DEF Behind
  <1>3. ASSUME NEW t \in access \cup refreshes
        PROVE  /\ t.id \in DOMAIN FirstAccounts /\ t.user = t.id /\ t.ver = 0 /\ t.since = 0
               /\ IsToken(t, version, marks)
    <2>1. PICK u \in DOMAIN FirstAccounts :
              \/ t = [id |-> u, user |-> u, role |-> FirstAccounts[u].role, ver |-> 0, since |-> 0,
                      raced |-> FALSE]
              \/ t = [id |-> u, user |-> u, ver |-> 0, since |-> 0, raced |-> FALSE]
      BY <1>3
    <2>2. t.id = u /\ t.user = u /\ t.ver = 0 /\ t.since = 0 /\ u \in Users
      BY <2>1
    <2>3. Behind(marks[t.user], t.since, t.ver)
      BY <1>2, <2>2
    <2>4. 0 <= version[u]
      BY <2>2
    <2> QED
      BY <2>2, <2>3, <2>4 DEF IsToken
  <1>4. ASSUME NEW t \in access, NEW o \in access, t.id = o.id PROVE t = o
    <2>1. PICK u \in DOMAIN FirstAccounts :
              t = [id |-> u, user |-> u, role |-> FirstAccounts[u].role, ver |-> 0, since |-> 0, raced |-> FALSE]
      OBVIOUS
    <2>2. PICK v \in DOMAIN FirstAccounts :
              o = [id |-> v, user |-> v, role |-> FirstAccounts[v].role, ver |-> 0, since |-> 0, raced |-> FALSE]
      OBVIOUS
    <2>3. t.id = u /\ o.id = v
      BY <2>1, <2>2
    <2> QED
      BY <1>4, <2>1, <2>2, <2>3
  <1>5. AccessInv
    BY <1>3, <1>4 DEF AccessInv
  <1>6. CarryInv /\ StampInv
    BY DEF CarryInv, Carried, StampInv, Carrying, Verifying
  <1>7. AdmitInv
    BY DEF AdmitInv, EndedTokensStayOut
  <1> QED
    BY <1>1, <1>5, <1>6, <1>7 DEF TokensInv

\* The counts only grow, and no change is settled that is not committed.
LEMMA SessionStepKeepsCounts ==
    ASSUME Ready, CountsInv, CarryInv, NEW r \in Requests, SessionStep(r)
    PROVE  /\ CountsInv'
           /\ \A u \in Users : version[u] <= version'[u] /\ changes[u] <= changes'[u] /\ settled[u] <= settled'[u]
  <1> DEFINE Grow == \A u \in Users : /\ version[u] <= version'[u] /\ changes[u] <= changes'[u]
                                      /\ settled[u] <= settled'[u]
  <1>1. \A u \in Users : /\ version[u] \in Nat /\ changes[u] \in Nat /\ settled[u] \in Nat
                         /\ version[u] <= version[u] /\ changes[u] <= changes[u] /\ settled[u] <= settled[u]
    BY DEF CountsInv
  <1>2. ASSUME UNCHANGED <<job, version, changes, settled>>, DOMAIN accounts' \subseteq Users PROVE CountsInv' /\ Grow
    BY <1>1, <1>2 DEF CountsInv
  <1>3. CASE RegisterRead(r) \/ LoginRead(r) \/ IssueVersion(r) \/ GetRefresh(r)
    BY <1>2, <1>3 DEF RegisterRead, LoginRead, IssueVersion, GetRefresh, CountsInv, sessionVars
  <1>4. CASE CreateUser(r)
    <2>1. job[r].user \in Users
      BY <1>4 DEF CreateUser, CarryInv
    <2> QED
      BY <1>2, <1>4, <2>1 DEF CreateUser, CountsInv
  <1>5. CASE Issue(r)
    <2>1. /\ snap[r].user \in Users /\ snap[r].since \in Nat
          /\ pc[r] = "renew" => snap[r].since <= changes[snap[r].user]
      BY <1>5 DEF Issue, CarryInv, Carried, Carrying
    <2>2. /\ UNCHANGED <<job, version, changes, accounts>>
          /\ settled' = IF pc[r] = "renew" /\ snap[r].since > settled[snap[r].user]
                        THEN [settled EXCEPT ![snap[r].user] = snap[r].since] ELSE settled
      BY <1>5 DEF Issue
    <2> QED
      BY <1>1, <2>1, <2>2 DEF CountsInv
  <1>6. CASE CompareVersion(r) \/ RoleRead(r) \/ SelfRead(r) \/ SessionFails(r)
    BY <1>2, <1>6 DEF CompareVersion, RoleRead, SelfRead, SessionFails, CountsInv, sessionVars
  <1>7. CASE UpdatePassword(r)
    <2>1. snap[r].user \in Users
      BY <1>7 DEF UpdatePassword, CarryInv, Carried, Carrying
    <2>2. /\ changes' = [changes EXCEPT ![snap[r].user] = changes[snap[r].user] + 1]
          /\ UNCHANGED <<job, version, settled>> /\ DOMAIN accounts' = DOMAIN accounts
      BY <1>7 DEF UpdatePassword
    <2> QED
      BY <1>1, <2>1, <2>2 DEF CountsInv
  <1>8. CASE IncrTokenVersion(r)
    <2>1. snap[r].user \in Users
      BY <1>8 DEF IncrTokenVersion, CarryInv, Carried, Carrying
    <2>2. /\ version' = [version EXCEPT ![snap[r].user] = version[snap[r].user] + 1]
          /\ UNCHANGED <<job, accounts, changes, settled>>
      BY <1>8 DEF IncrTokenVersion
    <2> QED
      BY <1>1, <2>1, <2>2 DEF CountsInv
  <1>9. CASE PromoteAdmins(r)
    BY <1>2, <1>9 DEF PromoteAdmins, CountsInv
  <1>10. ASSUME NEW works \in BOOLEAN, Rehash(r, works) \/ Rotate(r, works) \/ CheckBlack(r, works)
         PROVE  CountsInv' /\ Grow
    BY <1>2, <1>10 DEF Rehash, Rotate, CheckBlack, CountsInv, sessionVars
  <1>11. ASSUME NEW works \in BOOLEAN,
                CheckVersion(r, works) \/ BlacklistToken(r, works) \/ ForgetRefresh(r, works)
         PROVE  CountsInv' /\ Grow
    BY <1>2, <1>11 DEF CheckVersion, BlacklistToken, ForgetRefresh, CountsInv
  <1> QED
    BY <1>3, <1>4, <1>5, <1>6, <1>7, <1>8, <1>9, <1>10, <1>11 DEF SessionStep

\* A logout is answered after the blacklist was tried.
LEMMA SessionStepKeepsLeft ==
    ASSUME Ready, LeftInv, NEW r \in Requests, SessionStep(r) PROVE LeftInv'
  <1>1. Moves(r, SessionStages, SessionStages) /\ job' = job
    BY SessionMoves DEF Moves
  <1>2. ASSUME UNCHANGED <<black, left, unlisted>>, pc'[r] # "forget" PROVE LeftInv'
    BY <1>1, <1>2 DEF Moves, LeftInv
  <1>3. ASSUME NEW works \in BOOLEAN, BlacklistToken(r, works) PROVE LeftInv'
    <2>1. black \subseteq black' /\ unlisted \subseteq black' \cup unlisted' /\ left' = left
      BY <1>3 DEF BlacklistToken
    <2>2. job[r].about \in black' \cup unlisted'
      BY <1>3 DEF BlacklistToken
    <2> QED
      BY <1>1, <2>1, <2>2 DEF Moves, LeftInv
  <1>4. ASSUME NEW works \in BOOLEAN, ForgetRefresh(r, works) PROVE LeftInv'
    <2>1. /\ pc[r] = "forget" /\ pc'[r] = "done" /\ UNCHANGED <<black, unlisted>>
          /\ left' = left \cup {job[r].about}
      BY <1>4 DEF ForgetRefresh, Goto, Ready
    <2> QED
      BY <1>1, <2>1 DEF Moves, LeftInv
  <1> USE DEF Ready, Goto, Is, sessionVars
  <1>5. CASE RegisterRead(r) \/ CreateUser(r) \/ LoginRead(r) \/ IssueVersion(r) \/ Issue(r) \/ GetRefresh(r)
    <2>1. UNCHANGED <<black, left, unlisted>> /\ pc'[r] # "forget"
      BY <1>5 DEF RegisterRead, CreateUser, LoginRead, IssueVersion, Issue, GetRefresh
    <2> QED
      BY <1>2, <2>1
  <1>6. CASE CompareVersion(r) \/ RoleRead(r) \/ SelfRead(r) \/ UpdatePassword(r) \/ IncrTokenVersion(r)
             \/ PromoteAdmins(r) \/ SessionFails(r)
    <2>1. UNCHANGED <<black, left, unlisted>> /\ pc'[r] # "forget"
      BY <1>6 DEF CompareVersion, RoleRead, SelfRead, UpdatePassword, IncrTokenVersion, PromoteAdmins, SessionFails
    <2> QED
      BY <1>2, <2>1
  <1>7. ASSUME NEW works \in BOOLEAN, Rehash(r, works) \/ Rotate(r, works) PROVE LeftInv'
    <2>1. UNCHANGED <<black, left, unlisted>> /\ pc'[r] # "forget"
      BY <1>7 DEF Rehash, Rotate
    <2> QED
      BY <1>2, <2>1
  <1>8. ASSUME NEW works \in BOOLEAN, CheckBlack(r, works) \/ CheckVersion(r, works) PROVE LeftInv'
    <2>1. UNCHANGED <<black, left, unlisted>> /\ pc'[r] # "forget"
      BY <1>8 DEF CheckBlack, CheckVersion, Gated
    <2> QED
      BY <1>2, <2>1
  <1> HIDE DEF Ready, Goto, Is, sessionVars
  <1> QED
    BY <1>3, <1>4, <1>5, <1>6, <1>7, <1>8 DEF SessionStep

\* -------------------------------------------------------------------- the marks
LEMMA InMarks ==
    ASSUME NEW u \in Users
    PROVE  /\ <<settled[u], version[u]>> \in marks[u]
           /\ \A o \in Requests : pc[o] = "renew" /\ snap[o].user = u => <<snap[o].since, snap[o].ver>> \in marks[u]
           /\ \A k \in marks[u] : \/ k = <<settled[u], version[u]>>
                                  \/ \E o \in Requests : /\ pc[o] = "renew" /\ snap[o].user = u
                                                         /\ k = <<snap[o].since, snap[o].ver>>
  BY DEF marks

LEMMA MarksBounded ==
    ASSUME CountsInv, CarryInv, NEW u \in Users, NEW k \in marks[u]
    PROVE  k[1] \in Nat /\ k[2] \in Nat /\ k[1] <= changes[u] /\ k[2] <= version[u]
  <1>1. CASE k = <<settled[u], version[u]>>
    BY <1>1 DEF CountsInv
  <1>2. ASSUME NEW o \in Requests, pc[o] = "renew", snap[o].user = u, k = <<snap[o].since, snap[o].ver>>
        PROVE  k[1] \in Nat /\ k[2] \in Nat /\ k[1] <= changes[u] /\ k[2] <= version[u]
    <2>1. Carried(snap[o], "renew", version, changes, marks)
      BY <1>2 DEF CarryInv
    <2>2. /\ snap[o].since \in Nat /\ snap[o].ver \in Nat
          /\ snap[o].since <= changes[u] /\ snap[o].ver <= version[u]
      BY <1>2, <2>1 DEF Carried, Carrying
    <2> QED
      BY <1>2, <2>2
  <1> QED
    BY <1>1, <1>2, InMarks

\* A session that begins now is behind no mark, and neither is one of the present version
\* that is behind all that it began before.
LEMMA NewIsNotBehind ==
    ASSUME CountsInv, CarryInv, NEW u \in Users, NEW v PROVE Behind(marks[u], changes[u], v)
  <1>1. changes[u] \in Nat
    BY DEF CountsInv
  <1> QED
    BY <1>1, MarksBounded DEF Behind
LEMMA PresentIsNotBehind ==
    ASSUME CountsInv, CarryInv, NEW u \in Users, NEW s \in Nat, Behind(marks[u], s, version[u]), NEW v
    PROVE  Behind(marks[u], s, v)
  <1>1. version[u] \in Nat
    BY DEF CountsInv
  <1> QED
    BY <1>1, MarksBounded DEF Behind

LEMMA MarksStay ==
    ASSUME Ready, CountsInv, CarryInv, NEW r \in Requests, SessionStep(r),
           NEW u \in Users, NEW s \in Nat, NEW v \in Nat, v <= version[u], Behind(marks[u], s, v)
    PROVE  Behind(marks'[u], s, v)
  <1>1. Moves(r, SessionStages, SessionStages)
    BY SessionMoves
  <1>2. CountsInv' /\ version[u] <= version'[u] /\ settled[u] <= settled'[u]
    BY SessionStepKeepsCounts
  <1>3. /\ version[u] \in Nat /\ version'[u] \in Nat /\ settled[u] \in Nat /\ settled'[u] \in Nat
    BY <1>2 DEF CountsInv
  <1>4. /\ s < settled[u] => v < version[u]
        /\ \A o \in Requests : pc[o] = "renew" /\ snap[o].user = u /\ s < snap[o].since => v < snap[o].ver
    BY InMarks DEF Behind
  <1>5. s < settled'[u] => v < version'[u]
    <2>1. CASE settled' = settled
      BY <1>2, <1>3, <1>4, <2>1
    <2>2. CASE settled' # settled
      <3>1. Issue(r)
        BY <2>2 DEF SessionStep, RegisterRead, CreateUser, LoginRead, IssueVersion, GetRefresh, CompareVersion,
               RoleRead, SelfRead, UpdatePassword, IncrTokenVersion, PromoteAdmins, SessionFails, Rehash,
               Rotate, CheckBlack, CheckVersion, BlacklistToken, ForgetRefresh, sessionVars
      <3>2. /\ pc[r] = "renew" /\ settled' = [settled EXCEPT ![snap[r].user] = snap[r].since]
        BY <2>2, <3>1 DEF Issue
      <3>3. Carried(snap[r], "renew", version, changes, marks)
        BY <3>2 DEF CarryInv
      <3>4. snap[r].user \in Users /\ snap[r].ver \in Nat /\ snap[r].ver <= version[snap[r].user]
        BY <3>3 DEF Carried, Carrying
      <3>5. CASE snap[r].user = u
        <4>1. settled'[u] = snap[r].since
          BY <3>2, <3>5 DEF CountsInv
        <4> QED
          BY <1>2, <1>3, <1>4, <3>2, <3>4, <3>5, <4>1
      <3>6. CASE snap[r].user # u
        <4>1. settled'[u] = settled[u]
          BY <3>2, <3>6 DEF CountsInv
        <4> QED
          BY <1>2, <1>3, <1>4, <4>1
      <3> QED
        BY <3>5, <3>6
    <2> QED
      BY <2>1, <2>2
  <1>6. ASSUME NEW o \in Requests, pc'[o] = "renew", snap'[o].user = u, s < snap'[o].since
        PROVE  v < snap'[o].ver
    <2>1. CASE o # r
      <3>1. pc'[o] = pc[o] /\ snap'[o] = snap[o]
        BY <1>1, <2>1 DEF Moves
      <3> QED
        BY <1>4, <1>6, <3>1
    <2>2. CASE o = r
      <3>1. IncrTokenVersion(r)
        <4> USE DEF Ready, Goto, Is
        <4>1. CASE RegisterRead(r) \/ CreateUser(r) \/ LoginRead(r) \/ IssueVersion(r) \/ Issue(r) \/ GetRefresh(r)
          BY <1>6, <2>2, <4>1 DEF RegisterRead, CreateUser, LoginRead, IssueVersion, Issue, GetRefresh
        <4>2. CASE CompareVersion(r) \/ RoleRead(r) \/ SelfRead(r) \/ UpdatePassword(r)
                     \/ PromoteAdmins(r) \/ SessionFails(r)
          BY <1>6, <2>2, <4>2 DEF CompareVersion, RoleRead, SelfRead, UpdatePassword, PromoteAdmins, SessionFails
        <4>3. ASSUME NEW works \in BOOLEAN,
                     Rehash(r, works) \/ Rotate(r, works) \/ BlacklistToken(r, works) \/ ForgetRefresh(r, works)
              PROVE  FALSE
          BY <1>6, <2>2, <4>3 DEF Rehash, Rotate, BlacklistToken, ForgetRefresh
        <4>4. ASSUME NEW works \in BOOLEAN, CheckBlack(r, works) \/ CheckVersion(r, works) PROVE FALSE
          BY <1>6, <2>2, <4>4 DEF CheckBlack, CheckVersion, Gated
        <4> HIDE DEF Ready, Goto, Is
        <4> QED
          BY <4>1, <4>2, <4>3, <4>4 DEF SessionStep
      <3>2. Carried(snap[r], "bump", version, changes, marks)
        BY <3>1 DEF IncrTokenVersion, CarryInv
      <3>3. snap[r].user \in Users
        BY <3>2 DEF Carried, Carrying
      <3>4. /\ version'[snap[r].user] = version[snap[r].user] + 1
            /\ snap'[r] = [snap[r] EXCEPT !.ver = version'[snap[r].user], !.since = changes[snap[r].user]]
        BY <3>1, <3>3 DEF IncrTokenVersion, CountsInv, Ready
      <3>5. snap'[r].user = snap[r].user /\ snap'[r].ver = version'[snap[r].user]
        BY <3>2, <3>4 DEF Carried, Carrying
      <3> QED
        BY <1>3, <1>6, <2>2, <3>4, <3>5
    <2> QED
      BY <2>1, <2>2
  <1>7. \A k \in marks'[u] : \/ k = <<settled'[u], version'[u]>>
                             \/ \E o \in Requests : /\ pc'[o] = "renew" /\ snap'[o].user = u
                                                    /\ k = <<snap'[o].since, snap'[o].ver>>
    BY DEF marks
  <1> QED
    BY <1>5, <1>6, <1>7 DEF Behind

\* What is carried, and what was answered, stays true as the counts grow.
LEMMA CarriedStays ==
    ASSUME Ready, CountsInv, CarryInv, NEW r \in Requests, SessionStep(r),
           NEW w, NEW at, Carried(w, at, version, changes, marks)
    PROVE  Carried(w, at, version', changes', marks')
  <1>1. CASE at \notin Carrying
    BY <1>1 DEF Carried, Carrying, Verifying
  <1>2. CASE at \in Carrying
    <2>1. /\ w.user \in Users /\ w.ver \in Nat /\ w.since \in Nat /\ w.met \in Nat
          /\ w.ver <= version[w.user] /\ w.met <= version[w.user]
      BY <1>2 DEF Carried
    <2>2. /\ version[w.user] <= version'[w.user] /\ changes[w.user] <= changes'[w.user]
          /\ version[w.user] \in Nat /\ version'[w.user] \in Nat
          /\ changes[w.user] \in Nat /\ changes'[w.user] \in Nat
      BY <2>1, SessionStepKeepsCounts DEF CountsInv
    <2>3. /\ Behind(marks[w.user], w.since, w.ver) => Behind(marks'[w.user], w.since, w.ver)
          /\ Behind(marks[w.user], w.since, w.met) => Behind(marks'[w.user], w.since, w.met)
      BY <2>1, MarksStay
    <2> QED
      BY <2>1, <2>2, <2>3 DEF Carried
  <1> QED
    BY <1>1, <1>2

LEMMA TokenStays ==
    ASSUME Ready, CountsInv, CarryInv, NEW r \in Requests, SessionStep(r), NEW t, IsToken(t, version, marks)
    PROVE  IsToken(t, version', marks')
  <1>1. t.user \in Users /\ t.ver \in Nat /\ t.since \in Nat /\ t.ver <= version[t.user]
    BY DEF IsToken
  <1>2. version[t.user] <= version'[t.user] /\ version[t.user] \in Nat /\ version'[t.user] \in Nat
    BY <1>1, SessionStepKeepsCounts DEF CountsInv
  <1>3. Behind(marks[t.user], t.since, t.ver) => Behind(marks'[t.user], t.since, t.ver)
    BY <1>1, MarksStay
  <1> QED
    BY <1>1, <1>2, <1>3 DEF IsToken

\* --------------------------------------------------------------- what is answered
LEMMA SessionStepKeepsAccess ==
    ASSUME Ready, CountsInv, CarryInv, AccessInv, NEW r \in Requests, SessionStep(r)
    PROVE  AccessInv' /\ access \subseteq access' /\ \A t \in access' \ access : t.id = r
  <1>1. Moves(r, SessionStages, SessionStages)
    BY SessionMoves
  <1>2. \A o \in Requests : pc[o] = "done" => pc'[o] = "done" /\ o # r
    BY <1>1 DEF Moves, SessionStages
  <1>3. \A t \in access \cup refreshes : IsToken(t, version', marks')
    BY TokenStays DEF AccessInv
  <1>4. CASE Issue(r)
    <2> DEFINE u == snap[r].user
               raced == snap[r].raced \/ (pc[r] = "store" /\ snap[r].met # version[u])
               t == [id |-> r, user |-> u, role |-> snap[r].role, ver |-> snap[r].ver,
                     since |-> snap[r].since, raced |-> raced]
               d == [id |-> r, user |-> u, ver |-> snap[r].ver, since |-> snap[r].since, raced |-> raced]
    <2>1. /\ access' = access \cup {t} /\ refreshes' = refreshes \cup {d}
          /\ pc'[r] = "done" /\ pc[r] \in {"store", "renew"}
      BY <1>4 DEF Issue, Goto, Ready
    <2>2. Carried(snap[r], pc[r], version, changes, marks)
      BY DEF CarryInv
    <2>3. u \in Users /\ snap[r].ver \in Nat /\ snap[r].since \in Nat /\ snap[r].ver <= version[u]
      BY <2>1, <2>2 DEF Carried, Carrying
    <2>4. ASSUME ~raced PROVE Behind(marks[u], snap[r].since, snap[r].ver)
      <3>1. CASE pc[r] = "renew"
        BY <2>2, <2>4, <3>1 DEF Carried
      <3>2. CASE pc[r] = "store"
        <4>1. Behind(marks[u], snap[r].since, snap[r].met) /\ snap[r].met = version[u]
          BY <2>2, <2>4, <3>2 DEF Carried, Verifying
        <4> QED
          BY <2>3, <4>1, PresentIsNotBehind
      <3> QED
        BY <2>1, <3>1, <3>2
    <2>5. /\ t.id = r /\ t.user = u /\ t.ver = snap[r].ver /\ t.since = snap[r].since /\ t.raced = raced
          /\ d.user = u /\ d.ver = snap[r].ver /\ d.since = snap[r].since /\ d.raced = raced
      OBVIOUS
    <2> HIDE DEF u, raced, t, d
    <2>6. IsToken(t, version, marks) /\ IsToken(d, version, marks)
      BY <2>3, <2>4, <2>5 DEF IsToken
    <2>7. IsToken(t, version', marks') /\ IsToken(d, version', marks')
      BY <2>6, TokenStays
    <2>8. \A o \in access : o.id # r
      BY <1>2 DEF AccessInv
    <2>9. \A x, y \in access' : x.id = y.id => x = y
      BY <2>1, <2>5, <2>8 DEF AccessInv
    <2>10. \A x \in access' : IsToken(x, version', marks') /\ (x.id \in Requests => pc'[x.id] = "done")
      BY <1>2, <1>3, <2>1, <2>5, <2>7 DEF AccessInv
    <2>11. \A x \in refreshes' : IsToken(x, version', marks')
      BY <1>3, <2>1, <2>7
    <2>12. AccessInv'
      BY <2>9, <2>10, <2>11 DEF AccessInv
    <2> QED
      BY <2>1, <2>5, <2>12
  <1>5. CASE access' = access /\ refreshes' \subseteq refreshes
    BY <1>2, <1>3, <1>5 DEF AccessInv
  <1>6. Issue(r) \/ (access' = access /\ refreshes' \subseteq refreshes)
    BY DEF SessionStep, RegisterRead, CreateUser, LoginRead, IssueVersion, GetRefresh, CompareVersion,
           RoleRead, SelfRead, UpdatePassword, IncrTokenVersion, PromoteAdmins, SessionFails, Rehash,
           Rotate, CheckBlack, CheckVersion, BlacklistToken, ForgetRefresh, DeleteRefresh, sessionVars
  <1> QED
    BY <1>4, <1>5, <1>6

\* What a handler just read of a user is true of it.
LEMMA JustRead ==
    ASSUME CountsInv, CarryInv, NEW w, w.user \in Users, w.ver \in Nat, w.ver <= version[w.user],
           DOMAIN w = {"user", "role", "pass", "ver", "open", "met", "since", "raced",
                       "settled", "out", "unlisted"},
           w.met = version[w.user], w.since = changes[w.user], NEW at, at \notin {"compare", "renew"}
    PROVE  Carried(w, at, version, changes, marks)
  <1>1. version[w.user] \in Nat /\ changes[w.user] \in Nat
    BY DEF CountsInv
  <1>2. Behind(marks[w.user], w.since, w.met)
    BY NewIsNotBehind
  <1> QED
    BY <1>1, <1>2 DEF Carried

\* What the others carry stays true as the counts grow; what r carries is each step's own.
LEMMA SessionStepKeepsCarry ==
    ASSUME Ready, CountsInv, CarryInv, AccessInv, NEW r \in Requests, SessionStep(r)
    PROVE  CarryInv'
  <1>1. Moves(r, SessionStages, SessionStages) /\ job' = job /\ job \in Jobs
    BY SessionMoves DEF Moves, CountsInv
  <1>2. \A u \in Users : /\ version[u] \in Nat /\ version'[u] \in Nat /\ changes[u] \in Nat /\ changes'[u] \in Nat
                         /\ settled'[u] \in Nat /\ settled'[u] <= changes'[u]
                         /\ version[u] <= version'[u] /\ changes[u] <= changes'[u]
    BY SessionStepKeepsCounts DEF CountsInv
  <1>3. Carried(snap[r], pc[r], version, changes, marks)
    BY DEF CarryInv
  <1> DEFINE Stays == /\ Carried(snap'[r], pc'[r], version', changes', marks')
                      /\ pc'[r] = "enrol" => job[r].user \in Users
  <1>4. SUFFICES Stays
    <2> SUFFICES ASSUME NEW o \in Requests \ {r}
                 PROVE  /\ Carried(snap'[o], pc'[o], version', changes', marks')
                        /\ pc'[o] = "enrol" => job'[o].user \in Users
      BY <1>1 DEF CarryInv
    <2>1. pc'[o] = pc[o] /\ snap'[o] = snap[o] /\ job' = job
      BY <1>1 DEF Moves
    <2>2. Carried(snap[o], pc[o], version, changes, marks) /\ (pc[o] = "enrol" => job[o].user \in Users)
      BY DEF CarryInv
    <2>3. Carried(snap[o], pc[o], version', changes', marks')
      BY <2>2, CarriedStays
    <2> QED
      BY <2>1, <2>2, <2>3
  <1>5. ASSUME Carried(snap'[r], pc'[r], version, changes, marks), pc'[r] # "enrol" PROVE Stays
    BY <1>5, CarriedStays
  <1>6. ASSUME pc'[r] \in {"done", "black", "forget"} PROVE Stays
    BY <1>6 DEF Carried, Carrying, Verifying
  <1>7. CASE RegisterRead(r)
    <2>1. job[r].user \in Users
      BY <1>1, <1>7, AccountsAssumption DEF RegisterRead, Is
    <2>2. snap'[r] = Seen(r, job[r].user, "user") /\ pc'[r] \in {"done", "enrol"}
      BY <1>7 DEF RegisterRead, Keep, Goto, Ready
    <2>3. Carried(snap'[r], pc'[r], version, changes, marks)
      BY <1>2, <2>1, <2>2, JustRead DEF Seen
    <2> QED
      BY <2>1, <2>3, CarriedStays
  <1>8. CASE LoginRead(r)
    <2>1. CASE Verified(r)
      <3>1. job[r].user \in Users
        BY <1>8, <2>1 DEF Verified, CountsInv
      <3>2. /\ snap'[r] = [Seen(r, job[r].user, accounts[job[r].user].role) EXCEPT !.pass = accounts[job[r].user].pass]
            /\ pc'[r] \in {"rehash", "version"}
        BY <1>8, <2>1 DEF LoginRead, Keep, Goto, Ready
      <3>3. Carried(snap'[r], pc'[r], version, changes, marks)
        BY <1>2, <3>1, <3>2, JustRead DEF Seen
      <3> QED
        BY <1>5, <3>2, <3>3
    <2>2. CASE ~Verified(r)
      BY <1>6, <1>8, <2>2 DEF LoginRead, Goto, Ready
    <2> QED
      BY <2>1, <2>2
  <1>9. CASE GetRefresh(r)
    <2>1. CASE pc'[r] = "done"
      BY <1>6, <2>1
    <2>2. CASE pc'[r] # "done"
      <3>1. PICK d \in refreshes : /\ snap'[r] = [Seen(r, d.user, Nothing) EXCEPT !.ver = d.ver, !.since = d.since,
                                                                                  !.raced = d.raced]
                                   /\ pc'[r] = "compare"
        BY <1>9, <2>2 DEF GetRefresh, Keep, Goto, Ready
      <3>2. IsToken(d, version, marks)
        BY DEF AccessInv
      <3>3. /\ snap'[r].user = d.user /\ snap'[r].ver = d.ver /\ snap'[r].since = d.since
            /\ snap'[r].raced = d.raced /\ snap'[r].met = version[d.user]
            /\ DOMAIN snap'[r] = {"user", "role", "pass", "ver", "open", "met", "since", "raced",
                                  "settled", "out", "unlisted"}
        BY <3>1 DEF Seen
      <3>4. Carried(snap'[r], "compare", version, changes, marks)
        BY <1>2, <3>2, <3>3 DEF IsToken, Carried, Verifying
      <3> QED
        BY <1>5, <3>1, <3>4
    <2> QED
      BY <2>1, <2>2
  <1>10. CASE IssueVersion(r)
    <2>1. PICK v \in {version[snap[r].user], 0} : snap'[r] = [snap[r] EXCEPT !.ver = v]
      BY <1>10 DEF IssueVersion, Ready
    <2>2. pc[r] = "version" /\ pc'[r] = "store"
      BY <1>10 DEF IssueVersion, Goto, Ready
    <2>3. Carried(snap[r], "version", version, changes, marks)
      BY <1>3, <2>2
    <2>4. /\ DOMAIN snap'[r] = DOMAIN snap[r] /\ snap'[r].user = snap[r].user /\ snap'[r].ver = v
          /\ snap'[r].met = snap[r].met /\ snap'[r].since = snap[r].since /\ snap'[r].raced = snap[r].raced
      BY <2>1, <2>3 DEF Carried, Carrying
    <2>5. v \in Nat /\ v <= version[snap[r].user]
      BY <1>2, <2>3 DEF Carried, Carrying
    <2>6. Carried(snap'[r], "store", version, changes, marks)
      BY <2>3, <2>4, <2>5 DEF Carried, Carrying, Verifying
    <2> QED
      BY <1>5, <2>2, <2>6
  <1>11. CASE RoleRead(r) \/ SelfRead(r)
    <2>1. CASE pc'[r] = "done"
      BY <1>6, <2>1
    <2>2. CASE pc'[r] # "done"
      <3>1. PICK x : /\ snap'[r] = [snap[r] EXCEPT !.role = x]
                     /\ \/ pc[r] = "role" /\ pc'[r] = "rotate"
                        \/ pc[r] = "self" /\ pc'[r] = "password"
        <4>1. snap'[r] = [snap[r] EXCEPT !.role = accounts[snap[r].user].role]
          BY <1>11, <2>2 DEF RoleRead, SelfRead, Goto, Ready
        <4>2. \/ pc[r] = "role" /\ pc'[r] = "rotate"
              \/ pc[r] = "self" /\ pc'[r] = "password"
          BY <1>11, <2>2 DEF RoleRead, SelfRead, Goto, Ready
        <4> QED
          BY <4>1, <4>2
      <3>2. /\ DOMAIN snap'[r] = DOMAIN snap[r] /\ snap'[r].user = snap[r].user /\ snap'[r].ver = snap[r].ver
            /\ snap'[r].met = snap[r].met /\ snap'[r].since = snap[r].since /\ snap'[r].raced = snap[r].raced
        BY <1>3, <3>1 DEF Carried, Carrying
      <3>3. Carried(snap'[r], pc'[r], version, changes, marks)
        BY <1>3, <3>1, <3>2 DEF Carried, Carrying, Verifying
      <3> QED
        BY <1>5, <3>1, <3>3
    <2> QED
      BY <2>1, <2>2
  <1>12. CASE IncrTokenVersion(r)
    <2> DEFINE u == snap[r].user
    <2>1. pc[r] = "bump" /\ pc'[r] = "renew" /\ UNCHANGED <<changes, settled>>
      BY <1>12 DEF IncrTokenVersion, Goto, Ready
    <2>2. Carried(snap[r], "bump", version, changes, marks)
      BY <1>3, <2>1
    <2>3. /\ u \in Users /\ snap[r].met \in Nat /\ snap[r].met <= version[u]
          /\ DOMAIN snap[r] = {"user", "role", "pass", "ver", "open", "met", "since", "raced",
                               "settled", "out", "unlisted"}
      BY <2>2 DEF Carried, Carrying
    <2>4. snap'[r] = [snap[r] EXCEPT !.ver = version'[u], !.since = changes[u]]
      BY <1>12 DEF IncrTokenVersion, Ready
    <2>5. /\ DOMAIN snap'[r] = DOMAIN snap[r] /\ snap'[r].user = u /\ snap'[r].ver = version'[u]
          /\ snap'[r].since = changes[u] /\ snap'[r].met = snap[r].met
      BY <2>3, <2>4
    <2> HIDE DEF u
    <2>6. \A k \in marks'[u] : ~(changes[u] < k[1])
      <3>1. \A k \in marks'[u] : \/ k = <<settled'[u], version'[u]>>
                                 \/ \E o \in Requests : /\ pc'[o] = "renew" /\ snap'[o].user = u
                                                        /\ k = <<snap'[o].since, snap'[o].ver>>
        BY <2>3 DEF marks
      <3>2. ASSUME NEW o \in Requests, pc'[o] = "renew", snap'[o].user = u
            PROVE  snap'[o].since \in Nat /\ snap'[o].since <= changes[u]
        <4>1. CASE o = r
          BY <1>2, <2>3, <2>5, <4>1
        <4>2. CASE o # r
          <5>1. pc[o] = "renew" /\ snap'[o] = snap[o]
            BY <1>1, <3>2, <4>2 DEF Moves
          <5>2. Carried(snap[o], "renew", version, changes, marks)
            BY <5>1 DEF CarryInv
          <5> QED
            BY <3>2, <5>1, <5>2 DEF Carried, Carrying
        <4> QED
          BY <4>1, <4>2
      <3>3. settled'[u] \in Nat /\ settled'[u] <= changes[u] /\ changes[u] \in Nat
        BY <1>2, <2>1, <2>3
      <3> QED
        BY <3>1, <3>2, <3>3
    <2>7. Behind(marks'[u], snap'[r].since, snap'[r].ver)
      BY <2>5, <2>6 DEF Behind
    <2>8. /\ version'[u] \in Nat /\ changes[u] \in Nat /\ snap[r].met <= version'[u]
          /\ changes'[u] = changes[u]
      BY <1>2, <2>1, <2>3
    <2>9. Carried(snap'[r], "renew", version', changes', marks')
      BY <2>3, <2>5, <2>7, <2>8 DEF Carried, Carrying, Verifying
    <2> QED
      BY <2>1, <2>9
  <1>13. ASSUME NEW reads \in BOOLEAN, CheckBlack(r, reads) PROVE Stays
    <2>1. CASE pc'[r] = "done"
      BY <1>6, <2>1
    <2>2. CASE pc'[r] # "done"
      <3>1. PICK t \in access : /\ snap'[r] = [Seen(r, t.user, t.role) EXCEPT !.ver = t.ver, !.open = ~reads]
                                /\ pc'[r] = "stamp"
        BY <1>13, <2>2 DEF CheckBlack, Presented, Keep, Goto, Ready
      <3>2. t.user \in Users /\ t.ver \in Nat /\ t.ver <= version[t.user]
        BY DEF AccessInv, IsToken
      <3>3. /\ snap'[r].user = t.user /\ snap'[r].ver = t.ver
            /\ snap'[r].met = version[t.user] /\ snap'[r].since = changes[t.user]
            /\ DOMAIN snap'[r] = {"user", "role", "pass", "ver", "open", "met", "since", "raced",
                                  "settled", "out", "unlisted"}
        BY <3>1 DEF Seen
      <3>4. Carried(snap'[r], "stamp", version, changes, marks)
        BY <3>2, <3>3, JustRead
      <3> QED
        BY <1>5, <3>1, <3>4
    <2> QED
      BY <2>1, <2>2
  <1>14. CASE CompareVersion(r)
    <2>1. CASE pc'[r] = "done"
      BY <1>6, <2>1
    <2>2. CASE pc'[r] # "done"
      <3>1. pc[r] = "compare" /\ pc'[r] = "role" /\ snap' = snap /\ version[snap[r].user] = snap[r].ver
        BY <1>14, <2>2 DEF CompareVersion, Goto, Ready
      <3>2. Carried(snap[r], "compare", version, changes, marks)
        BY <1>3, <3>1
      <3>3. ~snap[r].raced => Behind(marks[snap[r].user], snap[r].since, snap[r].met)
        <4>1. /\ snap[r].user \in Users /\ snap[r].since \in Nat
              /\ ~snap[r].raced => Behind(marks[snap[r].user], snap[r].since, version[snap[r].user])
          BY <3>1, <3>2 DEF Carried, Carrying
        <4> QED
          BY <4>1, PresentIsNotBehind
      <3>4. Carried(snap[r], "role", version, changes, marks)
        BY <3>2, <3>3 DEF Carried, Carrying, Verifying
      <3> QED
        BY <1>5, <3>1, <3>4
    <2> QED
      BY <2>1, <2>2
  <1>15. ASSUME snap' = snap, pc'[r] \notin {"enrol", "compare", "renew"}, pc[r] \in Carrying,
                pc'[r] \in Verifying => pc[r] \in Verifying
         PROVE  Stays
    <2>1. Carried(snap'[r], pc'[r], version, changes, marks)
      BY <1>3, <1>15 DEF Carried
    <2> QED
      BY <1>5, <1>15, <2>1
  <1>16. CASE CreateUser(r)
    BY <1>6, <1>15, <1>16 DEF CreateUser, Goto, Ready, Carrying, Verifying
  <1>17. CASE UpdatePassword(r)
    <2>1. snap' = snap /\ pc[r] = "password" /\ pc'[r] = "bump"
      BY <1>17 DEF UpdatePassword, Goto, Ready
    <2> QED
      BY <1>15, <2>1 DEF Carrying, Verifying
  <1>18. CASE Issue(r) \/ PromoteAdmins(r) \/ SessionFails(r)
    <2>1. pc'[r] = "done"
      BY <1>18 DEF Issue, PromoteAdmins, SessionFails, Goto, Ready, Is
    <2> QED
      BY <1>6, <2>1
  <1>19. ASSUME NEW works \in BOOLEAN, Rehash(r, works) \/ Rotate(r, works) PROVE Stays
    <2>1. snap' = snap /\ pc[r] \in {"rehash", "rotate"} /\ pc'[r] = "version"
      BY <1>19 DEF Rehash, Rotate, Goto, Ready
    <2> QED
      BY <1>15, <2>1 DEF Carrying, Verifying
  <1>20. ASSUME NEW works \in BOOLEAN, CheckVersion(r, works) PROVE Stays
    <2>1. snap' = snap /\ pc[r] = "stamp" /\ pc'[r] \in {"self", "black", "done"}
      BY <1>20 DEF CheckVersion, Goto, Ready, Gated
    <2> QED
      BY <1>15, <2>1 DEF Carrying, Verifying
  <1>21. ASSUME NEW works \in BOOLEAN, BlacklistToken(r, works) \/ ForgetRefresh(r, works) PROVE Stays
    <2>1. pc'[r] \in {"forget", "done"}
      BY <1>21 DEF BlacklistToken, ForgetRefresh, Goto, Ready
    <2> QED
      BY <1>6, <2>1
  <1> HIDE DEF Stays
  <1> QED
    BY <1>7, <1>8, <1>9, <1>10, <1>11, <1>12, <1>13, <1>14, <1>16, <1>17, <1>18, <1>19, <1>20, <1>21 DEF SessionStep

LEMMA SessionStepKeepsStamp ==
    ASSUME Ready, TokensInv, NEW r \in Requests, SessionStep(r) PROVE StampInv'
  <1>1. /\ CountsInv /\ LeftInv /\ CarryInv /\ AccessInv /\ StampInv
        /\ Moves(r, SessionStages, SessionStages) /\ access \subseteq access'
    BY SessionMoves, SessionStepKeepsAccess DEF TokensInv
  <1>2. \A u \in Users : settled[u] \in Nat /\ settled'[u] \in Nat /\ settled[u] <= settled'[u]
    BY <1>1, SessionStepKeepsCounts DEF CountsInv
  <1>3. ASSUME NEW o \in Requests, o # r, pc'[o] = "stamp"
        PROVE  /\ \E t \in access' : t.id = job'[o].about /\ snap'[o].user = t.user
                                     /\ snap'[o].role = t.role /\ snap'[o].ver = t.ver
               /\ ~snap'[o].open => (snap'[o].out => snap'[o].unlisted)
               /\ snap'[o].settled \in Nat /\ snap'[o].settled <= settled'[snap'[o].user]
    <2>1. pc[o] = "stamp" /\ snap'[o] = snap[o] /\ job' = job
      BY <1>1, <1>3 DEF Moves
    <2>2. /\ \E t \in access : t.id = job[o].about /\ snap[o].user = t.user
                               /\ snap[o].role = t.role /\ snap[o].ver = t.ver
          /\ ~snap[o].open => (snap[o].out => snap[o].unlisted)
          /\ snap[o].settled \in Nat /\ snap[o].settled <= settled[snap[o].user]
      BY <1>1, <2>1 DEF StampInv
    <2>3. snap[o].user \in Users
      BY <1>1, <2>2 DEF AccessInv, IsToken
    <2>4. snap[o].settled <= settled'[snap[o].user]
      BY <1>2, <2>2, <2>3
    <2> QED
      BY <1>1, <2>1, <2>2, <2>4
  <1>4. ASSUME pc'[r] # "stamp" PROVE StampInv'
    BY <1>3, <1>4 DEF StampInv
  <1>5. ASSUME NEW reads \in BOOLEAN, CheckBlack(r, reads), pc'[r] = "stamp" PROVE StampInv'
    <2>1. PICK t \in Presented(r) : /\ ~(reads /\ t.id \in black)
                                    /\ snap'[r] = [Seen(r, t.user, t.role) EXCEPT !.ver = t.ver, !.open = ~reads]
      BY <1>5 DEF CheckBlack, Keep, Goto, Ready
    <2>2. t \in access /\ t.id = job[r].about
      BY <2>1 DEF Presented
    <2>3. /\ snap'[r].user = t.user /\ snap'[r].role = t.role /\ snap'[r].ver = t.ver
          /\ snap'[r].open <=> ~reads
          /\ snap'[r].out <=> job[r].about \in left
          /\ snap'[r].unlisted <=> job[r].about \in unlisted
          /\ snap'[r].settled = settled[t.user]
      BY <2>1 DEF Seen
    <2>4. ~snap'[r].open => (snap'[r].out => snap'[r].unlisted)
      BY <1>1, <2>1, <2>2, <2>3 DEF LeftInv
    <2>5. t.user \in Users /\ t \in access'
      BY <1>1, <2>2 DEF AccessInv, IsToken
    <2>6. snap'[r].settled \in Nat /\ snap'[r].settled <= settled'[snap'[r].user]
      BY <1>2, <2>3, <2>5
    <2>7. job' = job
      BY <1>1 DEF Moves
    <2> QED
      BY <1>3, <2>2, <2>3, <2>4, <2>5, <2>6, <2>7 DEF StampInv
  <1>6. (\E reads \in BOOLEAN : CheckBlack(r, reads)) \/ pc'[r] # "stamp"
    <2> USE DEF Ready, Goto, Is
    <2>1. CASE RegisterRead(r) \/ CreateUser(r) \/ LoginRead(r) \/ IssueVersion(r) \/ Issue(r) \/ GetRefresh(r)
      BY <2>1 DEF RegisterRead, CreateUser, LoginRead, IssueVersion, Issue, GetRefresh
    <2>2. CASE CompareVersion(r) \/ RoleRead(r) \/ SelfRead(r) \/ UpdatePassword(r) \/ IncrTokenVersion(r)
                 \/ PromoteAdmins(r) \/ SessionFails(r)
      BY <2>2 DEF CompareVersion, RoleRead, SelfRead, UpdatePassword, IncrTokenVersion, PromoteAdmins, SessionFails
    <2>3. ASSUME NEW works \in BOOLEAN,
                 Rehash(r, works) \/ Rotate(r, works) \/ BlacklistToken(r, works) \/ ForgetRefresh(r, works)
          PROVE  pc'[r] # "stamp"
      BY <2>3 DEF Rehash, Rotate, BlacklistToken, ForgetRefresh
    <2>4. ASSUME NEW works \in BOOLEAN, CheckVersion(r, works) PROVE pc'[r] # "stamp"
      BY <2>4 DEF CheckVersion, Gated
    <2> HIDE DEF Ready, Goto, Is
    <2> QED
      BY <2>1, <2>2, <2>3, <2>4 DEF SessionStep
  <1> QED
    BY <1>4, <1>5, <1>6

\* A request that is let through has a token of the version there is, and so of a session
\* that is not behind the last change that was settled.
LEMMA SessionStepKeepsAdmit ==
    ASSUME Ready, TokensInv, NEW r \in Requests, SessionStep(r) PROVE AdmitInv'
  <1>1. /\ CountsInv /\ CarryInv /\ AccessInv /\ StampInv /\ AdmitInv
    BY DEF TokensInv
  <1>2. AccessInv' /\ access \subseteq access' /\ \A t \in access' \ access : t.id = r
    BY <1>1, SessionStepKeepsAccess
  <1>3. \A a \in admitted, t \in access' : a.token = t.id => t \in access
    BY <1>1, <1>2 DEF AdmitInv, AccessInv
  <1>4. CASE admitted' = admitted
    BY <1>1, <1>2, <1>3, <1>4 DEF AdmitInv, EndedTokensStayOut
  <1>5. ASSUME NEW reads \in BOOLEAN, CheckVersion(r, reads), admitted' # admitted PROVE AdmitInv'
    <2> DEFINE a == [token |-> job[r].about, open |-> snap[r].open \/ ~reads,
                     changes |-> snap[r].since, settled |-> snap[r].settled,
                     out |-> snap[r].out, unlisted |-> snap[r].unlisted]
    <2>1. /\ admitted' = admitted \cup {a} /\ access' = access /\ pc[r] = "stamp"
          /\ snap[r].role = "user" /\ reads => snap[r].ver = version[snap[r].user]
      BY <1>5 DEF CheckVersion, Current
    <2>2. /\ a.token = job[r].about /\ a.settled = snap[r].settled
          /\ a.open <=> snap[r].open \/ ~reads
          /\ a.out <=> snap[r].out
          /\ a.unlisted <=> snap[r].unlisted
      OBVIOUS
    <2> HIDE DEF a
    <2>3. PICK t \in access : /\ t.id = job[r].about /\ snap[r].user = t.user
                              /\ snap[r].role = t.role /\ snap[r].ver = t.ver
      BY <1>1, <2>1 DEF StampInv
    <2>4. /\ ~snap[r].open => (snap[r].out => snap[r].unlisted)
          /\ snap[r].settled \in Nat /\ snap[r].settled <= settled[snap[r].user]
      BY <1>1, <2>1 DEF StampInv
    <2>5. IsToken(t, version, marks) /\ t.user \in Users /\ t.ver \in Nat /\ t.since \in Nat
      BY <1>1 DEF AccessInv, IsToken
    <2>6. settled[t.user] \in Nat /\ version[t.user] \in Nat /\ <<settled[t.user], version[t.user]>> \in marks[t.user]
      BY <1>1, <2>5, InMarks DEF CountsInv
    <2>7. ~a.open => (a.out => a.unlisted)
      BY <2>2, <2>4
    <2>8. ASSUME ~a.open, NEW u \in access, a.token = u.id, ~u.raced, u.role = "user"
          PROVE  a.settled <= u.since
      <3>1. u = t
        BY <1>1, <2>2, <2>3, <2>8 DEF AccessInv
      <3>2. t.ver = version[t.user]
        BY <2>1, <2>2, <2>3, <2>8, <3>1
      <3>3. Behind(marks[t.user], t.since, t.ver)
        BY <2>5, <2>8, <3>1 DEF IsToken
      <3>4. ~(t.since < settled[t.user])
        BY <2>5, <2>6, <3>2, <3>3 DEF Behind
      <3> QED
        BY <2>2, <2>3, <2>4, <2>5, <2>6, <3>1, <3>4
    <2>9. \A b \in admitted' : b = a \/ b \in admitted
      BY <2>1
    <2>10. \A b \in admitted' : \E u \in access' : u.id = b.token
      BY <1>1, <2>1, <2>2, <2>3, <2>9 DEF AdmitInv
    <2>11. ASSUME NEW b \in admitted', ~b.open
           PROVE  /\ b.out => b.unlisted
                  /\ \A u \in access' : b.token = u.id /\ ~u.raced /\ u.role = "user" => b.settled <= u.since
      <3>1. CASE b = a
        BY <2>1, <2>7, <2>8, <2>11, <3>1
      <3>2. CASE b \in admitted
        BY <1>1, <2>1, <2>11, <3>2 DEF AdmitInv, EndedTokensStayOut
      <3> QED
        BY <2>9, <3>1, <3>2
    <2> QED
      BY <2>10, <2>11 DEF AdmitInv, EndedTokensStayOut
  <1>6. (\E reads \in BOOLEAN : CheckVersion(r, reads)) \/ admitted' = admitted
    BY DEF SessionStep, RegisterRead, CreateUser, LoginRead, IssueVersion, Issue, GetRefresh, CompareVersion,
           RoleRead, SelfRead, UpdatePassword, IncrTokenVersion, PromoteAdmins, SessionFails, Rehash,
           Rotate, CheckBlack, BlacklistToken, ForgetRefresh, sessionVars
  <1> QED
    BY <1>4, <1>5, <1>6

LEMMA TokensInvNext == Ready /\ TokensInv /\ [Next]_backendVars => TokensInv'
  <1> SUFFICES ASSUME Ready, TokensInv, [Next]_backendVars PROVE TokensInv'
    OBVIOUS
  <1>1. ASSUME NEW r \in Requests, SessionStep(r) PROVE TokensInv'
    <2>1. CountsInv' /\ LeftInv'
      BY <1>1, SessionStepKeepsCounts, SessionStepKeepsLeft DEF TokensInv
    <2>2. CarryInv' /\ AccessInv'
      BY <1>1, SessionStepKeepsCarry, SessionStepKeepsAccess DEF TokensInv
    <2>3. StampInv' /\ AdmitInv'
      BY <1>1, SessionStepKeepsStamp, SessionStepKeepsAdmit
    <2> QED
      BY <2>1, <2>2, <2>3 DEF TokensInv
  <1>2. ASSUME Spares(SessionStages), UNCHANGED sessionVars PROVE TokensInv'
    <2>1. /\ job' = job
          /\ \A o \in Requests : /\ pc'[o] \in SessionStages => pc'[o] = pc[o] /\ snap'[o] = snap[o]
                                 /\ pc[o] = "done" => pc'[o] = "done"
          /\ UNCHANGED <<version, changes, settled, access, refreshes, accounts, black, left, unlisted, admitted>>
      BY <1>2 DEF Spares, sessionVars
    <2>2. CountsInv' /\ LeftInv'
      BY <2>1 DEF TokensInv, CountsInv, LeftInv, SessionStages
    <2>3. ASSUME NEW u \in Users PROVE marks'[u] \subseteq marks[u]
      <3>1. \A k \in marks'[u] : \/ k = <<settled'[u], version'[u]>>
                                 \/ \E o \in Requests : /\ pc'[o] = "renew" /\ snap'[o].user = u
                                                        /\ k = <<snap'[o].since, snap'[o].ver>>
        BY DEF marks
      <3>2. ASSUME NEW o \in Requests, pc'[o] = "renew", snap'[o].user = u
            PROVE  <<snap'[o].since, snap'[o].ver>> \in marks[u]
        <4>1. pc[o] = "renew" /\ snap'[o] = snap[o]
          BY <2>1, <3>2 DEF SessionStages
        <4> QED
          BY <3>2, <4>1, InMarks
      <3>3. <<settled'[u], version'[u]>> \in marks[u]
        BY <2>1, InMarks
      <3> QED
        BY <3>1, <3>2, <3>3
    <2>4. ASSUME NEW u \in Users, NEW s, NEW v, Behind(marks[u], s, v) PROVE Behind(marks'[u], s, v)
      BY <2>3, <2>4 DEF Behind
    <2>5. ASSUME NEW w, NEW at, Carried(w, at, version, changes, marks)
          PROVE  Carried(w, at, version', changes', marks')
      <3>1. CASE at \notin Carrying
        BY <3>1 DEF Carried, Carrying, Verifying
      <3>2. CASE at \in Carrying
        <4>1. w.user \in Users
          BY <2>5, <3>2 DEF Carried
        <4>2. /\ Behind(marks[w.user], w.since, w.ver) => Behind(marks'[w.user], w.since, w.ver)
              /\ Behind(marks[w.user], w.since, w.met) => Behind(marks'[w.user], w.since, w.met)
          BY <2>4, <4>1
        <4> QED
          BY <2>1, <2>5, <4>2 DEF Carried
      <3> QED
        BY <3>1, <3>2
    <2>6. ASSUME NEW t, IsToken(t, version, marks) PROVE IsToken(t, version', marks')
      BY <2>1, <2>4, <2>6 DEF IsToken
    <2>7. AccessInv'
      BY <2>1, <2>6 DEF TokensInv, AccessInv
    <2>8. CarryInv'
      <3> SUFFICES ASSUME NEW o \in Requests
                   PROVE  /\ Carried(snap'[o], pc'[o], version', changes', marks')
                          /\ pc'[o] = "enrol" => job'[o].user \in Users
        BY DEF CarryInv
      <3>1. CASE pc'[o] \notin SessionStages
        BY <3>1 DEF Carried, Carrying, Verifying, SessionStages
      <3>2. CASE pc'[o] \in SessionStages
        <4>1. pc'[o] = pc[o] /\ snap'[o] = snap[o] /\ job' = job
          BY <2>1, <3>2
        <4>2. Carried(snap[o], pc[o], version, changes, marks) /\ (pc[o] = "enrol" => job[o].user \in Users)
          BY DEF TokensInv, CarryInv
        <4>3. Carried(snap[o], pc[o], version', changes', marks')
          BY <2>5, <4>2
        <4> QED
          BY <4>1, <4>2, <4>3
      <3> QED
        BY <3>1, <3>2
    <2>9. StampInv'
      BY <2>1 DEF TokensInv, StampInv, SessionStages
    <2>10. AdmitInv'
      BY <2>1 DEF TokensInv, AdmitInv, EndedTokensStayOut
    <2> QED
      BY <2>2, <2>7, <2>8, <2>9, <2>10 DEF TokensInv
  <1> QED
    BY <1>1, <1>2, OthersSpareSessions

(* No request that begins after a logout was answered gets through with the access token  *)
(* of that logout, unless the blacklist could not be written; and none that begins after  *)
(* an answered change of password with a token of a session from before it, whatever      *)
(* other changes, logins and refreshes overlap and fail (Logout, ChangePassword, Refresh, *)
(* AuthMiddlewareWithStore); the property names the exceptions.                           *)
THEOREM EndedTokens == Spec => []EndedTokensStayOut
  <1>1. TokensInv => EndedTokensStayOut
    BY DEF TokensInv, AdmitInv
  <1> QED
    BY <1>1, ReadyInit, ReadyNext, TokensInvInit, TokensInvNext, PTL DEF Spec

(***************************************************************************)
(* Pairing tickets.  A ticket that two handlers never held at once passes  *)
(* through its states in order: whoever scans it finds it pending until    *)
(* the scan is written, whoever completes it finds it as its own scan left *)
(* it, and the credential is put there once.                               *)
(***************************************************************************)
Holders == {o \in Requests : \/ job[o].op = "scan" /\ pc[o] = "claim"
                             \/ job[o].op \in Completing /\ pc[o] \notin {"new", "done"}}
Born == {o \in Requests : pc[o] # "new"}
TicketFields == {"status", "user", "agent", "secret", "action", "type", "age"}

\* The stages are those of the operations they belong to.
StageInv == \A o \in Requests :
    /\ pc[o] = "claim" => job[o].op = "scan"
    /\ pc[o] = "create" => job[o].op = "adopt"
    /\ pc[o] \in {"count", "issue"} => job[o].op = "authorize"
    /\ pc[o] = "reset" => job[o].op \in {"bind", "rotate"}
    /\ pc[o] = "edit" => job[o].op = "edit"
    /\ pc[o] = "type" => job[o].op \in {"bind", "edit"}
    /\ pc[o] = "mark" => job[o].op \in Completing

\* A completion goes on with an agent of its user, and ends with a key of its own.
OwnInv ==
    /\ \A a \in DOMAIN agents : agents[a].owner = OwnerEver(a)
    /\ \A o \in Requests : job[o].op \in Completing =>
          /\ pc[o] \in {"count", "issue", "reset", "type", "mark", "find", "make"} =>
                /\ DOMAIN snap[o] = {"type", "agent", "key"}
                /\ OwnerEver(snap[o].agent) = job[o].user
          /\ pc[o] \in {"type", "mark", "find", "make"} => snap[o].key = o

BornInv ==
    /\ \A t \in DOMAIN tickets : t \in Born /\ DOMAIN tickets[t] = TicketFields
    /\ \A o \in Holders : job[o].about \in Born
    /\ \A g \in given : g.ticket \in Born

\* Of the tickets that were never held twice.
HolderInv == \A o \in Holders : job[o].about \notin muddled =>
    /\ \A p \in Holders : job[p].about = job[o].about => p = o
    /\ job[o].about \in DOMAIN tickets =>
          \/ job[o].op = "scan" /\ tickets[job[o].about].status = "pending"
          \/ /\ job[o].op \in Completing /\ tickets[job[o].about].status = "scanned"
             /\ tickets[job[o].about].user = job[o].user

SecretInv == \A t \in DOMAIN tickets \ muddled : tickets[t].secret # Nothing =>
    /\ tickets[t].status = "completed" /\ \A g \in given : g.ticket # t
    /\ job[tickets[t].secret].user = tickets[t].user
    /\ OwnerEver(tickets[t].agent) = tickets[t].user

GivenInv ==
    /\ \A g \in given : g.ticket \in DOMAIN tickets \ muddled =>
          tickets[g.ticket].status = "completed" /\ tickets[g.ticket].secret = Nothing
    /\ CredentialOnce /\ HandedToItsUser

ClaimInv == BornInv /\ HolderInv /\ SecretInv /\ GivenInv
TicketsInv == StageInv /\ OwnInv /\ ClaimInv

LEMMA TicketsInvInit == Init => TicketsInv
  <1> SUFFICES ASSUME Init PROVE TicketsInv
    OBVIOUS
  <1> USE DEF Init, HandlersInit, RoomsInit, AgentsInit
  <1>1. StageInv /\ OwnInv
    BY DEF StageInv, OwnInv, OwnerEver
  <1>2. tickets = <<>> /\ DOMAIN tickets = {} /\ given = {} /\ Holders = {}
    BY DEF Holders
  <1> HIDE DEF Init, HandlersInit, RoomsInit, AgentsInit
  <1>3. ClaimInv
    BY <1>2 DEF ClaimInv, BornInv, HolderInv, SecretInv, GivenInv, CredentialOnce, HandedToItsUser
  <1> QED
    BY <1>1, <1>3 DEF TicketsInv

\* Where a handler goes when it is not the agents' component that moves it.
LedElsewhere(o) ==
    \/ pc'[o] = pc[o] /\ snap'[o] = snap[o]
    \/ pc'[o] = "done"
    \/ /\ pc[o] \in {"find", "make"} /\ snap'[o] = snap[o]
       /\ pc'[o] = "make" \/ (pc'[o] = "mark" /\ job[o].op = "adopt")
    \/ pc'[o] = "find" /\ job[o].op = "dm"
    \/ /\ pc'[o] \notin AgentStages \cup {"new", "find", "make"}
       /\ job[o].op \in Completing => pc[o] \notin {"new", "done"}

TicketsKept ==
    /\ DOMAIN tickets' \subseteq DOMAIN tickets
    /\ \A t \in DOMAIN tickets' :
          /\ DOMAIN tickets'[t] = TicketFields
          /\ tickets'[t].status = tickets[t].status /\ tickets'[t].user = tickets[t].user
          /\ tickets'[t].agent = tickets[t].agent /\ tickets'[t].secret = tickets[t].secret

LEMMA OthersLeaveTickets ==
    ASSUME Ready, BornInv, [Next]_backendVars, \A r \in Requests : ~AgentStep(r)
    PROVE  /\ job' = job /\ \A o \in Requests : LedElsewhere(o)
           /\ TicketsKept /\ UNCHANGED <<agents, given, muddled>>
  <1>1. ASSUME NEW r \in Requests, NEW S, Moves(r, S, S), S \cap AgentStages = {},
               S \cap {"find", "make", "new", "done"} = {},
               pc[r] = "new" => job[r].op \notin Completing
        PROVE  job' = job /\ \A o \in Requests : LedElsewhere(o)
    BY <1>1 DEF Moves, LedElsewhere
  <1>2. ASSUME NEW r \in Requests, PackageStep(r)
        PROVE  job' = job /\ \A o \in Requests : LedElsewhere(o)
    BY <1>1, <1>2, PackageMoves DEF PackageStages, AgentStages
  <1>3. ASSUME NEW r \in Requests, DataStep(r)
        PROVE  job' = job /\ \A o \in Requests : LedElsewhere(o)
    BY <1>1, <1>3, DataMoves DEF DataStages, AgentStages
  <1>4. ASSUME NEW r \in Requests, FriendStep(r)
        PROVE  job' = job /\ \A o \in Requests : LedElsewhere(o)
    BY <1>1, <1>4, FriendMoves DEF FriendStages, AgentStages
  <1>5. ASSUME NEW r \in Requests, SessionStep(r)
        PROVE  job' = job /\ \A o \in Requests : LedElsewhere(o)
    BY <1>1, <1>5, SessionMoves DEF SessionStages, AgentStages
  <1>6. ASSUME NEW r \in Requests, RoomStep(r)
        PROVE  job' = job /\ \A o \in Requests : LedElsewhere(o)
    <2>1. Moves(r, RoomStages, RoomStages \cup {"mark"})
      BY <1>6, RoomMoves
    <2>2. \A o \in Requests \ {r} : LedElsewhere(o)
      BY <2>1 DEF Moves, LedElsewhere
    <2>3. ASSUME pc[r] \in {"find", "make"} PROVE LedElsewhere(r)
      BY <1>6, <2>3, RoomMoves DEF ChatMade, LedElsewhere
    <2>4. ASSUME pc[r] \notin {"find", "make"} PROVE LedElsewhere(r)
      BY <1>6, <2>1, <2>4, RoomMoves DEF Moves, LedElsewhere, RoomStages, AgentStages
    <2> QED
      BY <2>1, <2>2, <2>3, <2>4 DEF Moves
  <1>7. ASSUME ServerRestarts PROVE job' = job /\ \A o \in Requests : LedElsewhere(o)
    <2> DEFINE S == {pc'[o] : o \in Requests} \ {"done"}
    <2>1. Spares(S)
      BY <1>7, RestartSpares
    <2> QED
      BY <2>1 DEF Spares, LedElsewhere
  <1>8. ASSUME UNCHANGED handlerVars PROVE job' = job /\ \A o \in Requests : LedElsewhere(o)
    BY <1>8 DEF handlerVars, LedElsewhere
  <1>9. ASSUME UNCHANGED tickets PROVE TicketsKept
    BY <1>9 DEF TicketsKept, BornInv
  <1>10. ASSUME TicketsAge PROVE TicketsKept /\ UNCHANGED <<agents, given, muddled>>
    <2>1. CASE DeleteExpired
      BY <2>1 DEF DeleteExpired, TicketsKept, BornInv, Restrict
    <2>2. ASSUME NEW t \in DOMAIN tickets, Ages(t)
          PROVE  TicketsKept /\ UNCHANGED <<agents, given, muddled>>
      <3>1. /\ DOMAIN tickets' = DOMAIN tickets
            /\ \A x \in DOMAIN tickets : tickets'[x] = IF x = t THEN [tickets[t] EXCEPT !.age = tickets[t].age + 1]
                                                               ELSE tickets[x]
            /\ UNCHANGED <<agents, given, muddled>>
        BY <2>2 DEF Ages
      <3> QED
        BY <3>1 DEF TicketsKept, BornInv, TicketFields
    <2> QED
      BY <1>10, <2>1, <2>2 DEF TicketsAge
  <1>11. ASSUME UNCHANGED agentVars PROVE TicketsKept /\ UNCHANGED <<agents, given, muddled>>
    BY <1>9, <1>11 DEF agentVars
  <1>12. ASSUME ServerRestarts PROVE UNCHANGED agentVars
    BY <1>12 DEF ServerRestarts, roomless, agentVars
  <1> QED
    BY <1>2, <1>3, <1>4, <1>5, <1>6, <1>7, <1>8, <1>10, <1>11, <1>12, Steps DEF peopleVars, roomless

LEMMA OthersKeepTickets ==
    ASSUME Ready, TicketsInv, [Next]_backendVars, \A r \in Requests : ~AgentStep(r)
    PROVE  TicketsInv'
  <1>1. /\ job' = job /\ (\A o \in Requests : LedElsewhere(o))
        /\ TicketsKept /\ UNCHANGED <<agents, given, muddled>>
    BY OthersLeaveTickets DEF TicketsInv, ClaimInv
  <1>2. StageInv'
    BY <1>1 DEF TicketsInv, StageInv, LedElsewhere, AgentStages, Completing
  <1>3. \A a : OwnerEver(a)' = OwnerEver(a)
    BY <1>1 DEF OwnerEver
  <1>4. OwnInv'
    <2>1. \A a \in DOMAIN agents' : agents'[a].owner = OwnerEver(a)'
      BY <1>1, <1>3 DEF TicketsInv, OwnInv
    <2>2. ASSUME NEW o \in Requests, job[o].op \in Completing
          PROVE  /\ pc'[o] \in {"count", "issue", "reset", "type", "mark", "find", "make"} =>
                       /\ DOMAIN snap'[o] = {"type", "agent", "key"}
                       /\ OwnerEver(snap'[o].agent) = job[o].user
                 /\ pc'[o] \in {"type", "mark", "find", "make"} => snap'[o].key = o
      BY <1>1, <2>2 DEF TicketsInv, OwnInv, LedElsewhere, AgentStages, Completing
    <2> QED
      BY <1>1, <2>1, <2>2 DEF OwnInv, OwnerEver
  <1>5. Holders' \subseteq Holders /\ Born \subseteq Born'
    BY <1>1 DEF Holders, Born, LedElsewhere, AgentStages, Completing
  <1>6. BornInv'
    BY <1>1, <1>5 DEF TicketsInv, ClaimInv, BornInv, TicketsKept
  <1>7. HolderInv'
    BY <1>1, <1>5 DEF TicketsInv, ClaimInv, HolderInv, TicketsKept
  <1>8. SecretInv'
    BY <1>1 DEF TicketsInv, ClaimInv, SecretInv, TicketsKept, OwnerEver
  <1>9. GivenInv'
    BY <1>1 DEF TicketsInv, ClaimInv, GivenInv, CredentialOnce, HandedToItsUser, TicketsKept, OwnerEver
  <1> QED
    BY <1>2, <1>4, <1>6, <1>7, <1>8, <1>9 DEF TicketsInv, ClaimInv

\* --------------------------------------------------------- the agents' own steps
\* Which of them reach the tickets and those who hold them.
Scans(r) == ScanRead(r) /\ pc'[r] = "claim"
Begins(r) == CompleteRead(r) /\ pc'[r] # "done"
LeavesTickets(r) == UNCHANGED <<tickets, given, muddled>> /\ Holders' \subseteq Holders

LEMMA AgentStepKinds ==
    ASSUME Ready, NEW r \in Requests, AgentStep(r)
    PROVE  Scans(r) \/ Begins(r) \/ CreateTicket(r) \/ MarkScanned(r) \/ MarkCompleted(r)
           \/ ConsumeSecretKey(r) \/ LeavesTickets(r)
  <1>1. Moves(r, AgentStages, AgentStages \cup {"find"})
    BY AgentMoves
  <1>2. ASSUME pc[r] = "new" => job[r].op \notin Completing, pc'[r] # "claim"
        PROVE  Holders' \subseteq Holders
    BY <1>1, <1>2 DEF Moves, Holders, AgentStages
  <1>3. ASSUME pc'[r] = "done" PROVE Holders' \subseteq Holders
    BY <1>1, <1>3 DEF Moves, Holders, AgentStages
  <1> USE DEF Ready, Goto, Is, agentVars
  <1>4. CASE ScanRead(r)
    <2>1. pc'[r] \in {"claim", "done"} /\ (pc'[r] = "done" => UNCHANGED <<tickets, given, muddled>>)
      BY <1>4 DEF ScanRead
    <2> QED
      BY <1>3, <1>4, <2>1 DEF Scans, LeavesTickets
  <1>5. CASE CompleteRead(r)
    <2>1. pc'[r] = "done" => UNCHANGED <<tickets, given, muddled>>
      BY <1>5 DEF CompleteRead
    <2> QED
      BY <1>3, <1>5, <2>1 DEF Begins, LeavesTickets
  <1>6. ASSUME OwnerRead(r) \/ CountActive(r) \/ CreateSubKey(r)
               \/ ResetSecretKey(r) \/ UpdateType(r) \/ CreateAgent(r)
        PROVE  /\ UNCHANGED <<tickets, given, muddled>>
               /\ (pc[r] = "new" => job[r].op \notin Completing) /\ pc'[r] # "claim"
    <2>1. CASE OwnerRead(r)
      BY <2>1 DEF OwnerRead, Completing
    <2>2. CASE CountActive(r) \/ CreateSubKey(r) \/ ResetSecretKey(r)
      BY <2>2 DEF CountActive, CreateSubKey, ResetSecretKey, Completing
    <2>3. CASE UpdateType(r) \/ CreateAgent(r)
      BY <2>3 DEF UpdateType, CreateAgent, Completing
    <2> QED
      BY <1>6, <2>1, <2>2, <2>3
  <1>7. ASSUME PollRead(r) \/ NameRead(r) \/ Update(r) \/ Delete(r) \/ RevokeAllForAgent(r)
               \/ ListByAgent(r) \/ Revoke(r) \/ AgentFails(r)
        PROVE  /\ UNCHANGED <<tickets, given, muddled>>
               /\ (pc[r] = "new" => job[r].op \notin Completing) /\ pc'[r] # "claim"
    <2>1. CASE PollRead(r) \/ NameRead(r) \/ Update(r) \/ Delete(r)
      BY <2>1 DEF PollRead, NameRead, Update, Delete, Completing
    <2>2. CASE RevokeAllForAgent(r) \/ ListByAgent(r) \/ Revoke(r) \/ AgentFails(r)
      BY <2>2 DEF RevokeAllForAgent, ListByAgent, Revoke, AgentFails, Completing
    <2> QED
      BY <1>7, <2>1, <2>2
  <1> HIDE DEF Ready, Goto, Is, agentVars
  <1> QED
    BY <1>2, <1>4, <1>5, <1>6, <1>7 DEF AgentStep, LeavesTickets

LEMMA AgentStepKeepsStages ==
    ASSUME Ready, StageInv, NEW r \in Requests, AgentStep(r) PROVE StageInv'
  <1>1. Moves(r, AgentStages, AgentStages \cup {"find"})
    BY AgentMoves
  <1>2. SUFFICES /\ pc'[r] = "claim" => job[r].op = "scan"
                 /\ pc'[r] = "create" => job[r].op = "adopt"
                 /\ pc'[r] \in {"count", "issue"} => job[r].op = "authorize"
                 /\ pc'[r] = "reset" => job[r].op \in {"bind", "rotate"}
                 /\ pc'[r] = "edit" => job[r].op = "edit"
                 /\ pc'[r] = "type" => job[r].op \in {"bind", "edit"}
                 /\ pc'[r] = "mark" => job[r].op \in Completing
    BY <1>1 DEF Moves, StageInv
  <1> USE DEF Ready, Goto, Is, StageInv, Completing
  <1>3. CASE CreateTicket(r) \/ ScanRead(r) \/ MarkScanned(r) \/ MarkCompleted(r)
    BY <1>3 DEF CreateTicket, ScanRead, MarkScanned, MarkCompleted
  <1>4. CASE CompleteRead(r)
    BY <1>4 DEF CompleteRead
  <1>5. CASE OwnerRead(r)
    BY <1>5 DEF OwnerRead
  <1>6. CASE CountActive(r) \/ CreateSubKey(r)
    BY <1>6 DEF CountActive, CreateSubKey
  <1>7. CASE ResetSecretKey(r) \/ UpdateType(r) \/ CreateAgent(r)
    BY <1>7 DEF ResetSecretKey, UpdateType, CreateAgent
  <1>8. CASE PollRead(r) \/ NameRead(r) \/ ConsumeSecretKey(r) \/ Delete(r) \/ AgentFails(r)
    BY <1>8 DEF PollRead, NameRead, ConsumeSecretKey, Delete, AgentFails
  <1>9. CASE Update(r)
    <2>1. pc[r] = "edit" /\ pc'[r] \in {"type", "done"}
      BY <1>9 DEF Update
    <2> QED
      BY <2>1
  <1>10. CASE RevokeAllForAgent(r) \/ ListByAgent(r) \/ Revoke(r)
    BY <1>10 DEF RevokeAllForAgent, ListByAgent, Revoke
  <1> HIDE DEF Ready, Goto, Is, StageInv, Completing
  <1> QED
    BY <1>3, <1>4, <1>5, <1>6, <1>7, <1>8, <1>9, <1>10 DEF AgentStep

LEMMA AgentStepKeepsOwn ==
    ASSUME Ready, KeysInv, StageInv, OwnInv, NEW r \in Requests, AgentStep(r) PROVE OwnInv'
  <1>1. Moves(r, AgentStages, AgentStages \cup {"find"}) /\ job' = job
    BY AgentMoves DEF Moves
  <1>2. \A a : OwnerEver(a)' = OwnerEver(a)
    BY <1>1 DEF OwnerEver
  \* the agents' owners
  <1>3. \A a \in DOMAIN agents' : agents'[a].owner = OwnerEver(a)
    <2>1. CASE agents' = agents
      BY <2>1 DEF OwnInv
    <2>2. ASSUME NEW field \in {"key", "type"}, NEW x, NEW a \in DOMAIN agents,
                 DOMAIN agents' = DOMAIN agents,
                 agents'[a] = [agents[a] EXCEPT ![field] = x],
                 \A b \in DOMAIN agents \ {a} : agents'[b] = agents[b]
          PROVE  \A b \in DOMAIN agents' : agents'[b].owner = OwnerEver(b)
      <3>1. agents'[a].owner = agents[a].owner
        BY <2>2 DEF KeysInv
      <3> QED
        BY <2>2, <3>1 DEF OwnInv
    <2>3. CASE ResetSecretKey(r) /\ agents' # agents
      <3> DEFINE a == snap[r].agent
      <3>1. a \in DOMAIN agents /\ agents' = [agents EXCEPT ![a] = [agents[a] EXCEPT !.key = r]]
        BY <2>3 DEF ResetSecretKey
      <3> HIDE DEF a
      <3> QED
        BY <2>2, <3>1
    <2>4. CASE UpdateType(r) /\ agents' # agents
      <3> DEFINE a == snap[r].agent
                 x == snap[r].type
      <3>1. a \in DOMAIN agents /\ agents' = [agents EXCEPT ![a] = [agents[a] EXCEPT !.type = x]]
        BY <2>4 DEF UpdateType
      <3> HIDE DEF a, x
      <3> QED
        BY <2>2, <3>1
    <2>5. CASE CreateAgent(r)
      <3>1. /\ DOMAIN agents' = DOMAIN agents \cup {r} /\ agents'[r].owner = job[r].user
            /\ \A b \in DOMAIN agents \ {r} : agents'[b] = agents[b]
        BY <2>5 DEF CreateAgent, With
      <3>2. OwnerEver(r) = job[r].user
        BY AgentsAssumption DEF OwnerEver
      <3> QED
        BY <3>1, <3>2 DEF OwnInv
    <2>6. CASE Delete(r)
      BY <2>6 DEF Delete, Without, Restrict, OwnInv
    <2> QED
      BY <2>1, <2>3, <2>4, <2>5, <2>6
         DEF AgentStep, CreateTicket, ScanRead, MarkScanned, CompleteRead, OwnerRead, CountActive,
             CreateSubKey, MarkCompleted, PollRead, NameRead, ConsumeSecretKey, Update,
             RevokeAllForAgent, ListByAgent, Revoke, AgentFails, agentVars
  \* what r goes on with
  <1> DEFINE Onward == {"count", "issue", "reset", "type", "mark", "find", "make"}
             WithKey == {"type", "mark", "find", "make"}
  <1>4. SUFFICES ASSUME job[r].op \in Completing
                 PROVE  /\ pc'[r] \in Onward => /\ DOMAIN snap'[r] = {"type", "agent", "key"}
                                                /\ OwnerEver(snap'[r].agent) = job[r].user
                        /\ pc'[r] \in WithKey => snap'[r].key = r
    <2>1. ASSUME NEW o \in Requests \ {r}, job[o].op \in Completing
          PROVE  /\ pc'[o] \in Onward => /\ DOMAIN snap'[o] = {"type", "agent", "key"}
                                         /\ OwnerEver(snap'[o].agent) = job[o].user
                 /\ pc'[o] \in WithKey => snap'[o].key = o
      <3>1. pc'[o] = pc[o] /\ snap'[o] = snap[o]
        BY <1>1 DEF Moves
      <3> QED
        BY <2>1, <3>1 DEF OwnInv
    <2> QED
      BY <1>1, <1>2, <1>3, <1>4, <2>1 DEF OwnInv, OwnerEver
  <1>5. /\ pc[r] \in Onward => /\ DOMAIN snap[r] = {"type", "agent", "key"}
                               /\ OwnerEver(snap[r].agent) = job[r].user
        /\ pc[r] \in WithKey => snap[r].key = r
    BY <1>4 DEF OwnInv
  <1>6. CASE OwnerRead(r)
    <2>1. CASE Owns(job[r].user, Target(r))
      <3>1. OwnerEver(Target(r)) = job[r].user
        BY <2>1 DEF Owns, OwnInv
      <3>2. /\ snap'[r] = [type |-> TypeToWrite(r, agents[Target(r)].type), agent |-> Target(r), key |-> Nothing]
            /\ pc'[r] \in {"reset", "count"}
        BY <1>4, <1>6, <2>1 DEF OwnerRead, Keep, Goto, Ready, Completing
      <3> QED
        BY <3>1, <3>2
    <2>2. CASE ~Owns(job[r].user, Target(r))
      BY <1>6, <2>2 DEF OwnerRead, Goto, Ready
    <2> QED
      BY <2>1, <2>2
  <1>7. CASE CountActive(r)
    BY <1>5, <1>7 DEF CountActive, Goto, Ready
  <1>8. CASE CreateSubKey(r) \/ ResetSecretKey(r)
    <2>1. /\ pc[r] \in {"issue", "reset"} /\ pc'[r] \in {"mark", "sweep", "type", "done"}
          /\ pc'[r] # "done" => snap' = [snap EXCEPT ![r].key = r]
      BY <1>8 DEF CreateSubKey, ResetSecretKey, Goto, Ready
    <2> QED
      BY <1>5, <2>1 DEF Ready
  <1>9. CASE UpdateType(r)
    BY <1>5, <1>9 DEF UpdateType, Goto, Ready
  <1>10. CASE CreateAgent(r)
    <2>1. OwnerEver(r) = job[r].user
      BY AgentsAssumption DEF OwnerEver
    <2>2. \E x : snap'[r] = [type |-> x, agent |-> r, key |-> r]
      BY <1>10 DEF CreateAgent, Keep, Ready
    <2> QED
      BY <2>1, <2>2
  <1>11. ASSUME pc'[r] \notin Onward
         PROVE  /\ pc'[r] \in Onward => /\ DOMAIN snap'[r] = {"type", "agent", "key"}
                                        /\ OwnerEver(snap'[r].agent) = job[r].user
                /\ pc'[r] \in WithKey => snap'[r].key = r
    BY <1>11
  <1>12. CASE CompleteRead(r) \/ MarkScanned(r) \/ MarkCompleted(r) \/ AgentFails(r)
    <2>1. pc'[r] \in {"create", "owner", "done"}
      BY <1>12 DEF CompleteRead, MarkScanned, MarkCompleted, AgentFails, Goto, Ready
    <2> QED
      BY <1>11, <2>1
  <1>13. CASE CreateTicket(r) \/ ScanRead(r) \/ PollRead(r) \/ Update(r)
    BY <1>4, <1>13 DEF CreateTicket, ScanRead, PollRead, Update, Is, StageInv, Completing
  <1>14. CASE NameRead(r) \/ ConsumeSecretKey(r) \/ Delete(r) \/ RevokeAllForAgent(r)
    <2>1. pc'[r] \in {"take", "done"}
      BY <1>14 DEF NameRead, ConsumeSecretKey, Delete, RevokeAllForAgent, Goto, Ready
    <2> QED
      BY <1>11, <2>1
  <1>15. CASE ListByAgent(r) \/ Revoke(r)
    <2>1. pc'[r] \in {"revoke", "done"}
      BY <1>15 DEF ListByAgent, Revoke, Goto, Ready
    <2> QED
      BY <1>11, <2>1
  <1> QED
    BY <1>6, <1>7, <1>8, <1>9, <1>10, <1>12, <1>13, <1>14, <1>15 DEF AgentStep

LEMMA StepsKeepBorn ==
    ASSUME Ready, NEW r \in Requests, AgentStep(r)
    PROVE  /\ job' = job /\ Born \subseteq Born' /\ (\A a : OwnerEver(a)' = OwnerEver(a))
           /\ Holders' \subseteq Holders \cup {r}
           /\ pc'[r] = "done" => Holders' \subseteq Holders \ {r}
  <1>1. Moves(r, AgentStages, AgentStages \cup {"find"})
    BY AgentMoves
  <1> QED
    BY <1>1 DEF Moves, Born, Holders, OwnerEver, AgentStages, Completing

LEMMA LeavingKeepsClaims ==
    ASSUME Ready, ClaimInv, NEW r \in Requests, AgentStep(r), LeavesTickets(r)
    PROVE  ClaimInv'
  <1>1. /\ job' = job /\ Born \subseteq Born' /\ (\A a : OwnerEver(a)' = OwnerEver(a))
        /\ tickets' = tickets /\ given' = given /\ muddled' = muddled /\ Holders' \subseteq Holders
    BY StepsKeepBorn DEF LeavesTickets
  <1>2. BornInv'
    BY <1>1 DEF ClaimInv, BornInv
  <1>3. HolderInv'
    BY <1>1 DEF ClaimInv, HolderInv
  <1>4. SecretInv'
    BY <1>1 DEF ClaimInv, SecretInv
  <1>5. GivenInv'
    BY <1>1 DEF ClaimInv, GivenInv, CredentialOnce, HandedToItsUser
  <1> QED
    BY <1>2, <1>3, <1>4, <1>5 DEF ClaimInv

\* A handler takes hold of a ticket: alone, or the ticket is muddled from now on.
LEMMA JoiningKeepsClaims ==
    ASSUME Ready, ClaimInv, NEW r \in Requests, AgentStep(r), Meets(r), UNCHANGED <<tickets, given>>,
           job[r].about \in DOMAIN tickets,
           \/ job[r].op = "scan" /\ tickets[job[r].about].status = "pending"
           \/ /\ job[r].op \in Completing /\ tickets[job[r].about].status = "scanned"
              /\ tickets[job[r].about].user = job[r].user
    PROVE  ClaimInv'
  <1> DEFINE t == job[r].about
  <1>1. /\ job' = job /\ Born \subseteq Born' /\ (\A a : OwnerEver(a)' = OwnerEver(a))
        /\ Holders' \subseteq Holders \cup {r}
    BY StepsKeepBorn
  <1>2. Holding(t) = {o \in Holders : job[o].about = t}
    BY DEF Holding, Holders, Is
  <1>3. muddled \subseteq muddled' /\ (t \notin muddled' => \A o \in Holders : job[o].about # t)
    BY <1>2 DEF Meets
  <1>4. BornInv'
    BY <1>1 DEF ClaimInv, BornInv
  <1>5. ASSUME NEW o \in Holders', job[o].about \notin muddled'
        PROVE  /\ \A p \in Holders' : job[p].about = job[o].about => p = o
               /\ job[o].about \in DOMAIN tickets =>
                     \/ job[o].op = "scan" /\ tickets[job[o].about].status = "pending"
                     \/ /\ job[o].op \in Completing /\ tickets[job[o].about].status = "scanned"
                        /\ tickets[job[o].about].user = job[o].user
    <2>1. CASE job[o].about = t
      <3>1. \A p \in Holders' : job[p].about = t => p = r
        BY <1>1, <1>3, <1>5, <2>1
      <3> QED
        BY <1>5, <2>1, <3>1
    <2>2. CASE job[o].about # t
      <3>1. o \in Holders /\ \A p \in Holders' : job[p].about = job[o].about => p \in Holders
        BY <1>1, <1>5, <2>2
      <3> QED
        BY <1>3, <1>5, <3>1 DEF ClaimInv, HolderInv
    <2> QED
      BY <2>1, <2>2
  <1>6. HolderInv'
    BY <1>1, <1>5 DEF HolderInv
  <1>7. SecretInv'
    BY <1>1, <1>3 DEF ClaimInv, SecretInv
  <1>8. GivenInv'
    BY <1>1, <1>3 DEF ClaimInv, GivenInv, CredentialOnce, HandedToItsUser
  <1> QED
    BY <1>4, <1>6, <1>7, <1>8 DEF ClaimInv

LEMMA CreatingKeepsClaims ==
    ASSUME Ready, ClaimInv, NEW r \in Requests, AgentStep(r), CreateTicket(r)
    PROVE  ClaimInv'
  <1>1. /\ job' = job /\ Born \subseteq Born' /\ (\A a : OwnerEver(a)' = OwnerEver(a))
    BY StepsKeepBorn
  <1>2. /\ DOMAIN tickets' = DOMAIN tickets \cup {r} /\ given' = given /\ muddled' = muddled
        /\ \A t \in DOMAIN tickets \ {r} : tickets'[t] = tickets[t]
        /\ DOMAIN tickets'[r] = TicketFields /\ tickets'[r].secret = Nothing
    BY DEF CreateTicket, With, NewTicket, TicketFields
  <1>3. r \notin Born /\ r \in Born' /\ Holders' \subseteq Holders
    BY StepsKeepBorn DEF CreateTicket, Is, Goto, Ready, Born
  <1>4. BornInv'
    BY <1>1, <1>2, <1>3 DEF ClaimInv, BornInv
  <1>5. \A o \in Holders : job[o].about # r /\ (job[o].about \in DOMAIN tickets' => job[o].about \in DOMAIN tickets)
    BY <1>2, <1>3 DEF ClaimInv, BornInv
  <1>6. HolderInv'
    BY <1>1, <1>2, <1>3, <1>5 DEF ClaimInv, HolderInv
  <1>7. SecretInv'
    BY <1>1, <1>2 DEF ClaimInv, SecretInv
  <1>8. \A g \in given : g.ticket # r /\ (g.ticket \in DOMAIN tickets' => g.ticket \in DOMAIN tickets)
    BY <1>2, <1>3 DEF ClaimInv, BornInv
  <1>9. GivenInv'
    BY <1>1, <1>2, <1>8 DEF ClaimInv, GivenInv, CredentialOnce, HandedToItsUser
  <1> QED
    BY <1>4, <1>6, <1>7, <1>9 DEF ClaimInv

\* The holder writes the ticket and lets it go.
LEMMA MarkingKeepsClaims ==
    ASSUME Ready, StageInv, OwnInv, ClaimInv, NEW r \in Requests, AgentStep(r),
           MarkScanned(r) \/ MarkCompleted(r)
    PROVE  ClaimInv'
  <1> DEFINE t == job[r].about
  <1>1. /\ job' = job /\ Born \subseteq Born' /\ (\A a : OwnerEver(a)' = OwnerEver(a))
        /\ Holders' \subseteq Holders \ {r} /\ given' = given /\ muddled' = muddled
    BY StepsKeepBorn DEF MarkScanned, MarkCompleted, Goto, Ready
  <1>2. CASE t \notin DOMAIN tickets
    BY <1>1, <1>2, LeavingKeepsClaims DEF LeavesTickets, MarkScanned, MarkCompleted
  <1>3. CASE t \in DOMAIN tickets
    <2> DEFINE row == tickets'[t]
    <2>1. DOMAIN tickets[t] = TicketFields
      BY <1>3 DEF ClaimInv, BornInv
    <2>2. r \in Holders
      BY DEF MarkScanned, MarkCompleted, StageInv, Holders
    <2>3. /\ DOMAIN tickets' = DOMAIN tickets /\ DOMAIN row = TicketFields
          /\ \A x \in DOMAIN tickets \ {t} : tickets'[x] = tickets[x]
          /\ \/ /\ pc[r] = "claim" /\ row.secret = tickets[t].secret
             \/ /\ pc[r] = "mark" /\ row.secret = snap[r].key /\ row.agent = snap[r].agent
                /\ row.user = tickets[t].user /\ row.status = "completed"
      <3>1. CASE MarkScanned(r)
        <4>1. /\ tickets' = [tickets EXCEPT ![t] = [tickets[t] EXCEPT !.status = "scanned", !.user = job[r].user]]
              /\ pc[r] = "claim"
          BY <1>3, <3>1 DEF MarkScanned
        <4> QED
          BY <1>3, <2>1, <4>1 DEF TicketFields
      <3>2. CASE MarkCompleted(r)
        <4>1. /\ tickets' = [tickets EXCEPT ![t] = [tickets[t] EXCEPT !.status = "completed", !.agent = snap[r].agent,
                                                                 !.secret = snap[r].key, !.action = job[r].op]]
              /\ pc[r] = "mark"
          BY <1>3, <3>2 DEF MarkCompleted
        <4> QED
          BY <1>3, <2>1, <4>1 DEF TicketFields
      <3> QED
        BY <3>1, <3>2
    <2>4. t \notin muddled => /\ \A o \in Holders' : job[o].about # t
                              /\ tickets[t].status # "completed"
                              /\ pc[r] = "claim" => tickets[t].status = "pending"
                              /\ pc[r] = "mark" => tickets[t].user = job[r].user
      BY <1>1, <1>3, <2>2 DEF ClaimInv, HolderInv, StageInv, Completing
    <2>5. t \notin muddled => tickets[t].secret = Nothing /\ \A g \in given : g.ticket # t
      BY <1>3, <2>4 DEF ClaimInv, SecretInv, GivenInv
    <2>6. pc[r] = "mark" => snap[r].key = r /\ OwnerEver(snap[r].agent) = job[r].user
      BY DEF OwnInv, StageInv
    <2> HIDE DEF t, row
    <2>7. BornInv'
      <3>1. \A x \in DOMAIN tickets' : x \in Born' /\ DOMAIN tickets'[x] = TicketFields
        BY <1>1, <2>3 DEF ClaimInv, BornInv, row
      <3> QED
        BY <1>1, <3>1 DEF ClaimInv, BornInv
    <2>8. HolderInv'
      BY <1>1, <2>3, <2>4 DEF ClaimInv, HolderInv
    <2>9. ASSUME NEW x \in DOMAIN tickets' \ muddled', tickets'[x].secret # Nothing
          PROVE  /\ tickets'[x].status = "completed" /\ \A g \in given' : g.ticket # x
                 /\ job'[tickets'[x].secret].user = tickets'[x].user
                 /\ OwnerEver(tickets'[x].agent) = tickets'[x].user
      <3>1. CASE x = t
        BY <1>1, <2>3, <2>4, <2>5, <2>6, <2>9, <3>1 DEF row
      <3>2. CASE x # t
        BY <1>1, <2>3, <2>9, <3>2 DEF ClaimInv, SecretInv
      <3> QED
        BY <3>1, <3>2
    <2>10. SecretInv'
      BY <1>1, <2>9 DEF SecretInv, OwnerEver
    <2>11. GivenInv'
      BY <1>1, <2>3, <2>5 DEF ClaimInv, GivenInv, CredentialOnce, HandedToItsUser
    <2> QED
      BY <2>7, <2>8, <2>10, <2>11 DEF ClaimInv
  <1> QED
    BY <1>2, <1>3

LEMMA ConsumingKeepsClaims ==
    ASSUME Ready, ClaimInv, NEW r \in Requests, AgentStep(r), ConsumeSecretKey(r)
    PROVE  ClaimInv'
  <1> DEFINE t == job[r].about
             g == [ticket |-> t, key |-> SecretNow(r), by |-> r,
                   agent |-> tickets[t].agent, user |-> tickets[t].user]
  <1>1. /\ job' = job /\ Born \subseteq Born' /\ (\A a : OwnerEver(a)' = OwnerEver(a))
        /\ Holders' \subseteq Holders /\ muddled' = muddled
    BY StepsKeepBorn DEF ConsumeSecretKey, Goto, Ready
  <1>2. CASE ~(SecretNow(r) # Nothing /\ t \in DOMAIN tickets)
    <2>1. UNCHANGED <<given, tickets>>
      BY <1>2 DEF ConsumeSecretKey
    <2> QED
      BY <1>1, <2>1, LeavingKeepsClaims DEF LeavesTickets
  <1>3. CASE SecretNow(r) # Nothing /\ t \in DOMAIN tickets
    <2>1. /\ DOMAIN tickets[t] = TicketFields /\ t \in Born
          /\ tickets[t].secret # Nothing /\ SecretNow(r) = tickets[t].secret
      BY <1>3 DEF ClaimInv, BornInv, SecretNow
    <2>2. /\ tickets' = [tickets EXCEPT ![t] = [tickets[t] EXCEPT !.secret = Nothing]]
          /\ given' = given \cup {g}
      BY <1>3 DEF ConsumeSecretKey
    <2>3. /\ g.ticket = t /\ g.key = tickets[t].secret /\ g.agent = tickets[t].agent
          /\ g.user = tickets[t].user
      BY <2>1
    <2> HIDE DEF g
    <2>4. /\ DOMAIN tickets' = DOMAIN tickets /\ DOMAIN tickets'[t] = TicketFields
          /\ tickets'[t].secret = Nothing /\ tickets'[t].status = tickets[t].status
          /\ tickets'[t].user = tickets[t].user
          /\ \A x \in DOMAIN tickets \ {t} : tickets'[x] = tickets[x]
      BY <1>3, <2>1, <2>2 DEF TicketFields
    <2> HIDE DEF t
    <2>5. t \notin muddled => /\ tickets[t].status = "completed" /\ \A h \in given : h.ticket # t
                              /\ job[g.key].user = g.user /\ OwnerEver(g.agent) = g.user
      BY <1>3, <2>1, <2>3 DEF ClaimInv, SecretInv
    <2>6. BornInv'
      BY <1>1, <2>1, <2>2, <2>3, <2>4 DEF ClaimInv, BornInv
    <2>7. HolderInv'
      BY <1>1, <2>4 DEF ClaimInv, HolderInv
    <2>8. \A h \in given' : h = g \/ h \in given
      BY <2>2
    <2>9. ASSUME NEW x \in DOMAIN tickets' \ muddled', tickets'[x].secret # Nothing
          PROVE  /\ tickets'[x].status = "completed" /\ \A h \in given' : h.ticket # x
                 /\ job'[tickets'[x].secret].user = tickets'[x].user
                 /\ OwnerEver(tickets'[x].agent) = tickets'[x].user
      <3>1. x # t
        BY <2>4, <2>9
      <3> QED
        BY <1>1, <2>3, <2>4, <2>8, <2>9, <3>1 DEF ClaimInv, SecretInv
    <2>10. SecretInv'
      BY <1>1, <2>9 DEF SecretInv, OwnerEver
    <2>11. \A h \in given' : h.ticket \in DOMAIN tickets' \ muddled' =>
              tickets'[h.ticket].status = "completed" /\ tickets'[h.ticket].secret = Nothing
      BY <1>1, <2>3, <2>4, <2>5, <2>8 DEF ClaimInv, GivenInv
    <2>12. CredentialOnce'
      BY <1>1, <2>3, <2>5, <2>8 DEF ClaimInv, GivenInv, CredentialOnce
    <2>13. \A h \in given' : h.ticket \notin muddled' =>
              job'[h.key].user = h.user /\ OwnerEver(h.agent) = h.user
      BY <1>1, <2>3, <2>5, <2>8 DEF ClaimInv, GivenInv, HandedToItsUser
    <2>14. HandedToItsUser'
      BY <1>1, <2>13 DEF HandedToItsUser, OwnerEver
    <2> QED
      BY <2>6, <2>7, <2>10, <2>11, <2>12, <2>14 DEF ClaimInv, GivenInv
  <1> QED
    BY <1>2, <1>3

LEMMA AgentStepKeepsClaims ==
    ASSUME Ready, StageInv, OwnInv, ClaimInv, NEW r \in Requests, AgentStep(r) PROVE ClaimInv'
  <1>1. CASE Scans(r)
    <2>1. Usable(job[r].about) /\ tickets[job[r].about].status = "pending" /\ Meets(r)
      BY <1>1 DEF Scans, ScanRead, Goto, Ready
    <2> QED
      BY <1>1, <2>1, JoiningKeepsClaims DEF Scans, ScanRead, Is, Usable
  <1>2. CASE Begins(r)
    <2>1. Completes(r, job[r].about) /\ Meets(r)
      BY <1>2 DEF Begins, CompleteRead, Goto, Ready
    <2> QED
      BY <1>2, <2>1, JoiningKeepsClaims DEF Begins, CompleteRead, Completes, Usable
  <1> QED
    BY <1>1, <1>2, AgentStepKinds, CreatingKeepsClaims, MarkingKeepsClaims, ConsumingKeepsClaims,
       LeavingKeepsClaims

LEMMA TicketsInvNext == Ready /\ KeysInv /\ TicketsInv /\ [Next]_backendVars => TicketsInv'
  <1> SUFFICES ASSUME Ready, KeysInv, TicketsInv, [Next]_backendVars PROVE TicketsInv'
    OBVIOUS
  <1>1. ASSUME NEW r \in Requests, AgentStep(r) PROVE TicketsInv'
    BY <1>1, AgentStepKeepsStages, AgentStepKeepsOwn, AgentStepKeepsClaims DEF TicketsInv
  <1> QED
    BY <1>1, OthersKeepTickets

LEMMA TicketsSafe == Spec => []TicketsInv
  BY ReadyInit, ReadyNext, KeysInvInit, KeysInvNext, TicketsInvInit, TicketsInvNext, PTL DEF Spec

(* A ticket's credential is handed out once, however many polls, scans and completions    *)
(* there are, unless two of the latter held the ticket at once (ConsumeSecretKey).        *)
THEOREM CredentialHandedOnce == Spec => []CredentialOnce
  <1>1. TicketsInv => CredentialOnce
    BY DEF TicketsInv, ClaimInv, GivenInv
  <1> QED
    BY <1>1, TicketsSafe, PTL

(* The credential handed out is one that the user who scanned the ticket made, for an     *)
(* agent of their own, with the same exception (CompleteTicket).                          *)
THEOREM CredentialHandedToItsUser == Spec => []HandedToItsUser
  <1>1. TicketsInv => HandedToItsUser
    BY DEF TicketsInv, ClaimInv, GivenInv
  <1> QED
    BY <1>1, TicketsSafe, PTL
=============================================================================
