---------------------------- MODULE BackendProofs ----------------------------
(***************************************************************************)
(* Theorems about Backend, for any requests, users, packages and agents    *)
(* and any failures and restarts.  First, which handler is ever where: a   *)
(* step moves one request along the stages of its own component and leaves *)
(* the others where they are, with what they have read.  With that, the    *)
(* invariants of a component only meet the steps of that component.        *)
(***************************************************************************)
EXTENDS Backend, FiniteSetTheorems, TLAPS

PackageStages == {"icon", "write", "status", "key", "generate", "sign", "download"}
DataStages == {"get", "lock", "sum", "save", "look", "drop", "page", "more"}
FriendStages == {"insert", "tell"}
AgentStages == {"claim", "owner", "create", "count", "issue", "reset", "type", "mark", "name",
                "take", "edit", "unmake", "sweep", "strike", "revoke"}
RoomStages == {"find", "make", "announce", "send", "answer", "call", "late", "commit",
               "attach", "change", "target", "remove", "destroy"}
SessionStages == {"enrol", "version", "store", "renew", "rehash", "compare", "role", "rotate",
                  "stamp", "self", "password", "bump", "black", "forget"}

\* What every component relies on: the shape of the handlers' state, that only a completion
\* that names an agent checks the agent's owner on its way, and that a request whose token
\* is checked is of a kind that goes on afterwards.
Ready ==
    /\ DOMAIN pc = Requests /\ DOMAIN snap = Requests
    /\ \A r \in Requests : /\ pc[r] = "owner" => job[r].op \in {"bind", "authorize"}
                           /\ pc[r] = "stamp" => job[r].op \in Gated

\* Request r goes from a stage in From to one in To; the others stay as they are.
Moves(r, From, To) ==
    /\ job' = job
    /\ DOMAIN pc' = Requests /\ DOMAIN snap' = Requests
    /\ pc[r] \in From \cup {"new"} /\ pc'[r] \in To \cup {"done"}
    /\ \A o \in Requests \ {r} : pc'[o] = pc[o] /\ snap'[o] = snap[o]

\* A step leaves the handlers at the stages S, and those that have not begun, alone.
Spares(S) ==
    /\ job' = job
    /\ DOMAIN pc' = Requests /\ DOMAIN snap' = Requests
    /\ \A o \in Requests :
          /\ pc'[o] \in S \cup {"new"} => pc'[o] = pc[o] /\ snap'[o] = snap[o]
          /\ pc[o] = "done" => pc'[o] = "done"

LEMMA MovesSpare ==
    ASSUME NEW r \in Requests, NEW From, NEW To, NEW S, Moves(r, From, To),
           S \cap To = {}, "done" \notin S, "done" \notin From, "new" \notin To
    PROVE  Spares(S)
  BY DEF Moves, Spares

LEMMA StaySpares ==
    ASSUME Ready, NEW S, UNCHANGED handlerVars PROVE Spares(S)
  BY DEF Ready, Spares, handlerVars

(* ------------------------------------------------- each component's stages *)
LEMMA PackageMoves ==
    ASSUME Ready, NEW r \in Requests, PackageStep(r)
    PROVE  /\ Moves(r, PackageStages, PackageStages)
           /\ pc[r] = "new" => job[r].op \notin Completing
  <1>1. ASSUME NEW p \in Packages, UploadCheck(r, p) PROVE Moves(r, PackageStages, PackageStages)
                                                /\ (pc[r] = "new" => job[r].op \notin Completing)
    BY <1>1 DEF Ready, Moves, UploadCheck, Is, Goto, Keep, PackageStages, Completing
  <1>2. CASE UploadIcon(r) \/ UploadWrite(r) \/ DeletePrivate(r)
    BY <1>2 DEF Ready, Moves, UploadIcon, UploadWrite, DeletePrivate, Is, Goto, PackageStages, Completing
  <1>3. CASE StatusRead(r) \/ StatusWrite(r)
    BY <1>3 DEF Ready, Moves, StatusRead, StatusWrite, Goto, Keep, PackageStages, Completing
  <1>4. CASE KeyRead(r) \/ KeyInsert(r) \/ SignWrite(r)
    BY <1>4 DEF Ready, Moves, KeyRead, KeyInsert, SignWrite, Is, Goto, PackageStages, Completing
  <1>5. CASE ListItem(r) \/ Install(r) \/ Fail(r)
    BY <1>5 DEF Ready, Moves, ListItem, Install, Fail, Is, Goto, Keep, PackageStages, Completing
  <1> QED
    BY <1>1, <1>2, <1>3, <1>4, <1>5 DEF PackageStep

LEMMA DataMoves ==
    ASSUME Ready, NEW r \in Requests, DataStep(r)
    PROVE  /\ Moves(r, DataStages, DataStages)
           /\ pc[r] = "new" => job[r].op \notin Completing
           /\ UNCHANGED otherPackageVars
  <1>1. ASSUME NEW how, End(r, how), job' = job, pc[r] \in DataStages
        PROVE  Moves(r, DataStages, DataStages)
    BY <1>1 DEF Ready, Moves, End, Goto, DataStages
  <1>2. ASSUME NEW first \in {"get", "lock", "look", "page"}, NEW c, NEW k, NEW size, NEW basis,
               Admit(r, first, c, k, size, basis)
        PROVE  Moves(r, DataStages, DataStages) /\ UNCHANGED otherPackageVars
    BY <1>2 DEF Ready, Moves, Admit, Goto, DataStages, otherPackageVars
  <1>3. CASE GetEntry(r) \/ PutEntry(r) \/ DeleteEntry(r) \/ ListEntries(r)
    BY <1>3, <1>2 DEF GetEntry, PutEntry, DeleteEntry, ListEntries, Completing
  <1>4. CASE Lock(r)
    BY <1>4, <1>1 DEF Ready, Moves, Lock, Goto, DataStages, otherPackageVars
  <1>5. CASE Sum(r)
    BY <1>5, <1>1 DEF Ready, Moves, Sum, Goto, DataStages, otherPackageVars
  <1>6. CASE Save(r)
    BY <1>6, <1>1 DEF Save, Stores, DataStages, otherPackageVars
  <1>7. CASE Look(r)
    BY <1>7, <1>1 DEF Ready, Moves, Look, Goto, DataStages, otherPackageVars
  <1>8. CASE Drop(r) \/ Get(r) \/ Abort(r)
    BY <1>8, <1>1 DEF Drop, Get, Abort, DataStages, otherPackageVars
  <1>9. CASE Page(r) \/ NextPage(r)
    BY <1>9, <1>1 DEF Ready, Moves, Page, NextPage, Goto, DataStages, otherPackageVars
  <1> QED
    BY <1>3, <1>4, <1>5, <1>6, <1>7, <1>8, <1>9 DEF DataStep

LEMMA FriendMoves ==
    ASSUME Ready, NEW r \in Requests, FriendStep(r)
    PROVE  /\ Moves(r, FriendStages, FriendStages)
           /\ pc[r] = "new" => job[r].op \notin Completing
           /\ pc'[r] = "insert" => pc[r] = "new"
  <1>1. CASE FriendLook(r) \/ FriendInsert(r) \/ Advance(r)
    BY <1>1 DEF Ready, Moves, FriendLook, FriendInsert, Advance, Is, Goto, FriendStages, Decisions, Completing
  <1>2. CASE Unfriend(r) \/ Tell(r) \/ FriendFails(r)
    BY <1>2 DEF Ready, Moves, Unfriend, Tell, FriendFails, Is, Goto, FriendStages, Completing
  <1> QED
    BY <1>1, <1>2 DEF FriendStep

\* A new agent's chat with its owner is made by the steps of conversations.
LEMMA AgentMoves ==
    ASSUME Ready, NEW r \in Requests, AgentStep(r)
    PROVE  Moves(r, AgentStages, AgentStages \cup {"find"})
  <1>1. CASE CreateTicket(r) \/ ScanRead(r) \/ MarkScanned(r)
    BY <1>1 DEF Ready, Moves, CreateTicket, ScanRead, MarkScanned, Is, Goto, AgentStages
  <1>2. CASE CompleteRead(r) \/ CountActive(r) \/ CreateSubKey(r)
    BY <1>2 DEF Ready, Moves, CompleteRead, CountActive, CreateSubKey, Goto, Keep, AgentStages
  <1>3. CASE OwnerRead(r)
    BY <1>3 DEF Ready, Moves, OwnerRead, Goto, Keep, AgentStages
  <1>4. CASE ResetSecretKey(r) \/ UpdateType(r) \/ CreateAgent(r) \/ MarkCompleted(r)
    BY <1>4 DEF Ready, Moves, ResetSecretKey, UpdateType, CreateAgent, MarkCompleted, Is, Goto, Keep, AgentStages
  <1>5. CASE PollRead(r) \/ NameRead(r) \/ ConsumeSecretKey(r) \/ AgentFails(r)
    BY <1>5 DEF Ready, Moves, PollRead, NameRead, ConsumeSecretKey, AgentFails, Is, Goto, Keep, AgentStages
  <1>6. CASE Update(r) \/ Delete(r) \/ RevokeAllForAgent(r) \/ ListByAgent(r) \/ Revoke(r)
    BY <1>6 DEF Ready, Moves, Update, Delete, RevokeAllForAgent, ListByAgent, Revoke, Goto, AgentStages
  <1> QED
    BY <1>1, <1>2, <1>3, <1>4, <1>5, <1>6 DEF AgentStep

\* The chat of a new agent: its request keeps what it knows of the agent, and comes back
\* to the ticket's steps if it has a ticket.
ChatMade(r) ==
    /\ pc[r] \in {"find", "make"}
    /\ pc'[r] \in {"make", "done"} \/ (pc'[r] = "mark" /\ job[r].op = "adopt")
    /\ snap' = snap

LEMMA RoomMoves ==
    ASSUME Ready, NEW r \in Requests, RoomStep(r)
    PROVE  /\ Moves(r, RoomStages, RoomStages \cup {"mark"})
           /\ pc[r] = "new" => job[r].op \notin Completing
           /\ pc[r] \in {"find", "make"} => ChatMade(r)
           /\ pc[r] \notin {"find", "make"} => pc'[r] \notin {"make", "mark"}
           /\ pc[r] # "new" /\ pc[r] # "find" => pc'[r] # "find"
           /\ pc[r] = "new" /\ pc'[r] = "find" => job[r].op = "dm"
           /\ UNCHANGED roomless
  <1> USE DEF Ready, Moves, ChatMade, Is, Goto, RoomStages, Completing, roomless, peopleVars
  <1>1. CASE DmCheck(r) \/ FindDm(r) \/ MakeDm(r)
    BY <1>1 DEF DmCheck, FindDm, MakeDm, AfterDm
  <1>2. CASE CreateGroup(r) \/ CommitSession(r)
    BY <1>2 DEF CreateGroup, CommitSession, Changes, Keep
  <1>3. CASE SessionCheck(r) \/ CallTimesOut(r)
    BY <1>3 DEF SessionCheck, CallTimesOut, AfterTimeout
  <1>4. CASE AgentCheck(r) \/ CreateAgentSession(r)
    BY <1>4 DEF AgentCheck, CreateAgentSession
  <1>5. CASE \E answered \in BOOLEAN : PluginOpens(r, answered)
    BY <1>5 DEF PluginOpens
  <1>6. CASE CallerCheck(r) \/ PersonalWrite(r)
    BY <1>6 DEF CallerCheck, PersonalWrite
  <1>7. CASE InviteWrite(r) \/ Rename(r)
    BY <1>7 DEF InviteWrite, Rename, Changes, Keep, Refuse
  <1>8. CASE KickCaller(r) \/ KickTarget(r) \/ LeaveRead(r)
    BY <1>8 DEF KickCaller, KickTarget, LeaveRead
  <1>9. CASE RemoveParticipant(r) \/ DestroyConversation(r)
    BY <1>9 DEF RemoveParticipant, DestroyConversation, Changes, Keep
  <1>10. CASE Announce(r) \/ AllSent(r) \/ Answer(r)
    BY <1>10 DEF Announce, AllSent, Answer
  <1>11. CASE RoomFails(r)
    BY <1>11 DEF RoomFails, AfterDm
  <1>12. CASE Refresh(r)
    BY <1>12 DEF Refresh
  <1>13. CASE \E u \in Viewers : Deliver(r, u)
    BY <1>13 DEF Deliver
  <1> QED
    BY <1>1, <1>2, <1>3, <1>4, <1>5, <1>6, <1>7, <1>8, <1>9, <1>10, <1>11, <1>12, <1>13 DEF RoomStep

LEMMA SessionMoves ==
    ASSUME Ready, NEW r \in Requests, SessionStep(r)
    PROVE  /\ Moves(r, SessionStages, SessionStages)
           /\ pc[r] = "new" => job[r].op \notin Completing
  <1> USE DEF Ready, Moves, Is, Goto, Keep, SessionStages, Completing
  <1>1. CASE RegisterRead(r) \/ CreateUser(r) \/ LoginRead(r)
    BY <1>1 DEF RegisterRead, CreateUser, LoginRead
  <1>2. CASE IssueVersion(r) \/ Issue(r) \/ GetRefresh(r)
    BY <1>2 DEF IssueVersion, Issue, GetRefresh
  <1>3. CASE CompareVersion(r) \/ RoleRead(r) \/ SelfRead(r)
    BY <1>3 DEF CompareVersion, RoleRead, SelfRead
  <1>4. CASE UpdatePassword(r) \/ IncrTokenVersion(r) \/ PromoteAdmins(r) \/ SessionFails(r)
    BY <1>4 DEF UpdatePassword, IncrTokenVersion, PromoteAdmins, SessionFails
  <1>5. ASSUME NEW works \in BOOLEAN,
               Rehash(r, works) \/ Rotate(r, works) \/ BlacklistToken(r, works) \/ ForgetRefresh(r, works)
        PROVE  /\ Moves(r, SessionStages, SessionStages)
               /\ pc[r] = "new" => job[r].op \notin Completing
    BY <1>5 DEF Rehash, Rotate, BlacklistToken, ForgetRefresh
  <1>6. ASSUME NEW works \in BOOLEAN, CheckBlack(r, works) \/ CheckVersion(r, works)
        PROVE  /\ Moves(r, SessionStages, SessionStages)
               /\ pc[r] = "new" => job[r].op \notin Completing
    BY <1>6 DEF CheckBlack, CheckVersion, Gated
  <1> HIDE DEF Ready, Moves, Is, Goto, Keep, SessionStages, Completing
  <1> QED
    BY <1>1, <1>2, <1>3, <1>4, <1>5, <1>6 DEF SessionStep

(* --------------------------------------------------------- a step of the whole *)
LoadStep(l) == Recall(l) \/ ListRooms(l) \/ LoadMembers(l) \/ Show(l) \/ Insert(l) \/ LoadFails(l)

LEMMA RestartSpares ==
    ASSUME Ready, ServerRestarts, NEW S, "done" \notin S
    PROVE  Spares(S) /\ UNCHANGED <<roomless, rooms, plugin, sessionVars>>
  BY DEF Ready, Spares, ServerRestarts, MpRestart, Restart

LEMMA LoadsStay ==
    ASSUME NEW l, LoadStep(l) PROVE UNCHANGED <<handlerVars, roomless, rooms, plugin>>
  BY DEF LoadStep, Recall, ListRooms, LoadMembers, Show, Insert, LoadFails, handlerVars

\* Whose step it is, and what it leaves alone.
LEMMA Steps ==
    ASSUME Ready, [Next]_backendVars
    PROVE  \/ \E r \in Requests : PackageStep(r) /\ UNCHANGED <<peopleVars, sessionVars>>
           \/ \E r \in Requests : DataStep(r) /\ UNCHANGED <<packageVars, peopleVars, sessionVars>>
           \/ \E r \in Requests :
                 FriendStep(r) /\ UNCHANGED <<packageVars, agentVars, roomVars, sessionVars>>
           \/ \E r \in Requests :
                 AgentStep(r) /\ UNCHANGED <<packageVars, friendVars, roomVars, sessionVars>>
           \/ \E r \in Requests : RoomStep(r) /\ UNCHANGED <<packageVars, roomless, sessionVars>>
           \/ \E r \in Requests : SessionStep(r) /\ UNCHANGED <<packageVars, peopleVars>>
           \/ TicketsAge /\ UNCHANGED <<packageVars, handlerVars, friendVars, roomVars, sessionVars>>
           \/ UNCHANGED <<packageVars, handlerVars, roomless, rooms, plugin, sessionVars>>
           \/ ServerRestarts
  <1>1. CASE MpNext /\ UNCHANGED <<peopleVars, sessionVars>>
    <2>1. CASE \E r \in Requests : DataStep(r)
      BY <1>1, <2>1, DataMoves DEF otherPackageVars, packageVars
    <2>2. CASE \E r \in Requests : PackageStep(r)
      BY <1>1, <2>2
    <2> QED
      BY <1>1, <2>1, <2>2 DEF MpNext
  <1>2. CASE PeopleNext /\ UNCHANGED <<mpVars, sessionVars>>
    <2>1. ASSUME NEW r \in Requests, FriendStep(r) /\ UNCHANGED <<agentVars, roomVars>>
          PROVE  FriendStep(r) /\ UNCHANGED <<packageVars, agentVars, roomVars, sessionVars>>
      BY <1>2, <2>1 DEF mpVars
    <2>2. ASSUME NEW r \in Requests, AgentStep(r) /\ UNCHANGED <<friendVars, roomVars>>
          PROVE  AgentStep(r) /\ UNCHANGED <<packageVars, friendVars, roomVars, sessionVars>>
      BY <1>2, <2>2 DEF mpVars
    <2>3. ASSUME NEW r \in Requests, RoomStep(r)
          PROVE  RoomStep(r) /\ UNCHANGED <<packageVars, roomless, sessionVars>>
      BY <1>2, <2>3, RoomMoves DEF mpVars
    <2>4. CASE TicketsAge /\ UNCHANGED <<friendVars, roomVars>>
      <3>1. UNCHANGED handlerVars
        BY <2>4 DEF TicketsAge, DeleteExpired, Ages
      <3> QED
        BY <1>2, <2>4, <3>1 DEF mpVars
    <2>5. ASSUME NEW l \in loads, LoadStep(l)
          PROVE  UNCHANGED <<packageVars, handlerVars, roomless, rooms, plugin, sessionVars>>
      BY <1>2, <2>5, LoadsStay DEF mpVars
    <2> QED
      BY <1>2, <2>1, <2>2, <2>3, <2>4, <2>5 DEF PeopleNext, LoadStep
  <1>3. ASSUME NEW r \in Requests, SessionStep(r), UNCHANGED <<mpVars, peopleVars>>
        PROVE  SessionStep(r) /\ UNCHANGED <<packageVars, peopleVars>>
    BY <1>3 DEF mpVars
  <1>4. CASE UNCHANGED backendVars
    BY <1>4 DEF backendVars, mpVars, peopleVars, roomVars, roomless
  <1> QED
    BY <1>1, <1>2, <1>3, <1>4 DEF Next

LEMMA ReadyInit == Init => Ready
  BY DEF Init, HandlersInit, Ready

LEMMA ReadyNext == Ready /\ [Next]_backendVars => Ready'
  <1> SUFFICES ASSUME Ready, [Next]_backendVars PROVE Ready'
    OBVIOUS
  <1>1. ASSUME Spares({"owner", "stamp"}) PROVE Ready'
    BY <1>1 DEF Ready, Spares
  <1>2. ASSUME NEW r \in Requests, AgentStep(r) PROVE Ready'
    <2>1. Moves(r, AgentStages, AgentStages \cup {"find"})
      BY <1>2, AgentMoves
    <2>2. pc'[r] = "owner" => job[r].op \in {"bind", "authorize"}
      <3>1. CASE CompleteRead(r)
        BY <3>1 DEF Ready, CompleteRead, Goto, Completing
      <3>2. ASSUME pc'[r] = "owner", ~CompleteRead(r) PROVE FALSE
        <4> USE DEF Ready, Goto, Keep, Is
        <4>1. CASE CreateTicket(r) \/ ScanRead(r) \/ MarkScanned(r) \/ CountActive(r) \/ CreateSubKey(r)
          BY <3>2, <4>1 DEF CreateTicket, ScanRead, MarkScanned, CountActive, CreateSubKey
        <4>2. CASE OwnerRead(r)
          BY <3>2, <4>2 DEF OwnerRead
        <4>3. CASE ResetSecretKey(r) \/ UpdateType(r) \/ CreateAgent(r) \/ MarkCompleted(r)
          BY <3>2, <4>3 DEF ResetSecretKey, UpdateType, CreateAgent, MarkCompleted
        <4>4. CASE PollRead(r) \/ NameRead(r) \/ ConsumeSecretKey(r) \/ AgentFails(r)
          BY <3>2, <4>4 DEF PollRead, NameRead, ConsumeSecretKey, AgentFails
        <4>5. CASE Update(r) \/ Delete(r) \/ RevokeAllForAgent(r) \/ ListByAgent(r) \/ Revoke(r)
          BY <3>2, <4>5 DEF Update, Delete, RevokeAllForAgent, ListByAgent, Revoke
        <4> HIDE DEF Ready, Goto, Keep, Is
        <4> QED
          BY <1>2, <3>2, <4>1, <4>2, <4>3, <4>4, <4>5 DEF AgentStep
      <3> QED
        BY <3>1, <3>2
    <2> QED
      BY <2>1, <2>2 DEF Ready, Moves, AgentStages
  <1>3. ASSUME NEW r \in Requests, SessionStep(r) PROVE Ready'
    <2>1. Moves(r, SessionStages, SessionStages)
      BY <1>3, SessionMoves
    <2>2. pc'[r] = "stamp" => job[r].op \in Gated
      <3> USE DEF Ready, Goto, Keep, Is
      <3>1. CASE RegisterRead(r) \/ CreateUser(r) \/ LoginRead(r) \/ IssueVersion(r) \/ Issue(r) \/ GetRefresh(r)
        BY <3>1 DEF RegisterRead, CreateUser, LoginRead, IssueVersion, Issue, GetRefresh
      <3>2. CASE CompareVersion(r) \/ RoleRead(r) \/ SelfRead(r) \/ UpdatePassword(r) \/ IncrTokenVersion(r)
                   \/ PromoteAdmins(r) \/ SessionFails(r)
        BY <3>2 DEF CompareVersion, RoleRead, SelfRead, UpdatePassword, IncrTokenVersion, PromoteAdmins, SessionFails
      <3>3. ASSUME NEW works \in BOOLEAN,
                   Rehash(r, works) \/ Rotate(r, works) \/ BlacklistToken(r, works) \/ ForgetRefresh(r, works)
            PROVE  pc'[r] # "stamp"
        BY <3>3 DEF Rehash, Rotate, BlacklistToken, ForgetRefresh
      <3>4. ASSUME NEW works \in BOOLEAN, CheckBlack(r, works) PROVE job[r].op \in Gated
        BY <3>4 DEF CheckBlack
      <3>5. ASSUME NEW works \in BOOLEAN, CheckVersion(r, works) PROVE job[r].op \in Gated
        BY <3>5 DEF CheckVersion
      <3> HIDE DEF Ready, Goto, Keep, Is
      <3> QED
        BY <1>3, <3>1, <3>2, <3>3, <3>4, <3>5 DEF SessionStep
    <2> QED
      BY <2>1, <2>2 DEF Ready, Moves, SessionStages
  <1>4. ASSUME NEW r \in Requests, PackageStep(r) \/ DataStep(r) \/ FriendStep(r) PROVE Ready'
    BY <1>1, <1>4, PackageMoves, DataMoves, FriendMoves, MovesSpare
       DEF PackageStages, DataStages, FriendStages
  <1>5. ASSUME NEW r \in Requests, RoomStep(r) PROVE Ready'
    BY <1>1, <1>5, RoomMoves, MovesSpare DEF RoomStages
  <1>6. CASE UNCHANGED handlerVars
    BY <1>6 DEF Ready, handlerVars
  <1>7. CASE ServerRestarts
    BY <1>1, <1>7, RestartSpares
  <1> QED
    BY <1>2, <1>3, <1>4, <1>5, <1>6, <1>7, Steps

THEOREM HandlersReady == Spec => []Ready
  BY ReadyInit, ReadyNext, PTL DEF Spec

(***************************************************************************)
(* The packages of a mini program.                                         *)
(***************************************************************************)
LEMMA OthersSparePackages ==
    ASSUME Ready, [Next]_backendVars, ~ServerRestarts, \A r \in Requests : ~PackageStep(r)
    PROVE  Spares(PackageStages) /\ UNCHANGED packageVars
  <1>1. ASSUME NEW r \in Requests, DataStep(r) PROVE Spares(PackageStages)
    BY <1>1, DataMoves, MovesSpare DEF PackageStages, DataStages
  <1>2. ASSUME NEW r \in Requests, FriendStep(r) PROVE Spares(PackageStages)
    BY <1>2, FriendMoves, MovesSpare DEF PackageStages, FriendStages
  <1>3. ASSUME NEW r \in Requests, AgentStep(r) PROVE Spares(PackageStages)
    BY <1>3, AgentMoves, MovesSpare DEF PackageStages, AgentStages
  <1>4. ASSUME NEW r \in Requests, RoomStep(r) PROVE Spares(PackageStages)
    BY <1>4, RoomMoves, MovesSpare DEF PackageStages, RoomStages
  <1>5. ASSUME NEW r \in Requests, SessionStep(r) PROVE Spares(PackageStages)
    BY <1>5, SessionMoves, MovesSpare DEF PackageStages, SessionStages
  <1> QED
    BY <1>1, <1>2, <1>3, <1>4, <1>5, StaySpares, Steps

ProgramFields == {"id", "owner", "pkg", "file", "status", "sig"}

\* Who is about to sign holds the stored pair, and there is one once anybody holds it.
KeyInv ==
    /\ DOMAIN held = Requests
    /\ program # Nothing => DOMAIN program = ProgramFields
    /\ \A r \in Requests : held[r] # Nothing => held[r] = key
    /\ \A r \in Requests : pc[r] = "sign" => held[r] = key /\ key # Nothing
    /\ program # Nothing /\ program.sig # Nothing => program.sig.key = key /\ key # Nothing

\* An administrator who is about to write a status has read a package that was reviewed.
ReviewInv ==
    ~overtaken => /\ \A r \in Requests : pc[r] = "status" => snap[r].file \in reviewed
                  /\ SignatureIsOfPackage
                  /\ program # Nothing /\ program.status # "private" => program.file \in reviewed

PackageInv == KeyInv /\ ReviewInv

LEMMA PackageInvInit == Init => PackageInv
  BY StartsAssumption, NothingAssumption
     DEF Init, HandlersInit, MpInit, PackagesInit, PackageInv, KeyInv, ReviewInv,
         SignatureIsOfPackage, ProgramFields

LEMMA PackageStepKeepsInv ==
    ASSUME Ready, PackageInv, NEW r \in Requests, PackageStep(r) PROVE PackageInv'
  <1> USE DEF Ready, PackageInv, KeyInv, ReviewInv, SignatureIsOfPackage, Is, Goto, Keep, ProgramFields
  <1>1. ASSUME NEW p \in Packages, UploadCheck(r, p) PROVE PackageInv'
    BY <1>1 DEF UploadCheck
  <1>2. CASE UploadIcon(r)
    BY <1>2 DEF UploadIcon
  <1>3. CASE UploadWrite(r)
    <2>1. CASE program' = NewProgram(r)
      BY <1>3, <2>1 DEF UploadWrite, NewProgram
    <2>2. CASE program # Nothing /\ program' = ReplaceVersion(r)
      <3>1. /\ DOMAIN program' = ProgramFields
            /\ program'.sig = Nothing /\ program'.status = "private"
        BY <2>2 DEF ReplaceVersion
      <3> QED
        BY <1>3, <3>1 DEF UploadWrite
    <2>3. CASE UNCHANGED program
      BY <1>3, <2>3 DEF UploadWrite
    <2> QED
      BY <1>3, <2>1, <2>2, <2>3 DEF UploadWrite, StillThere
  <1>4. CASE DeletePrivate(r)
    BY <1>4 DEF DeletePrivate
  <1>5. CASE StatusRead(r)
    BY <1>5 DEF StatusRead, Transition
  <1>6. CASE StatusWrite(r)
    BY <1>6 DEF StatusWrite, Overtakes, StillThere
  <1>7. CASE KeyRead(r)
    BY <1>7 DEF KeyRead
  <1>8. CASE KeyInsert(r)
    BY <1>8, NothingAssumption DEF KeyInsert, StoredKey
  <1>9. CASE SignWrite(r)
    <2> DEFINE sig == [file |-> snap[r].file, key |-> held[r]]
    <2>1. held[r] = key /\ key # Nothing /\ sig.file = snap[r].file /\ sig.key = held[r]
      BY <1>9 DEF SignWrite
    <2>2. program' = [program EXCEPT !.sig = sig] \/ program' = program
      BY <1>9 DEF SignWrite
    <2>3. KeyInv'
      <3> HIDE DEF sig
      <3> QED
        BY <1>9, <2>1, <2>2 DEF SignWrite, StillThere
    <2>4. ReviewInv'
      <3> SUFFICES ASSUME ~overtaken'
                   PROVE  /\ \A o \in Requests : pc'[o] = "status" => snap'[o].file \in reviewed'
                          /\ SignatureIsOfPackage'
                          /\ program' # Nothing /\ program'.status # "private" => program'.file \in reviewed'
        OBVIOUS
      <3>1. ~overtaken /\ ~Overtakes(r)
        BY <1>9 DEF SignWrite
      <3>2. CASE program' = program
        BY <1>9, <3>1, <3>2 DEF SignWrite
      <3>3. CASE StillThere(r) /\ program' = [program EXCEPT !.sig = sig]
        <4>1. program'.file = program.file /\ program'.status = program.status /\ program'.sig = sig
          BY <3>3 DEF StillThere
        <4>2. program.file = snap[r].file
          BY <3>1, <3>3 DEF Overtakes
        <4> QED
          BY <1>9, <2>1, <3>1, <3>3, <4>1, <4>2 DEF SignWrite, StillThere
      <3> QED
        BY <1>9, <3>2, <3>3 DEF SignWrite
    <2> QED
      BY <2>3, <2>4
  <1>10. CASE ListItem(r) \/ Install(r) \/ Fail(r)
    BY <1>10 DEF ListItem, Install, Fail
  <1> HIDE DEF Ready, PackageInv
  <1> QED
    BY <1>1, <1>2, <1>3, <1>4, <1>5, <1>6, <1>7, <1>8, <1>9, <1>10 DEF PackageStep

LEMMA RestartKeepsPackageInv == ASSUME Ready, PackageInv, ServerRestarts PROVE PackageInv'
  <1>1. PICK r \in Requests, signed \in BOOLEAN : Restart(r, signed)
    BY DEF ServerRestarts, MpRestart
  <1>2. KeyInv'
    BY <1>1, NothingAssumption DEF Ready, PackageInv, KeyInv, Restart, Backfilled, ProgramFields
  <1>3. ReviewInv'
    BY <1>1 DEF Ready, PackageInv, KeyInv, ReviewInv, SignatureIsOfPackage, Restart, Backfilled, ProgramFields
  <1> QED
    BY <1>2, <1>3 DEF PackageInv

LEMMA PackageInvNext == Ready /\ PackageInv /\ [Next]_backendVars => PackageInv'
  <1> SUFFICES ASSUME Ready, PackageInv, [Next]_backendVars PROVE PackageInv'
    OBVIOUS
  <1>1. ASSUME Spares(PackageStages), UNCHANGED packageVars PROVE PackageInv'
    BY <1>1 DEF Spares, PackageStages, packageVars, PackageInv, KeyInv, ReviewInv, SignatureIsOfPackage
  <1> QED
    BY <1>1, PackageStepKeepsInv, RestartKeepsPackageInv, OthersSparePackages

LEMMA PackagesSafe == Spec => []PackageInv
  BY ReadyInit, ReadyNext, PackageInvInit, PackageInvNext, PTL DEF Spec

(* Whoever signs a package, or tells a client which key to trust, uses the one stored key *)
(* pair, for any number of publications, first requests for the key and restarts          *)
(* (SigningKeyRepo.Ensure).                                                               *)
THEOREM OneKeyPair == Spec => []OneKey
  <1>1. PackageInv => OneKey
    BY DEF PackageInv, KeyInv, OneKey
  <1> QED
    BY <1>1, PackagesSafe, PTL

(* What is published was read by a request that publishes, and is signed as it is, unless *)
(* a new version came between that request's read and its writes.                         *)
THEOREM PublishedSafe == Spec => []PublishedAsReviewed
  <1>1. PackageInv => PublishedAsReviewed
    BY DEF PackageInv, ReviewInv, PublishedAsReviewed
  <1> QED
    BY <1>1, PackagesSafe, PTL

(***************************************************************************)
(* Friendships.                                                            *)
(***************************************************************************)
LEMMA OthersSpareFriends ==
    ASSUME Ready, [Next]_backendVars, \A r \in Requests : ~FriendStep(r)
    PROVE  Spares(FriendStages) /\ UNCHANGED friendVars
  <1>1. ASSUME NEW r \in Requests, PackageStep(r) PROVE Spares(FriendStages)
    BY <1>1, PackageMoves, MovesSpare DEF PackageStages, FriendStages
  <1>2. ASSUME NEW r \in Requests, DataStep(r) PROVE Spares(FriendStages)
    BY <1>2, DataMoves, MovesSpare DEF DataStages, FriendStages
  <1>3. ASSUME NEW r \in Requests, AgentStep(r) PROVE Spares(FriendStages)
    BY <1>3, AgentMoves, MovesSpare DEF FriendStages, AgentStages
  <1>4. ASSUME NEW r \in Requests, RoomStep(r) PROVE Spares(FriendStages)
    BY <1>4, RoomMoves, MovesSpare DEF FriendStages, RoomStages
  <1>5. ASSUME NEW r \in Requests, SessionStep(r) PROVE Spares(FriendStages)
    BY <1>5, SessionMoves, MovesSpare DEF FriendStages, SessionStages
  <1>6. CASE ServerRestarts
    BY <1>6, RestartSpares DEF FriendStages, roomless
  <1> QED
    BY <1>1, <1>2, <1>3, <1>4, <1>5, <1>6, StaySpares, Steps DEF peopleVars, roomless

\* The requests to become friends that have not made their row yet.
Unborn == {x \in Requests : job[x].op = "befriend" /\ pc[x] \in {"new", "insert"}}

\* The decisions that changed a row, and have told of it or are about to.
Won == {r \in Requests : /\ job[r].op \in Decisions
                         /\ pc[r] = "tell" \/ \E n \in told : n.by = r}

RowsInv ==
    /\ \A f \in rel : DOMAIN f = {"id", "from", "to", "status"} /\ f.id \notin Unborn
    /\ \A f, g \in rel : f.id = g.id => f = g

\* A request that found no row and is about to insert: if there is one by now, the two
\* requests have crossed.
CrossInv ==
    /\ OneRelation
    /\ \A r \in Requests :
          Is(r, "befriend", "insert") /\ Between(Pair(r)) # {} => Pair(r) \in crossed

\* The row that a decision has won never shows another one, nor comes back.
WonInv ==
    /\ \A r \in Won : /\ job[r].about \notin Unborn
                      /\ \A f \in rel : f.id = job[r].about => f.status = job[r].op
    /\ \A r, s \in Won : job[r].about = job[s].about => r = s
    /\ \A n \in told : /\ n.by \in Requests /\ pc[n.by] = "done" /\ n.what = job[n.by].op
                       /\ n.what \in Decisions => n.id = job[n.by].about
    /\ \A n, o \in told : n.by = o.by => n = o

FriendInv == RowsInv /\ CrossInv /\ WonInv

LEMMA FriendInvInit == Init => FriendInv
  BY FriendsAssumption
     DEF Init, HandlersInit, RoomsInit, FriendsInit, FriendInv, RowsInv, CrossInv, WonInv,
         OneRelation, Unborn, Won, Is

LEMMA UnbornEnds ==
    ASSUME NEW r \in Requests, Moves(r, FriendStages, FriendStages), pc'[r] = "insert" => pc[r] = "new"
    PROVE  Unborn' \subseteq Unborn
  BY DEF Moves, Unborn, FriendStages

\* What a step does to the rows: it inserts one, decides one or removes some.
Inserts(r, row) ==
    /\ Is(r, "befriend", "insert") /\ pc'[r] = "tell"
    /\ row = [id |-> r, from |-> job[r].user, to |-> job[r].whom, status |-> "pending"]
    /\ rel' = rel \cup {row}
DecidesRow(r, f) ==
    /\ pc[r] = "new" /\ job[r].op \in Decisions /\ pc'[r] = "tell"
    /\ f \in rel /\ Decides(r, f)
    /\ rel' = (rel \ {f}) \cup {[f EXCEPT !.status = job[r].op]}

LEMMA FriendChanges ==
    ASSUME Ready, NEW r \in Requests, FriendStep(r)
    PROVE  \/ \E row : Inserts(r, row)
           \/ \E f : DecidesRow(r, f)
           \/ rel' \subseteq rel /\ (pc'[r] = "tell" => job[r].op \notin Decisions)
  <1> USE DEF Ready, Is, Goto
  <1>1. CASE FriendLook(r) \/ FriendFails(r) \/ Tell(r)
    BY <1>1 DEF FriendLook, FriendFails, Tell, friendVars
  <1>2. CASE FriendInsert(r)
    <2>1. CASE KnownOneWay(r) # {}
      BY <1>2, <2>1 DEF FriendInsert
    <2>2. CASE KnownOneWay(r) = {}
      <3> DEFINE row == [id |-> r, from |-> job[r].user, to |-> job[r].whom, status |-> "pending"]
      <3>1. Inserts(r, row)
        BY <1>2, <2>2 DEF FriendInsert, Inserts
      <3> QED
        BY <3>1
    <2> QED
      BY <2>1, <2>2
  <1>3. CASE Advance(r)
    BY <1>3 DEF Advance, DecidesRow
  <1>4. CASE Unfriend(r)
    BY <1>4 DEF Unfriend, Decisions
  <1> HIDE DEF Ready, Is, Goto
  <1> QED
    BY <1>1, <1>2, <1>3, <1>4 DEF FriendStep

LEMMA FriendStepKeepsRows ==
    ASSUME Ready, RowsInv, NEW r \in Requests, FriendStep(r) PROVE RowsInv'
  <1>1. Moves(r, FriendStages, FriendStages) /\ Unborn' \subseteq Unborn
    BY FriendMoves, UnbornEnds
  <1>2. ASSUME NEW row, Inserts(r, row) PROVE RowsInv'
    <2>1. r \in Unborn /\ r \notin Unborn'
      BY <1>1, <1>2 DEF Inserts, Unborn, Is, Moves
    <2>2. DOMAIN row = {"id", "from", "to", "status"} /\ row.id = r
      BY <1>2 DEF Inserts
    <2> QED
      BY <1>1, <1>2, <2>1, <2>2 DEF RowsInv, Inserts
  <1>3. ASSUME NEW f, DecidesRow(r, f) PROVE RowsInv'
    <2> DEFINE g == [f EXCEPT !.status = job[r].op]
    <2>1. DOMAIN g = {"id", "from", "to", "status"} /\ g.id = f.id
      BY <1>3 DEF RowsInv, DecidesRow
    <2>2. rel' = (rel \ {f}) \cup {g} /\ f \in rel
      BY <1>3 DEF DecidesRow
    <2> HIDE DEF g
    <2> QED
      BY <1>1, <2>1, <2>2 DEF RowsInv
  <1>4. CASE rel' \subseteq rel
    BY <1>1, <1>4 DEF RowsInv
  <1> QED
    BY <1>2, <1>3, <1>4, FriendChanges

LEMMA FriendStepKeepsCross ==
    ASSUME Ready, RowsInv, CrossInv, NEW r \in Requests, FriendStep(r) PROVE CrossInv'
  <1>1. Moves(r, FriendStages, FriendStages)
    BY FriendMoves
  <1>2. job' = job /\ \A o \in Requests : Pair(o)' = Pair(o)
    BY <1>1 DEF Moves, Pair
  <1>3. CASE FriendLook(r)
    <2>1. rel' = rel /\ crossed' = crossed
      BY <1>3 DEF FriendLook, friendVars
    <2>2. OneRelation'
      BY <2>1 DEF CrossInv, OneRelation
    <2>3. ASSUME NEW o \in Requests, Is(o, "befriend", "insert")', Between(Pair(o))' # {}
          PROVE  Pair(o)' \in crossed'
      <3>1. Between(Pair(o)) # {}
        BY <1>2, <2>1, <2>3 DEF Between
      <3>2. CASE o = r
        <4>1. Between(Pair(r)) = {}
          BY <1>3, <2>3, <3>2 DEF Ready, FriendLook, Known, Is, Goto
        <4> QED
          BY <3>1, <3>2, <4>1
      <3>3. CASE o # r
        <4>1. Is(o, "befriend", "insert")
          BY <1>1, <2>3, <3>3 DEF Moves, Is
        <4> QED
          BY <1>2, <2>1, <3>1, <4>1 DEF CrossInv
      <3> QED
        BY <3>2, <3>3
    <2> QED
      BY <2>2, <2>3 DEF CrossInv
  <1>4. CASE FriendInsert(r)
    <2>1. CASE KnownOneWay(r) # {}
      BY <1>1, <1>2, <1>4, <2>1 DEF Ready, FriendInsert, CrossInv, OneRelation, Is, Goto, Between, Moves
    <2>2. CASE KnownOneWay(r) = {}
      <3> DEFINE row == [id |-> r, from |-> job[r].user, to |-> job[r].whom, status |-> "pending"]
      <3>1. {row.from, row.to} = Pair(r)
        BY DEF Pair
      <3>2. rel' = rel \cup {row} /\ crossed' = crossed \cup {Pair(o) : o \in Crossing(r)}
        BY <1>4, <2>2 DEF FriendInsert
      <3> HIDE DEF row
      <3>3. \A f \in rel : {f.from, f.to} = Pair(r) => Pair(r) \in crossed
        BY <1>4 DEF FriendInsert, CrossInv, Between
      <3>4. OneRelation'
        BY <3>1, <3>2, <3>3 DEF CrossInv, OneRelation
      <3>5. ASSUME NEW o \in Requests, Is(o, "befriend", "insert")', Between(Pair(o))' # {}
            PROVE  Pair(o)' \in crossed'
        <4>1. o # r /\ Is(o, "befriend", "insert")
          BY <1>1, <1>4, <2>2, <3>5 DEF Ready, FriendInsert, Is, Goto, Moves
        <4>2. CASE Pair(o) = Pair(r)
          BY <1>2, <3>2, <4>1, <4>2 DEF Crossing
        <4>3. CASE Pair(o) # Pair(r)
          <5>1. Between(Pair(o)) # {}
            BY <1>2, <3>1, <3>2, <3>5, <4>3 DEF Between
          <5> QED
            BY <1>2, <3>2, <4>1, <5>1 DEF CrossInv
        <4> QED
          BY <4>2, <4>3
      <3> QED
        BY <3>4, <3>5 DEF CrossInv
    <2> QED
      BY <2>1, <2>2
  <1>5. ASSUME NEW f, DecidesRow(r, f), UNCHANGED crossed PROVE CrossInv'
    <2> DEFINE g == [f EXCEPT !.status = job[r].op]
    <2>1. g.from = f.from /\ g.to = f.to
      BY <1>5 DEF RowsInv, DecidesRow
    <2>2. rel' = (rel \ {f}) \cup {g} /\ f \in rel
      BY <1>5 DEF DecidesRow
    <2> HIDE DEF g
    <2>3. OneRelation'
      BY <1>5, <2>1, <2>2 DEF CrossInv, OneRelation
    <2>4. ASSUME NEW o \in Requests, Is(o, "befriend", "insert")', Between(Pair(o))' # {}
          PROVE  Pair(o)' \in crossed'
      <3>1. Is(o, "befriend", "insert")
        BY <1>1, <1>5, <2>4 DEF DecidesRow, Is, Moves
      <3>2. Between(Pair(o)) # {}
        BY <1>2, <2>1, <2>2, <2>4 DEF Between
      <3> QED
        BY <1>2, <1>5, <3>1, <3>2 DEF CrossInv
    <2> QED
      BY <2>3, <2>4 DEF CrossInv
  <1>6. CASE Advance(r)
    BY <1>1, <1>2, <1>5, <1>6 DEF Ready, Advance, DecidesRow, Goto, CrossInv, OneRelation, Is, Between, Moves
  <1>7. CASE Unfriend(r) \/ Tell(r) \/ FriendFails(r)
    BY <1>1, <1>2, <1>7 DEF Ready, Unfriend, Tell, FriendFails, friendVars, CrossInv, OneRelation, Is, Goto, Between, Moves
  <1> QED
    BY <1>3, <1>4, <1>6, <1>7 DEF FriendStep

\* Only a decision that changes its row comes to tell of a decision.
LEMMA WonGrows ==
    ASSUME Ready, WonInv, NEW r \in Requests, FriendStep(r)
    PROVE  Won' \subseteq Won \cup {x \in {r} : \E f : DecidesRow(r, f)}
  <1>1. Moves(r, FriendStages, FriendStages)
    BY FriendMoves
  <1>2. \A n \in told' \ told : n.by = r /\ pc[r] = "tell"
    BY DEF FriendStep, FriendLook, FriendInsert, Advance, Unfriend, Tell, FriendFails,
           friendVars, Notices, Notice
  <1>3. pc'[r] = "tell" /\ job[r].op \in Decisions => \E f : DecidesRow(r, f)
    BY FriendChanges DEF Inserts, Is, Decisions
  <1>4. SUFFICES ASSUME NEW x \in Won', x # r \/ ~\E f : DecidesRow(r, f) PROVE x \in Won
    OBVIOUS
  <1>5. CASE x # r
    BY <1>1, <1>2, <1>4, <1>5 DEF Won, Moves
  <1>6. CASE x = r
    BY <1>1, <1>2, <1>3, <1>4, <1>6 DEF Won, Moves
  <1> QED
    BY <1>5, <1>6

LEMMA FriendStepKeepsWon ==
    ASSUME Ready, RowsInv, WonInv, NEW r \in Requests, FriendStep(r) PROVE WonInv'
  <1>1. Moves(r, FriendStages, FriendStages) /\ Unborn' \subseteq Unborn
    BY FriendMoves, UnbornEnds
  <1>2. job' = job /\ Won' \subseteq Won \cup {x \in {r} : \E f : DecidesRow(r, f)}
    BY <1>1, WonGrows DEF Moves
  \* the notices
  <1>3. told' = told \/ Tell(r)
    BY DEF FriendStep, FriendLook, FriendInsert, Advance, Unfriend, FriendFails, friendVars
  <1>4. \A n \in told : n.by # r /\ pc'[n.by] = "done"
    BY <1>1 DEF WonInv, Moves, FriendStages
  <1>5. \A n, o \in told : n.by = o.by => n = o
    BY DEF WonInv
  <1>6. ASSUME Tell(r) PROVE /\ \A n, o \in Notices(r) : n = o
                             /\ \A n \in Notices(r) :
                                   /\ n.by = r /\ n.what = job[r].op
                                   /\ n.what \in Decisions => n.id = job[r].about
                             /\ told' = told \cup Notices(r) /\ pc'[r] = "done"
    <2>1. told' = told \cup Notices(r) /\ pc'[r] = "done"
      BY <1>6 DEF Tell, Goto, Ready
    <2>2. CASE job[r].op \in Decisions
      <3>1. \A n \in Notices(r) : \E f \in rel : /\ f.id = job[r].about
               /\ n = Notice(r, f.id, IF job[r].op = "canceled" THEN f.to ELSE f.from)
        BY <2>2 DEF Notices
      <3>2. \A f, g \in rel : f.id = job[r].about /\ g.id = job[r].about => f = g
        BY DEF RowsInv
      <3>3. \A n, o \in Notices(r) : n = o
        BY <3>1, <3>2
      <3> QED
        BY <2>1, <3>1, <3>3 DEF Notice
    <2>3. CASE job[r].op \notin Decisions
      <3>1. Notices(r) = {Notice(r, r, job[r].whom)}
        BY <2>3 DEF Notices
      <3>2. \A n \in Notices(r) : n.by = r /\ n.what = job[r].op
        BY <3>1 DEF Notice
      <3> QED
        BY <2>1, <2>3, <3>1, <3>2
    <2> QED
      BY <2>2, <2>3
  <1>7. /\ \A n \in told' : /\ n.by \in Requests /\ pc'[n.by] = "done" /\ n.what = job'[n.by].op
                            /\ n.what \in Decisions => n.id = job'[n.by].about
        /\ \A n, o \in told' : n.by = o.by => n = o
    <2>1. CASE told' = told
      BY <1>2, <1>4, <2>1 DEF WonInv
    <2>2. CASE Tell(r)
      <3>1. \A n \in told : /\ n.by \in Requests /\ pc'[n.by] = "done" /\ n.what = job'[n.by].op
                            /\ n.what \in Decisions => n.id = job'[n.by].about
        BY <1>2, <1>4 DEF WonInv
      <3>2. \A n \in Notices(r) :
               /\ n.by \in Requests /\ pc'[n.by] = "done" /\ n.what = job'[n.by].op
               /\ n.what \in Decisions => n.id = job'[n.by].about
        BY <1>2, <1>6, <2>2
      <3>3. told' = told \cup Notices(r)
        BY <1>6, <2>2
      <3>4. \A n, o \in Notices(r) : n = o
        BY <1>6, <2>2
      <3>5. \A n \in Notices(r) : n.by = r
        BY <1>6, <2>2
      <3>6. ASSUME NEW n \in told', NEW o \in told', n.by = o.by PROVE n = o
        BY <1>4, <1>5, <3>3, <3>4, <3>5, <3>6
      <3> QED
        BY <3>1, <3>2, <3>3, <3>6
    <2> QED
      BY <1>3, <2>1, <2>2
  \* the rows and the decisions
  <1>8. ASSUME NEW row, Inserts(r, row)
        PROVE  \A w \in Won' : /\ job'[w].about \notin Unborn'
                              /\ \A f \in rel' : f.id = job'[w].about => f.status = job'[w].op
    <2>1. ~\E f : DecidesRow(r, f)
      BY <1>8 DEF Inserts, DecidesRow, Is
    <2>2. Won' \subseteq Won
      BY <1>2, <2>1
    <2>3. r \in Unborn /\ row.id = r /\ rel' = rel \cup {row}
      BY <1>8 DEF Inserts, Is, Unborn
    <2> QED
      BY <1>1, <1>2, <2>2, <2>3 DEF WonInv
  <1>9. ASSUME NEW f, DecidesRow(r, f)
        PROVE  /\ \A w \in Won' : /\ job'[w].about \notin Unborn'
                                 /\ \A g \in rel' : g.id = job'[w].about => g.status = job'[w].op
               /\ \A v, w \in Won' : job'[v].about = job'[w].about => v = w
    <2> DEFINE g == [f EXCEPT !.status = job[r].op]
    <2>1. /\ f \in rel /\ f.id = job[r].about /\ f.status = "pending"
          /\ g.id = f.id /\ g.status = job[r].op /\ rel' = (rel \ {f}) \cup {g}
      BY <1>9 DEF RowsInv, DecidesRow, Decides
    <2> HIDE DEF g
    <2>2. \A w \in Won : job[w].about # job[r].about
      BY <2>1 DEF WonInv, Won, Decisions
    <2>3. job[r].about \notin Unborn
      BY <2>1 DEF RowsInv
    <2>4. \A h \in rel' : h.id = job[r].about => h = g
      BY <2>1 DEF RowsInv
    <2> QED
      BY <1>1, <1>2, <2>1, <2>2, <2>3, <2>4 DEF WonInv
  <1>10. CASE rel' \subseteq rel /\ ~\E f : DecidesRow(r, f)
    BY <1>1, <1>2, <1>7, <1>10 DEF WonInv
  <1>11. CASE \E row : Inserts(r, row)
    BY <1>2, <1>7, <1>8, <1>11 DEF WonInv, Inserts, DecidesRow, Is
  <1> QED
    BY <1>7, <1>9, <1>10, <1>11, FriendChanges DEF WonInv

LEMMA FriendInvNext == Ready /\ FriendInv /\ [Next]_backendVars => FriendInv'
  <1> SUFFICES ASSUME Ready, FriendInv, [Next]_backendVars PROVE FriendInv'
    OBVIOUS
  <1>1. ASSUME NEW r \in Requests, FriendStep(r) PROVE FriendInv'
    BY <1>1, FriendStepKeepsRows, FriendStepKeepsCross, FriendStepKeepsWon DEF FriendInv
  <1>2. ASSUME Spares(FriendStages), UNCHANGED friendVars PROVE FriendInv'
    <2>1. job' = job /\ rel' = rel /\ told' = told /\ crossed' = crossed
      BY <1>2 DEF Spares, friendVars
    <2>2. Unborn' \subseteq Unborn
      BY <1>2 DEF Spares, Unborn, FriendStages
    <2>3. Won' \subseteq Won
      BY <1>2, <2>1 DEF Spares, Won, FriendStages
    <2>4. RowsInv'
      BY <2>1, <2>2 DEF FriendInv, RowsInv
    <2>5. \A o \in Requests : Is(o, "befriend", "insert")' => Is(o, "befriend", "insert")
      BY <1>2 DEF Spares, Is, FriendStages
    <2>6. CrossInv'
      BY <2>1, <2>5 DEF FriendInv, CrossInv, OneRelation, Between, Pair
    <2>7. \A n \in told : n.by \in Requests /\ pc'[n.by] = "done"
      BY <1>2 DEF Spares, FriendInv, WonInv
    <2>8. WonInv'
      BY <2>1, <2>2, <2>3, <2>7 DEF FriendInv, WonInv
    <2> QED
      BY <2>4, <2>6, <2>8 DEF FriendInv
  <1> QED
    BY <1>1, <1>2, OthersSpareFriends

LEMMA FriendsSafe == Spec => []FriendInv
  BY ReadyInit, ReadyNext, FriendInvInit, FriendInvNext, PTL DEF Spec

(* Two users have one row, however their requests interleave, unless both asked each      *)
(* other at the same time (CreateRequest looks for a row and then inserts one).           *)
THEOREM OneRelationHolds == Spec => []OneRelation
  <1>1. FriendInv => OneRelation
    BY DEF FriendInv, CrossInv
  <1> QED
    BY <1>1, FriendsSafe, PTL

(* A request to become friends is decided once, whoever accepts, rejects and withdraws it *)
(* at the same time, and its row keeps what the winner said (advanceState).               *)
THEOREM DecidedOnceHolds == Spec => []DecidedOnce
  <1>1. FriendInv => DecidedOnce
    <2> SUFFICES ASSUME FriendInv, NEW n \in told, n.what \in Decisions
                 PROVE  /\ \A o \in told : o.id = n.id /\ o.what \in Decisions => o = n
                        /\ \A f \in rel : f.id = n.id => f.status = n.what
      BY DEF DecidedOnce
    <2>1. \A o \in told : o.what \in Decisions => o.by \in Won /\ o.id = job[o.by].about
      BY DEF FriendInv, WonInv, Won
    <2>2. n.by \in Won /\ n.id = job[n.by].about /\ n.what = job[n.by].op
      BY <2>1 DEF FriendInv, WonInv
    <2> QED
      BY <2>1, <2>2 DEF FriendInv, WonInv
  <1> QED
    BY <1>1, FriendsSafe, PTL

(***************************************************************************)
(* Conversations.                                                          *)
(***************************************************************************)
LEMMA OthersSpareRooms ==
    ASSUME Ready, [Next]_backendVars, \A r \in Requests : ~RoomStep(r) /\ ~AgentStep(r)
    PROVE  Spares(RoomStages \cup {"create"}) /\ UNCHANGED <<rooms, plugin>>
  <1> DEFINE S == RoomStages \cup {"create"}
  <1>1. ASSUME NEW r \in Requests, PackageStep(r) PROVE Spares(S)
    BY <1>1, PackageMoves, MovesSpare DEF RoomStages, PackageStages
  <1>2. ASSUME NEW r \in Requests, DataStep(r) PROVE Spares(S)
    BY <1>2, DataMoves, MovesSpare DEF RoomStages, DataStages
  <1>3. ASSUME NEW r \in Requests, FriendStep(r) PROVE Spares(S)
    BY <1>3, FriendMoves, MovesSpare DEF RoomStages, FriendStages
  <1>4. ASSUME NEW r \in Requests, SessionStep(r) PROVE Spares(S)
    BY <1>4, SessionMoves, MovesSpare DEF RoomStages, SessionStages
  <1>5. ASSUME ServerRestarts PROVE Spares(S)
    BY <1>5, RestartSpares DEF RoomStages
  <1>6. ASSUME UNCHANGED handlerVars PROVE Spares(S)
    BY <1>6, StaySpares
  <1> HIDE DEF S
  <1>7. Spares(S)
    BY <1>1, <1>2, <1>3, <1>4, <1>5, <1>6, Steps
  <1>8. UNCHANGED <<rooms, plugin>>
    BY Steps DEF peopleVars, roomVars, ServerRestarts
  <1> QED
    BY <1>7, <1>8 DEF S

RoomFields == {"type", "title", "meta", "rev", "pair", "who"}
SeatFields == {"role", "hidden", "pinned"}
Makers == {"dm", "group", "session", "agent-session", "agent", "adopt"}

\* The seats of a conversation, one of which is the owner's.
SoundSeats(who) ==
    /\ \A u \in DOMAIN who : DOMAIN who[u] = SeatFields
    /\ \E u \in DOMAIN who : \A v \in DOMAIN who : who[v].role = "owner" <=> v = u
SoundRooms == \A c \in DOMAIN rooms : DOMAIN rooms[c] = RoomFields /\ SoundSeats(rooms[c].who)

\* A request that may yet make its conversation: there is none under its name.
Expecting ==
    {r \in Requests : \/ pc[r] \in {"create", "find", "make", "call", "late", "commit", "attach"}
                      \/ pc[r] = "new" /\ job[r].op \in Makers}
NameInv ==
    \A r \in Expecting : /\ r \notin DOMAIN rooms
                      /\ \A o \in Requests : pc[o] = "remove" => job[o].about # r

\* Who is about to be removed was not the owner, and nobody becomes one.
RemoveInv ==
    \A r \in Requests :
        pc[r] = "remove" /\ job[r].about \in DOMAIN rooms /\ Leaver(r) \in Members(job[r].about) =>
            rooms[job[r].about].who[Leaver(r)].role # "owner"

\* The plugin has opened every session that is stored or about to be.
OpenedInv ==
    /\ SessionIsWhole
    /\ \A r \in Requests : pc[r] \in {"commit", "attach"} => r \in plugin

RoomInv == SoundRooms /\ NameInv /\ RemoveInv /\ OpenedInv

LEMMA RoomInvInit == Init => RoomInv
  <1> SUFFICES ASSUME Init PROVE RoomInv
    OBVIOUS
  <1>1. rooms \in FirstRooms /\ job \in Jobs /\ pc = [r \in Requests |-> "new"]
    BY DEF Init, HandlersInit, RoomsInit
  <1>2. SoundRooms
    BY <1>1, RoomsAssumption DEF SoundRooms, SoundSeats, RoomFields, SeatFields
  <1>3. NameInv
    BY <1>1, RoomsAssumption DEF NameInv, Expecting, Makers
  <1>4. RemoveInv /\ OpenedInv
    BY <1>1, RoomsAssumption DEF RemoveInv, OpenedInv, SessionIsWhole
  <1> QED
    BY <1>2, <1>3, <1>4 DEF RoomInv

\* A step that only moves requests: none comes to expect its conversation, and none is about to remove
\* anybody, or store a session, that was not before.
Quietly ==
    /\ UNCHANGED <<job, rooms>>
    /\ DOMAIN pc' = Requests
    /\ Expecting' \subseteq Expecting
    /\ \A r \in Requests : /\ pc'[r] = "remove" => pc[r] = "remove"
                           /\ pc'[r] \in {"commit", "attach"} => r \in plugin'
    /\ plugin \subseteq plugin'

LEMMA QuietlyKeeps == ASSUME RoomInv, Quietly PROVE RoomInv'
  <1>1. SoundRooms' /\ OpenedInv'
    BY DEF RoomInv, Quietly, SoundRooms, OpenedInv, SessionIsWhole
  <1>2. NameInv'
    BY DEF RoomInv, Quietly, NameInv
  <1>3. RemoveInv'
    BY DEF RoomInv, Quietly, RemoveInv, Leaver, Members
  <1> QED
    BY <1>1, <1>2, <1>3 DEF RoomInv

LEMMA OthersQuietly ==
    ASSUME RoomInv, Spares(RoomStages \cup {"create"}), UNCHANGED <<rooms, plugin>> PROVE Quietly
  BY DEF RoomInv, OpenedInv, Spares, Quietly, Expecting, RoomStages

LEMMA AgentStepQuietly ==
    ASSUME Ready, RoomInv, NEW r \in Requests, AgentStep(r), UNCHANGED <<rooms, plugin>> PROVE Quietly
  <1>1. Moves(r, AgentStages, AgentStages \cup {"find"})
    BY AgentMoves
  <1>2. pc'[r] \in {"create", "find"} => r \in Expecting
    <2> USE DEF Ready, Goto, Keep, Is, Expecting, Makers
    <2>1. CASE CreateTicket(r) \/ ScanRead(r) \/ MarkScanned(r)
      BY <2>1 DEF CreateTicket, ScanRead, MarkScanned
    <2>2. CASE CompleteRead(r)
      BY <2>2 DEF CompleteRead
    <2>3. CASE CountActive(r) \/ CreateSubKey(r)
      BY <2>3 DEF CountActive, CreateSubKey
    <2>4. CASE OwnerRead(r)
      BY <2>4 DEF OwnerRead
    <2>5. CASE ResetSecretKey(r) \/ UpdateType(r) \/ MarkCompleted(r)
      BY <2>5 DEF ResetSecretKey, UpdateType, MarkCompleted
    <2>6. CASE CreateAgent(r)
      <3>1. Is(r, "agent", "new") \/ pc[r] = "create"
        BY <2>6 DEF CreateAgent
      <3> QED
        BY <3>1
    <2>7. CASE PollRead(r) \/ NameRead(r) \/ ConsumeSecretKey(r) \/ AgentFails(r)
      BY <2>7 DEF PollRead, NameRead, ConsumeSecretKey, AgentFails
    <2>8. CASE Update(r) \/ Delete(r) \/ RevokeAllForAgent(r) \/ ListByAgent(r) \/ Revoke(r)
      BY <2>8 DEF Update, Delete, RevokeAllForAgent, ListByAgent, Revoke
    <2> HIDE DEF Ready, Goto, Keep, Is, Expecting, Makers
    <2> QED
      BY <2>1, <2>2, <2>3, <2>4, <2>5, <2>6, <2>7, <2>8 DEF AgentStep
  <1>3. Expecting' \subseteq Expecting
    BY <1>1, <1>2 DEF Moves, AgentStages, Expecting
  <1> QED
    BY <1>1, <1>3 DEF Moves, AgentStages, Quietly, RoomInv, OpenedInv

LEMMA Expects ==
    ASSUME NEW r \in Requests,
           \/ pc[r] \in {"create", "find", "make", "call", "late", "commit", "attach"}
           \/ pc[r] = "new" /\ job[r].op \in Makers
    PROVE  r \in Expecting
  BY DEF Expecting

\* A conversation is made under the name of a request that expected it.
LEMMA MakingKeeps ==
    ASSUME Ready, RoomInv, NEW r \in Expecting, job' = job,
           NEW room, rooms' = With(rooms, r, room),
           DOMAIN room = RoomFields, SoundSeats(room.who), room.type = "session" => r \in plugin,
           UNCHANGED plugin, NEW at \in {"announce", "done", "mark"}, Goto(r, at)
    PROVE  RoomInv'
  <1>1. r \in Requests /\ r \notin DOMAIN rooms
    BY DEF RoomInv, NameInv, Expecting
  <1>2. /\ DOMAIN rooms' = DOMAIN rooms \cup {r} /\ rooms'[r] = room
        /\ \A c \in DOMAIN rooms : rooms'[c] = rooms[c]
    BY <1>1 DEF With
  <1>3. DOMAIN pc' = Requests /\ pc'[r] = at /\ \A o \in Requests \ {r} : pc'[o] = pc[o]
    BY <1>1 DEF Ready, Goto
  <1>4. SoundRooms'
    BY <1>2 DEF RoomInv, SoundRooms
  <1>5. NameInv'
    BY <1>1, <1>2, <1>3 DEF RoomInv, NameInv, Expecting
  <1>6. RemoveInv'
    BY <1>1, <1>2, <1>3 DEF RoomInv, NameInv, RemoveInv, Leaver, Members
  <1>7. OpenedInv'
    BY <1>1, <1>2, <1>3 DEF RoomInv, OpenedInv, SessionIsWhole
  <1> QED
    BY <1>4, <1>5, <1>6, <1>7 DEF RoomInv

\* A new conversation has its owner's seat and the members'.
LEMMA NewRoomSound ==
    ASSUME NEW type, NEW owner, NEW others, NEW title
    PROVE  LET room == NewRoom(type, owner, others, title)
           IN  /\ DOMAIN room = RoomFields /\ room.type = type
               /\ SoundSeats(room.who)
  <1> DEFINE room == NewRoom(type, owner, others, title)
  <1>1. DOMAIN room = RoomFields /\ room.type = type
    BY DEF NewRoom, RoomFields
  <1>2. room.who = [u \in {owner} \cup others |-> Seat(IF u = owner THEN "owner" ELSE "member")]
    BY DEF NewRoom
  <1> DEFINE who == room.who
  <1>3. DOMAIN who = {owner} \cup others
    BY <1>2
  <1>4. \A u \in DOMAIN who : DOMAIN who[u] = SeatFields /\ (who[u].role = "owner" <=> u = owner)
    BY <1>2 DEF Seat, SeatFields
  <1>5. SoundSeats(who)
    BY <1>3, <1>4 DEF SoundSeats
  <1> QED
    BY <1>1, <1>5

\* A conversation is changed: its owner, if it is still there, keeps the seat.
LEMMA ChangingKeeps ==
    ASSUME Ready, RoomInv, NEW r \in Requests, job' = job,
           NEW c \in DOMAIN rooms, NEW room, rooms' = With(rooms, c, room),
           DOMAIN room = RoomFields, room.type = rooms[c].type, SoundSeats(room.who),
           \A u \in DOMAIN room.who : room.who[u].role = "owner" =>
               u \in DOMAIN rooms[c].who /\ rooms[c].who[u].role = "owner",
           UNCHANGED plugin, NEW at \in {"announce", "answer"}, Goto(r, at)
    PROVE  RoomInv'
  <1>1. /\ DOMAIN rooms' = DOMAIN rooms /\ rooms'[c] = room
        /\ \A d \in DOMAIN rooms \ {c} : rooms'[d] = rooms[d]
    BY DEF With
  <1>2. DOMAIN pc' = Requests /\ pc'[r] = at /\ \A o \in Requests \ {r} : pc'[o] = pc[o]
    BY DEF Ready, Goto
  <1>3. SoundRooms'
    BY <1>1 DEF RoomInv, SoundRooms
  <1>4. NameInv'
    BY <1>1, <1>2 DEF RoomInv, NameInv, Expecting
  <1>5. RemoveInv'
    <2> SUFFICES ASSUME NEW o \in Requests, pc'[o] = "remove", NEW d \in DOMAIN rooms, d = job[o].about,
                        NEW u, u = Leaver(o), u \in DOMAIN rooms'[d].who, rooms'[d].who[u].role = "owner"
                 PROVE  FALSE
      BY <1>1 DEF RemoveInv, Leaver, Members
    <2>1. u \in DOMAIN rooms[d].who /\ rooms[d].who[u].role = "owner"
      BY <1>1
    <2> QED
      BY <1>2, <2>1 DEF RoomInv, RemoveInv, Members
  <1>6. OpenedInv'
    BY <1>1, <1>2 DEF RoomInv, OpenedInv, SessionIsWhole
  <1> QED
    BY <1>3, <1>4, <1>5, <1>6 DEF RoomInv

\* One field of a conversation is written, and its changes are counted.
LEMMA FieldsKept ==
    ASSUME NEW old, DOMAIN old = RoomFields, NEW value, NEW rev,
           NEW field \in {"title", "meta", "who"}
    PROVE  LET room == [[old EXCEPT ![field] = value] EXCEPT !.rev = rev]
           IN  /\ DOMAIN room = RoomFields /\ room.type = old.type
               /\ field # "who" => room.who = old.who
               /\ field = "who" => room.who = value
  BY DEF RoomFields

LEMMA GroupKeeps == ASSUME Ready, RoomInv, NEW r \in Requests, CreateGroup(r) PROVE RoomInv'
  <1> DEFINE new == NewRoom("group", job[r].user, job[r].whom, "new")
             room == [new EXCEPT !.rev = @ + 1]
  <1>1. DOMAIN new = RoomFields /\ new.type = "group" /\ SoundSeats(new.who)
    BY NewRoomSound
  <1>2. DOMAIN room = RoomFields /\ room.type = "group" /\ SoundSeats(room.who)
    <2> HIDE DEF new
    <2> QED
      BY <1>1 DEF RoomFields
  <1>3. /\ rooms' = With(rooms, r, room) /\ Goto(r, "announce")
        /\ job' = job /\ plugin' = plugin /\ r \in Expecting
    BY DEF CreateGroup, Changes, Is, Expecting, Makers
  <1> HIDE DEF room
  <1> QED
    BY <1>2, <1>3, MakingKeeps

LEMMA SessionKeeps == ASSUME Ready, RoomInv, NEW r \in Requests, CommitSession(r) PROVE RoomInv'
  <1> DEFINE others == {job[r].whom}
             new == NewRoom("session", job[r].user, others, "")
             room == [new EXCEPT !.rev = @ + 1]
  <1>1. DOMAIN new = RoomFields /\ new.type = "session" /\ SoundSeats(new.who)
    <2> HIDE DEF others
    <2> QED
      BY NewRoomSound
  <1>2. DOMAIN room = RoomFields /\ SoundSeats(room.who)
    <2> HIDE DEF new
    <2> QED
      BY <1>1 DEF RoomFields
  <1>3. pc[r] = "commit" /\ rooms' = With(rooms, r, room) /\ Goto(r, "announce")
    BY DEF CommitSession, Changes
  <1>4. job' = job /\ plugin' = plugin
    BY DEF CommitSession
  <1>5. r \in Expecting /\ r \in plugin
    BY <1>3, Expects DEF RoomInv, OpenedInv
  <1> HIDE DEF room
  <1> QED
    BY <1>2, <1>3, <1>4, <1>5, MakingKeeps

LEMMA PlainRoomsKeep ==
    ASSUME Ready, RoomInv, NEW r \in Requests, MakeDm(r) \/ CreateAgentSession(r) PROVE RoomInv'
  <1>1. CASE MakeDm(r)
    <2> DEFINE room == NewRoom(DmType(r), Initiator(r), DmPair(r), "")
    <2>1. DOMAIN room = RoomFields /\ room.type = DmType(r) /\ SoundSeats(room.who)
      BY NewRoomSound
    <2>2. DmType(r) # "session"
      BY DEF DmType
    <2>3. rooms' = With(rooms, r, room) /\ job' = job /\ plugin' = plugin /\ r \in Expecting
      BY <1>1, Expects DEF MakeDm
    <2>4. Goto(r, "mark") \/ Goto(r, "done")
      BY <1>1 DEF MakeDm, AfterDm
    <2> HIDE DEF room
    <2> QED
      BY <2>1, <2>2, <2>3, <2>4, MakingKeeps
  <1>2. CASE CreateAgentSession(r)
    <2> DEFINE others == {job[r].user}
               room == NewRoom("session", job[r].whom, others, "")
    <2>1. DOMAIN room = RoomFields /\ room.type = "session" /\ SoundSeats(room.who)
      <3> HIDE DEF others
      <3> QED
        BY NewRoomSound
    <2>2. /\ pc[r] = "attach" /\ rooms' = With(rooms, r, room) /\ Goto(r, "done")
          /\ job' = job /\ plugin' = plugin
      BY <1>2 DEF CreateAgentSession
    <2>3. r \in Expecting /\ r \in plugin
      BY <2>2, Expects DEF RoomInv, OpenedInv
    <2> HIDE DEF room
    <2> QED
      BY <2>1, <2>2, <2>3, MakingKeeps
  <1> QED
    BY <1>1, <1>2

LEMMA InviteKeeps ==
    ASSUME Ready, RoomInv, NEW r \in Requests, InviteWrite(r), job[r].about \in DOMAIN rooms PROVE RoomInv'
  <1> DEFINE c == job[r].about
             who == SeatsWith(rooms[c].who, job[r].whom)
             written == [rooms[c] EXCEPT !.who = who]
             room == [written EXCEPT !.rev = @ + 1]
  <1>1. DOMAIN rooms[c] = RoomFields /\ SoundSeats(rooms[c].who)
    BY DEF RoomInv, SoundRooms
  <1>2. SoundSeats(who) /\ \A u \in DOMAIN who : who[u].role = "owner" =>
                               u \in DOMAIN rooms[c].who /\ rooms[c].who[u].role = "owner"
    <2> DEFINE seat == Seat("member")
    <2>1. DOMAIN seat = SeatFields /\ seat.role # "owner"
      BY DEF Seat, SeatFields
    <2> DEFINE old == rooms[c].who
               whom == job[r].whom
    <2>2. \/ who = old
          \/ /\ whom \notin DOMAIN old
             /\ who = [u \in DOMAIN old \cup {whom} |-> IF u = whom THEN seat ELSE old[u]]
      <3>1. ASSUME whom \in DOMAIN old PROVE who = old
        BY <3>1 DEF SeatsWith
      <3>2. ASSUME whom \notin DOMAIN old
            PROVE  who = [u \in DOMAIN old \cup {whom} |-> IF u = whom THEN seat ELSE old[u]]
        BY <3>2 DEF SeatsWith, With
      <3> HIDE DEF seat, old, whom, who
      <3> QED
        BY <3>1, <3>2
    <2> HIDE DEF seat, old, whom, who
    <2>3. SoundSeats(old)
      BY <1>1 DEF old
    <2>4. \A u \in DOMAIN who : (u \in DOMAIN old /\ who[u] = old[u]) \/ who[u] = seat
      BY <2>2
    <2>5. SoundSeats(who)
      <3>1. CASE who = old
        BY <2>3, <3>1
      <3>2. CASE whom \notin DOMAIN old /\ who = [u \in DOMAIN old \cup {whom} |-> IF u = whom THEN seat ELSE old[u]]
        <4>1. PICK o \in DOMAIN old : \A v \in DOMAIN old : old[v].role = "owner" <=> v = o
          BY <2>3 DEF SoundSeats
        <4>2. o \in DOMAIN who /\ \A v \in DOMAIN who : who[v].role = "owner" <=> v = o
          BY <2>1, <3>2, <4>1
        <4>3. \A u \in DOMAIN who : DOMAIN who[u] = SeatFields
          BY <2>1, <2>3, <2>4 DEF SoundSeats
        <4> QED
          BY <4>2, <4>3 DEF SoundSeats
      <3> QED
        BY <2>2, <3>1, <3>2
    <2>6. \A u \in DOMAIN who : who[u].role = "owner" => u \in DOMAIN old /\ old[u].role = "owner"
      BY <2>1, <2>4
    <2> QED
      BY <2>5, <2>6 DEF old
  <1>3. DOMAIN written = RoomFields /\ written.who = who /\ written.type = rooms[c].type
    <2> HIDE DEF who
    <2> QED
      BY <1>1 DEF RoomFields
  <1>4. DOMAIN room = RoomFields /\ room.who = who /\ room.type = rooms[c].type
    <2> HIDE DEF written, who
    <2> QED
      BY <1>3 DEF RoomFields
  <1>5. rooms' = With(rooms, c, room) /\ Goto(r, "announce") /\ job' = job /\ plugin' = plugin
    BY DEF InviteWrite, Changes
  <1> HIDE DEF room, who
  <1> QED
    BY <1>2, <1>4, <1>5, ChangingKeeps

LEMMA RenameKeeps ==
    ASSUME Ready, RoomInv, NEW r \in Requests, Rename(r), job[r].about \in DOMAIN rooms PROVE RoomInv'
  <1> DEFINE c == job[r].about
             title == Coalesce(job[r].whom, rooms[c].title)
             meta == job[r].whom
             titled == [[rooms[c] EXCEPT !.title = title] EXCEPT !.rev = @ + 1]
             annotated == [[rooms[c] EXCEPT !.meta = meta] EXCEPT !.rev = @ + 1]
  <1>1. DOMAIN rooms[c] = RoomFields /\ SoundSeats(rooms[c].who)
    BY DEF RoomInv, SoundRooms
  <1>2. DOMAIN titled = RoomFields /\ titled.who = rooms[c].who /\ titled.type = rooms[c].type
    <2> HIDE DEF title
    <2> QED
      BY <1>1 DEF RoomFields
  <1>3. DOMAIN annotated = RoomFields /\ annotated.who = rooms[c].who /\ annotated.type = rooms[c].type
    <2> HIDE DEF meta
    <2> QED
      BY <1>1 DEF RoomFields
  <1>4. Goto(r, "announce") /\ job' = job /\ plugin' = plugin
    BY DEF Rename, Changes
  <1>5. rooms' = With(rooms, c, titled) \/ rooms' = With(rooms, c, annotated)
    BY DEF Rename, Changes
  <1> HIDE DEF titled, annotated
  <1> QED
    BY <1>1, <1>2, <1>3, <1>4, <1>5, ChangingKeeps

\* The seats without one that is not the owner's.
LEMMA OneLeaves ==
    ASSUME NEW who, SoundSeats(who), NEW u, u \in DOMAIN who => who[u].role # "owner"
    PROVE  /\ SoundSeats(Without(who, u))
           /\ \A v \in DOMAIN Without(who, u) : v \in DOMAIN who /\ Without(who, u)[v] = who[v]
  <1> DEFINE remaining == Without(who, u)
  <1>1. DOMAIN remaining = DOMAIN who \ {u} /\ \A v \in DOMAIN remaining : remaining[v] = who[v]
    BY DEF Without, Restrict
  <1> HIDE DEF remaining
  <1>2. PICK o \in DOMAIN who : \A v \in DOMAIN who : who[v].role = "owner" <=> v = o
    BY DEF SoundSeats
  <1>3. o \in DOMAIN remaining /\ \A v \in DOMAIN remaining : remaining[v].role = "owner" <=> v = o
    BY <1>1, <1>2
  <1>4. SoundSeats(remaining)
    BY <1>1, <1>3 DEF SoundSeats
  <1> QED
    BY <1>1, <1>4 DEF remaining

LEMMA RemoveKeeps ==
    ASSUME Ready, RoomInv, NEW r \in Requests, RemoveParticipant(r), job[r].about \in DOMAIN rooms
    PROVE  RoomInv'
  <1> DEFINE c == job[r].about
             who == Without(rooms[c].who, Leaver(r))
             room == [[rooms[c] EXCEPT !.who = who] EXCEPT !.rev = @ + 1]
  <1>1. DOMAIN rooms[c] = RoomFields /\ SoundSeats(rooms[c].who)
    BY DEF RoomInv, SoundRooms
  <1>2. Leaver(r) \in DOMAIN rooms[c].who => rooms[c].who[Leaver(r)].role # "owner"
    BY DEF RemoveParticipant, RoomInv, RemoveInv, Members
  <1>3. SoundSeats(who) /\ \A v \in DOMAIN who : v \in DOMAIN rooms[c].who /\ who[v] = rooms[c].who[v]
    BY <1>1, <1>2, OneLeaves
  <1>4. DOMAIN room = RoomFields /\ room.who = who /\ room.type = rooms[c].type
    <2> HIDE DEF who
    <2> QED
      BY <1>1 DEF RoomFields
  <1>5. rooms' = With(rooms, c, room) /\ Goto(r, "announce") /\ job' = job /\ plugin' = plugin
    BY DEF RemoveParticipant, Changes
  <1> HIDE DEF room, who
  <1> QED
    BY <1>3, <1>4, <1>5, ChangingKeeps

LEMMA PersonalKeeps == ASSUME Ready, RoomInv, NEW r \in Requests, PersonalWrite(r) PROVE RoomInv'
  <1> DEFINE c == job[r].about
             u == job[r].user
  <1>1. Goto(r, "answer") /\ job' = job /\ plugin' = plugin
    BY DEF PersonalWrite
  <1>2. CASE UNCHANGED rooms
    <2>1. Quietly
      BY <1>1, <1>2 DEF Ready, Goto, Quietly, Expecting, RoomInv, OpenedInv
    <2> QED
      BY <2>1, QuietlyKeeps
  <1>3. ASSUME c \in DOMAIN rooms, u \in Members(c), NEW field \in {"hidden", "pinned"}, NEW value \in BOOLEAN,
               rooms' = [rooms EXCEPT ![c].who[u][field] = value]
        PROVE  RoomInv'
    <2> DEFINE old == rooms[c].who
               seat == [old[u] EXCEPT ![field] = value]
               who == [old EXCEPT ![u] = seat]
               room == [rooms[c] EXCEPT !.who = who]
    <2>1. DOMAIN rooms[c] = RoomFields /\ SoundSeats(old) /\ u \in DOMAIN old
      BY <1>3 DEF RoomInv, SoundRooms, Members
    <2>2. DOMAIN seat = SeatFields /\ seat.role = old[u].role
      BY <2>1 DEF SoundSeats, SeatFields
    <2>3. DOMAIN who = DOMAIN old /\ who[u] = seat /\ \A v \in DOMAIN old \ {u} : who[v] = old[v]
      BY <2>1
    <2>4. DOMAIN room = RoomFields /\ room.who = who /\ room.type = rooms[c].type
      <3> HIDE DEF who
      <3> QED
        BY <2>1 DEF RoomFields
    <2>5. rooms' = With(rooms, c, room)
      <3>1. rooms' = [rooms EXCEPT ![c] = room]
        BY <1>3
      <3> HIDE DEF room
      <3> QED
        BY <1>3, <3>1 DEF With
    <2> HIDE DEF old, seat, who, room
    <2>6. \A v \in DOMAIN who : v \in DOMAIN old /\ who[v].role = old[v].role /\ DOMAIN who[v] = SeatFields
      BY <2>1, <2>2, <2>3 DEF SoundSeats
    <2>7. SoundSeats(who)
      <3>1. PICK o \in DOMAIN old : \A v \in DOMAIN old : old[v].role = "owner" <=> v = o
        BY <2>1 DEF SoundSeats
      <3>2. o \in DOMAIN who /\ \A v \in DOMAIN who : who[v].role = "owner" <=> v = o
        BY <2>3, <2>6, <3>1
      <3> QED
        BY <2>6, <3>2 DEF SoundSeats
    <2> QED
      BY <1>1, <1>3, <2>4, <2>5, <2>6, <2>7, ChangingKeeps DEF old
  <1>4. CASE ~UNCHANGED rooms
    <2>1. c \in DOMAIN rooms /\ u \in Members(c)
      BY <1>4 DEF PersonalWrite, IsMember
    <2>2. CASE job[r].op = "hide"
      <3>1. rooms' = [rooms EXCEPT ![c].who[u].hidden = TRUE]
        BY <1>4, <2>2 DEF PersonalWrite
      <3> QED
        BY <1>3, <2>1, <3>1
    <2>3. CASE job[r].op # "hide"
      <3> DEFINE value == (job[r].op = "pin")
      <3>1. rooms' = [rooms EXCEPT ![c].who[u].pinned = value]
        BY <1>4, <2>3 DEF PersonalWrite
      <3>2. value \in BOOLEAN
        OBVIOUS
      <3> HIDE DEF value
      <3> QED
        BY <1>3, <2>1, <3>1, <3>2
    <2> QED
      BY <2>2, <2>3
  <1> QED
    BY <1>2, <1>4

LEMMA DestroyKeeps == ASSUME Ready, RoomInv, NEW r \in Requests, DestroyConversation(r) PROVE RoomInv'
  <1>1. DOMAIN rooms' \subseteq DOMAIN rooms /\ \A d \in DOMAIN rooms' : rooms'[d] = rooms[d]
    BY DEF DestroyConversation, Without, Restrict
  <1>2. job' = job /\ plugin' = plugin
    BY DEF DestroyConversation
  <1>3. DOMAIN pc' = Requests /\ \A o \in Requests : pc'[o] = pc[o] \/ pc'[o] = "answer"
    BY DEF Ready, DestroyConversation, Goto
  <1>4. SoundRooms' /\ OpenedInv'
    BY <1>1, <1>2, <1>3 DEF RoomInv, SoundRooms, OpenedInv, SessionIsWhole
  <1>5. NameInv'
    BY <1>1, <1>2, <1>3 DEF RoomInv, NameInv, Expecting
  <1>6. RemoveInv'
    BY <1>1, <1>2, <1>3 DEF RoomInv, RemoveInv, Leaver, Members
  <1> QED
    BY <1>4, <1>5, <1>6 DEF RoomInv

\* Somebody is about to be removed: a member, and not the owner.
LEMMA RemovalKeeps ==
    ASSUME Ready, RoomInv, NEW r \in Requests, UNCHANGED <<job, rooms, plugin>>, Goto(r, "remove"),
           IsMember(job[r].about, Leaver(r)), rooms[job[r].about].who[Leaver(r)].role # "owner"
    PROVE  RoomInv'
  <1>1. DOMAIN pc' = Requests /\ pc'[r] = "remove" /\ \A o \in Requests \ {r} : pc'[o] = pc[o]
    BY DEF Ready, Goto
  <1>2. SoundRooms' /\ OpenedInv'
    BY <1>1 DEF RoomInv, SoundRooms, OpenedInv, SessionIsWhole
  <1>3. NameInv'
    BY <1>1 DEF RoomInv, NameInv, Expecting, IsMember
  <1>4. RemoveInv'
    BY <1>1 DEF RoomInv, RemoveInv, Leaver, Members
  <1> QED
    BY <1>2, <1>3, <1>4 DEF RoomInv

LEMMA CheckersKeep ==
    ASSUME Ready, RoomInv, NEW r \in Requests, KickTarget(r) \/ LeaveRead(r) PROVE RoomInv'
  <1>1. UNCHANGED <<job, rooms, plugin>>
    BY DEF KickTarget, LeaveRead, peopleVars, roomVars
  <1>2. CASE Goto(r, "remove")
    <2>1. CASE KickTarget(r) /\ MayKick(job[r].about, job[r].whom)
      BY <1>1, <1>2, <2>1, RemovalKeeps DEF KickTarget, MayKick, Leaver, Is
    <2>2. CASE LeaveRead(r) /\ IsMember(job[r].about, job[r].user)
               /\ rooms[job[r].about].who[job[r].user].role # "owner"
      BY <1>1, <1>2, <2>2, RemovalKeeps DEF LeaveRead, Leaver, Is
    <2> QED
      BY <1>2, <2>1, <2>2 DEF KickTarget, LeaveRead, Goto, Ready
  <1>3. CASE Goto(r, "done") \/ Goto(r, "destroy")
    <2>1. Quietly
      BY <1>1, <1>3 DEF Ready, Goto, Quietly, Expecting, RoomInv, OpenedInv
    <2> QED
      BY <2>1, QuietlyKeeps
  <1> QED
    BY <1>2, <1>3 DEF KickTarget, LeaveRead

\* The steps that store nothing, or nothing but an app's list.
LEMMA OtherRoomStepsQuietly ==
    ASSUME Ready, RoomInv, NEW r \in Requests, RoomStep(r),
           ~CreateGroup(r), ~CommitSession(r), ~MakeDm(r), ~CreateAgentSession(r),
           ~(InviteWrite(r) /\ job[r].about \in DOMAIN rooms),
           ~(Rename(r) /\ job[r].about \in DOMAIN rooms),
           ~(RemoveParticipant(r) /\ job[r].about \in DOMAIN rooms),
           ~PersonalWrite(r), ~DestroyConversation(r), ~KickTarget(r), ~LeaveRead(r)
    PROVE  Quietly
  <1> USE DEF Ready, RoomInv, OpenedInv, Quietly, Expecting, Makers, Goto, Is, peopleVars, roomVars
  <1>1. CASE DmCheck(r) \/ FindDm(r)
    BY <1>1 DEF DmCheck, FindDm, AfterDm
  <1>2. CASE SessionCheck(r) \/ CallTimesOut(r)
    BY <1>2 DEF SessionCheck, CallTimesOut, AfterTimeout
  <1>3. CASE AgentCheck(r)
    BY <1>3 DEF AgentCheck
  <1>4. CASE \E answered \in BOOLEAN : PluginOpens(r, answered)
    BY <1>4 DEF PluginOpens
  <1>5. CASE CallerCheck(r) \/ KickCaller(r)
    BY <1>5 DEF CallerCheck, KickCaller
  <1>6. CASE InviteWrite(r) \/ Rename(r)
    BY <1>6 DEF InviteWrite, Rename, Refuse
  <1>7. CASE RemoveParticipant(r)
    BY <1>7 DEF RemoveParticipant
  <1>8. CASE Announce(r) \/ AllSent(r) \/ Answer(r)
    BY <1>8 DEF Announce, AllSent, Answer
  <1>9. CASE RoomFails(r)
    BY <1>9 DEF RoomFails, AfterDm
  <1>10. CASE Refresh(r)
    BY <1>10 DEF Refresh
  <1>11. CASE \E u \in Viewers : Deliver(r, u)
    BY <1>11 DEF Deliver
  <1> HIDE DEF Ready, RoomInv, OpenedInv, Quietly, Expecting, Makers, Goto, Is, peopleVars, roomVars
  <1> QED
    BY <1>1, <1>2, <1>3, <1>4, <1>5, <1>6, <1>7, <1>8, <1>9, <1>10, <1>11 DEF RoomStep

LEMMA RoomInvNext == Ready /\ RoomInv /\ [Next]_backendVars => RoomInv'
  <1> SUFFICES ASSUME Ready, RoomInv, [Next]_backendVars PROVE RoomInv'
    OBVIOUS
  <1>1. ASSUME NEW r \in Requests, RoomStep(r) PROVE RoomInv'
    BY <1>1, GroupKeeps, SessionKeeps, PlainRoomsKeep, InviteKeeps, RenameKeeps, RemoveKeeps,
       PersonalKeeps, DestroyKeeps, CheckersKeep, OtherRoomStepsQuietly, QuietlyKeeps
  <1>2. ASSUME NEW r \in Requests, AgentStep(r), UNCHANGED <<rooms, plugin>> PROVE RoomInv'
    BY <1>2, AgentStepQuietly, QuietlyKeeps
  <1>3. ASSUME \A r \in Requests : ~RoomStep(r) /\ ~AgentStep(r) PROVE RoomInv'
    BY <1>3, OthersSpareRooms, OthersQuietly, QuietlyKeeps
  <1>4. ASSUME NEW r \in Requests, AgentStep(r), ~\E o \in Requests : RoomStep(o)
        PROVE  UNCHANGED <<rooms, plugin>>
    BY <1>4, Steps DEF peopleVars, roomVars, ServerRestarts
  <1> QED
    BY <1>1, <1>2, <1>3, <1>4

LEMMA RoomsSafe == Spec => []RoomInv
  BY ReadyInit, ReadyNext, RoomInvInit, RoomInvNext, PTL DEF Spec

(* A session that a user sees exists at the plugin, for any number of sessions, late      *)
(* answers, timeouts and failures: nothing is committed before the plugin has answered    *)
(* (CreateAgentSessionTx).                                                                *)
THEOREM SessionsAreWhole == Spec => []SessionIsWhole
  <1>1. RoomInv => SessionIsWhole
    BY DEF RoomInv, OpenedInv
  <1> QED
    BY <1>1, RoomsSafe, PTL

(* A conversation has exactly one owner for as long as it exists, whoever is invited,     *)
(* kicked, leaves or destroys it at the same time: checks that were read before are still *)
(* true of the seat they read when they are acted on (group_handler.go).                  *)
THEOREM OneOwnerHolds == Spec => []OneOwner
  <1>1. ASSUME RoomInv, NEW c \in DOMAIN rooms
        PROVE  Cardinality({u \in Members(c) : rooms[c].who[u].role = "owner"}) = 1
    <2>1. PICK o \in DOMAIN rooms[c].who :
               \A v \in DOMAIN rooms[c].who : rooms[c].who[v].role = "owner" <=> v = o
      BY <1>1 DEF RoomInv, SoundRooms, SoundSeats
    <2>2. {u \in Members(c) : rooms[c].who[u].role = "owner"} = {o}
      BY <2>1 DEF Members
    <2> QED
      BY <2>2, FS_Singleton
  <1>2. RoomInv => OneOwner
    BY <1>1 DEF OneOwner
  <1> QED
    BY <1>2, RoomsSafe, PTL

(* ------------------------------------------------------------- private chats *)
DmTypes == {"dm_user_user", "dm_user_agent"}

\* Who made conversation c as one of a private chat is in it, or went away.
ChatInv ==
    \A c \in DOMAIN rooms : rooms[c].type \in DmTypes =>
        \A u \in rooms[c].pair : u \in Members(c) \/ <<c, u>> \in away

\* The chat that request r is about to make is there already.
MadeTwice(r, c) == rooms[c].type = DmType(r) /\ rooms[c].pair = DmPair(r)

\* The requests that found no chat and are about to make one: where there is one by now,
\* it was made at the same time, or somebody is away from it.
MakeInv ==
    \A r \in Requests : pc[r] = "make" =>
        \A c \in DOMAIN rooms : MadeTwice(r, c) =>
            DmPair(r) \in twins \/ \E u \in DmPair(r) : <<c, u>> \in away

DmInv == job \in Jobs /\ ChatInv /\ MakeInv /\ OneDm

LEMMA DmInvInit == Init => DmInv
  <1> SUFFICES ASSUME Init PROVE DmInv
    OBVIOUS
  <1>1. /\ rooms \in FirstRooms /\ job \in Jobs /\ pc = [r \in Requests |-> "new"]
        /\ twins = {} /\ away = {}
    BY DEF Init, HandlersInit, RoomsInit
  <1>2. ChatInv
    BY <1>1, RoomsAssumption DEF ChatInv, DmTypes, Members
  <1>3. MakeInv
    BY <1>1 DEF MakeInv
  <1>4. OneDm
    BY <1>1, RoomsAssumption DEF OneDm
  <1> QED
    BY <1>1, <1>2, <1>3, <1>4 DEF DmInv

\* A step leaves the private chats as they are but for who goes away from them, and makes none.
ChatsStay ==
    /\ away \subseteq away' /\ twins \subseteq twins'
    /\ \A c \in DOMAIN rooms' : rooms'[c].type \in DmTypes =>
          /\ c \in DOMAIN rooms
          /\ rooms'[c].type = rooms[c].type /\ rooms'[c].pair = rooms[c].pair
          /\ \A u \in Members(c) : u \in DOMAIN rooms'[c].who \/ <<c, u>> \in away'

LEMMA ChatsStayKeeps ==
    ASSUME DmInv, ChatsStay, job' = job,
           \A r \in Requests : pc'[r] = "make" => pc[r] = "make" \/ (pc[r] = "find" /\ FindDm(r))
    PROVE  DmInv'
  <1>1. ChatInv'
    BY DEF DmInv, ChatInv, ChatsStay, Members
  <1>2. MakeInv'
    <2> SUFFICES ASSUME NEW r \in Requests, pc'[r] = "make", NEW c \in DOMAIN rooms', MadeTwice(r, c)'
                 PROVE  DmPair(r) \in twins' \/ \E u \in DmPair(r) : <<c, u>> \in away'
      BY DEF MakeInv, DmPair, MakesAgent, Pair
    <2>1. DmType(r) \in DmTypes /\ rooms'[c].type = DmType(r) /\ rooms'[c].pair = DmPair(r)
      BY DEF MadeTwice, DmType, DmTypes, DmPair, MakesAgent, Pair
    <2>2. c \in DOMAIN rooms /\ rooms[c].type = DmType(r) /\ rooms[c].pair = DmPair(r)
      BY <2>1 DEF ChatsStay
    <2>3. CASE pc[r] = "make"
      BY <2>2, <2>3 DEF DmInv, MakeInv, MadeTwice, ChatsStay
    <2>4. CASE pc[r] = "find" /\ FindDm(r)
      <3>1. Dms(r) = {} \/ AfterDm(r) = "make"
        BY <2>4 DEF FindDm, Goto
      <3>2. ~(DmPair(r) \subseteq Members(c))
        BY <2>2, <3>1 DEF Dms, AfterDm
      <3> QED
        BY <2>1, <2>2, <3>2 DEF DmInv, ChatInv, ChatsStay
    <2> QED
      BY <2>3, <2>4
  <1>3. OneDm'
    BY DEF DmInv, OneDm, ChatsStay, DmTypes
  <1> QED
    BY <1>1, <1>2, <1>3 DEF DmInv

\* The pair of a new chat are its initiator and who is met.
LEMMA InitiatorInPair ==
    ASSUME job \in Jobs, NEW r \in Requests PROVE Initiator(r) \in DmPair(r)
  BY PeopleAssumption DEF Initiator, DmPair, MakesAgent, ByAgent, Pair

LEMMA MakeDmKeeps ==
    ASSUME Ready, RoomInv, DmInv, NEW r \in Requests, MakeDm(r) PROVE DmInv'
  <1> DEFINE room == NewRoom(DmType(r), Initiator(r), DmPair(r), "")
  <1>1. room.type = DmType(r) /\ room.pair = DmPair(r) /\ DOMAIN room.who = DmPair(r)
    BY InitiatorInPair DEF NewRoom, DmInv
  <1>2. r \notin DOMAIN rooms
    BY Expects DEF MakeDm, RoomInv, NameInv
  <1>3. /\ DOMAIN rooms' = DOMAIN rooms \cup {r} /\ rooms'[r] = room
        /\ \A c \in DOMAIN rooms : rooms'[c] = rooms[c]
    <2> HIDE DEF room
    <2>1. rooms' = With(rooms, r, room)
      BY DEF MakeDm, room
    <2> QED
      BY <1>2, <2>1 DEF With
  <1> HIDE DEF room
  <1>4. /\ job' = job /\ away' = away /\ twins \subseteq twins'
        /\ \A o \in Requests \ {r} : pc'[o] = pc[o]
        /\ pc'[r] # "make"
        /\ \A o \in Requests \ {r} : pc[o] = "make" /\ DmPair(o) = DmPair(r) => DmPair(r) \in twins'
    BY DEF MakeDm, Goto, Ready, AfterDm
  <1>5. ChatInv'
    BY <1>1, <1>3, <1>4 DEF DmInv, ChatInv, Members
  <1>6. MakeInv'
    <2> SUFFICES ASSUME NEW o \in Requests, pc'[o] = "make", NEW c \in DOMAIN rooms', MadeTwice(o, c)'
                 PROVE  DmPair(o) \in twins' \/ \E u \in DmPair(o) : <<c, u>> \in away'
      BY <1>4 DEF MakeInv, DmPair, MakesAgent, Pair
    <2>1. rooms'[c].type = DmType(o) /\ rooms'[c].pair = DmPair(o)
      BY <1>4 DEF MadeTwice, DmType, DmPair, MakesAgent, Pair
    <2>2. CASE c = r
      BY <1>1, <1>3, <1>4, <2>1, <2>2
    <2>3. CASE c # r
      BY <1>3, <1>4, <2>1, <2>3 DEF DmInv, MakeInv, MadeTwice
    <2> QED
      BY <2>2, <2>3
  <1>7. OneDm'
    <2>1. ASSUME NEW c \in DOMAIN rooms, rooms[c].type = DmType(r), rooms[c].pair = DmPair(r)
          PROVE  DmPair(r) \in twins' \/ \E u \in DmPair(r) : <<c, u>> \in away'
      BY <1>4, <2>1 DEF DmInv, MakeInv, MadeTwice, MakeDm
    <2> SUFFICES ASSUME NEW c \in DOMAIN rooms', NEW d \in DOMAIN rooms', c # d,
                        rooms'[c].type \in DmTypes, rooms'[d].type = rooms'[c].type,
                        rooms'[d].pair = rooms'[c].pair, rooms'[c].pair \notin twins',
                        \A u \in rooms'[c].pair : <<c, u>> \notin away' /\ <<d, u>> \notin away'
                 PROVE  FALSE
      BY DEF OneDm, DmTypes
    <2>2. CASE c = r
      BY <1>1, <1>3, <2>1, <2>2
    <2>3. CASE d = r
      BY <1>1, <1>3, <2>1, <2>3
    <2>4. CASE c # r /\ d # r
      BY <1>3, <1>4, <2>4 DEF DmInv, OneDm, DmTypes
    <2> QED
      BY <2>2, <2>3, <2>4
  <1> QED
    BY <1>4, <1>5, <1>6, <1>7 DEF DmInv

\* A room of another kind appears, or one changes and keeps its type, its pair and its members.
LEMMA WithRoomStay ==
    ASSUME NEW c, NEW room, rooms' = With(rooms, c, room), away \subseteq away', twins \subseteq twins',
           room.type \in DmTypes =>
               /\ c \in DOMAIN rooms
               /\ room.type = rooms[c].type /\ room.pair = rooms[c].pair
               /\ \A u \in Members(c) : u \in DOMAIN room.who \/ <<c, u>> \in away'
    PROVE  ChatsStay
  <1>1. /\ DOMAIN rooms' = DOMAIN rooms \cup {c} /\ rooms'[c] = room
        /\ \A d \in DOMAIN rooms \ {c} : rooms'[d] = rooms[d]
    BY DEF With
  <1> QED
    BY <1>1 DEF ChatsStay, Members

LEMMA SameRoomsStay ==
    ASSUME rooms' = rooms, away \subseteq away', twins \subseteq twins' PROVE ChatsStay
  BY DEF ChatsStay, Members

\* A field of conversation c is written, with the seats in it that remain.
LEMMA ChangesStay ==
    ASSUME RoomInv, NEW c \in DOMAIN rooms, NEW value, NEW field \in {"title", "meta", "who"},
           rooms' = With(rooms, c, [[rooms[c] EXCEPT ![field] = value] EXCEPT !.rev = @ + 1]),
           away \subseteq away', twins \subseteq twins',
           field = "who" => \A u \in Members(c) : u \in DOMAIN value \/ <<c, u>> \in away'
    PROVE  ChatsStay
  <1> DEFINE room == [[rooms[c] EXCEPT ![field] = value] EXCEPT !.rev = @ + 1]
  <1>1. DOMAIN rooms[c] = RoomFields
    BY DEF RoomInv, SoundRooms
  <1>2. /\ room.type = rooms[c].type /\ room.pair = rooms[c].pair
        /\ room.who = IF field = "who" THEN value ELSE rooms[c].who
    BY <1>1 DEF RoomFields
  <1>3. rooms' = With(rooms, c, room)
    OBVIOUS
  <1> HIDE DEF room
  <1> QED
    BY <1>2, <1>3, WithRoomStay DEF Members

LEMMA NewRoomsStay ==
    ASSUME Ready, NEW r \in Requests,
           CreateGroup(r) \/ CommitSession(r) \/ CreateAgentSession(r)
    PROVE  ChatsStay
  <1>1. ASSUME NEW type \in {"group", "session"}, NEW owner, NEW others, NEW title,
               \/ rooms' = With(rooms, r, NewRoom(type, owner, others, title))
               \/ rooms' = With(rooms, r, [NewRoom(type, owner, others, title) EXCEPT !.rev = @ + 1]),
               away' = away, twins' = twins
        PROVE  ChatsStay
    <2> DEFINE new == NewRoom(type, owner, others, title)
               room == [new EXCEPT !.rev = @ + 1]
    <2>1. DOMAIN new = RoomFields /\ new.type = type
      BY NewRoomSound
    <2>2. room.type = type
      <3> HIDE DEF new
      <3> QED
        BY <2>1 DEF RoomFields
    <2>3. rooms' = With(rooms, r, new) \/ rooms' = With(rooms, r, room)
      BY <1>1
    <2> HIDE DEF new, room
    <2> QED
      BY <1>1, <2>1, <2>2, <2>3, WithRoomStay DEF DmTypes
  <1>2. CASE CreateGroup(r)
    <2>1. /\ rooms' = With(rooms, r, [NewRoom("group", job[r].user, job[r].whom, "new") EXCEPT !.rev = @ + 1])
          /\ away' = away /\ twins' = twins
      BY <1>2 DEF CreateGroup, Changes
    <2> QED
      BY <1>1, <2>1
  <1>3. CASE CommitSession(r)
    <2> DEFINE others == {job[r].whom}
    <2>1. /\ rooms' = With(rooms, r, [NewRoom("session", job[r].user, others, "") EXCEPT !.rev = @ + 1])
          /\ away' = away /\ twins' = twins
      BY <1>3 DEF CommitSession, Changes
    <2> HIDE DEF others
    <2> QED
      BY <1>1, <2>1
  <1>4. CASE CreateAgentSession(r)
    <2> DEFINE others == {job[r].user}
    <2>1. /\ rooms' = With(rooms, r, NewRoom("session", job[r].whom, others, ""))
          /\ away' = away /\ twins' = twins
      BY <1>4 DEF CreateAgentSession
    <2> HIDE DEF others
    <2> QED
      BY <1>1, <2>1
  <1> QED
    BY <1>2, <1>3, <1>4

LEMMA InviteStays ==
    ASSUME Ready, RoomInv, NEW r \in Requests, InviteWrite(r) PROVE ChatsStay
  <1> DEFINE c == job[r].about
             who == SeatsWith(rooms[c].who, job[r].whom)
  <1>1. CASE c \in DOMAIN rooms
    <2>1. /\ rooms' = With(rooms, c, [[rooms[c] EXCEPT !.who = who] EXCEPT !.rev = @ + 1])
          /\ away' = away /\ twins' = twins
      BY <1>1 DEF InviteWrite, Changes
    <2>2. Members(c) \subseteq DOMAIN who
      BY DEF SeatsWith, With, Members
    <2> HIDE DEF who, c
    <2> QED
      BY <1>1, <2>1, <2>2, ChangesStay
  <1>2. CASE c \notin DOMAIN rooms
    BY <1>2, SameRoomsStay DEF InviteWrite, Refuse, peopleVars, roomVars
  <1> QED
    BY <1>1, <1>2

LEMMA RenameStays ==
    ASSUME Ready, RoomInv, NEW r \in Requests, Rename(r) PROVE ChatsStay
  <1> DEFINE c == job[r].about
             title == Coalesce(job[r].whom, rooms[c].title)
             meta == job[r].whom
  <1>1. CASE c \in DOMAIN rooms
    <2>1. /\ \/ rooms' = With(rooms, c, [[rooms[c] EXCEPT !.title = title] EXCEPT !.rev = @ + 1])
             \/ rooms' = With(rooms, c, [[rooms[c] EXCEPT !.meta = meta] EXCEPT !.rev = @ + 1])
          /\ away' = away /\ twins' = twins
      BY <1>1 DEF Rename, Changes
    <2> HIDE DEF c, title, meta
    <2> QED
      BY <1>1, <2>1, ChangesStay
  <1>2. CASE c \notin DOMAIN rooms
    BY <1>2, SameRoomsStay DEF Rename, Refuse, peopleVars, roomVars
  <1> QED
    BY <1>1, <1>2

\* Who is removed is away.
LEMMA RemoveStays ==
    ASSUME Ready, RoomInv, NEW r \in Requests, RemoveParticipant(r) PROVE ChatsStay
  <1> DEFINE c == job[r].about
             who == Without(rooms[c].who, Leaver(r))
  <1>1. away' = away \cup {<<c, Leaver(r)>>} /\ twins' = twins
    BY DEF RemoveParticipant
  <1>2. CASE c \in DOMAIN rooms
    <2>1. rooms' = With(rooms, c, [[rooms[c] EXCEPT !.who = who] EXCEPT !.rev = @ + 1])
      BY <1>2 DEF RemoveParticipant, Changes
    <2>2. \A u \in Members(c) : u \in DOMAIN who \/ <<c, u>> \in away'
      BY <1>1 DEF Without, Restrict, Members
    <2> HIDE DEF who, c
    <2> QED
      BY <1>1, <1>2, <2>1, <2>2, ChangesStay
  <1>3. CASE c \notin DOMAIN rooms
    BY <1>1, <1>3, SameRoomsStay DEF RemoveParticipant
  <1> QED
    BY <1>2, <1>3

LEMMA PersonalStays ==
    ASSUME Ready, RoomInv, NEW r \in Requests, PersonalWrite(r) PROVE ChatsStay
  <1> DEFINE c == job[r].about
             u == job[r].user
  <1>1. away' = away /\ twins' = twins
    BY DEF PersonalWrite
  <1>2. ASSUME c \in DOMAIN rooms, NEW field \in {"hidden", "pinned"}, NEW value,
               rooms' = [rooms EXCEPT ![c].who[u][field] = value]
        PROVE  ChatsStay
    <2>1. DOMAIN rooms[c] = RoomFields
      BY <1>2 DEF RoomInv, SoundRooms
    <2>2. /\ DOMAIN rooms' = DOMAIN rooms
          /\ \A d \in DOMAIN rooms : /\ rooms'[d].type = rooms[d].type /\ rooms'[d].pair = rooms[d].pair
                                     /\ DOMAIN rooms'[d].who = DOMAIN rooms[d].who
      BY <1>2, <2>1 DEF RoomFields
    <2> QED
      BY <1>1, <2>2 DEF ChatsStay, Members
  <1>3. \/ UNCHANGED rooms
        \/ c \in DOMAIN rooms /\ \/ rooms' = [rooms EXCEPT ![c].who[u].hidden = TRUE]
                                 \/ rooms' = [rooms EXCEPT ![c].who[u].pinned = (job[r].op = "pin")]
    BY DEF PersonalWrite, IsMember
  <1> QED
    BY <1>1, <1>2, <1>3, SameRoomsStay

LEMMA DestroyStays ==
    ASSUME NEW r \in Requests, DestroyConversation(r) PROVE ChatsStay
  <1>1. away' = away /\ twins' = twins /\ rooms' = Without(rooms, job[r].about)
    BY DEF DestroyConversation
  <1> QED
    BY <1>1 DEF ChatsStay, Members, Without, Restrict

LEMMA RoomStepStays ==
    ASSUME Ready, RoomInv, NEW r \in Requests, RoomStep(r), ~MakeDm(r) PROVE ChatsStay
  <1> USE SameRoomsStay DEF peopleVars, roomVars
  <1>1. CASE DmCheck(r) \/ FindDm(r) \/ SessionCheck(r) \/ CallTimesOut(r) \/ CallerCheck(r)
             \/ KickCaller(r) \/ KickTarget(r) \/ LeaveRead(r) \/ Announce(r) \/ AllSent(r)
    BY <1>1 DEF DmCheck, FindDm, SessionCheck, CallTimesOut, CallerCheck, KickCaller, KickTarget,
                LeaveRead, Announce, AllSent
  <1>2. CASE AgentCheck(r) \/ Answer(r) \/ RoomFails(r) \/ Refresh(r)
    BY <1>2 DEF AgentCheck, Answer, RoomFails, Refresh
  <1>3. CASE \E answered \in BOOLEAN : PluginOpens(r, answered)
    BY <1>3 DEF PluginOpens
  <1>4. CASE \E u \in Viewers : Deliver(r, u)
    BY <1>4 DEF Deliver
  <1> QED
    BY <1>1, <1>2, <1>3, <1>4, NewRoomsStay, InviteStays, RenameStays, RemoveStays, PersonalStays,
       DestroyStays DEF RoomStep

\* A request finds that there is no chat before it makes one.
LEMMA FindsFirst ==
    ASSUME Ready, NEW r \in Requests, RoomStep(r), ~MakeDm(r), pc'[r] = "make" PROVE FindDm(r)
  <1>1. pc[r] \in {"find", "make"}
    BY RoomMoves
  <1> USE <1>1 DEF Is, Goto, Ready
  <1>2. CASE RoomFails(r)
    BY <1>2 DEF RoomFails, AfterDm
  <1>3. CASE DmCheck(r) \/ CreateGroup(r) \/ SessionCheck(r) \/ CallTimesOut(r) \/ CommitSession(r)
             \/ AgentCheck(r) \/ CreateAgentSession(r) \/ CallerCheck(r) \/ InviteWrite(r) \/ Rename(r)
    BY <1>3 DEF DmCheck, CreateGroup, SessionCheck, CallTimesOut, CommitSession, AgentCheck,
                CreateAgentSession, CallerCheck, InviteWrite, Rename
  <1>4. CASE PersonalWrite(r) \/ KickCaller(r) \/ KickTarget(r) \/ LeaveRead(r) \/ RemoveParticipant(r)
             \/ DestroyConversation(r) \/ Announce(r) \/ AllSent(r) \/ Answer(r) \/ Refresh(r)
    BY <1>4 DEF PersonalWrite, KickCaller, KickTarget, LeaveRead, RemoveParticipant,
                DestroyConversation, Announce, AllSent, Answer, Refresh
  <1>5. CASE \E answered \in BOOLEAN : PluginOpens(r, answered)
    BY <1>5 DEF PluginOpens
  <1>6. CASE \E u \in Viewers : Deliver(r, u)
    BY <1>6 DEF Deliver
  <1> QED
    BY <1>2, <1>3, <1>4, <1>5, <1>6 DEF RoomStep

LEMMA DmInvNext == Ready /\ RoomInv /\ DmInv /\ [Next]_backendVars => DmInv'
  <1> SUFFICES ASSUME Ready, RoomInv, DmInv, [Next]_backendVars PROVE DmInv'
    OBVIOUS
  <1>1. ASSUME NEW r \in Requests, RoomStep(r) PROVE DmInv'
    <2>1. CASE MakeDm(r)
      BY <2>1, MakeDmKeeps
    <2>2. CASE ~MakeDm(r)
      <3>1. ChatsStay
        BY <1>1, <2>2, RoomStepStays
      <3>2. job' = job /\ \A o \in Requests \ {r} : pc'[o] = pc[o]
        BY <1>1, RoomMoves DEF Moves
      <3>3. pc'[r] = "make" => FindDm(r) /\ pc[r] = "find"
        BY <1>1, <2>2, FindsFirst DEF FindDm
      <3> QED
        BY <3>1, <3>2, <3>3, ChatsStayKeeps
    <2> QED
      BY <2>1, <2>2
  <1>2. ASSUME \A r \in Requests : ~RoomStep(r) PROVE UNCHANGED <<rooms, away, twins>>
    <2>1. ASSUME NEW l, LoadStep(l) PROVE UNCHANGED <<rooms, away, twins>>
      BY <2>1 DEF LoadStep, Recall, ListRooms, LoadMembers, Show, Insert, LoadFails
    <2> QED
      BY <1>2, <2>1 DEF Next, backendVars, peopleVars, roomVars, ServerRestarts, PeopleNext, LoadStep
  <1>3. ASSUME NEW r \in Requests, AgentStep(r), UNCHANGED <<rooms, away, twins>> PROVE DmInv'
    <2>1. Moves(r, AgentStages, AgentStages \cup {"find"})
      BY <1>3, AgentMoves
    <2>2. job' = job /\ \A o \in Requests : pc'[o] = "make" => pc[o] = "make"
      BY <2>1 DEF Moves, AgentStages
    <2> QED
      BY <1>3, <2>2, SameRoomsStay, ChatsStayKeeps
  <1>4. ASSUME \A r \in Requests : ~RoomStep(r) /\ ~AgentStep(r) PROVE DmInv'
    <2>1. Spares(RoomStages \cup {"create"})
      BY <1>4, OthersSpareRooms
    <2>2. job' = job /\ \A o \in Requests : pc'[o] = "make" => pc[o] = "make"
      BY <2>1 DEF Spares, RoomStages
    <2> QED
      BY <1>2, <1>4, <2>2, SameRoomsStay, ChatsStayKeeps
  <1> QED
    BY <1>1, <1>2, <1>3, <1>4

LEMMA ChatsSafe == Spec => []DmInv
  BY ReadyInit, ReadyNext, RoomInvInit, RoomInvNext, DmInvInit, DmInvNext, PTL DEF Spec

(* Two users, or a user and an agent, have one private chat, however many of them open it, *)
(* unless two requests made it at the same time or one of the pair was away from one of    *)
(* the two: FindOrCreateDM looks for a chat with both in it, then makes one.               *)
THEOREM OneDmHolds == Spec => []OneDm
  <1>1. DmInv => OneDm
    BY DEF DmInv
  <1> QED
    BY <1>1, ChatsSafe, PTL

(* ---------------------------------------------------------------- the types *)
RoomTypes == DmTypes \cup {"group", "session"}
RoomsTyped ==
    \A c \in DOMAIN rooms : c \in Requests /\ Members(c) \subseteq People /\ rooms[c].type \in RoomTypes

\* Whose handler is where.
PlaceInv ==
    \A r \in Requests :
        /\ pc[r] \in {"find", "make"} => job[r].op \in {"dm", "agent", "adopt"}
        /\ pc[r] \in {"call", "late", "commit"} => job[r].op = "session"
        /\ pc[r] = "attach" => job[r].op = "agent-session"
        /\ pc[r] = "create" => job[r].op = "adopt"

\* A change that is about to be told, or is being told.
IsChange(change) ==
    /\ DOMAIN change = {"room", "rev", "event", "to"}
    /\ change.event.kind \in {"join", "leave", "title"}
ChangeInv == \A r \in Requests : pc[r] \in {"announce", "send"} => IsChange(snap[r])

\* The apps list conversations, and what is loaded for them are conversations.
IsLoad(l) ==
    /\ DOMAIN l = {"user", "by", "at", "had", "fresh", "over"}
    /\ DOMAIN l.fresh \subseteq Requests
AppInv ==
    /\ DOMAIN app = Viewers /\ DOMAIN store = Viewers
    /\ \A u \in Viewers : DOMAIN app[u] \subseteq Requests /\ DOMAIN store[u] \subseteq Requests
    /\ \A l \in loads : IsLoad(l)

PeopleInv == job \in Jobs /\ RoomsTyped /\ plugin \subseteq Requests /\ PlaceInv /\ ChangeInv /\ AppInv

LEMMA PeopleInvInit == Init => PeopleInv
  <1> SUFFICES ASSUME Init PROVE PeopleInv
    OBVIOUS
  <1>1. /\ rooms \in FirstRooms /\ job \in Jobs /\ pc = [r \in Requests |-> "new"]
        /\ plugin = {} /\ loads = {} /\ app = [u \in Viewers |-> [c \in Listed(u) |-> Entry(c)]]
        /\ store = app
    BY DEF Init, HandlersInit, RoomsInit
  <1>2. RoomsTyped
    BY <1>1, RoomsAssumption DEF RoomsTyped, RoomTypes, DmTypes, Members
  <1>3. PlaceInv /\ ChangeInv
    BY <1>1 DEF PlaceInv, ChangeInv
  <1>4. \A u \in Viewers : Listed(u) \subseteq Requests
    BY <1>2 DEF Listed, RoomsTyped
  <1>5. AppInv
    BY <1>1, <1>4 DEF AppInv
  <1> QED
    BY <1>1, <1>2, <1>3, <1>5 DEF PeopleInv

LEMMA WithRoomTyped ==
    ASSUME RoomsTyped, NEW c \in Requests, NEW room, rooms' = With(rooms, c, room),
           room.type \in RoomTypes, DOMAIN room.who \subseteq People
    PROVE  RoomsTyped'
  <1>1. /\ DOMAIN rooms' = DOMAIN rooms \cup {c} /\ rooms'[c] = room
        /\ \A d \in DOMAIN rooms \ {c} : rooms'[d] = rooms[d]
    BY DEF With
  <1> QED
    BY <1>1 DEF RoomsTyped, Members

LEMMA NewRoomTyped ==
    ASSUME RoomsTyped, NEW r \in Requests, NEW type \in RoomTypes,
           NEW owner \in People, NEW others \in SUBSET People, NEW title,
           \/ rooms' = With(rooms, r, NewRoom(type, owner, others, title))
           \/ rooms' = With(rooms, r, [NewRoom(type, owner, others, title) EXCEPT !.rev = @ + 1])
    PROVE  RoomsTyped'
  <1> DEFINE new == NewRoom(type, owner, others, title)
             room == [new EXCEPT !.rev = @ + 1]
  <1>1. DOMAIN new = RoomFields /\ new.type = type /\ DOMAIN new.who = {owner} \cup others
    BY NewRoomSound DEF NewRoom
  <1>2. room.type = type /\ DOMAIN room.who = {owner} \cup others
    <2> HIDE DEF new
    <2> QED
      BY <1>1 DEF RoomFields
  <1>3. rooms' = With(rooms, r, new) \/ rooms' = With(rooms, r, room)
    OBVIOUS
  <1> HIDE DEF new, room
  <1> QED
    BY <1>1, <1>2, <1>3, WithRoomTyped

LEMMA ChangesTyped ==
    ASSUME RoomInv, RoomsTyped, NEW c \in DOMAIN rooms, NEW value, NEW field \in {"title", "meta", "who"},
           rooms' = With(rooms, c, [[rooms[c] EXCEPT ![field] = value] EXCEPT !.rev = @ + 1]),
           field = "who" => DOMAIN value \subseteq People
    PROVE  RoomsTyped'
  <1> DEFINE room == [[rooms[c] EXCEPT ![field] = value] EXCEPT !.rev = @ + 1]
  <1>1. DOMAIN rooms[c] = RoomFields
    BY DEF RoomInv, SoundRooms
  <1>2. room.type = rooms[c].type /\ room.who = IF field = "who" THEN value ELSE rooms[c].who
    BY <1>1 DEF RoomFields
  <1>3. rooms' = With(rooms, c, room) /\ c \in Requests /\ rooms[c].type \in RoomTypes
        /\ DOMAIN rooms[c].who \subseteq People
    BY DEF RoomsTyped, Members
  <1> HIDE DEF room
  <1> QED
    BY <1>2, <1>3, WithRoomTyped

LEMMA NewRoomsTyped ==
    ASSUME PeopleInv, NEW r \in Requests,
           MakeDm(r) \/ CreateGroup(r) \/ CommitSession(r) \/ CreateAgentSession(r)
    PROVE  RoomsTyped'
  <1>1. RoomsTyped /\ job \in Jobs
    BY DEF PeopleInv
  <1>2. job[r].user \in People
    BY <1>1, PeopleAssumption
  <1>3. CASE MakeDm(r)
    <2>1. rooms' = With(rooms, r, NewRoom(DmType(r), Initiator(r), DmPair(r), ""))
      BY <1>3 DEF MakeDm
    <2>2. job[r].op \in {"dm", "agent", "adopt"}
      BY <1>3 DEF MakeDm, PeopleInv, PlaceInv
    <2>3. DmPair(r) \in SUBSET People
      BY <1>1, <1>2, <2>2, PeopleAssumption DEF DmPair, MakesAgent, Pair, People
    <2>4. Initiator(r) \in People
      BY <1>1, <2>3, InitiatorInPair
    <2>5. DmType(r) \in RoomTypes
      BY DEF DmType, RoomTypes, DmTypes
    <2> QED
      BY <1>1, <2>1, <2>3, <2>4, <2>5, NewRoomTyped
  <1>4. CASE CreateGroup(r)
    <2>1. rooms' = With(rooms, r, [NewRoom("group", job[r].user, job[r].whom, "new") EXCEPT !.rev = @ + 1])
      BY <1>4 DEF CreateGroup, Changes
    <2>2. job[r].whom \in SUBSET People
      BY <1>1, <1>4, PeopleAssumption DEF CreateGroup, Is
    <2> QED
      BY <1>1, <1>2, <2>1, <2>2, NewRoomTyped DEF RoomTypes
  <1>5. CASE CommitSession(r)
    <2> DEFINE others == {job[r].whom}
    <2>1. rooms' = With(rooms, r, [NewRoom("session", job[r].user, others, "") EXCEPT !.rev = @ + 1])
      BY <1>5 DEF CommitSession, Changes
    <2>2. others \in SUBSET People
      BY <1>1, <1>5, PeopleAssumption DEF CommitSession, PeopleInv, PlaceInv
    <2> HIDE DEF others
    <2> QED
      BY <1>1, <1>2, <2>1, <2>2, NewRoomTyped DEF RoomTypes
  <1>6. CASE CreateAgentSession(r)
    <2> DEFINE others == {job[r].user}
    <2>1. rooms' = With(rooms, r, NewRoom("session", job[r].whom, others, ""))
      BY <1>6 DEF CreateAgentSession
    <2>2. others \in SUBSET People /\ job[r].whom \in People
      BY <1>1, <1>2, <1>6, PeopleAssumption DEF CreateAgentSession, PeopleInv, PlaceInv
    <2> HIDE DEF others
    <2> QED
      BY <1>1, <2>1, <2>2, NewRoomTyped DEF RoomTypes
  <1> QED
    BY <1>3, <1>4, <1>5, <1>6

LEMMA ChangedRoomsTyped ==
    ASSUME RoomInv, PeopleInv, NEW r \in Requests,
           InviteWrite(r) \/ Rename(r) \/ RemoveParticipant(r) \/ PersonalWrite(r) \/ DestroyConversation(r)
    PROVE  RoomsTyped'
  <1> DEFINE c == job[r].about
  <1>1. RoomsTyped /\ job \in Jobs
    BY DEF PeopleInv
  <1>2. rooms' = rooms => RoomsTyped'
    BY <1>1 DEF RoomsTyped, Members
  <1>3. ASSUME InviteWrite(r), c \in DOMAIN rooms PROVE RoomsTyped'
    <2> DEFINE who == SeatsWith(rooms[c].who, job[r].whom)
    <2>1. rooms' = With(rooms, c, [[rooms[c] EXCEPT !.who = who] EXCEPT !.rev = @ + 1])
      BY <1>3 DEF InviteWrite, Changes
    <2>2. job[r].whom \in People
      BY <1>1, <1>3, PeopleAssumption DEF InviteWrite, Is
    <2>3. DOMAIN who \subseteq Members(c) \cup {job[r].whom}
      BY DEF SeatsWith, With, Members
    <2>4. DOMAIN who \subseteq People
      BY <1>1, <1>3, <2>2, <2>3 DEF RoomsTyped
    <2> HIDE DEF who, c
    <2> QED
      BY <1>1, <1>3, <2>1, <2>4, ChangesTyped
  <1>4. ASSUME Rename(r), c \in DOMAIN rooms PROVE RoomsTyped'
    <2> DEFINE title == Coalesce(job[r].whom, rooms[c].title)
               meta == job[r].whom
    <2>1. \/ rooms' = With(rooms, c, [[rooms[c] EXCEPT !.title = title] EXCEPT !.rev = @ + 1])
          \/ rooms' = With(rooms, c, [[rooms[c] EXCEPT !.meta = meta] EXCEPT !.rev = @ + 1])
      BY <1>4 DEF Rename, Changes
    <2> HIDE DEF c, title, meta
    <2> QED
      BY <1>1, <1>4, <2>1, ChangesTyped
  <1>5. ASSUME RemoveParticipant(r), c \in DOMAIN rooms PROVE RoomsTyped'
    <2> DEFINE who == Without(rooms[c].who, Leaver(r))
    <2>1. rooms' = With(rooms, c, [[rooms[c] EXCEPT !.who = who] EXCEPT !.rev = @ + 1])
      BY <1>5 DEF RemoveParticipant, Changes
    <2>2. DOMAIN who \subseteq Members(c)
      BY DEF Without, Restrict, Members
    <2>3. DOMAIN who \subseteq People
      BY <1>1, <1>5, <2>2 DEF RoomsTyped
    <2> HIDE DEF who, c
    <2> QED
      BY <1>1, <1>5, <2>1, <2>3, ChangesTyped
  <1>6. CASE PersonalWrite(r)
    <2>1. ASSUME c \in DOMAIN rooms, NEW field \in {"hidden", "pinned"}, NEW value, NEW u,
                 rooms' = [rooms EXCEPT ![c].who[u][field] = value]
          PROVE  RoomsTyped'
      <3>1. DOMAIN rooms[c] = RoomFields
        BY <2>1 DEF RoomInv, SoundRooms
      <3>2. /\ DOMAIN rooms' = DOMAIN rooms
            /\ \A d \in DOMAIN rooms : /\ rooms'[d].type = rooms[d].type
                                       /\ DOMAIN rooms'[d].who = DOMAIN rooms[d].who
        BY <2>1, <3>1 DEF RoomFields
      <3> QED
        BY <1>1, <3>2 DEF RoomsTyped, Members
    <2>2. \/ UNCHANGED rooms
          \/ c \in DOMAIN rooms /\ \/ rooms' = [rooms EXCEPT ![c].who[job[r].user].hidden = TRUE]
                                   \/ rooms' = [rooms EXCEPT ![c].who[job[r].user].pinned = (job[r].op = "pin")]
      BY <1>6 DEF PersonalWrite, IsMember
    <2> QED
      BY <1>2, <2>1, <2>2
  <1>7. CASE DestroyConversation(r)
    BY <1>1, <1>7 DEF DestroyConversation, Without, Restrict, RoomsTyped, Members
  <1>8. ASSUME c \notin DOMAIN rooms, InviteWrite(r) \/ Rename(r) \/ RemoveParticipant(r)
        PROVE  rooms' = rooms
    BY <1>8 DEF InviteWrite, Rename, RemoveParticipant, Refuse, peopleVars, roomVars
  <1> QED
    BY <1>2, <1>3, <1>4, <1>5, <1>6, <1>7, <1>8

LEMMA PlaceKept ==
    ASSUME Ready, PlaceInv, NEW r \in Requests, job' = job,
           \A o \in Requests \ {r} : pc'[o] = pc[o],
           pc'[r] \in {"find", "make"} => job[r].op \in {"dm", "agent", "adopt"},
           pc'[r] \in {"call", "late", "commit"} => job[r].op = "session",
           pc'[r] = "attach" => job[r].op = "agent-session",
           pc'[r] = "create" => job[r].op = "adopt"
    PROVE  PlaceInv'
  BY DEF PlaceInv

\* A step of conversations puts a handler where its kind belongs, keeps a change whole, opens
\* sessions under the names of requests and stores rooms, if any, as above.
LEMMA RoomStepTyped ==
    ASSUME Ready, RoomInv, PeopleInv, NEW r \in Requests, RoomStep(r)
    PROVE  /\ PlaceInv' /\ RoomsTyped' /\ plugin' \subseteq Requests
           /\ pc'[r] \in {"announce", "send"} => IsChange(snap'[r])
  <1> DEFINE Places == /\ pc'[r] \in {"find", "make"} => job[r].op \in {"dm", "agent", "adopt"}
                       /\ pc'[r] \in {"call", "late", "commit"} => job[r].op = "session"
                       /\ pc'[r] = "attach" => job[r].op = "agent-session"
                       /\ pc'[r] = "create" => job[r].op = "adopt"
             Tells == pc'[r] \in {"announce", "send"} => IsChange(snap'[r])
             Result == Places /\ Tells /\ plugin' \subseteq Requests
  <1>1. job' = job /\ \A o \in Requests \ {r} : pc'[o] = pc[o]
    BY RoomMoves DEF Moves
  <1>2. RoomsTyped /\ plugin \subseteq Requests /\ PlaceInv /\ (rooms' = rooms => RoomsTyped')
    BY DEF PeopleInv, RoomsTyped, Members
  <1>3. pc[r] \in {"announce", "send"} => IsChange(snap[r])
    BY DEF PeopleInv, ChangeInv
  <1>4. ASSUME NEW c, NEW room, NEW event, Changes(r, c, room, event), event.kind \in {"join", "leave", "title"}
        PROVE  Places /\ Tells
    BY <1>4 DEF Changes, Goto, Keep, Ready, IsChange
  <1> USE <1>2 DEF Ready, Goto, Keep, Is, peopleVars, roomVars, PlaceInv
  <1>5. CASE DmCheck(r) \/ FindDm(r) \/ MakeDm(r)
    <2>1. Result
      BY <1>5 DEF DmCheck, FindDm, MakeDm, AfterDm
    <2>2. RoomsTyped'
      BY <1>5, NewRoomsTyped DEF DmCheck, FindDm
    <2> QED
      BY <1>1, <2>1, <2>2, PlaceKept
  <1>6. CASE CreateGroup(r) \/ CommitSession(r)
    <2>1. \E room : Changes(r, r, room, Joins(job[r].user))
      BY <1>6 DEF CreateGroup, CommitSession
    <2>2. Places /\ Tells
      <3>1. Joins(job[r].user).kind = "join"
        BY DEF Joins
      <3> HIDE DEF Places, Tells
      <3> QED
        BY <1>4, <2>1, <3>1
    <2>3. plugin' \subseteq Requests
      BY <1>6 DEF CreateGroup, CommitSession
    <2> QED
      BY <1>1, <1>6, <2>2, <2>3, PlaceKept, NewRoomsTyped
  <1>7. CASE SessionCheck(r) \/ CallTimesOut(r)
    <2>1. Result /\ rooms' = rooms
      BY <1>7 DEF SessionCheck, CallTimesOut, AfterTimeout
    <2> QED
      BY <1>1, <2>1, PlaceKept
  <1>8. CASE AgentCheck(r) \/ CreateAgentSession(r)
    <2>1. Result
      BY <1>8 DEF AgentCheck, CreateAgentSession
    <2>2. RoomsTyped'
      BY <1>8, NewRoomsTyped DEF AgentCheck
    <2> QED
      BY <1>1, <2>1, <2>2, PlaceKept
  <1>9. CASE \E answered \in BOOLEAN : PluginOpens(r, answered)
    <2>1. Result /\ rooms' = rooms
      BY <1>9 DEF PluginOpens
    <2> QED
      BY <1>1, <2>1, PlaceKept
  <1>10. CASE CallerCheck(r) \/ KickCaller(r) \/ KickTarget(r) \/ LeaveRead(r)
    <2>1. Result /\ rooms' = rooms
      BY <1>10 DEF CallerCheck, KickCaller, KickTarget, LeaveRead
    <2> QED
      BY <1>1, <2>1, PlaceKept
  <1>11. CASE InviteWrite(r)
    <2>1. Result
      BY <1>4, <1>11 DEF InviteWrite, Refuse, Joins
    <2> QED
      BY <1>1, <1>11, <2>1, PlaceKept, ChangedRoomsTyped
  <1>12. CASE Rename(r)
    <2>1. ASSUME NEW title PROVE Retitles(title).kind = "title"
      BY DEF Retitles
    <2>2. \/ \E c, room, title : Changes(r, c, room, Retitles(title))
          \/ Refuse(r)
      BY <1>12 DEF Rename
    <2>3. Places /\ Tells
      <3>1. CASE \E c, room, title : Changes(r, c, room, Retitles(title))
        <4> HIDE DEF Places, Tells
        <4> QED
          BY <1>4, <2>1, <3>1
      <3>2. CASE Refuse(r)
        BY <3>2 DEF Refuse
      <3> QED
        BY <2>2, <3>1, <3>2
    <2>4. plugin' \subseteq Requests
      BY <1>12 DEF Rename, Refuse
    <2> QED
      BY <1>1, <1>12, <2>3, <2>4, PlaceKept, ChangedRoomsTyped
  <1>13. CASE RemoveParticipant(r)
    <2>1. Result
      BY <1>4, <1>13 DEF RemoveParticipant, Leaves
    <2> QED
      BY <1>1, <1>13, <2>1, PlaceKept, ChangedRoomsTyped
  <1>14. CASE PersonalWrite(r) \/ DestroyConversation(r)
    <2>1. Result
      BY <1>14 DEF PersonalWrite, DestroyConversation
    <2> QED
      BY <1>1, <1>14, <2>1, PlaceKept, ChangedRoomsTyped
  <1>15. CASE Announce(r) \/ AllSent(r)
    <2>1. Result /\ rooms' = rooms
      BY <1>3, <1>15 DEF Announce, AllSent, IsChange
    <2> QED
      BY <1>1, <2>1, PlaceKept
  <1>16. CASE Answer(r) \/ RoomFails(r) \/ Refresh(r)
    <2>1. Result /\ rooms' = rooms
      BY <1>16 DEF Answer, RoomFails, Refresh, AfterDm
    <2> QED
      BY <1>1, <2>1, PlaceKept
  <1>17. CASE \E u \in Viewers : Deliver(r, u)
    <2>1. Result /\ rooms' = rooms
      BY <1>3, <1>17 DEF Deliver, IsChange
    <2> QED
      BY <1>1, <2>1, PlaceKept
  <1> HIDE DEF Ready, Goto, Keep, Is, peopleVars, roomVars, PlaceInv
  <1> QED
    BY <1>5, <1>6, <1>7, <1>8, <1>9, <1>10, <1>11, <1>12, <1>13, <1>14, <1>15, <1>16, <1>17 DEF RoomStep

(* ------------------------------------------------------------------ the apps *)
\* A broadcast changes an entry of a list, and which there are it leaves alone.
LEMMA HandledListed ==
    ASSUME NEW list, NEW c, NEW event, event.kind \in {"join", "leave", "title"}
    PROVE  DOMAIN Handled(list, c, event) = DOMAIN list
  BY DEF Handled, OnJoin, OnLeave, OnUpdate

LEMMA AsksIsLoad == ASSUME NEW u, NEW r PROVE IsLoad(Asks(u, r))
  BY DEF Asks, IsLoad

LEMMA PersistListed ==
    ASSUME AppInv, NEW u, Persist(u), \A v \in Viewers : DOMAIN app'[v] \subseteq Requests
    PROVE  DOMAIN store' = Viewers /\ \A v \in Viewers : DOMAIN store'[v] \subseteq Requests
  <1>1. store' = [store EXCEPT ![u] = Over(app'[u], store[u])]
    BY DEF Persist
  <1>2. u \in Viewers => DOMAIN Over(app'[u], store[u]) = DOMAIN app'[u] \cup DOMAIN store[u]
    BY DEF Over
  <1> QED
    BY <1>1, <1>2 DEF AppInv

LEMMA OverlappedLoads ==
    ASSUME AppInv, NEW u, NEW c, NEW l \in Overlapped(u, c) PROVE IsLoad(l)
  <1>1. PICK m \in loads : l = IF m.user = u /\ m.at \notin Asked THEN [m EXCEPT !.over = @ \cup {c}] ELSE m
    BY DEF Overlapped
  <1>2. IsLoad(m)
    BY DEF AppInv
  <1> QED
    BY <1>1, <1>2 DEF IsLoad

LEMMA DeliverKeepsApps ==
    ASSUME Ready, PeopleInv, NEW r \in Requests, NEW u \in Viewers, Deliver(r, u) PROVE AppInv'
  <1> DEFINE c == snap[r].room
             event == snap[r].event
  <1>1. event.kind \in {"join", "leave", "title"} /\ AppInv
    BY DEF Deliver, PeopleInv, ChangeInv, IsChange
  <1>2. app' = [app EXCEPT ![u] = Handled(app[u], c, event)]
    BY DEF Deliver
  <1>3. loads' \subseteq Overlapped(u, c) \cup {Asks(u, r)}
    BY DEF Deliver
  <1> HIDE DEF c, event
  <1>4. DOMAIN app' = Viewers /\ \A v \in Viewers : DOMAIN app'[v] = DOMAIN app[v]
    BY <1>1, <1>2, HandledListed DEF AppInv
  <1>5. \A l \in loads' : IsLoad(l)
    BY <1>1, <1>3, AsksIsLoad, OverlappedLoads
  <1>6. \A w \in Viewers : DOMAIN app'[w] \subseteq Requests
    BY <1>1, <1>4 DEF AppInv
  <1>7. Persist(u)
    BY DEF Deliver
  <1> QED
    BY <1>1, <1>4, <1>5, <1>6, <1>7, PersistListed DEF AppInv

LEMMA AnswerKeepsApps ==
    ASSUME PeopleInv, NEW r \in Requests, Answer(r) PROVE AppInv'
  <1> DEFINE made == [user |-> job[r].user, by |-> r, at |-> "insert", had |-> TRUE,
                      fresh |-> [c \in {r} |-> Entry(r)], over |-> {}]
  <1>1. AppInv
    BY DEF PeopleInv
  <1>2. IsLoad(made)
    BY DEF IsLoad
  <1>3. loads' \subseteq loads \cup {made}
    BY DEF Answer
  <1> HIDE DEF made
  <1>4. \A l \in loads' : IsLoad(l)
    BY <1>1, <1>2, <1>3 DEF AppInv
  <1>5. /\ store' = store
        /\ app' = app \/ app' = [app EXCEPT ![job[r].user] = Without(app[job[r].user], job[r].about)]
    BY DEF Answer, Drops
  <1>6. DOMAIN app' = Viewers /\ \A v \in Viewers : DOMAIN app'[v] \subseteq DOMAIN app[v]
    BY <1>1, <1>5 DEF AppInv, Without, Restrict
  <1> QED
    BY <1>1, <1>4, <1>5, <1>6 DEF AppInv

\* The steps of conversations that show nothing and load nothing.
LEMMA PlainRoomStep ==
    ASSUME NEW r \in Requests, RoomStep(r), ~Refresh(r), ~Answer(r), \A u \in Viewers : ~Deliver(r, u)
    PROVE  UNCHANGED <<app, store, loads>>
  <1> USE DEF peopleVars, roomVars
  <1>1. CASE DmCheck(r) \/ FindDm(r) \/ MakeDm(r) \/ CreateGroup(r) \/ SessionCheck(r) \/ CallTimesOut(r)
    BY <1>1 DEF DmCheck, FindDm, MakeDm, CreateGroup, SessionCheck, CallTimesOut
  <1>2. CASE CommitSession(r) \/ AgentCheck(r) \/ CreateAgentSession(r)
             \/ \E answered \in BOOLEAN : PluginOpens(r, answered)
    BY <1>2 DEF CommitSession, AgentCheck, CreateAgentSession, PluginOpens
  <1>3. CASE CallerCheck(r) \/ InviteWrite(r) \/ Rename(r) \/ PersonalWrite(r)
    BY <1>3 DEF CallerCheck, InviteWrite, Rename, PersonalWrite, Refuse
  <1>4. CASE KickCaller(r) \/ KickTarget(r) \/ LeaveRead(r) \/ RemoveParticipant(r) \/ DestroyConversation(r)
    BY <1>4 DEF KickCaller, KickTarget, LeaveRead, RemoveParticipant, DestroyConversation
  <1>5. CASE Announce(r) \/ AllSent(r) \/ RoomFails(r)
    BY <1>5 DEF Announce, AllSent, RoomFails
  <1> HIDE DEF peopleVars, roomVars
  <1> QED
    BY <1>1, <1>2, <1>3, <1>4, <1>5 DEF RoomStep

LEMMA RoomStepKeepsApps ==
    ASSUME Ready, PeopleInv, NEW r \in Requests, RoomStep(r) PROVE AppInv'
  <1>1. AppInv /\ (UNCHANGED <<app, store, loads>> => AppInv')
    BY DEF PeopleInv, AppInv
  <1>2. CASE Refresh(r)
    BY <1>1, <1>2, AsksIsLoad DEF Refresh, AppInv
  <1> QED
    BY <1>1, <1>2, PlainRoomStep, AnswerKeepsApps, DeliverKeepsApps

LEMMA LoadStepKeepsApps ==
    ASSUME PeopleInv, NEW l \in loads, LoadStep(l) PROVE AppInv'
  <1>1. AppInv /\ IsLoad(l)
    BY DEF PeopleInv, AppInv
  <1>2. CASE ListRooms(l)
    <2> DEFINE shown == [c \in Listed(l.user) |-> [who |-> {}, title |-> rooms[c].title]]
               next == [l EXCEPT !.at = "members", !.fresh = shown]
    <2>1. DOMAIN shown \subseteq Requests
      BY DEF Listed, PeopleInv, RoomsTyped
    <2>2. IsLoad(next)
      <3> HIDE DEF shown
      <3> QED
        BY <1>1, <2>1 DEF IsLoad
    <2>3. app' = app /\ store' = store /\ loads' = (loads \ {l}) \cup {next}
      BY <1>2 DEF ListRooms
    <2> HIDE DEF next
    <2> QED
      BY <1>1, <2>2, <2>3 DEF AppInv
  <1>3. CASE LoadMembers(l)
    <2> DEFINE filled == [c \in DOMAIN l.fresh |->
                             [l.fresh[c] EXCEPT !.who = IF c \in DOMAIN rooms THEN Members(c) ELSE {}]]
               next == [l EXCEPT !.at = "show", !.fresh = filled]
    <2>1. DOMAIN filled \subseteq Requests
      BY <1>1 DEF IsLoad
    <2>2. IsLoad(next)
      <3> HIDE DEF filled
      <3> QED
        BY <1>1, <2>1 DEF IsLoad
    <2>3. app' = app /\ store' = store /\ loads' = (loads \ {l}) \cup {next}
      BY <1>3 DEF LoadMembers
    <2> HIDE DEF next
    <2> QED
      BY <1>1, <2>2, <2>3 DEF AppInv
  <1>4. CASE Show(l)
    <2>1. loads' = loads \ {l} /\ app' = [app EXCEPT ![l.user] = Fetched(l)] /\ Persist(l.user)
      BY <1>4 DEF Show
    <2>2. l.user \in Viewers => DOMAIN Fetched(l) \subseteq Requests
      BY <1>1 DEF Fetched, IsLoad, AppInv
    <2>3. DOMAIN app' = Viewers /\ \A v \in Viewers : DOMAIN app'[v] \subseteq Requests
      BY <1>1, <2>1, <2>2 DEF AppInv
    <2> QED
      BY <1>1, <2>1, <2>3, PersistListed DEF AppInv
  <1>5. CASE LoadFails(l)
    BY <1>1, <1>5 DEF LoadFails, AppInv
  <1>6. CASE Insert(l)
    <2>1. /\ loads' = loads \ {l} /\ Persist(l.user)
          /\ app' = app \/ app' = [app EXCEPT ![l.user] = Over(l.fresh, app[l.user])]
      BY <1>6 DEF Insert
    <2>2. l.user \in Viewers => DOMAIN Over(l.fresh, app[l.user]) \subseteq Requests
      BY <1>1 DEF Over, IsLoad, AppInv
    <2>3. DOMAIN app' = Viewers /\ \A v \in Viewers : DOMAIN app'[v] \subseteq Requests
      BY <1>1, <2>1, <2>2 DEF AppInv
    <2> QED
      BY <1>1, <2>1, <2>3, PersistListed DEF AppInv
  <1>7. CASE Recall(l)
    <2> DEFINE list(cached) == [c \in cached |-> store[l.user][c]]
               next(had) == [l EXCEPT !.at = "list", !.had = had]
    <2>1. PICK cached \in SUBSET DOMAIN store[l.user] :
              /\ loads' = (loads \ {l}) \cup {next(cached # {})}
              /\ app' = app \/ app' = [app EXCEPT ![l.user] = list(cached)]
      BY <1>7 DEF Recall
    <2>2. store' = store /\ DOMAIN list(cached) = cached
      BY <1>7 DEF Recall
    <2>3. IsLoad(next(cached # {}))
      BY <1>1 DEF IsLoad
    <2> HIDE DEF list, next
    <2>4. l.user \in Viewers => DOMAIN list(cached) \subseteq Requests
      BY <1>1, <2>2 DEF AppInv
    <2>5. DOMAIN app' = Viewers /\ \A v \in Viewers : DOMAIN app'[v] \subseteq Requests
      BY <1>1, <2>1, <2>4 DEF AppInv
    <2> QED
      BY <1>1, <2>1, <2>2, <2>3, <2>5 DEF AppInv
  <1> QED
    BY <1>2, <1>3, <1>4, <1>5, <1>6, <1>7 DEF LoadStep

(* ---------------------------------------------------------------- every step *)
LEMMA AgentPlaces ==
    ASSUME Ready, PlaceInv, NEW r \in Requests, AgentStep(r) PROVE PlaceInv'
  <1>1. Moves(r, AgentStages, AgentStages \cup {"find"})
    BY AgentMoves
  <1>2. /\ pc'[r] = "create" => job[r].op = "adopt"
        /\ pc'[r] = "find" => job[r].op \in {"dm", "agent", "adopt"}
    <2> USE DEF Ready, Goto, Keep, Is, PlaceInv
    <2>1. CASE CreateTicket(r) \/ ScanRead(r) \/ MarkScanned(r)
      BY <2>1 DEF CreateTicket, ScanRead, MarkScanned
    <2>2. CASE CompleteRead(r)
      BY <2>2 DEF CompleteRead
    <2>3. CASE CountActive(r) \/ CreateSubKey(r)
      BY <2>3 DEF CountActive, CreateSubKey
    <2>4. CASE OwnerRead(r)
      BY <2>4 DEF OwnerRead
    <2>5. CASE ResetSecretKey(r) \/ UpdateType(r) \/ MarkCompleted(r)
      BY <2>5 DEF ResetSecretKey, UpdateType, MarkCompleted
    <2>6. CASE CreateAgent(r)
      BY <2>6 DEF CreateAgent
    <2>7. CASE PollRead(r) \/ NameRead(r) \/ ConsumeSecretKey(r) \/ AgentFails(r)
      BY <2>7 DEF PollRead, NameRead, ConsumeSecretKey, AgentFails
    <2>8. CASE Update(r) \/ Delete(r) \/ RevokeAllForAgent(r) \/ ListByAgent(r) \/ Revoke(r)
      BY <2>8 DEF Update, Delete, RevokeAllForAgent, ListByAgent, Revoke
    <2> HIDE DEF Ready, Goto, Keep, Is, PlaceInv
    <2> QED
      BY <2>1, <2>2, <2>3, <2>4, <2>5, <2>6, <2>7, <2>8 DEF AgentStep
  <1> QED
    BY <1>1, <1>2, PlaceKept DEF Moves, AgentStages

LEMMA PeopleInvNext == Ready /\ RoomInv /\ PeopleInv /\ [Next]_backendVars => PeopleInv'
  <1> SUFFICES ASSUME Ready, RoomInv, PeopleInv, [Next]_backendVars PROVE PeopleInv'
    OBVIOUS
  <1>1. PlaceInv /\ ChangeInv /\ AppInv /\ RoomsTyped
    BY DEF PeopleInv
  <1>2. ASSUME NEW r \in Requests, RoomStep(r) PROVE PeopleInv'
    <2>1. Moves(r, RoomStages, RoomStages \cup {"mark"})
      BY <1>2, RoomMoves
    <2>2. pc'[r] \in {"announce", "send"} => IsChange(snap'[r])
      BY <1>2, RoomStepTyped
    <2>3. ChangeInv'
      BY <1>1, <2>1, <2>2 DEF Moves, ChangeInv
    <2> QED
      BY <1>2, <2>1, <2>3, RoomStepTyped, RoomStepKeepsApps DEF PeopleInv, Moves
  <1>3. ASSUME UNCHANGED <<rooms, plugin>>, job' = job, PlaceInv', AppInv',
               \A r \in Requests : pc'[r] \in {"announce", "send"} => pc'[r] = pc[r] /\ snap'[r] = snap[r]
        PROVE  PeopleInv'
    BY <1>1, <1>3 DEF PeopleInv, RoomsTyped, Members, ChangeInv
  <1>4. ASSUME NEW l \in loads, LoadStep(l) PROVE PeopleInv'
    <2>1. UNCHANGED <<handlerVars, rooms, plugin>>
      BY <1>4, LoadsStay
    <2>2. PlaceInv'
      BY <1>1, <2>1 DEF PlaceInv, handlerVars
    <2> QED
      BY <1>3, <1>4, <2>1, <2>2, LoadStepKeepsApps DEF handlerVars
  <1>5. ASSUME \A r \in Requests : ~RoomStep(r), \A l \in loads : ~LoadStep(l)
        PROVE  UNCHANGED <<rooms, plugin, app, store, loads>>
    BY <1>5 DEF Next, backendVars, peopleVars, roomVars, ServerRestarts, PeopleNext, LoadStep
  <1>6. ASSUME NEW r \in Requests, AgentStep(r), UNCHANGED <<rooms, plugin, app, store, loads>> PROVE PeopleInv'
    <2>1. Moves(r, AgentStages, AgentStages \cup {"find"})
      BY <1>6, AgentMoves
    <2>2. job' = job /\ \A o \in Requests : pc'[o] \in {"announce", "send"} => pc'[o] = pc[o] /\ snap'[o] = snap[o]
      BY <2>1 DEF Moves, AgentStages
    <2>3. PlaceInv' /\ AppInv'
      BY <1>1, <1>6, AgentPlaces DEF AppInv
    <2> QED
      BY <1>3, <1>6, <2>2, <2>3
  <1>7. ASSUME \A r \in Requests : ~RoomStep(r) /\ ~AgentStep(r), UNCHANGED <<rooms, plugin, app, store, loads>>
        PROVE  PeopleInv'
    <2>1. Spares(RoomStages \cup {"create"})
      BY <1>7, OthersSpareRooms
    <2>2. job' = job /\ \A o \in Requests : pc'[o] \in {"announce", "send"} => pc'[o] = pc[o] /\ snap'[o] = snap[o]
      BY <2>1 DEF Spares, RoomStages
    <2>3. PlaceInv' /\ AppInv'
      BY <1>1, <1>7, <2>1 DEF Spares, RoomStages, PlaceInv, AppInv
    <2> QED
      BY <1>3, <1>7, <2>2, <2>3
  <1> QED
    BY <1>2, <1>4, <1>5, <1>6, <1>7

LEMMA PeopleSafe == Spec => []PeopleInv
  BY ReadyInit, ReadyNext, RoomInvInit, RoomInvNext, PeopleInvInit, PeopleInvNext, PTL DEF Spec

(* The members of a conversation are users or agents, its kind is one of the four, and the *)
(* sessions of the plugin and the entries of every app's list are conversations that some  *)
(* request made, whatever is broadcast, loaded, lost or restarted meanwhile.               *)
THEOREM PeopleAreTyped == Spec => []PeopleTypeOK
  <1>1. PeopleInv => PeopleTypeOK
    BY DEF PeopleInv, PeopleTypeOK, RoomsTyped, RoomTypes, DmTypes, AppInv
  <1> QED
    BY <1>1, PeopleSafe, PTL

(***************************************************************************)
(* What the apps have still to be told.                                    *)
(***************************************************************************)
\* The changes of conversation c that user u's app is still to be told of; and with them
\* those it has been told of, or is not told of.
Pending(u, c) ==
    {o \in Requests : /\ pc[o] = "announce" \/ (pc[o] = "send" /\ u \in snap[o].to)
                      /\ snap[o].room = c}
Log(u, c) == Pending(u, c) \cup {o \in Requests : <<u, o>> \in heard /\ snap[o].room = c}

Whom(o) == snap[o].event.whom
Seats(o) == snap[o].event.kind \in {"join", "leave"}
Names(o) == snap[o].event.kind = "title" /\ Whom(o) # ""
Told(o) == pc[o] \in {"announce", "send"} \/ \E u \in Viewers : <<u, o>> \in heard

\* What is told is of a conversation that is not still to be made, and no newer than what
\* is stored of it.
Telling(o) ==
    /\ IsChange(snap[o]) /\ snap[o].rev \in Nat
    /\ snap[o].room \notin Expecting
    /\ snap[o].room \in DOMAIN rooms => snap[o].rev <= rooms[snap[o].room].rev
TellInv ==
    /\ \A c \in DOMAIN rooms : rooms[c].rev \in Nat
    /\ \A u \in Viewers, o \in Requests : <<u, o>> \in heard => pc[o] \in {"send", "answer", "done"}
    /\ \A o \in Requests : Told(o) => Telling(o)

\* Of all that an app is or was told of a member, or of the title, the newest is true.
NewestSeat(o, S) ==
    Seats(o) /\ \A p \in S : Seats(p) /\ Whom(p) = Whom(o) => snap[p].rev <= snap[o].rev
NewestName(o, S) == Names(o) /\ \A p \in S : Names(p) => snap[p].rev <= snap[o].rev
TrueLog(u, c) ==
    \A o \in Log(u, c) :
        /\ NewestSeat(o, Log(u, c)) => (snap[o].event.kind = "join" <=> Whom(o) \in Members(c))
        /\ NewestName(o, Log(u, c)) => rooms[c].title = Whom(o)
LogInv == \A u \in Viewers : \A c \in DOMAIN rooms : <<u, c>> \notin missed => TrueLog(u, c)

\* Conversation c is gone; or user u is in it or was.
Dissolved(c) == c \notin DOMAIN rooms /\ c \notin Expecting
Left(u, c) == Dissolved(c) \/ <<c, u>> \in away
Ever(u, c) == Left(u, c) \/ IsMember(c, u)
Hidden(u, c) == IsMember(c, u) /\ rooms[c].who[u].hidden

\* Who changes a conversation was in it; who leaves or hides it does not see it any more
\* when the answer comes.
Replies == {"announce", "send", "answer"}
Asker(r) ==
    /\ pc[r] = "remove" => job[r].op \in {"kick", "leave"}
    /\ pc[r] = "destroy" => job[r].op = "leave" /\ Ever(job[r].user, job[r].about)
    /\ pc[r] = "change" => Ever(job[r].user, job[r].about)
    /\ pc[r] \in Replies =>
          /\ job[r].op = "group" => Ever(job[r].user, r)
          /\ job[r].op = "leave" => Left(job[r].user, job[r].about)
          /\ job[r].op = "hide" => Left(job[r].user, job[r].about) \/ Hidden(job[r].user, job[r].about)
AskInv == \A r \in Requests : Asker(r)

\* An app lists, and loads, conversations that its user is in or was, with title and members.
IsEntry(e) == e = [who |-> e.who, title |-> e.title]
ShownInv ==
    /\ \A u \in Viewers : \A c \in DOMAIN app[u] : Ever(u, c) /\ IsEntry(app[u][c])
    /\ \A u \in Viewers : \A c \in DOMAIN store[u] : Ever(u, c) /\ IsEntry(store[u][c])
    /\ \A l \in loads : \A c \in DOMAIN l.fresh : Ever(l.user, c) /\ IsEntry(l.fresh[c])
    /\ \A l \in loads : l.at \in Asked => l.fresh = <<>> /\ l.over = {}

\* What an app shows, or is about to, is true but for what it is still to be told.
Moved(u, c) == {Whom(o) : o \in {o \in Pending(u, c) : Seats(o)}}
Named(u, c) == \E o \in Pending(u, c) : Names(o)
JoinComes(u, c) == \E o \in Pending(u, c) : snap[o].event.kind = "join"
TrueTitle(u, c, title) == Named(u, c) \/ title = rooms[c].title
TrueWho(u, c, who) == who \ Moved(u, c) = Members(c) \ Moved(u, c)

Sees(u, c) == /\ c \in Listed(u) /\ rooms[c].type = "group"
              /\ <<u, c>> \notin missed /\ <<c, u>> \notin away
Brings(l, c) == l.at \in Asked \/ c \in DOMAIN l.fresh \/ c \in l.over
TrueList(u, c) ==
    /\ c \in DOMAIN app[u] => TrueTitle(u, c, app[u][c].title) /\ TrueWho(u, c, app[u][c].who)
    /\ c \notin DOMAIN app[u] => JoinComes(u, c) \/ \E l \in loads : l.user = u /\ Brings(l, c)
TrueLoad(l, c) ==
    l.at \notin Asked /\ c \notin l.over =>
        /\ c \in DOMAIN l.fresh => /\ TrueTitle(l.user, c, l.fresh[c].title)
                                   /\ l.at # "members" => TrueWho(l.user, c, l.fresh[c].who)
        /\ c \notin DOMAIN l.fresh /\ l.at # "insert" => JoinComes(l.user, c)
ListInv ==
    \A u \in Viewers : \A c \in DOMAIN rooms : Sees(u, c) =>
        TrueList(u, c) /\ \A l \in loads : l.user = u => TrueLoad(l, c)

FollowInv == TellInv /\ LogInv /\ AskInv /\ ShownInv /\ ListInv

LEMMA FollowsWhenQuiet == PeopleInv /\ ShownInv /\ ListInv => AppFollows
  <1> SUFFICES ASSUME PeopleInv, ShownInv, ListInv, Quiet,
                      NEW u \in Viewers, NEW c \in Listed(u), Followed(u, c)
               PROVE  c \in DOMAIN app[u] /\ app[u][c] = Entry(c)
    BY DEF AppFollows
  <1>1. c \in DOMAIN rooms /\ Sees(u, c)
    BY DEF Sees, Listed, Followed
  <1>2. Pending(u, c) = {}
    BY DEF Quiet, Pending
  <1>3. Moved(u, c) = {} /\ ~Named(u, c) /\ ~JoinComes(u, c)
    BY <1>2 DEF Moved, Named, JoinComes
  <1>4. TrueList(u, c) /\ loads = {}
    BY <1>1 DEF ListInv, Quiet
  <1>5. c \in DOMAIN app[u]
    BY <1>3, <1>4 DEF TrueList
  <1>6. app[u][c].title = rooms[c].title /\ app[u][c].who \ {} = Members(c) \ {}
    BY <1>3, <1>4, <1>5 DEF TrueList, TrueTitle, TrueWho
  <1>7. app[u][c].who = Members(c)
    BY <1>6
  <1>8. IsEntry(app[u][c])
    BY <1>5 DEF ShownInv
  <1> QED
    BY <1>5, <1>6, <1>7, <1>8 DEF IsEntry, Entry

LEMMA FollowInvInit == Init => FollowInv
  <1> SUFFICES ASSUME Init PROVE FollowInv
    OBVIOUS
  <1>1. /\ rooms \in FirstRooms /\ job \in Jobs /\ pc = [r \in Requests |-> "new"]
        /\ loads = {} /\ heard = {} /\ app = [u \in Viewers |-> [c \in Listed(u) |-> Entry(c)]]
        /\ store = app
    BY DEF Init, HandlersInit, RoomsInit
  <1>2. TellInv /\ LogInv
    BY <1>1, RoomsAssumption DEF TellInv, Told, LogInv, TrueLog, Log, Pending
  <1>3. AskInv
    BY <1>1 DEF AskInv, Asker, Replies
  <1>4. \A c : IsEntry(Entry(c))
    BY DEF IsEntry, Entry
  <1>5. ShownInv
    BY <1>1, <1>4 DEF ShownInv, Ever, IsMember, Listed
  <1>6. ListInv
    <2> SUFFICES ASSUME NEW u \in Viewers, NEW c \in DOMAIN rooms, Sees(u, c) PROVE TrueList(u, c)
      BY <1>1 DEF ListInv
    <2>1. c \in DOMAIN app[u] /\ app[u][c] = Entry(c)
      BY <1>1 DEF Sees
    <2> QED
      BY <2>1 DEF TrueList, TrueTitle, TrueWho, Entry
  <1> QED
    BY <1>2, <1>3, <1>5, <1>6 DEF FollowInv

(* ------------------------------------------------------------ what a step tells *)
\* A step tells nothing new; who is not told of a change that ends untold may have its
\* conversation wrong.
Untold(o) ==
    \A u \in Viewers : snap[o].room \in DOMAIN rooms' => <<u, snap[o].room>> \in missed'
TalkStays ==
    /\ heard' = heard
    /\ \A o \in Requests :
          /\ pc'[o] \in {"announce", "send"} => pc'[o] = pc[o]
          /\ pc[o] \in {"announce", "send", "answer", "done"} => snap'[o] = snap[o]
          /\ pc[o] \in {"send", "answer", "done"} => pc'[o] \in {"send", "answer", "done"}
          /\ pc[o] = "announce" => pc'[o] = "announce" \/ Untold(o)
          /\ pc[o] = "send" => pc'[o] = "send" \/ snap[o].to = {} \/ Untold(o)

\* A step leaves conversation c as its members see it.
SameRoom(c) ==
    /\ rooms'[c].title = rooms[c].title /\ rooms'[c].rev = rooms[c].rev
    /\ rooms'[c].type = rooms[c].type
    /\ DOMAIN rooms'[c].who = DOMAIN rooms[c].who
    /\ \A u \in DOMAIN rooms[c].who : rooms[c].who[u].hidden => rooms'[c].who[u].hidden

\* It leaves them all like that, but for those that go; and makes none that an app lists.
RoomsStay ==
    /\ job' = job /\ away \subseteq away' /\ missed \subseteq missed' /\ Expecting' \subseteq Expecting
    /\ \A c \in DOMAIN rooms' :
          \/ c \in DOMAIN rooms /\ SameRoom(c)
          \/ c \in Expecting /\ rooms'[c].type # "group" /\ rooms'[c].rev \in Nat

LEMMA ToldStays ==
    ASSUME TellInv, TalkStays, NEW o \in Requests, Told(o)' PROVE Told(o) /\ snap'[o] = snap[o]
  BY DEF TellInv, Told, TalkStays

LEMMA LogStays ==
    ASSUME TellInv, TalkStays, NEW u \in Viewers, NEW c \in DOMAIN rooms', <<u, c>> \notin missed'
    PROVE  /\ Pending(u, c)' = Pending(u, c) /\ Log(u, c)' = Log(u, c)
           /\ \A o \in Log(u, c) : snap'[o] = snap[o]
  <1>1. ASSUME NEW o \in Requests
        PROVE  /\ o \in Pending(u, c)' <=> o \in Pending(u, c)
               /\ <<u, o>> \in heard => snap'[o] = snap[o]
               /\ o \in Pending(u, c) => snap'[o] = snap[o]
    <2>1. ~Untold(o) \/ snap[o].room # c
      BY DEF Untold
    <2> QED
      BY <2>1 DEF TellInv, TalkStays, Pending
  <1>2. Pending(u, c)' = Pending(u, c)
    BY <1>1 DEF Pending
  <1>3. \A o \in Requests : /\ o \in Log(u, c)' <=> o \in Log(u, c)
                            /\ o \in Log(u, c) => snap'[o] = snap[o]
    BY <1>1, <1>2 DEF Log, TalkStays
  <1>4. Log(u, c) \subseteq Requests /\ Log(u, c)' \subseteq Requests
    BY DEF Log, Pending
  <1> QED
    BY <1>2, <1>3, <1>4

\* What is pending says the same before and after.
LEMMA SaysTheSame ==
    ASSUME NEW u, NEW c, Pending(u, c)' = Pending(u, c),
           \A o \in Pending(u, c) : snap'[o].event = snap[o].event
    PROVE  /\ Moved(u, c)' = Moved(u, c)
           /\ Named(u, c)' <=> Named(u, c)
           /\ JoinComes(u, c)' <=> JoinComes(u, c)
  <1> DEFINE P == Pending(u, c)
  <1>1. \A o \in P : Seats(o)' <=> Seats(o)
    BY DEF Seats
  <1>2. \A o \in P : Whom(o)' = Whom(o) /\ (Names(o)' <=> Names(o))
    BY DEF Names, Whom
  <1>3. Pending(u, c)' = P
    OBVIOUS
  <1> HIDE DEF P
  <1>4. Moved(u, c)' = {Whom(o)' : o \in {o \in P : Seats(o)'}}
    BY <1>3 DEF Moved
  <1>5. {Whom(o)' : o \in {o \in P : Seats(o)'}} = {Whom(o) : o \in {o \in P : Seats(o)}}
    BY <1>1, <1>2
  <1>6. Moved(u, c) = {Whom(o) : o \in {o \in P : Seats(o)}}
    BY DEF Moved, P
  <1>7. Named(u, c)' <=> Named(u, c)
    BY <1>2, <1>3 DEF Named, P
  <1>8. JoinComes(u, c)' <=> JoinComes(u, c)
    BY DEF JoinComes
  <1> QED
    BY <1>4, <1>5, <1>6, <1>7, <1>8

LEMMA TellStays ==
    ASSUME TellInv, RoomsStay, \A c \in DOMAIN rooms : c \notin Expecting,
           \A o \in Requests : Told(o)' =>
               /\ Told(o) /\ DOMAIN snap'[o] = DOMAIN snap[o]
               /\ snap'[o].room = snap[o].room /\ snap'[o].rev = snap[o].rev
               /\ snap'[o].event = snap[o].event,
           \A u \in Viewers, o \in Requests : <<u, o>> \in heard' => pc'[o] \in {"send", "answer", "done"}
    PROVE  TellInv'
  <1>1. \A c \in DOMAIN rooms' : rooms'[c].rev \in Nat
    BY DEF TellInv, RoomsStay, SameRoom
  <1>2. ASSUME NEW o \in Requests, Told(o)' PROVE Telling(o)'
    <2>1. Telling(o)
      BY <1>2 DEF TellInv
    <2>2. IsChange(snap'[o]) /\ snap'[o].rev \in Nat
      BY <1>2, <2>1 DEF Telling, IsChange
    <2>3. snap'[o].room \notin Expecting'
      BY <1>2, <2>1 DEF Telling, RoomsStay
    <2>4. snap'[o].room \in DOMAIN rooms' => snap'[o].rev <= rooms'[snap'[o].room].rev
      BY <1>2, <2>1 DEF Telling, RoomsStay, SameRoom
    <2> QED
      BY <2>2, <2>3, <2>4 DEF Telling
  <1> QED
    BY <1>1, <1>2 DEF TellInv

LEMMA TrueLogStays ==
    ASSUME NEW u, NEW c, TrueLog(u, c), Log(u, c)' = Log(u, c),
           \A o \in Log(u, c) : snap'[o].event = snap[o].event /\ snap'[o].rev = snap[o].rev,
           SameRoom(c)
    PROVE  TrueLog(u, c)'
  <1> DEFINE L == Log(u, c)
  <1>1. \A o \in L : (Seats(o)' <=> Seats(o)) /\ Whom(o)' = Whom(o) /\ (Names(o)' <=> Names(o))
    BY DEF Seats, Names, Whom
  <1>2. \A o \in L : snap'[o].event = snap[o].event /\ snap'[o].rev = snap[o].rev
    OBVIOUS
  <1>3. Log(u, c)' = L
    OBVIOUS
  <1>4. Members(c)' = Members(c) /\ rooms'[c].title = rooms[c].title
    BY DEF SameRoom, Members
  <1>5. \A o \in L : /\ NewestSeat(o, L) => (snap[o].event.kind = "join" <=> Whom(o) \in Members(c))
                     /\ NewestName(o, L) => rooms[c].title = Whom(o)
    BY DEF TrueLog
  <1> HIDE DEF L
  <1>6. \A o \in L : (NewestSeat(o, L)' <=> NewestSeat(o, L)) /\ (NewestName(o, L)' <=> NewestName(o, L))
    BY <1>1, <1>2, <1>3 DEF NewestSeat, NewestName, L
  <1> QED
    BY <1>1, <1>2, <1>3, <1>4, <1>5, <1>6 DEF TrueLog, L

LEMMA LogInvStays == ASSUME TellInv, LogInv, TalkStays, RoomsStay PROVE LogInv'
  <1> SUFFICES ASSUME NEW u \in Viewers, NEW c \in DOMAIN rooms', <<u, c>> \notin missed' PROVE TrueLog(u, c)'
    BY DEF LogInv
  <1>1. Log(u, c)' = Log(u, c) /\ \A o \in Log(u, c) : snap'[o] = snap[o]
    BY LogStays
  <1>2. CASE c \in DOMAIN rooms /\ SameRoom(c)
    <2>1. TrueLog(u, c)
      BY <1>2 DEF LogInv, RoomsStay
    <2> QED
      BY <1>1, <1>2, <2>1, TrueLogStays
  <1>3. CASE c \in Expecting
    <2>1. \A o \in Log(u, c) : Told(o) /\ snap[o].room = c
      BY DEF Log, Pending, Told
    <2>2. Log(u, c) = {}
      BY <1>3, <2>1 DEF TellInv, Telling, Log, Pending
    <2> QED
      BY <1>1, <2>2 DEF TrueLog
  <1> QED
    BY <1>2, <1>3 DEF RoomsStay

LEMMA TellInvStays ==
    ASSUME TellInv, NameInv, TalkStays, RoomsStay PROVE TellInv'
  <1>1. \A c \in DOMAIN rooms : c \notin Expecting
    BY DEF NameInv
  <1>2. \A u \in Viewers, o \in Requests : <<u, o>> \in heard' => pc'[o] \in {"send", "answer", "done"}
    BY DEF TellInv, TalkStays
  <1> QED
    BY <1>1, <1>2, ToldStays, TellStays

\* Who has been in a conversation stays that; who has hidden it, too, until it goes.
EverStays ==
    \A u, c : /\ Ever(u, c) => Ever(u, c)'
              /\ Left(u, c) => Left(u, c)'
              /\ Hidden(u, c) => Hidden(u, c)' \/ Left(u, c)'

LEMMA RoomsStayEver == ASSUME NameInv, RoomsStay PROVE EverStays
  <1> SUFFICES ASSUME NEW u, NEW c
               PROVE  /\ Ever(u, c) => Ever(u, c)'
                      /\ Left(u, c) => Left(u, c)'
                      /\ Hidden(u, c) => Hidden(u, c)' \/ Left(u, c)'
    BY DEF EverStays
  <1>1. c \in DOMAIN rooms => c \notin Expecting
    BY DEF NameInv
  <1>2. Left(u, c) => Left(u, c)'
    BY DEF Left, Dissolved, RoomsStay
  <1>3. c \in DOMAIN rooms /\ c \notin DOMAIN rooms' => Left(u, c)'
    BY <1>1 DEF Left, Dissolved, RoomsStay
  <1>4. c \in DOMAIN rooms /\ c \in DOMAIN rooms' => SameRoom(c)
    BY <1>1 DEF RoomsStay
  <1> QED
    BY <1>2, <1>3, <1>4 DEF SameRoom, Ever, Hidden, IsMember, Members

\* A request that stays where it is, or goes on to answer, or elsewhere.
LEMMA AskerStays ==
    ASSUME EverStays, job' = job, NEW r \in Requests, Asker(r),
           \/ pc'[r] = pc[r]
           \/ pc[r] \in Replies /\ pc'[r] \in Replies
           \/ pc'[r] \notin Replies \cup {"remove", "destroy", "change"}
    PROVE  Asker(r)'
  BY DEF EverStays, Asker, Replies

LEMMA SeesStays ==
    ASSUME TellInv, NameInv, TalkStays, RoomsStay,
           NEW u \in Viewers, NEW c \in DOMAIN rooms', Sees(u, c)'
    PROVE  /\ c \in DOMAIN rooms /\ Sees(u, c) /\ SameRoom(c)
           /\ Moved(u, c)' = Moved(u, c)
           /\ Named(u, c)' <=> Named(u, c)
           /\ JoinComes(u, c)' <=> JoinComes(u, c)
  <1>1. c \in DOMAIN rooms /\ SameRoom(c)
    BY DEF RoomsStay, Sees
  <1>2. c \in Listed(u)
    BY <1>1 DEF Sees, Listed, SameRoom, Members
  <1>3. Sees(u, c)
    BY <1>1, <1>2 DEF Sees, RoomsStay, SameRoom
  <1>4. Pending(u, c)' = Pending(u, c) /\ \A o \in Pending(u, c) : snap'[o].event = snap[o].event
    BY LogStays DEF Sees, Log
  <1> QED
    BY <1>1, <1>3, <1>4, SaysTheSame

LEMMA TruthStays ==
    ASSUME NEW u, NEW c, SameRoom(c), Moved(u, c)' = Moved(u, c), Named(u, c)' <=> Named(u, c)
    PROVE  \A x : /\ TrueTitle(u, c, x) => TrueTitle(u, c, x)'
                  /\ TrueWho(u, c, x) => TrueWho(u, c, x)'
  BY DEF TrueTitle, TrueWho, SameRoom, Members

\* What an app shows was shown before or has just come; and what is on its way to it was
\* already, or has just been read.
Arrives(l, c) ==
    l \in loads /\ l.at \notin Asked \cup {"members"} /\ c \notin l.over /\ c \in DOMAIN l.fresh
LEMMA ListsStay ==
    ASSUME TellInv, NameInv, TalkStays, RoomsStay, ListInv,
           \A u \in Viewers, c \in Requests : Sees(u, c) /\ Sees(u, c)' =>
               /\ c \in DOMAIN app'[u] =>
                     \/ c \in DOMAIN app[u] /\ app'[u][c] = app[u][c]
                     \/ \E l \in loads : l.user = u /\ Arrives(l, c) /\ app'[u][c] = l.fresh[c]
               /\ c \notin DOMAIN app'[u] =>
                     \/ JoinComes(u, c)
                     \/ \E l \in loads' : l.user = u /\ Brings(l, c)
               /\ \A l \in loads' : l.user = u => l \in loads \/ TrueLoad(l, c),
           DOMAIN rooms' \subseteq Requests
    PROVE  ListInv'
  <1> SUFFICES ASSUME NEW u \in Viewers, NEW c \in DOMAIN rooms', Sees(u, c)'
               PROVE  TrueList(u, c)' /\ \A l \in loads' : l.user = u => TrueLoad(l, c)'
    BY DEF ListInv
  <1>1. /\ c \in DOMAIN rooms /\ Sees(u, c) /\ SameRoom(c)
        /\ Moved(u, c)' = Moved(u, c)
        /\ Named(u, c)' <=> Named(u, c)
        /\ JoinComes(u, c)' <=> JoinComes(u, c)
    BY SeesStays
  <1>1a. /\ c \in DOMAIN app'[u] =>
               \/ c \in DOMAIN app[u] /\ app'[u][c] = app[u][c]
               \/ \E l \in loads : l.user = u /\ Arrives(l, c) /\ app'[u][c] = l.fresh[c]
         /\ c \notin DOMAIN app'[u] =>
               \/ JoinComes(u, c)
               \/ \E l \in loads' : l.user = u /\ Brings(l, c)
         /\ \A l \in loads' : l.user = u => l \in loads \/ TrueLoad(l, c)
    BY <1>1
  <1>2. \A x : /\ TrueTitle(u, c, x) => TrueTitle(u, c, x)'
               /\ TrueWho(u, c, x) => TrueWho(u, c, x)'
    BY <1>1, TruthStays
  <1>3. TrueList(u, c) /\ \A l \in loads : l.user = u => TrueLoad(l, c)
    BY <1>1 DEF ListInv
  <1>4. ASSUME NEW l \in loads', l.user = u PROVE TrueLoad(l, c)'
    <2>1. TrueLoad(l, c)
      BY <1>1a, <1>3, <1>4
    <2> QED
      BY <1>1, <1>2, <1>4, <2>1 DEF TrueLoad
  <1>5. TrueList(u, c)'
    <2>1. ASSUME c \in DOMAIN app'[u]
          PROVE  /\ Named(u, c)' \/ app'[u][c].title = rooms'[c].title
                 /\ app'[u][c].who \ Moved(u, c)' = Members(c)' \ Moved(u, c)'
      <3>1. PICK e : e = app'[u][c] /\ TrueTitle(u, c, e.title) /\ TrueWho(u, c, e.who)
        <4>1. CASE c \in DOMAIN app[u] /\ app'[u][c] = app[u][c]
          BY <1>3, <4>1 DEF TrueList
        <4>2. ASSUME NEW l \in loads, l.user = u, Arrives(l, c), app'[u][c] = l.fresh[c]
              PROVE  TrueTitle(u, c, l.fresh[c].title) /\ TrueWho(u, c, l.fresh[c].who)
          BY <1>3, <4>2 DEF TrueLoad, Arrives
        <4> QED
          BY <1>1, <2>1, <4>1, <4>2
      <3>2. TrueTitle(u, c, e.title)' /\ TrueWho(u, c, e.who)'
        BY <1>2, <3>1
      <3> QED
        BY <3>1, <3>2 DEF TrueTitle, TrueWho
    <2>2. ASSUME c \notin DOMAIN app'[u]
          PROVE  JoinComes(u, c)' \/ \E l \in loads' : l.user = u /\ Brings(l, c)
      BY <1>1, <2>2
    <2> QED
      BY <2>1, <2>2 DEF TrueList, TrueTitle, TrueWho, Brings
  <1> QED
    BY <1>1, <1>4, <1>5

(* ------------------------------------------------------------- a change is made *)
\* What is said of the change that request r makes of conversation c is what it changes.
Follows(r, c) ==
    LET event == snap'[r].event IN
    /\ rooms'[c].rev = rooms[c].rev + 1 /\ rooms'[c].type = rooms[c].type
    /\ event.kind \in {"join", "leave"} =>
          /\ rooms'[c].title = rooms[c].title
          /\ \A w : w # event.whom => (w \in DOMAIN rooms'[c].who <=> w \in DOMAIN rooms[c].who)
          /\ event.kind = "join" <=> event.whom \in DOMAIN rooms'[c].who
    /\ event.kind = "title" =>
          /\ DOMAIN rooms'[c].who = DOMAIN rooms[c].who
          /\ rooms'[c].title = IF event.whom = "" THEN rooms[c].title ELSE event.whom
    /\ \A u \in DOMAIN rooms[c].who : \/ <<c, u>> \in away'
                                      \/ /\ u \in DOMAIN rooms'[c].who
                                         /\ rooms'[c].who[u] = rooms[c].who[u]

\* Request r changes conversation c, or makes it, and goes on to tell it.
Changing(r, c) ==
    /\ pc[r] \notin {"announce", "send", "answer", "done"} /\ pc'[r] = "announce"
    /\ \A o \in Requests \ {r} : pc'[o] = pc[o] /\ snap'[o] = snap[o]
    /\ IsChange(snap'[r]) /\ snap'[r].room = c /\ snap'[r].rev = rooms'[c].rev
    /\ UNCHANGED <<job, app, loads, heard, missed>> /\ away \subseteq away'
    /\ DOMAIN rooms' = DOMAIN rooms \cup {c}
    /\ \A d \in DOMAIN rooms \ {c} : rooms'[d] = rooms[d]
    /\ \/ c \in DOMAIN rooms /\ Follows(r, c)
       \/ /\ c = r /\ r \in Expecting /\ rooms'[c].rev \in Nat
          /\ snap'[r].event.kind = "join" /\ snap'[r].event.whom \in DOMAIN rooms'[c].who

LEMMA ChangingExpects ==
    ASSUME NameInv, NEW r \in Requests, NEW c, Changing(r, c)
    PROVE  Expecting' \subseteq Expecting /\ c \notin Expecting' /\ \A d \in DOMAIN rooms : d \notin Expecting
  BY DEF NameInv, Expecting, Changing

LEMMA LogGrows ==
    ASSUME TellInv, NEW r \in Requests, NEW c, Changing(r, c), NEW u \in Viewers, NEW d
    PROVE  /\ Pending(u, d)' = Pending(u, d) \cup (IF d = c THEN {r} ELSE {})
           /\ Log(u, d)' = Log(u, d) \cup (IF d = c THEN {r} ELSE {})
           /\ r \notin Log(u, d)
           /\ \A o \in Log(u, d) : o \in Requests /\ o # r /\ snap'[o] = snap[o]
  <1>1. r \notin Log(u, d) /\ <<u, r>> \notin heard /\ r \notin Pending(u, d)
    BY DEF TellInv, Changing, Log, Pending
  <1>2. \A o \in Requests : o \in Pending(u, d)' <=> o \in Pending(u, d) \/ (d = c /\ o = r)
    BY <1>1 DEF Changing, Pending
  <1>3. \A o \in Requests : o \in Log(u, d)' <=> o \in Log(u, d) \/ (d = c /\ o = r)
    BY <1>1, <1>2 DEF Changing, Log
  <1>4. Pending(u, d) \subseteq Requests /\ Pending(u, d)' \subseteq Requests
    BY DEF Pending
  <1>5. Log(u, d) \subseteq Requests /\ Log(u, d)' \subseteq Requests
    BY DEF Log, Pending
  <1> QED
    BY <1>1, <1>2, <1>3, <1>4, <1>5 DEF Changing

LEMMA ChangingKeepsTold ==
    ASSUME TellInv, NameInv, NEW r \in Requests, NEW c, Changing(r, c) PROVE TellInv'
  <1>1. Expecting' \subseteq Expecting /\ c \notin Expecting' /\ \A d \in DOMAIN rooms : d \notin Expecting
    BY ChangingExpects
  <1>2. \A d \in DOMAIN rooms' : rooms'[d].rev \in Nat
    <2>1. \A d \in DOMAIN rooms : rooms[d].rev \in Nat
      BY DEF TellInv
    <2>2. rooms'[c].rev \in Nat
      <3>1. c \in DOMAIN rooms /\ Follows(r, c) => rooms'[c].rev = rooms[c].rev + 1
        BY DEF Follows
      <3> QED
        BY <2>1, <3>1 DEF Changing
    <2> QED
      BY <2>1, <2>2 DEF Changing
  <1>3. \A u \in Viewers, o \in Requests : <<u, o>> \in heard' => pc'[o] \in {"send", "answer", "done"}
    BY DEF TellInv, Changing
  <1>4. Telling(r)'
    BY <1>1, <1>2 DEF Telling, Changing
  <1>5. ASSUME NEW o \in Requests \ {r}, Told(o)' PROVE Telling(o)'
    <2>1. Told(o) /\ snap'[o] = snap[o]
      BY <1>5 DEF Told, Changing
    <2>2. Telling(o)
      BY <2>1 DEF TellInv
    <2>3. IsChange(snap[o])'
      BY <2>1, <2>2 DEF Telling, IsChange
    <2>4. snap[o].rev \in Nat /\ \A d \in DOMAIN rooms : rooms[d].rev \in Nat
      BY <2>2 DEF Telling, TellInv
    <2>5. ASSUME NEW d \in DOMAIN rooms', d = snap[o].room
          PROVE  d \in DOMAIN rooms /\ rooms[d].rev <= rooms'[d].rev
      <3>1. d \notin Expecting
        BY <2>2, <2>5 DEF Telling
      <3>2. CASE d = c
        <4>1. c \in DOMAIN rooms /\ rooms'[c].rev = rooms[c].rev + 1
          BY <3>1, <3>2 DEF Changing, Follows
        <4> QED
          BY <2>4, <3>2, <4>1
      <3>3. CASE d # c
        <4>1. d \in DOMAIN rooms /\ rooms'[d] = rooms[d]
          BY <3>3 DEF Changing
        <4> QED
          BY <2>4, <4>1
      <3> QED
        BY <3>2, <3>3
    <2>6. snap[o].room \in DOMAIN rooms' => snap[o].rev <= rooms'[snap[o].room].rev
      BY <1>2, <2>2, <2>4, <2>5 DEF Telling
    <2> QED
      BY <1>1, <2>1, <2>2, <2>3, <2>6 DEF Telling
  <1> QED
    BY <1>2, <1>3, <1>4, <1>5 DEF TellInv

LEMMA ChangingKeepsLogs ==
    ASSUME TellInv, NameInv, LogInv, NEW r \in Requests, NEW c, Changing(r, c) PROVE LogInv'
  <1> SUFFICES ASSUME NEW u \in Viewers, NEW d \in DOMAIN rooms', <<u, d>> \notin missed' PROVE TrueLog(u, d)'
    BY DEF LogInv
  <1> DEFINE L == Log(u, d)
  <1>1. /\ Log(u, d)' = L \cup (IF d = c THEN {r} ELSE {})
        /\ r \notin L /\ \A o \in L : o \in Requests /\ o # r /\ snap'[o] = snap[o]
    BY LogGrows
  <1>2. CASE d # c
    <2>1. d \in DOMAIN rooms /\ rooms'[d] = rooms[d] /\ TrueLog(u, d)
      BY <1>2 DEF Changing, LogInv
    <2>2. SameRoom(d)
      BY <2>1 DEF SameRoom
    <2> QED
      BY <1>1, <1>2, <2>1, <2>2, TrueLogStays
  <1>3. CASE d = c /\ c \notin DOMAIN rooms
    <2>1. L = {}
      <3>1. c \in Expecting
        BY <1>3 DEF Changing
      <3>2. \A o \in L : o \in Requests /\ Told(o) /\ snap[o].room = c
        BY <1>1, <1>3 DEF Log, Pending, Told
      <3> QED
        BY <3>1, <3>2 DEF TellInv, Telling
    <2>2. Log(u, d)' = {r}
      BY <1>1, <1>3, <2>1
    <2>3. snap'[r].event.kind = "join" /\ snap'[r].event.whom \in DOMAIN rooms'[d].who
      BY <1>3 DEF Changing
    <2> QED
      BY <2>2, <2>3 DEF TrueLog, NewestName, Names, Whom, Members
  <1>4. CASE d = c /\ c \in DOMAIN rooms
    <2>1. TrueLog(u, c) /\ Follows(r, c) /\ Log(u, c)' = L \cup {r} /\ d = c
      <3>1. c \notin Expecting
        BY <1>4 DEF NameInv
      <3>2. r = c => r \notin Expecting
        BY <3>1
      <3> QED
        BY <1>1, <1>4, <3>2 DEF LogInv, Changing
    <2>2. snap'[r].rev = rooms[c].rev + 1 /\ rooms[c].rev \in Nat
      BY <1>4, <2>1 DEF Follows, Changing, TellInv
    <2>3. \A o \in L : snap[o].rev \in Nat /\ snap[o].rev <= rooms[c].rev
      <3>1. \A o \in L : Told(o) /\ snap[o].room = c
        BY <1>1, <1>4 DEF Log, Pending, Told
      <3> QED
        BY <1>1, <1>4, <3>1 DEF TellInv, Telling
    <2>4. \A o \in L : snap[o].rev < snap'[r].rev /\ snap'[o] = snap[o]
      BY <1>1, <2>2, <2>3
    <2>5. ASSUME NEW o \in L \cup {r}, NewestSeat(o, Log(u, c))'
          PROVE  snap'[o].event.kind = "join" <=> snap'[o].event.whom \in DOMAIN rooms'[c].who
      <3>1. CASE o = r
        BY <2>1, <2>5, <3>1 DEF NewestSeat, Seats, Follows
      <3>2. CASE o # r
        <4>1. o \in L /\ snap'[o] = snap[o] /\ NewestSeat(o, L)
          BY <2>1, <2>4, <2>5, <3>2 DEF NewestSeat, Seats, Whom
        <4>2. ~(Seats(r)' /\ Whom(r)' = Whom(o)')
          BY <2>1, <2>3, <2>2, <2>5, <3>2, <4>1 DEF NewestSeat
        <4>3. snap[o].event.kind = "join" <=> Whom(o) \in Members(c)
          BY <1>4, <2>1, <4>1 DEF TrueLog
        <4>4. Whom(o) \in Members(c) <=> Whom(o) \in DOMAIN rooms'[c].who
          BY <2>1, <4>1, <4>2 DEF Follows, Seats, Whom, Members, Changing, IsChange
        <4> QED
          BY <4>1, <4>3, <4>4 DEF Whom
      <3> QED
        BY <3>1, <3>2
    <2>6. ASSUME NEW o \in L \cup {r}, NewestName(o, Log(u, c))'
          PROVE  rooms'[c].title = snap'[o].event.whom
      <3>1. CASE o = r
        BY <2>1, <2>6, <3>1 DEF NewestName, Names, Whom, Follows
      <3>2. CASE o # r
        <4>1. o \in L /\ snap'[o] = snap[o] /\ NewestName(o, L)
          BY <2>1, <2>4, <2>6, <3>2 DEF NewestName, Names, Whom
        <4>2. ~Names(r)'
          BY <2>1, <2>3, <2>2, <2>6, <3>2, <4>1 DEF NewestName
        <4>3. rooms[c].title = Whom(o)
          BY <1>4, <2>1, <4>1 DEF TrueLog
        <4>4. rooms'[c].title = rooms[c].title
          BY <2>1, <4>2 DEF Follows, Names, Whom, Changing, IsChange
        <4> QED
          BY <4>1, <4>3, <4>4 DEF Whom
      <3> QED
        BY <3>1, <3>2
    <2> QED
      BY <1>4, <2>1, <2>5, <2>6 DEF TrueLog, Whom, Members
  <1> QED
    BY <1>2, <1>3, <1>4

LEMMA ChangingKeepsEver ==
    ASSUME NameInv, NEW r \in Requests, NEW c, Changing(r, c) PROVE EverStays
  <1>1. Expecting' \subseteq Expecting /\ c \notin Expecting' /\ \A d \in DOMAIN rooms : d \notin Expecting
    BY ChangingExpects
  <1> SUFFICES ASSUME NEW u, NEW d
               PROVE  /\ Ever(u, d) => Ever(u, d)'
                      /\ Left(u, d) => Left(u, d)'
                      /\ Hidden(u, d) => Hidden(u, d)' \/ Left(u, d)'
    BY DEF EverStays
  <1>2. Left(u, d) => Left(u, d)'
    BY <1>1 DEF Left, Dissolved, Changing
  <1>3. IsMember(d, u) => /\ IsMember(d, u)' \/ <<d, u>> \in away'
                          /\ rooms'[d].who[u] = rooms[d].who[u] \/ <<d, u>> \in away'
    <2>1. CASE d = c
      BY <1>1, <2>1 DEF Changing, Follows, IsMember, Members
    <2>2. CASE d # c
      BY <2>2 DEF Changing, IsMember, Members
    <2> QED
      BY <2>1, <2>2
  <1> QED
    BY <1>2, <1>3 DEF Ever, Hidden, Left

\* Who comes to see a conversation was never in it.
LEMMA ChangingSees ==
    ASSUME NameInv, NEW r \in Requests, NEW c, Changing(r, c), NEW u \in Viewers, Sees(u, c)', ~Sees(u, c)
    PROVE  ~Ever(u, c) /\ snap'[r].event.kind = "join"
  <1>1. c \in DOMAIN rooms => c \notin Expecting
    BY ChangingExpects
  <1>2. <<c, u>> \notin away /\ <<u, c>> \notin missed /\ rooms'[c].type = "group"
        /\ u \in DOMAIN rooms'[c].who /\ ~rooms'[c].who[u].hidden /\ <<c, u>> \notin away'
    BY DEF Sees, Listed, Members, Changing
  <1>3. CASE c \notin DOMAIN rooms
    BY <1>2, <1>3 DEF Ever, Left, Dissolved, IsMember, Changing
  <1>4. CASE c \in DOMAIN rooms
    <2>1. Follows(r, c)
      BY <1>1, <1>4 DEF Changing
    <2>2. u \notin DOMAIN rooms[c].who
      <3>1. ASSUME u \in DOMAIN rooms[c].who PROVE FALSE
        <4>1. rooms'[c].who[u] = rooms[c].who[u] /\ rooms[c].type = "group"
          BY <1>2, <2>1, <3>1 DEF Follows
        <4>2. Sees(u, c)
          BY <1>2, <1>4, <3>1, <4>1 DEF Sees, Listed, Members
        <4> QED
          BY <4>2
      <3> QED
        BY <3>1
    <2>3. snap'[r].event.kind \in {"join", "leave", "title"}
      BY DEF Changing, IsChange
    <2>4. snap'[r].event.kind = "join"
      BY <1>2, <2>1, <2>2, <2>3 DEF Follows
    <2> QED
      BY <1>2, <1>4, <2>2, <2>4 DEF Ever, Left, Dissolved, IsMember, Members
  <1> QED
    BY <1>3, <1>4

LEMMA ChangingKeepsLists ==
    ASSUME TellInv, NameInv, ShownInv, ListInv, NEW r \in Requests, NEW c, Changing(r, c) PROVE ListInv'
  <1>1. c \in DOMAIN rooms => c \notin Expecting
    BY ChangingExpects
  <1> SUFFICES ASSUME NEW u \in Viewers, NEW d \in DOMAIN rooms', Sees(u, d)'
               PROVE  TrueList(u, d)' /\ \A l \in loads' : l.user = u => TrueLoad(l, d)'
    BY DEF ListInv
  <1>2. /\ Pending(u, d)' = Pending(u, d) \cup (IF d = c THEN {r} ELSE {})
        /\ \A o \in Pending(u, d) : snap'[o] = snap[o]
    <2>1. Pending(u, d) \subseteq Log(u, d)
      BY DEF Log
    <2>2. \A o \in Log(u, d) : snap'[o] = snap[o]
      BY LogGrows
    <2> QED
      BY <2>1, <2>2, LogGrows
  <1>3. app' = app /\ loads' = loads
    BY DEF Changing
  <1>4. CASE d # c
    <2>1. d \in DOMAIN rooms /\ rooms'[d] = rooms[d]
      BY <1>4 DEF Changing
    <2>2. Sees(u, d)
      BY <2>1 DEF Sees, Listed, Members, Changing
    <2>3. /\ Moved(u, d)' = Moved(u, d)
          /\ Named(u, d)' <=> Named(u, d)
          /\ JoinComes(u, d)' <=> JoinComes(u, d)
      BY <1>2, <1>4, SaysTheSame
    <2>4. SameRoom(d)
      BY <2>1 DEF SameRoom
    <2>5. \A x : /\ TrueTitle(u, d, x) => TrueTitle(u, d, x)'
                 /\ TrueWho(u, d, x) => TrueWho(u, d, x)'
      BY <2>3, <2>4, TruthStays
    <2>6. TrueList(u, d) /\ \A l \in loads : l.user = u => TrueLoad(l, d)
      BY <2>1, <2>2 DEF ListInv
    <2>7. TrueList(u, d)'
      BY <1>3, <2>3, <2>5, <2>6 DEF TrueList, Brings
    <2>8. \A l \in loads' : l.user = u => TrueLoad(l, d)'
      BY <1>3, <2>3, <2>5, <2>6 DEF TrueLoad
    <2> QED
      BY <2>7, <2>8
  <1>5. CASE d = c /\ ~Sees(u, c)
    <2>1. ~Ever(u, c) /\ snap'[r].event.kind = "join"
      BY <1>5, ChangingSees
    <2>2. JoinComes(u, c)'
      BY <1>2, <1>5, <2>1 DEF JoinComes
    <2>3. c \notin DOMAIN app[u] /\ \A l \in loads : l.user = u => c \notin DOMAIN l.fresh
      BY <2>1 DEF ShownInv
    <2> QED
      BY <1>3, <1>5, <2>2, <2>3 DEF TrueList, TrueLoad
  <1>6. CASE d = c /\ Sees(u, c)
    <2>1. c \in DOMAIN rooms /\ Follows(r, c)
      BY <1>1, <1>6 DEF Sees, Listed, Changing
    <2>2. TrueList(u, c) /\ \A l \in loads : l.user = u => TrueLoad(l, c)
      BY <1>6, <2>1 DEF ListInv
    <2>3. JoinComes(u, c) => JoinComes(u, c)'
      BY <1>2, <1>6 DEF JoinComes
    <2>4. /\ Named(u, c)' <=> Named(u, c) \/ Names(r)'
          /\ Moved(u, c)' = Moved(u, c) \cup (IF Seats(r)' THEN {Whom(r)'} ELSE {})
      <3> DEFINE P == Pending(u, c)
      <3>1. Pending(u, c)' = P \cup {r} /\ \A o \in P : snap'[o] = snap[o]
        BY <1>2, <1>6
      <3>2. \A o \in P : (Seats(o)' <=> Seats(o)) /\ Whom(o)' = Whom(o) /\ (Names(o)' <=> Names(o))
        BY <3>1 DEF Seats, Whom, Names
      <3>3. /\ Moved(u, c) = {Whom(o) : o \in {o \in P : Seats(o)}}
            /\ Named(u, c) <=> \E o \in P : Names(o)
        BY DEF Moved, Named
      <3> HIDE DEF P
      <3>4. /\ Moved(u, c)' = {Whom(o)' : o \in {o \in P \cup {r} : Seats(o)'}}
            /\ Named(u, c)' <=> \E o \in P \cup {r} : Names(o)'
        BY <3>1 DEF Moved, Named
      <3>5. {Whom(o)' : o \in {o \in P \cup {r} : Seats(o)'}}
            = {Whom(o) : o \in {o \in P : Seats(o)}} \cup (IF Seats(r)' THEN {Whom(r)'} ELSE {})
        BY <3>2
      <3> QED
        BY <3>2, <3>3, <3>4, <3>5
    <2>5. Names(r)' \/ rooms'[c].title = rooms[c].title
      BY <2>1 DEF Follows, Names, Whom, Changing, IsChange
    <2>6. Members(c)' \ Moved(u, c)' = Members(c) \ Moved(u, c)'
      <3>1. CASE Seats(r)'
        BY <2>1, <2>4, <3>1 DEF Follows, Seats, Whom, Members
      <3>2. CASE ~Seats(r)'
        BY <2>1, <3>2 DEF Follows, Seats, Members, Changing, IsChange
      <3> QED
        BY <3>1, <3>2
    <2>7. \A x : /\ TrueTitle(u, c, x) => TrueTitle(u, c, x)'
                 /\ TrueWho(u, c, x) => TrueWho(u, c, x)'
      <3>1. \A x : TrueTitle(u, c, x) => TrueTitle(u, c, x)'
        BY <2>4, <2>5 DEF TrueTitle
      <3>2. Moved(u, c) \subseteq Moved(u, c)'
        BY <2>4
      <3>3. \A x : TrueWho(u, c, x) => TrueWho(u, c, x)'
        BY <2>6, <3>2 DEF TrueWho
      <3> QED
        BY <3>1, <3>3
    <2>8. TrueList(u, c)'
      BY <1>3, <2>2, <2>3, <2>7 DEF TrueList, Brings
    <2>9. \A l \in loads' : l.user = u => TrueLoad(l, c)'
      BY <1>3, <2>2, <2>3, <2>7 DEF TrueLoad
    <2> QED
      BY <1>6, <2>8, <2>9
  <1> QED
    BY <1>4, <1>5, <1>6

(* ------------------------------------------------------- steps that tell nothing *)
LEMMA SilentTalk ==
    ASSUME NEW r \in Requests, heard' = heard,
           \A o \in Requests \ {r} : pc'[o] = pc[o] /\ snap'[o] = snap[o],
           pc'[r] \notin {"announce", "send"}, snap' = snap,
           pc[r] \in {"send", "answer", "done"} => pc'[r] \in {"answer", "done"},
           pc[r] = "announce" => Untold(r),
           pc[r] = "send" => snap[r].to = {}
    PROVE  TalkStays
  BY DEF TalkStays

LEMMA ExpectingShrinks ==
    ASSUME NEW r \in Requests, job' = job, \A o \in Requests \ {r} : pc'[o] = pc[o],
           pc'[r] \notin {"new", "create", "find", "make", "call", "late", "commit", "attach"}
    PROVE  Expecting' \subseteq Expecting
  BY DEF Expecting

LEMMA SilentRooms ==
    ASSUME rooms' = rooms, job' = job, away \subseteq away', missed \subseteq missed',
           Expecting' \subseteq Expecting
    PROVE  RoomsStay
  BY DEF RoomsStay, SameRoom

\* The steps of conversations that make no change that is told of, and tell of none.
Tells(r) ==
    \/ CreateGroup(r) \/ CommitSession(r) \/ Announce(r)
    \/ job[r].about \in DOMAIN rooms /\ (InviteWrite(r) \/ Rename(r) \/ RemoveParticipant(r))
    \/ \E u \in Viewers : Deliver(r, u)

LEMMA SilentStepTalks ==
    ASSUME Ready, NEW r \in Requests, RoomStep(r), ~Tells(r) PROVE TalkStays
  <1>1. \A o \in Requests \ {r} : pc'[o] = pc[o] /\ snap'[o] = snap[o]
    BY RoomMoves DEF Moves
  <1> DEFINE Silent == /\ heard' = heard /\ snap' = snap /\ pc'[r] \notin {"announce", "send"}
                       /\ pc[r] \in {"send", "answer", "done"} => pc'[r] \in {"answer", "done"}
                       /\ pc[r] = "announce" => Untold(r)
                       /\ pc[r] = "send" => snap[r].to = {}
  <1> USE DEF Ready, Goto, Is, peopleVars, roomVars
  <1>2. ASSUME DmCheck(r) \/ FindDm(r) \/ MakeDm(r) PROVE Silent
    BY <1>2 DEF DmCheck, FindDm, MakeDm, AfterDm
  <1>3. ASSUME SessionCheck(r) \/ CallTimesOut(r) PROVE Silent
    BY <1>3 DEF SessionCheck, CallTimesOut, AfterTimeout
  <1>4. ASSUME AgentCheck(r) \/ CreateAgentSession(r) PROVE Silent
    BY <1>4 DEF AgentCheck, CreateAgentSession
  <1>5. ASSUME \E answered \in BOOLEAN : PluginOpens(r, answered) PROVE Silent
    BY <1>5 DEF PluginOpens
  <1>6. ASSUME CallerCheck(r) \/ KickCaller(r) \/ KickTarget(r) PROVE Silent
    BY <1>6 DEF CallerCheck, KickCaller, KickTarget
  <1>7. ASSUME LeaveRead(r) \/ PersonalWrite(r) \/ DestroyConversation(r) PROVE Silent
    BY <1>7 DEF LeaveRead, PersonalWrite, DestroyConversation
  <1>8. ASSUME job[r].about \notin DOMAIN rooms /\ (InviteWrite(r) \/ Rename(r) \/ RemoveParticipant(r)) PROVE Silent
    BY <1>8 DEF InviteWrite, Rename, RemoveParticipant, Refuse
  <1>9. ASSUME AllSent(r) \/ Answer(r) \/ Refresh(r) PROVE Silent
    BY <1>9 DEF AllSent, Answer, Refresh
  <1>10. ASSUME RoomFails(r) PROVE Silent
    BY <1>10 DEF RoomFails, AfterDm, Untold
  <1> HIDE DEF Ready, Goto, Is, peopleVars, roomVars
  <1>11. Silent
    <2> HIDE DEF Silent
    <2> QED
      BY <1>2, <1>3, <1>4, <1>5, <1>6, <1>7, <1>8, <1>9, <1>10 DEF RoomStep, Tells
  <1> QED
    BY <1>1, <1>11, SilentTalk

\* Pinning and hiding are one's own.
LEMMA HidesOrPins ==
    ASSUME RoomInv, NEW r \in Requests, PersonalWrite(r)
    PROVE  /\ DOMAIN rooms' = DOMAIN rooms /\ \A d \in DOMAIN rooms : SameRoom(d)
           /\ job[r].op = "hide" /\ IsMember(job[r].about, job[r].user) =>
                 rooms'[job[r].about].who[job[r].user].hidden
  <1> DEFINE c == job[r].about
             u == job[r].user
  <1>1. CASE ~IsMember(c, u)
    BY <1>1 DEF PersonalWrite, SameRoom
  <1>2. CASE IsMember(c, u)
    <2> DEFINE old == rooms[c].who
               seat == IF job[r].op = "hide" THEN [old[u] EXCEPT !.hidden = TRUE]
                                             ELSE [old[u] EXCEPT !.pinned = (job[r].op = "pin")]
               who == [old EXCEPT ![u] = seat]
               room == [rooms[c] EXCEPT !.who = who]
    <2>1. DOMAIN rooms[c] = RoomFields /\ u \in DOMAIN old /\ DOMAIN old[u] = SeatFields /\ c \in DOMAIN rooms
      BY <1>2 DEF IsMember, Members, RoomInv, SoundRooms, SoundSeats
    <2>2. /\ job[r].op = "hide" => seat.hidden
          /\ old[u].hidden => seat.hidden
      BY <2>1 DEF SeatFields
    <2>3. rooms' = [rooms EXCEPT ![c] = room]
      BY <1>2 DEF PersonalWrite
    <2> HIDE DEF seat
    <2>4. DOMAIN who = DOMAIN old /\ who[u] = seat /\ \A v \in DOMAIN old : v # u => who[v] = old[v]
      BY <2>1
    <2> HIDE DEF who
    <2>5. /\ room.title = rooms[c].title /\ room.rev = rooms[c].rev /\ room.type = rooms[c].type
          /\ room.who = who
      BY <2>1 DEF RoomFields
    <2> HIDE DEF room
    <2>6. DOMAIN rooms' = DOMAIN rooms /\ rooms'[c] = room /\ \A d \in DOMAIN rooms : d # c => rooms'[d] = rooms[d]
      BY <2>1, <2>3
    <2>7. SameRoom(c)
      BY <2>2, <2>4, <2>5, <2>6 DEF SameRoom
    <2>8. job[r].op = "hide" => rooms'[c].who[u].hidden
      BY <2>2, <2>4, <2>5, <2>6
    <2> QED
      BY <2>6, <2>7, <2>8 DEF SameRoom
  <1> QED
    BY <1>1, <1>2

LEMMA SilentStepRooms ==
    ASSUME Ready, RoomInv, PeopleInv, NEW r \in Requests, RoomStep(r), ~Tells(r) PROVE RoomsStay
  <1>1. job' = job /\ \A o \in Requests \ {r} : pc'[o] = pc[o]
    BY RoomMoves DEF Moves
  <1>2. CASE MakeDm(r) \/ CreateAgentSession(r)
    <2>1. pc[r] \in {"make", "attach"} /\ pc'[r] \in {"done", "mark"} /\ away' = away /\ missed' = missed
      BY <1>2 DEF MakeDm, CreateAgentSession, AfterDm, Ready, Goto
    <2>2. r \in Expecting
      BY <2>1, Expects
    <2>3. \E type, owner, others : type # "group" /\ rooms' = With(rooms, r, NewRoom(type, owner, others, ""))
      BY <1>2 DEF MakeDm, CreateAgentSession, DmType
    <2>4. /\ DOMAIN rooms' = DOMAIN rooms \cup {r}
          /\ rooms'[r].type # "group" /\ rooms'[r].rev \in Nat
          /\ \A c \in DOMAIN rooms \ {r} : rooms'[c] = rooms[c]
      <3>1. PICK type, owner, others : type # "group" /\ rooms' = With(rooms, r, NewRoom(type, owner, others, ""))
        BY <2>3
      <3> DEFINE new == NewRoom(type, owner, others, "")
      <3>2. new.type # "group" /\ new.rev = 0
        BY <3>1 DEF NewRoom
      <3>3. rooms' = With(rooms, r, new)
        BY <3>1
      <3> HIDE DEF new
      <3> QED
        BY <3>2, <3>3 DEF With
    <2>5. r \notin DOMAIN rooms /\ Expecting' \subseteq Expecting
      BY <1>1, <2>1, <2>2, ExpectingShrinks DEF RoomInv, NameInv
    <2> QED
      BY <1>1, <2>1, <2>2, <2>4, <2>5 DEF RoomsStay, SameRoom
  <1>3. CASE PersonalWrite(r)
    <2>1. pc'[r] = "answer" /\ away' = away /\ missed' = missed
      BY <1>3 DEF PersonalWrite, Ready, Goto
    <2> QED
      BY <1>1, <1>3, <2>1, ExpectingShrinks, HidesOrPins DEF RoomsStay
  <1>4. CASE DestroyConversation(r)
    <2>1. /\ pc'[r] = "answer" /\ away' = away /\ missed' = missed
          /\ rooms' = Without(rooms, job[r].about)
      BY <1>4 DEF DestroyConversation, Ready, Goto
    <2>2. Expecting' \subseteq Expecting
      BY <1>1, <2>1, ExpectingShrinks
    <2> QED
      BY <1>1, <2>1, <2>2 DEF RoomsStay, SameRoom, Without, Restrict
  <1>5. CASE KickTarget(r) \/ LeaveRead(r)
    <2>1. /\ pc'[r] \in {"done", "remove", "destroy"} /\ away' = away /\ missed' = missed
          /\ rooms' = rooms
      BY <1>5 DEF KickTarget, LeaveRead, Ready, Goto, peopleVars, roomVars
    <2> QED
      BY <1>1, <2>1, ExpectingShrinks, SilentRooms
  <1>6. ASSUME ~MakeDm(r), ~CreateAgentSession(r), ~PersonalWrite(r), ~DestroyConversation(r),
               ~KickTarget(r), ~LeaveRead(r)
        PROVE  RoomsStay
    <2>1. Quietly
      BY <1>6, OtherRoomStepsQuietly DEF Tells
    <2>2. away \subseteq away' /\ missed \subseteq missed'
      <3> USE DEF peopleVars, roomVars
      <3>1. CASE DmCheck(r) \/ FindDm(r) \/ SessionCheck(r) \/ CallTimesOut(r) \/ AgentCheck(r)
        BY <3>1 DEF DmCheck, FindDm, SessionCheck, CallTimesOut, AgentCheck
      <3>2. CASE \E answered \in BOOLEAN : PluginOpens(r, answered)
        BY <3>2 DEF PluginOpens
      <3>3. CASE CallerCheck(r) \/ KickCaller(r) \/ AllSent(r) \/ Answer(r) \/ Refresh(r)
        BY <3>3 DEF CallerCheck, KickCaller, AllSent, Answer, Refresh
      <3>4. CASE job[r].about \notin DOMAIN rooms /\ (InviteWrite(r) \/ Rename(r) \/ RemoveParticipant(r))
        BY <3>4 DEF InviteWrite, Rename, RemoveParticipant, Refuse
      <3>5. CASE RoomFails(r)
        BY <3>5 DEF RoomFails
      <3> HIDE DEF peopleVars, roomVars
      <3> QED
        BY <1>6, <3>1, <3>2, <3>3, <3>4, <3>5 DEF RoomStep, Tells
    <2> QED
      BY <1>1, <2>1, <2>2, SilentRooms DEF Quietly
  <1> QED
    BY <1>2, <1>3, <1>4, <1>5, <1>6

\* So are the steps that are not of conversations.
LEMMA OthersTalkNot ==
    ASSUME Ready, RoomInv, [Next]_backendVars, \A r \in Requests : ~RoomStep(r)
    PROVE  TalkStays /\ RoomsStay
  <1>1. heard' = heard /\ away' = away /\ missed \subseteq missed' /\ UNCHANGED <<rooms, plugin>>
    <2>1. ASSUME NEW l, LoadStep(l)
          PROVE  heard' = heard /\ away' = away /\ missed \subseteq missed' /\ UNCHANGED <<rooms, plugin>>
      BY <2>1 DEF LoadStep, Recall, ListRooms, LoadMembers, Show, Insert, LoadFails
    <2> QED
      BY <2>1 DEF Next, backendVars, peopleVars, roomVars, ServerRestarts, PeopleNext, LoadStep
  <1>2. Expecting' \subseteq Expecting /\ job' = job
    BY <1>1, AgentStepQuietly, OthersSpareRooms, OthersQuietly DEF Quietly
  <1>3. RoomsStay
    BY <1>1, <1>2, SilentRooms
  <1>4. ASSUME NEW r \in Requests, NEW From, NEW To, Moves(r, From, To),
               {"announce", "send", "answer", "done"} \cap From = {},
               {"announce", "send"} \cap To = {}
        PROVE  TalkStays
    BY <1>1, <1>4 DEF Moves, TalkStays
  <1>5. ASSUME UNCHANGED handlerVars PROVE TalkStays
    BY <1>1, <1>5 DEF handlerVars, TalkStays
  <1>6. ASSUME ServerRestarts PROVE TalkStays
    <2>1. /\ missed' = missed \cup (Viewers \X DOMAIN rooms) /\ snap' = snap
          /\ \A o \in Requests : pc'[o] = pc[o] \/ pc'[o] = "done"
      BY <1>6 DEF ServerRestarts, MpRestart, Restart
    <2>2. \A o \in Requests : Untold(o)
      BY <1>1, <2>1 DEF Untold
    <2> QED
      BY <1>1, <2>1, <2>2 DEF TalkStays
  <1>7. ASSUME NEW r \in Requests, PackageStep(r) \/ DataStep(r) PROVE TalkStays
    BY <1>4, <1>7, PackageMoves, DataMoves DEF PackageStages, DataStages
  <1>8. ASSUME NEW r \in Requests, FriendStep(r) \/ SessionStep(r) PROVE TalkStays
    BY <1>4, <1>8, FriendMoves, SessionMoves DEF FriendStages, SessionStages
  <1>9. ASSUME NEW r \in Requests, AgentStep(r) PROVE TalkStays
    BY <1>4, <1>9, AgentMoves DEF AgentStages
  <1>10. TalkStays
    BY <1>5, <1>6, <1>7, <1>8, <1>9, Steps
  <1> QED
    BY <1>3, <1>10

(* -------------------------------------------------------------- every change told *)
\* A change as Changes makes it: what it says is what it changes.
LEMMA ChangeIsTold ==
    ASSUME Ready, NEW r \in Requests, NEW c, NEW room, NEW event,
           Changes(r, c, room, event), job' = job,
           pc[r] \notin {"announce", "send", "answer", "done"}, event.kind \in {"join", "leave", "title"},
           UNCHANGED <<app, loads, heard, missed>>, away \subseteq away',
           DOMAIN room = RoomFields,
           \/ c \in DOMAIN rooms /\ room.rev = rooms[c].rev
           \/ c = r /\ r \in Expecting /\ room.rev = 0 /\ event.kind = "join" /\ event.whom \in DOMAIN room.who,
           c \in DOMAIN rooms =>
               /\ room.type = rooms[c].type
               /\ event.kind \in {"join", "leave"} =>
                     /\ room.title = rooms[c].title
                     /\ \A w : w # event.whom => (w \in DOMAIN room.who <=> w \in DOMAIN rooms[c].who)
                     /\ event.kind = "join" <=> event.whom \in DOMAIN room.who
               /\ event.kind = "title" =>
                     /\ room.who = rooms[c].who
                     /\ room.title = IF event.whom = "" THEN rooms[c].title ELSE event.whom
               /\ \A u \in DOMAIN rooms[c].who : \/ <<c, u>> \in away'
                                                 \/ u \in DOMAIN room.who /\ room.who[u] = rooms[c].who[u]
    PROVE  Changing(r, c)
  <1> DEFINE next == [room EXCEPT !.rev = @ + 1]
  <1>1. /\ next.type = room.type /\ next.title = room.title /\ next.who = room.who
        /\ next.rev = room.rev + 1
    BY DEF RoomFields
  <1>2. rooms' = With(rooms, c, next)
    BY DEF Changes
  <1>3. /\ pc'[r] = "announce"
        /\ snap'[r] = [room |-> c, rev |-> room.rev + 1, event |-> event, to |-> {}]
        /\ \A o \in Requests \ {r} : pc'[o] = pc[o] /\ snap'[o] = snap[o]
    BY DEF Changes, Ready, Goto, Keep
  <1> HIDE DEF next
  <1>4. /\ DOMAIN rooms' = DOMAIN rooms \cup {c} /\ rooms'[c] = next
        /\ \A d \in DOMAIN rooms \ {c} : rooms'[d] = rooms[d]
    BY <1>2 DEF With
  <1>5. IsChange(snap'[r]) /\ snap'[r].room = c /\ snap'[r].rev = rooms'[c].rev /\ snap'[r].event = event
    <2>1. /\ DOMAIN snap'[r] = {"room", "rev", "event", "to"}
          /\ snap'[r].room = c /\ snap'[r].rev = room.rev + 1 /\ snap'[r].event = event
      <3> DEFINE kept == [room |-> c, rev |-> room.rev + 1, event |-> event, to |-> {}]
      <3>1. DOMAIN kept = {"room", "rev", "event", "to"}
        OBVIOUS
      <3>2. kept.room = c /\ kept.rev = room.rev + 1 /\ kept.event = event
        OBVIOUS
      <3>3. snap'[r] = kept
        BY <1>3
      <3> HIDE DEF kept
      <3> QED
        BY <3>1, <3>2, <3>3
    <2> QED
      BY <1>1, <1>4, <2>1 DEF IsChange
  <1>6. c \in DOMAIN rooms /\ room.rev = rooms[c].rev => Follows(r, c)
    BY <1>1, <1>4, <1>5 DEF Follows
  <1>7. \/ c \in DOMAIN rooms /\ Follows(r, c)
        \/ /\ c = r /\ r \in Expecting /\ rooms'[c].rev \in Nat
           /\ snap'[r].event.kind = "join" /\ snap'[r].event.whom \in DOMAIN rooms'[c].who
    <2>1. CASE c \in DOMAIN rooms /\ room.rev = rooms[c].rev
      BY <1>6, <2>1
    <2>2. CASE c = r /\ r \in Expecting /\ room.rev = 0 /\ event.kind = "join" /\ event.whom \in DOMAIN room.who
      <3>1. rooms'[c].rev = 1 /\ rooms'[c].who = room.who
        BY <1>1, <1>4, <2>2
      <3> QED
        BY <1>5, <2>2, <3>1
    <2> QED
      BY <2>1, <2>2
  <1> QED
    BY <1>3, <1>4, <1>5, <1>7 DEF Changing

LEMMA NewRoomTold ==
    ASSUME Ready, RoomInv, PeopleInv, NEW r \in Requests, CreateGroup(r) \/ CommitSession(r)
    PROVE  Changing(r, r)
  <1>1. /\ job' = job /\ UNCHANGED <<app, loads, heard, missed>> /\ away' = away
        /\ pc[r] \in {"new", "commit"} /\ r \in Expecting
    BY Expects DEF CreateGroup, CommitSession, Is, Expecting, Makers
  <1>2. PICK type, others, title :
            Changes(r, r, NewRoom(type, job[r].user, others, title), Joins(job[r].user))
    BY DEF CreateGroup, CommitSession
  <1> DEFINE owner == job[r].user
             room == NewRoom(type, owner, others, title)
             event == Joins(owner)
  <1>3. DOMAIN room = RoomFields /\ room.rev = 0 /\ DOMAIN room.who = {owner} \cup others
    BY DEF NewRoom, RoomFields
  <1>4. event.kind = "join" /\ event.whom = owner
    BY DEF Joins
  <1>5. r \notin DOMAIN rooms
    BY <1>1 DEF RoomInv, NameInv
  <1>6. Changes(r, r, room, event)
    BY <1>2
  <1>7. owner \in DOMAIN room.who
    BY <1>3
  <1> HIDE DEF room, event, owner
  <1> QED
    BY <1>1, <1>3, <1>4, <1>5, <1>6, <1>7, ChangeIsTold

LEMMA InviteTold ==
    ASSUME Ready, RoomInv, NEW r \in Requests, InviteWrite(r), job[r].about \in DOMAIN rooms
    PROVE  Changing(r, job[r].about)
  <1> DEFINE c == job[r].about
             w == job[r].whom
             old == rooms[c].who
             who == SeatsWith(old, w)
             room == [rooms[c] EXCEPT !.who = who]
             event == Joins(w)
  <1>1. DOMAIN rooms[c] = RoomFields
    BY DEF RoomInv, SoundRooms
  <1>2. /\ Changes(r, c, room, event) /\ job' = job /\ pc[r] = "change"
        /\ UNCHANGED <<app, loads, heard, missed>> /\ away' = away
    BY DEF InviteWrite, Is
  <1>3. event.kind = "join" /\ event.whom = w
    BY DEF Joins
  <1>4. DOMAIN who = DOMAIN old \cup {w} /\ \A u \in DOMAIN old : who[u] = old[u]
    BY DEF SeatsWith, With
  <1> HIDE DEF who, event, w
  <1>5. /\ DOMAIN room = RoomFields /\ room.who = who /\ room.title = rooms[c].title
        /\ room.rev = rooms[c].rev /\ room.type = rooms[c].type
    BY <1>1 DEF RoomFields
  <1> HIDE DEF room
  <1> QED
    BY <1>2, <1>3, <1>4, <1>5, ChangeIsTold

LEMMA RemovalTold ==
    ASSUME Ready, RoomInv, NEW r \in Requests, RemoveParticipant(r), job[r].about \in DOMAIN rooms
    PROVE  Changing(r, job[r].about)
  <1> DEFINE c == job[r].about
             w == Leaver(r)
             old == rooms[c].who
             who == Without(old, w)
             room == [rooms[c] EXCEPT !.who = who]
             event == Leaves(w)
  <1>1. DOMAIN rooms[c] = RoomFields
    BY DEF RoomInv, SoundRooms
  <1>2. /\ Changes(r, c, room, event) /\ job' = job /\ pc[r] = "remove"
        /\ UNCHANGED <<app, loads, heard, missed>> /\ away' = away \cup {<<c, w>>}
    BY DEF RemoveParticipant
  <1>3. event.kind = "leave" /\ event.whom = w
    BY DEF Leaves
  <1>4. DOMAIN who = DOMAIN old \ {w} /\ \A u \in DOMAIN old \ {w} : who[u] = old[u]
    BY DEF Without, Restrict
  <1> HIDE DEF who, event, w
  <1>5. /\ DOMAIN room = RoomFields /\ room.who = who /\ room.title = rooms[c].title
        /\ room.rev = rooms[c].rev /\ room.type = rooms[c].type
    BY <1>1 DEF RoomFields
  <1> HIDE DEF room
  <1> QED
    BY <1>2, <1>3, <1>4, <1>5, ChangeIsTold

LEMMA RenameTold ==
    ASSUME Ready, RoomInv, NEW r \in Requests, Rename(r), job[r].about \in DOMAIN rooms
    PROVE  Changing(r, job[r].about)
  <1> DEFINE c == job[r].about
             title == IF job[r].op = "meta" THEN "" ELSE job[r].whom
             room == IF job[r].op = "meta" THEN [rooms[c] EXCEPT !.meta = job[r].whom]
                                           ELSE [rooms[c] EXCEPT !.title = Coalesce(job[r].whom, @)]
             event == Retitles(title)
  <1>1. DOMAIN rooms[c] = RoomFields
    BY DEF RoomInv, SoundRooms
  <1>2. /\ Changes(r, c, room, event) /\ job' = job /\ pc[r] = "change"
        /\ UNCHANGED <<app, loads, heard, missed>> /\ away' = away
    BY DEF Rename
  <1>3. event.kind = "title" /\ event.whom = title
    BY DEF Retitles
  <1>4. /\ DOMAIN room = RoomFields /\ room.who = rooms[c].who /\ room.rev = rooms[c].rev
        /\ room.type = rooms[c].type
        /\ room.title = IF title = "" THEN rooms[c].title ELSE title
    BY <1>1 DEF RoomFields, Coalesce
  <1> HIDE DEF room, event, title
  <1> QED
    BY <1>2, <1>3, <1>4, ChangeIsTold

(* ------------------------------------------------- a change is sent, and handled *)
\* Request r goes on telling its change: whose app is to be told, or was, or is not told of
\* it, was so before.
Relays(r) ==
    /\ UNCHANGED <<job, rooms, away>> /\ missed \subseteq missed'
    /\ pc[r] \in {"announce", "send"} /\ pc'[r] = "send"
    /\ \A o \in Requests \ {r} : pc'[o] = pc[o] /\ snap'[o] = snap[o]
    /\ DOMAIN snap'[r] = DOMAIN snap[r] /\ snap'[r].room = snap[r].room
    /\ snap'[r].rev = snap[r].rev /\ snap'[r].event = snap[r].event
    /\ \A u \in Viewers :
          /\ \A o \in Requests \ {r} : <<u, o>> \in heard' <=> <<u, o>> \in heard
          /\ u \in snap'[r].to \/ <<u, r>> \in heard'
                <=> pc[r] = "announce" \/ u \in snap[r].to \/ <<u, r>> \in heard

LEMMA AnnounceRelays == ASSUME Ready, PeopleInv, NEW r \in Requests, Announce(r) PROVE Relays(r)
  <1>1. IsChange(snap[r])
    BY DEF Announce, PeopleInv, ChangeInv
  <1>2. snap' = [snap EXCEPT ![r].to = Audience(snap[r].room)]
    BY DEF Announce
  <1>3. /\ DOMAIN snap'[r] = DOMAIN snap[r] /\ snap'[r].room = snap[r].room
        /\ snap'[r].rev = snap[r].rev /\ snap'[r].event = snap[r].event
        /\ snap'[r].to = Audience(snap[r].room)
        /\ \A o \in Requests \ {r} : snap'[o] = snap[o]
    BY <1>1, <1>2 DEF Ready, IsChange
  <1>4. /\ UNCHANGED <<job, rooms, away, missed>> /\ pc[r] = "announce" /\ pc'[r] = "send"
        /\ \A o \in Requests \ {r} : pc'[o] = pc[o]
        /\ heard' = heard \cup ((Viewers \ Audience(snap[r].room)) \X {r})
    BY DEF Announce, Ready, Goto
  <1> QED
    BY <1>3, <1>4 DEF Relays

LEMMA DeliverRelays ==
    ASSUME Ready, PeopleInv, NEW r \in Requests, NEW v \in Viewers, Deliver(r, v) PROVE Relays(r)
  <1>1. IsChange(snap[r])
    BY DEF Deliver, PeopleInv, ChangeInv
  <1>2. snap' = [snap EXCEPT ![r].to = @ \ {v}]
    BY DEF Deliver
  <1>3. /\ DOMAIN snap'[r] = DOMAIN snap[r] /\ snap'[r].room = snap[r].room
        /\ snap'[r].rev = snap[r].rev /\ snap'[r].event = snap[r].event
        /\ snap'[r].to = snap[r].to \ {v}
        /\ \A o \in Requests \ {r} : snap'[o] = snap[o]
    BY <1>1, <1>2 DEF Ready, IsChange
  <1>4. /\ UNCHANGED <<job, rooms, away, pc>> /\ missed \subseteq missed' /\ pc[r] = "send"
        /\ v \in snap[r].to /\ heard' = heard \cup {<<v, r>>}
    BY DEF Deliver
  <1> QED
    BY <1>3, <1>4 DEF Relays

LEMMA RelaysStay == ASSUME NEW r \in Requests, Relays(r) PROVE RoomsStay
  <1>1. Expecting' \subseteq Expecting
    BY ExpectingShrinks DEF Relays
  <1> QED
    BY <1>1, SilentRooms DEF Relays

LEMMA RelaysKeepTold ==
    ASSUME TellInv, NameInv, NEW r \in Requests, Relays(r) PROVE TellInv'
  <1>1. \A c \in DOMAIN rooms : c \notin Expecting
    BY DEF NameInv
  <1>2. \A u \in Viewers, o \in Requests : <<u, o>> \in heard' => pc'[o] \in {"send", "answer", "done"}
    BY DEF TellInv, Relays
  <1>3. ASSUME NEW o \in Requests, Told(o)'
        PROVE  /\ Told(o) /\ DOMAIN snap'[o] = DOMAIN snap[o]
               /\ snap'[o].room = snap[o].room /\ snap'[o].rev = snap[o].rev
               /\ snap'[o].event = snap[o].event
    <2>1. CASE o = r
      BY <2>1 DEF Relays, Told
    <2>2. CASE o # r
      BY <1>3, <2>2 DEF Relays, Told
    <2> QED
      BY <2>1, <2>2
  <1> QED
    BY <1>1, <1>2, <1>3, RelaysStay, TellStays

LEMMA RelaysKeepLogs ==
    ASSUME TellInv, LogInv, NEW r \in Requests, Relays(r) PROVE LogInv'
  <1> SUFFICES ASSUME NEW u \in Viewers, NEW c \in DOMAIN rooms', <<u, c>> \notin missed' PROVE TrueLog(u, c)'
    BY DEF LogInv
  <1>1. \A o \in Requests : snap'[o].room = snap[o].room /\ snap'[o].rev = snap[o].rev
                            /\ snap'[o].event = snap[o].event
    BY DEF Relays
  <1>2. ASSUME NEW o \in Requests PROVE o \in Log(u, c)' <=> o \in Log(u, c)
    <2>1. CASE o = r
      BY <1>1, <2>1 DEF Relays, Log, Pending
    <2>2. CASE o # r
      BY <1>1, <2>2 DEF Relays, Log, Pending
    <2> QED
      BY <2>1, <2>2
  <1>3. Log(u, c) \subseteq Requests /\ Log(u, c)' \subseteq Requests
    BY DEF Log, Pending
  <1>4. Log(u, c)' = Log(u, c)
    BY <1>2, <1>3
  <1>5. SameRoom(c) /\ TrueLog(u, c)
    BY DEF Relays, SameRoom, LogInv
  <1> QED
    BY <1>1, <1>3, <1>4, <1>5, TrueLogStays

\* Where nothing is told, shown or loaded, what is true stays so.
LEMMA TrueStays ==
    ASSUME NEW u, NEW c, SameRoom(c), TrueList(u, c), \A l \in loads : l.user = u => TrueLoad(l, c),
           Moved(u, c)' = Moved(u, c), Named(u, c)' <=> Named(u, c), JoinComes(u, c)' <=> JoinComes(u, c),
           c \in DOMAIN app'[u] <=> c \in DOMAIN app[u],
           c \in DOMAIN app[u] => app'[u][c] = app[u][c],
           \A l \in loads : l.user = u /\ Brings(l, c) => \E m \in loads' : m.user = u /\ Brings(m, c),
           \A m \in loads' : m.user = u =>
               \/ m.at \in Asked
               \/ \E l \in loads : /\ l.user = u /\ m.at = l.at /\ m.fresh = l.fresh
                                   /\ c \in m.over <=> c \in l.over
    PROVE  TrueList(u, c)' /\ \A l \in loads' : l.user = u => TrueLoad(l, c)'
  <1>1. \A x : /\ TrueTitle(u, c, x) => TrueTitle(u, c, x)'
               /\ TrueWho(u, c, x) => TrueWho(u, c, x)'
    BY TruthStays
  <1>2. TrueList(u, c)'
    <2>1. ASSUME c \in DOMAIN app'[u]
          PROVE  TrueTitle(u, c, app[u][c].title)' /\ TrueWho(u, c, app[u][c].who)'
      BY <1>1, <2>1 DEF TrueList
    <2>2. ASSUME c \in DOMAIN app'[u]
          PROVE  /\ Named(u, c)' \/ app'[u][c].title = rooms'[c].title
                 /\ app'[u][c].who \ Moved(u, c)' = Members(c)' \ Moved(u, c)'
      BY <1>1, <2>2 DEF TrueList, TrueTitle, TrueWho
    <2>3. ASSUME c \notin DOMAIN app'[u]
          PROVE  JoinComes(u, c)' \/ \E l \in loads' : l.user = u /\ Brings(l, c)
      BY <2>3 DEF TrueList
    <2> QED
      BY <2>2, <2>3 DEF TrueList, TrueTitle, TrueWho, Brings
  <1>3. ASSUME NEW m \in loads', m.user = u PROVE TrueLoad(m, c)'
    <2>1. CASE m.at \in Asked
      BY <2>1 DEF TrueLoad
    <2>2. CASE m.at \notin Asked
      <3>1. PICK l \in loads : l.user = u /\ m.at = l.at /\ m.fresh = l.fresh /\ (c \in m.over <=> c \in l.over)
        BY <1>3, <2>2
      <3>2. TrueLoad(l, c)
        BY <3>1
      <3>3. /\ c \in DOMAIN l.fresh /\ c \notin l.over =>
                  /\ TrueTitle(u, c, l.fresh[c].title)
                  /\ l.at # "members" => TrueWho(u, c, l.fresh[c].who)
            /\ c \notin DOMAIN l.fresh /\ c \notin l.over /\ l.at # "insert" => JoinComes(u, c)
        BY <2>2, <3>1, <3>2 DEF TrueLoad
      <3>4. /\ c \in DOMAIN l.fresh /\ c \notin l.over =>
                  /\ TrueTitle(u, c, l.fresh[c].title)'
                  /\ l.at # "members" => TrueWho(u, c, l.fresh[c].who)'
            /\ c \notin DOMAIN l.fresh /\ c \notin l.over /\ l.at # "insert" => JoinComes(u, c)'
        BY <1>1, <3>3
      <3> QED
        BY <1>3, <3>1, <3>4 DEF TrueLoad, TrueTitle, TrueWho
    <2> QED
      BY <2>1, <2>2
  <1> QED
    BY <1>2, <1>3

LEMMA AnnounceKeepsLists ==
    ASSUME Ready, PeopleInv, ListInv, NEW r \in Requests, Announce(r) PROVE ListInv'
  <1>1. Relays(r)
    BY AnnounceRelays
  <1>2. /\ UNCHANGED <<app, loads, missed>> /\ pc[r] = "announce"
        /\ \A o \in Requests : snap'[o].event = snap[o].event /\ snap'[o].room = snap[o].room
        /\ rooms' = rooms /\ away' = away
    BY <1>1 DEF Announce, Relays
  <1>3. snap'[r].to = Audience(snap[r].room) /\ pc'[r] = "send"
    <2>1. snap' = [snap EXCEPT ![r].to = Audience(snap[r].room)] /\ pc'[r] = "send"
      BY DEF Announce, Ready, Goto
    <2>2. IsChange(snap[r])
      BY DEF Announce, PeopleInv, ChangeInv
    <2> QED
      BY <2>1, <2>2 DEF Ready, IsChange
  <1> SUFFICES ASSUME NEW u \in Viewers, NEW c \in DOMAIN rooms', Sees(u, c)'
               PROVE  TrueList(u, c)' /\ \A l \in loads' : l.user = u => TrueLoad(l, c)'
    BY DEF ListInv
  <1>4. Sees(u, c) /\ c \in DOMAIN rooms /\ u \in Audience(c) /\ SameRoom(c)
    BY <1>2 DEF Sees, Listed, Members, Audience, SameRoom
  <1>5. \A o \in Requests : o \in Pending(u, c)' <=> o \in Pending(u, c)
    BY <1>1, <1>2, <1>3, <1>4 DEF Pending, Relays
  <1>6. Pending(u, c)' = Pending(u, c) /\ Pending(u, c) \subseteq Requests
    BY <1>5 DEF Pending
  <1>7. /\ Moved(u, c)' = Moved(u, c)
        /\ Named(u, c)' <=> Named(u, c)
        /\ JoinComes(u, c)' <=> JoinComes(u, c)
    BY <1>2, <1>6, SaysTheSame
  <1>8. TrueList(u, c) /\ \A l \in loads : l.user = u => TrueLoad(l, c)
    BY <1>4 DEF ListInv
  <1> QED
    BY <1>2, <1>4, <1>7, <1>8, TrueStays

\* What handling a broadcast makes of an entry.
Turns(new, old, event) ==
    /\ new.title = IF event.kind = "title" /\ event.whom # "" THEN event.whom ELSE old.title
    /\ event.kind = "join" => new.who = old.who \cup {event.whom}
    /\ event.kind = "leave" => new.who = old.who \ {event.whom}
    /\ event.kind = "title" => new.who = old.who
LEMMA HandledEntry ==
    ASSUME NEW list, NEW c, NEW event, event.kind \in {"join", "leave", "title"}, NEW d \in DOMAIN list,
           \A e \in DOMAIN list : IsEntry(list[e])
    PROVE  /\ IsEntry(Handled(list, c, event)[d])
           /\ d # c => Handled(list, c, event)[d] = list[d]
           /\ d = c => Turns(Handled(list, c, event)[d], list[d], event)
  <1>1. IsEntry(list[d])
    OBVIOUS
  <1>2. CASE c \notin DOMAIN list
    <2>1. Handled(list, c, event) = list
      BY <1>2 DEF Handled
    <2> QED
      BY <1>1, <1>2, <2>1
  <1>3. CASE c \in DOMAIN list /\ event.kind = "join"
    BY <1>1, <1>3 DEF Handled, OnJoin, IsEntry, Turns
  <1>4. CASE c \in DOMAIN list /\ event.kind = "leave"
    BY <1>1, <1>4 DEF Handled, OnLeave, IsEntry, Turns
  <1>5. CASE c \in DOMAIN list /\ event.kind = "title"
    <2> DEFINE title == KeptTitle(event.whom, list[c].title)
    <2>1. title = IF event.whom # "" THEN event.whom ELSE list[c].title
      BY DEF KeptTitle
    <2>2. Handled(list, c, event) = [list EXCEPT ![c].title = title]
      BY <1>5 DEF Handled, OnUpdate
    <2> HIDE DEF title
    <2>3. CASE d = c
      BY <1>1, <1>5, <2>1, <2>2, <2>3 DEF IsEntry, Turns
    <2>4. CASE d # c
      BY <1>1, <2>2, <2>4
    <2> QED
      BY <2>3, <2>4
  <1> QED
    BY <1>2, <1>3, <1>4, <1>5

\* What an app has on its way is the same but for what it overlaps with.
LEMMA DeliverLoads ==
    ASSUME PeopleInv, NEW r \in Requests, NEW v \in Viewers, Deliver(r, v)
    PROVE  /\ \A l \in loads : \E m \in loads' :
                 /\ m.user = l.user /\ m.at = l.at /\ m.fresh = l.fresh
                 /\ l.over \subseteq m.over
           /\ \A m \in loads' :
                 \/ m.at \in Asked /\ m.fresh = <<>> /\ m.over = {}
                 \/ \E l \in loads : /\ m.user = l.user /\ m.at = l.at /\ m.fresh = l.fresh
                                     /\ \A d : d # snap[r].room \/ l.user # v => (d \in m.over <=> d \in l.over)
                                     /\ l.user = v /\ l.at \notin Asked => snap[r].room \in m.over
                                     /\ l.at \in Asked => m = l
  <1> DEFINE c == snap[r].room
             over(l) == IF l.user = v /\ l.at \notin Asked THEN [l EXCEPT !.over = @ \cup {c}] ELSE l
  <1>1. AppInv /\ (loads' = Overlapped(v, c) \/ loads' = Overlapped(v, c) \cup {Asks(v, r)})
    BY DEF Deliver, PeopleInv
  <1>2. Overlapped(v, c) = {over(l) : l \in loads}
    BY DEF Overlapped
  <1>3. ASSUME NEW l \in loads
        PROVE  /\ over(l).user = l.user /\ over(l).at = l.at /\ over(l).fresh = l.fresh
               /\ l.at \in Asked => over(l) = l
               /\ over(l).over = IF l.user = v /\ l.at \notin Asked THEN l.over \cup {c} ELSE l.over
    BY <1>1 DEF AppInv, IsLoad
  <1>4. LET ask == Asks(v, r) IN ask.at \in Asked /\ ask.fresh = <<>> /\ ask.over = {}
    BY DEF Asks, Asked
  <1> HIDE DEF over
  <1>5. ASSUME NEW l \in loads
        PROVE  \E m \in loads' : m.user = l.user /\ m.at = l.at /\ m.fresh = l.fresh /\ l.over \subseteq m.over
    <2>1. over(l) \in loads'
      BY <1>1, <1>2
    <2> QED
      BY <1>3, <2>1
  <1>6. ASSUME NEW m \in loads'
        PROVE  \/ m = Asks(v, r)
               \/ \E l \in loads : /\ m.user = l.user /\ m.at = l.at /\ m.fresh = l.fresh
                                   /\ \A d : d # c \/ l.user # v => (d \in m.over <=> d \in l.over)
                                   /\ l.user = v /\ l.at \notin Asked => c \in m.over
                                   /\ l.at \in Asked => m = l
    <2>1. CASE m = Asks(v, r)
      BY <2>1
    <2>2. CASE m # Asks(v, r)
      <3>1. PICK l \in loads : m = over(l)
        BY <1>1, <1>2, <2>2
      <3> QED
        BY <1>3, <3>1
    <2> QED
      BY <2>1, <2>2
  <1>7. ASSUME NEW m \in loads', m = Asks(v, r) PROVE m.at \in Asked /\ m.fresh = <<>> /\ m.over = {}
    BY <1>4, <1>7
  <1> QED
    BY <1>5, <1>6, <1>7

\* The broadcast that an app handles was still to come; what else it is told of, and what
\* every other app is, does not change.
LEMMA DeliverTells ==
    ASSUME Ready, PeopleInv, NEW r \in Requests, NEW v \in Viewers, Deliver(r, v), NEW u \in Viewers, NEW c
    PROVE  /\ r \in Pending(v, snap[r].room)
           /\ Pending(u, c)' = IF u = v /\ c = snap[r].room THEN Pending(u, c) \ {r} ELSE Pending(u, c)
           /\ \A o \in Requests : snap'[o].event = snap[o].event
  <1>1. IsChange(snap[r]) /\ snap' = [snap EXCEPT ![r].to = @ \ {v}]
    BY DEF Deliver, PeopleInv, ChangeInv
  <1>2. /\ snap'[r].room = snap[r].room /\ snap'[r].event = snap[r].event
        /\ snap'[r].to = snap[r].to \ {v}
        /\ \A o \in Requests \ {r} : snap'[o] = snap[o]
    BY <1>1 DEF Ready, IsChange
  <1>3. pc' = pc /\ pc[r] = "send" /\ v \in snap[r].to
    BY DEF Deliver
  <1>4. ASSUME NEW o \in Requests
        PROVE  o \in Pending(u, c)' <=> o \in Pending(u, c) /\ ~(u = v /\ c = snap[r].room /\ o = r)
    BY <1>2, <1>3 DEF Pending
  <1>5. Pending(u, c) \subseteq Requests /\ Pending(u, c)' \subseteq Requests
    BY DEF Pending
  <1>6. r \in Pending(v, snap[r].room)
    BY <1>3 DEF Pending
  <1> QED
    BY <1>2, <1>4, <1>5, <1>6

\* Nothing that an app has heard or is to hear is newer than the broadcast it handles, of
\* the same member or of the title, unless it is still to come.
LEMMA DeliverNewest ==
    ASSUME Ready, PeopleInv, TellInv, LogInv, NEW r \in Requests, NEW v \in Viewers, Deliver(r, v),
           NEW c \in DOMAIN rooms, c = snap[r].room, <<v, c>> \notin missed'
    PROVE  /\ Seats(r) => \/ \E o \in Pending(v, c) \ {r} : Seats(o) /\ Whom(o) = Whom(r)
                          \/ snap[r].event.kind = "join" <=> Whom(r) \in Members(c)
           /\ Names(r) => \/ \E o \in Pending(v, c) \ {r} : Names(o)
                          \/ rooms[c].title = Whom(r)
  <1>1. ~Later(v, c, snap[r].rev) /\ <<v, c>> \notin missed
    BY DEF Deliver
  <1>2. r \in Log(v, c) /\ Log(v, c) \subseteq Requests
    BY DeliverTells DEF Log, Pending
  <1>3. ASSUME NEW p \in Log(v, c) PROVE snap[p].rev \in Nat
    <2>1. Told(p) /\ p \in Requests
      BY DEF Log, Pending, Told
    <2> QED
      BY <2>1 DEF TellInv, Telling
  <1>4. ASSUME NEW p \in Log(v, c) PROVE p \in Pending(v, c) \ {r} \/ snap[p].rev <= snap[r].rev
    <2>1. CASE p = r
      BY <1>2, <1>3, <2>1
    <2>2. CASE p # r /\ p \notin Pending(v, c)
      <3>1. <<v, p>> \in heard /\ snap[p].room = c /\ p \in Requests
        BY <2>2 DEF Log
      <3>2. ~(snap[p].rev > snap[r].rev)
        BY <1>1, <3>1 DEF Later
      <3> QED
        BY <1>2, <1>3, <3>2
    <2> QED
      BY <2>1, <2>2
  <1>5. TrueLog(v, c)
    BY <1>1 DEF LogInv
  <1>6. ASSUME Seats(r), ~\E o \in Pending(v, c) \ {r} : Seats(o) /\ Whom(o) = Whom(r)
        PROVE  snap[r].event.kind = "join" <=> Whom(r) \in Members(c)
    <2>1. NewestSeat(r, Log(v, c))
      BY <1>4, <1>6 DEF NewestSeat
    <2> QED
      BY <1>2, <1>5, <2>1 DEF TrueLog
  <1>7. ASSUME Names(r), ~\E o \in Pending(v, c) \ {r} : Names(o)
        PROVE  rooms[c].title = Whom(r)
    <2>1. NewestName(r, Log(v, c))
      BY <1>4, <1>7 DEF NewestName
    <2> QED
      BY <1>2, <1>5, <2>1 DEF TrueLog
  <1> QED
    BY <1>6, <1>7

LEMMA DeliverKeepsLists ==
    ASSUME Ready, PeopleInv, TellInv, LogInv, ShownInv, ListInv,
           NEW r \in Requests, NEW v \in Viewers, Deliver(r, v)
    PROVE  ListInv'
  <1> SUFFICES ASSUME NEW u \in Viewers, NEW c \in DOMAIN rooms', Sees(u, c)'
               PROVE  TrueList(u, c)' /\ \A l \in loads' : l.user = u => TrueLoad(l, c)'
    BY DEF ListInv
  <1> DEFINE d == snap[r].room
             event == snap[r].event
             P == Pending(u, c)
  <1>1. event.kind \in {"join", "leave", "title"}
    BY DEF Deliver, PeopleInv, ChangeInv, IsChange
  <1>2. rooms' = rooms /\ away' = away /\ missed \subseteq missed' /\ c \in DOMAIN rooms
    BY DEF Deliver
  <1>3. Sees(u, c) /\ SameRoom(c)
    BY <1>2 DEF Sees, Listed, Members, SameRoom
  <1>4. TrueList(u, c) /\ \A l \in loads : l.user = u => TrueLoad(l, c)
    BY <1>2, <1>3 DEF ListInv
  <1>5. /\ app'[v] = Handled(app[v], d, event)
        /\ \A w \in Viewers \ {v} : app'[w] = app[w]
    BY DEF Deliver, PeopleInv, AppInv
  <1>6. DOMAIN app'[v] = DOMAIN app[v] /\ \A e \in DOMAIN app[v] : IsEntry(app[v][e])
    BY <1>1, <1>5, HandledListed DEF ShownInv
  <1>1a. ASSUME NEW e \in DOMAIN app[v]
        PROVE  /\ e # d => app'[v][e] = app[v][e]
               /\ e = d => Turns(app'[v][e], app[v][e], event)
    BY <1>1a, <1>1, <1>5, <1>6, HandledEntry
  <1>7. /\ \A l \in loads : l.user = u /\ Brings(l, c) => \E m \in loads' : m.user = u /\ Brings(m, c)
        /\ \A m \in loads' :
              \/ m.at \in Asked
              \/ \E l \in loads : /\ m.user = l.user /\ m.at = l.at /\ m.fresh = l.fresh
                                  /\ c # d \/ l.user # v => (c \in m.over <=> c \in l.over)
                                  /\ l.user = v /\ l.at \notin Asked => d \in m.over
    BY DeliverLoads DEF Brings
  <1>8. CASE ~(u = v /\ c = d)
    <2>1. Pending(u, c)' = Pending(u, c) /\ \A o \in P : snap'[o].event = snap[o].event
      <3>1. P \subseteq Requests
        BY DEF Pending
      <3>2. Pending(u, c)' = P /\ \A o \in Requests : snap'[o].event = snap[o].event
        BY <1>8, DeliverTells
      <3> QED
        BY <3>1, <3>2
    <2>2. /\ Moved(u, c)' = Moved(u, c)
          /\ Named(u, c)' <=> Named(u, c)
          /\ JoinComes(u, c)' <=> JoinComes(u, c)
      BY <2>1, SaysTheSame
    <2>3. /\ c \in DOMAIN app'[u] <=> c \in DOMAIN app[u]
          /\ c \in DOMAIN app[u] => app'[u][c] = app[u][c]
      BY <1>1a, <1>5, <1>6, <1>8
    <2>4. \A m \in loads' : m.user = u =>
              \/ m.at \in Asked
              \/ \E l \in loads : /\ l.user = u /\ m.at = l.at /\ m.fresh = l.fresh
                                  /\ c \in m.over <=> c \in l.over
      BY <1>7, <1>8
    <2> QED
      BY <1>3, <1>4, <1>7, <2>2, <2>3, <2>4, TrueStays
  <1>9. CASE u = v /\ c = d
    <2>1. /\ r \in P /\ Pending(u, c)' = P \ {r}
          /\ \A o \in Requests : snap'[o].event = snap[o].event
      BY <1>9, DeliverTells
    <2>2. P \subseteq Requests /\ \A o \in P : /\ Seats(o)' <=> Seats(o)
                                               /\ Whom(o)' = Whom(o)
                                               /\ Names(o)' <=> Names(o)
      BY <2>1 DEF Pending, Seats, Whom, Names
    <2>3. \A m \in loads' : m.user = u => TrueLoad(m, c)'
      BY <1>7, <1>9 DEF TrueLoad
    <2>4. CASE c \notin DOMAIN app[u]
      <3>1. c \notin DOMAIN app'[u]
        BY <1>6, <1>9, <2>4
      <3>2. JoinComes(u, c)' \/ \E m \in loads' : m.user = u /\ Brings(m, c)
        <4>1. CASE event.kind = "join"
          <5>1. Asks(v, r) \in loads'
            BY <1>9, <2>4, <4>1 DEF Deliver
          <5>2. Asks(v, r).user = v /\ Asks(v, r).at \in Asked
            BY DEF Asks, Asked
          <5> QED
            BY <1>9, <5>1, <5>2 DEF Brings
        <4>2. CASE event.kind # "join"
          <5>1. JoinComes(u, c) => JoinComes(u, c)'
            BY <2>1, <4>2 DEF JoinComes, Pending
          <5> QED
            BY <1>4, <1>7, <2>4, <5>1 DEF TrueList
        <4> QED
          BY <4>1, <4>2
      <3> QED
        BY <2>3, <3>1, <3>2 DEF TrueList, Brings
    <2>5. CASE c \in DOMAIN app[u]
      <3> DEFINE old == app[u][c]
                 new == app'[u][c]
      <3>1. /\ new.title = IF Names(r) THEN Whom(r) ELSE old.title
            /\ event.kind = "join" => new.who = old.who \cup {Whom(r)}
            /\ event.kind = "leave" => new.who = old.who \ {Whom(r)}
            /\ event.kind = "title" => new.who = old.who
            /\ c \in DOMAIN app'[u]
        BY <1>1a, <1>6, <1>9, <2>5 DEF Turns, Names, Whom
      <3>2. TrueTitle(u, c, old.title) /\ TrueWho(u, c, old.who)
        BY <1>4, <2>5 DEF TrueList
      <3>3. /\ Seats(r) => \/ \E o \in P \ {r} : Seats(o) /\ Whom(o) = Whom(r)
                           \/ event.kind = "join" <=> Whom(r) \in Members(c)
            /\ Names(r) => \/ \E o \in P \ {r} : Names(o)
                           \/ rooms[c].title = Whom(r)
        BY <1>2, <1>9, DeliverNewest DEF Sees
      <3>4. Named(u, c)' <=> \E o \in P \ {r} : Names(o)
        BY <2>1, <2>2 DEF Named
      <3>5. Named(u, c) <=> \E o \in P : Names(o)
        BY DEF Named
      <3>6. \A x : x \in Moved(u, c)' <=> \E o \in P \ {r} : Seats(o) /\ Whom(o) = x
        <4>1. Moved(u, c)' = {Whom(o)' : o \in {o \in P \ {r} : Seats(o)'}}
          BY <2>1 DEF Moved
        <4>2. {Whom(o)' : o \in {o \in P \ {r} : Seats(o)'}} = {Whom(o) : o \in {o \in P \ {r} : Seats(o)}}
          BY <2>2
        <4> QED
          BY <4>1, <4>2
      <3>7. \A x : x \in Moved(u, c) <=> \E o \in P : Seats(o) /\ Whom(o) = x
        BY DEF Moved
      <3>8. Seats(r) <=> event.kind \in {"join", "leave"}
        BY DEF Seats
      <3> HIDE DEF old, new, P, event
      <3>9. Named(u, c)' \/ new.title = rooms[c].title
        BY <2>1, <3>1, <3>2, <3>3, <3>4, <3>5 DEF TrueTitle
      <3>10. ASSUME NEW x, x \notin Moved(u, c)' PROVE x \in new.who <=> x \in Members(c)
        <4>1. CASE Seats(r) /\ x = Whom(r)
          BY <1>1, <3>1, <3>3, <3>6, <3>8, <3>10, <4>1
        <4>2. CASE ~(Seats(r) /\ x = Whom(r))
          <5>1. x \notin Moved(u, c)
            BY <3>6, <3>7, <3>10, <4>2
          <5>2. x \in new.who <=> x \in old.who
            BY <1>1, <3>1, <3>8, <4>2
          <5> QED
            BY <3>2, <5>1, <5>2 DEF TrueWho
        <4> QED
          BY <4>1, <4>2
      <3>11. new.who \ Moved(u, c)' = Members(c) \ Moved(u, c)'
        BY <3>10
      <3>12. Members(c)' = Members(c) /\ rooms'[c].title = rooms[c].title
        BY <1>2 DEF Members
      <3> QED
        BY <2>3, <3>1, <3>9, <3>11, <3>12 DEF TrueList, TrueTitle, TrueWho, new
    <2> QED
      BY <2>4, <2>5
  <1> QED
    BY <1>8, <1>9

(* ---------------------------------------------------- who asks, and what is shown *)
LEMMA RoomStepEver ==
    ASSUME Ready, RoomInv, PeopleInv, NEW r \in Requests, RoomStep(r) PROVE EverStays
  <1>1. NameInv
    BY DEF RoomInv
  <1>2. CASE ~Tells(r)
    BY <1>1, <1>2, SilentStepRooms, RoomsStayEver
  <1>3. CASE Announce(r) \/ \E u \in Viewers : Deliver(r, u)
    BY <1>1, <1>3, AnnounceRelays, DeliverRelays, RelaysStay, RoomsStayEver
  <1>4. CASE CreateGroup(r) \/ CommitSession(r)
    BY <1>1, <1>4, NewRoomTold, ChangingKeepsEver
  <1>5. CASE job[r].about \in DOMAIN rooms /\ (InviteWrite(r) \/ Rename(r) \/ RemoveParticipant(r))
    BY <1>1, <1>5, InviteTold, RenameTold, RemovalTold, ChangingKeepsEver
  <1> QED
    BY <1>2, <1>3, <1>4, <1>5 DEF Tells

LEMMA RoomStepKeepsAsk ==
    ASSUME Ready, RoomInv, PeopleInv, AskInv, NEW r \in Requests, RoomStep(r) PROVE AskInv'
  <1>1. EverStays
    BY RoomStepEver
  <1>2. job' = job /\ \A o \in Requests \ {r} : pc'[o] = pc[o]
    BY RoomMoves DEF Moves
  <1>3. ASSUME NEW o \in Requests \ {r} PROVE Asker(o)'
    BY <1>1, <1>2, <1>3, AskerStays DEF AskInv
  <1>4. Asker(r) /\ PlaceInv
    BY DEF AskInv, PeopleInv
  <1>5. ASSUME pc'[r] \notin Replies \cup {"remove", "destroy", "change"} PROVE Asker(r)'
    BY <1>1, <1>2, <1>4, <1>5, AskerStays
  <1>6. ASSUME pc[r] \in Replies, pc'[r] \in Replies PROVE Asker(r)'
    BY <1>1, <1>2, <1>4, <1>6, AskerStays
  <1>7. ASSUME job[r].op \notin {"group", "leave", "hide"}, pc'[r] \in Replies PROVE Asker(r)'
    BY <1>2, <1>7 DEF Asker, Replies
  <1> USE DEF Ready, Goto, Is, Replies
  <1>8. ASSUME DmCheck(r) \/ FindDm(r) \/ MakeDm(r) PROVE Asker(r)'
    BY <1>5, <1>8 DEF DmCheck, FindDm, MakeDm, AfterDm
  <1>9. ASSUME CreateGroup(r) PROVE Asker(r)'
    <2>1. job[r].op = "group" /\ pc'[r] = "announce"
      BY <1>9 DEF CreateGroup, Changes
    <2>2. Changing(r, r)
      BY <1>9, NewRoomTold
    <2>3. /\ rooms' = With(rooms, r, [NewRoom("group", job[r].user, job[r].whom, "new") EXCEPT !.rev = @ + 1])
      BY <1>9 DEF CreateGroup, Changes
    <2>4. r \in DOMAIN rooms' /\ job[r].user \in DOMAIN rooms'[r].who
      BY <2>3 DEF With, NewRoom
    <2>5. Ever(job[r].user, r)'
      BY <1>2, <2>4 DEF Ever, IsMember, Members
    <2> QED
      BY <1>2, <2>1, <2>5 DEF Asker
  <1>10. ASSUME SessionCheck(r) \/ CallTimesOut(r) \/ AgentCheck(r) \/ CreateAgentSession(r) PROVE Asker(r)'
    BY <1>5, <1>10 DEF SessionCheck, CallTimesOut, AfterTimeout, AgentCheck, CreateAgentSession
  <1>11. ASSUME \E answered \in BOOLEAN : PluginOpens(r, answered) PROVE Asker(r)'
    BY <1>5, <1>11 DEF PluginOpens
  <1>12. ASSUME CommitSession(r) PROVE Asker(r)'
    <2>1. job[r].op = "session" /\ pc'[r] = "announce"
      BY <1>4, <1>12 DEF CommitSession, Changes, PlaceInv
    <2> QED
      BY <1>7, <2>1
  <1>13. ASSUME CallerCheck(r) PROVE Asker(r)'
    <2>1. CASE MayChange(r)
      <3>1. pc'[r] = "change" /\ Ever(job[r].user, job[r].about)
        BY <1>13, <2>1 DEF CallerCheck, MayChange, Ever
      <3> QED
        BY <1>1, <1>2, <3>1 DEF Asker, EverStays
    <2>2. CASE ~MayChange(r)
      BY <1>5, <1>13, <2>2 DEF CallerCheck
    <2> QED
      BY <2>1, <2>2
  <1>14. ASSUME InviteWrite(r) PROVE Asker(r)'
    BY <1>5, <1>7, <1>14 DEF InviteWrite, Changes, Refuse
  <1>15. ASSUME Rename(r) PROVE Asker(r)'
    <2>1. job[r].op \notin {"group", "leave", "hide"} /\ pc'[r] \in {"announce", "done"}
      BY <1>15 DEF Rename, Changes, Refuse
    <2> QED
      BY <1>5, <1>7, <2>1
  <1>16. ASSUME PersonalWrite(r) PROVE Asker(r)'
    <2>1. pc[r] = "change" /\ pc'[r] = "answer" /\ job[r].op \in {"pin", "unpin", "hide"}
      BY <1>16 DEF PersonalWrite
    <2>2. CASE job[r].op # "hide"
      BY <1>7, <2>1, <2>2
    <2>3. CASE job[r].op = "hide"
      <3>1. Ever(job[r].user, job[r].about)
        BY <1>4, <2>1 DEF Asker
      <3>2. CASE Left(job[r].user, job[r].about)
        BY <1>1, <1>2, <2>1, <2>3, <3>2 DEF Asker, EverStays
      <3>3. CASE IsMember(job[r].about, job[r].user)
        <4>1. rooms'[job[r].about].who[job[r].user].hidden
          BY <1>16, <2>3, <3>3, HidesOrPins
        <4>2. IsMember(job[r].about, job[r].user)'
          BY <1>2, <1>16, <3>3, HidesOrPins DEF IsMember, Members, SameRoom
        <4> QED
          BY <1>2, <2>1, <2>3, <4>1, <4>2 DEF Asker, Hidden
      <3> QED
        BY <3>1, <3>2, <3>3 DEF Ever
    <2> QED
      BY <2>2, <2>3
  <1>17. ASSUME KickCaller(r) \/ Refresh(r) PROVE Asker(r)'
    BY <1>5, <1>17 DEF KickCaller, Refresh
  <1>18. ASSUME KickTarget(r) PROVE Asker(r)'
    BY <1>2, <1>18 DEF KickTarget, Asker
  <1>19. ASSUME LeaveRead(r) PROVE Asker(r)'
    <2>1. CASE ~IsMember(job[r].about, job[r].user)
      BY <1>5, <1>19, <2>1 DEF LeaveRead
    <2>2. CASE IsMember(job[r].about, job[r].user)
      <3>1. job[r].op = "leave" /\ pc'[r] \in {"destroy", "remove"}
        BY <1>19, <2>2 DEF LeaveRead
      <3>2. Ever(job[r].user, job[r].about)
        BY <2>2 DEF Ever
      <3> QED
        BY <1>1, <1>2, <3>1, <3>2 DEF Asker, EverStays
    <2> QED
      BY <2>1, <2>2
  <1>20. ASSUME RemoveParticipant(r) PROVE Asker(r)'
    <2>1. /\ pc[r] = "remove" /\ pc'[r] \in {"announce", "answer"}
          /\ away' = away \cup {<<job[r].about, Leaver(r)>>}
      BY <1>20 DEF RemoveParticipant, Changes
    <2>2. job[r].op \in {"kick", "leave"}
      BY <1>4, <2>1 DEF Asker
    <2>3. job[r].op = "leave" => Left(job[r].user, job[r].about)'
      BY <1>2, <2>1 DEF Left, Leaver
    <2> QED
      BY <1>2, <2>1, <2>2, <2>3 DEF Asker
  <1>21. ASSUME DestroyConversation(r) PROVE Asker(r)'
    <2>1. /\ pc[r] = "destroy" /\ pc'[r] = "answer" /\ away' = away
          /\ rooms' = Without(rooms, job[r].about)
      BY <1>21 DEF DestroyConversation
    <2>2. job[r].op = "leave" /\ Ever(job[r].user, job[r].about)
      BY <1>4, <2>1 DEF Asker
    <2>3. Expecting' \subseteq Expecting
      BY <1>2, <2>1, ExpectingShrinks
    <2>4. job[r].about \notin DOMAIN rooms'
      BY <2>1 DEF Without, Restrict
    <2>5. IsMember(job[r].about, job[r].user) => job[r].about \notin Expecting
      BY DEF IsMember, RoomInv, NameInv
    <2>6. Left(job[r].user, job[r].about)'
      BY <1>1, <1>2, <2>2, <2>3, <2>4, <2>5 DEF Ever, Left, Dissolved, EverStays
    <2> QED
      BY <1>2, <2>1, <2>2, <2>6 DEF Asker
  <1>22. ASSUME Announce(r) \/ AllSent(r) \/ Answer(r) PROVE Asker(r)'
    BY <1>5, <1>6, <1>22 DEF Announce, AllSent, Answer
  <1>23. ASSUME RoomFails(r) PROVE Asker(r)'
    BY <1>5, <1>6, <1>23 DEF RoomFails, AfterDm
  <1>24. ASSUME \E u \in Viewers : Deliver(r, u) PROVE Asker(r)'
    BY <1>6, <1>24 DEF Deliver
  <1> HIDE DEF Ready, Goto, Is, Replies
  <1>25. Asker(r)'
    BY <1>8, <1>9, <1>10, <1>11, <1>12, <1>13, <1>14, <1>15, <1>16, <1>17, <1>18, <1>19, <1>20, <1>21,
       <1>22, <1>23, <1>24 DEF RoomStep
  <1> QED
    BY <1>3, <1>25 DEF AskInv

LEMMA OthersKeepAsk ==
    ASSUME Ready, RoomInv, AskInv, [Next]_backendVars, \A r \in Requests : ~RoomStep(r) PROVE AskInv'
  <1>1. RoomsStay
    BY OthersTalkNot
  <1>2. EverStays /\ job' = job
    BY <1>1, RoomsStayEver DEF RoomInv, RoomsStay
  <1> DEFINE S == Replies \cup {"remove", "destroy", "change"}
             Stay == \A o \in Requests : pc'[o] \in S => pc'[o] = pc[o]
  <1>3. ASSUME NEW r \in Requests, AgentStep(r) PROVE Stay
    BY <1>3, AgentMoves DEF Moves, AgentStages, Replies
  <1>4. ASSUME \A r \in Requests : ~AgentStep(r) PROVE Stay
    BY <1>4, OthersSpareRooms DEF Spares, RoomStages, Replies
  <1>5. Stay
    BY <1>3, <1>4
  <1>6. ASSUME NEW o \in Requests PROVE Asker(o)'
    BY <1>2, <1>5, AskerStays DEF AskInv
  <1> QED
    BY <1>6 DEF AskInv

\* What is shown, and what is on its way, are entries of conversations one was in.
EntriesOf(u, list) == \A c \in DOMAIN list : Ever(u, c) /\ IsEntry(list[c])
LEMMA ShownStays ==
    ASSUME ShownInv, EverStays,
           \A u \in Viewers : \/ EntriesOf(u, app'[u])
                              \/ \A c \in DOMAIN app'[u] : c \in DOMAIN app[u] /\ app'[u][c] = app[u][c],
           \A u \in Viewers : store'[u] \in {store[u], Over(app'[u], store[u])},
           \A l \in loads' : \/ EntriesOf(l.user, l.fresh)
                             \/ \E m \in loads : m.user = l.user /\ m.fresh = l.fresh,
           \A l \in loads' : l.at \in Asked => \/ l \in loads
                                               \/ l.fresh = <<>> /\ l.over = {}
    PROVE  ShownInv'
  <1>1. ASSUME NEW u \in Viewers, NEW c \in DOMAIN app'[u] PROVE Ever(u, c)' /\ IsEntry(app'[u][c])
    BY <1>1 DEF ShownInv, EntriesOf, EverStays
  <1>2. ASSUME NEW l \in loads', NEW c \in DOMAIN l.fresh PROVE Ever(l.user, c)' /\ IsEntry(l.fresh[c])
    BY <1>2 DEF ShownInv, EntriesOf, EverStays
  <1>3. \A l \in loads' : l.at \in Asked => l.fresh = <<>> /\ l.over = {}
    BY DEF ShownInv
  <1>4. ASSUME NEW u \in Viewers, NEW c \in DOMAIN store'[u] PROVE Ever(u, c)' /\ IsEntry(store'[u][c])
    <2>1. \A d \in DOMAIN store[u] : Ever(u, d)' /\ IsEntry(store[u][d])
      BY DEF ShownInv, EverStays
    <2>2. CASE store'[u] = store[u]
      BY <1>4, <2>1, <2>2
    <2>3. CASE store'[u] = Over(app'[u], store[u])
      <3>1. \/ c \in DOMAIN app'[u] /\ store'[u][c] = app'[u][c]
            \/ c \in DOMAIN store[u] /\ store'[u][c] = store[u][c]
        BY <1>4, <2>3 DEF Over
      <3> QED
        BY <1>1, <2>1, <3>1
    <2> QED
      BY <2>2, <2>3
  <1> QED
    BY <1>1, <1>2, <1>3, <1>4 DEF ShownInv, IsEntry

LEMMA IsEntryOf == \A c : IsEntry(Entry(c))
  BY DEF IsEntry, Entry

LEMMA DeliverKeepsShown ==
    ASSUME PeopleInv, ShownInv, EverStays, NEW r \in Requests, NEW v \in Viewers, Deliver(r, v) PROVE ShownInv'
  <1> DEFINE c == snap[r].room
             event == snap[r].event
             list == app[v]
  <1>1. event.kind \in {"join", "leave", "title"}
    BY DEF Deliver, PeopleInv, ChangeInv, IsChange
  <1>2. /\ app'[v] = Handled(list, c, event)
        /\ \A u \in Viewers \ {v} : app'[u] = app[u]
    BY DEF Deliver, PeopleInv, AppInv
  <1>3. \A d \in DOMAIN list : IsEntry(list[d]) /\ Ever(v, d)
    BY DEF ShownInv
  <1> HIDE DEF c, event, list
  <1>4. EntriesOf(v, app'[v])
    BY <1>1, <1>2, <1>3, HandledListed, HandledEntry DEF EntriesOf
  <1>5. \A u \in Viewers : \/ EntriesOf(u, app'[u])
                           \/ \A d \in DOMAIN app'[u] : d \in DOMAIN app[u] /\ app'[u][d] = app[u][d]
    BY <1>2, <1>4
  <1>6. \A m \in loads' :
           \/ m.at \in Asked /\ m.fresh = <<>> /\ m.over = {}
           \/ \E l \in loads : /\ m.user = l.user /\ m.at = l.at /\ m.fresh = l.fresh
                               /\ l.at \in Asked => m = l
    BY DeliverLoads
  <1>7. \A l \in loads' : \/ EntriesOf(l.user, l.fresh)
                          \/ \E m \in loads : m.user = l.user /\ m.fresh = l.fresh
    BY <1>6 DEF EntriesOf
  <1>8. \A l \in loads' : l.at \in Asked => l \in loads \/ (l.fresh = <<>> /\ l.over = {})
    <2> SUFFICES ASSUME NEW m \in loads', m.at \in Asked PROVE m \in loads \/ (m.fresh = <<>> /\ m.over = {})
      OBVIOUS
    <2>1. CASE m.fresh = <<>> /\ m.over = {}
      BY <2>1
    <2>2. ASSUME NEW l \in loads, m.at = l.at, l.at \in Asked => m = l PROVE m \in loads
      BY <2>2
    <2> QED
      BY <1>6, <2>1, <2>2
  <1>9. \A u \in Viewers : store'[u] \in {store[u], Over(app'[u], store[u])}
    BY DEF Deliver, Persist, PeopleInv, AppInv
  <1> QED
    BY <1>5, <1>7, <1>8, <1>9, ShownStays

LEMMA AnswerKeepsShown ==
    ASSUME PeopleInv, AskInv, ShownInv, EverStays, NEW r \in Requests, Answer(r) PROVE ShownInv'
  <1> DEFINE made == [user |-> job[r].user, by |-> r, at |-> "insert", had |-> TRUE,
                      fresh |-> [c \in {r} |-> Entry(r)], over |-> {}]
  <1>1. /\ store' = store
        /\ app' = app \/ app' = [app EXCEPT ![job[r].user] = Without(app[job[r].user], job[r].about)]
    BY DEF Answer, Drops
  <1>2. \A u \in Viewers : \A c \in DOMAIN app'[u] : c \in DOMAIN app[u] /\ app'[u][c] = app[u][c]
    BY <1>1 DEF PeopleInv, AppInv, Without, Restrict
  <1>3. \A l \in loads' : l \in loads \/ (job[r].op = "group" /\ l = made)
    <2>1. loads' = IF job[r].op = "group" /\ r \in DOMAIN rooms /\ job[r].user \in Viewers
                   THEN loads \cup {made} ELSE loads
      BY DEF Answer
    <2> HIDE DEF made
    <2> QED
      BY <2>1
  <1>4. job[r].op = "group" => Ever(job[r].user, r)
    BY DEF Answer, AskInv, Asker, Replies
  <1>5. made.user = job[r].user /\ made.fresh = [c \in {r} |-> Entry(r)] /\ made.at \notin Asked
    BY DEF Asked
  <1> HIDE DEF made
  <1>6. job[r].op = "group" => EntriesOf(made.user, made.fresh)
    BY <1>4, <1>5, IsEntryOf DEF EntriesOf
  <1> QED
    BY <1>1, <1>2, <1>3, <1>5, <1>6, ShownStays

LEMMA RefreshKeepsShown ==
    ASSUME ShownInv, EverStays, NEW r \in Requests, Refresh(r) PROVE ShownInv'
  <1> DEFINE ask == Asks(job[r].user, r)
  <1>1. ask.fresh = <<>> /\ ask.over = {}
    BY DEF Asks
  <1>2. app' = app /\ store' = store /\ loads' = loads \cup {ask}
    BY DEF Refresh
  <1> HIDE DEF ask
  <1>3. EntriesOf(ask.user, ask.fresh)
    BY <1>1 DEF EntriesOf
  <1> QED
    BY <1>1, <1>2, <1>3, ShownStays

LEMMA LoadStepKeepsShown ==
    ASSUME PeopleInv, ShownInv, EverStays, NEW l \in loads, LoadStep(l) PROVE ShownInv'
  <1>1. IsLoad(l) /\ DOMAIN app = Viewers /\ DOMAIN store = Viewers
    BY DEF PeopleInv, AppInv
  <1>2. EntriesOf(l.user, l.fresh)
    BY DEF ShownInv, EntriesOf
  <1>3. CASE ListRooms(l)
    <2> DEFINE shown == [c \in Listed(l.user) |-> [who |-> {}, title |-> rooms[c].title]]
               next == [l EXCEPT !.at = "members", !.fresh = shown]
    <2>1. EntriesOf(l.user, shown)
      BY DEF EntriesOf, Listed, Ever, IsMember, IsEntry
    <2>2. next.user = l.user /\ next.fresh = shown /\ next.at \notin Asked
      <3> HIDE DEF shown
      <3> QED
        BY <1>1 DEF IsLoad, Asked
    <2>3. app' = app /\ store' = store /\ loads' = (loads \ {l}) \cup {next}
      BY <1>3 DEF ListRooms
    <2> HIDE DEF shown, next
    <2> QED
      BY <2>1, <2>2, <2>3, ShownStays
  <1>4. CASE LoadMembers(l)
    <2> DEFINE filled == [c \in DOMAIN l.fresh |->
                             [l.fresh[c] EXCEPT !.who = IF c \in DOMAIN rooms THEN Members(c) ELSE {}]]
               next == [l EXCEPT !.at = "show", !.fresh = filled]
    <2>1. EntriesOf(l.user, filled)
      BY <1>2 DEF EntriesOf, IsEntry
    <2>2. next.user = l.user /\ next.fresh = filled /\ next.at \notin Asked
      <3> HIDE DEF filled
      <3> QED
        BY <1>1 DEF IsLoad, Asked
    <2>3. app' = app /\ store' = store /\ loads' = (loads \ {l}) \cup {next}
      BY <1>4 DEF LoadMembers
    <2> HIDE DEF filled, next
    <2> QED
      BY <2>1, <2>2, <2>3, ShownStays
  <1>5. CASE Show(l)
    <2>1. loads' = loads \ {l} /\ app' = [app EXCEPT ![l.user] = Fetched(l)] /\ Persist(l.user)
      BY <1>5 DEF Show
    <2>2. l.user \in Viewers => EntriesOf(l.user, Fetched(l))
      BY <1>2 DEF Fetched, EntriesOf, ShownInv
    <2>3. \A u \in Viewers : EntriesOf(u, app'[u]) \/ app'[u] = app[u]
      BY <1>1, <2>1, <2>2
    <2>4. \A u \in Viewers : store'[u] \in {store[u], Over(app'[u], store[u])}
      BY <1>1, <2>1 DEF Persist
    <2> QED
      BY <2>1, <2>3, <2>4, ShownStays
  <1>6. CASE LoadFails(l)
    <2>1. loads' \subseteq loads /\ app' = app /\ store' = store
      BY <1>6 DEF LoadFails
    <2> QED
      BY <2>1, ShownStays
  <1>7. CASE Insert(l)
    <2>1. /\ loads' = loads \ {l} /\ Persist(l.user)
          /\ app' = app \/ app' = [app EXCEPT ![l.user] = Over(l.fresh, app[l.user])]
      BY <1>7 DEF Insert
    <2>2. l.user \in Viewers => EntriesOf(l.user, Over(l.fresh, app[l.user]))
      BY <1>2 DEF Over, EntriesOf, ShownInv
    <2>3. \A u \in Viewers : EntriesOf(u, app'[u]) \/ app'[u] = app[u]
      BY <1>1, <2>1, <2>2
    <2>4. \A u \in Viewers : store'[u] \in {store[u], Over(app'[u], store[u])}
      BY <1>1, <2>1 DEF Persist
    <2> QED
      BY <2>1, <2>3, <2>4, ShownStays
  <1>8. CASE Recall(l)
    <2> DEFINE list(cached) == [c \in cached |-> store[l.user][c]]
               next(had) == [l EXCEPT !.at = "list", !.had = had]
    <2>1. PICK cached \in SUBSET DOMAIN store[l.user] :
              /\ loads' = (loads \ {l}) \cup {next(cached # {})}
              /\ app' = app \/ app' = [app EXCEPT ![l.user] = list(cached)]
      BY <1>8 DEF Recall
    <2>2. l.user \in Viewers => EntriesOf(l.user, list(cached))
      BY DEF EntriesOf, ShownInv
    <2>3. l.fresh = <<>> /\ l.over = {}
      BY <1>8 DEF Recall, Asked, ShownInv
    <2>4. next(cached # {}).user = l.user /\ next(cached # {}).fresh = <<>> /\ next(cached # {}).over = {}
      BY <1>1, <2>3 DEF IsLoad
    <2> HIDE DEF list, next
    <2>5. \A u \in Viewers : EntriesOf(u, app'[u]) \/ app'[u] = app[u]
      BY <1>1, <2>1, <2>2
    <2>6. \A m \in loads' : m \in loads \/ (m.user = l.user /\ m.fresh = <<>> /\ m.over = {})
      BY <2>1, <2>4
    <2>7. \A m \in loads' : \/ EntriesOf(m.user, m.fresh)
                            \/ \E o \in loads : o.user = m.user /\ o.fresh = m.fresh
      BY <2>3, <2>6
    <2>8. store' = store
      BY <1>8 DEF Recall
    <2> QED
      BY <2>5, <2>6, <2>7, <2>8, ShownStays
  <1> QED
    BY <1>3, <1>4, <1>5, <1>6, <1>7, <1>8 DEF LoadStep

(* -------------------------------------------------- the lists through every step *)
LEMMA RoomsStayTyped == ASSUME RoomsTyped, RoomsStay PROVE DOMAIN rooms' \subseteq Requests
  BY DEF RoomsTyped, RoomsStay, Expecting

LEMMA QuietKeepsLists ==
    ASSUME RoomInv, PeopleInv, TellInv, ListInv, TalkStays, RoomsStay, UNCHANGED <<app, loads>>
    PROVE  ListInv'
  <1>1. NameInv /\ DOMAIN rooms' \subseteq Requests
    BY RoomsStayTyped DEF RoomInv, PeopleInv
  <1>2. ASSUME NEW u \in Viewers, NEW c \in Requests, Sees(u, c), c \notin DOMAIN app[u]
        PROVE  JoinComes(u, c) \/ \E l \in loads : l.user = u /\ Brings(l, c)
    BY <1>2 DEF ListInv, Sees, Listed, TrueList
  <1> QED
    BY <1>1, <1>2, ListsStay

LEMMA AnswerKeepsLists ==
    ASSUME RoomInv, PeopleInv, TellInv, AskInv, ListInv, TalkStays, RoomsStay, NEW r \in Requests, Answer(r)
    PROVE  ListInv'
  <1> DEFINE made == [user |-> job[r].user, by |-> r, at |-> "insert", had |-> TRUE,
                      fresh |-> [c \in {r} |-> Entry(r)], over |-> {}]
             who == job[r].user
             about == job[r].about
  <1>1. NameInv /\ DOMAIN rooms' \subseteq Requests
    BY RoomsStayTyped DEF RoomInv, PeopleInv
  <1>2. \/ app' = app
        \/ job[r].op \in {"leave", "hide"} /\ app' = [app EXCEPT ![who] = Without(app[who], about)]
    BY DEF Answer, Drops
  <1>3. job[r].op \in {"leave", "hide"} => Left(who, about) \/ Hidden(who, about)
    BY DEF Answer, AskInv, Asker, Replies
  <1>4. loads \subseteq loads' /\ loads' \subseteq loads \cup {made}
    BY DEF Answer
  <1>5. \A c : TrueLoad(made, c)
    <2>1. made.user = who /\ made.at = "insert" /\ made.fresh = [c \in {r} |-> Entry(r)]
      OBVIOUS
    <2>2. Entry(r).title = rooms[r].title /\ Entry(r).who = Members(r)
      BY DEF Entry
    <2> HIDE DEF made
    <2> QED
      BY <2>1, <2>2 DEF TrueLoad, TrueTitle, TrueWho
  <1> HIDE DEF made, who, about
  <1>6. ASSUME NEW u \in Viewers, NEW c \in Requests, Sees(u, c)
        PROVE  /\ c \in DOMAIN app'[u] <=> c \in DOMAIN app[u]
               /\ c \in DOMAIN app'[u] => app'[u][c] = app[u][c]
    <2>1. ~Left(u, c) /\ ~Hidden(u, c)
      BY <1>6 DEF Sees, Listed, Left, Dissolved, Hidden
    <2>2. app' = [app EXCEPT ![who] = Without(app[who], about)] => u # who \/ c # about \/ app' = app
      BY <1>2, <1>3, <2>1
    <2>3. DOMAIN app = Viewers
      BY DEF PeopleInv, AppInv
    <2> QED
      BY <1>2, <2>2, <2>3 DEF Without, Restrict
  <1>7. ASSUME NEW u \in Viewers, NEW c \in Requests, Sees(u, c), c \notin DOMAIN app[u]
        PROVE  JoinComes(u, c) \/ \E l \in loads' : l.user = u /\ Brings(l, c)
    BY <1>4, <1>7 DEF ListInv, Sees, Listed, TrueList
  <1> QED
    BY <1>1, <1>4, <1>5, <1>6, <1>7, ListsStay

LEMMA RefreshKeepsLists ==
    ASSUME RoomInv, PeopleInv, TellInv, ListInv, TalkStays, RoomsStay, NEW r \in Requests, Refresh(r)
    PROVE  ListInv'
  <1> DEFINE ask == Asks(job[r].user, r)
  <1>1. NameInv /\ DOMAIN rooms' \subseteq Requests
    BY RoomsStayTyped DEF RoomInv, PeopleInv
  <1>2. app' = app /\ loads' = loads \cup {ask}
    BY DEF Refresh
  <1>3. ask.at \in Asked
    BY DEF Asks, Asked
  <1> HIDE DEF ask
  <1>4. \A c : TrueLoad(ask, c)
    BY <1>3 DEF TrueLoad
  <1>5. ASSUME NEW u \in Viewers, NEW c \in Requests, Sees(u, c), c \notin DOMAIN app[u]
        PROVE  JoinComes(u, c) \/ \E l \in loads' : l.user = u /\ Brings(l, c)
    BY <1>2, <1>5 DEF ListInv, Sees, Listed, TrueList
  <1> QED
    BY <1>1, <1>2, <1>4, <1>5, ListsStay

\* One read of a list answer after the other: the next is as true as the one before.
LEMMA ReadKeepsLists ==
    ASSUME RoomInv, PeopleInv, TellInv, ListInv, TalkStays, RoomsStay, app' = app,
           NEW l \in loads, NEW next, loads' = (loads \ {l}) \cup {next}, next.user = l.user,
           \A c \in DOMAIN rooms : Sees(l.user, c) =>
               /\ Brings(l, c) => Brings(next, c)
               /\ TrueLoad(l, c) => TrueLoad(next, c)
    PROVE  ListInv'
  <1>1. NameInv /\ DOMAIN rooms' \subseteq Requests
    BY RoomsStayTyped DEF RoomInv, PeopleInv
  <1>2. ASSUME NEW u \in Viewers, NEW c \in Requests, Sees(u, c)
        PROVE  /\ c \in DOMAIN rooms /\ TrueList(u, c)
               /\ \A m \in loads : m.user = u => TrueLoad(m, c)
    BY <1>2 DEF ListInv, Sees, Listed
  <1>3. ASSUME NEW u \in Viewers, NEW c \in Requests, Sees(u, c), c \notin DOMAIN app[u]
        PROVE  JoinComes(u, c) \/ \E m \in loads' : m.user = u /\ Brings(m, c)
    BY <1>2, <1>3 DEF TrueList
  <1>4. ASSUME NEW u \in Viewers, NEW c \in Requests, Sees(u, c), NEW m \in loads', m.user = u
        PROVE  m \in loads \/ TrueLoad(m, c)
    BY <1>2, <1>4
  <1> QED
    BY <1>1, <1>3, <1>4, ListsStay

LEMMA LoadStepStays ==
    ASSUME NEW l \in loads, LoadStep(l) PROVE TalkStays /\ RoomsStay
  <1>1. UNCHANGED <<handlerVars, rooms, plugin>>
    BY LoadsStay
  <1>2. heard' = heard /\ away' = away /\ missed \subseteq missed'
    BY DEF LoadStep, Recall, ListRooms, LoadMembers, Show, Insert, LoadFails
  <1>3. TalkStays /\ job' = job /\ Expecting' = Expecting
    BY <1>1, <1>2 DEF handlerVars, TalkStays, Expecting
  <1> QED
    BY <1>1, <1>2, <1>3, SilentRooms

\* What is put into a list is what arrived; what a list loses has its load still to come.
LEMMA ShowKeepsLists ==
    ASSUME RoomInv, PeopleInv, TellInv, ListInv, TalkStays, RoomsStay, NEW l \in loads, Show(l) \/ Insert(l)
    PROVE  ListInv'
  <1>1. NameInv /\ DOMAIN rooms' \subseteq Requests
    BY RoomsStayTyped DEF RoomInv, PeopleInv
  <1>2. /\ loads' = loads \ {l} /\ l.at \notin Asked \cup {"members"}
        /\ missed' = missed \cup {<<l.user, c>> : c \in l.over}
        /\ \A u \in Viewers \ {l.user} : app'[u] = app[u]
    BY DEF Show, Insert, Asked, PeopleInv, AppInv
  <1>3. ASSUME l.user \in Viewers
        PROVE  \/ app'[l.user] = app[l.user] /\ (DOMAIN l.fresh \subseteq DOMAIN app[l.user] \/ l.fresh = <<>>)
               \/ l.at = "show" /\ app'[l.user] = l.fresh
               \/ l.at = "insert" /\ app'[l.user] = Over(l.fresh, app[l.user])
    BY <1>3 DEF Show, Insert, Fetched, PeopleInv, AppInv
  <1>4. ASSUME NEW u \in Viewers, NEW c \in Requests, Sees(u, c), Sees(u, c)'
        PROVE  /\ c \in DOMAIN app'[u] =>
                     \/ c \in DOMAIN app[u] /\ app'[u][c] = app[u][c]
                     \/ \E m \in loads : m.user = u /\ Arrives(m, c) /\ app'[u][c] = m.fresh[c]
               /\ c \notin DOMAIN app'[u] =>
                     JoinComes(u, c) \/ \E m \in loads' : m.user = u /\ Brings(m, c)
    <2>1. TrueList(u, c) /\ \A m \in loads : m.user = u => TrueLoad(m, c)
      BY <1>4 DEF ListInv, Sees, Listed
    <2>2. CASE u # l.user
      BY <1>2, <2>1, <2>2 DEF TrueList
    <2>3. CASE u = l.user
      <3>1. c \notin l.over /\ TrueLoad(l, c)
        BY <1>2, <1>4, <2>1, <2>3 DEF Sees
      <3>2. CASE c \in DOMAIN l.fresh
        <4>1. Arrives(l, c) /\ l.fresh # <<>>
          BY <1>2, <3>1, <3>2 DEF Arrives
        <4>2. c \in DOMAIN app'[u] => app'[u][c] = l.fresh[c] \/ (c \in DOMAIN app[u] /\ app'[u][c] = app[u][c])
          BY <1>3, <2>3, <3>2, <4>1 DEF Over
        <4>3. c \in DOMAIN app'[u]
          BY <1>3, <2>3, <3>2, <4>1 DEF Over
        <4> QED
          BY <2>3, <4>1, <4>2, <4>3
      <3>3. CASE c \notin DOMAIN l.fresh
        <4>1. ~Brings(l, c)
          BY <1>2, <3>1, <3>3 DEF Brings
        <4>2. c \notin DOMAIN app[u] => JoinComes(u, c) \/ \E m \in loads' : m.user = u /\ Brings(m, c)
          BY <1>2, <2>1, <4>1 DEF TrueList
        <4>3. CASE app'[u] = l.fresh /\ l.at = "show"
          BY <1>2, <2>3, <3>1, <3>3, <4>3 DEF TrueLoad
        <4>4. CASE app'[u] = app[u]
          BY <4>2, <4>4
        <4>5. CASE app'[u] = Over(l.fresh, app[u])
          <5>1. /\ c \in DOMAIN app'[u] <=> c \in DOMAIN app[u]
                /\ c \in DOMAIN app[u] => app'[u][c] = app[u][c]
            BY <3>3, <4>5 DEF Over
          <5> QED
            BY <4>2, <5>1
        <4> QED
          BY <1>3, <2>3, <4>3, <4>4, <4>5
      <3> QED
        BY <3>2, <3>3
    <2> QED
      BY <2>2, <2>3
  <1> QED
    BY <1>1, <1>2, <1>4, ListsStay

\* What the store has is shown until the list comes.
LEMMA RecallKeepsLists ==
    ASSUME RoomInv, PeopleInv, TellInv, ListInv, TalkStays, RoomsStay, NEW l \in loads, Recall(l)
    PROVE  ListInv'
  <1> DEFINE next(had) == [l EXCEPT !.at = "list", !.had = had]
             list(cached) == [c \in cached |-> store[l.user][c]]
  <1>1. NameInv /\ DOMAIN rooms' \subseteq Requests
    BY RoomsStayTyped DEF RoomInv, PeopleInv
  <1>2. PICK cached \in SUBSET DOMAIN store[l.user] :
            /\ loads' = (loads \ {l}) \cup {next(cached # {})}
            /\ \/ DOMAIN app[l.user] = {} /\ app' = [app EXCEPT ![l.user] = list(cached)]
                  /\ missed' = missed \cup {<<l.user, c>> : c \in cached}
               \/ app' = app
    BY DEF Recall
  <1> DEFINE asks == next(cached # {})
  <1>3. asks.user = l.user /\ asks.at \in Asked
    BY DEF PeopleInv, AppInv, IsLoad, Asked
  <1>4. DOMAIN list(cached) = cached /\ DOMAIN app = Viewers
    BY DEF PeopleInv, AppInv
  <1> HIDE DEF next, list, asks
  <1>5. \A c : TrueLoad(asks, c) /\ Brings(asks, c)
    BY <1>3 DEF TrueLoad, Brings
  <1>6. loads' = (loads \ {l}) \cup {asks}
    BY <1>2 DEF asks
  <1>7. ASSUME NEW u \in Viewers, NEW c \in Requests, Sees(u, c), Sees(u, c)'
        PROVE  /\ c \in DOMAIN app'[u] => c \in DOMAIN app[u] /\ app'[u][c] = app[u][c]
               /\ c \notin DOMAIN app'[u] =>
                     JoinComes(u, c) \/ \E m \in loads' : m.user = u /\ Brings(m, c)
    <2>1. CASE u = l.user
      <3>1. \E m \in loads' : m.user = u /\ Brings(m, c)
        BY <1>3, <1>5, <1>6, <2>1
      <3>2. c \in DOMAIN app'[u] => c \in DOMAIN app[u] /\ app'[u][c] = app[u][c]
        BY <1>2, <1>4, <1>7, <2>1 DEF Sees
      <3> QED
        BY <3>1, <3>2
    <2>2. CASE u # l.user
      <3>1. app'[u] = app[u]
        BY <1>2, <1>4, <2>2
      <3>2. c \notin DOMAIN app[u] => JoinComes(u, c) \/ \E m \in loads : m.user = u /\ Brings(m, c)
        BY <1>7 DEF ListInv, Sees, Listed, TrueList
      <3> QED
        BY <1>6, <2>2, <3>1, <3>2
    <2> QED
      BY <2>1, <2>2
  <1>8. \A u \in Viewers, c \in Requests : \A m \in loads' : m.user = u => m \in loads \/ TrueLoad(m, c)
    BY <1>5, <1>6
  <1> QED
    BY <1>1, <1>7, <1>8, ListsStay

LEMMA LoadFailsKeepsLists ==
    ASSUME RoomInv, PeopleInv, TellInv, ListInv, TalkStays, RoomsStay, NEW l \in loads, LoadFails(l)
    PROVE  ListInv'
  <1>1. NameInv /\ DOMAIN rooms' \subseteq Requests
    BY RoomsStayTyped DEF RoomInv, PeopleInv
  <1>2. /\ loads' = loads \ {l} /\ app' = app /\ rooms' = rooms
        /\ missed' = missed \cup {<<l.user, c>> : c \in DOMAIN rooms}
    BY DEF LoadFails
  <1>3. ASSUME NEW u \in Viewers, NEW c \in Requests, Sees(u, c), Sees(u, c)', c \notin DOMAIN app[u]
        PROVE  JoinComes(u, c) \/ \E m \in loads' : m.user = u /\ Brings(m, c)
    <2>1. TrueList(u, c) /\ c \in DOMAIN rooms
      BY <1>3 DEF ListInv, Sees, Listed
    <2>2. u # l.user
      BY <1>2, <1>3, <2>1 DEF Sees
    <2> QED
      BY <1>2, <1>3, <2>1, <2>2 DEF TrueList
  <1> QED
    BY <1>1, <1>2, <1>3, ListsStay

LEMMA LoadStepKeepsLists ==
    ASSUME RoomInv, PeopleInv, TellInv, ShownInv, ListInv, NEW l \in loads, LoadStep(l) PROVE ListInv'
  <1>1. TalkStays /\ RoomsStay /\ IsLoad(l)
    BY LoadStepStays DEF PeopleInv, AppInv
  <1>2. CASE ListRooms(l)
    <2> DEFINE shown == [c \in Listed(l.user) |-> [who |-> {}, title |-> rooms[c].title]]
               next == [l EXCEPT !.at = "members", !.fresh = shown]
    <2>1. app' = app /\ loads' = (loads \ {l}) \cup {next}
      BY <1>2 DEF ListRooms
    <2>2. DOMAIN shown = Listed(l.user) /\ \A c \in Listed(l.user) : shown[c].title = rooms[c].title
      OBVIOUS
    <2> HIDE DEF shown
    <2>3. next.user = l.user /\ next.at = "members" /\ next.fresh = shown
      BY <1>1 DEF IsLoad
    <2> HIDE DEF next
    <2>4. \A c \in DOMAIN rooms : Sees(l.user, c) => Brings(next, c) /\ TrueLoad(next, c)
      BY <2>2, <2>3 DEF Sees, Brings, TrueLoad, TrueTitle
    <2> QED
      BY <1>1, <2>1, <2>3, <2>4, ReadKeepsLists
  <1>3. CASE LoadMembers(l)
    <2> DEFINE filled == [c \in DOMAIN l.fresh |->
                             [l.fresh[c] EXCEPT !.who = IF c \in DOMAIN rooms THEN Members(c) ELSE {}]]
               next == [l EXCEPT !.at = "show", !.fresh = filled]
    <2>1. app' = app /\ loads' = (loads \ {l}) \cup {next} /\ l.at = "members"
      BY <1>3 DEF LoadMembers
    <2>2. /\ DOMAIN filled = DOMAIN l.fresh
          /\ \A c \in DOMAIN l.fresh : /\ filled[c].title = l.fresh[c].title
                                       /\ c \in DOMAIN rooms => filled[c].who = Members(c)
      BY DEF ShownInv, IsEntry
    <2> HIDE DEF filled
    <2>3. next.user = l.user /\ next.at = "show" /\ next.fresh = filled /\ next.over = l.over
      BY <1>1 DEF IsLoad
    <2> HIDE DEF next
    <2>4. ASSUME NEW c \in DOMAIN rooms
          PROVE  /\ Brings(l, c) => Brings(next, c)
                 /\ TrueLoad(l, c) => TrueLoad(next, c)
      BY <2>1, <2>2, <2>3 DEF Brings, TrueLoad, TrueWho, Asked
    <2> QED
      BY <1>1, <2>1, <2>3, <2>4, ReadKeepsLists
  <1> QED
    BY <1>1, <1>2, <1>3, RecallKeepsLists, ShowKeepsLists, LoadFailsKeepsLists DEF LoadStep

(* ---------------------------------------------------------- every step follows *)
LEMMA RoomStepKeepsShown ==
    ASSUME Ready, RoomInv, PeopleInv, AskInv, ShownInv, NEW r \in Requests, RoomStep(r) PROVE ShownInv'
  <1>1. EverStays
    BY RoomStepEver
  <1>2. CASE Refresh(r) \/ Answer(r) \/ \E u \in Viewers : Deliver(r, u)
    BY <1>1, <1>2, RefreshKeepsShown, AnswerKeepsShown, DeliverKeepsShown
  <1>3. CASE UNCHANGED <<app, store, loads>>
    BY <1>1, <1>3, ShownStays
  <1> QED
    BY <1>2, <1>3, PlainRoomStep

LEMMA ChangingFollows ==
    ASSUME Ready, RoomInv, PeopleInv, FollowInv, NEW r \in Requests, RoomStep(r), NEW c, Changing(r, c)
    PROVE  FollowInv'
  <1>1. NameInv
    BY DEF RoomInv
  <1> QED
    BY <1>1, ChangingKeepsTold, ChangingKeepsLogs, ChangingKeepsLists, RoomStepKeepsAsk, RoomStepKeepsShown
    DEF FollowInv

LEMMA RelayingFollows ==
    ASSUME Ready, RoomInv, PeopleInv, FollowInv, NEW r \in Requests, RoomStep(r),
           Announce(r) \/ \E u \in Viewers : Deliver(r, u)
    PROVE  FollowInv'
  <1>1. NameInv
    BY DEF RoomInv
  <1>2. TellInv' /\ LogInv'
    BY <1>1, AnnounceRelays, DeliverRelays, RelaysKeepTold, RelaysKeepLogs DEF FollowInv
  <1>3. ListInv'
    BY AnnounceKeepsLists, DeliverKeepsLists DEF FollowInv
  <1> QED
    BY <1>2, <1>3, RoomStepKeepsAsk, RoomStepKeepsShown DEF FollowInv

LEMMA SilentFollows ==
    ASSUME Ready, RoomInv, PeopleInv, FollowInv, NEW r \in Requests, RoomStep(r), ~Tells(r)
    PROVE  FollowInv'
  <1>1. NameInv /\ TalkStays /\ RoomsStay
    BY SilentStepTalks, SilentStepRooms DEF RoomInv
  <1>2. TellInv' /\ LogInv'
    BY <1>1, TellInvStays, LogInvStays DEF FollowInv
  <1>3. ListInv'
    <2>1. CASE Refresh(r) \/ Answer(r)
      BY <1>1, <2>1, RefreshKeepsLists, AnswerKeepsLists DEF FollowInv
    <2>2. CASE UNCHANGED <<app, loads>>
      BY <1>1, <2>2, QuietKeepsLists DEF FollowInv
    <2> QED
      BY <2>1, <2>2, PlainRoomStep DEF Tells
  <1> QED
    BY <1>2, <1>3, RoomStepKeepsAsk, RoomStepKeepsShown DEF FollowInv

LEMMA OthersFollow ==
    ASSUME Ready, RoomInv, PeopleInv, FollowInv, [Next]_backendVars, \A r \in Requests : ~RoomStep(r)
    PROVE  FollowInv'
  <1>1. NameInv /\ TalkStays /\ RoomsStay
    BY OthersTalkNot DEF RoomInv
  <1>2. TellInv' /\ LogInv' /\ AskInv'
    BY <1>1, TellInvStays, LogInvStays, OthersKeepAsk DEF FollowInv
  <1>3. EverStays
    BY <1>1, RoomsStayEver
  <1>4. ASSUME NEW l \in loads, LoadStep(l) PROVE ShownInv' /\ ListInv'
    BY <1>3, <1>4, LoadStepKeepsShown, LoadStepKeepsLists DEF FollowInv
  <1>5. ASSUME \A l \in loads : ~LoadStep(l) PROVE ShownInv' /\ ListInv'
    <2>1. UNCHANGED <<app, store, loads>>
      BY <1>5 DEF Next, backendVars, peopleVars, roomVars, ServerRestarts, PeopleNext, LoadStep
    <2>2. ShownInv'
      BY <1>3, <2>1, ShownStays DEF FollowInv
    <2> QED
      BY <1>1, <2>1, <2>2, QuietKeepsLists DEF FollowInv
  <1> QED
    BY <1>2, <1>4, <1>5 DEF FollowInv

LEMMA FollowInvNext == Ready /\ RoomInv /\ PeopleInv /\ FollowInv /\ [Next]_backendVars => FollowInv'
  <1> SUFFICES ASSUME Ready, RoomInv, PeopleInv, FollowInv, [Next]_backendVars PROVE FollowInv'
    OBVIOUS
  <1>1. ASSUME NEW r \in Requests, RoomStep(r) PROVE FollowInv'
    <2>1. CASE CreateGroup(r) \/ CommitSession(r)
      BY <1>1, <2>1, NewRoomTold, ChangingFollows
    <2>2. CASE job[r].about \in DOMAIN rooms /\ (InviteWrite(r) \/ Rename(r) \/ RemoveParticipant(r))
      BY <1>1, <2>2, InviteTold, RenameTold, RemovalTold, ChangingFollows
    <2>3. CASE Announce(r) \/ \E u \in Viewers : Deliver(r, u)
      BY <1>1, <2>3, RelayingFollows
    <2>4. CASE ~Tells(r)
      BY <1>1, <2>4, SilentFollows
    <2> QED
      BY <2>1, <2>2, <2>3, <2>4 DEF Tells
  <1> QED
    BY <1>1, OthersFollow

LEMMA FollowSafe == Spec => [](PeopleInv /\ FollowInv)
  BY ReadyInit, ReadyNext, RoomInvInit, RoomInvNext, PeopleInvInit, PeopleInvNext,
     FollowInvInit, FollowInvNext, PTL DEF Spec

(* When nothing is under way, every app shows the members and the title of each group that *)
(* its user is in, and that its list has once, as the database has them, however           *)
(* invitations, removals, renamings, their broadcasts, the loads of the lists, the answers *)
(* of creations and restarts of the server interleaved: but for a group of which a         *)
(* broadcast was lost, came after a later one or was overwritten by an older list, that    *)
(* was shown from the app's store, or that the user had left or been kicked from           *)
(* (conversation_provider).                                                                *)
THEOREM AppsFollow == Spec => []AppFollows
  <1>1. PeopleInv /\ FollowInv => AppFollows
    BY FollowsWhenQuiet DEF FollowInv
  <1> QED
    BY <1>1, FollowSafe, PTL
=============================================================================
