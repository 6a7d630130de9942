-------------------------------- MODULE Rooms --------------------------------
(***************************************************************************)
(* Conversations and their members: private chats, groups and the sessions *)
(* of an agent's plugin; inviting, kicking, leaving, renaming, hiding; the *)
(* broadcast about each change and the list that every user's app keeps    *)
(* from these broadcasts and from loading (handler/conversation_*.go,      *)
(* group_handler.go, repository/conversation_repo.go, participant_repo.go, *)
(* conversation_provider.dart).                                            *)
(*                                                                         *)
(* One action is one committed statement or transaction; checks are read   *)
(* before the transaction that relies on them.  A conversation's id is the *)
(* request that created it.                                                *)
(***************************************************************************)
EXTENDS Friends, Agents

CONSTANTS
    Viewers,        \* the users whose app is open
    FirstRooms,     \* the conversations there may be at the start
    FirstFriends    \* the friendships there are at the start

ASSUME FriendsAssumption ==
    /\ \A f \in FirstFriends : DOMAIN f = {"id", "from", "to", "status"}
    /\ \A f, g \in FirstFriends : f.id = g.id \/ {f.from, f.to} = {g.from, g.to} => f = g
    /\ \A f \in FirstFriends, j \in Jobs : f.id \in Requests => j[f.id].op # "befriend"

People == Users \cup DOMAIN FirstAgents \cup Requests

\* A conversation's id is fresh; what is there at the start has one owner each, and two have
\* one private chat that both are in.
ASSUME RoomsAssumption ==
    \A first \in FirstRooms : \A c \in DOMAIN first :
        /\ c \in Requests
        /\ \A j \in Jobs :
              j[c].op \notin {"dm", "group", "session", "agent-session", "agent", "adopt"}
        /\ DOMAIN first[c] = {"type", "title", "meta", "rev", "pair", "who"}
        /\ first[c].type \in {"dm_user_user", "dm_user_agent", "group"} /\ first[c].rev \in Nat
        /\ DOMAIN first[c].who \subseteq People
        /\ \A u \in DOMAIN first[c].who : DOMAIN first[c].who[u] = {"role", "hidden", "pinned"}
        /\ \E u \in DOMAIN first[c].who :
              \A v \in DOMAIN first[c].who : first[c].who[v].role = "owner" <=> v = u
        /\ first[c].type # "group" =>
              /\ first[c].pair \subseteq DOMAIN first[c].who
              /\ \A d \in DOMAIN first :
                    first[d].type = first[c].type /\ first[d].pair = first[c].pair => d = c

\* Requests come from users and agents, and name such as the apps offer: that an invited
\* member exists is not checked.  Only users make agents.
ASSUME PeopleAssumption ==
    \A j \in Jobs, r \in Requests :
        /\ j[r].user \in People
        /\ j[r].op \in {"agent", "adopt"} => j[r].user \in Users
        /\ j[r].op \in {"dm", "session", "agent-session", "invite"} => j[r].whom \in People
        /\ j[r].op = "group" => j[r].whom \subseteq People

VARIABLES
    rooms,      \* conversations and conversation_participants
    plugin,     \* the sessions the plugin opened
    app,        \* per user: the list its app shows, conversation -> [who, title]
    twice,      \* per user: the second copy of a conversation that the list has twice
    store,      \* per user: what the app may find in its local store
    loads,      \* answers with a list or a conversation on their way to an app
    heard,      \* history: <<user, request>>: whose broadcast an app has handled or never gets
    twins,      \* history: pairs whose private chat was made twice at once
    away,       \* history: <<conversation, member>> of who left or was kicked
    missed      \* history: <<user, conversation>> an app may have wrong

roomVars == <<rooms, plugin, app, twice, store, loads, heard, twins, away, missed>>
peopleVars == <<friendVars, agentVars, roomVars>>
roomless == <<friendVars, agentVars>>

Members(c) == DOMAIN rooms[c].who
IsMember(c, u) == c \in DOMAIN rooms /\ u \in Members(c)

Seat(role) == [role |-> role, hidden |-> FALSE, pinned |-> FALSE]
NewRoom(type, owner, others, title) ==
    [type |-> type, title |-> title, meta |-> Nothing, rev |-> 0, pair |-> {owner} \cup others,
     who |-> [u \in {owner} \cup others |-> Seat(IF u = owner THEN "owner" ELSE "member")]]

\* What a list or a detail answer says of a conversation.
Entry(c) == [who |-> Members(c), title |-> rooms[c].title]
Listed(u) == {c \in DOMAIN rooms : /\ u \in Members(c) /\ ~rooms[c].who[u].hidden
                                   /\ rooms[c].type # "session"}

RoomsInit ==
    /\ FriendsInit(FirstFriends)
    /\ AgentsInit
    /\ rooms \in FirstRooms
    /\ plugin = {}
    /\ app = [u \in Viewers |-> [c \in Listed(u) |-> Entry(c)]]
    /\ twice = [u \in Viewers |-> <<>>]
    /\ store = app
    /\ loads = {}
    /\ heard = {}
    /\ twins = {}
    /\ away = {}
    /\ missed = {}

Refuse(r) == Goto(r, "done") /\ UNCHANGED <<job, snap, peopleVars>>

\* -------------------------------------------------- private chats: FindOrCreateDM
\* An agent opens the chat with its owner, who is the owner of the chat either way; a new
\* agent's chat is made along with it.
MakesAgent(r) == job[r].op \in {"agent", "adopt"}
ByAgent(r) == job[r].user \notin Users
DmPair(r) == IF MakesAgent(r) THEN {job[r].user, r} ELSE Pair(r)
Initiator(r) == IF ByAgent(r) THEN job[r].whom ELSE job[r].user
DmAllowed(r) ==
    IF ByAgent(r) THEN Owns(job[r].whom, job[r].user)
                  ELSE job[r].whom \notin Users \/ FriendsNow(Pair(r))
DmCheck(r) ==
    /\ Is(r, "dm", "new")
    /\ Goto(r, IF DmAllowed(r) THEN "find" ELSE "done")
    /\ UNCHANGED <<job, snap, peopleVars>>
AfterDm(r) == IF job[r].op = "adopt" THEN "mark" ELSE "done"

DmType(r) == IF DmPair(r) \subseteq Users THEN "dm_user_user" ELSE "dm_user_agent"
OpenedByInitiator(r) ==
    {c \in DOMAIN rooms : rooms[c].type = DmType(r) /\ DmPair(r) \subseteq Members(c)
                          /\ rooms[c].who[Initiator(r)].role = "owner"}
Dms(r) == {c \in DOMAIN rooms : rooms[c].type = DmType(r) /\ DmPair(r) \subseteq Members(c)}

FindDm(r) ==
    /\ pc[r] = "find"
    /\ Goto(r, IF Dms(r) = {} THEN "make" ELSE AfterDm(r))
    /\ UNCHANGED <<job, snap, peopleVars>>

MakeDm(r) ==
    /\ pc[r] = "make"
    /\ rooms' = With(rooms, r, NewRoom(DmType(r), Initiator(r), DmPair(r), ""))
    /\ twins' = twins \cup {DmPair(o) : o \in {o \in Requests \ {r} : pc[o] = "make" /\ DmPair(o) = DmPair(r)}}
    /\ Goto(r, AfterDm(r))
    /\ UNCHANGED <<job, snap, roomless, plugin, app, twice, store, loads, heard, away, missed>>

\* ------------------------------------------------------------------- broadcasts
\* A change of conversation c is committed; its handler goes on to tell the members.
\* rev counts the changes of a conversation.
Changes(r, c, room, event) ==
    /\ rooms' = With(rooms, c, [room EXCEPT !.rev = @ + 1])
    /\ Keep(r, [room |-> c, rev |-> room.rev + 1, event |-> event, to |-> {}])
    /\ Goto(r, "announce")
Joins(u) == [kind |-> "join", whom |-> u]
Leaves(u) == [kind |-> "leave", whom |-> u]
Retitles(title) == [kind |-> "title", whom |-> title]

\* SendToConv lists the members when it is called; the other apps never get the broadcast.
Audience(c) == IF c \in DOMAIN rooms THEN Members(c) \cap Viewers ELSE {}
Announce(r) ==
    LET audience == Audience(snap[r].room) IN
    /\ pc[r] = "announce"
    /\ snap' = [snap EXCEPT ![r].to = audience]
    /\ heard' = heard \cup ((Viewers \ audience) \X {r})
    /\ Goto(r, "send")
    /\ UNCHANGED <<job, roomless, rooms, plugin, app, twice, store, loads, twins, away, missed>>

\* ------------------------------------------------------------ groups, CreateTx
CreateGroup(r) ==
    /\ Is(r, "group", "new") /\ Cardinality(job[r].whom) >= 2
    /\ Changes(r, r, NewRoom("group", job[r].user, job[r].whom, "new"), Joins(job[r].user))
    /\ UNCHANGED <<job, roomless, plugin, app, twice, store, loads, heard, twins, away, missed>>

\* ------------------------------------------------- sessions: CreateAgentSessionTx
\* The row is inserted in a transaction that stays open while the plugin is asked; an
\* agent that is not its owner's, or has no connection, ends it.
SessionCheck(r) ==
    /\ Is(r, "session", "new")
    /\ Goto(r, IF Owns(job[r].user, job[r].whom) THEN "call" ELSE "done")
    /\ UNCHANGED <<job, snap, peopleVars>>

\* The plugin opens the session and its answer arrives, or arrives too late or never.
PluginOpens(r, answered) ==
    /\ pc[r] \in {"call", "late"}
    /\ plugin' = plugin \cup {r}
    /\ Goto(r, IF pc[r] = "call" /\ answered THEN "commit" ELSE "done")
    /\ UNCHANGED <<job, snap, roomless, rooms, app, twice, store, loads, heard, twins, away, missed>>

AfterTimeoutCommit == "commit"
AfterTimeout == "late"
CallTimesOut(r) ==
    /\ pc[r] = "call"
    /\ Goto(r, AfterTimeout)
    /\ UNCHANGED <<job, snap, peopleVars>>

CommitSession(r) ==
    /\ pc[r] = "commit"
    /\ Changes(r, r, NewRoom("session", job[r].user, {job[r].whom}, ""), Joins(job[r].user))
    /\ UNCHANGED <<job, roomless, plugin, app, twice, store, loads, heard, twins, away, missed>>

\* The plugin opened a session by itself and asks for its conversation.
AgentCheck(r) ==
    /\ Is(r, "agent-session", "new")
    /\ Goto(r, IF Owns(job[r].whom, job[r].user) THEN "attach" ELSE "done")
    /\ plugin' = plugin \cup {r}
    /\ UNCHANGED <<job, snap, roomless, rooms, app, twice, store, loads, heard, twins, away, missed>>
CreateAgentSession(r) ==
    /\ pc[r] = "attach"
    /\ rooms' = With(rooms, r, NewRoom("session", job[r].whom, {job[r].user}, ""))
    /\ Goto(r, "done")
    /\ UNCHANGED <<job, snap, roomless, plugin, app, twice, store, loads, heard, twins, away, missed>>

\* ----------------------------------------------------- InviteMember, AddParticipantsTx
\* Inviting, renaming, pinning and hiding read the caller's row, then write without it.
MayChange(r) ==
    /\ IsMember(job[r].about, job[r].user)
    /\ job[r].op = "rename" => rooms[job[r].about].who[job[r].user].role \in {"owner", "admin"}

CallerCheck(r) ==
    /\ job[r].op \in {"invite", "rename", "retitle", "meta", "pin", "unpin", "hide"}
    /\ pc[r] = "new"
    /\ Goto(r, IF MayChange(r) THEN "change" ELSE "done")
    /\ UNCHANGED <<job, snap, peopleVars>>

SeatsOverwritten(who, u) == With(who, u, Seat("member"))
SeatsWith(who, u) == IF u \in DOMAIN who THEN who ELSE With(who, u, Seat("member"))

\* The row of a conversation that was destroyed meanwhile violates the foreign key.
InviteWrite(r) ==
    LET c == job[r].about IN
    /\ Is(r, "invite", "change")
    /\ IF c \in DOMAIN rooms
         THEN /\ Changes(r, c, [rooms[c] EXCEPT !.who = SeatsWith(@, job[r].whom)], Joins(job[r].whom))
              /\ UNCHANGED <<roomless, plugin, app, twice, store, loads, heard, twins, away, missed>>
              /\ UNCHANGED job
         ELSE Refuse(r)

\* ------------------------------------------------------ KickMember, Leave (group_handler)
KickCaller(r) ==
    /\ Is(r, "kick", "new")
    /\ Goto(r, IF /\ IsMember(job[r].about, job[r].user)
                  /\ rooms[job[r].about].who[job[r].user].role \in {"owner", "admin"}
               THEN "target" ELSE "done")
    /\ UNCHANGED <<job, snap, peopleVars>>

MayKick(c, u) == IsMember(c, u) /\ rooms[c].who[u].role # "owner"
KickTarget(r) ==
    /\ Is(r, "kick", "target")
    /\ Goto(r, IF MayKick(job[r].about, job[r].whom) THEN "remove" ELSE "done")
    /\ UNCHANGED <<job, snap, peopleVars>>

LeaveRead(r) ==
    LET c == job[r].about IN
    /\ Is(r, "leave", "new")
    /\ Goto(r, IF ~IsMember(c, job[r].user) THEN "done"
               ELSE IF rooms[c].who[job[r].user].role = "owner" THEN "destroy" ELSE "remove")
    /\ UNCHANGED <<job, snap, peopleVars>>

Leaver(r) == IF job[r].op = "kick" THEN job[r].whom ELSE job[r].user
RemoveParticipant(r) ==
    LET c == job[r].about IN
    /\ pc[r] = "remove"
    /\ IF c \in DOMAIN rooms
         THEN Changes(r, c, [rooms[c] EXCEPT !.who = Without(@, Leaver(r))], Leaves(Leaver(r)))
         ELSE Goto(r, "answer") /\ UNCHANGED <<snap, rooms>>
    /\ away' = away \cup {<<c, Leaver(r)>>}
    /\ UNCHANGED <<job, roomless, plugin, app, twice, store, loads, heard, twins, missed>>

\* The owner leaves: the conversation goes with its members, and nobody is told.
DestroyConversation(r) ==
    /\ pc[r] = "destroy"
    /\ rooms' = Without(rooms, job[r].about)
    /\ Goto(r, "answer")
    /\ UNCHANGED <<job, snap, roomless, plugin, app, twice, store, loads, heard, twins, away, missed>>

\* --------------------------------------- Update, UpdateTitleAsAgent, session meta
\* An empty title leaves the stored one.
Coalesce(new, old) == IF new = "" THEN old ELSE new
Rename(r) ==
    LET c == job[r].about IN
    /\ job[r].op \in {"rename", "retitle", "meta"} /\ pc[r] = "change"
    /\ IF c \notin DOMAIN rooms THEN Refuse(r)
       ELSE /\ IF job[r].op = "meta"
                 THEN Changes(r, c, [rooms[c] EXCEPT !.meta = job[r].whom], Retitles(""))
                 ELSE Changes(r, c, [rooms[c] EXCEPT !.title = Coalesce(job[r].whom, @)],
                              Retitles(job[r].whom))
            /\ UNCHANGED <<job, roomless, plugin, app, twice, store, loads, heard, twins, away, missed>>

\* ------------------------------------------------------------------ Pin, Unpin, Hide
PersonalWrite(r) ==
    LET c == job[r].about IN
    /\ job[r].op \in {"pin", "unpin", "hide"} /\ pc[r] = "change"
    /\ rooms' = IF ~IsMember(c, job[r].user) THEN rooms
                ELSE IF job[r].op = "hide" THEN [rooms EXCEPT ![c].who[job[r].user].hidden = TRUE]
                ELSE [rooms EXCEPT ![c].who[job[r].user].pinned = (job[r].op = "pin")]
    /\ Goto(r, "answer")
    /\ UNCHANGED <<job, snap, roomless, plugin, app, twice, store, loads, heard, twins, away, missed>>

\* -------------------------------------------------------------------- the apps
\* Loading the list reads the local store, then asks the server, whose answer takes two
\* reads: the conversations, then their members.
Asked == {"recall", "list"}
Asks(u, r) == [user |-> u, by |-> r, at |-> "recall", had |-> FALSE, fresh |-> <<>>, over |-> {}]
Overlapped(u, c) ==
    {IF l.user = u /\ l.at \notin Asked THEN [l EXCEPT !.over = @ \cup {c}] ELSE l : l \in loads}

\* The store is written behind the list, and not at all when that fails: it may hold any of
\* what was shown.
Over(f, g) == [c \in DOMAIN f \cup DOMAIN g |-> IF c \in DOMAIN f THEN f[c] ELSE g[c]]
Persist(u) == store' = [store EXCEPT ![u] = Over(app'[u], @)]

OnJoin(list, c, u) == [list EXCEPT ![c].who = @ \cup {u}]
OnLeave(list, c, u) == [list EXCEPT ![c].who = @ \ {u}]
ClearedTitle(title, old) == title
KeptTitle(title, old) == IF title = "" THEN old ELSE title
OnUpdate(list, c, title) == [list EXCEPT ![c].title = KeptTitle(title, @)]
Handled(list, c, event) ==
    IF c \notin DOMAIN list THEN list
    ELSE CASE event.kind = "join" -> OnJoin(list, c, event.whom)
           [] event.kind = "leave" -> OnLeave(list, c, event.whom)
           [] event.kind = "title" -> OnUpdate(list, c, event.whom)

\* An app handles one broadcast: indexWhere finds the first copy of the conversation, and
\* only that one changes.  A conversation it does not know makes it load the list;
\* an answer already on its way will overwrite what it does now.  A broadcast that comes
\* after that of a later change undoes it, also when the app was not told the later one
\* but loaded it.
Later(u, c, rev) ==
    \E o \in Requests : /\ <<u, o>> \in heard /\ snap[o].room = c /\ snap[o].rev > rev
Deliver(r, u) ==
    LET c == snap[r].room
        unknown == snap[r].event.kind = "join" /\ c \notin DOMAIN app[u]
    IN  /\ pc[r] = "send" /\ u \in snap[r].to
        /\ snap' = [snap EXCEPT ![r].to = @ \ {u}]
        /\ app' = [app EXCEPT ![u] = Handled(@, c, snap[r].event)]
        /\ loads' = Overlapped(u, c) \cup (IF unknown THEN {Asks(u, r)} ELSE {})
        /\ Persist(u)
        /\ heard' = heard \cup {<<u, r>>}
        /\ missed' = IF Later(u, c, snap[r].rev) THEN missed \cup {<<u, c>>} ELSE missed
        /\ UNCHANGED <<job, pc, roomless, rooms, plugin, twice, twins, away>>

AllSent(r) ==
    /\ pc[r] = "send" /\ snap[r].to = {}
    /\ Goto(r, "answer")
    /\ UNCHANGED <<job, snap, peopleVars>>

\* The answer of a request: the creator of a group gets its detail and puts it into the
\* list; who left or hid a conversation takes it from the list.
Drops(r, list) ==
    IF job[r].op \in {"leave", "hide"} /\ job[r].user \in Viewers
    THEN [list EXCEPT ![job[r].user] = Without(@, job[r].about)] ELSE list
Answer(r) ==
    /\ pc[r] = "answer"
    /\ Goto(r, "done")
    /\ app' = Drops(r, app)
    /\ twice' = Drops(r, twice)
    /\ loads' = IF job[r].op = "group" /\ r \in DOMAIN rooms /\ job[r].user \in Viewers
                THEN loads \cup {[user |-> job[r].user, by |-> r, at |-> "insert", had |-> TRUE,
                                  fresh |-> [c \in {r} |-> Entry(r)], over |-> {}]}
                ELSE loads
    /\ UNCHANGED <<job, snap, roomless, rooms, plugin, store, heard, twins, away, missed>>

Refresh(r) ==
    /\ Is(r, "refresh", "new")
    /\ loads' = loads \cup {Asks(job[r].user, r)}
    /\ Goto(r, "done")
    /\ UNCHANGED <<job, snap, roomless, rooms, plugin, app, twice, store, heard, twins, away, missed>>

\* What the store has is shown if the list is empty.
Recall(l) ==
    LET u == l.user IN
    /\ l.at = "recall"
    /\ \E cached \in SUBSET DOMAIN store[u] :
          /\ loads' = (loads \ {l}) \cup {[l EXCEPT !.at = "list", !.had = cached # {}]}
          /\ IF DOMAIN app[u] = {}
               THEN /\ app' = [app EXCEPT ![u] = [c \in cached |-> store[u][c]]]
                    /\ missed' = missed \cup {<<u, c>> : c \in cached}
               ELSE UNCHANGED <<app, missed>>
    /\ UNCHANGED <<job, pc, snap, roomless, rooms, plugin, twice, store, heard, twins, away>>

ListRooms(l) ==
    /\ l.at = "list"
    /\ loads' = (loads \ {l}) \cup
          {[l EXCEPT !.at = "members",
                     !.fresh = [c \in Listed(l.user) |-> [who |-> {}, title |-> rooms[c].title]]]}
    /\ UNCHANGED <<job, pc, snap, roomless, rooms, plugin, app, twice, store, heard, twins, away, missed>>

LoadMembers(l) ==
    /\ l.at = "members"
    /\ loads' = (loads \ {l}) \cup
          {[l EXCEPT !.at = "show",
                     !.fresh = [c \in DOMAIN l.fresh |->
                                   [l.fresh[c] EXCEPT !.who = IF c \in DOMAIN rooms THEN Members(c) ELSE {}]]]}
    /\ UNCHANGED <<job, pc, snap, roomless, rooms, plugin, app, twice, store, heard, twins, away, missed>>

\* An empty list does not replace one that the store had. Any other does, with each of its
\* conversations once.  What the app heard since the first read is overwritten.
Fetched(l) == IF l.fresh = <<>> /\ l.had THEN app[l.user] ELSE l.fresh
Show(l) ==
    /\ l.at = "show"
    /\ loads' = loads \ {l}
    /\ app' = [app EXCEPT ![l.user] = Fetched(l)]
    /\ twice' = IF l.fresh = <<>> /\ l.had THEN twice ELSE [twice EXCEPT ![l.user] = <<>>]
    /\ Persist(l.user)
    /\ missed' = missed \cup {<<l.user, c>> : c \in l.over}
    /\ UNCHANGED <<job, pc, snap, roomless, rooms, plugin, heard, twins, away>>

\* createGroup puts the conversation in front of the list, which is then sorted, whether or
\* not the list has it already: either copy may come first.
Insert(l) ==
    LET u == l.user
        listed == DOMAIN l.fresh \cap DOMAIN app[u]
        old == [c \in listed |-> app[u][c]]
    IN  /\ l.at = "insert"
        /\ loads' = loads \ {l}
        /\ \/ /\ app' = [app EXCEPT ![u] = Over(l.fresh, @)]
              /\ twice' = [twice EXCEPT ![u] = Over(old, @)]
           \/ /\ DOMAIN l.fresh \subseteq DOMAIN app[u] /\ app' = app
              /\ twice' = [twice EXCEPT ![u] = Over(l.fresh, @)]
        /\ Persist(u)
        /\ missed' = missed \cup {<<u, c>> : c \in l.over}
        /\ UNCHANGED <<job, pc, snap, roomless, rooms, plugin, heard, twins, away>>

\* A statement or a broadcast fails, or an answer is lost: the apps may miss a change.
RoomFails(r) ==
    /\ pc[r] \in {"find", "make", "call", "commit", "attach", "change", "target", "remove",
                  "destroy", "announce", "answer"}
    /\ Goto(r, CASE pc[r] = "announce" -> "answer"
                 [] pc[r] \in {"find", "make"} -> AfterDm(r)
                 [] OTHER -> "done")
    /\ missed' = IF pc[r] = "announce" THEN missed \cup (Viewers \X {snap[r].room}) ELSE missed
    /\ UNCHANGED <<job, snap, roomless, rooms, plugin, app, twice, store, loads, heard, twins, away>>
LoadFails(l) ==
    /\ loads' = loads \ {l}
    /\ missed' = missed \cup {<<l.user, c>> : c \in DOMAIN rooms}
    /\ UNCHANGED <<job, pc, snap, roomless, rooms, plugin, app, twice, store, heard, twins, away>>

RoomStep(r) ==
    \/ DmCheck(r) \/ FindDm(r) \/ MakeDm(r)
    \/ CreateGroup(r)
    \/ SessionCheck(r) \/ CallTimesOut(r) \/ CommitSession(r) \/ AgentCheck(r) \/ CreateAgentSession(r)
    \/ \E answered \in BOOLEAN : PluginOpens(r, answered)
    \/ CallerCheck(r) \/ InviteWrite(r) \/ Rename(r) \/ PersonalWrite(r)
    \/ KickCaller(r) \/ KickTarget(r) \/ LeaveRead(r)
    \/ RemoveParticipant(r) \/ DestroyConversation(r)
    \/ Announce(r) \/ AllSent(r) \/ Answer(r) \/ RoomFails(r)
    \/ Refresh(r)
    \/ \E u \in Viewers : Deliver(r, u)

PeopleNext ==
    \/ \E r \in Requests : \/ FriendStep(r) /\ UNCHANGED <<agentVars, roomVars>>
                           \/ AgentStep(r) /\ UNCHANGED <<friendVars, roomVars>>
                           \/ RoomStep(r)
    \/ TicketsAge /\ UNCHANGED <<friendVars, roomVars>>
    \/ \E l \in loads : Recall(l) \/ ListRooms(l) \/ LoadMembers(l) \/ Show(l) \/ Insert(l) \/ LoadFails(l)

\* ------------------------------------------------------------------ properties
PeopleTypeOK ==
    /\ \A c \in DOMAIN rooms :
          /\ c \in Requests
          /\ Members(c) \subseteq People
          /\ rooms[c].type \in {"dm_user_user", "dm_user_agent", "group", "session"}
    /\ plugin \subseteq Requests
    /\ \A u \in Viewers : DOMAIN app[u] \subseteq Requests

\* A conversation has one owner as long as it exists, whoever is invited, kicked or leaves
\* at the same time: it can always be ended, and by one user only.
OneOwner ==
    \A c \in DOMAIN rooms :
        Cardinality({u \in Members(c) : rooms[c].who[u].role = "owner"}) = 1

\* Two users, or a user and an agent, have one private chat, unless both opened it at the
\* same time or one of them was away from it (FindOrCreateDM).
OneDm ==
    \A c, d \in DOMAIN rooms :
        /\ rooms[c].type \in {"dm_user_user", "dm_user_agent"} /\ rooms[d].type = rooms[c].type
        /\ rooms[c].pair = rooms[d].pair /\ rooms[c].pair \notin twins
        /\ \A u \in rooms[c].pair : <<c, u>> \notin away /\ <<d, u>> \notin away
        => c = d

\* A session that a user sees exists at the plugin: nothing is committed before the plugin
\* has answered, and a timeout is not an answer.
SessionIsWhole ==
    \A c \in DOMAIN rooms : rooms[c].type = "session" => c \in plugin

\* When nothing is under way, every app shows the members and the title of each group as
\* the database has them, unless a broadcast failed, came after a later one or was
\* overwritten by an older list, the list came from the app's store, the user was away from
\* the group, or the list has the group twice, which ends with the next load.
Quiet == loads = {} /\ \A r \in Requests : pc[r] \in {"new", "done"}
Followed(u, c) ==
    c \in Listed(u) /\ rooms[c].type = "group" /\ <<u, c>> \notin missed /\ <<c, u>> \notin away
AppFollows ==
    Quiet => \A u \in Viewers : \A c \in Listed(u) :
        Followed(u, c) /\ c \notin DOMAIN twice[u] => c \in DOMAIN app[u] /\ app[u][c] = Entry(c)
=============================================================================
