------------------------------ MODULE MCBackend ------------------------------
(* Scenarios of up to five requests over the whole backend.  Request r0 stands *)
(* for the past: it made the group and the mini program there are, or it makes *)
(* the pairing ticket.                                                         *)
EXTENDS Backend, TLC

CONSTANTS ann, bob, cat, bot, pet, r0, r1, r2, r3, r4, coll

Job(op, user, about, whom) == [op |-> op, user |-> user, about |-> about, whom |-> whom]
Do(op, user) == Job(op, user, Nothing, Nothing)
None == Do("past", ann)
Scene(past, a, b, c, d) == r0 :> past @@ r1 :> a @@ r2 :> b @@ r3 :> c @@ r4 :> d
Scenes(past, as, bs, cs, ds) ==
    {Scene(past, a, b, c, d) : a \in as, b \in bs, c \in cs, d \in ds}

\* ---------------------------------------------------------------- mini programs
Pkg(v, modes, sizes, icon) ==
    [version |-> v, modes |-> modes, sizes |-> sizes, wellFormed |-> TRUE,
     hasEntry |-> TRUE, icon |-> icon]
Private == Pkg(1, coll :> "private", <<1>>, "image")
Shared == Pkg(2, coll :> "shared_write", <<1, 1>>, "none")
ReadOnly == Pkg(2, coll :> "shared_read", <<1, 1>>, "none")
Wraps == Pkg(2, <<>>, <<4, 4>>, "none")
Bare == Pkg(3, <<>>, <<1>>, "none")
MCPackages == {Private, Shared, ReadOnly, Wraps, Bare}
Published(p) == [id |-> r0, owner |-> ann, pkg |-> p, file |-> r0, status |-> "published", sig |-> Nothing]
MCStarts == {Nothing, Published(Private), Published(Shared)}
Row(id, owner) ==
    [id |-> id, owner |-> owner, coll |-> coll, key |-> 1, size |-> 1, version |-> 1, value |-> id]
Stored == {Row(r0, ann), Row(coll, bob)}
MCFirstRows == {{}, Stored}
Before(start) == Job("past", ann, Nothing, start)

put(u) == Do("put", u)
upload(u) == Do("upload", u)
Storing ==
    UNION {LET past == Before(Published(p)) IN
           Scenes(past, {put(ann)}, {put(bob)}, {put(ann)}, {None})
           \cup Scenes(past, {put(ann)}, {Do("get", bob)}, {Do("remove", bob)}, {put(bob)})
           \cup Scenes(past, {put(ann)}, {put(ann)}, {Do("list", bob)}, {Do("disabled", cat)}) : p \in {Private, Shared}}
    \cup Scenes(Job("past", ann, Stored, Published(Private)), {upload(ann)}, {upload(ann)}, {put(ann)}, {None})
    \cup Scenes(Before(Published(Private)), {put(ann)}, {put(ann)}, {Do("list", ann)}, {Do("remove", ann)})
Releasing ==
    Scenes(Before(Nothing), {upload(ann)}, {Do("published", cat)}, {Do("published", cat)},
           {Do("disabled", cat), Do("delete", ann), upload(ann), Do("signing-key", bob),
            Do("install", bob), Do("restart", cat)})
    \cup Scenes(Before(Nothing), {upload(ann)}, {upload(bob)}, {upload(ann)}, {Do("delete", ann)})

\* --------------------------------------------------------------------- people
befriend(u, w) == Job("befriend", u, r0, w)
accepted(r) == Job("accepted", cat, r, ann)
Befriending ==
    Scenes(None, {befriend(ann, cat)}, {befriend(ann, cat), befriend(cat, ann)},
           {accepted(r1), accepted(r2), Job("rejected", cat, r1, ann)},
           {Job("canceled", ann, r1, cat), Job("unfriend", ann, r0, cat), befriend(cat, ann)})
dm(u, w) == Job("dm", u, r0, w)
leave(u, c) == Job("leave", u, c, u)
Chatting ==
    Scenes(None, {dm(ann, bob)}, {dm(bob, ann)}, {leave(ann, r1), leave(ann, r2)},
           {Job("unfriend", bob, r0, ann)})
    \cup Scenes(None, {dm(ann, bot)}, {dm(bot, ann)}, {dm(ann, bot)}, {leave(ann, r1)})
    \cup Scenes(None, {Job("session", ann, r0, bot)}, {Job("agent-session", bot, r0, ann)},
                {Job("retitle", bot, r1, "x")}, {Job("meta", bot, r2, "m"), Job("unmake", ann, bot, ann)})
    \cup Scenes(None, {Job("session", bob, r0, bot)}, {Job("agent-session", bot, r0, bob)},
                {Job("pin", ann, r0, r0)}, {Job("unpin", ann, r0, r0)})
invite(w) == Job("invite", bob, r0, w)
kick == Job("kick", ann, r0, cat)
rename(title) == Job("rename", ann, r0, title)
refresh == Job("refresh", bob, r0, r0)
Grouping ==
    Scenes(None, {invite(ann)}, {kick}, {leave(ann, r0)}, {None})
    \cup Scenes(None, {invite(cat)}, {kick}, {rename(""), leave(ann, r0)}, {refresh})
    \cup Scenes(None, {invite(cat)}, {leave(bob, r0)}, {rename("new")}, {Job("hide", cat, r0, r0)})
    \cup Scenes(None, {rename("")}, {kick}, {rename("new")}, {None})
    \cup Scenes(None, {leave(bob, r0)}, {refresh}, {Job("group", bob, r0, {ann, cat})}, {None})
    \cup Scenes(None, {Job("group", bob, r0, {ann, cat})}, {Job("rename", bob, r1, "x")},
                {Job("kick", bob, r1, ann), Do("restart", cat)}, {None})

\* --------------------------------------------------------------------- agents
ticket == Job("ticket", ann, r0, "code")
scan(u) == Job("scan", u, r0, u)
poll == Job("poll", ann, r0, ann)
authorize(u, a) == Job("authorize", u, r0, a)
Pairing ==
    Scenes(ticket, {scan(ann)},
           {authorize(ann, bot), Job("bind", ann, r0, bot), Job("adopt", ann, r0, ann)},
           {poll}, {poll, scan(cat), authorize(cat, pet), Job("adopt", ann, r0, ann), Do("restart", cat)})
    \cup Scenes(ticket, {scan(ann)}, {authorize(ann, bot)}, {authorize(ann, bot)},
                {Job("rotate", ann, bot, ann), Job("unmake", ann, bot, ann), Job("strike", ann, bot, r2)})
    \cup Scenes(None, {Job("agent", ann, r0, "code")}, {Job("edit", ann, r1, "")},
                {Job("unmake", ann, r1, ann)}, {dm(ann, r1)})

\* ------------------------------------------------------------------- accounts
login(p) == Job("login", ann, r0, p)
change == Job("change", ann, ann, r1)
use(t) == Job("use", ann, t, t)
exchange(t) == Job("exchange", ann, t, t)
Signing ==
    Scenes(None, {login(ann)}, {change}, {None}, {use(ann), use(r1)})
    \cup Scenes(None, {login(ann), login(r0)}, {change}, {login(r1)}, {None})
    \cup Scenes(None, {change}, {Job("change", ann, ann, r2)}, {use(ann), use(r1), use(r2)}, {None})
    \cup Scenes(None, {exchange(ann)}, {exchange(ann), change}, {exchange(r1)}, {None})
    \cup Scenes(None, {exchange(ann)}, {login(ann)}, {change}, {use(r1)})
    \cup Scenes(None, {login(ann)}, {Job("logout", ann, r1, ann), Job("logout", ann, r1, r1)},
                {use(r1)}, {exchange(r1)})
    \cup Scenes(None, {Job("promote", ann, r0, r0)}, {exchange(ann)}, {change}, {use(r2)})
    \cup Scenes(None, {Job("register", bob, r0, r1)}, {Job("register", bob, r0, r2)},
                {Job("promote", bob, r0, r0)}, {Job("login", bob, r0, r1)})

MCJobs == Storing \cup Releasing \cup Befriending \cup Chatting \cup Grouping \cup Pairing \cup Signing

MCFirstAgents ==
    bot :> [owner |-> ann, key |-> bot, type |-> ""] @@ pet :> [owner |-> cat, key |-> pet, type |-> "code"]
MCFirstAccounts == ann :> [pass |-> ann, weak |-> TRUE, role |-> "user"]
MCFirstRooms == {r0 :> [NewRoom("group", ann, {bob, cat}, "old") EXCEPT !.rev = 1]}
MCFirstFriends == {[id |-> r0, from |-> bob, to |-> ann, status |-> "accepted"]}

\* The program and the data that the past has left are those its scenario names.
MCInit ==
    /\ Init
    /\ program = (IF job[r0].op = "past" THEN job[r0].whom ELSE Nothing)
    /\ rows = (IF job[r0].about = Stored THEN Stored ELSE {})
MCSpec == MCInit /\ [][Next]_backendVars
=============================================================================
