-------------------------------- MODULE Agents --------------------------------
(***************************************************************************)
(* Agents, their main key and sub keys, and the pairing tickets by which a *)
(* plugin gets one of these keys: the terminal creates a ticket and polls  *)
(* it, a user scans and completes it with an agent of their own            *)
(* (handler/pairing_handler.go, agent_handler.go, agent_sub_key_handler.go,*)
(* their repositories and pair/cleanup.go).                                *)
(*                                                                         *)
(* One action is one statement.  A ticket, an agent and a key are named    *)
(* after the request that made them.                                       *)
(***************************************************************************)
EXTENDS Handlers, Functions

CONSTANTS
    FirstAgents,    \* the agents there are at the start
    MaxSubKeys      \* maxSubKeysPerAgent

\* Keys are random (auth.GenerateSecretKey) and ids are UUIDs: none is met twice.
ASSUME AgentsAssumption ==
    /\ MaxSubKeys \in Nat
    /\ DOMAIN FirstAgents \cap Requests = {}
    /\ \A a \in DOMAIN FirstAgents : /\ DOMAIN FirstAgents[a] = {"owner", "key", "type"}
                                     /\ FirstAgents[a].key \notin Requests
    /\ \A a, b \in DOMAIN FirstAgents : FirstAgents[a].key = FirstAgents[b].key => a = b

VARIABLES
    agents,     \* id -> [owner, key, type]
    subs,       \* agent_sub_keys
    tickets,    \* pairing_tickets; age is 0, 1 from PairingTicketTTL on, 2 from an hour on
    given,      \* the credentials that a poll was answered with
    dead,       \* history: keys that were replaced, revoked, swept or deleted
    muddled,    \* history: tickets that two scans or completions had read at once
    crowded     \* history: agents whose sub keys were counted during an authorization

agentVars == <<agents, subs, tickets, given, dead, muddled, crowded>>

Completing == {"bind", "authorize", "adopt"}
Without(f, x) == Restrict(f, DOMAIN f \ {x})
With(f, x, y) == [z \in DOMAIN f \cup {x} |-> IF z = x THEN y ELSE f[z]]
Owns(u, a) == a \in DOMAIN agents /\ agents[a].owner = u

AgentsInit ==
    /\ agents = FirstAgents
    /\ subs = {}
    /\ tickets = <<>>
    /\ given = {}
    /\ dead = {}
    /\ muddled = {}
    /\ crowded = {}

\* --------------------------------------------------------- CreateTicket, expiry
NewTicket(type) ==
    [status |-> "pending", user |-> Nothing, agent |-> Nothing, secret |-> Nothing,
     action |-> Nothing, type |-> type, age |-> 0]
CreateTicket(r) ==
    /\ Is(r, "ticket", "new")
    /\ tickets' = With(tickets, r, NewTicket(job[r].whom))
    /\ Goto(r, "done")
    /\ UNCHANGED <<job, snap, agents, subs, given, dead, muddled, crowded>>

IsExpired(t) == tickets[t].status # "completed" /\ tickets[t].age > 0
Usable(t) == t \in DOMAIN tickets /\ ~IsExpired(t)

\* The handlers between a read of the ticket and the write that relies on it.
Holding(t) ==
    {o \in Requests : \/ Is(o, "scan", "claim") /\ job[o].about = t
                      \/ /\ job[o].op \in Completing /\ pc[o] \notin {"new", "done"}
                         /\ job[o].about = t}

\* The clock.  No handler is under way for the best part of an hour.
Ages(t) ==
    /\ tickets[t].age < 2
    /\ tickets[t].age = 1 => Holding(t) = {}
    /\ tickets' = [tickets EXCEPT ![t].age = @ + 1]
    /\ UNCHANGED <<handlerVars, agents, subs, given, dead, muddled, crowded>>

DeleteExpired ==
    /\ \E t \in DOMAIN tickets : tickets[t].age = 2
    /\ tickets' = Restrict(tickets, {t \in DOMAIN tickets : tickets[t].age < 2})
    /\ UNCHANGED <<handlerVars, agents, subs, given, dead, muddled, crowded>>

\* ------------------------------------------------------------------- ScanTicket
Meets(r) == muddled' = IF Holding(job[r].about) = {} THEN muddled
                                                     ELSE muddled \cup {job[r].about}

\* Whoever scanned it may scan it again, and only gets the list of agents.
ScanRead(r) ==
    LET t == job[r].about IN
    /\ Is(r, "scan", "new")
    /\ IF Usable(t) /\ tickets[t].status = "pending"
         THEN Goto(r, "claim") /\ Meets(r)
         ELSE Goto(r, "done") /\ UNCHANGED muddled
    /\ UNCHANGED <<job, snap, agents, subs, tickets, given, dead, crowded>>

\* UPDATE .. WHERE id: whatever became of the ticket meanwhile.
MarkScanned(r) ==
    LET t == job[r].about IN
    /\ pc[r] = "claim"
    /\ tickets' = IF t \in DOMAIN tickets
                  THEN [tickets EXCEPT ![t].status = "scanned", ![t].user = job[r].user]
                  ELSE tickets
    /\ Goto(r, "done")
    /\ UNCHANGED <<job, snap, agents, subs, given, dead, muddled, crowded>>

\* --------------------------------------------------------------- CompleteTicket
CompletesAnyones(r, t) == Usable(t) /\ tickets[t].status = "scanned"
Completes(r, t) ==
    Usable(t) /\ tickets[t].status = "scanned" /\ tickets[t].user = job[r].user

\* The ticket's type is kept for the agent; a bind or an authorization goes on to the
\* agent it names.
CompleteRead(r) ==
    LET t == job[r].about IN
    /\ job[r].op \in Completing /\ pc[r] = "new"
    /\ IF Completes(r, t)
         THEN /\ Goto(r, IF job[r].op = "adopt" THEN "create" ELSE "owner")
              /\ Keep(r, [type |-> tickets[t].type, agent |-> Nothing, key |-> Nothing])
              /\ Meets(r)
         ELSE Goto(r, "done") /\ UNCHANGED <<snap, muddled>>
    /\ UNCHANGED <<job, agents, subs, tickets, given, dead, crowded>>

\* Update, Delete, RotateSecret and Revoke begin with the same check of the owner.
Target(r) == IF job[r].op \in Completing THEN job[r].whom ELSE job[r].about

\* The type that differs from the one just read; a ticket without a type changes none.
TypeToWrite(r, old) ==
    LET wanted == CASE job[r].op = "edit" -> job[r].whom
                    [] job[r].op = "bind" /\ snap[r].type # "" -> snap[r].type
                    [] OTHER -> Nothing
    IN  IF wanted = old THEN Nothing ELSE wanted

OwnerRead(r) ==
    LET a == Target(r) IN
    /\ \/ job[r].op \in {"edit", "unmake", "rotate", "strike"} /\ pc[r] = "new"
       \/ pc[r] = "owner"
    /\ IF Owns(job[r].user, a)
         THEN /\ Keep(r, [type |-> TypeToWrite(r, agents[a].type), agent |-> a, key |-> Nothing])
              /\ Goto(r, CASE job[r].op \in {"bind", "rotate"} -> "reset"
                           [] job[r].op = "authorize" -> "count"
                           [] OTHER -> job[r].op)
         ELSE Goto(r, "done") /\ UNCHANGED snap
    /\ UNCHANGED <<job, agentVars>>

\* Authorization: a sub key, unless the agent has enough that are not revoked.
Active(a) == {s \in subs : s.agent = a /\ ~s.revoked}
HasRoomForOneMore(a) == Cardinality(Active(a)) <= MaxSubKeys
BelowLimit(a) == Cardinality(Active(a)) < MaxSubKeys

CountActive(r) ==
    LET a == snap[r].agent
        counted == {o \in Requests \ {r} : Is(o, "authorize", "issue") /\ snap[o].agent = a}
    IN  /\ pc[r] = "count"
        /\ Goto(r, IF BelowLimit(a) THEN "issue" ELSE "done")
        /\ crowded' = IF counted = {} THEN crowded ELSE crowded \cup {a}
        /\ UNCHANGED <<job, snap, agents, subs, tickets, given, dead, muddled>>

\* The foreign key refuses the key of an agent that is gone.
CreateSubKey(r) ==
    /\ pc[r] = "issue"
    /\ IF snap[r].agent \in DOMAIN agents
         THEN /\ subs' = subs \cup {[id |-> r, agent |-> snap[r].agent, revoked |-> FALSE]}
              /\ snap' = [snap EXCEPT ![r].key = r]
              /\ Goto(r, "mark")
         ELSE Goto(r, "done") /\ UNCHANGED <<subs, snap>>
    /\ UNCHANGED <<job, agents, tickets, given, dead, muddled, crowded>>

\* Bind, and RotateSecret: a new main key.
ResetSecretKey(r) ==
    LET a == snap[r].agent IN
    /\ pc[r] = "reset"
    /\ IF a \in DOMAIN agents
         THEN /\ agents' = [agents EXCEPT ![a].key = r]
              /\ dead' = dead \cup {agents[a].key}
              /\ snap' = [snap EXCEPT ![r].key = r]
              /\ Goto(r, IF job[r].op = "rotate" THEN "sweep"
                         ELSE IF snap[r].type = Nothing THEN "mark" ELSE "type")
         ELSE Goto(r, "done") /\ UNCHANGED <<agents, dead, snap>>
    /\ UNCHANGED <<job, subs, tickets, given, muddled, crowded>>

UpdateType(r) ==
    LET a == snap[r].agent IN
    /\ pc[r] = "type"
    /\ agents' = IF a \in DOMAIN agents THEN [agents EXCEPT ![a].type = snap[r].type]
                                        ELSE agents
    /\ Goto(r, IF job[r].op = "bind" THEN "mark" ELSE "done")
    /\ UNCHANGED <<job, snap, subs, tickets, given, dead, muddled, crowded>>

\* AgentHandler.Create, and a completion with a new name.  The chat with the owner is
\* made next (FindOrCreateDM), whether or not that succeeds.
CreateAgent(r) ==
    LET type == IF job[r].op = "adopt" THEN snap[r].type ELSE job[r].whom IN
    /\ Is(r, "agent", "new") \/ pc[r] = "create"
    /\ agents' = With(agents, r, [owner |-> job[r].user, key |-> r, type |-> type])
    /\ Keep(r, [type |-> type, agent |-> r, key |-> r])
    /\ Goto(r, "find")
    /\ UNCHANGED <<job, subs, tickets, given, dead, muddled, crowded>>

\* UPDATE .. WHERE id again; the answer is the same if the ticket is gone.
MarkCompleted(r) ==
    LET t == job[r].about IN
    /\ pc[r] = "mark"
    /\ tickets' = IF t \in DOMAIN tickets
                  THEN [tickets EXCEPT ![t].status = "completed", ![t].agent = snap[r].agent,
                                       ![t].secret = snap[r].key, ![t].action = job[r].op]
                  ELSE tickets
    /\ Goto(r, "done")
    /\ UNCHANGED <<job, snap, agents, subs, given, dead, muddled, crowded>>

\* -------------------------------------------------- GetTicket, ConsumeSecretKey
\* An authorization names its agent in the answer; one that is gone leaves the credential.
PollRead(r) ==
    LET t == job[r].about IN
    /\ Is(r, "poll", "new")
    /\ IF t \in DOMAIN tickets /\ tickets[t].status = "completed" /\ tickets[t].secret # Nothing
         THEN /\ Goto(r, IF tickets[t].action = "authorize" THEN "name" ELSE "take")
              /\ Keep(r, tickets[t])
         ELSE Goto(r, "done") /\ UNCHANGED snap
    /\ UNCHANGED <<job, agentVars>>
NameRead(r) ==
    /\ pc[r] = "name"
    /\ Goto(r, IF snap[r].agent \in DOMAIN agents THEN "take" ELSE "done")
    /\ UNCHANGED <<job, snap, agentVars>>

\* SELECT .. FOR UPDATE and the UPDATE are one step: the credential is read anew.
SecretSeen(r) == snap[r].secret
SecretNow(r) ==
    LET t == job[r].about IN IF t \in DOMAIN tickets THEN tickets[t].secret ELSE Nothing
ConsumeSecretKey(r) ==
    LET t == job[r].about IN
    /\ pc[r] = "take"
    /\ IF SecretNow(r) # Nothing /\ t \in DOMAIN tickets
         THEN /\ given' = given \cup {[ticket |-> t, key |-> SecretNow(r), by |-> r,
                                       agent |-> tickets[t].agent, user |-> tickets[t].user]}
              /\ tickets' = [tickets EXCEPT ![t].secret = Nothing]
         ELSE UNCHANGED <<given, tickets>>
    /\ Goto(r, "done")
    /\ UNCHANGED <<job, snap, agents, subs, dead, muddled, crowded>>

\* ------------------------------------------ Update, Delete, RotateSecret, Revoke
\* The name, the picture and the text are not modelled.
Update(r) ==
    /\ pc[r] = "edit"
    /\ Goto(r, IF snap[r].agent \in DOMAIN agents /\ snap[r].type # Nothing THEN "type" ELSE "done")
    /\ UNCHANGED <<job, snap, agentVars>>

\* ON DELETE CASCADE takes the sub keys along; tickets and conversations stay.
Delete(r) ==
    LET a == snap[r].agent IN
    /\ pc[r] = "unmake"
    /\ agents' = Without(agents, a)
    /\ subs' = {s \in subs : s.agent # a}
    /\ dead' = dead \cup {agents[b].key : b \in {a} \cap DOMAIN agents}
                    \cup {s.id : s \in subs \ subs'}
    /\ Goto(r, "done")
    /\ UNCHANGED <<job, snap, tickets, given, muddled, crowded>>

RevokeAllForAgent(r) ==
    LET theirs == Active(snap[r].agent) IN
    /\ pc[r] = "sweep"
    /\ subs' = (subs \ theirs) \cup {[s EXCEPT !.revoked = TRUE] : s \in theirs}
    /\ dead' = dead \cup {s.id : s \in theirs}
    /\ Goto(r, "done")
    /\ UNCHANGED <<job, snap, agents, tickets, given, muddled, crowded>>

\* The key must be one of the agent's own.
ListByAgent(r) ==
    /\ pc[r] = "strike"
    /\ Goto(r, IF \E s \in subs : s.agent = snap[r].agent /\ s.id = job[r].whom
               THEN "revoke" ELSE "done")
    /\ UNCHANGED <<job, snap, agentVars>>
Revoke(r) ==
    LET it == {s \in subs : s.id = job[r].whom} IN
    /\ pc[r] = "revoke"
    /\ subs' = (subs \ it) \cup {[s EXCEPT !.revoked = TRUE] : s \in it}
    /\ dead' = dead \cup {s.id : s \in it}
    /\ Goto(r, "done")
    /\ UNCHANGED <<job, snap, agents, tickets, given, muddled, crowded>>

\* A statement fails, or the client goes: what was written before stays.  A rotation
\* whose sweep failed is answered with its key.
AgentFails(r) ==
    /\ pc[r] \in {"claim", "owner", "count", "issue", "reset", "type", "create", "mark", "name",
                  "take", "edit", "unmake", "sweep", "strike", "revoke"}
    /\ Goto(r, "done")
    /\ UNCHANGED <<job, snap, agentVars>>

AgentStep(r) ==
    \/ CreateTicket(r) \/ ScanRead(r) \/ MarkScanned(r)
    \/ CompleteRead(r) \/ OwnerRead(r) \/ CountActive(r) \/ CreateSubKey(r)
    \/ ResetSecretKey(r) \/ UpdateType(r) \/ CreateAgent(r) \/ MarkCompleted(r)
    \/ PollRead(r) \/ NameRead(r) \/ ConsumeSecretKey(r)
    \/ Update(r) \/ Delete(r) \/ RevokeAllForAgent(r) \/ ListByAgent(r) \/ Revoke(r)
    \/ AgentFails(r)
TicketsAge == DeleteExpired \/ \E t \in DOMAIN tickets : Ages(t)

\* ------------------------------------------------------------------- AgentToken
\* GetByKey also finds keys that are revoked.  A key opens if it is not and its agent
\* exists, or if it is the agent's main key.
SubKeyKnown(s) == s.agent \in DOMAIN agents
SubKeyOpens(s) == ~s.revoked /\ s.agent \in DOMAIN agents
MainKeys == {agents[a].key : a \in DOMAIN agents}
Accepted == MainKeys \cup {s.id : s \in {t \in subs : SubKeyOpens(t)}}

\* ------------------------------------------------------------------ properties
\* A ticket's credential is handed out once, however many polls race for it, unless two
\* scans or completions of the ticket ran at once (ConsumeSecretKey's row lock).
CredentialOnce ==
    \A g, h \in given : g.ticket = h.ticket /\ g.ticket \notin muddled => g = h

\* The credential handed out is one its user made, for an agent of that user: nobody
\* completes the ticket that another user scanned, with the same exception.
OwnerEver(a) == IF a \in DOMAIN FirstAgents THEN FirstAgents[a].owner ELSE job[a].user
HandedToItsUser ==
    \A g \in given : g.ticket \notin muddled =>
        job[g.key].user = g.user /\ OwnerEver(g.agent) = g.user

\* An agent has at most the allowed number of sub keys that are not revoked, unless one
\* was counted while another was about to be inserted (CompleteTicket).
KeyLimit ==
    \A a \in DOMAIN agents : a \notin crowded => Cardinality(Active(a)) <= MaxSubKeys

\* A key that was replaced, revoked, swept or deleted never opens anything again, whatever
\* is authorized or rotated at the same time (AgentToken).
DeadKeysStayDead == dead \cap Accepted = {}
=============================================================================
