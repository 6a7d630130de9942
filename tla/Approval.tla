------------------------------- MODULE Approval -------------------------------
(***************************************************************************)
(* Approval cards, end to end: the handlers and the service that create    *)
(* and decide them, the sweep that expires them, the two rows they live in *)
(* (approvals.state and the card inside messages.content), the event that  *)
(* goes back to the agent, and the agent SDK's Approvals.ask() that waits  *)
(* for it.                                                                 *)
(*                                                                         *)
(* Every statement sent to the database is a step of its own, because the  *)
(* code uses no transaction across them.  A step that fails (a database    *)
(* error, a request context cancelled by a client that went away) ends its *)
(* handler where it stands.  A crash of the server does so for all of them.*)
(***************************************************************************)
EXTENDS Naturals, FiniteSets

CONSTANTS
    Asks,        \* the approvals one agent raises in one conversation
    Deciders,    \* concurrent POST /approvals/:id/decide requests
    CardType,    \* Asks -> the card type the agent asks for
    Patterned,   \* asks of type command that carry an allow_pattern
    Covers,      \* <<b, a>>: the pattern of b is LIKE the command of a
    MaxFaults    \* bound on failures, crashes and disconnections

CardTypes == {"command", "tool", "slash_confirm", "question"}

(* buildActions: the buttons of a card, by its type. *)
Actions(type) ==
    CASE type = "command"       -> {"allow_once", "allow_always", "deny"}
      [] type = "slash_confirm" -> {"once", "always", "cancel"}
      [] type = "question"      -> {"answer", "reject"}
      [] OTHER                  -> {"allow_once", "deny"}

AllActions == UNION {Actions(t) : t \in CardTypes}

ASSUME ApprovalAssumption ==
    /\ CardType \in [Asks -> CardTypes]
    /\ Patterned \subseteq {a \in Asks : CardType[a] = "command"}
    /\ Covers \subseteq Asks \X Asks
    /\ MaxFaults \in Nat

Final == {"approved", "denied", "expired"}

(* The state an action leads to is computed three times: by the repository    *)
(* for the row, by the service for the card, by the SDK for ask().           *)
RowStateWithoutCancel(action) ==
    IF action \in {"deny", "reject"} THEN "denied" ELSE "approved"
RowState(action) ==
    IF action \in {"deny", "cancel", "reject"} THEN "denied" ELSE "approved"
CardState(action) ==
    IF action \in {"deny", "cancel", "reject"} THEN "denied" ELSE "approved"
AskState(action) ==
    IF action \in {"deny", "reject", "cancel"} THEN "denied" ELSE "approved"

NoAction == "no action"
NoAsk    == "no ask"
Verb     == AllActions \cup {NoAction}

(* What travels to the agent: APPROVAL_DECIDED with the action, or           *)
(* APPROVAL_EXPIRED.                                                        *)
DecidedEvent(a, action) == [ask |-> a, type |-> "decided", action |-> action]
ExpiredEvent(a)         == [ask |-> a, type |-> "expired", action |-> NoAction]
Events == [ask : Asks, type : {"decided", "expired"}, action : Verb]

VARIABLES
    row,       \* approvals.state, "none" while the row does not exist
    decided,   \* approvals.decided_action
    pattern,   \* the asks whose approvals.allow_pattern is not NULL
    card,      \* messages.content.data.state, "none" while there is no message
    overdue,   \* the asks whose expires_at has passed
    create,    \* progress of the CreateApproval request of each ask
    dpc, dask, daction,    \* each Decide request: next statement, target, action
    cpc, ctodo, ccur,      \* the expiry sweep: next statement, batch, current ask
    link,      \* the agent's connection as the server sees it
    dialing,   \* the agent has identified on a new connection, not yet registered
    buffered,  \* events in the hub's replay buffer of the agent
    wire,      \* events on their way to the agent
    ask,       \* the agent's side of Approvals.ask
    answer,    \* what ask() resolved to
    rtodo,     \* asks the current resync() has not fetched yet
    faults     \* failures so far

rows    == <<row, decided, pattern>>
decider == <<dpc, dask, daction>>
sweep   == <<cpc, ctodo, ccur>>
net     == <<link, dialing, buffered, wire>>
agent   == <<ask, answer, rtodo>>
vars    == <<rows, card, overdue, create, decider, sweep, net, agent, faults>>

TypeOK ==
    /\ row \in [Asks -> {"none", "pending"} \cup Final]
    /\ decided \in [Asks -> Verb]
    /\ pattern \subseteq Asks
    /\ card \in [Asks -> {"none", "pending"} \cup Final]
    /\ overdue \subseteq Asks
    /\ create \in [Asks -> {"idle", "message", "row", "reply", "auto", "over"}]
    /\ dpc \in [Deciders -> {"idle", "mark", "write", "notify"}]
    /\ dask \in [Deciders -> Asks \cup {NoAsk}]
    /\ daction \in [Deciders -> Verb]
    /\ cpc \in {"scan", "mark", "write", "notify", "ended"}
    /\ ctodo \subseteq Asks
    /\ ccur \in Asks \cup {NoAsk}
    /\ link \in {"up", "half", "down"}
    /\ dialing \in BOOLEAN
    /\ buffered \subseteq Events
    /\ wire \subseteq Events
    /\ ask \in [Asks -> {"idle", "creating", "waiting", "settled", "failed"}]
    /\ answer \in [Asks -> {"none"} \cup Final]
    /\ rtodo \subseteq Asks
    /\ faults \in Nat

Init ==
    /\ row = [a \in Asks |-> "none"]
    /\ decided = [a \in Asks |-> NoAction]
    /\ pattern = {}
    /\ card = [a \in Asks |-> "none"]
    /\ overdue = {}
    /\ create = [a \in Asks |-> "idle"]
    /\ dpc = [d \in Deciders |-> "idle"]
    /\ dask = [d \in Deciders |-> NoAsk]
    /\ daction = [d \in Deciders |-> NoAction]
    /\ cpc = "scan" /\ ctodo = {} /\ ccur = NoAsk
    /\ link = "up" /\ dialing = FALSE /\ buffered = {} /\ wire = {}
    /\ ask = [a \in Asks |-> "idle"]
    /\ answer = [a \in Asks |-> "none"]
    /\ rtodo = {}
    /\ faults = 0

Fault == faults < MaxFaults /\ faults' = faults + 1

-----------------------------------------------------------------------------
(* CreateApproval: POST /conversations/:id/approvals *)

(* MatchAllowPattern: an approved row of this conversation and agent whose   *)
(* pattern was kept by an "always" decision.                                *)
WhitelistedByAnyApproval(a) ==
    \E b \in Patterned : row[b] = "approved" /\ <<b, a>> \in Covers
Whitelisted(a) ==
    \E b \in Asks : /\ row[b] = "approved"
                    /\ b \in pattern
                    /\ decided[b] = "allow_always"
                    /\ <<b, a>> \in Covers

(* The agent calls ask(); the handler validates and consults the whitelist.  *)
CreateStart(a) ==
    /\ ask[a] = "idle"
    /\ ask' = [ask EXCEPT ![a] = "creating"]
    /\ create' = [create EXCEPT ![a] =
                     IF a \in Patterned /\ Whitelisted(a) THEN "auto" ELSE "message"]
    /\ UNCHANGED <<rows, card, overdue, decider, sweep, net, answer, rtodo, faults>>

(* The first transaction: only the message, with its card still pending.     *)
CreateMessage(a) ==
    /\ create[a] = "message"
    /\ card' = [card EXCEPT ![a] = "pending"]
    /\ create' = [create EXCEPT ![a] = "row"]
    /\ UNCHANGED <<rows, overdue, decider, sweep, net, agent, faults>>

(* Outside of it, the approval row; then MESSAGE_CREATE and the response.    *)
CreateRow(a) ==
    /\ create[a] = "row"
    /\ row' = [row EXCEPT ![a] = "pending"]
    /\ pattern' = IF a \in Patterned THEN pattern \cup {a} ELSE pattern
    /\ create' = [create EXCEPT ![a] = "reply"]
    /\ UNCHANGED <<decided, card, overdue, decider, sweep, net, agent, faults>>

(* The response reaches the agent: a whitelisted call is approved at once,   *)
(* any other one starts waiting (pending.set and the local timer).           *)
AskReply(a) ==
    /\ ask[a] = "creating"
    /\ \/ /\ create[a] = "auto"
          /\ ask' = [ask EXCEPT ![a] = "settled"]
          /\ answer' = [answer EXCEPT ![a] = "approved"]
       \/ /\ create[a] = "reply"
          /\ ask' = [ask EXCEPT ![a] = "waiting"]
          /\ UNCHANGED answer
    /\ create' = [create EXCEPT ![a] = "over"]
    /\ UNCHANGED <<rows, card, overdue, decider, sweep, net, rtodo, faults>>

(* A statement of the handler fails or the response is lost: ask() throws.   *)
CreateFail(a) ==
    /\ create[a] \in {"message", "row", "reply", "auto"}
    /\ Fault
    /\ create' = [create EXCEPT ![a] = "over"]
    /\ ask' = [ask EXCEPT ![a] = "failed"]
    /\ UNCHANGED <<rows, card, overdue, decider, sweep, net, answer, rtodo>>

(* expires_at is fixed before the first insert, so it may pass at any time   *)
(* from then on.                                                            *)
Overrun(a) ==
    /\ create[a] \in {"row", "reply", "over"}
    /\ card[a] # "none"
    /\ a \notin overdue
    /\ overdue' = overdue \cup {a}
    /\ UNCHANGED <<rows, card, create, decider, sweep, net, agent, faults>>

-----------------------------------------------------------------------------
(* The hub, as far as this component sees it: SendToAgent buffers the event  *)
(* when it has a connection of the agent and drops it otherwise; a dead      *)
(* connection not yet noticed ("half") swallows the frame.                   *)
Send(e) ==
    /\ buffered' = IF link = "down" THEN buffered ELSE buffered \cup {e}
    /\ wire' = IF link = "up" THEN wire \cup {e} ELSE wire
    /\ UNCHANGED <<link, dialing>>

-----------------------------------------------------------------------------
(* Decide: POST /approvals/:id/decide *)

(* GetForDecision reads the immutable parts of the row and of its card again, *)
(* not the state; Decide admits the actions among the card's buttons.        *)
GetForDecision(a) == Actions(CardType[a])
Admitted(a, action) == action \in GetForDecision(a)

(* GetByID finds the row pending and the action is admitted; otherwise the    *)
(* request ends with 404, 409 or 400 and changes nothing.                   *)
DecideStart(d) ==
    /\ dpc[d] = "idle"
    /\ \E a \in Asks : /\ row[a] = "pending"
                       /\ dask' = [dask EXCEPT ![d] = a]
                       /\ \E action \in AllActions :
                             /\ Admitted(a, action)
                             /\ daction' = [daction EXCEPT ![d] = action]
    /\ dpc' = [dpc EXCEPT ![d] = "mark"]
    /\ UNCHANGED <<rows, card, overdue, create, sweep, net, agent, faults>>

(* The WHERE clause of both UPDATEs: state = 'pending'. *)
AnyState(a)     == row[a] # "none"
StillPending(a) == row[a] = "pending"

(* allow_pattern survives only an "always" decision. *)
KeptPattern(a, action) == IF action = "allow_always" THEN pattern ELSE pattern \ {a}

(* MarkDecided: the compare-and-set; a loser gets ErrApprovalNotPending. *)
DecideMark(d) ==
    LET a == dask[d] IN
    /\ dpc[d] = "mark"
    /\ IF StillPending(a)
       THEN /\ row' = [row EXCEPT ![a] = RowState(daction[d])]
            /\ decided' = [decided EXCEPT ![a] = daction[d]]
            /\ pattern' = KeptPattern(a, daction[d])
            /\ dpc' = [dpc EXCEPT ![d] = "write"]
       ELSE /\ dpc' = [dpc EXCEPT ![d] = "idle"]
            /\ UNCHANGED rows
    /\ UNCHANGED <<card, overdue, create, dask, daction, sweep, net, agent, faults>>

(* writeTerminalState: UpdateMessageContent, then MESSAGE_UPDATE. *)
DecideWrite(d) ==
    /\ dpc[d] = "write"
    /\ card' = [card EXCEPT ![dask[d]] = CardState(daction[d])]
    /\ dpc' = [dpc EXCEPT ![d] = "notify"]
    /\ UNCHANGED <<rows, overdue, create, dask, daction, sweep, net, agent, faults>>

DecideNotify(d) ==
    /\ dpc[d] = "notify"
    /\ Send(DecidedEvent(dask[d], daction[d]))
    /\ dpc' = [dpc EXCEPT ![d] = "idle"]
    /\ UNCHANGED <<rows, card, overdue, create, dask, daction, sweep, agent, faults>>

(* A database error, a cancelled context, or a fan-out that panics on a       *)
(* connection closed meanwhile: Gin recovers, and the event is not sent.      *)
DecideFail(d) ==
    /\ dpc[d] \in {"mark", "write", "notify"}
    /\ Fault
    /\ dpc' = [dpc EXCEPT ![d] = "idle"]
    /\ UNCHANGED <<rows, card, overdue, create, dask, daction, sweep, net, agent>>

-----------------------------------------------------------------------------
(* cleanupOnce, every minute and once at start *)

FindUnexpired == {a \in Asks \ overdue : row[a] = "pending"}
FindExpired == {a \in overdue : row[a] = "pending"}

SweepScan ==
    /\ cpc = "scan"
    /\ FindExpired # {}
    /\ ctodo' = FindExpired
    /\ cpc' = "mark"
    /\ UNCHANGED <<rows, card, overdue, create, decider, ccur, net, agent, faults>>

(* Service.MarkExpired on one ask of the batch; losing the compare-and-set is *)
(* an error, after which the loop continues with the next one.               *)
SweepMark ==
    /\ cpc = "mark"
    /\ \E a \in ctodo :
          /\ ctodo' = ctodo \ {a}
          /\ IF StillPending(a)
             THEN /\ row' = [row EXCEPT ![a] = "expired"]
                  /\ ccur' = a
                  /\ cpc' = "write"
             ELSE UNCHANGED <<row, ccur, cpc>>
    /\ UNCHANGED <<decided, pattern, card, overdue, create, decider, net, agent, faults>>

SweepWriteRowOnly ==
    /\ cpc = "write"
    /\ cpc' = "notify"
    /\ UNCHANGED <<rows, card, overdue, create, decider, ctodo, ccur, net, agent, faults>>
SweepWrite ==
    /\ cpc = "write"
    /\ card' = [card EXCEPT ![ccur] = "expired"]
    /\ cpc' = "notify"
    /\ UNCHANGED <<rows, overdue, create, decider, ctodo, ccur, net, agent, faults>>

SweepNotify ==
    /\ cpc = "notify"
    /\ Send(ExpiredEvent(ccur))
    /\ cpc' = "mark"
    /\ UNCHANGED <<rows, card, overdue, create, decider, ctodo, ccur, agent, faults>>

SweepDone ==
    /\ cpc = "mark" /\ ctodo = {}
    /\ cpc' = "scan"
    /\ UNCHANGED <<rows, card, overdue, create, decider, ctodo, ccur, net, agent, faults>>

(* A statement for one ask fails; the loop logs it and goes on. *)
SweepFail ==
    /\ Fault
    /\ \/ cpc = "mark" /\ \E a \in ctodo : ctodo' = ctodo \ {a}
       \/ cpc = "write" /\ UNCHANGED ctodo
    /\ cpc' = "mark"
    /\ UNCHANGED <<rows, card, overdue, create, decider, ccur, net, agent>>

(* The sweep's own fan-outs, MESSAGE_UPDATE and then APPROVAL_EXPIRED, may    *)
(* load a connection and find it closed: the send panics (module Dispatch).   *)
(* The recover of RunCleanup is outside its loop, so the goroutine ends.      *)
SweepPanic ==
    /\ cpc = "notify"
    /\ Fault
    /\ Send(ExpiredEvent(ccur)) \/ UNCHANGED net
    /\ cpc' = "ended" /\ ctodo' = {} /\ ccur' = NoAsk
    /\ UNCHANGED <<rows, card, overdue, create, decider, agent>>

-----------------------------------------------------------------------------
(* The connection of the agent, and a crash of the server *)

Break ==
    /\ link = "up"
    /\ Fault
    /\ link' = "half" /\ wire' = {}
    /\ UNCHANGED <<rows, card, overdue, create, decider, sweep, dialing, buffered, agent>>

(* The hub unregisters the dead connection, the last of the agent: the replay *)
(* buffer goes with it.                                                     *)
Notice ==
    /\ link = "half"
    /\ link' = "down" /\ buffered' = {}
    /\ UNCHANGED <<rows, card, overdue, create, decider, sweep, dialing, wire, agent, faults>>

(* establishWS returned: "connected", and resync() starts over its pending    *)
(* map, while the server still has to register the connection.               *)
Redial ==
    /\ link # "up" /\ ~dialing
    /\ dialing' = TRUE
    /\ rtodo' = {a \in Asks : ask[a] = "waiting"}
    /\ UNCHANGED <<rows, card, overdue, create, decider, sweep, link, buffered, wire, ask, answer, faults>>

(* The hub registers it and answers the Resume frame from what is buffered; *)
(* which part of it, the sequence numbers decide.                           *)
Registered ==
    /\ dialing
    /\ link' = "up" /\ dialing' = FALSE
    /\ wire' \in SUBSET buffered
    /\ UNCHANGED <<rows, card, overdue, create, decider, sweep, buffered, agent, faults>>

Running == {a \in Asks : create[a] \in {"message", "row", "reply", "auto"}}

(* Requests in flight are gone, and so are the connections and buffers; only  *)
(* the database survives.  The sweep starts again, with a scan.              *)
Crash ==
    /\ Fault
    /\ create' = [a \in Asks |-> IF a \in Running THEN "over" ELSE create[a]]
    /\ ask' = [a \in Asks |-> IF a \in Running THEN "failed" ELSE ask[a]]
    /\ dpc' = [d \in Deciders |-> "idle"]
    /\ cpc' = "scan" /\ ctodo' = {} /\ ccur' = NoAsk
    /\ link' = "down" /\ dialing' = FALSE /\ buffered' = {} /\ wire' = {}
    /\ UNCHANGED <<rows, card, overdue, dask, daction, answer, rtodo>>

-----------------------------------------------------------------------------
(* The agent's Approvals: settle, the local timer, resync *)

Settle(a, v) ==
    /\ ask' = [ask EXCEPT ![a] = "settled"]
    /\ answer' = [answer EXCEPT ![a] = v]

(* approval.decided / approval.expired: an ask nobody waits for is ignored.  *)
Deliver(e) ==
    /\ e \in wire
    /\ wire' = wire \ {e}
    /\ IF ask[e.ask] = "waiting"
       THEN Settle(e.ask, IF e.type = "expired" THEN "expired" ELSE AskState(e.action))
       ELSE UNCHANGED <<ask, answer>>
    /\ UNCHANGED <<rows, card, overdue, create, decider, sweep, link, dialing, buffered, rtodo, faults>>

TimerWhileConnected(a) ==
    /\ ask[a] = "waiting" /\ link = "up"
    /\ a \in overdue
    /\ Settle(a, "expired")
    /\ UNCHANGED <<rows, card, overdue, create, decider, sweep, net, rtodo, faults>>
(* The local timer runs five seconds longer than the server's expires_at. *)
Timer(a) ==
    /\ ask[a] = "waiting"
    /\ a \in overdue
    /\ Settle(a, "expired")
    /\ UNCHANGED <<rows, card, overdue, create, decider, sweep, net, rtodo, faults>>

(* GET /approvals/:id, open to the agent that raised the ask: the row's state. *)
Get(a) == row[a]

(* resync() fetches its asks one by one; only a concluded row settles one. *)
Fetch(a) ==
    /\ a \in rtodo
    /\ rtodo' = rtodo \ {a}
    /\ IF ask[a] = "waiting" /\ Get(a) \in Final
       THEN Settle(a, Get(a))
       ELSE UNCHANGED <<ask, answer>>
    /\ UNCHANGED <<rows, card, overdue, create, decider, sweep, net, faults>>

FetchFail(a) ==
    /\ a \in rtodo
    /\ Fault
    /\ rtodo' = rtodo \ {a}
    /\ UNCHANGED <<rows, card, overdue, create, decider, sweep, net, ask, answer>>

-----------------------------------------------------------------------------
Next ==
    \/ \E a \in Asks : \/ CreateStart(a) \/ CreateMessage(a) \/ CreateRow(a)
                       \/ AskReply(a) \/ CreateFail(a) \/ Overrun(a)
                       \/ Timer(a) \/ Fetch(a) \/ FetchFail(a)
    \/ \E d \in Deciders : \/ DecideStart(d) \/ DecideMark(d) \/ DecideWrite(d)
                           \/ DecideNotify(d) \/ DecideFail(d)
    \/ SweepScan \/ SweepMark \/ SweepWrite \/ SweepNotify \/ SweepDone \/ SweepFail
    \/ SweepPanic
    \/ Break \/ Notice \/ Redial \/ Registered \/ Crash
    \/ \E e \in wire : Deliver(e)

Spec == Init /\ [][Next]_vars

(* The ticker runs the sweep unless it has ended, started handlers run on,    *)
(* timers go off and time passes.  Users need not decide, the network owes    *)
(* nothing, and nobody need restart the server.                              *)
SweepStep == SweepScan \/ SweepMark \/ SweepWrite \/ SweepNotify \/ SweepDone
Fairness ==
    /\ WF_vars(SweepStep)
    /\ \A a \in Asks : /\ WF_vars(CreateMessage(a) \/ CreateRow(a) \/ AskReply(a))
                       /\ WF_vars(Overrun(a))
                       /\ WF_vars(Timer(a))
    /\ \A d \in Deciders : WF_vars(DecideMark(d) \/ DecideWrite(d) \/ DecideNotify(d))

FairSpec == Spec /\ Fairness

-----------------------------------------------------------------------------
(* PROPERTIES *)

(* Of all the deciders and sweeps that race for an approval one wins, and the *)
(* verdict it stores is never overwritten: the row implements a promise of    *)
(* one conclusion ("终态不可逆", model/approval.go).                          *)
Promise == INSTANCE ApprovalPromise WITH verdict <- row
ConcludesOnce == Promise!Spec

(* The second copy of the state, the one inside the message that every chat   *)
(* list and card renders, never contradicts the row: it lags behind as        *)
(* pending, or it shows the row's own verdict.                               *)
CardNeverContradicts ==
    \A a \in Asks : card[a] \in Final => card[a] = row[a]

(* Every event for the agent, in flight or kept for replay, tells the verdict *)
(* the row holds, with the very action that was stored: no loser of the race  *)
(* ever announces its own.                                                   *)
EventTellsTheRow ==
    \A e \in wire \cup buffered :
        IF e.type = "expired" THEN row[e.ask] = "expired"
                              ELSE /\ row[e.ask] = RowState(e.action)
                                   /\ decided[e.ask] = e.action

Earned(a) == \E b \in Asks : /\ row[b] = "approved"
                             /\ decided[b] = "allow_always"
                             /\ <<b, a>> \in Covers

(* An agent acts only on consent: ask() answers approved only if a user       *)
(* approved this very ask, or approved "always" for an earlier one whose      *)
(* pattern covers it.  Lost, replayed and duplicated events included.        *)
ConsentIsReal ==
    \A a \in Asks : answer[a] = "approved" =>
        row[a] = "approved" \/ (row[a] = "none" /\ Earned(a))

(* A refusal heard by the agent is a refusal stored. *)
RefusalIsReal == \A a \in Asks : answer[a] = "denied" => row[a] = "denied"

(* What the six steps above rest on: whoever got past the compare-and-set      *)
(* still holds the verdict it is about to write and announce, a row is only   *)
(* ever inserted for an ask that has none, and an ask resolves once, after    *)
(* its creation is over.                                                     *)
WinnerHoldsTheRow ==
    /\ \A d \in Deciders :
          /\ dpc[d] # "idle" => dask[d] \in Asks /\ daction[d] \in AllActions
          /\ dpc[d] \in {"write", "notify"} =>
                /\ row[dask[d]] = RowState(daction[d])
                /\ decided[dask[d]] = daction[d]
    /\ cpc \in {"write", "notify"} => ccur \in Asks /\ row[ccur] = "expired"

CreationOrder ==
    \A a \in Asks :
        /\ create[a] \in {"idle", "message", "row", "auto"} => row[a] = "none"
        /\ create[a] = "auto" => Earned(a)
        /\ (ask[a] = "idle") <=> (create[a] = "idle")
        /\ (ask[a] = "creating") <=> (create[a] \in {"message", "row", "reply", "auto"})
        /\ answer[a] # "none" => ask[a] = "settled"

IInv ==
    /\ TypeOK
    /\ WinnerHoldsTheRow
    /\ CreationOrder
    /\ CardNeverContradicts
    /\ EventTellsTheRow
    /\ ConsentIsReal
    /\ RefusalIsReal

SweepEnded == cpc = "ended"

(* Unless a panic has ended the sweep for good, an approval nobody decides    *)
(* does not stay open: however many statements fail (finitely many), at a     *)
(* batch selected before a user decided, in an earlier life of the server,    *)
(* the sweep comes back for it.                                              *)
OverdueIsConcluded ==
    \/ <>[]SweepEnded
    \/ \A a \in Asks : (row[a] = "pending" /\ a \in overdue) ~> (row[a] \in Final)

(* ask() always returns, whatever is lost on the way. *)
AskReturns == \A a \in Asks : (ask[a] = "creating") ~> (ask[a] \in {"settled", "failed"})

(* As long as nothing fails, a concluded row reaches the card. *)
CardFollowsUnlessFault ==
    \A a \in Asks : (row[a] \in Final) ~> (card[a] = row[a] \/ faults > 0)

(* cleanup.go:110, "双写 messages.content + 广播 MESSAGE_UPDATE，APP 端卡片不再停留 *)
(* 在 pending": a concluded row reaches the card.                             *)
CardFollowsRow == \A a \in Asks : (row[a] \in Final) ~> (card[a] = row[a])
=============================================================================
