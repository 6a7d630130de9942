------------------------------- MODULE Sessions -------------------------------
(***************************************************************************)
(* Accounts and their tokens: registration, login with the upgrade of weak *)
(* hashes, rotation of refresh tokens, logout, the change of a password,   *)
(* and the check of every request's access token (handler/auth_handler.go, *)
(* user_handler.go, middleware.go, ws_handler.go, auth/token_store.go,     *)
(* auth/jwt.go, repository/user_repo.go).                                  *)
(*                                                                         *)
(* Users live in the database; versions, refresh tokens and the blacklist  *)
(* live in Redis.  Each statement and each Redis command is a step, and    *)
(* may fail.  A token is named after the request it was issued to.         *)
(***************************************************************************)
EXTENDS Handlers, Functions

CONSTANT FirstAccounts     \* user -> [pass, weak, role] at the start

\* Whoever has an account, or registers, is a user; tokens are random and met once.
ASSUME AccountsAssumption ==
    /\ Users \cap Requests = {}
    /\ DOMAIN FirstAccounts \subseteq Users
    /\ \A u \in DOMAIN FirstAccounts : DOMAIN FirstAccounts[u] = {"pass", "weak", "role"}
    /\ \A j \in Jobs : \A r \in Requests : j[r].op = "register" => j[r].user \in Users

VARIABLES
    accounts,   \* users: password, whether its hash has a low cost, role
    version,    \* tokenver
    access,     \* access tokens that were answered: [id, user, role, ver, since, raced]
    refreshes,  \* refresh tokens: [id, user, ver, since, raced]
    black,      \* blacklist
    admitted,   \* history: uses that passed the check, and what was over when they began
    chosen,     \* history: the password a user registered with or changed to last
    lost,       \* history: users whose changed password a login overwrote
    changes,    \* history: how many changes of a user's password are committed
    settled,    \* history: how many of them were before the INCR of an answered one
    left,       \* history: access tokens whose logout was answered
    unlisted    \* history: of these, those that could not be put on the blacklist

sessionVars == <<accounts, version, access, refreshes, black, admitted,
                 chosen, lost, changes, settled, left, unlisted>>

Gated == {"use", "change", "logout"}

SessionsInit ==
    /\ accounts = FirstAccounts
    /\ version = [u \in Users |-> 0]
    /\ access = {[id |-> u, user |-> u, role |-> FirstAccounts[u].role, ver |-> 0, since |-> 0,
                  raced |-> FALSE] : u \in DOMAIN FirstAccounts}
    /\ refreshes = {[id |-> u, user |-> u, ver |-> 0, since |-> 0, raced |-> FALSE] :
                      u \in DOMAIN FirstAccounts}
    /\ black = {}
    /\ admitted = {}
    /\ chosen = [u \in DOMAIN FirstAccounts |-> FirstAccounts[u].pass]
    /\ lost = {}
    /\ changes = [u \in Users |-> 0]
    /\ settled = [u \in Users |-> 0]
    /\ left = {}
    /\ unlisted = {}

\* What a handler keeps of the user it is about, and what was over when it read that.
Seen(r, user, role) ==
    [user |-> user, role |-> role, pass |-> Nothing, ver |-> 0, open |-> FALSE,
     met |-> version[user], since |-> changes[user], raced |-> FALSE,
     settled |-> settled[user], out |-> job[r].about \in left,
     unlisted |-> job[r].about \in unlisted]

\* -------------------------------------------------------------- issueTokenPair
\* A version that cannot be read counts as 0.
IssueVersion(r) ==
    /\ pc[r] = "version"
    /\ \E v \in {version[snap[r].user], 0} : snap' = [snap EXCEPT ![r].ver = v]
    /\ Goto(r, "store")
    /\ UNCHANGED <<job, sessionVars>>

\* CreateRefresh, and the answer with both tokens. They belong to a session that began
\* when so many changes were committed, or, raced, while the version went up.
Issue(r) ==
    LET u == snap[r].user
        raced == snap[r].raced \/ (pc[r] = "store" /\ snap[r].met # version[u])
    IN  /\ pc[r] \in {"store", "renew"}
        /\ refreshes' = refreshes \cup {[id |-> r, user |-> u, ver |-> snap[r].ver,
                                         since |-> snap[r].since, raced |-> raced]}
        /\ access' = access \cup {[id |-> r, user |-> u, role |-> snap[r].role, ver |-> snap[r].ver,
                                   since |-> snap[r].since, raced |-> raced]}
        /\ settled' = IF pc[r] = "renew" /\ snap[r].since > settled[u]
                      THEN [settled EXCEPT ![u] = snap[r].since] ELSE settled
        /\ Goto(r, "done")
        /\ UNCHANGED <<job, snap, accounts, version, black, admitted,
                       chosen, lost, changes, left, unlisted>>

\* -------------------------------------------------------------- Register, Login
RegisterRead(r) ==
    /\ Is(r, "register", "new")
    /\ Goto(r, IF job[r].user \in DOMAIN accounts THEN "done" ELSE "enrol")
    /\ Keep(r, Seen(r, job[r].user, "user"))
    /\ UNCHANGED <<job, sessionVars>>

\* The unique name refuses the second of two that found it free.
CreateUser(r) ==
    LET u == job[r].user
        row == [pass |-> job[r].whom, weak |-> FALSE, role |-> "user"]
    IN  /\ pc[r] = "enrol"
        /\ IF u \in DOMAIN accounts
             THEN Goto(r, "done") /\ UNCHANGED <<accounts, chosen>>
             ELSE /\ Goto(r, "version")
                  /\ accounts' = [o \in DOMAIN accounts \cup {u} |-> IF o = u THEN row ELSE accounts[o]]
                  /\ chosen' = [o \in DOMAIN chosen \cup {u} |-> IF o = u THEN job[r].whom ELSE chosen[o]]
        /\ UNCHANGED <<job, snap, version, access, refreshes, black, admitted,
                       lost, changes, settled, left, unlisted>>

KnownName(r) == job[r].user \in DOMAIN accounts
Verified(r) == job[r].user \in DOMAIN accounts /\ accounts[job[r].user].pass = job[r].whom

LoginRead(r) ==
    LET u == job[r].user IN
    /\ Is(r, "login", "new")
    /\ IF Verified(r)
         THEN /\ Goto(r, IF accounts[u].weak THEN "rehash" ELSE "version")
              /\ Keep(r, [Seen(r, u, accounts[u].role) EXCEPT !.pass = accounts[u].pass])
         ELSE Goto(r, "done") /\ UNCHANGED snap
    /\ UNCHANGED <<job, sessionVars>>

\* UPDATE .. WHERE id, with the password that was verified; a failure is only logged.
Rehash(r, works) ==
    LET u == job[r].user IN
    /\ pc[r] = "rehash"
    /\ accounts' = IF works THEN [accounts EXCEPT ![u].pass = job[r].whom, ![u].weak = FALSE]
                            ELSE accounts
    /\ lost' = IF accounts[u].pass = snap[r].pass THEN lost ELSE lost \cup {u}
    /\ Goto(r, "version")
    /\ UNCHANGED <<job, snap, version, access, refreshes, black, admitted,
                   chosen, changes, settled, left, unlisted>>

\* --------------------------------------------------------------------- Refresh
\* The refresh token that is presented is job.whom.
GetRefresh(r) ==
    LET data == {d \in refreshes : d.id = job[r].whom} IN
    /\ Is(r, "exchange", "new")
    /\ \/ data = {} /\ Goto(r, "done") /\ UNCHANGED snap
       \/ \E d \in data : /\ Goto(r, "compare")
                          /\ Keep(r, [Seen(r, d.user, Nothing) EXCEPT !.ver = d.ver, !.since = d.since,
                                                                      !.raced = d.raced])
    /\ UNCHANGED <<job, sessionVars>>

CompareVersion(r) ==
    /\ pc[r] = "compare"
    /\ Goto(r, IF version[snap[r].user] = snap[r].ver THEN "role" ELSE "done")
    /\ UNCHANGED <<job, snap, sessionVars>>

\* The role is read before the token is deleted: a failure here leaves the token usable.
RoleRead(r) ==
    LET u == snap[r].user IN
    /\ pc[r] = "role"
    /\ IF u \in DOMAIN accounts
         THEN Goto(r, "rotate") /\ snap' = [snap EXCEPT ![r].role = accounts[u].role]
         ELSE Goto(r, "done") /\ UNCHANGED snap
    /\ UNCHANGED <<job, sessionVars>>

DeleteRefresh(t) == {d \in refreshes : d.id # t}
Rotate(r, works) ==
    /\ pc[r] = "rotate"
    /\ refreshes' = IF works THEN DeleteRefresh(job[r].whom) ELSE refreshes
    /\ Goto(r, "version")
    /\ UNCHANGED <<job, snap, accounts, version, access, black, admitted,
                   chosen, lost, changes, settled, left, unlisted>>

\* ------------------------------------------------------ AuthMiddlewareWithStore
\* The access token that is presented is job.about.  A list that cannot be read lets it
\* pass, and the version counts for the role user only.
Presented(r) == {t \in access : t.id = job[r].about}
CheckBlack(r, reads) ==
    /\ job[r].op \in Gated /\ pc[r] = "new"
    /\ \/ Presented(r) = {} /\ Goto(r, "done") /\ UNCHANGED snap
       \/ \E t \in Presented(r) :
             /\ Goto(r, IF reads /\ t.id \in black THEN "done" ELSE "stamp")
             /\ Keep(r, [Seen(r, t.user, t.role) EXCEPT !.ver = t.ver, !.open = ~reads])
    /\ UNCHANGED <<job, sessionVars>>

NotAhead(ver, u) == ver <= version[u]
Current(ver, u) == ver = version[u]
CheckVersion(r, reads) ==
    LET checked == snap[r].role = "user" /\ reads
        passes == checked => Current(snap[r].ver, snap[r].user)
    IN  /\ pc[r] = "stamp"
        /\ Goto(r, IF ~passes THEN "done"
                   ELSE CASE job[r].op = "use" -> "done"
                          [] job[r].op = "change" -> "self"
                          [] job[r].op = "logout" -> "black")
        /\ admitted' = IF passes
                       THEN admitted \cup {[token |-> job[r].about, open |-> snap[r].open \/ ~reads,
                                            changes |-> snap[r].since, settled |-> snap[r].settled,
                                            out |-> snap[r].out, unlisted |-> snap[r].unlisted]}
                       ELSE admitted
        /\ UNCHANGED <<job, snap, accounts, version, access, refreshes, black,
                       chosen, lost, changes, settled, left, unlisted>>

\* -------------------------------------------------------------- ChangePassword
\* The role is the row's; the new hash has the lower cost.
SelfRead(r) ==
    LET u == snap[r].user IN
    /\ pc[r] = "self"
    /\ IF u \in DOMAIN accounts
         THEN Goto(r, "password") /\ snap' = [snap EXCEPT ![r].role = accounts[u].role]
         ELSE Goto(r, "done") /\ UNCHANGED snap
    /\ UNCHANGED <<job, sessionVars>>

UpdatePassword(r) ==
    LET u == snap[r].user IN
    /\ pc[r] = "password"
    /\ accounts' = [accounts EXCEPT ![u].pass = job[r].whom, ![u].weak = TRUE]
    /\ chosen' = [chosen EXCEPT ![u] = job[r].whom]
    /\ lost' = lost \ {u}
    /\ changes' = [changes EXCEPT ![u] = @ + 1]
    /\ Goto(r, "bump")
    /\ UNCHANGED <<job, snap, version, access, refreshes, black, admitted, settled, left, unlisted>>

\* When this fails the new password stays, and so do the old tokens.
IncrTokenVersion(r) ==
    LET u == snap[r].user IN
    /\ pc[r] = "bump"
    /\ version' = [version EXCEPT ![u] = @ + 1]
    /\ snap' = [snap EXCEPT ![r].ver = version'[u], ![r].since = changes[u]]
    /\ Goto(r, "renew")
    /\ UNCHANGED <<job, accounts, access, refreshes, black, admitted,
                   chosen, lost, changes, settled, left, unlisted>>

\* ---------------------------------------------------------------------- Logout
\* The access token goes to the blacklist and the refresh token that the body names is
\* deleted; the answer is a success whether or not either works.
BlacklistToken(r, works) ==
    LET t == job[r].about IN
    /\ pc[r] = "black"
    /\ black' = IF works THEN black \cup {t} ELSE black
    /\ unlisted' = IF t \in black' THEN unlisted \ {t} ELSE unlisted \cup {t}
    /\ Goto(r, "forget")
    /\ UNCHANGED <<job, snap, accounts, version, access, refreshes, admitted,
                   chosen, lost, changes, settled, left>>
ForgetRefresh(r, works) ==
    /\ pc[r] = "forget"
    /\ refreshes' = IF works THEN DeleteRefresh(job[r].whom) ELSE refreshes
    /\ left' = left \cup {job[r].about}
    /\ Goto(r, "done")
    /\ UNCHANGED <<job, snap, accounts, version, access, black, admitted,
                   chosen, lost, changes, settled, unlisted>>

\* ------------------------------------------------------------- PromoteAdmins
\* At startup, by name.
PromoteAdmins(r) ==
    /\ Is(r, "promote", "new")
    /\ accounts' = [u \in DOMAIN accounts |->
                       IF u = job[r].user THEN [accounts[u] EXCEPT !.role = "admin"] ELSE accounts[u]]
    /\ Goto(r, "done")
    /\ UNCHANGED <<job, snap, version, access, refreshes, black, admitted,
                   chosen, lost, changes, settled, left, unlisted>>

\* A statement or a command whose failure ends the handler.
SessionFails(r) ==
    /\ pc[r] \in {"enrol", "store", "compare", "role", "self", "password", "bump", "renew"}
    /\ Goto(r, "done")
    /\ UNCHANGED <<job, snap, sessionVars>>

SessionStep(r) ==
    \/ RegisterRead(r) \/ CreateUser(r) \/ LoginRead(r)
    \/ IssueVersion(r) \/ Issue(r)
    \/ GetRefresh(r) \/ CompareVersion(r) \/ RoleRead(r)
    \/ SelfRead(r) \/ UpdatePassword(r) \/ IncrTokenVersion(r)
    \/ PromoteAdmins(r) \/ SessionFails(r)
    \/ \E works \in BOOLEAN : \/ Rehash(r, works) \/ Rotate(r, works)
                              \/ CheckBlack(r, works) \/ CheckVersion(r, works)
                              \/ BlacklistToken(r, works) \/ ForgetRefresh(r, works)

\* ------------------------------------------------------------------ properties
\* A user's password is the one chosen last, whatever logins upgrade its hash meanwhile,
\* unless such a login had verified the password before it was changed.
PasswordKept ==
    \A u \in DOMAIN accounts : u \notin lost => accounts[u].pass = chosen[u]

\* No request begins with a token whose logout was answered and passes the check, except
\* where the blacklist could not be written. And none passes that begins after a change
\* of password was answered, with a token of a session from before that change (logged in,
\* registered, or refreshed since), except a session that began, or was refreshed, while
\* the version went up. Redis unread lets all pass, and an admin's version is not checked.
EndedTokensStayOut ==
    \A a \in admitted : ~a.open =>
        /\ a.out => a.unlisted
        /\ \A t \in access :
              a.token = t.id /\ ~t.raced /\ t.role = "user" => a.settled <= t.since

\* What docs/architecture/server/entry.md says of a change of password: it increments the
\* version, and all old tokens are invalid at once. A request that begins when the change
\* is committed passes with no token from before it.
OldTokensDieAtOnce ==
    \A a \in admitted : ~a.open =>
        \A t \in access :
            a.token = t.id /\ ~t.raced /\ t.role = "user" => a.changes <= t.since
=============================================================================
