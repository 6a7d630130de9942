------------------------------- MODULE MpData -------------------------------
(***************************************************************************)
(* The cloud data of a mini program: the table mini_program_data and the   *)
(* five endpoints over it (handler/mini_program_storage_handler.go,        *)
(* repository/mini_program_data_repo.go), beside the packages that declare *)
(* its collections.                                                        *)
(*                                                                         *)
(* A private entry is the row of (owner, coll, key); a shared one is the   *)
(* row of (coll, key), and its owner is whoever wrote last.  A write is    *)
(* one READ COMMITTED transaction: it locks the row and compares versions, *)
(* then sums what the program stores, then writes and commits.  Each       *)
(* statement sees what was committed when it started.                      *)
(***************************************************************************)
EXTENDS MpPackages, FiniteSetsExt

CONSTANTS
    Colls,          \* collections; "default" is private and needs no declaration
    Keys,           \* keys of a collection, numbers for their order
    Sizes,          \* sizes of values that are written
    AppBytes, AppEntries, MyBytes, MyEntries, MaxValueBytes,
    PageSize,       \* limit of a listing
    FirstRows       \* what may be stored at the start

ASSUME LimitsAssumption ==
    /\ {AppBytes, AppEntries, MyBytes, MyEntries, MaxValueBytes} \subseteq Nat
    /\ PageSize \in Nat \ {0}
ASSUME EntriesAssumption == Keys \subseteq Nat \ {0} /\ Sizes \subseteq Nat
ASSUME WritersAssumption ==
    \A j \in Jobs, r \in Requests : j[r].op \in {"put", "remove"} => j[r].user \in Users

\* A row has an id of its own and one owner, collection and key.
IsTable(S) ==
    /\ IsFiniteSet(S)
    /\ \A row \in S : /\ DOMAIN row = {"id", "owner", "coll", "key", "size", "version", "value"}
                      /\ row.owner \in Users /\ row.coll \in Colls /\ row.key \in Nat \ {0}
                      /\ row.size \in Nat /\ row.version \in Nat \ {0}
    /\ \A one, two \in S : \/ one = two
                           \/ /\ one.id # two.id
                              /\ <<one.owner, one.coll, one.key>> # <<two.owner, two.coll, two.key>>
ASSUME FirstRowsAssumption ==
    \A S \in FirstRows :
        /\ IsTable(S)
        /\ \A row \in S, j \in Jobs : row.id \in Requests => j[row.id].op # "put"

VARIABLES
    rows,       \* mini_program_data
    asked,      \* [coll, key, size, basis, shared] of a request
    found,      \* the rows a request locked or read
    result,     \* how it ended
    behind,     \* history: writers that another one overtook after their sums
    stale,      \* history: one of those wrote, or had written
    seen,       \* per user: the row its last read returned
    listed,     \* the rows a listing has returned
    stayed,     \* history: the rows that were there throughout a listing
    modesHad    \* history: the modes each collection was declared with

dataVars == <<rows, asked, found, result, behind, stale, seen, listed, stayed, modesHad>>
mpVars == <<packageVars, dataVars>>
otherPackageVars == <<job, zip, program, icons, key, held, installed, reviewed,
                      overtaken>>

Ids(S) == {row.id : row \in S}
\* SUM(size_bytes): a byte is its row and its place in the row's value.
Bytes(S) == Cardinality(UNION {{row.id} \X (1..row.size) : row \in S})
Of(u) == {row \in rows : row.owner = u}
WithinQuota ==
    /\ Bytes(rows) <= AppBytes /\ Cardinality(rows) <= AppEntries
    /\ \A u \in Users : Bytes(Of(u)) <= MyBytes /\ Cardinality(Of(u)) <= MyEntries

ModesOf(c, p) == IF p = Nothing THEN {} ELSE {p.pkg.modes[d] : d \in {c} \cap DOMAIN p.pkg.modes}
\* Two rows of one key are left from a time when the collection was private.
ModeLeft(c) ==
    {mode \in {"private"} : \E one, two \in rows : /\ one # two /\ one.key = two.key
                                                  /\ one.coll = c /\ two.coll = c}

DataInit ==
    /\ rows \in FirstRows
    /\ asked = [r \in Requests |-> Nothing]
    /\ found = [r \in Requests |-> {}]
    /\ result = [r \in Requests |-> "none"]
    /\ behind = {}
    /\ stale = ~WithinQuota
    /\ seen = [u \in Users |-> Nothing]
    /\ listed = [r \in Requests |-> {}]
    /\ stayed = [r \in Requests |-> {}]
    /\ modesHad = [c \in Colls |-> ModesOf(c, program) \cup ModeLeft(c)]

\* ------------------------------------------------------------------ authStorage
\* The mode of a collection in the manifest the request read.
Mode(c) == IF c = "default" THEN "private" ELSE program.pkg.modes[c]
IsSharedMode(mode) == mode \in {"shared_read", "shared_write"}

AuthStorage(r, c) ==
    /\ program # Nothing
    /\ program.owner = job[r].user \/ program.status = "published"
    /\ c = "default" \/ c \in DOMAIN program.pkg.modes
    /\ ~(/\ job[r].op \in {"put", "remove"} /\ Mode(c) = "shared_read"
         /\ program.owner # job[r].user)

\* The rows a request means: its own, or everybody's.
Mine(r, S) ==
    {row \in S : /\ row.coll = asked[r].coll
                 /\ asked[r].shared \/ row.owner = job[r].user}
Meant(r) == {row \in Mine(r, rows) : row.key = asked[r].key}

\* A conditional write names the version of the row its user last read for this entry.
Bases(u, c, k) ==
    {Nothing} \cup {row \in {seen[u]} \ {Nothing} : row.coll = c /\ row.key = k}

Admit(r, first, c, k, size, basis) ==
    /\ pc[r] = "new"
    /\ IF AuthStorage(r, c)
         THEN /\ Goto(r, first)
              /\ asked' = [asked EXCEPT ![r] = [coll |-> c, key |-> k, size |-> size,
                              basis |-> basis, shared |-> IsSharedMode(Mode(c))]]
         ELSE Goto(r, "done") /\ UNCHANGED asked
    /\ UNCHANGED <<otherPackageVars, snap, rows, found, result, seen, listed>>

\* What the query string or the body may say.
GetEntry(r) ==
    job[r].op = "get" /\ \E c \in Colls, k \in Keys : Admit(r, "get", c, k, 0, Nothing)
PutEntry(r) ==
    /\ job[r].op = "put"
    /\ \E c \in Colls, k \in Keys, size \in Sizes :
          \E basis \in Bases(job[r].user, c, k) : Admit(r, "lock", c, k, size, basis)
DeleteEntry(r) ==
    /\ job[r].op = "remove"
    /\ \E c \in Colls, k \in Keys :
          \E basis \in Bases(job[r].user, c, k) : Admit(r, "look", c, k, 0, basis)
ListEntries(r) ==
    job[r].op = "list" /\ \E c \in Colls : Admit(r, "page", c, 0, 0, Nothing)

\* ------------------------------------------------------------------------ locks
InWrite == {r \in Requests : pc[r] \in {"sum", "save"}}
Locked(r, S) == \E o \in InWrite \ {r} : found[o] \cap Ids(S) # {}
\* pg_advisory_xact_lock of the shared writers, to the end of their transaction.
NeverTaken(r) == FALSE
KeyTaken(r) ==
    asked[r].shared /\ \E o \in InWrite : /\ asked[o].shared /\ asked[o].coll = asked[r].coll
                                          /\ asked[o].key = asked[r].key

\* ------------------------------------------------ UpsertEntry, UpsertEntryShared
Conflicts(r, S) ==
    /\ asked[r].basis # Nothing
    /\ \A row \in S : row.version # asked[r].basis.version

\* The transaction is over: its locks and what it read are gone.
End(r, how) ==
    /\ Goto(r, "done")
    /\ result' = [result EXCEPT ![r] = how]
    /\ snap' = [snap EXCEPT ![r] = Nothing]
    /\ found' = [found EXCEPT ![r] = {}]

\* QueryRow reads one of the rows, if there are any.
OneOf(S) == IF S = {} THEN {{}} ELSE {{row} : row \in S}

\* SELECT .. FOR UPDATE, the comparison, the size of the value.
Lock(r) ==
    /\ pc[r] = "lock" /\ ~KeyTaken(r) /\ ~Locked(r, Meant(r))
    /\ \E S \in OneOf(Meant(r)) :
          IF Conflicts(r, S) \/ asked[r].size > MaxValueBytes
            THEN End(r, "error")
            ELSE /\ Goto(r, "sum")
                 /\ found' = [found EXCEPT ![r] = Ids(Meant(r))]
                 /\ snap' = [snap EXCEPT ![r] = S]
                 /\ UNCHANGED <<result>>
    /\ UNCHANGED <<otherPackageVars, rows, asked, seen, listed>>

\* Sums of the program and of the writer.  A replaced row counts with its growth; a
\* shared row is charged to its writer in full, beside what the writer has elsewhere.
Growth(r) == asked[r].size - Bytes(snap[r])
WithinApp(r) ==
    /\ Bytes(rows) + Growth(r) <= AppBytes
    /\ snap[r] = {} => Cardinality(rows) + 1 <= AppEntries
Others(r) == {row \in Of(job[r].user) : row.id \notin Ids(snap[r])}
WithinMineByGrowth(r) ==
    /\ Bytes(Of(job[r].user)) + Growth(r) <= MyBytes
    /\ snap[r] = {} => Cardinality(Others(r)) + 1 <= MyEntries
WithinMine(r) ==
    /\ Bytes(Others(r)) + asked[r].size <= MyBytes
    /\ (\A row \in snap[r] : row.owner # job[r].user) => Cardinality(Others(r)) + 1 <= MyEntries

Sum(r) ==
    /\ pc[r] = "sum"
    /\ IF WithinApp(r) /\ WithinMine(r)
         THEN /\ Goto(r, "save")
              /\ UNCHANGED <<result, snap, found>>
         ELSE End(r, "error")
    /\ UNCHANGED <<otherPackageVars, rows, asked, seen, listed>>

Written(r, row) ==
    [row EXCEPT !.owner = job[r].user, !.size = asked[r].size, !.version = @ + 1, !.value = r]
Inserted(r) ==
    [id |-> r, owner |-> job[r].user, coll |-> asked[r].coll, key |-> asked[r].key,
     size |-> asked[r].size, version |-> 1, value |-> r]

StoresBeside(r, row, old) ==
    /\ rows' = rows \cup {row}
    /\ seen' = [seen EXCEPT ![job[r].user] = row]
    /\ End(r, "ok")
Stores(r, row, old) ==
    /\ rows' = (rows \ old) \cup {row}
    /\ seen' = [seen EXCEPT ![job[r].user] = row]
    /\ End(r, "ok")

\* A private write is INSERT .. ON CONFLICT DO UPDATE.  A shared one updates what it
\* found, or inserts: several rows of one key cannot all become the writer's, and a row
\* of the writer's may have come since.
Save(r) ==
    /\ pc[r] = "save" /\ ~Locked(r, Meant(r))
    /\ LET private == ~asked[r].shared
           update == private \/ snap[r] # {}
       IN  \/ \E row \in Meant(r) :
                 update /\ Meant(r) = {row} /\ Stores(r, Written(r, row), {row})
           \/ Meant(r) \cap Of(job[r].user) = {} /\ (private \/ ~update)
                 /\ Stores(r, Inserted(r), {})
           \/ /\ IF update THEN Cardinality(Meant(r)) > 1
                          ELSE Meant(r) \cap Of(job[r].user) # {}
              /\ End(r, "error") /\ UNCHANGED <<rows, seen>>
    /\ UNCHANGED <<otherPackageVars, asked, listed>>

\* ------------------------------------------------- DeleteEntry, DeleteEntryShared
Look(r) ==
    /\ pc[r] = "look"
    /\ \E S \in OneOf(Meant(r)) :
          IF S = {} \/ Conflicts(r, S)
            THEN End(r, IF S = {} THEN "ok" ELSE "error")
            ELSE /\ Goto(r, "drop")
                 /\ snap' = [snap EXCEPT ![r] = S]
                 /\ UNCHANGED <<result, found>>
    /\ UNCHANGED <<otherPackageVars, rows, asked, seen, listed>>

\* DELETE .. WHERE version = the one just read.
AnyVersion(r, row) == TRUE
SameVersion(r, row) == \E cur \in snap[r] : row.version = cur.version
Drop(r) ==
    LET target == {row \in Meant(r) : SameVersion(r, row)} IN
    /\ pc[r] = "drop" /\ ~Locked(r, target)
    /\ rows' = rows \ target
    /\ End(r, IF target = {} THEN "error" ELSE "ok")
    /\ UNCHANGED <<otherPackageVars, asked, seen, listed>>

\* ------------------------------------------------------- GetEntry, ListEntries
Get(r) ==
    /\ pc[r] = "get"
    /\ \E S \in OneOf(Meant(r)) :
          seen' = [seen EXCEPT ![job[r].user] = IF S = {} THEN Nothing
                                               ELSE CHOOSE row \in S : TRUE]
    /\ End(r, "ok")
    /\ UNCHANGED <<otherPackageVars, rows, asked, listed>>

\* The rows of the collection behind the cursor, the lowest keys first; one more row than
\* the limit says that there is a next page.  Each page is a request of its own.
After(r, cursor) == {row \in Mine(r, rows) : row.key > cursor}
Cursor(r) == IF listed[r] = {} THEN 0 ELSE Max({row.key : row \in listed[r]})
PageByOffset(r) ==
    LET all == Mine(r, rows) IN
    {row \in all : Cardinality({o \in all : o.key < row.key}) >= Cardinality(listed[r])}
PageAfter(r) == After(r, Cursor(r))

Page(r) ==
    /\ pc[r] = "page"
    /\ LET rest == PageAfter(r) IN
       \E P \in SUBSET rest :
          /\ Cardinality(P) = Min({PageSize, Cardinality(rest)})
          /\ \A row \in P, o \in rest \ P : row.key <= o.key
          /\ listed' = [listed EXCEPT ![r] = @ \cup P]
          /\ IF P = rest THEN End(r, "ok")
                         ELSE Goto(r, "more") /\ UNCHANGED <<result, snap, found>>
    /\ UNCHANGED <<otherPackageVars, rows, asked, seen>>

NextPage(r) ==
    /\ pc[r] = "more"
    /\ IF AuthStorage(r, asked[r].coll)
         THEN /\ Goto(r, "page")
              /\ asked' = [asked EXCEPT ![r].shared = IsSharedMode(Mode(asked[r].coll))]
              /\ UNCHANGED <<result, snap, found>>
         ELSE End(r, "error") /\ UNCHANGED asked
    /\ UNCHANGED <<otherPackageVars, rows, seen, listed>>

\* The database fails or the client goes: the transaction is rolled back.
Abort(r) ==
    /\ pc[r] \in {"get", "lock", "sum", "save", "look", "drop", "page", "more"}
    /\ End(r, "error")
    /\ UNCHANGED <<otherPackageVars, rows, asked, seen, listed>>

\* --------------------------------------------------------------------- history
Saved(r) == pc[r] = "save" /\ result'[r] = "ok"
Watching ==
    /\ behind' = IF \E r \in Requests : Saved(r)
                 THEN {r \in Requests : pc'[r] = "save"} ELSE {r \in behind : pc'[r] = "save"}
    /\ stale' = (stale \/ \E r \in behind : Saved(r))
    /\ stayed' = [r \in Requests |->
                     IF pc[r] = "new" /\ pc'[r] = "page"
                       THEN {row.id : row \in {o \in rows : o.coll = asked'[r].coll /\
                                     (asked'[r].shared \/ o.owner = job[r].user)}}
                       ELSE stayed[r] \cap Ids(rows')]
    /\ modesHad' = [c \in Colls |-> modesHad[c] \cup ModesOf(c, program')]

DataStep(r) ==
    \/ GetEntry(r) \/ Get(r)
    \/ ListEntries(r) \/ Page(r) \/ NextPage(r)
    \/ PutEntry(r) \/ Lock(r) \/ Sum(r) \/ Save(r)
    \/ DeleteEntry(r) \/ Look(r) \/ Drop(r)
    \/ Abort(r)

MpInit == PackagesInit /\ DataInit
MpNext ==
    /\ \/ \E r \in Requests : DataStep(r)
       \/ (\E r \in Requests : PackageStep(r)) /\ UNCHANGED <<rows, asked, found, result, seen, listed>>
    /\ Watching

\* The transactions of the requests in flight are rolled back.
MpRestart ==
    /\ \E r \in Requests, signed \in BOOLEAN : Restart(r, signed)
    /\ found' = [r \in Requests |-> {}]
    /\ UNCHANGED <<rows, asked, result, seen, listed>>
    /\ Watching

\* ------------------------------------------------------------------ properties
DataTypeOK ==
    /\ PackageTypeOK
    /\ IsTable(rows)

OnlyShared(c) == c # "default" /\ "private" \notin modesHad[c]
OnlyPrivate(c) == modesHad[c] \subseteq {"private"}

\* A key of a collection that was never private has one row, however many users write it
\* for the first time at once (UpsertEntryShared's advisory lock).
OneRowPerSharedKey ==
    \A one, two \in rows :
        OnlyShared(one.coll) /\ one.coll = two.coll /\ one.key = two.key => one = two

\* Unless a write was overtaken between its sums and its commit, what is stored is within
\* the program's and every writer's quota (both upserts, with replacement and change of
\* owner).
QuotaHolds == ~stale => WithinQuota

\* A conditional write or deletion removes the content its user had read: the entry may
\* have been deleted and created anew since, but not overwritten.
ReplacesWhatWasRead ==
    [][\A r \in Requests :
        pc[r] \in {"save", "drop"} /\ result'[r] = "ok" /\ asked[r].basis # Nothing =>
            \A row \in rows \ rows' :
                row.id = asked[r].basis.id => row.value = asked[r].basis.value]_mpVars

\* A listing of several pages returns every row that was there from its first page to
\* its last, if the collection kept its mode.
ListingIsComplete ==
    \A r \in Requests :
        /\ job[r].op = "list" /\ result[r] = "ok"
        /\ OnlyShared(asked[r].coll) \/ OnlyPrivate(asked[r].coll)
        => stayed[r] \subseteq Ids(listed[r])
=============================================================================
