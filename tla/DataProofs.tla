------------------------------ MODULE DataProofs ------------------------------
(***************************************************************************)
(* Theorems about the cloud data of a mini program and the packages beside *)
(* it, for any requests, users, rows, sizes and quotas.  They rest on      *)
(* BackendProofs, which says whose step moves which handler.               *)
(***************************************************************************)
EXTENDS BackendProofs

(***************************************************************************)
(* Numbers and finite sets.                                                *)
(***************************************************************************)
LEMMA LeastNumber ==
    ASSUME NEW T \in SUBSET Nat, T # {} PROVE \E n \in T : \A m \in T : n <= m
  <1> DEFINE Less == {ss \in Nat \X Nat : ss[1] < ss[2]}
  <1>1. IsWellFoundedOn(Less, Nat)
    BY NatLessThanWellFounded DEF OpToRel
  <1>2. \A m, n \in T : n <= m \/ <<m, n>> \in Less
    OBVIOUS
  <1> HIDE DEF Less
  <1>3. \E n \in T : \A m \in T : ~ (<<m, n>> \in Less)
    <2>1. T \subseteq Nat
      OBVIOUS
    <2> QED
      BY <1>1, <2>1, WFMin, Zenon
  <1> QED
    BY <1>2, <1>3, Zenon

\* A finite set of numbers that is not empty has a largest one.
LEMMA MaxIsLargest ==
    ASSUME NEW S \in SUBSET Nat, IsFiniteSet(S), S # {}
    PROVE  Max(S) \in S /\ \A x \in S : x <= Max(S)
  <1> DEFINE HasMax(U) == \E x \in U : \A y \in U : x >= y
             Bad == {n \in Nat : \E U \in SUBSET Nat : /\ IsFiniteSet(U) /\ U # {}
                                                       /\ Cardinality(U) = n /\ ~HasMax(U)}
  <1>1. Bad = {}
    <2> SUFFICES ASSUME Bad # {} PROVE FALSE
      OBVIOUS
    <2>1. PICK n \in Bad : \A m \in Bad : n <= m
      BY LeastNumber
    <2>2. PICK U \in SUBSET Nat : IsFiniteSet(U) /\ U # {} /\ Cardinality(U) = n /\ ~HasMax(U)
      BY <2>1
    <2>3. PICK x \in U : TRUE
      BY <2>2
    <2> DEFINE V == U \ {x}
    <2>4. IsFiniteSet(V) /\ Cardinality(V) = n - 1 /\ V \in SUBSET Nat
      BY <2>2, <2>3, FS_RemoveElement
    <2>5. Cardinality(V) \in Nat
      BY <2>4, FS_CardinalityType
    <2>6. CASE V = {}
      <3>1. \A y \in U : x >= y
        BY <2>3, <2>6
      <3> QED
        BY <2>2, <2>3, <3>1
    <2>7. CASE V # {}
      <3>1. n - 1 \notin Bad
        BY <2>1, <2>4, <2>5
      <3>2. HasMax(V)
        BY <2>4, <2>5, <2>7, <3>1
      <3>3. PICK z \in V : \A y \in V : z >= y
        BY <3>2
      <3>4. z \in Nat /\ x \in Nat /\ \A y \in U : y = x \/ (y \in Nat /\ z >= y)
        BY <2>2, <3>3
      <3>5. CASE x >= z
        <4>1. \A y \in U : x >= y
          BY <3>4, <3>5
        <4> QED
          BY <2>2, <2>3, <4>1
      <3>6. CASE ~(x >= z)
        <4>1. z \in U /\ \A y \in U : z >= y
          BY <3>3, <3>4, <3>6
        <4> QED
          BY <2>2, <4>1
      <3> QED
        BY <3>5, <3>6
    <2> QED
      BY <2>6, <2>7
  <1>2. Cardinality(S) \in Nat
    BY FS_CardinalityType
  <1>3. HasMax(S)
    BY <1>1, <1>2
  <1>4. Max(S) \in S /\ \A y \in S : Max(S) >= y
    BY <1>3, Zenon DEF Max
  <1> QED
    BY <1>4

\* The bytes of a row, and what a sum does when a row comes or goes.
Units(row) == {row.id} \X (1..row.size)

LEMMA UnitsOfRow ==
    ASSUME NEW row, row.size \in Nat
    PROVE  IsFiniteSet(Units(row)) /\ Cardinality(Units(row)) = row.size
  <1>1. IsFiniteSet(1..row.size) /\ Cardinality(1..row.size) = row.size
    BY FS_Interval
  <1>2. IsFiniteSet({row.id}) /\ Cardinality({row.id}) = 1
    BY FS_Singleton
  <1> QED
    BY <1>1, <1>2, FS_Product DEF Units

Sized(S) == IsFiniteSet(S) /\ \A row \in S : row.size \in Nat
Spread(S) == UNION {Units(row) : row \in S}

LEMMA SpreadIsFinite ==
    ASSUME NEW S, Sized(S) PROVE IsFiniteSet(Spread(S)) /\ Bytes(S) = Cardinality(Spread(S)) /\ Bytes(S) \in Nat
  <1> DEFINE f == [row \in S |-> Units(row)]
             T == {Units(row) : row \in S}
  <1>1. f \in Surjection(S, T)
    BY DEF Surjection
  <1>2. IsFiniteSet(T)
    BY <1>1, FS_Surjection DEF Sized
  <1>3. \A U \in T : IsFiniteSet(U)
    BY UnitsOfRow DEF Sized
  <1>4. IsFiniteSet(UNION T)
    BY <1>2, <1>3, FS_UNION
  <1>5. Bytes(S) = Cardinality(UNION T)
    BY DEF Bytes, Units
  <1> QED
    BY <1>4, <1>5, FS_CardinalityType DEF Spread

LEMMA FewerBytes ==
    ASSUME NEW S, Sized(S), NEW T \in SUBSET S
    PROVE  Sized(T) /\ Bytes(T) <= Bytes(S) /\ Cardinality(T) <= Cardinality(S)
  <1>1. Sized(T) /\ Cardinality(T) <= Cardinality(S)
    BY FS_Subset DEF Sized
  <1>2. Spread(T) \subseteq Spread(S)
    BY DEF Spread
  <1> QED
    BY <1>1, <1>2, SpreadIsFinite, FS_Subset

LEMMA RowAdds ==
    ASSUME NEW S, Sized(S), NEW row, row.size \in Nat
    PROVE  /\ Sized(S \cup {row}) /\ Bytes(S \cup {row}) <= Bytes(S) + row.size
           /\ Cardinality(S \cup {row}) <= Cardinality(S) + 1
           /\ row.id \notin Ids(S) => Bytes(S \cup {row}) = Bytes(S) + row.size
           /\ Cardinality(S) \in Nat
  <1>1. Sized(S \cup {row}) /\ Cardinality(S \cup {row}) <= Cardinality(S) + 1 /\ Cardinality(S) \in Nat
    BY FS_AddElement, FS_CardinalityType DEF Sized
  <1>2. Spread(S \cup {row}) = Spread(S) \cup Units(row)
    BY DEF Spread
  <1>3. Cardinality(Spread(S) \cup Units(row)) = Bytes(S) + row.size - Cardinality(Spread(S) \cap Units(row))
    BY SpreadIsFinite, UnitsOfRow, FS_Union
  <1>4. IsFiniteSet(Spread(S) \cap Units(row)) /\ Cardinality(Spread(S) \cap Units(row)) \in Nat
    <2>1. IsFiniteSet(Spread(S) \cap Units(row))
      BY UnitsOfRow, FS_Subset
    <2> QED
      BY <2>1, FS_CardinalityType
  <1>5. row.id \notin Ids(S) => Cardinality(Spread(S) \cap Units(row)) = 0
    <2>1. row.id \notin Ids(S) => Spread(S) \cap Units(row) = {}
      BY DEF Spread, Units, Ids
    <2> QED
      BY <2>1, FS_EmptySet
  <1>6. Bytes(S \cup {row}) = Bytes(S) + row.size - Cardinality(Spread(S) \cap Units(row)) /\ Bytes(S) \in Nat
    BY <1>1, <1>2, <1>3, SpreadIsFinite
  <1> HIDE DEF Spread
  <1> QED
    BY <1>1, <1>4, <1>5, <1>6

LEMMA BytesOfOne ==
    ASSUME NEW row, row.size \in Nat PROVE Bytes({row}) = row.size /\ Bytes({}) = 0
  <1>1. Spread({row}) = Units(row) /\ Spread({}) = {}
    BY DEF Spread
  <1>2. Sized({row}) /\ Sized({})
    BY FS_Singleton, FS_EmptySet DEF Sized
  <1> QED
    BY <1>1, <1>2, SpreadIsFinite, UnitsOfRow, FS_EmptySet

(***************************************************************************)
(* The packages.  What is stored, or on its way there, has been validated. *)
(***************************************************************************)
PackagesInv ==
    /\ DOMAIN zip = Requests
    /\ \A r \in Requests :
          /\ pc[r] \in {"icon", "write"} =>
                zip[r] \in Packages /\ ValidatePackage(zip[r]) /\ job[r].user \in Users
          /\ pc[r] = "status" => job[r].op \in {"published", "disabled"}
    /\ program # Nothing =>
          /\ DOMAIN program = ProgramFields
          /\ program.id \in Requests /\ program.file \in Requests /\ program.owner \in Users
          /\ program.pkg \in Packages /\ ValidatePackage(program.pkg)
          /\ program.status \in {"private", "published", "disabled"}

LEMMA PackagesInvInit == Init => PackagesInv
  BY StartsAssumption
     DEF Init, HandlersInit, MpInit, PackagesInit, PackagesInv, ProgramFields

LEMMA PackagesInvStep ==
    ASSUME Ready, PackagesInv, job \in Jobs, NEW r \in Requests, PackageStep(r) PROVE PackagesInv'
  <1> USE DEF Ready, PackagesInv, ProgramFields, Goto, Keep, Is
  <1>1. ASSUME NEW p \in Packages, UploadCheck(r, p) PROVE PackagesInv'
    <2>1. \/ ValidatePackage(p) /\ job[r].user \in Users
          \/ UNCHANGED zip /\ pc'[r] = "done"
      BY <1>1, UploadersAssumption DEF UploadCheck, Accepts
    <2> QED
      BY <1>1, <2>1 DEF UploadCheck
  <1>2. CASE UploadIcon(r)
    BY <1>2 DEF UploadIcon
  <1>3. CASE UploadWrite(r)
    <2> DEFINE Sound(p) == /\ DOMAIN p = ProgramFields
                           /\ p.id \in Requests /\ p.file \in Requests /\ p.owner \in Users
                           /\ p.pkg \in Packages /\ ValidatePackage(p.pkg)
                           /\ p.status \in {"private", "published", "disabled"}
    <2>1. CASE program' = NewProgram(r)
      <3>1. Sound(NewProgram(r))
        BY <1>3 DEF UploadWrite, NewProgram
      <3> QED
        BY <1>3, <2>1, <3>1 DEF UploadWrite
    <2>2. CASE program # Nothing /\ program' = ReplaceVersion(r)
      <3>1. Sound(ReplaceVersion(r))
        BY <1>3, <2>2 DEF UploadWrite, ReplaceVersion
      <3> QED
        BY <1>3, <2>2, <3>1 DEF UploadWrite
    <2>3. CASE UNCHANGED program
      BY <1>3, <2>3 DEF UploadWrite
    <2> QED
      BY <1>3, <2>1, <2>2, <2>3 DEF UploadWrite, StillThere
  <1>4. CASE DeletePrivate(r)
    BY <1>4 DEF DeletePrivate
  <1>5. CASE StatusRead(r)
    BY <1>5 DEF StatusRead
  <1>6. CASE StatusWrite(r)
    BY <1>6 DEF StatusWrite, StillThere
  <1>7. CASE KeyRead(r) \/ KeyInsert(r)
    BY <1>7 DEF KeyRead, KeyInsert
  <1>8. CASE SignWrite(r)
    <2> DEFINE sig == [file |-> snap[r].file, key |-> held[r]]
    <2>1. program' = program \/ (program # Nothing /\ program' = [program EXCEPT !.sig = sig])
      BY <1>8 DEF SignWrite, StillThere
    <2> HIDE DEF sig
    <2> QED
      BY <1>8, <2>1 DEF SignWrite
  <1>9. CASE ListItem(r) \/ Install(r) \/ Fail(r)
    BY <1>9 DEF ListItem, Install, Fail
  <1> HIDE DEF Ready, PackagesInv, ProgramFields, Goto, Keep, Is
  <1> QED
    BY <1>1, <1>2, <1>3, <1>4, <1>5, <1>6, <1>7, <1>8, <1>9 DEF PackageStep

LEMMA PackagesInvNext ==
    ASSUME Ready, PackagesInv, job \in Jobs, [Next]_backendVars PROVE PackagesInv'
  <1>1. CASE \E r \in Requests : PackageStep(r)
    BY <1>1, PackagesInvStep
  <1>2. CASE ServerRestarts
    <2> DEFINE sig == [file |-> program.file, key |-> key']
    <2>1. program' = program \/ (program # Nothing /\ program' = [program EXCEPT !.sig = sig])
      BY <1>2 DEF ServerRestarts, MpRestart, Restart, Backfilled
    <2>2. zip' = zip /\ job' = job /\ \A r \in Requests : pc'[r] \in {"new", "done"}
      BY <1>2 DEF ServerRestarts, MpRestart, Restart
    <2> HIDE DEF sig
    <2> QED
      BY <2>1, <2>2 DEF PackagesInv, ProgramFields
  <1>3. CASE ~ServerRestarts /\ \A r \in Requests : ~PackageStep(r)
    BY <1>3, OthersSparePackages DEF Spares, packageVars, PackagesInv, PackageStages
  <1> QED
    BY <1>1, <1>2, <1>3

(***************************************************************************)
(* The sizes of a package.  Both sums are functions on the places of the   *)
(* entries: that they exist, and that they agree, is shown by the least    *)
(* place where they would not.                                             *)
(***************************************************************************)
Wraps(s, n, g) == g = [i \in 0..n |-> IF i = 0 THEN 0 ELSE (g[i - 1] + s[i]) % Word]
Adds(s, n, g) == g = [i \in 0..n |-> IF i = 0 THEN 0 ELSE g[i - 1] + s[i]]

LEMMA SumsExist ==
    ASSUME NEW s, NEW L \in Nat PROVE (\E g : Wraps(s, L, g)) /\ (\E g : Adds(s, L, g))
  <1> DEFINE Bad == {n \in Nat : ~((\E g : Wraps(s, n, g)) /\ (\E g : Adds(s, n, g)))}
  <1>1. ASSUME Bad # {} PROVE FALSE
    <2>1. PICK n \in Bad : \A m \in Bad : n <= m
      BY <1>1, LeastNumber
    <2>2. CASE n = 0
      <3> DEFINE g == [i \in 0..n |-> 0]
      <3>1. \A i \in 0..n : i = 0
        BY <2>2
      <3>2. Wraps(s, n, g) /\ Adds(s, n, g)
        BY <3>1 DEF Wraps, Adds
      <3> QED
        BY <3>2
    <2>3. CASE n # 0
      <3>1. n - 1 \in Nat /\ n - 1 \notin Bad
        BY <2>1, <2>3
      <3>2. PICK h : Wraps(s, n - 1, h)
        BY <3>1
      <3>3. PICK k : Adds(s, n - 1, k)
        BY <3>1
      <3> DEFINE g == [i \in 0..n |-> IF i = n THEN (h[n - 1] + s[n]) % Word ELSE h[i]]
                 f == [i \in 0..n |-> IF i = n THEN k[n - 1] + s[n] ELSE k[i]]
      <3>4. \A i \in 0..n : i = n \/ i \in 0..(n - 1)
        BY <3>1
      <3>5. \A i \in 0..(n - 1) : /\ h[i] = (IF i = 0 THEN 0 ELSE (h[i - 1] + s[i]) % Word)
                                  /\ k[i] = (IF i = 0 THEN 0 ELSE k[i - 1] + s[i])
        BY <3>2, <3>3 DEF Wraps, Adds
      <3>6. \A i \in 0..n : i # 0 => g[i - 1] = h[i - 1] /\ f[i - 1] = k[i - 1]
        BY <3>1
      <3>7. \A i \in 0..n : /\ g[i] = (IF i = 0 THEN 0 ELSE (g[i - 1] + s[i]) % Word)
                            /\ f[i] = (IF i = 0 THEN 0 ELSE f[i - 1] + s[i])
        BY <2>3, <3>4, <3>5, <3>6
      <3>8. g = [i \in 0..n |-> g[i]] /\ f = [i \in 0..n |-> f[i]]
        OBVIOUS
      <3> HIDE DEF g, f
      <3>9. Wraps(s, n, g) /\ Adds(s, n, f)
        BY <3>7, <3>8 DEF Wraps, Adds
      <3> QED
        BY <3>9
    <2> QED
      BY <2>2, <2>3
  <1> QED
    BY <1>1

LEMMA Unwrapped == ASSUME NEW x \in Nat, NEW w \in Nat, x < w PROVE x % w = x
  OBVIOUS

\* What the first pass over the entries admits, really fits: its sum never wraps.
LEMMA FitsTruly ==
    ASSUME NEW s \in Seq(0..(Word - 1)), Fits(s)
    PROVE  LET total[n \in 0..Len(s)] == IF n = 0 THEN 0 ELSE total[n - 1] + s[n]
           IN  total[Len(s)] <= MaxBytes
  <1> DEFINE L == Len(s)
             t == CHOOSE g : Wraps(s, L, g)
             u == CHOOSE g : Adds(s, L, g)
  <1>1. L \in Nat /\ \A n \in 1..L : s[n] \in 0..(Word - 1)
    <2>1. \A S : s \in Seq(S) => Len(s) \in Nat /\ \A n \in 1..Len(s) : s[n] \in S
      OBVIOUS
    <2> QED
      BY <2>1, Zenon
  <1>2. Wraps(s, L, t) /\ Adds(s, L, u)
    BY <1>1, SumsExist
  <1>3. \A n \in 1..L : s[n] <= MaxBytes /\ t[n - 1] <= (MaxBytes - s[n]) % Word
    BY DEF Fits, Wraps
  <1> SUFFICES u[L] <= MaxBytes
    BY DEF Adds
  <1> HIDE DEF t, u
  <1>4. Word \in Nat /\ MaxBytes \in Nat /\ MaxBytes < Word
    BY BytesAssumption
  <1> DEFINE Wrong == {n \in 0..L : ~(u[n] \in Nat /\ u[n] <= MaxBytes /\ t[n] = u[n])}
  <1>5. ASSUME Wrong # {} PROVE FALSE
    <2>1. Wrong \in SUBSET Nat
      BY <1>1
    <2>2. PICK n \in Wrong : \A m \in Wrong : n <= m
      BY <1>5, <2>1, LeastNumber
    <2>3. n # 0
      BY <1>1, <1>2, <1>4, <2>2 DEF Wraps, Adds
    <2>4. n \in 1..L /\ n - 1 \in 0..L /\ n - 1 \notin Wrong
      BY <1>1, <2>2, <2>3
    <2>5. u[n - 1] \in Nat /\ u[n - 1] <= MaxBytes /\ t[n - 1] = u[n - 1]
      BY <2>4
    <2>6. u[n] = u[n - 1] + s[n] /\ t[n] = (t[n - 1] + s[n]) % Word
      BY <1>2, <2>3, <2>4 DEF Wraps, Adds
    <2>7. s[n] \in Nat /\ s[n] <= MaxBytes /\ MaxBytes - s[n] \in Nat /\ MaxBytes - s[n] < Word
      BY <1>1, <1>3, <1>4, <2>4
    <2>8. u[n - 1] <= MaxBytes - s[n]
      BY <1>3, <1>4, <2>4, <2>5, <2>7, Unwrapped
    <2>9. u[n] \in Nat /\ u[n] <= MaxBytes /\ u[n] < Word
      BY <1>4, <2>5, <2>6, <2>7, <2>8
    <2>10. t[n] = u[n]
      BY <1>4, <2>5, <2>6, <2>9, Unwrapped
    <2> QED
      BY <2>2, <2>9, <2>10
  <1>6. L \in 0..L
    BY <1>1
  <1> QED
    BY <1>5, <1>6

(***************************************************************************)
(* What the requests for data rely on.                                     *)
(***************************************************************************)
AskedFields == {"coll", "key", "size", "basis", "shared"}
Writing == {"lock", "sum", "save"}

\* A request's stage says what it is for; what it asks is complete once it is admitted;
\* it has no answer before it is done.
StageInv ==
    /\ DOMAIN asked = Requests /\ DOMAIN found = Requests /\ DOMAIN result = Requests
    /\ DOMAIN listed = Requests /\ DOMAIN seen = Users /\ DOMAIN modesHad = Colls
    /\ \A r \in Requests :
          /\ pc[r] = "get" => job[r].op = "get"
          /\ pc[r] \in Writing => job[r].op = "put" /\ asked[r].key \in Nat \ {0}
          /\ pc[r] \in {"look", "drop"} => job[r].op = "remove"
          /\ pc[r] \in {"page", "more"} => job[r].op = "list"
          /\ pc[r] \in DataStages =>
                /\ DOMAIN asked[r] = AskedFields /\ asked[r].coll \in Colls
                /\ asked[r].size \in Nat /\ asked[r].shared \in BOOLEAN
          /\ result[r] # "none" => pc[r] = "done"
          /\ pc[r] = "new" => listed[r] = {}

\* The mode a request was admitted under is among those its collection has had.
ModeInv ==
    /\ \A c \in Colls : ModesOf(c, program) \subseteq modesHad[c]
    /\ \A r \in Requests : pc[r] \in DataStages =>
          /\ OnlyShared(asked[r].coll) => asked[r].shared
          /\ OnlyPrivate(asked[r].coll) => ~asked[r].shared

(***************************************************************************)
(* Whose step it is: one request's step over the data, or one that leaves  *)
(* the data and the requests under way with it alone.                      *)
(***************************************************************************)
Elsewhere ==
    /\ Spares(DataStages)
    /\ UNCHANGED <<rows, asked, result, seen, listed>>
    /\ DOMAIN found' = DOMAIN found
    /\ \A r \in Requests : pc'[r] \in DataStages => found'[r] = found[r]
    /\ Watching \/ UNCHANGED <<program, behind, stale, stayed, modesHad>>

LEMMA DataCases ==
    ASSUME Ready, StageInv, [Next]_backendVars
    PROVE  Elsewhere \/ \E r \in Requests : DataStep(r) /\ Watching
  <1>1. ASSUME NEW r \in Requests, PackageStep(r), UNCHANGED <<rows, asked, found, result, seen, listed>>, Watching
        PROVE  Elsewhere
    BY <1>1, PackageMoves, MovesSpare DEF PackageStages, DataStages, Elsewhere
  <1>2. ASSUME UNCHANGED mpVars, Spares(DataStages) PROVE Elsewhere
    BY <1>2 DEF mpVars, packageVars, dataVars, Elsewhere
  <1>3. CASE PeopleNext /\ UNCHANGED mpVars
    <2>1. ASSUME NEW r \in Requests, FriendStep(r) PROVE Spares(DataStages)
      BY <2>1, FriendMoves, MovesSpare DEF FriendStages, DataStages
    <2>2. ASSUME NEW r \in Requests, AgentStep(r) PROVE Spares(DataStages)
      BY <2>2, AgentMoves, MovesSpare DEF AgentStages, DataStages
    <2>3. ASSUME NEW r \in Requests, RoomStep(r) PROVE Spares(DataStages)
      BY <2>3, RoomMoves, MovesSpare DEF RoomStages, DataStages
    <2>4. ASSUME TicketsAge PROVE Spares(DataStages)
      <3>1. UNCHANGED handlerVars
        BY <2>4 DEF TicketsAge, DeleteExpired, Ages
      <3> QED
        BY <3>1, StaySpares
    <2>5. ASSUME NEW l \in loads, LoadStep(l) PROVE Spares(DataStages)
      BY <2>5, LoadsStay, StaySpares
    <2> QED
      BY <1>2, <1>3, <2>1, <2>2, <2>3, <2>4, <2>5 DEF PeopleNext, LoadStep
  <1>4. ASSUME NEW r \in Requests, SessionStep(r), UNCHANGED mpVars PROVE Elsewhere
    BY <1>2, <1>4, SessionMoves, MovesSpare DEF SessionStages, DataStages
  <1>5. CASE ServerRestarts
    <2>1. Spares(DataStages)
      BY <1>5, RestartSpares DEF DataStages
    <2>2. \A r \in Requests : pc'[r] \notin DataStages
      BY <1>5 DEF ServerRestarts, MpRestart, Restart, DataStages
    <2> QED
      BY <1>5, <2>1, <2>2 DEF ServerRestarts, MpRestart, Elsewhere, StageInv
  <1>6. CASE UNCHANGED backendVars
    BY <1>2, <1>6, StaySpares DEF backendVars
  <1> QED
    BY <1>1, <1>3, <1>4, <1>5, <1>6 DEF Next, MpNext

\* A step over the data is of one request: the others keep what they have and where they are.
Keeps(r) ==
    /\ DOMAIN asked' = Requests /\ DOMAIN found' = Requests /\ DOMAIN result' = Requests
    /\ DOMAIN listed' = Requests
    /\ \A o \in Requests \ {r} : /\ asked'[o] = asked[o] /\ found'[o] = found[o]
                                 /\ result'[o] = result[o] /\ listed'[o] = listed[o]
Alone(r) ==
    /\ job' = job /\ program' = program /\ zip' = zip
    /\ DOMAIN pc' = Requests /\ DOMAIN snap' = Requests
    /\ pc[r] \in DataStages \cup {"new"} /\ pc'[r] \in DataStages \cup {"done"}
    /\ \A o \in Requests \ {r} : pc'[o] = pc[o] /\ snap'[o] = snap[o]
    /\ Keeps(r)

LEMMA DataStepIsAlone ==
    ASSUME Ready, StageInv, NEW r \in Requests, DataStep(r) PROVE Alone(r)
  <1>1. Moves(r, DataStages, DataStages) /\ UNCHANGED otherPackageVars
    BY DataMoves
  <1>2. Keeps(r)
    <2> USE DEF StageInv, Keeps, End
    <2>1. ASSUME NEW first, NEW c, NEW k, NEW size, NEW basis, Admit(r, first, c, k, size, basis)
          PROVE  Keeps(r)
      BY <2>1 DEF Admit
    <2>2. CASE GetEntry(r) \/ PutEntry(r) \/ DeleteEntry(r) \/ ListEntries(r)
      BY <2>1, <2>2 DEF GetEntry, PutEntry, DeleteEntry, ListEntries
    <2>3. CASE Lock(r) \/ Sum(r) \/ Look(r)
      BY <2>3 DEF Lock, Sum, Look
    <2>4. CASE Save(r)
      BY <2>4 DEF Save, Stores
    <2>5. CASE Drop(r) \/ Get(r) \/ Abort(r)
      BY <2>5 DEF Drop, Get, Abort
    <2>6. CASE Page(r) \/ NextPage(r)
      BY <2>6 DEF Page, NextPage
    <2> QED
      BY <2>2, <2>3, <2>4, <2>5, <2>6 DEF DataStep
  <1> QED
    BY <1>1, <1>2 DEF Moves, otherPackageVars, Alone

(* ------------------------------------------------------- stages and modes *)
LEMMA StageInvInit == Init => StageInv
  BY DEF Init, HandlersInit, MpInit, DataInit, StageInv, Writing, DataStages

LEMMA StageInvElsewhere == ASSUME Ready, StageInv, Elsewhere PROVE StageInv'
  <1>1. job' = job /\ DOMAIN pc' = Requests
        /\ \A r \in Requests : /\ pc'[r] \in DataStages \cup {"new"} => pc'[r] = pc[r]
                               /\ pc[r] = "done" => pc'[r] = "done"
    BY DEF Elsewhere, Spares
  <1>2. DOMAIN modesHad' = Colls
    BY DEF Elsewhere, Watching, StageInv
  <1> QED
    BY <1>1, <1>2 DEF Elsewhere, StageInv, Writing, DataStages

LEMMA StageInvData ==
    ASSUME Ready, StageInv, NEW r \in Requests, DataStep(r), Watching PROVE StageInv'
  <1>1. Alone(r)
    BY DataStepIsAlone
  <1>2. DOMAIN seen' = Users /\ DOMAIN modesHad' = Colls
    <2>1. DOMAIN modesHad' = Colls
      BY DEF Watching
    <2>2. \/ seen' = seen \/ \E row : seen' = [seen EXCEPT ![job[r].user] = row]
      <3>1. CASE GetEntry(r) \/ PutEntry(r) \/ DeleteEntry(r) \/ ListEntries(r)
        BY <3>1 DEF GetEntry, PutEntry, DeleteEntry, ListEntries, Admit
      <3>2. CASE Lock(r) \/ Sum(r) \/ Look(r) \/ Drop(r) \/ Abort(r) \/ Page(r) \/ NextPage(r)
        BY <3>2 DEF Lock, Sum, Look, Drop, Abort, Page, NextPage
      <3>3. CASE Get(r) \/ Save(r)
        BY <3>3 DEF Get, Save, Stores
      <3> QED
        BY <3>1, <3>2, <3>3 DEF DataStep
    <2> QED
      BY <2>1, <2>2 DEF StageInv
  <1> DEFINE Staged(o) ==
          /\ pc'[o] = "get" => job[o].op = "get"
          /\ pc'[o] \in Writing => job[o].op = "put" /\ asked'[o].key \in Nat \ {0}
          /\ pc'[o] \in {"look", "drop"} => job[o].op = "remove"
          /\ pc'[o] \in {"page", "more"} => job[o].op = "list"
          /\ pc'[o] \in DataStages =>
                /\ DOMAIN asked'[o] = AskedFields /\ asked'[o].coll \in Colls
                /\ asked'[o].size \in Nat /\ asked'[o].shared \in BOOLEAN
          /\ result'[o] # "none" => pc'[o] = "done"
          /\ pc'[o] = "new" => listed'[o] = {}
  <1>3. \A o \in Requests \ {r} : Staged(o)
    BY <1>1 DEF Alone, Keeps, StageInv
  <1>4. Staged(r)
    <2> USE DEF Writing, DataStages, Goto, Ready, StageInv
    <2>1. ASSUME NEW first, NEW c \in Colls, NEW k \in Nat, NEW size \in Nat, NEW basis,
                 Admit(r, first, c, k, size, basis)
          PROVE  /\ result'[r] = "none" /\ pc'[r] \in {first, "done"}
                 /\ pc'[r] # "done" => /\ DOMAIN asked'[r] = AskedFields /\ asked'[r].coll = c
                                       /\ asked'[r].key = k /\ asked'[r].size = size
                                       /\ asked'[r].shared \in BOOLEAN
      <3> DEFINE ask == [coll |-> c, key |-> k, size |-> size, basis |-> basis,
                         shared |-> IsSharedMode(Mode(c))]
      <3>1. DOMAIN ask = AskedFields /\ ask.coll = c /\ ask.key = k /\ ask.size = size /\ ask.shared \in BOOLEAN
        BY DEF AskedFields, IsSharedMode
      <3>2. result'[r] = "none" /\ pc'[r] \in {first, "done"}
        BY <2>1 DEF Admit
      <3>3. pc'[r] # "done" => asked' = [asked EXCEPT ![r] = ask]
        BY <2>1 DEF Admit
      <3> HIDE DEF ask
      <3> QED
        BY <3>1, <3>2, <3>3
    <2>2. CASE GetEntry(r) \/ PutEntry(r) \/ DeleteEntry(r) \/ ListEntries(r)
      <3>1. Keys \subseteq Nat \ {0} /\ Sizes \subseteq Nat /\ 0 \in Nat
        BY EntriesAssumption
      <3>2. CASE GetEntry(r)
        BY <2>1, <3>1, <3>2 DEF GetEntry
      <3>3. CASE PutEntry(r)
        <4>1. PICK c \in Colls, k \in Keys, size \in Sizes : \E basis \in Bases(job[r].user, c, k) :
                      Admit(r, "lock", c, k, size, basis)
          BY <3>3 DEF PutEntry
        <4> QED
          BY <2>1, <3>1, <3>3, <4>1 DEF PutEntry
      <3>4. CASE DeleteEntry(r)
        <4>1. PICK c \in Colls, k \in Keys : \E basis \in Bases(job[r].user, c, k) :
                      Admit(r, "look", c, k, 0, basis)
          BY <3>4 DEF DeleteEntry
        <4> QED
          BY <2>1, <3>1, <3>4, <4>1 DEF DeleteEntry
      <3>5. CASE ListEntries(r)
        BY <2>1, <3>1, <3>5 DEF ListEntries
      <3> QED
        BY <2>2, <3>2, <3>3, <3>4, <3>5
    <2>3. CASE NextPage(r)
      <3> DEFINE shared == IsSharedMode(Mode(asked[r].coll))
      <3>1. shared \in BOOLEAN
        BY DEF IsSharedMode
      <3>2. asked' = asked \/ asked' = [asked EXCEPT ![r].shared = shared]
        BY <2>3 DEF NextPage
      <3>3. pc[r] = "more" /\ pc'[r] \in {"page", "done"}
            /\ (result'[r] = "none" \/ pc'[r] = "done")
        BY <2>3 DEF NextPage, End
      <3> HIDE DEF shared
      <3> QED
        BY <3>1, <3>2, <3>3 DEF AskedFields
    <2>4. CASE Lock(r) \/ Sum(r) \/ Save(r)
      BY <2>4 DEF Lock, Sum, Save, Stores, End
    <2>5. CASE Look(r) \/ Drop(r) \/ Get(r) \/ Abort(r) \/ Page(r)
      BY <2>5 DEF Look, Drop, Get, Abort, Page, End
    <2> QED
      BY <2>2, <2>3, <2>4, <2>5 DEF DataStep
  <1> QED
    BY <1>1, <1>2, <1>3, <1>4 DEF StageInv, Alone, Keeps

LEMMA ModeInvInit == Init => ModeInv
  BY DEF Init, HandlersInit, MpInit, DataInit, ModeInv, DataStages

\* A collection's modes are not forgotten.
LEMMA ModesGrow ==
    ASSUME StageInv, Watching \/ UNCHANGED modesHad
    PROVE  /\ \A c \in Colls : modesHad[c] \subseteq modesHad'[c]
           /\ \A c \in Colls : OnlyShared(c)' => OnlyShared(c)
           /\ \A c \in Colls : OnlyPrivate(c)' => OnlyPrivate(c)
  BY DEF Watching, StageInv, OnlyShared, OnlyPrivate

LEMMA ModeInvElsewhere == ASSUME Ready, StageInv, ModeInv, Elsewhere PROVE ModeInv'
  <1>1. /\ \A c \in Colls : OnlyShared(c)' => OnlyShared(c)
        /\ \A c \in Colls : OnlyPrivate(c)' => OnlyPrivate(c)
    BY ModesGrow DEF Elsewhere
  <1>2. \A c \in Colls : ModesOf(c, program') \subseteq modesHad'[c]
    BY DEF Elsewhere, Watching, ModeInv
  <1>3. \A r \in Requests : pc'[r] \in DataStages =>
            pc[r] \in DataStages /\ asked'[r] = asked[r] /\ asked[r].coll \in Colls
    BY DEF Elsewhere, Spares, StageInv
  <1> QED
    BY <1>1, <1>2, <1>3 DEF ModeInv, OnlyShared, OnlyPrivate

\* The mode that a request's check has found.
LEMMA ModeFound ==
    ASSUME StageInv, ModeInv, PackagesInv, NEW r \in Requests, NEW c \in Colls, AuthStorage(r, c),
           Watching, program' = program
    PROVE  /\ OnlyShared(c)' => IsSharedMode(Mode(c))
           /\ OnlyPrivate(c)' => ~IsSharedMode(Mode(c))
  <1>1. OnlyShared(c)' => c # "default" /\ "private" \notin modesHad[c]
    BY ModesGrow DEF OnlyShared
  <1>2. OnlyPrivate(c)' => modesHad[c] \subseteq {"private"}
    BY ModesGrow DEF OnlyPrivate
  <1>3. CASE c = "default"
    BY <1>1, <1>3 DEF Mode, IsSharedMode
  <1>4. CASE c # "default"
    <2>1. program # Nothing /\ c \in DOMAIN program.pkg.modes
      BY <1>4 DEF AuthStorage
    <2>2. Mode(c) \in modesHad[c]
      BY <1>4, <2>1 DEF ModeInv, ModesOf, Mode
    <2>3. Mode(c) \in {"private", "shared_read", "shared_write"}
      BY <1>4, <2>1, ModesAssumption DEF PackagesInv, ValidatePackage, Mode
    <2> QED
      BY <1>1, <1>2, <2>2, <2>3 DEF IsSharedMode
  <1> QED
    BY <1>3, <1>4

LEMMA ModeInvData ==
    ASSUME Ready, StageInv, ModeInv, PackagesInv, NEW r \in Requests, DataStep(r), Watching PROVE ModeInv'
  <1>1. Alone(r)
    BY DataStepIsAlone
  <1>2. /\ \A c \in Colls : OnlyShared(c)' => OnlyShared(c)
        /\ \A c \in Colls : OnlyPrivate(c)' => OnlyPrivate(c)
    BY ModesGrow
  <1>3. \A c \in Colls : ModesOf(c, program') \subseteq modesHad'[c]
    BY DEF Watching
  <1> DEFINE Settled(o) == pc'[o] \in DataStages =>
                              /\ OnlyShared(asked[o].coll)' => asked'[o].shared
                              /\ OnlyPrivate(asked[o].coll)' => ~asked'[o].shared
  <1>4. ASSUME NEW o \in Requests, asked'[o] = asked[o], pc'[o] \in DataStages => pc[o] \in DataStages
        PROVE  Settled(o)
    BY <1>2, <1>4 DEF StageInv, ModeInv, OnlyShared, OnlyPrivate
  <1>5. \A o \in Requests \ {r} : Settled(o)
    BY <1>1, <1>4 DEF Alone, Keeps
  <1>6. Settled(r)
    <2>1. ASSUME NEW first, NEW c \in Colls, NEW k, NEW size, NEW basis, Admit(r, first, c, k, size, basis)
          PROVE  Settled(r)
      <3> DEFINE ask == [coll |-> c, key |-> k, size |-> size, basis |-> basis,
                         shared |-> IsSharedMode(Mode(c))]
      <3>1. ask.coll = c /\ ask.shared = IsSharedMode(Mode(c))
        OBVIOUS
      <3>2. pc'[r] \in DataStages => asked' = [asked EXCEPT ![r] = ask] /\ AuthStorage(r, c)
        BY <2>1 DEF Admit, Goto, Ready, DataStages
      <3> HIDE DEF ask
      <3> QED
        BY <1>1, <3>1, <3>2, ModeFound DEF StageInv, Alone, OnlyShared, OnlyPrivate
    <2>2. CASE GetEntry(r) \/ PutEntry(r) \/ DeleteEntry(r) \/ ListEntries(r)
      BY <2>1, <2>2 DEF GetEntry, PutEntry, DeleteEntry, ListEntries
    <2>3. CASE NextPage(r)
      <3> DEFINE c == asked[r].coll
                 shared == IsSharedMode(Mode(c))
      <3>1. c \in Colls /\ DOMAIN asked[r] = AskedFields
        BY <2>3 DEF NextPage, StageInv, DataStages
      <3>2. pc'[r] \in DataStages => asked' = [asked EXCEPT ![r].shared = shared] /\ AuthStorage(r, c)
        BY <2>3 DEF NextPage, End, Goto, Ready, DataStages
      <3>3. pc'[r] \in DataStages => asked'[r].coll = c /\ asked'[r].shared = shared
        <4> HIDE DEF shared
        <4> QED
          BY <3>1, <3>2 DEF StageInv, AskedFields
      <3> QED
        BY <1>1, <3>1, <3>2, <3>3, ModeFound DEF Alone, OnlyShared, OnlyPrivate
    <2>4. CASE asked' = asked /\ pc[r] # "new"
      BY <1>1, <1>4, <2>4 DEF Alone
    <2>5. CASE Lock(r) \/ Sum(r) \/ Look(r) \/ Drop(r) \/ Abort(r) \/ Page(r) \/ Get(r) \/ Save(r)
      BY <2>4, <2>5 DEF Lock, Sum, Look, Drop, Abort, Page, Get, Save
    <2> QED
      BY <2>2, <2>3, <2>5 DEF DataStep
  <1> QED
    BY <1>1, <1>3, <1>5, <1>6 DEF ModeInv, OnlyShared, OnlyPrivate

(***************************************************************************)
(* The table: a row has an id of its own, and one owner, collection and    *)
(* key.  A write takes the id of its request, which no row has until then. *)
(***************************************************************************)
Unsaved == {r \in Requests : job[r].op = "put" /\ pc[r] # "done"}
TableInv == job \in Jobs /\ IsTable(rows) /\ \A row \in rows : row.id \notin Unsaved

RowFields == {"id", "owner", "coll", "key", "size", "version", "value"}

\* What a write that succeeds leaves: a row of its own in the place of what it replaces.
Writes(r, old, row) ==
    /\ rows' = (rows \ old) \cup {row} /\ seen' = [seen EXCEPT ![job[r].user] = row]
    /\ DOMAIN row = RowFields
    /\ row.owner = job[r].user /\ row.coll = asked[r].coll /\ row.key = asked[r].key
    /\ row.size = asked[r].size
    /\ \/ /\ old = {} /\ row.id = r /\ row.version = 1
          /\ Meant(r) \cap Of(job[r].user) = {}
          /\ asked[r].shared => snap[r] = {}
       \/ \E cur \in rows : /\ old = {cur} /\ Meant(r) = {cur}
                            /\ row.id = cur.id /\ row.version = cur.version + 1
                            /\ asked[r].shared => snap[r] # {}

LEMMA SaveWrites ==
    ASSUME Ready, StageInv, TableInv, NEW r \in Requests, Save(r)
    PROVE  /\ pc[r] = "save" /\ pc'[r] = "done" /\ asked' = asked /\ listed' = listed
           /\ ~Locked(r, Meant(r))
           /\ \/ result'[r] = "error" /\ rows' = rows /\ seen' = seen
              \/ result'[r] = "ok" /\ \E old, row : Writes(r, old, row)
  <1>1. /\ pc[r] = "save" /\ pc'[r] = "done" /\ asked' = asked /\ listed' = listed
        /\ ~Locked(r, Meant(r))
    BY DEF Save, Stores, End, Goto, Ready
  <1>2. ASSUME NEW cur \in Meant(r), ~asked[r].shared \/ snap[r] # {}, Meant(r) = {cur},
               Stores(r, Written(r, cur), {cur})
        PROVE  result'[r] = "ok" /\ Writes(r, {cur}, Written(r, cur))
    <2>1. cur \in rows /\ DOMAIN cur = RowFields
      BY <1>2 DEF Meant, Mine, TableInv, IsTable, RowFields
    <2> DEFINE row == Written(r, cur)
    <2>2. /\ DOMAIN row = RowFields /\ row.id = cur.id /\ row.owner = job[r].user /\ row.coll = cur.coll
          /\ row.key = cur.key /\ row.size = asked[r].size /\ row.version = cur.version + 1
      BY <2>1 DEF Written, RowFields
    <2>3. cur.coll = asked[r].coll /\ cur.key = asked[r].key
      BY DEF Meant, Mine
    <2>4. result'[r] = "ok" /\ rows' = (rows \ {cur}) \cup {row} /\ seen' = [seen EXCEPT ![job[r].user] = row]
      BY <1>2 DEF Stores, End, StageInv
    <2> HIDE DEF row
    <2>5. Writes(r, {cur}, row)
      BY <1>2, <2>1, <2>2, <2>3, <2>4 DEF Writes
    <2> QED
      BY <2>4, <2>5 DEF row
  <1>3. ASSUME Meant(r) \cap Of(job[r].user) = {}, asked[r].shared => snap[r] = {},
               Stores(r, Inserted(r), {})
        PROVE  result'[r] = "ok" /\ Writes(r, {}, Inserted(r))
    <2> DEFINE row == Inserted(r)
    <2>1. /\ DOMAIN row = RowFields /\ row.id = r /\ row.owner = job[r].user /\ row.coll = asked[r].coll
          /\ row.key = asked[r].key /\ row.size = asked[r].size /\ row.version = 1
      BY DEF Inserted, RowFields
    <2>2. result'[r] = "ok" /\ rows' = (rows \ {}) \cup {row} /\ seen' = [seen EXCEPT ![job[r].user] = row]
      BY <1>3 DEF Stores, End, StageInv
    <2> HIDE DEF row
    <2>3. Writes(r, {}, row)
      BY <1>3, <2>1, <2>2 DEF Writes
    <2> QED
      BY <2>2, <2>3 DEF row
  <1>4. ASSUME End(r, "error"), UNCHANGED <<rows, seen>>
        PROVE  result'[r] = "error" /\ rows' = rows /\ seen' = seen
    BY <1>4 DEF End, StageInv
  <1>5. asked[r].shared \in BOOLEAN
    BY <1>1 DEF StageInv, DataStages
  <1> QED
    BY <1>1, <1>2, <1>3, <1>4, <1>5 DEF Save

\* What a step over the data does to the rows.
LEMMA RowsCases ==
    ASSUME Ready, StageInv, TableInv, NEW r \in Requests, DataStep(r)
    PROVE  \/ Save(r)
           \/ Drop(r)
           \/ rows' = rows /\ pc[r] # "save" /\ pc[r] # "drop"
           \/ rows' = rows /\ result'[r] # "ok" /\ pc'[r] = "done" /\ seen' = seen
  <1>1. CASE GetEntry(r) \/ PutEntry(r) \/ DeleteEntry(r) \/ ListEntries(r)
    BY <1>1 DEF GetEntry, PutEntry, DeleteEntry, ListEntries, Admit
  <1>2. CASE Lock(r) \/ Sum(r) \/ Look(r) \/ Page(r) \/ NextPage(r) \/ Get(r)
    BY <1>2 DEF Lock, Sum, Look, Page, NextPage, Get
  <1>3. CASE Abort(r)
    BY <1>3 DEF Abort, End, Goto, Ready, StageInv
  <1> QED
    BY <1>1, <1>2, <1>3 DEF DataStep

LEMMA UnsavedShrinks ==
    ASSUME Ready, StageInv, Elsewhere \/ \E r \in Requests : DataStep(r)
    PROVE  Unsaved' \subseteq Unsaved /\ job' = job
  <1>1. CASE Elsewhere
    BY <1>1 DEF Elsewhere, Spares, Unsaved
  <1>2. ASSUME NEW r \in Requests, DataStep(r) PROVE Unsaved' \subseteq Unsaved /\ job' = job
    BY <1>2, DataStepIsAlone DEF Alone, Unsaved, DataStages
  <1> QED
    BY <1>1, <1>2

LEMMA TableInvInit == Init => TableInv
  BY FirstRowsAssumption DEF Init, HandlersInit, MpInit, DataInit, TableInv, Unsaved

LEMMA TableInvElsewhere == ASSUME Ready, StageInv, TableInv, Elsewhere PROVE TableInv'
  <1>1. rows' = rows
    BY DEF Elsewhere
  <1> QED
    BY <1>1, UnsavedShrinks DEF TableInv, IsTable

LEMMA TableInvData ==
    ASSUME Ready, StageInv, TableInv, NEW r \in Requests, DataStep(r) PROVE TableInv'
  <1>1. CASE rows' = rows
    BY <1>1, UnsavedShrinks DEF TableInv, IsTable
  <1>2. CASE rows' \subseteq rows
    <2>1. IsFiniteSet(rows')
      BY <1>2, FS_Subset DEF TableInv, IsTable
    <2> QED
      BY <1>2, <2>1, UnsavedShrinks DEF TableInv, IsTable
  <1>3. ASSUME NEW old, NEW row, Writes(r, old, row), pc[r] = "save", pc'[r] = "done"
        PROVE  TableInv'
    <2>1. /\ job[r].op = "put" /\ job[r].user \in Users /\ r \in Unsaved /\ r \notin Unsaved'
          /\ asked[r].coll \in Colls /\ asked[r].key \in Nat \ {0} /\ asked[r].size \in Nat
      BY <1>3, WritersAssumption DEF StageInv, Writing, DataStages, TableInv, Unsaved
    <2>2. IsFiniteSet(rows')
      <3>1. IsFiniteSet(rows \ old)
        BY FS_Difference DEF TableInv, IsTable
      <3> QED
        BY <1>3, <3>1, FS_AddElement DEF Writes
    <2>3. row.version \in Nat \ {0}
      BY <1>3 DEF Writes, TableInv, IsTable
    <2>4. row.id \notin Unsaved'
      BY <1>3, <2>1, UnsavedShrinks DEF Writes, TableInv
    <2>5. ASSUME NEW o \in rows \ old
          PROVE  o.id # row.id /\ <<o.owner, o.coll, o.key>> # <<row.owner, row.coll, row.key>>
      <3>1. o.id # row.id
        BY <1>3, <2>1, <2>5 DEF Writes, TableInv, IsTable
      <3>2. ASSUME o.owner = row.owner, o.coll = row.coll, o.key = row.key PROVE FALSE
        <4>1. o \in Meant(r) /\ o \in Of(job[r].user)
          BY <1>3, <2>5, <3>2 DEF Writes, Meant, Mine, Of
        <4> QED
          BY <1>3, <2>5, <4>1 DEF Writes
      <3> QED
        BY <3>1, <3>2
    <2>6. \A o \in rows' : o = row \/ o \in rows \ old
      BY <1>3 DEF Writes
    <2>7. \A o \in rows' : /\ DOMAIN o = RowFields /\ o.owner \in Users /\ o.coll \in Colls
                           /\ o.key \in Nat \ {0} /\ o.size \in Nat /\ o.version \in Nat \ {0}
                           /\ o.id \notin Unsaved'
      BY <1>3, <2>1, <2>3, <2>4, <2>6, UnsavedShrinks DEF Writes, TableInv, IsTable, RowFields
    <2>8. \A one, two \in rows' : \/ one = two
                                  \/ /\ one.id # two.id
                                     /\ <<one.owner, one.coll, one.key>> # <<two.owner, two.coll, two.key>>
      BY <2>5, <2>6 DEF TableInv, IsTable
    <2> QED
      BY <2>2, <2>7, <2>8, UnsavedShrinks DEF TableInv, IsTable, RowFields
  <1>4. CASE Save(r)
    BY <1>1, <1>3, <1>4, SaveWrites
  <1>5. CASE Drop(r)
    BY <1>2, <1>5 DEF Drop
  <1> QED
    BY <1>1, <1>4, <1>5, RowsCases

(***************************************************************************)
(* The locks of a write, and what a request has read.                      *)
(***************************************************************************)
\* A write holds the row it has read, at the version its condition names; a deletion has
\* only read it.
Holds(r) ==
    /\ snap[r] = {} \/ \E cur \in Meant(r) : snap[r] = {cur}
    /\ Ids(snap[r]) \subseteq found[r]
    /\ asked[r].basis # Nothing => \E cur \in snap[r] : cur.version = asked[r].basis.version
Knows(r) ==
    /\ \E cur : snap[r] = {cur}
    /\ asked[r].basis # Nothing => \A cur \in snap[r] : cur.version = asked[r].basis.version
LockInv ==
    /\ \A r \in InWrite : Holds(r)
    /\ \A r \in Requests : pc[r] = "drop" => Knows(r)

\* One writer at a time has a shared key.  Nobody makes a second row of it meanwhile.
SharedInv ==
    /\ \A r, o \in InWrite : asked[r].shared /\ asked[o].shared /\ asked[r].coll = asked[o].coll
                             /\ asked[r].key = asked[o].key => o = r
    /\ \A r \in InWrite : asked[r].shared /\ OnlyShared(asked[r].coll) /\ snap[r] = {} => Meant(r) = {}
    /\ OneRowPerSharedKey

\* What somebody has read is of a row as it was: since then it has only got new versions.
Faithful(copy) ==
    /\ copy.version \in Nat /\ copy.id \notin Unsaved
    /\ \A row \in rows : row.id = copy.id => /\ copy.version <= row.version
                                             /\ row.version = copy.version => row.value = copy.value
CopyInv ==
    /\ \A u \in Users : seen[u] # Nothing => Faithful(seen[u])
    /\ \A r \in Requests : pc[r] \in DataStages /\ asked[r].basis # Nothing => Faithful(asked[r].basis)

LEMMA LocksInit == Init => LockInv /\ SharedInv /\ CopyInv
  <1> SUFFICES ASSUME Init PROVE LockInv /\ SharedInv /\ CopyInv
    OBVIOUS
  <1>1. \A r \in Requests : pc[r] = "new"
    BY DEF Init, HandlersInit
  <1>2. OneRowPerSharedKey
    <2>1. ASSUME NEW one \in rows, NEW two \in rows, one.coll = two.coll, one.key = two.key, one # two
          PROVE  "private" \in modesHad[one.coll]
      <3>1. one.coll \in Colls
        BY TableInvInit DEF TableInv, IsTable
      <3>2. "private" \in ModeLeft(one.coll)
        BY <2>1 DEF ModeLeft
      <3> QED
        BY <3>1, <3>2 DEF Init, MpInit, DataInit
    <2> QED
      BY <2>1 DEF OneRowPerSharedKey, OnlyShared
  <1>3. \A u \in Users : seen[u] = Nothing
    BY DEF Init, MpInit, DataInit
  <1> QED
    BY <1>1, <1>2, <1>3 DEF LockInv, SharedInv, CopyInv, InWrite, DataStages

LEMMA LocksElsewhere ==
    ASSUME Ready, StageInv, TableInv, LockInv, SharedInv, CopyInv, Elsewhere
    PROVE  LockInv' /\ SharedInv' /\ CopyInv'
  <1>1. /\ rows' = rows /\ asked' = asked /\ seen' = seen /\ job' = job
        /\ \A r \in Requests : pc'[r] \in DataStages => /\ pc[r] = pc'[r] /\ snap'[r] = snap[r]
                                                        /\ found'[r] = found[r]
    BY DEF Elsewhere, Spares
  <1>2. \A c \in Colls : OnlyShared(c)' => OnlyShared(c)
    BY ModesGrow DEF Elsewhere
  <1>3. Unsaved' \subseteq Unsaved
    BY UnsavedShrinks
  <1>4. InWrite' \subseteq InWrite /\ \A r \in InWrite' : /\ snap'[r] = snap[r] /\ found'[r] = found[r]
                                                          /\ asked[r].coll \in Colls
    BY <1>1 DEF InWrite, DataStages, StageInv
  <1>5. \A r \in InWrite' : Meant(r)' = Meant(r)
    BY <1>1 DEF Meant, Mine
  <1>6. LockInv'
    <2>1. ASSUME NEW r \in Requests, pc'[r] = "drop" PROVE Knows(r)'
      <3>1. pc[r] = "drop" /\ snap'[r] = snap[r] /\ asked'[r] = asked[r]
        BY <1>1, <2>1 DEF DataStages
      <3> QED
        BY <3>1 DEF LockInv, Knows
    <2>2. ASSUME NEW r \in InWrite' PROVE Holds(r)'
      <3>1. Holds(r) /\ snap'[r] = snap[r] /\ found'[r] = found[r] /\ asked'[r] = asked[r] /\ Meant(r)' = Meant(r)
        BY <1>1, <1>4, <1>5, <2>2 DEF LockInv
      <3> QED
        BY <3>1 DEF Holds, Ids
    <2> QED
      BY <2>1, <2>2 DEF LockInv
  <1>7. OneRowPerSharedKey'
    <2>1. \A row \in rows : OnlyShared(row.coll)' => OnlyShared(row.coll)
      BY <1>2 DEF TableInv, IsTable, OnlyShared
    <2> QED
      BY <1>1, <2>1 DEF SharedInv, OneRowPerSharedKey, OnlyShared
  <1>8. SharedInv'
    BY <1>1, <1>2, <1>4, <1>5, <1>7 DEF SharedInv, OnlyShared
  <1>9. CopyInv'
    BY <1>1, <1>3 DEF CopyInv, Faithful
  <1> QED
    BY <1>6, <1>8, <1>9

\* What a write has locked stays as it is while the others go on.
LEMMA LockedStays ==
    ASSUME Ready, StageInv, TableInv, LockInv, NEW r \in Requests, DataStep(r),
           NEW o \in InWrite \ {r}, NEW cur \in Meant(o), snap[o] = {cur}
    PROVE  cur \in Meant(o)'
  <1>1. cur.id \in found[o] /\ cur \in rows
    BY DEF LockInv, Holds, Ids, Meant, Mine
  <1>2. asked'[o] = asked[o] /\ job' = job
    BY DataStepIsAlone DEF InWrite, Alone, Keeps
  <1>3. cur \in rows'
    <2>1. ASSUME Save(r), NEW old, NEW row, Writes(r, old, row) PROVE cur \in rows'
      <3>1. ~Locked(r, Meant(r))
        BY <2>1, SaveWrites
      <3>2. cur \notin Meant(r)
        BY <1>1, <3>1 DEF Locked, Ids
      <3> QED
        BY <1>1, <2>1, <3>2 DEF Writes
    <2>2. CASE Drop(r)
      <3> DEFINE target == {row \in Meant(r) : SameVersion(r, row)}
      <3>1. ~Locked(r, target) /\ rows' = rows \ target
        BY <2>2 DEF Drop
      <3>2. cur \notin target
        <4> HIDE DEF target
        <4> QED
          BY <1>1, <3>1 DEF Locked, Ids
      <3> QED
        BY <1>1, <3>1, <3>2
    <2> QED
      BY <1>1, <2>1, <2>2, RowsCases, SaveWrites
  <1> QED
    BY <1>2, <1>3 DEF Meant, Mine

LEMMA LockInvData ==
    ASSUME Ready, StageInv, TableInv, LockInv, NEW r \in Requests, DataStep(r) PROVE LockInv'
  <1>1. Alone(r)
    BY DataStepIsAlone
  <1>2. ASSUME NEW o \in InWrite' \ {r} PROVE Holds(o)'
    <2>1. o \in InWrite \ {r} /\ snap'[o] = snap[o] /\ found'[o] = found[o] /\ asked'[o] = asked[o]
      BY <1>1, <1>2 DEF Alone, Keeps, InWrite
    <2>2. snap[o] = {} \/ \E cur \in Meant(o)' : snap[o] = {cur}
      BY <2>1, LockedStays DEF LockInv, Holds
    <2>3. Holds(o)
      BY <2>1 DEF LockInv
    <2> QED
      BY <2>1, <2>2, <2>3 DEF Holds, Ids
  <1>3. ASSUME NEW o \in Requests \ {r}, pc'[o] = "drop" PROVE Knows(o)'
    <2>1. pc[o] = "drop" /\ snap'[o] = snap[o] /\ asked'[o] = asked[o]
      BY <1>1, <1>3 DEF Alone, Keeps
    <2> QED
      BY <2>1 DEF LockInv, Knows
  <1>4. ASSUME r \in InWrite' PROVE Holds(r)'
    <2>1. CASE Lock(r)
      <3>1. /\ pc'[r] = "sum" /\ rows' = rows /\ asked' = asked /\ job' = job
        BY <1>1, <1>4, <2>1 DEF Lock, End, Goto, Ready, InWrite, Alone
      <3>2. PICK S \in OneOf(Meant(r)) :
                 ~Conflicts(r, S) /\ snap' = [snap EXCEPT ![r] = S] /\ found' = [found EXCEPT ![r] = Ids(Meant(r))]
        BY <2>1, <3>1 DEF Lock, End, Goto, Ready
      <3>3. Meant(r)' = Meant(r)
        BY <3>1 DEF Meant, Mine
      <3>4. snap'[r] = S /\ found'[r] = Ids(Meant(r)) /\ asked'[r] = asked[r]
        BY <3>1, <3>2 DEF Ready, StageInv
      <3>5. S = {} \/ \E cur \in Meant(r) : S = {cur}
        BY <3>2 DEF OneOf
      <3> QED
        BY <3>2, <3>3, <3>4, <3>5 DEF Holds, Conflicts, Ids
    <2>2. CASE Sum(r)
      <3>1. /\ pc[r] = "sum" /\ rows' = rows /\ asked' = asked /\ job' = job /\ snap' = snap /\ found' = found
        BY <1>1, <1>4, <2>2 DEF Sum, End, Goto, Ready, InWrite, Alone
      <3>2. Meant(r)' = Meant(r) /\ Holds(r)
        BY <3>1 DEF Meant, Mine, InWrite, LockInv
      <3> QED
        BY <3>1, <3>2 DEF Holds, Ids
    <2>3. CASE GetEntry(r) \/ PutEntry(r) \/ DeleteEntry(r) \/ ListEntries(r)
      BY <1>4, <2>3 DEF GetEntry, PutEntry, DeleteEntry, ListEntries, Admit, Goto, Ready, InWrite
    <2>4. CASE Save(r)
      BY <1>4, <2>4, SaveWrites DEF InWrite
    <2>5. CASE Look(r) \/ Drop(r) \/ Get(r) \/ Abort(r) \/ Page(r) \/ NextPage(r)
      BY <1>4, <2>5 DEF Look, Drop, Get, Abort, Page, NextPage, End, Goto, Ready, InWrite
    <2> QED
      BY <2>1, <2>2, <2>3, <2>4, <2>5 DEF DataStep
  <1>5. ASSUME pc'[r] = "drop" PROVE Knows(r)'
    <2>1. CASE Look(r)
      <3>1. asked' = asked
        BY <2>1 DEF Look
      <3>2. PICK S \in OneOf(Meant(r)) : S # {} /\ ~Conflicts(r, S) /\ snap' = [snap EXCEPT ![r] = S]
        BY <1>5, <2>1 DEF Look, End, Goto, Ready
      <3>3. snap'[r] = S
        BY <3>2 DEF Ready
      <3>4. \E cur : S = {cur}
        BY <3>2 DEF OneOf
      <3> QED
        BY <3>1, <3>2, <3>3, <3>4 DEF Knows, Conflicts
    <2>2. CASE GetEntry(r) \/ PutEntry(r) \/ DeleteEntry(r) \/ ListEntries(r)
      BY <1>5, <2>2 DEF GetEntry, PutEntry, DeleteEntry, ListEntries, Admit, Goto, Ready
    <2>3. CASE Lock(r) \/ Sum(r) \/ Save(r)
      BY <1>5, <2>3, SaveWrites DEF Lock, Sum, End, Goto, Ready
    <2>4. CASE Drop(r) \/ Get(r) \/ Abort(r) \/ Page(r) \/ NextPage(r)
      BY <1>5, <2>4 DEF Drop, Get, Abort, Page, NextPage, End, Goto, Ready
    <2> QED
      BY <2>1, <2>2, <2>3, <2>4 DEF DataStep
  <1> QED
    BY <1>2, <1>3, <1>4, <1>5 DEF LockInv

\* Who has just become a writer of a key, or goes on to be one.
LEMMA WritersAre ==
    ASSUME Ready, StageInv, TableInv, NEW r \in Requests, DataStep(r)
    PROVE  /\ \A o \in InWrite' \ {r} : /\ o \in InWrite /\ asked'[o] = asked[o] /\ snap'[o] = snap[o]
           /\ r \in InWrite' => /\ rows' = rows /\ asked' = asked /\ Meant(r)' = Meant(r)
                                /\ \/ /\ ~KeyTaken(r) /\ r \notin InWrite
                                      /\ snap'[r] = {} => Meant(r) = {}
                                   \/ r \in InWrite /\ snap'[r] = snap[r]
  <1>1. Alone(r)
    BY DataStepIsAlone
  <1>2. \A o \in InWrite' \ {r} : /\ o \in InWrite /\ asked'[o] = asked[o] /\ snap'[o] = snap[o]
    BY <1>1 DEF Alone, Keeps, InWrite
  <1>3. ASSUME r \in InWrite'
        PROVE  /\ rows' = rows /\ asked' = asked /\ Meant(r)' = Meant(r)
               /\ \/ /\ ~KeyTaken(r) /\ r \notin InWrite
                     /\ snap'[r] = {} => Meant(r) = {}
                  \/ r \in InWrite /\ snap'[r] = snap[r]
    <2>1. CASE Lock(r)
      <3>1. /\ pc[r] = "lock" /\ pc'[r] = "sum" /\ rows' = rows /\ asked' = asked /\ job' = job /\ ~KeyTaken(r)
        BY <1>1, <1>3, <2>1 DEF Lock, End, Goto, Ready, InWrite, Alone
      <3>2. PICK S \in OneOf(Meant(r)) : snap' = [snap EXCEPT ![r] = S]
        BY <2>1, <3>1 DEF Lock, End, Goto, Ready
      <3>3. snap'[r] = {} => Meant(r) = {}
        BY <3>2 DEF OneOf, Ready
      <3>4. Meant(r)' = Meant(r) /\ r \notin InWrite
        BY <3>1 DEF Meant, Mine, InWrite
      <3> QED
        BY <3>1, <3>3, <3>4
    <2>2. CASE Sum(r)
      <3>1. /\ pc[r] = "sum" /\ rows' = rows /\ asked' = asked /\ job' = job /\ snap' = snap
        BY <1>1, <1>3, <2>2 DEF Sum, End, Goto, Ready, InWrite, Alone
      <3>2. Meant(r)' = Meant(r) /\ r \in InWrite
        BY <3>1 DEF Meant, Mine, InWrite
      <3> QED
        BY <3>1, <3>2
    <2>3. CASE GetEntry(r) \/ PutEntry(r) \/ DeleteEntry(r) \/ ListEntries(r)
      BY <1>3, <2>3 DEF GetEntry, PutEntry, DeleteEntry, ListEntries, Admit, Goto, Ready, InWrite
    <2>4. CASE Save(r)
      BY <1>3, <2>4, SaveWrites DEF InWrite
    <2>5. CASE Look(r) \/ Drop(r) \/ Get(r) \/ Abort(r) \/ Page(r) \/ NextPage(r)
      BY <1>3, <2>5 DEF Look, Drop, Get, Abort, Page, NextPage, End, Goto, Ready, InWrite
    <2> QED
      BY <2>1, <2>2, <2>3, <2>4, <2>5 DEF DataStep
  <1> QED
    BY <1>2, <1>3

LEMMA SharedInvData ==
    ASSUME Ready, StageInv, TableInv, ModeInv, PackagesInv, SharedInv, NEW r \in Requests, DataStep(r), Watching
    PROVE  SharedInv'
  <1>1. /\ \A c \in Colls : OnlyShared(c)' => OnlyShared(c)
        /\ \A o \in Requests : pc[o] \in DataStages => asked[o].coll \in Colls
    BY ModesGrow DEF StageInv
  <1>2. /\ \A o \in InWrite' \ {r} : /\ o \in InWrite /\ asked'[o] = asked[o] /\ snap'[o] = snap[o]
        /\ r \in InWrite' => /\ rows' = rows /\ asked' = asked /\ Meant(r)' = Meant(r)
                             /\ \/ /\ ~KeyTaken(r) /\ r \notin InWrite
                                   /\ snap'[r] = {} => Meant(r) = {}
                                \/ r \in InWrite /\ snap'[r] = snap[r]
    BY WritersAre
  <1>3. ASSUME NEW o \in InWrite', NEW q \in InWrite', asked'[o].shared, asked'[q].shared,
               asked'[o].coll = asked'[q].coll, asked'[o].key = asked'[q].key
        PROVE  q = o
    <2>1. CASE r \notin {o, q} \/ r \in InWrite
      BY <1>2, <1>3, <2>1 DEF SharedInv
    <2>2. CASE r \in {o, q} /\ r \notin InWrite
      BY <1>2, <1>3, <2>2 DEF KeyTaken
    <2> QED
      BY <2>1, <2>2
  \* A new row of a key that is only shared comes from the one writer of that key.
  <1>4. ASSUME NEW o \in Requests, Save(o), o = r, NEW old, NEW row, Writes(r, old, row),
               OnlyShared(row.coll)'
        PROVE  /\ asked[r].shared /\ r \in InWrite
               /\ old = {} => Meant(r) = {}
               /\ \A q \in Meant(r) : q \in old
    <2>1. pc[r] = "save" /\ row.coll = asked[r].coll /\ row.key = asked[r].key
      BY <1>4, SaveWrites DEF Writes
    <2>2. OnlyShared(asked[r].coll) /\ asked[r].shared /\ r \in InWrite
      BY <1>1, <1>4, <2>1 DEF ModeInv, InWrite, DataStages, OnlyShared
    <2> QED
      BY <1>4, <2>2 DEF Writes, SharedInv
  <1>5. ASSUME NEW o \in InWrite', asked'[o].shared, OnlyShared(asked[o].coll)', snap'[o] = {}
        PROVE  Meant(o)' = {}
    <2>1. CASE o = r
      <3>1. asked[r].coll \in Colls /\ asked'[r] = asked[r]
        BY <1>2, <1>5, <2>1, StageInvData DEF StageInv, DataStages, InWrite
      <3>2. OnlyShared(asked[r].coll)
        BY <1>1, <1>5, <2>1, <3>1 DEF OnlyShared
      <3> QED
        BY <1>2, <1>5, <2>1, <3>1, <3>2 DEF SharedInv
    <2>2. CASE o # r
      <3>1. o \in InWrite /\ asked'[o] = asked[o] /\ snap[o] = {} /\ job' = job /\ asked[o].coll \in Colls
        BY <1>1, <1>2, <1>5, <2>2, DataStepIsAlone DEF Alone, InWrite, DataStages
      <3>2. OnlyShared(asked[o].coll) /\ asked[o].shared
        BY <1>1, <1>5, <3>1 DEF OnlyShared
      <3>3. Meant(o) = {}
        BY <3>1, <3>2 DEF SharedInv
      <3>4. CASE rows' \subseteq rows
        BY <3>1, <3>3, <3>4 DEF Meant, Mine
      <3>5. ASSUME Save(r), NEW old, NEW row, Writes(r, old, row) PROVE row \notin Meant(o)'
        <4>1. SUFFICES ASSUME row \in Meant(o)' PROVE FALSE
          OBVIOUS
        <4>2. row.coll = asked[o].coll /\ row.key = asked[o].key
          BY <3>1, <4>1 DEF Meant, Mine
        <4>3. OnlyShared(row.coll)'
          BY <1>5, <3>1, <4>2 DEF OnlyShared
        <4>4. asked[r].shared /\ r \in InWrite
          BY <1>4, <3>5, <4>3
        <4>5. row.coll = asked[r].coll /\ row.key = asked[r].key
          BY <3>5 DEF Writes
        <4>6. asked[r].coll = asked[o].coll /\ asked[r].key = asked[o].key
          BY <4>2, <4>5
        <4>7. r = o
          BY <3>1, <3>2, <4>4, <4>6, Zenon DEF SharedInv
        <4> QED
          BY <2>2, <4>7
      <3>6. ASSUME Save(r), NEW old, NEW row, Writes(r, old, row) PROVE Meant(o)' = {}
        <4>1. \A q \in rows : q \notin Meant(o)'
          BY <3>1, <3>3 DEF Meant, Mine
        <4>2. \A q \in rows' : q \notin Meant(o)'
          BY <3>5, <3>6, <4>1 DEF Writes
        <4> QED
          BY <4>2 DEF Meant, Mine
      <3> QED
        BY <3>4, <3>6, RowsCases, SaveWrites DEF Drop
    <2> QED
      BY <2>1, <2>2
  <1>6. OneRowPerSharedKey'
    <2>1. \A row \in rows : OnlyShared(row.coll)' => OnlyShared(row.coll)
      BY <1>1 DEF TableInv, IsTable, OnlyShared
    <2>2. CASE rows' \subseteq rows
      BY <2>1, <2>2 DEF SharedInv, OneRowPerSharedKey, OnlyShared
    <2>3. ASSUME Save(r), NEW old, NEW row, Writes(r, old, row) PROVE OneRowPerSharedKey'
      <3>1. ASSUME OnlyShared(row.coll)', NEW q \in rows \ old PROVE ~(q.coll = row.coll /\ q.key = row.key)
        <4>1. asked[r].shared /\ \A p \in Meant(r) : p \in old
          BY <1>4, <2>3, <3>1
        <4> QED
          BY <2>3, <3>1, <4>1 DEF Writes, Meant, Mine
      <3>2. \A q \in rows' : q = row \/ q \in rows \ old
        BY <2>3 DEF Writes
      <3> QED
        BY <2>1, <3>1, <3>2 DEF SharedInv, OneRowPerSharedKey, OnlyShared
    <2> QED
      BY <2>2, <2>3, RowsCases, SaveWrites DEF Drop
  <1> QED
    BY <1>3, <1>5, <1>6 DEF SharedInv

\* Copies stay faithful while rows are replaced by newer versions, or go.
LEMMA CopiesStay ==
    ASSUME Ready, StageInv, TableInv, NEW r \in Requests, DataStep(r), NEW copy, Faithful(copy)
    PROVE  Faithful(copy)'
  <1>1. Unsaved' \subseteq Unsaved
    BY UnsavedShrinks
  <1>2. CASE rows' \subseteq rows
    BY <1>1, <1>2 DEF Faithful
  <1>3. ASSUME Save(r), NEW old, NEW row, Writes(r, old, row) PROVE Faithful(copy)'
    <2>1. r \in Unsaved
      BY <1>3, SaveWrites DEF Unsaved, StageInv, Writing
    <2>2. row.id = copy.id => /\ copy.version <= row.version
                              /\ row.version = copy.version => row.value = copy.value
      <3>1. CASE row.id = r
        BY <2>1, <3>1 DEF Faithful
      <3>2. ASSUME NEW cur \in rows, row.id = cur.id, row.version = cur.version + 1, row.id = copy.id
            PROVE  copy.version <= row.version /\ row.version # copy.version
        <4>1. cur.version \in Nat
          BY DEF TableInv, IsTable
        <4>2. copy.version \in Nat /\ copy.version <= cur.version
          BY <3>2 DEF Faithful
        <4> QED
          BY <3>2, <4>1, <4>2
      <3> QED
        BY <1>3, <3>1, <3>2 DEF Writes
    <2> QED
      BY <1>1, <1>3, <2>2 DEF Faithful, Writes
  <1> QED
    BY <1>2, <1>3, RowsCases, SaveWrites DEF Drop

\* A row that is read now is a faithful copy of itself.
LEMMA RowsAreFaithful ==
    ASSUME TableInv, NEW row \in rows PROVE Faithful(row)
  BY DEF TableInv, IsTable, Faithful

LEMMA CopyInvData ==
    ASSUME Ready, StageInv, TableInv, CopyInv, NEW r \in Requests, DataStep(r), Watching PROVE CopyInv'
  <1>1. Alone(r)
    BY DataStepIsAlone
  <1>2. TableInv'
    BY TableInvData
  <1>3. ASSUME NEW u \in Users, seen'[u] # Nothing PROVE Faithful(seen[u])'
    <2>1. ASSUME seen'[u] \in rows' PROVE Faithful(seen[u])'
      <3>1. ASSUME NEW row, row \in rows' PROVE Faithful(row)'
        BY <1>2, <3>1 DEF TableInv, IsTable, Faithful
      <3> QED
        BY <2>1, <3>1 DEF Faithful
    <2>2. ASSUME seen'[u] = seen[u] PROVE Faithful(seen[u])'
      <3>1. Faithful(seen[u])
        BY <1>3, <2>2 DEF CopyInv
      <3>2. \A copy : copy = seen[u] => Faithful(copy)'
        BY <3>1, CopiesStay
      <3> QED
        BY <2>2, <3>2 DEF Faithful
    <2>3. seen'[u] = seen[u] \/ seen'[u] \in rows'
      <3>1. CASE GetEntry(r) \/ PutEntry(r) \/ DeleteEntry(r) \/ ListEntries(r)
        BY <3>1 DEF GetEntry, PutEntry, DeleteEntry, ListEntries, Admit
      <3>2. CASE Lock(r) \/ Sum(r) \/ Look(r) \/ Drop(r) \/ Abort(r) \/ Page(r) \/ NextPage(r)
        BY <3>2 DEF Lock, Sum, Look, Drop, Abort, Page, NextPage
      <3>3. CASE Get(r)
        <4>1. PICK S \in OneOf(Meant(r)) :
                   seen' = [seen EXCEPT ![job[r].user] = IF S = {} THEN Nothing ELSE CHOOSE row \in S : TRUE]
          BY <3>3 DEF Get
        <4> DEFINE got == CHOOSE row \in S : TRUE
        <4>2. S # {} => got \in S
          OBVIOUS
        <4>3. S # {} => got \in rows'
          BY <3>3, <4>1, <4>2 DEF OneOf, Meant, Mine, Get
        <4>4. seen'[u] = seen[u] \/ seen'[u] = Nothing \/ (S # {} /\ seen'[u] = got)
          BY <4>1 DEF StageInv
        <4> HIDE DEF got
        <4> QED
          BY <1>3, <4>3, <4>4
      <3>4. CASE Save(r)
        BY <3>4, SaveWrites DEF Writes, StageInv
      <3> QED
        BY <3>1, <3>2, <3>3, <3>4 DEF DataStep
    <2> QED
      BY <2>1, <2>2, <2>3
  <1>4. ASSUME NEW o \in Requests, pc'[o] \in DataStages, asked'[o].basis # Nothing
        PROVE  Faithful(asked[o].basis)'
    <2>1. ASSUME NEW copy, asked'[o].basis = copy, Faithful(copy) PROVE Faithful(asked[o].basis)'
      BY <2>1, CopiesStay DEF Faithful
    <2>2. ASSUME pc[o] \in DataStages, asked'[o].basis = asked[o].basis
          PROVE  Faithful(asked[o].basis)'
      BY <1>4, <2>1, <2>2 DEF CopyInv
    <2>3. CASE o # r
      BY <1>1, <1>4, <2>2, <2>3 DEF Alone, Keeps
    <2>4. CASE o = r /\ pc[r] # "new"
      <3>1. asked' = asked \/ \E b : asked' = [asked EXCEPT ![r].shared = b]
        <4>1. CASE GetEntry(r) \/ PutEntry(r) \/ DeleteEntry(r) \/ ListEntries(r)
          BY <2>4, <4>1 DEF GetEntry, PutEntry, DeleteEntry, ListEntries, Admit
        <4>2. CASE Lock(r) \/ Sum(r) \/ Look(r) \/ Drop(r) \/ Abort(r) \/ Page(r) \/ Get(r) \/ Save(r)
          BY <4>2 DEF Lock, Sum, Look, Drop, Abort, Page, Get, Save
        <4>3. CASE NextPage(r)
          BY <4>3 DEF NextPage
        <4> QED
          BY <4>1, <4>2, <4>3 DEF DataStep
      <3>2. pc[r] \in DataStages /\ DOMAIN asked[r] = AskedFields
        BY <1>1, <2>4 DEF Alone, StageInv
      <3>3. asked'[r].basis = asked[r].basis
        BY <3>1, <3>2 DEF AskedFields, StageInv
      <3> QED
        BY <2>2, <2>4, <3>2, <3>3
    <2>5. CASE o = r /\ pc[r] = "new"
      <3>1. ASSUME NEW first, NEW c, NEW k, NEW size, NEW basis, Admit(r, first, c, k, size, basis)
            PROVE  asked'[r].basis = basis
        <4> DEFINE ask == [coll |-> c, key |-> k, size |-> size, basis |-> basis,
                           shared |-> IsSharedMode(Mode(c))]
        <4>1. ask.basis = basis
          OBVIOUS
        <4>2. asked' = [asked EXCEPT ![r] = ask]
          BY <1>4, <2>5, <3>1 DEF Admit, Goto, Ready, DataStages
        <4> HIDE DEF ask
        <4> QED
          BY <4>1, <4>2 DEF StageInv
      <3>2. CASE GetEntry(r) \/ ListEntries(r)
        BY <1>4, <2>5, <3>1, <3>2 DEF GetEntry, ListEntries
      <3>3. CASE PutEntry(r) \/ DeleteEntry(r)
        <4>1. \E c, k : \E basis \in Bases(job[r].user, c, k) : asked'[r].basis = basis
          BY <3>1, <3>3 DEF PutEntry, DeleteEntry
        <4>2. asked'[r].basis = seen[job[r].user] /\ seen[job[r].user] # Nothing
          BY <1>4, <2>5, <4>1 DEF Bases
        <4>3. job[r].user \in Users
          BY <3>3, WritersAssumption DEF PutEntry, DeleteEntry, TableInv
        <4> QED
          BY <2>1, <2>5, <4>2, <4>3 DEF CopyInv
      <3>4. CASE Lock(r) \/ Sum(r) \/ Look(r) \/ Save(r) \/ Drop(r) \/ Get(r) \/ Abort(r) \/ Page(r) \/ NextPage(r)
        BY <2>5, <3>4 DEF Lock, Sum, Look, Save, Drop, Get, Abort, Page, NextPage
      <3> QED
        BY <3>2, <3>3, <3>4 DEF DataStep
    <2> QED
      BY <2>3, <2>4, <2>5
  <1> QED
    BY <1>3, <1>4 DEF CopyInv

(***************************************************************************)
(* The quotas.  A write that nobody has overtaken since its sums may still *)
(* be made, whatever is deleted meanwhile.                                 *)
(***************************************************************************)
QuotaInv ==
    /\ \A r \in Requests : pc[r] = "save" /\ r \notin behind => WithinApp(r) /\ WithinMine(r)
    /\ QuotaHolds

LEMMA QuotaInvInit == Init => QuotaInv
  BY DEF Init, HandlersInit, MpInit, DataInit, QuotaInv, QuotaHolds

LEMMA RowsAreSized ==
    ASSUME TableInv, NEW S \in SUBSET rows PROVE Sized(S)
  BY FS_Subset DEF TableInv, IsTable, Sized

\* Fewer rows keep within the quotas, and leave room for a write.
LEMMA RoomStays ==
    ASSUME TableInv, LockInv, rows' \subseteq rows, job' = job
    PROVE  /\ WithinQuota => WithinQuota'
           /\ \A r \in InWrite :
                 /\ asked[r].size \in Nat /\ asked'[r] = asked[r] /\ snap'[r] = snap[r]
                 /\ WithinApp(r) /\ WithinMine(r)
                 => WithinApp(r)' /\ WithinMine(r)'
  <1>1. ASSUME NEW S \in SUBSET rows, NEW T \in SUBSET S
        PROVE  /\ Bytes(T) \in Nat /\ Bytes(S) \in Nat /\ Cardinality(T) \in Nat /\ Cardinality(S) \in Nat
               /\ Bytes(T) <= Bytes(S) /\ Cardinality(T) <= Cardinality(S)
    <2>1. Sized(S) /\ Sized(T)
      BY RowsAreSized
    <2> QED
      BY <2>1, FewerBytes, SpreadIsFinite, FS_CardinalityType DEF Sized
  <1>2. {AppBytes, AppEntries, MyBytes, MyEntries} \subseteq Int
    BY LimitsAssumption
  <1>3. \A u \in Users : Of(u)' \subseteq Of(u) /\ Of(u) \subseteq rows
    BY DEF Of
  <1>4. ASSUME WithinQuota PROVE WithinQuota'
    <2>1. Bytes(rows') <= AppBytes /\ Cardinality(rows') <= AppEntries
      BY <1>1, <1>2, <1>4 DEF WithinQuota
    <2>2. ASSUME NEW u \in Users PROVE (Bytes(Of(u)) <= MyBytes /\ Cardinality(Of(u)) <= MyEntries)'
      <3>1. PICK S \in SUBSET rows : S = Of(u)
        BY <1>3
      <3>2. PICK T \in SUBSET S : T = Of(u)'
        BY <1>3, <3>1
      <3>3. Bytes(T) <= MyBytes /\ Cardinality(T) <= MyEntries
        BY <1>1, <1>2, <1>4, <3>1 DEF WithinQuota
      <3>4. (Bytes(Of(u)))' = Bytes(T) /\ (Cardinality(Of(u)))' = Cardinality(T)
        BY <3>2 DEF Bytes
      <3> QED
        BY <3>3, <3>4
    <2> QED
      BY <2>1, <2>2 DEF WithinQuota, Bytes
  <1>5. ASSUME NEW r \in InWrite, asked[r].size \in Nat, asked'[r] = asked[r], snap'[r] = snap[r],
               WithinApp(r), WithinMine(r)
        PROVE  WithinApp(r)' /\ WithinMine(r)'
    <2>1. PICK S \in SUBSET rows : S = Others(r)
      BY DEF Others, Of
    <2>2. PICK T \in SUBSET S : T = Others(r)'
      BY <1>5, <2>1 DEF Others, Of, Ids
    <2>3. snap[r] \in SUBSET rows
      BY DEF LockInv, Holds, Meant, Mine
    <2>4. Bytes(snap[r]) \in Nat
      BY <1>1, <2>3
    <2>5. /\ Bytes(rows') + (asked[r].size - Bytes(snap[r])) <= AppBytes
          /\ snap[r] = {} => Cardinality(rows') + 1 <= AppEntries
      BY <1>1, <1>2, <1>5, <2>4 DEF WithinApp, Growth
    <2>6. /\ Bytes(T) + asked[r].size <= MyBytes
          /\ (\A row \in snap[r] : row.owner # job[r].user) => Cardinality(T) + 1 <= MyEntries
      BY <1>1, <1>2, <1>5, <2>1 DEF WithinMine
    <2>7. WithinApp(r)'
      BY <1>5, <2>5 DEF WithinApp, Growth, Bytes
    <2>8. (Bytes(Others(r)))' = Bytes(T) /\ (Cardinality(Others(r)))' = Cardinality(T)
      BY <2>2 DEF Bytes
    <2>9. WithinMine(r)'
      BY <1>5, <2>6, <2>8 DEF WithinMine
    <2> QED
      BY <2>7, <2>9
  <1> QED
    BY <1>4, <1>5

\* A row in the place of another adds the difference of their sizes, and no entry.
LEMMA RowReplaces ==
    ASSUME TableInv, NEW cur \in rows, NEW row, row.size \in Nat
    PROVE  /\ Bytes((rows \ {cur}) \cup {row}) <= Bytes(rows) + (row.size - cur.size)
           /\ Cardinality((rows \ {cur}) \cup {row}) <= Cardinality(rows)
  <1> DEFINE rest == rows \ {cur}
  <1>1. Sized(rest) /\ cur.size \in Nat /\ cur.id \notin Ids(rest) /\ cur \notin rest
        /\ rest \cup {cur} = rows
    BY RowsAreSized DEF TableInv, IsTable, Ids
  <1>2. IsFiniteSet(rest)
    BY <1>1 DEF Sized
  <1> HIDE DEF rest
  <1>3. Bytes(rows) = Bytes(rest) + cur.size /\ Bytes(rest) \in Nat
    BY <1>1, RowAdds, SpreadIsFinite
  <1>4. Cardinality(rows) = Cardinality(rest) + 1 /\ Cardinality(rest) \in Nat
    BY <1>1, <1>2, FS_AddElement, FS_CardinalityType
  <1>5. Bytes(rest \cup {row}) <= Bytes(rest) + row.size /\ Cardinality(rest \cup {row}) <= Cardinality(rest) + 1
    BY <1>1, RowAdds
  <1>6. Bytes(rest \cup {row}) \in Nat /\ Cardinality(rest \cup {row}) \in Nat
    <2>1. Sized(rest \cup {row})
      BY <1>1, RowAdds
    <2> QED
      BY <2>1, SpreadIsFinite, FS_CardinalityType DEF Sized
  <1> QED
    BY <1>1, <1>3, <1>4, <1>5, <1>6 DEF rest

\* What a write leaves is within the quotas, if they had room for it.
LEMMA WriteFits ==
    ASSUME StageInv, TableInv, LockInv, NEW r \in Requests, pc[r] = "save", NEW old, NEW row,
           Writes(r, old, row), WithinApp(r), WithinMine(r), WithinQuota, job' = job
    PROVE  WithinQuota'
  <1> DEFINE u == job[r].user
  <1>1. row.size = asked[r].size /\ row.size \in Nat /\ row.owner = u /\ asked[r].shared \in BOOLEAN
    BY DEF Writes, StageInv, DataStages
  <1>2. Holds(r)
    BY DEF LockInv, InWrite
  <1>3. {AppBytes, AppEntries, MyBytes, MyEntries} \subseteq Int
    BY LimitsAssumption
  <1>4. \A S \in SUBSET rows : /\ Sized(S) /\ Bytes(S) \in Nat /\ Cardinality(S) \in Nat
                               /\ \A T \in SUBSET S : Bytes(T) <= Bytes(S) /\ Cardinality(T) <= Cardinality(S)
    BY RowsAreSized, FewerBytes, SpreadIsFinite, FS_CardinalityType DEF Sized
  <1>5. rows \in SUBSET rows /\ Others(r) \in SUBSET rows /\ Of(u) \in SUBSET rows
    BY DEF Others, Of
  <1>6. Sized(rows') /\ Bytes(rows') \in Nat /\ Cardinality(rows') \in Nat
    <2>1. Sized(rows \ old)
      BY <1>4
    <2>2. Sized(rows')
      BY <1>1, <2>1, RowAdds DEF Writes
    <2> QED
      BY <2>2, SpreadIsFinite, FS_CardinalityType DEF Sized
  <1>7. Bytes(rows') <= AppBytes /\ Cardinality(rows') <= AppEntries
    <2>1. CASE snap[r] = {}
      <3>1. Bytes(snap[r]) = 0
        BY <1>1, <2>1, BytesOfOne
      <3>2. Bytes(rows) + row.size <= AppBytes /\ Cardinality(rows) + 1 <= AppEntries
        BY <1>1, <1>3, <1>4, <1>5, <2>1, <3>1 DEF WithinApp, Growth
      <3>3. /\ Sized(rows \cup {row}) /\ Bytes(rows \cup {row}) <= Bytes(rows) + row.size
            /\ Cardinality(rows \cup {row}) <= Cardinality(rows) + 1
        BY <1>1, <1>4, <1>5, RowAdds
      <3>4. rows' \in SUBSET (rows \cup {row})
        BY DEF Writes
      <3>5. Bytes(rows') <= Bytes(rows \cup {row}) /\ Cardinality(rows') <= Cardinality(rows \cup {row})
            /\ Bytes(rows \cup {row}) \in Nat /\ Cardinality(rows \cup {row}) \in Nat
        BY <3>3, <3>4, FewerBytes, SpreadIsFinite, FS_CardinalityType DEF Sized
      <3> QED
        BY <1>1, <1>3, <1>4, <1>5, <1>6, <3>2, <3>3, <3>5
    <2>2. ASSUME NEW cur \in Meant(r), snap[r] = {cur}
          PROVE  Bytes(rows') <= AppBytes /\ Cardinality(rows') <= AppEntries
      <3>1. cur \in rows /\ cur.size \in Nat /\ Bytes(snap[r]) = cur.size
        BY <2>2, BytesOfOne DEF Meant, Mine, TableInv, IsTable
      <3>2. old = {cur}
        <4>1. ~asked[r].shared => cur \in Of(u)
          BY <2>2 DEF Meant, Mine, Of
        <4> QED
          BY <1>1, <2>2, <4>1 DEF Writes
      <3>3. Bytes(rows) + (row.size - cur.size) <= AppBytes
        BY <1>1, <3>1 DEF WithinApp, Growth
      <3>4. Bytes(rows') <= Bytes(rows) + (row.size - cur.size) /\ Cardinality(rows') <= Cardinality(rows)
        BY <1>1, <3>1, <3>2, RowReplaces DEF Writes
      <3>5. Cardinality(rows) <= AppEntries
        BY DEF WithinQuota
      <3> QED
        BY <1>1, <1>3, <1>4, <1>5, <1>6, <3>1, <3>3, <3>4, <3>5
    <2> QED
      BY <1>2, <2>1, <2>2 DEF Holds
  <1>8. ASSUME NEW w \in Users, w # u
        PROVE  (Bytes(Of(w)) <= MyBytes /\ Cardinality(Of(w)) <= MyEntries)'
    <2>1. PICK T \in SUBSET Of(w) : T = Of(w)'
      BY <1>1, <1>8 DEF Of, Writes
    <2>2. Bytes(T) <= MyBytes /\ Cardinality(T) <= MyEntries
      <3>1. Of(w) \in SUBSET rows
        BY DEF Of
      <3>2. T \in SUBSET rows
        BY <2>1, <3>1
      <3> QED
        BY <1>3, <1>4, <2>1, <3>1, <3>2 DEF WithinQuota
    <2>3. (Bytes(Of(w)))' = Bytes(T) /\ (Cardinality(Of(w)))' = Cardinality(T)
      BY <2>1 DEF Bytes
    <2> QED
      BY <2>2, <2>3
  <1>9. ASSUME u \in Users PROVE (Bytes(Of(u)) <= MyBytes /\ Cardinality(Of(u)) <= MyEntries)'
    <2> DEFINE mine == Others(r)
    <2>1. PICK T \in SUBSET (mine \cup {row}) : T = Of(u)'
      <3>1. \A o \in rows \ old : o.owner = u => o \in mine
        <4>1. CASE snap[r] = {}
          BY <4>1 DEF Others, Of, Ids
        <4>2. ASSUME NEW cur \in Meant(r), snap[r] = {cur} PROVE <3>1
          <5>1. ~asked[r].shared => cur \in Of(u)
            BY <4>2 DEF Meant, Mine, Of
          <5>2. old = {cur} /\ cur \in rows
            BY <1>1, <4>2, <5>1 DEF Writes, Meant, Mine
          <5> QED
            BY <4>2, <5>2 DEF Others, Of, Ids, TableInv, IsTable
        <4> QED
          BY <1>2, <4>1, <4>2 DEF Holds
      <3>2. \A o \in rows' : o.owner = u => o \in mine \cup {row}
        BY <3>1 DEF Writes
      <3>3. Of(u)' = {o \in rows' : o.owner = u}
        BY DEF Of
      <3> HIDE DEF mine, u
      <3> QED
        BY <3>2, <3>3
    <2>2. Sized(mine) /\ Bytes(mine) \in Nat /\ Cardinality(mine) \in Nat
      BY <1>4, <1>5
    <2>3. /\ Sized(mine \cup {row}) /\ Bytes(mine \cup {row}) <= Bytes(mine) + row.size
          /\ Cardinality(mine \cup {row}) <= Cardinality(mine) + 1
      BY <1>1, <2>2, RowAdds
    <2>4. /\ Bytes(T) <= Bytes(mine \cup {row}) /\ Cardinality(T) <= Cardinality(mine \cup {row})
          /\ Bytes(mine \cup {row}) \in Nat /\ Cardinality(mine \cup {row}) \in Nat
          /\ Bytes(T) \in Nat /\ Cardinality(T) \in Nat
      BY <2>1, <2>3, FewerBytes, SpreadIsFinite, FS_CardinalityType DEF Sized
    <2>5. Bytes(mine) + row.size <= MyBytes
      BY <1>1 DEF WithinMine
    <2>6. Cardinality(mine) + 1 <= MyEntries
      <3>1. CASE \A o \in snap[r] : o.owner # u
        BY <3>1 DEF WithinMine
      <3>2. ASSUME NEW cur \in snap[r], cur.owner = u PROVE Cardinality(mine) + 1 <= MyEntries
        <4>1. cur \in rows /\ cur \in Of(u) /\ cur \notin mine
          BY <1>2, <3>2 DEF Holds, Meant, Mine, Of, Others, Ids
        <4>2. mine \cup {cur} \in SUBSET Of(u)
          BY <4>1 DEF Others
        <4>3. Cardinality(mine \cup {cur}) = Cardinality(mine) + 1
          BY <2>2, <4>1, FS_AddElement DEF Sized
        <4>4. Cardinality(Of(u)) <= MyEntries
          BY <1>9 DEF WithinQuota
        <4>5. Cardinality(mine \cup {cur}) <= Cardinality(Of(u)) /\ Cardinality(Of(u)) \in Nat
          BY <1>4, <1>5, <4>2
        <4> HIDE DEF mine, u
        <4> QED
          BY <1>3, <2>2, <4>3, <4>4, <4>5
      <3> QED
        BY <3>1, <3>2
    <2>7. Bytes(T) <= MyBytes /\ Cardinality(T) <= MyEntries
      <3> HIDE DEF mine, u
      <3> QED
        BY <1>1, <1>3, <2>2, <2>3, <2>4, <2>5, <2>6
    <2>8. (Bytes(Of(u)))' = Bytes(T) /\ (Cardinality(Of(u)))' = Cardinality(T)
      BY <2>1 DEF Bytes
    <2> QED
      BY <2>7, <2>8
  <1> QED
    BY <1>7, <1>8, <1>9 DEF WithinQuota, Bytes

LEMMA QuotaInvElsewhere == ASSUME Ready, StageInv, QuotaInv, Elsewhere PROVE QuotaInv'
  <1>1. rows' = rows /\ asked' = asked /\ result' = result /\ job' = job
        /\ \A r \in Requests : pc'[r] = "save" => pc[r] = "save" /\ snap'[r] = snap[r]
    BY DEF Elsewhere, Spares, DataStages
  <1>2. \A r \in Requests : ~Saved(r)
    BY <1>1 DEF Saved, StageInv
  <1>3. (stale => stale') /\ \A r \in Requests : pc'[r] = "save" /\ r \notin behind' => r \notin behind
    <2>1. stale => stale'
      BY DEF Elsewhere, Watching
    <2>2. \A r \in Requests : pc'[r] = "save" /\ r \notin behind' => r \notin behind
      BY <1>2, SMT DEF Elsewhere, Watching
    <2> QED
      BY <2>1, <2>2
  <1>4. ASSUME NEW r \in Requests, pc'[r] = "save", r \notin behind' PROVE WithinApp(r)' /\ WithinMine(r)'
    <2>1. pc[r] = "save" /\ snap'[r] = snap[r] /\ WithinApp(r) /\ WithinMine(r)
      BY <1>1, <1>3, <1>4 DEF QuotaInv
    <2>2. Others(r)' = Others(r) /\ Growth(r)' = Growth(r)
      BY <1>1, <2>1 DEF Others, Of, Ids, Growth, Bytes
    <2> QED
      BY <1>1, <2>1, <2>2 DEF WithinApp, WithinMine, Bytes
  <1>5. QuotaHolds'
    BY <1>1, <1>3 DEF QuotaInv, QuotaHolds, WithinQuota, Of, Bytes
  <1> QED
    BY <1>4, <1>5 DEF QuotaInv

LEMMA QuotaInvData ==
    ASSUME Ready, StageInv, TableInv, LockInv, QuotaInv, NEW r \in Requests, DataStep(r), Watching
    PROVE  QuotaInv'
  <1>1. Alone(r)
    BY DataStepIsAlone
  <1>2. \A o \in Requests : Saved(o) => o = r
    BY <1>1 DEF Saved, StageInv, Alone, Keeps
  <1>3. CASE Saved(r)
    <2>1. /\ behind' = {o \in Requests : pc'[o] = "save"}
          /\ stale => stale'
          /\ r \in behind => stale'
      <3>1. behind' = {o \in Requests : pc'[o] = "save"}
        BY <1>3 DEF Watching
      <3>2. (stale => stale') /\ (r \in behind => stale')
        BY <1>3, Zenon DEF Watching
      <3> QED
        BY <3>1, <3>2
    <2>2. PICK old, row : Writes(r, old, row)
      BY <1>3, RowsCases, SaveWrites DEF Saved, Drop
    <2>3. QuotaHolds'
      BY <1>1, <1>3, <2>1, <2>2, WriteFits DEF QuotaInv, QuotaHolds, Saved, Alone
    <2> QED
      BY <2>1, <2>3 DEF QuotaInv
  <1>4. CASE ~Saved(r)
    <2>1. (stale => stale') /\ \A o \in behind : pc'[o] = "save" => o \in behind'
      <3>1. stale => stale'
        BY Zenon DEF Watching
      <3>2. behind' = {o \in behind : pc'[o] = "save"}
        BY <1>2, <1>4 DEF Watching
      <3> QED
        BY <3>1, <3>2
    <2>2. rows' \subseteq rows /\ (pc'[r] = "save" => Sum(r))
      <3>1. CASE GetEntry(r) \/ PutEntry(r) \/ DeleteEntry(r) \/ ListEntries(r)
        BY <3>1 DEF GetEntry, PutEntry, DeleteEntry, ListEntries, Admit, Goto, Ready
      <3>2. CASE Save(r)
        BY <1>4, <3>2, SaveWrites DEF Saved
      <3>3. CASE Lock(r) \/ Sum(r) \/ Look(r) \/ Drop(r)
        BY <3>3 DEF Lock, Sum, Look, Drop, End, Goto, Ready
      <3>4. CASE Get(r) \/ Abort(r) \/ Page(r) \/ NextPage(r)
        BY <3>4 DEF Get, Abort, Page, NextPage, End, Goto, Ready
      <3> QED
        BY <3>1, <3>2, <3>3, <3>4 DEF DataStep
    <2>3. job' = job
      BY <1>1 DEF Alone
    <2>4. ASSUME NEW o \in Requests, pc'[o] = "save", o \notin behind' PROVE WithinApp(o)' /\ WithinMine(o)'
      <3>1. o \in InWrite /\ WithinApp(o) /\ WithinMine(o) /\ asked'[o] = asked[o] /\ snap'[o] = snap[o]
        <4>1. CASE o = r
          BY <2>2, <2>4, <4>1 DEF Sum, End, Goto, Ready, InWrite
        <4>2. CASE o # r
          BY <1>1, <2>1, <2>4, <4>2 DEF QuotaInv, Alone, Keeps, InWrite
        <4> QED
          BY <4>1, <4>2
      <3>2. asked[o].size \in Nat
        BY <3>1 DEF InWrite, StageInv, DataStages
      <3> QED
        BY <2>2, <2>3, <3>1, <3>2, RoomStays
    <2>5. QuotaHolds'
      BY <2>1, <2>2, <2>3, RoomStays DEF QuotaInv, QuotaHolds
    <2> QED
      BY <2>4, <2>5 DEF QuotaInv
  <1> QED
    BY <1>3, <1>4

(***************************************************************************)
(* Listings.  A row that stays while a listing goes on keeps its key and,  *)
(* for this listing, its place; what lies before the cursor has been       *)
(* returned.                                                               *)
(***************************************************************************)
Furthest(L) == IF L = {} THEN 0 ELSE Max({row.key : row \in L})
Keyed(L) == IsFiniteSet(L) /\ \A row \in L : row.key \in Nat

LEMMA FurthestIs ==
    ASSUME NEW L, Keyed(L)
    PROVE  /\ Furthest(L) \in Nat /\ \A row \in L : row.key <= Furthest(L)
           /\ L # {} => \E row \in L : row.key = Furthest(L)
  <1> DEFINE T == {row.key : row \in L}
             f == [row \in L |-> row.key]
  <1>1. f \in Surjection(L, T)
    BY DEF Surjection
  <1>2. IsFiniteSet(T) /\ T \in SUBSET Nat
    BY <1>1, FS_Surjection DEF Keyed
  <1>3. CASE L = {}
    BY <1>3 DEF Furthest
  <1>4. CASE L # {}
    <2>1. Max(T) \in T /\ \A x \in T : x <= Max(T)
      BY <1>2, <1>4, MaxIsLargest
    <2>2. Furthest(L) = Max(T)
      BY <1>4 DEF Furthest
    <2> QED
      BY <1>2, <2>1, <2>2
  <1> QED
    BY <1>3, <1>4

\* The collection has kept its mode.
Fixed(c) == OnlyShared(c) \/ OnlyPrivate(c)
Complete(r) ==
    job[r].op = "list" /\ result[r] = "ok" /\ Fixed(asked[r].coll) => stayed[r] \subseteq Ids(listed[r])
\* Every row that has stayed is the listing's, and has been returned if the cursor is behind it.
Served(r) ==
    \A row \in rows : row.id \in stayed[r] =>
        /\ row \in Mine(r, rows)
        /\ row.key <= Furthest(listed[r]) => row.id \in Ids(listed[r])
PageInv ==
    \A r \in Requests :
        /\ stayed[r] \subseteq Ids(rows)
        /\ Keyed(listed[r])
        /\ job[r].op = "list" /\ result[r] = "ok" => asked[r].coll \in Colls
        /\ pc[r] \in {"page", "more"} /\ Fixed(asked[r].coll) => Served(r)
        /\ Complete(r)

LEMMA PageInvInit == Init => PageInv
  <1>1. Keyed({})
    BY FS_EmptySet DEF Keyed
  <1> QED
    BY <1>1 DEF Init, HandlersInit, MpInit, DataInit, PageInv, Complete

LEMMA FixedBefore ==
    ASSUME StageInv, Watching \/ UNCHANGED modesHad
    PROVE  \A c \in Colls : Fixed(c)' => Fixed(c)
  BY ModesGrow DEF Fixed

LEMMA PageInvElsewhere == ASSUME Ready, StageInv, PageInv, Elsewhere PROVE PageInv'
  <1>1. /\ rows' = rows /\ asked' = asked /\ result' = result /\ listed' = listed /\ job' = job
        /\ \A r \in Requests : pc'[r] \in {"page", "more"} => pc'[r] = pc[r]
    BY DEF Elsewhere, Spares, DataStages
  <1>2. \A r \in Requests : stayed'[r] \subseteq stayed[r]
    <2>1. CASE UNCHANGED stayed
      BY <2>1
    <2>2. CASE Watching
      BY <1>1, <2>2 DEF Watching
    <2> QED
      BY <2>1, <2>2 DEF Elsewhere
  <1>3. \A c \in Colls : Fixed(c)' => Fixed(c)
    BY FixedBefore DEF Elsewhere
  <1>4. ASSUME NEW r \in Requests, pc'[r] \in {"page", "more"}, Fixed(asked[r].coll)' PROVE Served(r)'
    <2>1. pc[r] = pc'[r] /\ asked[r].coll \in Colls
      BY <1>1, <1>4 DEF StageInv, DataStages
    <2>2. Served(r)
      BY <1>1, <1>3, <1>4, <2>1 DEF PageInv, Fixed, OnlyShared, OnlyPrivate
    <2> QED
      BY <1>1, <1>2, <2>2 DEF Served, Mine
  <1>5. ASSUME NEW r \in Requests PROVE Complete(r)'
    <2>1. Complete(r) /\ (job[r].op = "list" /\ result[r] = "ok" => asked[r].coll \in Colls)
      BY DEF PageInv
    <2> QED
      BY <1>1, <1>2, <1>3, <2>1 DEF Complete, Fixed, OnlyShared, OnlyPrivate
  <1> QED
    BY <1>1, <1>2, <1>4, <1>5 DEF PageInv

\* A row keeps its key and collection, and its owner in a private collection.
LEMMA RowsKeep ==
    ASSUME Ready, StageInv, TableInv, ModeInv, NEW r \in Requests, DataStep(r),
           NEW new \in rows', new.id \in Ids(rows)
    PROVE  \E cur \in rows : /\ cur.id = new.id /\ cur.coll = new.coll /\ cur.key = new.key
                             /\ OnlyPrivate(cur.coll) => cur.owner = new.owner
  <1>1. CASE new \in rows
    BY <1>1
  <1>2. ASSUME Save(r), NEW old, NEW row, Writes(r, old, row), new = row
        PROVE  \E cur \in rows : /\ cur.id = new.id /\ cur.coll = new.coll /\ cur.key = new.key
                                 /\ OnlyPrivate(cur.coll) => cur.owner = new.owner
    <2>1. pc[r] = "save" /\ r \in Unsaved /\ asked[r].coll \in Colls
      BY <1>2, SaveWrites DEF StageInv, Writing, DataStages, Unsaved
    <2>2. new.id # r
      BY <2>1 DEF TableInv, Ids
    <2>3. PICK cur \in rows : Meant(r) = {cur} /\ row.id = cur.id
      BY <1>2, <2>2 DEF Writes
    <2>4. cur.coll = asked[r].coll /\ cur.key = asked[r].key /\ (asked[r].shared \/ cur.owner = job[r].user)
      BY <2>3 DEF Meant, Mine
    <2>5. OnlyPrivate(asked[r].coll) => ~asked[r].shared
      BY <2>1 DEF ModeInv, DataStages
    <2> QED
      BY <1>2, <2>3, <2>4, <2>5 DEF Writes
  <1>3. CASE Save(r)
    <2>1. CASE rows' = rows
      BY <1>1, <2>1
    <2>2. ASSUME NEW old, NEW row, Writes(r, old, row)
          PROVE  \E cur \in rows : /\ cur.id = new.id /\ cur.coll = new.coll /\ cur.key = new.key
                                   /\ OnlyPrivate(cur.coll) => cur.owner = new.owner
      <3>1. new \in rows \/ new = row
        BY <2>2 DEF Writes
      <3> QED
        BY <1>1, <1>2, <1>3, <2>2, <3>1
    <2> QED
      BY <1>3, <2>1, <2>2, SaveWrites
  <1>4. CASE Drop(r)
    BY <1>1, <1>4 DEF Drop
  <1> QED
    BY <1>1, <1>3, <1>4, RowsCases

\* The rows of a listing differ in their keys.
LEMMA OneRowPerKey ==
    ASSUME StageInv, ModeInv, TableInv, SharedInv, NEW r \in Requests, pc[r] \in DataStages,
           Fixed(asked[r].coll), NEW one \in Mine(r, rows), NEW two \in Mine(r, rows), one.key = two.key
    PROVE  one = two
  <1>1. one \in rows /\ two \in rows /\ one.coll = asked[r].coll /\ two.coll = asked[r].coll
    BY DEF Mine
  <1>2. CASE OnlyShared(asked[r].coll)
    BY <1>1, <1>2 DEF SharedInv, OneRowPerSharedKey
  <1>3. CASE OnlyPrivate(asked[r].coll)
    <2>1. one.owner = job[r].user /\ two.owner = job[r].user
      BY <1>3 DEF ModeInv, Mine
    <2> QED
      BY <1>1, <2>1 DEF TableInv, IsTable
  <1> QED
    BY <1>2, <1>3 DEF Fixed

\* What a page adds.
LEMMA PageServes ==
    ASSUME StageInv, ModeInv, TableInv, SharedInv, PageInv, NEW r \in Requests, pc[r] = "page",
           Fixed(asked[r].coll), NEW P \in SUBSET PageAfter(r),
           \A row \in P, o \in PageAfter(r) \ P : row.key <= o.key,
           NEW row \in rows, row.id \in stayed[r]
    PROVE  /\ row \in Mine(r, rows)
           /\ row.key <= Furthest(listed[r] \cup P) \/ P = PageAfter(r) => row.id \in Ids(listed[r] \cup P)
  <1> DEFINE L == listed[r]
  <1>1. Served(r) /\ Keyed(L)
    BY DEF PageInv
  <1>2. row \in Mine(r, rows) /\ row.key \in Nat
    BY <1>1 DEF Served, TableInv, IsTable
  <1>3. Cursor(r) = Furthest(L)
    BY DEF Cursor, Furthest
  <1>4. PageAfter(r) = {o \in Mine(r, rows) : o.key > Furthest(L)}
    BY <1>3 DEF PageAfter, After
  <1>5. Keyed(L \cup P)
    <2>1. IsFiniteSet(P) /\ \A o \in P : o.key \in Nat
      <3>1. P \in SUBSET rows
        BY <1>4 DEF Mine
      <3> QED
        BY <3>1, FS_Subset DEF TableInv, IsTable
    <2> QED
      BY <1>1, <2>1, FS_Union DEF Keyed
  <1>6. Furthest(L) \in Nat /\ \A o \in L : o.key <= Furthest(L)
    BY <1>1, FurthestIs
  <1>7. ASSUME row.key <= Furthest(L) PROVE row.id \in Ids(L \cup P)
    BY <1>1, <1>7 DEF Served, Ids
  <1>8. ASSUME ~(row.key <= Furthest(L)) PROVE row \in PageAfter(r)
    BY <1>2, <1>4, <1>6, <1>8
  <1>9. ASSUME row \in PageAfter(r) \ P, row.key <= Furthest(L \cup P) PROVE FALSE
    <2>1. row.key > Furthest(L)
      BY <1>4, <1>9
    <2>2. PICK p \in L \cup P : p.key = Furthest(L \cup P)
      <3>1. L \cup P # {}
        <4>1. L \cup P = {} => Furthest(L \cup P) = 0
          BY DEF Furthest
        <4> QED
          BY <1>2, <1>6, <1>9, <2>1, <4>1
      <3> QED
        BY <1>5, <3>1, FurthestIs
    <2>3. p \in P
      BY <1>2, <1>5, <1>6, <1>9, <2>1, <2>2 DEF Keyed
    <2>4. p.key = row.key
      BY <1>2, <1>5, <1>9, <2>2, <2>3 DEF Keyed
    <2>5. p = row
      BY <1>2, <1>4, <2>3, <2>4, OneRowPerKey DEF DataStages
    <2> QED
      BY <1>9, <2>3, <2>5
  <1> HIDE DEF L
  <1>10. row \in P => row.id \in Ids(L \cup P)
    BY DEF Ids
  <1> QED
    BY <1>2, <1>7, <1>8, <1>9, <1>10 DEF L

LEMMA PageInvData ==
    ASSUME Ready, StageInv, ModeInv, TableInv, SharedInv, PageInv, ModeInv', StageInv',
           NEW r \in Requests, DataStep(r), Watching
    PROVE  PageInv'
  <1>1. Alone(r)
    BY DataStepIsAlone
  <1>2. \A c \in Colls : Fixed(c)' => Fixed(c)
    BY FixedBefore
  <1>3. ASSUME NEW o \in Requests, ~(pc[o] = "new" /\ pc'[o] = "page")
        PROVE  stayed'[o] = stayed[o] \cap Ids(rows')
    BY <1>3 DEF Watching
  <1>4. ASSUME NEW o \in Requests \ {r}
        PROVE  /\ stayed'[o] \subseteq stayed[o] \cap Ids(rows') /\ Keyed(listed[o])'
               /\ (job[o].op = "list" /\ result[o] = "ok" => asked[o].coll \in Colls)'
               /\ Complete(o)'
               /\ (pc[o] \in {"page", "more"} /\ Fixed(asked[o].coll) => Served(o))'
    <2>1. /\ pc'[o] = pc[o] /\ asked'[o] = asked[o] /\ result'[o] = result[o] /\ listed'[o] = listed[o]
          /\ job' = job
      BY <1>1 DEF Alone, Keeps
    <2>2. stayed'[o] = stayed[o] \cap Ids(rows')
      BY <1>3, <2>1
    <2>3. /\ Keyed(listed[o]) /\ Complete(o)
          /\ job[o].op = "list" /\ result[o] = "ok" => asked[o].coll \in Colls
      BY DEF PageInv
    <2>4. Complete(o)'
      BY <1>2, <2>1, <2>2, <2>3 DEF Complete, Fixed, OnlyShared, OnlyPrivate
    <2>5. ASSUME pc[o] \in {"page", "more"}, Fixed(asked[o].coll)' PROVE Served(o)'
      <3>1. asked[o].coll \in Colls
        BY <2>5 DEF StageInv, DataStages
      <3>2. Fixed(asked[o].coll)
        BY <1>2, <2>1, <2>5, <3>1 DEF Fixed, OnlyShared, OnlyPrivate
      <3>3. Served(o)
        BY <2>5, <3>2 DEF PageInv
      <3>4. OnlyShared(asked[o].coll) => asked[o].shared
        BY <2>5 DEF ModeInv, DataStages
      <3>5. ASSUME NEW new \in rows', new.id \in stayed[o]
            PROVE  /\ new.coll = asked[o].coll /\ (asked[o].shared \/ new.owner = job[o].user)
                   /\ new.key <= Furthest(listed[o]) => new.id \in Ids(listed[o])
        <4>1. new.id \in Ids(rows)
          BY <3>5 DEF PageInv
        <4>2. PICK cur \in rows : /\ cur.id = new.id /\ cur.coll = new.coll /\ cur.key = new.key
                                  /\ OnlyPrivate(cur.coll) => cur.owner = new.owner
          BY <4>1, RowsKeep
        <4>3. /\ cur.coll = asked[o].coll /\ (asked[o].shared \/ cur.owner = job[o].user)
              /\ cur.key <= Furthest(listed[o]) => cur.id \in Ids(listed[o])
          BY <3>3, <3>5, <4>2 DEF Served, Mine
        <4> QED
          BY <3>2, <3>4, <4>2, <4>3 DEF Fixed
      <3> QED
        BY <2>1, <2>2, <3>5 DEF Served, Mine
    <2> QED
      BY <2>1, <2>2, <2>3, <2>4, <2>5
  <1> DEFINE Done == /\ stayed'[r] \subseteq Ids(rows') /\ Keyed(listed[r])'
                     /\ (job[r].op = "list" /\ result[r] = "ok" => asked[r].coll \in Colls)'
                     /\ Complete(r)'
                     /\ (pc[r] \in {"page", "more"} /\ Fixed(asked[r].coll) => Served(r))'
  <1>5. ASSUME Page(r) PROVE Done
    <2>1. /\ pc[r] = "page" /\ rows' = rows /\ asked' = asked /\ job' = job
          /\ stayed'[r] \subseteq stayed[r] /\ stayed[r] \subseteq Ids(rows) /\ Keyed(listed[r])
          /\ asked[r].coll \in Colls
      BY <1>1, <1>3, <1>5 DEF Page, Alone, PageInv, StageInv, DataStages
    <2>2. PICK P \in SUBSET PageAfter(r) :
               /\ \A row \in P, o \in PageAfter(r) \ P : row.key <= o.key
               /\ listed' = [listed EXCEPT ![r] = @ \cup P]
               /\ IF P = PageAfter(r) THEN End(r, "ok")
                                      ELSE Goto(r, "more") /\ UNCHANGED <<result, snap, found>>
      BY <1>5 DEF Page
    <2>3. listed'[r] = listed[r] \cup P /\ (P = PageAfter(r) \/ result'[r] # "ok")
      BY <2>1, <2>2 DEF StageInv
    <2>4. Keyed(listed[r] \cup P)
      <3>1. P \in SUBSET rows
        BY <2>2 DEF PageAfter, After, Mine
      <3>2. IsFiniteSet(P) /\ \A o \in P : o.key \in Nat
        BY <3>1, FS_Subset DEF TableInv, IsTable
      <3> QED
        BY <2>1, <3>2, FS_Union DEF Keyed
    <2>5. (Fixed(asked[r].coll))' => Fixed(asked[r].coll)
      BY <1>2, <2>1 DEF Fixed, OnlyShared, OnlyPrivate
    <2>6. ASSUME Fixed(asked[r].coll), NEW row \in rows, row.id \in stayed[r]
          PROVE  /\ row \in Mine(r, rows)
                 /\ row.key <= Furthest(listed[r] \cup P) \/ P = PageAfter(r) => row.id \in Ids(listed[r] \cup P)
      BY <2>1, <2>2, <2>6, PageServes
    <2>7. (Fixed(asked[r].coll) => Served(r))'
      BY <2>1, <2>3, <2>5, <2>6 DEF Served, Mine
    <2>8. Complete(r)'
      <3>1. ASSUME Fixed(asked[r].coll), P = PageAfter(r), NEW i \in stayed[r] PROVE i \in Ids(listed[r] \cup P)
        BY <2>1, <2>6, <3>1 DEF Ids
      <3> QED
        BY <2>1, <2>3, <2>5, <3>1 DEF Complete
    <2> QED
      BY <2>1, <2>3, <2>4, <2>7, <2>8
  <1>6. ASSUME ~Page(r)
        PROVE  /\ listed' = listed /\ (result'[r] # "ok" \/ job[r].op # "list")
               /\ pc'[r] \in {"page", "more"} => \/ ListEntries(r) /\ pc[r] = "new" /\ pc'[r] = "page"
                                               \/ NextPage(r)
    <2>1. CASE GetEntry(r) \/ PutEntry(r) \/ DeleteEntry(r)
      BY <2>1 DEF GetEntry, PutEntry, DeleteEntry, Admit, Goto, Ready, StageInv
    <2>2. CASE ListEntries(r)
      BY <2>2 DEF ListEntries, Admit, Goto, Ready, StageInv
    <2>3. CASE Lock(r) \/ Sum(r) \/ Look(r)
      BY <2>3 DEF Lock, Sum, Look, End, Goto, Ready, StageInv, Writing
    <2>4. CASE Save(r)
      BY <2>4, SaveWrites DEF StageInv, Writing
    <2>5. CASE Drop(r) \/ Get(r)
      BY <2>5 DEF Drop, Get, End, Goto, Ready, StageInv
    <2>6. CASE Abort(r) \/ NextPage(r)
      BY <2>6 DEF Abort, NextPage, End, Goto, Ready, StageInv
    <2> QED
      BY <1>6, <2>1, <2>2, <2>3, <2>4, <2>5, <2>6 DEF DataStep
  <1>7. ASSUME ~Page(r) PROVE Done
    <2>1. /\ listed' = listed /\ (result'[r] # "ok" \/ job[r].op # "list") /\ job' = job
          /\ Keyed(listed[r])
      BY <1>1, <1>6, <1>7 DEF Alone, PageInv
    <2>2. CASE ListEntries(r) /\ pc[r] = "new" /\ pc'[r] = "page"
      <3>1. rows' = rows /\ listed[r] = {}
        BY <2>2 DEF ListEntries, Admit, StageInv
      <3>2. stayed'[r] = {row.id : row \in Mine(r, rows)'}
        BY <2>1, <2>2, <3>1 DEF Watching, Mine
      <3>3. Mine(r, rows)' \subseteq rows
        BY <3>1 DEF Mine
      <3>4. \A row \in rows : row.id \in stayed'[r] => row \in Mine(r, rows)' /\ ~(row.key <= Furthest({}))
        <4>1. Furthest({}) = 0
          BY DEF Furthest
        <4>2. \A row \in rows : row.id \in stayed'[r] => row \in Mine(r, rows)'
          BY <3>2, <3>3 DEF TableInv, IsTable
        <4> QED
          BY <4>1, <4>2 DEF TableInv, IsTable
      <3>5. Served(r)'
        BY <2>1, <3>1, <3>4 DEF Served
      <3> QED
        BY <2>1, <3>1, <3>2, <3>3, <3>5 DEF Complete, Ids
    <2>3. ASSUME ~(pc[r] = "new" /\ pc'[r] = "page")
          PROVE  stayed'[r] \subseteq stayed[r] /\ stayed'[r] \subseteq Ids(rows')
      BY <1>3, <2>3
    <2>4. CASE NextPage(r)
      <3>1. /\ pc[r] = "more" /\ rows' = rows
            /\ asked' = asked \/ \E shared : asked' = [asked EXCEPT ![r].shared = shared]
        BY <2>4 DEF NextPage
      <3>2. asked'[r].coll = asked[r].coll /\ asked[r].coll \in Colls
        BY <3>1 DEF StageInv, DataStages, AskedFields
      <3>3. ASSUME pc'[r] \in {"page", "more"}, Fixed(asked[r].coll)' PROVE Served(r)'
        <4>1. Fixed(asked[r].coll)
          BY <1>2, <3>2, <3>3 DEF Fixed, OnlyShared, OnlyPrivate
        <4>2. Served(r)
          BY <3>1, <4>1 DEF PageInv
        <4>3. /\ OnlyShared(asked[r].coll)' => OnlyShared(asked[r].coll)
              /\ OnlyPrivate(asked[r].coll)' => OnlyPrivate(asked[r].coll)
          BY <3>2, ModesGrow DEF OnlyShared, OnlyPrivate
        <4>4. /\ OnlyShared(asked[r].coll)' => asked'[r].shared
              /\ OnlyPrivate(asked[r].coll)' => ~asked'[r].shared
          BY <3>3 DEF ModeInv, DataStages, OnlyShared, OnlyPrivate
        <4>5. /\ OnlyShared(asked[r].coll) => asked[r].shared
              /\ OnlyPrivate(asked[r].coll) => ~asked[r].shared
          BY <3>1 DEF ModeInv, DataStages
        <4>6. asked[r].shared \/ ~asked'[r].shared
          BY <3>3, <4>3, <4>4, <4>5 DEF Fixed
        <4>7. asked'[r].shared \/ ~asked[r].shared
          BY <3>3, <4>3, <4>4, <4>5 DEF Fixed
        <4>8. Mine(r, rows)' = Mine(r, rows)
          BY <2>1, <3>1, <3>2, <4>6, <4>7 DEF Mine
        <4> QED
          BY <2>1, <2>3, <3>1, <4>2, <4>8 DEF Served
      <3> QED
        BY <2>1, <2>3, <3>1, <3>3 DEF Complete
    <2>5. CASE ~(pc'[r] \in {"page", "more"})
      BY <2>1, <2>3, <2>5 DEF Complete
    <2> QED
      BY <1>6, <1>7, <2>2, <2>4, <2>5
  <1>8. Done
    BY <1>5, <1>7
  <1> QED
    BY <1>4, <1>8 DEF PageInv
(***************************************************************************)
(* All of it together.                                                     *)
(***************************************************************************)
DataInv ==
    /\ Ready /\ StageInv /\ PackagesInv /\ ModeInv /\ TableInv
    /\ LockInv /\ SharedInv /\ CopyInv /\ QuotaInv /\ PageInv

LEMMA DataInvNext == DataInv /\ [Next]_backendVars => DataInv'
  <1> SUFFICES ASSUME DataInv, [Next]_backendVars PROVE DataInv'
    OBVIOUS
  <1>1. Ready' /\ PackagesInv'
    BY ReadyNext, PackagesInvNext DEF DataInv, TableInv
  <1>2. CASE Elsewhere
    BY <1>1, <1>2, StageInvElsewhere, ModeInvElsewhere, TableInvElsewhere, LocksElsewhere,
       QuotaInvElsewhere, PageInvElsewhere DEF DataInv
  <1>3. ASSUME NEW r \in Requests, DataStep(r), Watching PROVE DataInv'
    BY <1>1, <1>3, StageInvData, ModeInvData, TableInvData, LockInvData, SharedInvData, CopyInvData,
       QuotaInvData, PageInvData DEF DataInv
  <1> QED
    BY <1>2, <1>3, DataCases DEF DataInv

LEMMA DataSafe == Spec => []DataInv
  <1>1. Init => DataInv
    BY ReadyInit, StageInvInit, PackagesInvInit, ModeInvInit, TableInvInit, LocksInit,
       QuotaInvInit, PageInvInit DEF DataInv
  <1> QED
    BY <1>1, DataInvNext, PTL DEF Spec

(* A key of a collection that has never been private has one row, however many users      *)
(* write it for the first time at once, and whatever the manifest's versions declare: a   *)
(* row needs a shared request, and those of one key wait for each other                   *)
(* (UpsertEntryShared, pg_advisory_xact_lock).                                            *)
THEOREM SharedKeysHaveOneRow == Spec => []OneRowPerSharedKey
  <1>1. DataInv => OneRowPerSharedKey
    BY DEF DataInv, SharedInv
  <1> QED
    BY <1>1, DataSafe, PTL

(* A conditional write or deletion removes what its user had read and nothing newer, for  *)
(* any interleaving of the statements of any requests: a write holds the row it compared, *)
(* a deletion compares once more (UpsertEntry, DeleteEntry and their shared forms).       *)
THEOREM ConditionsHold == Spec => ReplacesWhatWasRead
  <1>1. ASSUME DataInv, [Next]_backendVars, NEW r \in Requests,
               pc[r] \in {"save", "drop"}, result'[r] = "ok", asked[r].basis # Nothing,
               NEW row \in rows \ rows', row.id = asked[r].basis.id
        PROVE  row.value = asked[r].basis.value
    <2> USE DEF DataInv
    <2>1. result[r] = "none"
      BY <1>1 DEF StageInv
    <2>2. PICK s \in Requests : DataStep(s)
      BY <1>1, DataCases DEF Elsewhere
    <2>3. s = r
      BY <1>1, <2>1, <2>2, DataStepIsAlone DEF Alone, Keeps
    <2>4. Faithful(asked[r].basis)
      BY <1>1 DEF CopyInv, DataStages
    <2>5. \/ pc[r] = "save" /\ Save(r)
          \/ pc[r] = "drop" /\ Drop(r)
      BY <1>1, <2>2, <2>3, RowsCases DEF Save, Drop
    <2>6. row.version = asked[r].basis.version
      <3>1. CASE pc[r] = "save" /\ Save(r)
        <4>1. PICK old, new : Writes(r, old, new)
          BY <1>1, <3>1, SaveWrites
        <4>2. Meant(r) = {row}
          BY <1>1, <4>1 DEF Writes
        <4>3. Holds(r)
          BY <1>1, <3>1 DEF LockInv, InWrite
        <4>4. PICK cur \in snap[r] : cur.version = asked[r].basis.version
          BY <1>1, <4>3 DEF Holds
        <4>5. cur \in Meant(r)
          BY <4>3, <4>4 DEF Holds
        <4> QED
          BY <4>2, <4>4, <4>5
      <3>2. CASE pc[r] = "drop" /\ Drop(r)
        <4>1. SameVersion(r, row)
          BY <1>1, <3>2 DEF Drop
        <4>2. Knows(r)
          BY <1>1, <3>2 DEF LockInv
        <4>3. PICK cur \in snap[r] : row.version = cur.version
          BY <4>1 DEF SameVersion
        <4> QED
          BY <1>1, <4>2, <4>3 DEF Knows
      <3> QED
        BY <2>5, <3>1, <3>2
    <2> QED
      BY <1>1, <2>4, <2>6 DEF Faithful
  <1> DEFINE Careful == \A r \in Requests :
        pc[r] \in {"save", "drop"} /\ result'[r] = "ok" /\ asked[r].basis # Nothing =>
            \A row \in rows \ rows' :
                row.id = asked[r].basis.id => row.value = asked[r].basis.value
  <1>2. DataInv /\ [Next]_backendVars => [Careful]_mpVars
    BY <1>1
  <1> QED
    BY <1>2, DataSafe, PTL DEF Spec, ReplacesWhatWasRead

(* Unless a write is overtaken between its sums and its commit, what is stored stays      *)
(* within the program's and every owner's quota, for any sizes and quotas: replacing a    *)
(* row, taking a shared one over from its owner, and deletions in between included        *)
(* (UpsertEntry, UpsertEntryShared).                                                      *)
THEOREM QuotasHold == Spec => []QuotaHolds
  <1>1. DataInv => QuotaHolds
    BY DEF DataInv, QuotaInv
  <1> QED
    BY <1>1, DataSafe, PTL

(* A listing that reaches its end has returned every row that was there throughout, for   *)
(* any page size and whatever is written and deleted between its pages: the cursor is the *)
(* last key, and no row behind it is left out (ListEntries, ListEntriesShared).           *)
THEOREM ListingsAreComplete == Spec => []ListingIsComplete
  <1>1. DataInv => ListingIsComplete
    BY DEF DataInv, PageInv, Complete, Fixed, ListingIsComplete
  <1> QED
    BY <1>1, DataSafe, PTL

(* A row keeps an id of its own, and one owner, collection and key, for any number of     *)
(* concurrent writers: the unique index of the table is never met by a write that the     *)
(* code lets through.                                                                     *)
THEOREM TableIsSound == Spec => []DataTypeOK
  <1>1. DataInv => DataTypeOK
    BY DEF DataInv, DataTypeOK, PackageTypeOK, PackagesInv, TableInv, ProgramFields
  <1> QED
    BY <1>1, DataSafe, PTL

(* What the components rely on of each other's rows: the program and the table above, and *)
(* the members, kinds and lists of conversations.                                         *)
THEOREM TypesHold == Spec => []TypeOK
  BY TableIsSound, PeopleAreTyped, PTL DEF TypeOK

(* What is stored really fits the limit, whatever sizes its entries declare and however    *)
(* many they are: no sum in unsigned arithmetic lets a package through (Validate's first   *)
(* pass, miniprogram/validate.go:112-122), and only validated packages reach the row.      *)
THEOREM StoredPackagesFit == Spec => []StoredFits
  <1>1. DataInv => StoredFits
    <2> SUFFICES ASSUME DataInv, program # Nothing PROVE StoredFits
      BY DEF StoredFits
    <2>1. Fits(program.pkg.sizes) /\ program.pkg.sizes \in Seq(0..(Word - 1))
      BY BytesAssumption DEF DataInv, PackagesInv, ValidatePackage
    <2>2. PICK s \in Seq(0..(Word - 1)) : s = program.pkg.sizes /\ Fits(s)
      BY <2>1
    <2> QED
      BY <2>2, FitsTruly DEF StoredFits
  <1> QED
    BY <1>1, DataSafe, PTL
=============================================================================
