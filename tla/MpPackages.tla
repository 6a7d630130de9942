----------------------------- MODULE MpPackages -----------------------------
(***************************************************************************)
(* The packages of one mini program (one appid): uploads that create the   *)
(* program or replace its version, the administrator's publish and         *)
(* disable, the signature made when it is published and again at startup,  *)
(* deletion, and a client that installs what it was offered                *)
(* (handler/mini_program_handler.go, repository/mini_program_repo.go,      *)
(* signing_key_repo.go, miniprogram/).                                     *)
(*                                                                         *)
(* No handler opens a transaction: each action below is one statement, and *)
(* what a handler read earlier it keeps in snap.  An upload names the file *)
(* it stores and, if it creates the program, the program: both ids are     *)
(* fresh in the code.                                                      *)
(***************************************************************************)
EXTENDS Handlers

CONSTANTS
    Packages,       \* the zip files that are uploaded
    Starts,         \* the rows there may be at the start, Nothing for none
    MaxBytes,       \* maxZipBytes
    Word            \* one more than the largest size a zip entry can declare

ASSUME BytesAssumption ==
    /\ Word \in Nat /\ MaxBytes \in 1..(Word - 1)
    /\ \A p \in Packages : p.sizes \in Seq(0..(Word - 1))
ASSUME UploadersAssumption ==
    \A j \in Jobs, r \in Requests : j[r].op = "upload" => j[r].user \in Users
\* The rules of the manifest's fields allow three modes.
ASSUME ModesAssumption ==
    \A p \in Packages : p.wellFormed =>
        \A c \in DOMAIN p.modes : p.modes[c] \in {"private", "shared_read", "shared_write"}

VARIABLES
    zip,        \* the package of an upload
    program,    \* the row of mini_programs
    icons,      \* the upload whose icon is stored under each version
    key,        \* mp_signing_key: the request that generated the pair
    held,       \* the key a handler got from Ensure
    installed,  \* what a client installed
    reviewed,   \* history: files that an administrator's publish had read
    overtaken   \* history: a status or signature met a package it had not read

packageVars == <<zip, program, icons, key, held, installed,
                 reviewed, overtaken>>

\* ------------------------------------------------------ miniprogram/validate.go
\* The first pass over the entries: a size the rest of the limit cannot take is
\* refused before it is added, in unsigned arithmetic.
FitsAfterAdding(sizes) ==
    LET total[n \in 0..Len(sizes)] ==
            IF n = 0 THEN 0 ELSE (total[n - 1] + sizes[n]) % Word
    IN  \A n \in 1..Len(sizes) : total[n] <= MaxBytes
Fits(sizes) ==
    LET total[n \in 0..Len(sizes)] ==
            IF n = 0 THEN 0 ELSE (total[n - 1] + sizes[n]) % Word
    IN  \A n \in 1..Len(sizes) :
            /\ sizes[n] <= MaxBytes
            /\ total[n - 1] <= (MaxBytes - sizes[n]) % Word

\* The manifest parses and passes the field rules (wellFormed), the entry page is
\* in the zip, and a declared icon is there and is an image.
ValidatePackage(p) ==
    /\ Fits(p.sizes)
    /\ p.wellFormed
    /\ p.hasEntry
    /\ p.icon \in {"none", "image"}

\* What there is at the start was once uploaded.
ASSUME StartsAssumption ==
    \A p \in Starts \ {Nothing} :
        /\ DOMAIN p = {"id", "owner", "pkg", "file", "status", "sig"} /\ p.sig = Nothing
        /\ p.id \in Requests /\ p.file \in Requests /\ p.owner \in Users
        /\ p.pkg \in Packages /\ ValidatePackage(p.pkg)
        /\ p.status \in {"private", "published", "disabled"}

\* ------------------------------------------------------------------ statements
NewProgram(r) ==
    [id |-> r, owner |-> job[r].user, pkg |-> zip[r], file |-> r,
     status |-> "private", sig |-> Nothing]

ReplaceKeepingSignature(r) ==
    [program EXCEPT !.pkg = zip[r], !.file = r, !.status = "private"]
ReplaceVersion(r) ==
    [program EXCEPT !.pkg = zip[r], !.file = r, !.status = "private", !.sig = Nothing]

StillThere(r) == program # Nothing /\ program.id = snap[r].id

\* INSERT .. ON CONFLICT DO NOTHING, then read again.
OwnKey(r) == r
StoredKey(r) == IF key = Nothing THEN r ELSE key

Transition == {<<"private", "published">>, <<"published", "disabled">>,
               <<"disabled", "published">>}

\* A collection declared before and declared now must keep its mode.
ModesKept(old, new) ==
    \A c \in DOMAIN old.modes \cap DOMAIN new.modes : old.modes[c] = new.modes[c]

\* ---------------------------------------------------------------------- Upload
PackagesInit ==
    /\ zip = [r \in Requests |-> Nothing]
    /\ program \in Starts
    /\ icons = [v \in {p.pkg.version : p \in {program} \ {Nothing}} |-> program.file]
    /\ key = Nothing
    /\ held = [r \in Requests |-> Nothing]
    /\ installed = [r \in Requests |-> Nothing]
    /\ reviewed = IF program = Nothing THEN {} ELSE {program.file}
    /\ overtaken = FALSE

\* The body is read and validated, then the row is looked up: a package that is not
\* valid, another user's appid or a changed mode ends the request with nothing stored.
Accepts(r, p) ==
    /\ ValidatePackage(p)
    /\ program # Nothing => /\ program.owner = job[r].user
                            /\ ModesKept(program.pkg, p)

UploadCheck(r, p) ==
    /\ Is(r, "upload", "new")
    /\ IF Accepts(r, p)
         THEN /\ Goto(r, IF p.icon = "image" THEN "icon" ELSE "write")
              /\ Keep(r, program)
              /\ zip' = [zip EXCEPT ![r] = p]
         ELSE /\ Goto(r, "done")
              /\ UNCHANGED <<snap, zip>>
    /\ UNCHANGED <<job, program, icons, key, held, installed, reviewed, overtaken>>

\* The icon goes to mp-icon/<appid>/<version>: the same version overwrites it.
UploadIcon(r) ==
    /\ Is(r, "upload", "icon")
    /\ icons' = [v \in DOMAIN icons \cup {zip[r].version} |->
                    IF v = zip[r].version THEN r ELSE icons[v]]
    /\ Goto(r, "write")
    /\ UNCHANGED <<job, snap, zip, program, key, held, installed, reviewed, overtaken>>

\* The zip and its files row are stored under fresh names and nobody meets them before
\* the row points to them.  Replacing a program that is gone changes no row; creating
\* one beside another is a unique violation.
UploadWrite(r) ==
    /\ Is(r, "upload", "write")
    /\ \/ snap[r] = Nothing /\ program = Nothing /\ program' = NewProgram(r)
       \/ snap[r] = Nothing /\ program # Nothing /\ UNCHANGED program
       \/ snap[r] # Nothing /\ StillThere(r) /\ program' = ReplaceVersion(r)
       \/ snap[r] # Nothing /\ ~StillThere(r) /\ UNCHANGED program
    /\ Goto(r, "done")
    /\ UNCHANGED <<job, snap, zip, icons, key, held, installed, reviewed, overtaken>>

\* ---------------------------------------------------------- Delete, UpdateStatus
Deletable(r) ==
    program # Nothing /\ program.owner = job[r].user /\ program.status = "private"
DeletePrivate(r) ==
    /\ Is(r, "delete", "new")
    /\ program' = IF Deletable(r) THEN Nothing ELSE program
    /\ Goto(r, "done")
    /\ UNCHANGED <<job, snap, zip, icons, key, held, installed, reviewed, overtaken>>

StatusRead(r) ==
    /\ job[r].op \in {"published", "disabled"} /\ pc[r] = "new"
    /\ IF program # Nothing /\ <<program.status, job[r].op>> \in Transition
         THEN /\ Goto(r, "status")
              /\ Keep(r, program)
              /\ reviewed' = IF job[r].op = "published" THEN reviewed \cup {program.file}
                                                       ELSE reviewed
         ELSE /\ Goto(r, "done")
              /\ UNCHANGED <<snap, reviewed>>
    /\ UNCHANGED <<job, zip, program, icons, key, held, installed, overtaken>>

\* UPDATE .. WHERE id: whatever the row holds by now.
Overtakes(r) == StillThere(r) /\ program.file # snap[r].file

StatusWrite(r) ==
    /\ pc[r] = "status"
    /\ IF StillThere(r) THEN program' = [program EXCEPT !.status = job[r].op]
                        ELSE UNCHANGED program
    /\ overtaken' = (overtaken \/ Overtakes(r))
    /\ Goto(r, IF job[r].op = "published" THEN "key" ELSE "done")
    /\ UNCHANGED <<job, snap, zip, icons, key, held, installed, reviewed>>

\* --------------------------------------------------------------------- signing
KeyRead(r) ==
    /\ Is(r, "signing-key", "new") \/ pc[r] = "key"
    /\ IF key # Nothing THEN /\ held' = [held EXCEPT ![r] = key]
                             /\ Goto(r, IF job[r].op = "signing-key" THEN "done" ELSE "sign")
                        ELSE /\ Goto(r, "generate")
                             /\ UNCHANGED held
    /\ UNCHANGED <<job, snap, zip, program, icons, key, installed, reviewed, overtaken>>

KeyInsert(r) ==
    /\ pc[r] = "generate"
    /\ key' = IF key = Nothing THEN r ELSE key
    /\ held' = [held EXCEPT ![r] = StoredKey(r)]
    /\ Goto(r, IF job[r].op = "signing-key" THEN "done" ELSE "sign")
    /\ UNCHANGED <<job, snap, zip, program, icons, installed, reviewed, overtaken>>

\* The bytes signed are those of the file the row named when it was read.
SignWrite(r) ==
    /\ pc[r] = "sign"
    /\ IF StillThere(r)
         THEN program' = [program EXCEPT !.sig = [file |-> snap[r].file, key |-> held[r]]]
         ELSE UNCHANGED program
    /\ overtaken' = (overtaken \/ Overtakes(r))
    /\ Goto(r, "done")
    /\ UNCHANGED <<job, snap, zip, icons, key, held, installed, reviewed>>

\* A statement or a read of the storage fails: an upload ends, a publish is answered
\* 200 without its signature.
Fail(r) ==
    /\ pc[r] \in {"icon", "write", "status", "key", "generate", "sign"}
    /\ Goto(r, "done")
    /\ UNCHANGED <<job, snap, zip, program, icons, key, held, installed, reviewed,
                   overtaken>>

\* --------------------------------------------------- List, DownloadPackage, install
MayRun(p, u) == p.owner = u \/ p.status = "published"

ListItem(r) ==
    /\ Is(r, "install", "new")
    /\ IF program # Nothing /\ MayRun(program, job[r].user)
         THEN Keep(r, program) /\ Goto(r, "download")
         ELSE UNCHANGED snap /\ Goto(r, "done")
    /\ UNCHANGED <<job, zip, program, icons, key, held, installed, reviewed, overtaken>>

\* The client refuses bytes that are not those whose sha256 it was offered, and those
\* whose signature it was offered and does not verify.
Authentic(item, file) ==
    /\ file = item.file
    /\ item.sig # Nothing => item.sig = [file |-> file, key |-> key]

Install(r) ==
    /\ Is(r, "install", "download")
    /\ installed' = [installed EXCEPT ![r] =
                        IF /\ StillThere(r) /\ MayRun(program, job[r].user)
                           /\ Authentic(snap[r], program.file)
                        THEN program.file ELSE Nothing]
    /\ Goto(r, "done")
    /\ UNCHANGED <<job, snap, zip, program, icons, key, held, reviewed, overtaken>>

\* --------------------------------------------------------------------- startup
\* The requests in flight are gone; before it listens again the server signs what is
\* published without a signature, unless reading or signing fails.
Backfilled(signed) ==
    IF /\ signed /\ program # Nothing
       /\ program.status = "published" /\ program.sig = Nothing
    THEN [program EXCEPT !.sig = [file |-> program.file, key |-> key']]
    ELSE program

Restart(r, signed) ==
    /\ Is(r, "restart", "new")
    /\ pc' = [o \in Requests |-> IF o # r /\ pc[o] = "new" THEN "new" ELSE "done"]
    /\ \/ key' = key /\ (signed => key # Nothing)
       \/ key = Nothing /\ key' = r
    /\ program' = Backfilled(signed)
    /\ UNCHANGED <<job, snap, zip, icons, held, installed, reviewed, overtaken>>

PackageStep(r) ==
    \/ \E p \in Packages : UploadCheck(r, p)
    \/ UploadIcon(r) \/ UploadWrite(r)
    \/ DeletePrivate(r)
    \/ StatusRead(r) \/ StatusWrite(r)
    \/ KeyRead(r) \/ KeyInsert(r) \/ SignWrite(r)
    \/ ListItem(r) \/ Install(r)
    \/ Fail(r)

\* ------------------------------------------------------------------ properties
PackageTypeOK ==
    /\ program # Nothing =>
          /\ program.id \in Requests /\ program.file \in Requests /\ program.owner \in Users
          /\ program.pkg \in Packages
          /\ program.status \in {"private", "published", "disabled"}

\* A stored package's entries really fit the limit, whatever sizes they declare
\* (validate.go:112-122, the addition that must not wrap).
StoredFits ==
    program # Nothing =>
        LET s == program.pkg.sizes
            total[n \in 0..Len(s)] == IF n = 0 THEN 0 ELSE total[n - 1] + s[n]
        IN  total[Len(s)] <= MaxBytes

\* Whoever signs or asks for the key has the one stored pair, however many raced to
\* create it (SigningKeyRepo.Ensure).
OneKey ==
    /\ \A r \in Requests : held[r] # Nothing => held[r] = key
    /\ program # Nothing /\ program.sig # Nothing => program.sig.key = key

\* The signature on the row is of the package the row names.
SignatureIsOfPackage ==
    program # Nothing /\ program.sig # Nothing => program.sig.file = program.file

\* What is published was read by the administrator's request that published it, and is
\* signed as it is, unless a new version came between that request's read and its writes.
PublishedAsReviewed ==
    ~overtaken => /\ SignatureIsOfPackage
                  /\ program # Nothing /\ program.status # "private" =>
                        program.file \in reviewed
=============================================================================
