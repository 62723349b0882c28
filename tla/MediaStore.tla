------------------------------ MODULE MediaStore ------------------------------
(***************************************************************************)
(* Media objects: a row in the database, a file in the media directory.    *)
(* No transaction spans the two, so every operation that changes both has  *)
(* a moment in which they disagree, and it waits for the storage in that   *)
(* moment.  The module runs the operations beside each other and says      *)
(* which overlaps leave rows and files agreeing, and which do not.         *)
(*                                                                         *)
(* An object stands for its id, its storage key and its bytes: all three   *)
(* are minted by one upload and never change.                              *)
(***************************************************************************)
EXTENDS Naturals, FiniteSets

CONSTANTS
  Objects,        \* media objects an upload can mint
  Phones,         \* phone number ids
  SeededPhones,   \* those of WHALOC_SEED
  Requests,       \* requests that can be in flight at once
  MaxFailures     \* bound: failing storage calls and restarts

ASSUME MediaAssumption ==
  /\ SeededPhones \subseteq Phones
  /\ "none" \notin Phones
  /\ MaxFailures \in Nat

VARIABLES
  db,         \* the rows: the account, its numbers, and the media with their number
  disk,       \* the objects with a file in the media directory
  uploaded,   \* the objects uploaded so far
  job,        \* what each request is doing
  exported,   \* the last snapshot file that was downloaded
  spoiled,    \* the promises that what happened so far releases the code from
  failures    \* failing storage calls and restarts so far

mediaVars == <<db, disk, uploaded, job, exported, spoiled, failures>>

-----------------------------------------------------------------------------
(* The rows, and what the schema's cascades do to them.                    *)

EmptyDb == [account |-> FALSE, phones |-> {}, owner |-> [o \in Objects |-> "none"]]

Rows(d) == {o \in Objects : d.owner[o] # "none"}
RowsOf(d, p) == {o \in Objects : d.owner[o] = p}

WithoutNumbers(d, P) ==
  [d EXCEPT !.phones = @ \ P,
            !.owner = [o \in Objects |-> IF @[o] \in P THEN "none" ELSE @[o]]]

\* applySeed(): what is missing is inserted
Seeded(d) == [d EXCEPT !.account = TRUE, !.phones = @ \cup SeededPhones]

-----------------------------------------------------------------------------
(* Requests.  "keys" are the objects whose file the request still has to   *)
(* delete (an upload: to write; an export: to read), "later" what comes    *)
(* after them.                                                             *)

NoFile == [db |-> EmptyDb, bytes |-> {}]   \* also the export of a whaloc that holds nothing

Job(op, target, keys, later, file) ==
  [op |-> op, target |-> target, keys |-> keys, later |-> later, file |-> file]

NoJob == Job("idle", "none", {}, {}, NoFile)

Wiping == {"deleteNumber", "deleteAccount", "reset"}
Removing == Wiping \cup {"deleteMedia", "import"}

\* Does wiping request j take number p away?
Covers(j, p) == j.op \in {"deleteAccount", "reset"} \/ (j.op = "deleteNumber" /\ j.target = p)

\* The promises that do not survive requests i and j being in flight together:
\* "files" that every file has a row, "rows" that every row has a file.
Risks(i, j) ==
  LET Pair(A, B) == (i.op \in A /\ j.op \in B) \/ (j.op \in A /\ i.op \in B) IN
  {r \in {"files", "rows"} :
     \/ r = "files" /\ i.op = "upload" /\ Covers(j, i.target)
     \/ r = "files" /\ j.op = "upload" /\ Covers(i, j.target)
     \/ r = "files" /\ Pair({"import"}, Removing \cup {"upload"})
     \/ r = "rows" /\ Pair({"import"}, {"import"})
     \/ r = "rows" /\ Pair({"export"}, Removing)}

\* Request w starts as j.
Starts(w, j) ==
  /\ job[w] = NoJob
  /\ spoiled' = spoiled \cup UNION {Risks(j, job[v]) : v \in Requests \ {w}}

Becomes(w, j) == job' = [job EXCEPT ![w] = j]

\* A request that only touches the database is answered at once.
Waits(w, j) == Becomes(w, IF j.keys \cup j.later = {} THEN NoJob ELSE j)

\* A mishap, and the promises it breaks.
Mishap(broken) ==
  /\ failures < MaxFailures
  /\ failures' = failures + 1
  /\ spoiled' = spoiled \cup broken

-----------------------------------------------------------------------------
MediaInit ==
  /\ db = Seeded(EmptyDb)
  /\ disk = {}
  /\ uploaded = {}
  /\ job = [w \in Requests |-> NoJob]
  /\ exported = NoFile
  /\ spoiled = {}
  /\ failures = 0

\* POST /{phone}/media, up to the first write of the file
BeginUpload(w, o, p) ==
  /\ p \in db.phones
  /\ o \notin uploaded
  /\ uploaded' = uploaded \cup {o}
  /\ disk' = disk \cup {o}
  /\ LET j == Job("upload", p, {o}, {}, NoFile) IN Starts(w, j) /\ Waits(w, j)
  /\ UNCHANGED <<db, exported, failures>>

\* The put is done.  The insert is refused by the foreign key when the number is gone.
EndUpload(w) ==
  /\ job[w].op = "upload"
  /\ LET p == job[w].target IN
       db' = IF p \in db.phones
             THEN [db EXCEPT !.owner = [o \in Objects |-> IF o \in job[w].keys THEN p ELSE @[o]]]
             ELSE db
  /\ Becomes(w, NoJob)
  /\ UNCHANGED <<disk, uploaded, exported, spoiled, failures>>

\* The put fails, and deletes the half-written file.
UploadFails(w) ==
  /\ job[w].op = "upload"
  /\ Mishap({})
  /\ disk' = disk \ job[w].keys
  /\ Becomes(w, NoJob)
  /\ UNCHANGED <<db, uploaded, exported>>

\* DELETE /{media}
BeginDeleteMedia(w, o) ==
  /\ o \in Rows(db)
  /\ LET j == Job("deleteMedia", "none", {o}, {o}, NoFile) IN Starts(w, j) /\ Waits(w, j)
  /\ UNCHANGED <<db, disk, uploaded, exported, failures>>

EndDeleteMedia(w) ==
  /\ job[w].op = "deleteMedia" /\ job[w].keys = {}
  /\ db' = [db EXCEPT !.owner = [o \in Objects |-> IF o \in job[w].later THEN "none" ELSE @[o]]]
  /\ Becomes(w, NoJob)
  /\ UNCHANGED <<disk, uploaded, exported, spoiled, failures>>

\* POST /api/wabas
CreateAccount ==
  /\ ~db.account
  /\ db' = [db EXCEPT !.account = TRUE]
  /\ UNCHANGED <<disk, uploaded, job, exported, spoiled, failures>>

\* POST /api/phone-numbers: an explicit id is honored, so a number can come back.
CreateNumber(p) ==
  /\ db.account
  /\ p \notin db.phones
  /\ db' = [db EXCEPT !.phones = @ \cup {p}]
  /\ UNCHANGED <<disk, uploaded, job, exported, spoiled, failures>>

\* DELETE /api/phone-numbers/:id.  Without media there is nothing to wait for.
BeginDeleteNumber(w, p) ==
  /\ p \in db.phones
  /\ LET j == Job("deleteNumber", p, RowsOf(db, p), {}, NoFile) IN
       /\ Starts(w, j) /\ Waits(w, j)
       /\ db' = IF j.keys = {} THEN WithoutNumbers(db, {p}) ELSE db
  /\ UNCHANGED <<disk, uploaded, exported, failures>>

EndDeleteNumber(w) ==
  /\ job[w].op = "deleteNumber" /\ job[w].keys = {}
  /\ db' = WithoutNumbers(db, {job[w].target})
  /\ Becomes(w, NoJob)
  /\ UNCHANGED <<disk, uploaded, exported, spoiled, failures>>

\* The loop of WabaService.delete over the numbers it listed, in rows d, with
\* "left" to go: numbers without media go at once (the set D); the loop stops at
\* one with media to delete, or gives up at one that has been deleted meanwhile;
\* at the end the account goes and takes along what was added to it since.
Walk(w, d, left) ==
  LET Bare == {q \in left \cap d.phones : RowsOf(d, q) = {}} IN
  \/ \E p \in left \ Bare, D \in SUBSET Bare :
       /\ db' = WithoutNumbers(d, D)
       /\ Becomes(w, IF p \in d.phones
                     THEN Job("deleteAccount", p, RowsOf(d, p), left \ (D \cup {p}), NoFile)
                     ELSE NoJob)
  \/ left \subseteq Bare /\ db' = EmptyDb /\ Becomes(w, NoJob)

\* Mutant: the account is left to the schema's cascades.
BeginDeleteAccountByCascade(w) ==
  /\ db.account
  /\ Starts(w, Job("deleteAccount", "none", {}, db.phones, NoFile))
  /\ Becomes(w, NoJob)
  /\ db' = EmptyDb
  /\ UNCHANGED <<disk, uploaded, exported, failures>>

\* DELETE /api/wabas/:id
BeginDeleteAccount(w) ==
  /\ db.account
  /\ Starts(w, Job("deleteAccount", "none", {}, db.phones, NoFile))
  /\ Walk(w, db, db.phones)
  /\ UNCHANGED <<disk, uploaded, exported, failures>>

NextInAccount(w) ==
  /\ job[w].op = "deleteAccount" /\ job[w].keys = {}
  /\ Walk(w, WithoutNumbers(db, {job[w].target}), job[w].later)
  /\ UNCHANGED <<disk, uploaded, exported, spoiled, failures>>

\* POST /api/reset
BeginReset(w) ==
  /\ LET j == Job("reset", "none", Rows(db), {}, NoFile) IN
       /\ Starts(w, j) /\ Waits(w, j)
       /\ db' = IF j.keys = {} THEN Seeded(EmptyDb) ELSE db
  /\ UNCHANGED <<disk, uploaded, exported, failures>>

EndReset(w) ==
  /\ job[w].op = "reset" /\ job[w].keys = {}
  /\ db' = Seeded(EmptyDb)
  /\ Becomes(w, NoJob)
  /\ UNCHANGED <<disk, uploaded, exported, spoiled, failures>>

\* MediaStorage.delete, in any of the operations above and in an import
DeleteFile(w) ==
  /\ job[w].op \in Removing
  /\ \E o \in job[w].keys :
       /\ disk' = disk \ {o}
       /\ Becomes(w, [job[w] EXCEPT !.keys = @ \ {o}])
  /\ UNCHANGED <<db, uploaded, exported, spoiled, failures>>

\* Best effort, except for DELETE /{media}, which answers 500 and keeps the row.
DeleteFileFails(w) ==
  /\ job[w].op \in Removing
  /\ \E o \in job[w].keys :
       Becomes(w, IF job[w].op = "deleteMedia" THEN NoJob ELSE [job[w] EXCEPT !.keys = @ \ {o}])
  /\ Mishap(IF job[w].op = "deleteMedia" THEN {} ELSE {"files"})
  /\ UNCHANGED <<db, disk, uploaded, exported>>

\* GET /api/export: the rows first, then the files one by one
BeginExport(w) ==
  /\ LET j == Job("export", "none", Rows(db), {}, [db |-> db, bytes |-> {}]) IN
       /\ Starts(w, j) /\ Waits(w, j)
       /\ exported' = IF j.keys = {} THEN j.file ELSE exported
  /\ UNCHANGED <<db, disk, uploaded, failures>>

\* #readObject: the row of an object without a file travels without bytes.
ReadFile(w) ==
  /\ job[w].op = "export"
  /\ \E o \in job[w].keys :
       Becomes(w, [job[w] EXCEPT !.keys = @ \ {o}, !.file.bytes = @ \cup ({o} \cap disk)])
  /\ UNCHANGED <<db, disk, uploaded, exported, spoiled, failures>>

\* Mutant: the numbers are read after the files.
EndExportLate(w) ==
  /\ job[w].op = "export" /\ job[w].keys = {}
  /\ exported' = [job[w].file EXCEPT !.db.phones = db.phones]
  /\ Becomes(w, NoJob)
  /\ UNCHANGED <<db, disk, uploaded, spoiled, failures>>

EndExport(w) ==
  /\ job[w].op = "export" /\ job[w].keys = {}
  /\ exported' = job[w].file
  /\ Becomes(w, NoJob)
  /\ UNCHANGED <<db, disk, uploaded, spoiled, failures>>

\* Mutant: every old file is deleted, and only what is missing when the import starts restored.
BeginImportMissing(w) ==
  /\ \E file \in {exported, NoFile} :
       /\ LET j == Job("import", "none", Rows(db), file.bytes \ disk, NoFile) IN
            Starts(w, j) /\ Waits(w, j)
       /\ db' = file.db
  /\ UNCHANGED <<disk, uploaded, exported, failures>>

\* POST /api/import: the rows in one transaction, then stale files, then the file's bytes.
\* The file is the last one downloaded, or that of an empty whaloc.
BeginImport(w) ==
  /\ \E file \in {exported, NoFile} :
       /\ LET j == Job("import", "none", Rows(db) \ Rows(file.db), file.bytes, NoFile) IN
            Starts(w, j) /\ Waits(w, j)
       /\ db' = file.db
  /\ UNCHANGED <<disk, uploaded, exported, failures>>

RestoreFile(w) ==
  /\ job[w].op = "import" /\ job[w].keys = {}
  /\ \E o \in job[w].later :
       /\ disk' = disk \cup {o}
       /\ Becomes(w, [job[w] EXCEPT !.later = @ \ {o}])
  /\ UNCHANGED <<db, uploaded, exported, spoiled, failures>>

\* A failing put deletes what was stored under the key, and ends the import with a 500.
RestoreFails(w) ==
  /\ job[w].op = "import" /\ job[w].keys = {}
  /\ \E o \in job[w].later : disk' = disk \ {o}
  /\ Mishap({"rows"})
  /\ Becomes(w, NoJob)
  /\ UNCHANGED <<db, uploaded, exported>>

EndImport(w) ==
  /\ job[w].op = "import" /\ job[w].keys = {} /\ job[w].later = {}
  /\ Becomes(w, NoJob)
  /\ UNCHANGED <<db, disk, uploaded, exported, spoiled, failures>>

\* The process ends and starts again over the same database and directory.
RestartOver ==
  /\ LET inFlight == {job[w].op : w \in Requests} IN
       Mishap((IF inFlight \cap {"upload", "import"} # {} THEN {"files"} ELSE {})
                \cup (IF inFlight \cap Removing # {} THEN {"rows"} ELSE {}))
  /\ db' = Seeded(db)
  /\ job' = [w \in Requests |-> NoJob]
  /\ UNCHANGED <<disk, uploaded, exported>>

MediaNext ==
  \/ \E w \in Requests :
       \/ \E o \in Objects, p \in Phones : BeginUpload(w, o, p)
       \/ EndUpload(w) \/ UploadFails(w)
       \/ \E o \in Objects : BeginDeleteMedia(w, o)
       \/ EndDeleteMedia(w)
       \/ \E p \in Phones : BeginDeleteNumber(w, p)
       \/ EndDeleteNumber(w)
       \/ BeginDeleteAccount(w) \/ NextInAccount(w)
       \/ BeginReset(w) \/ EndReset(w)
       \/ DeleteFile(w) \/ DeleteFileFails(w)
       \/ BeginExport(w) \/ ReadFile(w) \/ EndExport(w)
       \/ BeginImport(w) \/ RestoreFile(w) \/ RestoreFails(w) \/ EndImport(w)
  \/ CreateAccount
  \/ \E p \in Phones : CreateNumber(p)
  \/ RestartOver

MediaSpec == MediaInit /\ [][MediaNext]_mediaVars

-----------------------------------------------------------------------------
(* Properties.                                                             *)

\* The object's file is being written, or is on somebody's list to be deleted.
InHand(o) == \E w \in Requests : job[w].op \in {"upload"} \cup Removing /\ o \in job[w].keys

\* No file is left behind: phone-number-service.ts (384-389) and media-cleanup.ts
\* (15-18) promise it of deletes, resets and imports.  It holds whatever runs side by
\* side, except an upload beside the removal of its number, an import beside anything
\* but an export, a file that could not be deleted, and the end of the process.
NoFileLeftBehind ==
  "files" \notin spoiled =>
    \A o \in disk : o \in Rows(db) \/ InHand(o)

\* The request will take the row away, or write the file back.
Pending(o) ==
  \E w \in Requests :
    \/ job[w].op = "deleteMedia" /\ o \in job[w].later
    \/ job[w].op \in Wiping /\ Covers(job[w], db.owner[o])
    \/ job[w].op = "import" /\ o \in job[w].later

\* A row that is there to stay can be downloaded.  Overlaps do less harm in this
\* direction: only two imports, an export beside a delete (its file carries rows
\* without bytes, which an import brings in), a failing restore and the end of the
\* process leave a row without its file.
RowCanBeDownloaded ==
  "rows" \notin spoiled =>
    \A o \in Rows(db) : o \in disk \/ Pending(o)

\* A snapshot file is a database: every row's parent is in it, so replaceAll never
\* fails on a foreign key, and it has bytes for nothing but its rows.  Numbers and
\* accounts are deleted while the export is still reading files.
ExportIsConsistent ==
  /\ \A o \in Rows(exported.db) : exported.db.owner[o] \in exported.db.phones
  /\ exported.db.phones # {} => exported.db.account
  /\ exported.bytes \subseteq Rows(exported.db)
==============================================================================
