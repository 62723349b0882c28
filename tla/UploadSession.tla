---------------------------- MODULE UploadSession ----------------------------
(***************************************************************************)
(* One session of the resumable upload API, from its opening to its        *)
(* handle.  A chunk is appended by rewriting the object: read what is      *)
(* stored, put the concatenation back under the same key, then update the  *)
(* row.  The row is in the database, the object in the media directory,    *)
(* and every access to the directory lets other handlers in.               *)
(*                                                                         *)
(* The bytes of the client's file are numbered 1 .. FileLength, so a       *)
(* stored object is a sequence of such numbers.                            *)
(***************************************************************************)
EXTENDS Naturals, Sequences, FiniteSets

CONSTANTS
  Handlers,        \* POST /upload:<id> requests that can be in flight at once
  FileLength,      \* file_length, as the session was opened
  MaxMishaps,      \* bound: puts that fail, empty bodies, and appends sent beside another one
  MaxDisruptions   \* bound: resets and restarts of one behaviour

ASSUME UploadAssumption ==
  /\ FileLength \in Nat \ {0}
  /\ MaxMishaps \in Nat
  /\ MaxDisruptions \in Nat

VARIABLES
  session,      \* is there a row: "unopened", "open" or "gone"
  received,     \* upload_sessions.received_bytes
  key,          \* upload_sessions.storage_key, 0 while it is null
  handle,       \* upload_sessions.handle, 0 while it is null
  objects,      \* the files of the media directory: storage key -> bytes
  minted,       \* storage keys handed out so far, also counted for handles
  request,      \* where each append is, and what it read before its last wait
  reset,        \* where a reset is
  doomed,       \* the storage keys it listed
  overlapped,   \* did an append run beside another one, or beside a reset?
  torn,         \* did a put fail, or the process end between put and update?
  mishaps,      \* failed puts, empty bodies and concurrent appends so far
  disruptions   \* resets and restarts so far

vars == <<session, received, key, handle, objects, minted, request, reset, doomed,
          overlapped, torn, mishaps, disruptions>>
row == <<session, received, key, handle>>
resetVars == <<reset, doomed>>
bounds == <<mishaps, disruptions>>

Idle == [stage |-> "free", key |-> 0, base |-> <<>>, chunk |-> <<>>]
Stage == {"free", "reading", "putting", "writing", "written"}
Busy == {h \in Handlers : request[h].stage # "free"}

\* The first n bytes of the client's file.
Prefix(n) == [i \in 1 .. n |-> i]

\* Bytes on their way to the object: the row does not tell what it holds.
Rewriting == \E h \in Handlers : request[h].stage \in {"writing", "written"}

-----------------------------------------------------------------------------
Init ==
  /\ session = "unopened"
  /\ received = 0 /\ key = 0 /\ handle = 0
  /\ objects = <<>>
  /\ minted = 0
  /\ request = [h \in Handlers |-> Idle]
  /\ reset = "idle" /\ doomed = {}
  /\ overlapped = FALSE /\ torn = FALSE
  /\ mishaps = 0 /\ disruptions = 0

\* POST /{app}/uploads
CreateSession ==
  /\ session = "unopened"
  /\ session' = "open"
  /\ UNCHANGED <<received, key, handle, objects, minted, request, resetVars, overlapped, torn, bounds>>

\* status() and the client: its next bytes, from the offset GET /upload:<id> reports.
Chunk(n) == [i \in 1 .. n |-> received + i]

\* #stored(): nothing is read before the first chunk.
FirstStage == IF key = 0 \/ received = 0 THEN "putting" ELSE "reading"

Counted(mishap) ==
  IF mishap THEN mishaps < MaxMishaps /\ mishaps' = mishaps + 1 ELSE UNCHANGED mishaps

\* Mutant: a chunk that would be the last one is refused as too long.
BeginShort(h, n) ==
  /\ session = "open"
  /\ handle = 0
  /\ request[h].stage = "free"
  /\ received + n < FileLength
  /\ request' = [request EXCEPT ![h] =
                   [stage |-> FirstStage, key |-> key, base |-> <<>>, chunk |-> Chunk(n)]]
  /\ overlapped' = (overlapped \/ Busy # {} \/ reset # "idle")
  /\ Counted(n = 0 \/ Busy # {})
  /\ UNCHANGED <<row, objects, minted, resetVars, torn, disruptions>>

\* append() up to its first wait: the offset is the row's, the file does not
\* get longer than it was announced, an empty body is fine.  (A session that
\* has its handle answers with it, another offset or a longer body is refused:
\* nothing changes.)
BeginAppend(h, n) ==
  /\ session = "open"
  /\ handle = 0
  /\ request[h].stage = "free"
  /\ received + n <= FileLength
  /\ request' = [request EXCEPT ![h] =
                   [stage |-> FirstStage, key |-> key, base |-> <<>>, chunk |-> Chunk(n)]]
  /\ overlapped' = (overlapped \/ Busy # {} \/ reset # "idle")
  /\ Counted(n = 0 \/ Busy # {})
  /\ UNCHANGED <<row, objects, minted, resetVars, torn, disruptions>>

\* Mutant: what is stored already is not read.
ReadNothing(h) ==
  /\ request[h].stage = "reading"
  /\ request' = [request EXCEPT ![h].stage = "putting"]
  /\ UNCHANGED <<row, objects, minted, resetVars, overlapped, torn, bounds>>

\* get(): the object as it is now; one that is missing counts as empty.
ReadObject(h) ==
  /\ request[h].stage = "reading"
  /\ request' = [request EXCEPT ![h].stage = "putting",
                                ![h].base = IF request[h].key \in DOMAIN objects
                                            THEN objects[request[h].key] ELSE <<>>]
  /\ UNCHANGED <<row, objects, minted, resetVars, overlapped, torn, bounds>>

\* put() up to the open file, which is truncated: the row's key, or a new one.
OpenForWriting(h) ==
  /\ request[h].stage = "putting"
  /\ minted' = IF request[h].key = 0 THEN minted + 1 ELSE minted
  /\ LET k == IF request[h].key = 0 THEN minted + 1 ELSE request[h].key
     IN /\ request' = [request EXCEPT ![h].stage = "writing", ![h].key = k]
        /\ objects' = [j \in DOMAIN objects \cup {k} |-> IF j = k THEN <<>> ELSE objects[j]]
  /\ UNCHANGED <<row, resetVars, overlapped, torn, bounds>>

Combined(h) == request[h].base \o request[h].chunk

\* Two writers of one file each write from its start.
Overlay(bytes, below) ==
  IF Len(bytes) >= Len(below) THEN bytes ELSE bytes \o SubSeq(below, Len(bytes) + 1, Len(below))

\* The bytes are on disk; a file that was removed meanwhile takes them along.
Written(h) ==
  /\ request[h].stage = "writing"
  /\ request' = [request EXCEPT ![h].stage = "written"]
  /\ objects' = [k \in DOMAIN objects |->
                   IF k = request[h].key THEN Overlay(Combined(h), objects[k]) ELSE objects[k]]
  /\ UNCHANGED <<row, minted, resetVars, overlapped, torn, bounds>>

\* Mutant: the handle is minted one byte early.
CommitEarly(h) ==
  /\ request[h].stage = "written"
  /\ request' = [request EXCEPT ![h] = Idle]
  /\ IF session = "open"
     THEN /\ received' = Len(Combined(h))
          /\ key' = request[h].key
          /\ handle' = IF received' + 1 >= FileLength THEN minted + 1 ELSE handle
          /\ minted' = IF received' + 1 >= FileLength THEN minted + 1 ELSE minted
     ELSE UNCHANGED <<received, key, handle, minted>>
  /\ UNCHANGED <<session, objects, resetVars, overlapped, torn, bounds>>

\* The update of the row: what was put decides, not what the row says by now.
Commit(h) ==
  /\ request[h].stage = "written"
  /\ request' = [request EXCEPT ![h] = Idle]
  /\ IF session = "open"
     THEN /\ received' = Len(Combined(h))
          /\ key' = request[h].key
          /\ handle' = IF received' >= FileLength THEN minted + 1 ELSE handle
          /\ minted' = IF received' >= FileLength THEN minted + 1 ELSE minted
     ELSE UNCHANGED <<received, key, handle, minted>>
  /\ UNCHANGED <<session, objects, resetVars, overlapped, torn, bounds>>

\* A put that fails removes the file, the bytes of earlier chunks included.
PutFails(h) ==
  /\ Counted(TRUE)
  /\ request[h].stage = "writing"
  /\ request' = [request EXCEPT ![h] = Idle]
  /\ objects' = [k \in DOMAIN objects \ {request[h].key} |-> objects[k]]
  /\ torn' = TRUE
  /\ UNCHANGED <<row, minted, resetVars, overlapped, disruptions>>

-----------------------------------------------------------------------------
Disrupt ==
  /\ disruptions < MaxDisruptions
  /\ disruptions' = disruptions + 1
  /\ UNCHANGED mishaps

\* Mutant: the reset lists the sessions that have a handle.
ListCompleted ==
  /\ reset = "idle"
  /\ Disrupt
  /\ reset' = "deleting"
  /\ doomed' = IF session = "open" /\ handle # 0 THEN {key} ELSE {}
  /\ overlapped' = (overlapped \/ Busy # {})
  /\ UNCHANGED <<row, objects, minted, request, torn>>

\* POST /api/reset lists the storage keys of the sessions,
ResetLists ==
  /\ reset = "idle"
  /\ Disrupt
  /\ reset' = "deleting"
  /\ doomed' = IF session = "open" /\ key # 0 THEN {key} ELSE {}
  /\ overlapped' = (overlapped \/ Busy # {})
  /\ UNCHANGED <<row, objects, minted, request, torn>>

\* deletes the objects,
ResetDeletes ==
  /\ reset = "deleting"
  /\ reset' = "deleted"
  /\ objects' = [k \in DOMAIN objects \ doomed |-> objects[k]]
  /\ UNCHANGED <<row, minted, request, doomed, overlapped, torn, bounds>>

\* and then the rows.
ResetFinishes ==
  /\ reset = "deleted"
  /\ reset' = "idle" /\ doomed' = {}
  /\ session' = IF session = "open" THEN "gone" ELSE session
  /\ received' = 0 /\ key' = 0 /\ handle' = 0
  /\ UNCHANGED <<objects, minted, request, overlapped, torn, bounds>>

\* The process ends and starts over the same database and directory.
Restart ==
  /\ Disrupt
  /\ request' = [h \in Handlers |-> Idle]
  /\ reset' = "idle" /\ doomed' = {}
  /\ torn' = (torn \/ Rewriting \/ reset = "deleted")
  /\ UNCHANGED <<row, objects, minted, overlapped>>

-----------------------------------------------------------------------------
Next ==
  \/ CreateSession
  \/ \E h \in Handlers, n \in 0 .. FileLength : BeginAppend(h, n)
  \/ \E h \in Handlers :
       ReadObject(h) \/ OpenForWriting(h) \/ Written(h) \/ Commit(h) \/ PutFails(h)
  \/ ResetLists \/ ResetDeletes \/ ResetFinishes
  \/ Restart

\* The storage answers, and the client goes on: it asks for the offset and
\* sends at least one byte from there.
Fairness ==
  /\ \A h \in Handlers : /\ WF_vars(ReadObject(h)) /\ WF_vars(OpenForWriting(h))
                         /\ WF_vars(Written(h)) /\ WF_vars(Commit(h))
  /\ WF_vars(\E h \in Handlers, n \in 1 .. FileLength : Busy = {} /\ BeginAppend(h, n))
  /\ WF_vars(ResetDeletes) /\ WF_vars(ResetFinishes)

Spec == Init /\ [][Next]_vars
FairSpec == Spec /\ Fairness

-----------------------------------------------------------------------------
(* What the upload promises *)

\* Every variable has its type.
TypeOK ==
  /\ session \in {"unopened", "open", "gone"}
  /\ received \in Nat /\ minted \in Nat
  /\ key \in 0 .. minted /\ handle \in 0 .. minted
  /\ DOMAIN objects \subseteq 1 .. minted
  /\ \A k \in DOMAIN objects : objects[k] \in Seq(1 .. FileLength)
  /\ request \in [Handlers -> [stage : Stage, key : 0 .. minted,
                               base : Seq(1 .. FileLength), chunk : Seq(1 .. FileLength)]]
  /\ reset \in {"idle", "deleting", "deleted"}
  /\ doomed \subseteq 1 .. minted
  /\ overlapped \in BOOLEAN /\ torn \in BOOLEAN
  /\ mishaps \in 0 .. MaxMishaps /\ disruptions \in 0 .. MaxDisruptions

\* "The offset is truthful": the object holds the first received bytes of the
\* file, neither more nor fewer, whenever no append is rewriting it - through
\* chunks of any size, resets and restarts.  Only a failed put, a restart
\* between put and update, and appends that overlap can make it untrue.
OffsetTruthful ==
  session = "open" /\ key # 0 /\ ~overlapped /\ ~torn /\ ~Rewriting /\ reset # "deleted" =>
    key \in DOMAIN objects /\ objects[key] = Prefix(received)

\* "A session is only complete when received_bytes reaches the file_length, and
\* only then does it get a handle" - torn bytes or not, unless appends overlap.
HandleMeansComplete ==
  ~overlapped => (handle # 0 <=> session = "open" /\ received >= FileLength)

\* Storage holds no bytes but the row's and those of an append in flight: a
\* reset leaves none behind.
NoBytesLeftBehind ==
  ~overlapped /\ ~torn =>
    DOMAIN objects \subseteq (IF session = "open" THEN {key} ELSE {}) \cup {request[h].key : h \in Busy}

\* A handle the client was given keeps naming the same bytes until a reset.
HandleKeepsItsBytes ==
  [][~overlapped' /\ handle # 0 /\ session' = "open" /\ reset' = "idle" =>
       handle' = handle /\ key' = key /\ objects' = objects]_vars

\* A client that resumes where GET tells it to gets its handle, whatever
\* failed, overlapped or was interrupted before: no session is stuck at an
\* offset from which it cannot be completed.
SessionCompletes ==
  session = "open" ~> handle # 0 \/ session = "gone"
=============================================================================
