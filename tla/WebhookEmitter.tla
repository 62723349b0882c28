--------------------------- MODULE WebhookEmitter ---------------------------
(***************************************************************************)
(* The webhook emitter: the retry loop around one POST, the delivery log   *)
(* that gets a row per attempt, and the re-delivery of a logged row.       *)
(*                                                                         *)
(* Every emission runs a loop of its own; the loops interleave wherever    *)
(* one waits for the receiver (at most the request timeout) or sleeps      *)
(* before a retry.  The log is a table of the database: a reset wipes it   *)
(* under the running loops, an import replaces it by the rows of a         *)
(* snapshot file, a restart keeps it and loses the loops.                  *)
(***************************************************************************)
EXTENDS Naturals, FiniteSets

CONSTANTS
  Events,            \* webhook envelopes to announce, each announced once
  MaxAttempts,       \* Len(DEFAULT_RETRY_DELAYS_MS)
  MaxRedeliveries,   \* bound: re-deliveries of one event
  MaxDisruptions     \* bound: resets, imports and restarts of one behaviour

ASSUME EmitterAssumption ==
  /\ MaxAttempts \in Nat \ {0}
  /\ MaxRedeliveries \in Nat
  /\ MaxDisruptions \in Nat

\* <<e, 0>> is the emission of e, <<e, k>> its k-th re-delivery.
Loops == Events \X (0 .. MaxRedeliveries)

\* What an attempt comes to: a 2xx, any other answer below 500, a 5xx, and no
\* answer (refused, reset or timed out, whether or not the request arrived).
Outcome == {"ok", "refused", "error", "network"}

Row == [loop : Loops, attempt : 1 .. MaxAttempts, outcome : Outcome \cup {"skipped"}]

VARIABLES
  configured,    \* is WHALOC_WEBHOOK_URL set?
  phase,         \* where a loop is
  ended,         \* how many attempts of a loop have their outcome
  last,          \* the outcome of the latest one
  log,           \* the webhook_deliveries table
  wiped,         \* how many attempts of a loop had ended when the log was last wiped
  file,          \* the webhook_deliveries rows of the snapshot exported last
  restored,      \* the rows the wipe brought back: history
  disruptions    \* resets, imports and restarts so far

emitterVars == <<configured, phase, ended, last, log, wiped, file, restored, disruptions>>
loopVars == <<phase, ended, last>>
tableVars == <<wiped, file, restored>>

Running == {"posting", "sleeping"}

-----------------------------------------------------------------------------
(* The loop *)

\* Mutant: a 4xx counts as transient.
RetryAnyFailure(o) == o # "ok"

\* Transient is a 5xx or no answer at all.
IsRetryable(o) == o \in {"error", "network"}

\* #record(): one immutable row, inserted once the outcome is known.
Record(l, n, o) == log' = log \cup {[loop |-> l, attempt |-> n, outcome |-> o]}

\* #deliver() up to the first request, which goes out at once (a delay of 0),
\* or up to the row of a delivery nobody is configured to receive.
Start(l) ==
  /\ phase[l] = "idle"
  /\ IF configured
     THEN /\ phase' = [phase EXCEPT ![l] = "posting"]
          /\ UNCHANGED <<ended, last, log>>
     ELSE /\ phase' = [phase EXCEPT ![l] = "done"]
          /\ ended' = [ended EXCEPT ![l] = 1]
          /\ last' = [last EXCEPT ![l] = "skipped"]
          /\ Record(l, 1, "skipped")

-----------------------------------------------------------------------------
EmitterInit ==
  /\ configured \in BOOLEAN
  /\ phase = [l \in Loops |-> "idle"]
  /\ ended = [l \in Loops |-> 0]
  /\ last = [l \in Loops |-> "none"]
  /\ log = {}
  /\ wiped = [l \in Loops |-> 0]
  /\ file = {}
  /\ restored = {}
  /\ disruptions = 0

\* emit(): called by the domain services, never waited for.
Emit(e) ==
  /\ Start(<<e, 0>>)
  /\ UNCHANGED <<configured, tableVars, disruptions>>

\* redeliver(): the row must be in the log, its loop may still be running.
Redeliver(row, k) ==
  /\ row \in log
  /\ k \in 1 .. MaxRedeliveries
  /\ \A j \in 1 .. k - 1 : phase[<<row.loop[1], j>>] # "idle"
  /\ Start(<<row.loop[1], k>>)
  /\ UNCHANGED <<configured, tableVars, disruptions>>

\* Mutant: an attempt without an answer does not count.
AttemptEndsUncounted(l, o) ==
  /\ phase[l] = "posting"
  /\ ended' = [ended EXCEPT ![l] = IF o = "network" THEN @ ELSE @ + 1]
  /\ last' = [last EXCEPT ![l] = o]
  /\ Record(l, ended[l] + 1, o)
  /\ phase' = [phase EXCEPT ![l] =
                 IF IsRetryable(o) /\ ended'[l] < MaxAttempts THEN "sleeping" ELSE "done"]
  /\ UNCHANGED <<configured, tableVars, disruptions>>

\* The answer, the network failure or the timeout of an attempt; its row; then
\* the end of the loop or the sleep before the next attempt.
AttemptEnds(l, o) ==
  /\ phase[l] = "posting"
  /\ ended' = [ended EXCEPT ![l] = @ + 1]
  /\ last' = [last EXCEPT ![l] = o]
  /\ Record(l, ended[l] + 1, o)
  /\ phase' = [phase EXCEPT ![l] =
                 IF IsRetryable(o) /\ ended[l] + 1 < MaxAttempts THEN "sleeping" ELSE "done"]
  /\ UNCHANGED <<configured, tableVars, disruptions>>

\* The sleep is over: the same body goes out again.
Retry(l) ==
  /\ phase[l] = "sleeping"
  /\ phase' = [phase EXCEPT ![l] = "posting"]
  /\ UNCHANGED <<configured, ended, last, log, tableVars, disruptions>>

Disrupt ==
  /\ disruptions < MaxDisruptions
  /\ disruptions' = disruptions + 1

\* readAll() of GET /api/export?include=deliveries.  One export is enough: until
\* then the file is one that was exported without the log.
Export ==
  /\ file = {}
  /\ file' = log
  /\ UNCHANGED <<configured, loopVars, log, wiped, restored, disruptions>>

\* Mutant: the file's rows are added to the log that is there.
ReplaceLogKeeping(rows) ==
  /\ Disrupt
  /\ log' = log \cup rows
  /\ restored' = rows
  /\ wiped' = ended
  /\ UNCHANGED <<configured, loopVars, file>>

\* The log is emptied and gets these rows, in one transaction; the loops are not
\* told.
ReplaceLog(rows) ==
  /\ Disrupt
  /\ log' = rows
  /\ restored' = rows
  /\ wiped' = ended
  /\ UNCHANGED <<configured, loopVars, file>>

\* deleteAllRows() of a reset; also the import of a file exported without the
\* log.
WipeLog == ReplaceLog({})

\* replaceAll() of an import: the file's rows come back.  A file of another server
\* has rows of other deliveries.
Import == ReplaceLog(file)

\* The process ends and starts again, perhaps with another environment.
EmitterRestart ==
  /\ Disrupt
  /\ phase' = [l \in Loops |-> IF phase[l] \in Running THEN "lost" ELSE phase[l]]
  /\ configured' \in BOOLEAN
  /\ UNCHANGED <<ended, last, log, tableVars>>

EmitterNext ==
  \/ \E e \in Events : Emit(e)
  \/ \E row \in log, k \in 1 .. MaxRedeliveries : Redeliver(row, k)
  \/ \E l \in Loops : Retry(l) \/ \E o \in Outcome : AttemptEnds(l, o)
  \/ Export
  \/ WipeLog
  \/ Import
  \/ EmitterRestart

\* A request ends within its timeout and a sleep is a timer: both without the
\* receiver's help.
Fairness ==
  \A l \in Loops : WF_emitterVars(Retry(l)) /\ WF_emitterVars(\E o \in Outcome : AttemptEnds(l, o))

EmitterSpec == EmitterInit /\ [][EmitterNext]_emitterVars
FairSpec == EmitterSpec /\ Fairness

-----------------------------------------------------------------------------
(* What the emitter promises *)

\* Every variable has its type.
EmitterTypes ==
  /\ configured \in BOOLEAN
  /\ phase \in [Loops -> Running \cup {"idle", "done", "lost"}]
  /\ ended \in [Loops -> 0 .. MaxAttempts]
  /\ last \in [Loops -> Outcome \cup {"none", "skipped"}]
  /\ log \subseteq Row
  /\ wiped \in [Loops -> 0 .. MaxAttempts]
  /\ file \subseteq Row
  /\ restored \subseteq Row
  /\ disruptions \in Nat

AttemptsLogged(l) == {row.attempt : row \in {r \in log \ restored : r.loop = l}}

OneRowEach(rows) ==
  \A r1, r2 \in rows : r1.loop = r2.loop /\ r1.attempt = r2.attempt => r1 = r2

\* "Every attempt is logged": besides the rows the last import brought back, all
\* still there, the rows of a delivery are exactly its attempts that ended since
\* the log was last wiped, with no gap, and no attempt has two rows - with other
\* loops, re-deliveries, exports, resets, imports and restarts in between.
EveryAttemptLogged ==
  /\ restored \subseteq log
  /\ OneRowEach(log)
  /\ \A l \in Loops : AttemptsLogged(l) = wiped[l] + 1 .. ended[l]

\* "Only on a 5xx or a network error": an attempt that another one followed, or
\* is about to, was transient; no POST goes out after an answer.
RetriesOnlyTransient ==
  \A row \in log :
    row.attempt < ended[row.loop] \/ phase[row.loop] \in Running => row.outcome \in {"error", "network"}

\* How a delivery stands, as the contract sees it: an answer decides, wherever
\* the loop is.
Fate ==
  [l \in Loops |->
     CASE last[l] = "skipped" -> "skipped"
       [] last[l] = "ok" -> "acknowledged"
       [] last[l] = "refused" -> "rejected"
       [] OTHER -> CASE phase[l] = "idle" -> "none"
                     [] phase[l] \in Running -> "pending"
                     [] phase[l] = "lost" -> "lost"
                     [] OTHER -> "abandoned"]

Contract == INSTANCE DeliveryContract WITH Deliveries <- Loops, fate <- Fate, tries <- ended

\* The loop, its sleeps and its log implement the contract: an answer is final,
\* and only the last attempt gives up.
KeepsContract == Contract!ContractSpec

\* A delivery under way is settled, and its row is there to see, however often
\* the receiver fails - unless a restart takes the loop away.
EventuallySettled ==
  \A l \in Loops : phase[l] \in Running ~> phase[l] \in {"done", "lost"}
=============================================================================
