---------------------------- MODULE StatusLadder ----------------------------
(***************************************************************************)
(* The status ladder: what happens to a message row after it was stored.   *)
(*                                                                         *)
(* An outbound message starts at "accepted" and climbs to "sent" and       *)
(* "delivered" on timers (and to "read" when the configuration gives that  *)
(* rung a delay); the control plane may move it by hand; a read receipt    *)
(* from the business moves an inbound one.  Each move is announced with    *)
(* one status webhook.  The rows live in the database and survive a        *)
(* restart, the timers live in the process and do not.                     *)
(*                                                                         *)
(* One action is one stretch of a handler that the event loop cannot       *)
(* interrupt: the SQLite driver resumes every query in a microtask, so     *)
(* only storage I/O, fetch and timers let another handler in.              *)
(***************************************************************************)
EXTENDS Naturals, Sequences, FiniteSets

CONSTANTS
  Outbound,        \* ids a send will mint (random wamids, so never minted twice)
  Inbound,         \* ids a simulated inbound message will mint
  Phones,          \* ids of business phone numbers
  PhoneOf,         \* the number each message is sent from or received on
  SeedPhones,      \* the numbers the seed creates at boot and on a reset
  ReadAuto,        \* does WHALOC_STATUS_DELAYS give "read" a delay?
  MaxAnnounced,    \* bound: manual transitions stop after this many webhooks
  MaxDisruptions   \* bound: resets, imports and restarts of one behaviour

Messages == Outbound \cup Inbound

ASSUME LadderAssumption ==
  /\ Outbound \cap Inbound = {}
  /\ PhoneOf \in [Messages -> Phones]
  /\ SeedPhones \subseteq Phones
  /\ ReadAuto \in BOOLEAN
  /\ MaxAnnounced \in Nat
  /\ MaxDisruptions \in Nat

Status == {"accepted", "sent", "delivered", "read", "failed"}
WebhookStatus == Status \ {"accepted"}
ManualStatus == {"delivered", "read", "failed"}
Rung == {"sent", "delivered", "read"}

\* A row that was never inserted, and one that a delete, a reset or an import
\* removed: its random id never comes back except through an import.
Absent == {"unminted", "gone"}

STATUS_ORDER == [accepted |-> 0, sent |-> 1, delivered |-> 2, read |-> 3, failed |-> 4]

\* Mutant: the order alone decides, so "failed" looks like any other rung below.
CanTransitionUnlessFailed(current, next) ==
  STATUS_ORDER[next] > STATUS_ORDER[current] \/ current = "failed"

\* Mutant: a status the message already has is announced again.
CanRepeat(current, next) ==
  current # "failed" /\ STATUS_ORDER[next] >= STATUS_ORDER[current]

CanTransition(current, next) ==
  current # "failed" /\ STATUS_ORDER[next] > STATUS_ORDER[current]

\* Mutant: the climb stops after its first rung.
NoRungAfterSent(s) == IF s = "delivered" /\ ReadAuto THEN "read" ELSE "none"

\* The rung a climb queues after it reached s, "none" when it is done.
NextRung(s) ==
  CASE s = "sent" -> "delivered"
    [] s = "delivered" /\ ReadAuto -> "read"
    [] OTHER -> "none"

VARIABLES
  status,       \* messages.status, or why there is no such row
  phones,       \* the rows of phone_numbers
  timers,       \* the timers the event loop holds, as <<message, rung>>
  pending,      \* #pending: the timer the ladder knows for a message
  emitted,      \* the status webhooks handed to the emitter for the present row
  resets,       \* resets waiting for the storage between their two halves
  snapshot,     \* the exported state file somebody kept, as a set of at most one
  disruptions   \* resets, imports and restarts so far

vars == <<status, phones, timers, pending, emitted, resets, snapshot, disruptions>>
rows == <<status, phones, emitted>>
clock == <<timers, pending>>
control == <<resets, snapshot, disruptions>>

Present(m) == status[m] \in Status

-----------------------------------------------------------------------------
(* #pending and the timers behind it *)

KnownTimers == {<<m, pending[m]>> : m \in Messages}

\* cancel(): a no-op for a message without a pending timer.
Cancel(m) ==
  /\ timers' = timers \ {<<m, pending[m]>>}
  /\ pending' = [pending EXCEPT ![m] = "none"]

CancelAll ==
  /\ timers' = timers \ KnownTimers
  /\ pending' = [m \in Messages |-> "none"]

\* #schedule(): replaces whatever was queued for the message.
Schedule(m, rung) ==
  /\ timers' = (timers \ {<<m, pending[m]>>}) \cup {<<m, rung>>}
  /\ pending' = [pending EXCEPT ![m] = rung]

\* #emit(): looks the phone number up again and stays silent when it is gone.
Announced(m, s) ==
  IF PhoneOf[m] \in phones THEN [emitted EXCEPT ![m] = Append(@, s)] ELSE emitted

\* #transition(): the new status is stored first and announced next.
Transition(m, s) ==
  /\ status' = [status EXCEPT ![m] = s]
  /\ emitted' = Announced(m, s)

-----------------------------------------------------------------------------
Init ==
  /\ status = [m \in Messages |-> "unminted"]
  /\ phones = SeedPhones
  /\ timers = {}
  /\ pending = [m \in Messages |-> "none"]
  /\ emitted = [m \in Messages |-> <<>>]
  /\ resets = 0
  /\ snapshot = {}
  /\ disruptions = 0

\* POST /{phone}/messages.  The other refusals (a number that is not CONNECTED,
\* an unknown recipient, a template that is not sendable) change nothing, so
\* they are sends that do not happen.
Send(m) ==
  /\ m \in Outbound
  /\ status[m] = "unminted"
  /\ PhoneOf[m] \in phones
  /\ status' = [status EXCEPT ![m] = "accepted"]
  /\ Schedule(m, "sent")
  /\ UNCHANGED <<phones, emitted, control>>

\* POST /api/inbound: stored as "delivered", no ladder.
SimulateInbound(m) ==
  /\ m \in Inbound
  /\ status[m] = "unminted"
  /\ PhoneOf[m] \in phones
  /\ status' = [status EXCEPT ![m] = "delivered"]
  /\ UNCHANGED <<phones, emitted, clock, control>>

\* A due timer: the entry is dropped, then #climb applies the rung when the
\* row is still there and still behind it, and queues the next one.
Fire(m, rung) ==
  /\ <<m, rung>> \in timers
  /\ IF Present(m) /\ CanTransition(status[m], rung)
     THEN /\ Transition(m, rung)
          /\ timers' = (timers \ {<<m, rung>>})
                         \cup (IF NextRung(rung) = "none" THEN {} ELSE {<<m, NextRung(rung)>>})
          /\ pending' = [pending EXCEPT ![m] = NextRung(rung)]
     ELSE /\ timers' = timers \ {<<m, rung>>}
          /\ pending' = [pending EXCEPT ![m] = "none"]
          /\ UNCHANGED <<status, emitted>>
  /\ UNCHANGED <<phones, control>>

\* Mutant: the manual transition leaves the queued rung alone.
MarkWithoutCancel(m, s) ==
  /\ Present(m)
  /\ Len(emitted[m]) < MaxAnnounced
  /\ CanTransition(status[m], s)
  /\ Transition(m, s)
  /\ UNCHANGED <<clock, phones, control>>

\* POST /api/messages/:id/status.  The timer is cancelled before the check, so
\* a refused transition (409) cancels it as well.  An inbound id is accepted.
MarkStatus(m, s) ==
  /\ Present(m)
  /\ Len(emitted[m]) < MaxAnnounced
  /\ Cancel(m)
  /\ IF CanTransition(status[m], s) THEN Transition(m, s) ELSE UNCHANGED <<status, emitted>>
  /\ UNCHANGED <<phones, control>>

\* POST /{phone}/messages with status "read": inbound only, no webhook, and no
\* look at STATUS_ORDER.
ReadReceipt(m) ==
  /\ m \in Inbound
  /\ Present(m)
  /\ status[m] # "read"
  /\ status' = [status EXCEPT ![m] = "read"]
  /\ UNCHANGED <<phones, emitted, clock, control>>

-----------------------------------------------------------------------------
(* What takes rows away, or the timers *)

\* POST /api/phone-numbers: an explicit id is honoured, a deleted one included.
CreatePhone(p) ==
  /\ p \notin phones
  /\ phones' = phones \cup {p}
  /\ UNCHANGED <<status, emitted, clock, control>>

\* DELETE of a phone number (or of its WABA): the schema cascades to its
\* messages, the timers are not told.
DeletePhone(p) ==
  /\ p \in phones
  /\ phones' = phones \ {p}
  /\ status' = [m \in Messages |-> IF PhoneOf[m] = p /\ Present(m) THEN "gone" ELSE status[m]]
  /\ emitted' = [m \in Messages |-> IF PhoneOf[m] = p THEN <<>> ELSE emitted[m]]
  /\ UNCHANGED <<clock, control>>

Disrupt ==
  /\ disruptions < MaxDisruptions
  /\ disruptions' = disruptions + 1

\* POST /api/reset up to its first storage delete: timers first, then I/O.
ResetBegin ==
  /\ Disrupt
  /\ CancelAll
  /\ resets' = resets + 1
  /\ UNCHANGED <<rows, snapshot>>

\* ... and after the last one: every row goes, the seed comes back.
ResetFinish ==
  /\ resets > 0
  /\ resets' = resets - 1
  /\ status' = [m \in Messages |-> IF Present(m) THEN "gone" ELSE status[m]]
  /\ emitted' = [m \in Messages |-> <<>>]
  /\ phones' = SeedPhones
  /\ UNCHANGED <<clock, snapshot, disruptions>>

\* GET /api/export
ExportState ==
  /\ snapshot' = {[status |-> status, phones |-> phones]}
  /\ UNCHANGED <<rows, clock, resets, disruptions>>

\* POST /api/import: timers are dropped and none is armed for the rows that
\* come back.
ImportState ==
  \E file \in snapshot :
    /\ Disrupt
    /\ CancelAll
    /\ status' = [m \in Messages |->
                    IF file.status[m] \in Status THEN file.status[m]
                    ELSE IF Present(m) THEN "gone" ELSE status[m]]
    /\ phones' = file.phones
    /\ emitted' = [m \in Messages |-> <<>>]
    /\ UNCHANGED <<resets, snapshot>>

\* The process ends and comes back over the same database file: every timer
\* and every handler between two I/O calls is gone, the seed is applied again.
Restart ==
  /\ Disrupt
  /\ timers' = {}
  /\ pending' = [m \in Messages |-> "none"]
  /\ resets' = 0
  /\ phones' = phones \cup SeedPhones
  /\ UNCHANGED <<status, emitted, snapshot>>

-----------------------------------------------------------------------------
Next ==
  \/ \E m \in Messages : Send(m) \/ SimulateInbound(m) \/ ReadReceipt(m)
  \/ \E m \in Messages, rung \in Rung : Fire(m, rung)
  \/ \E m \in Messages, s \in ManualStatus : MarkStatus(m, s)
  \/ \E p \in Phones : CreatePhone(p) \/ DeletePhone(p)
  \/ ResetBegin \/ ResetFinish \/ ExportState \/ ImportState \/ Restart

\* Node fires a timer that is due, whatever else it does: that is all the
\* progress the ladder relies on.
Fairness == \A m \in Messages, rung \in Rung : WF_vars(Fire(m, rung))

Spec == Init /\ [][Next]_vars
FairSpec == Spec /\ Fairness

-----------------------------------------------------------------------------
(* What the ladder promises *)

\* Every variable has its type: the rows, the timers and the history of the
\* webhooks handed over.
TypeOK ==
  /\ status \in [Messages -> Status \cup Absent]
  /\ phones \subseteq Phones
  /\ timers \subseteq Messages \X Rung
  /\ pending \in [Messages -> Rung \cup {"none"}]
  /\ emitted \in [Messages -> Seq(WebhookStatus)]
  /\ resets \in Nat
  /\ snapshot \subseteq [status : [Messages -> Status \cup Absent], phones : SUBSET Phones]
  /\ disruptions \in Nat

\* The timers the event loop holds are exactly the ones #pending knows, at most
\* one per message: nothing the ladder believes cancelled is still armed, after
\* any mix of climbs, manual transitions, resets and imports.
TimersTracked ==
  timers = {<<m, pending[m]>> : m \in {k \in Messages : pending[k] # "none"}}

\* The rung after s, from the send on.
RungAfter(s) ==
  CASE s = "accepted" -> "sent"
    [] s = "sent" -> "delivered"
    [] s = "delivered" /\ ReadAuto -> "read"
    [] OTHER -> "none"

\* A timer armed for a row that exists is for the very next rung of that row:
\* no order of manual transitions and timers leaves one behind that would
\* announce a status the message has passed, or one after "failed".
TimerIsNextRung ==
  \A m \in Messages :
    Present(m) /\ pending[m] # "none" =>
      m \in Outbound /\ pending[m] = RungAfter(status[m])

\* One status comes strictly later than another, "failed" after all.
Climbs(a, b) == a # "failed" /\ STATUS_ORDER[a] < STATUS_ORDER[b]

\* A row never outlives its number (the schema cascades), so the branch of
\* #emit that drops a webhook for an unknown number is never taken.
RowsHaveTheirPhone ==
  \A m \in Messages : Present(m) => PhoneOf[m] \in phones

\* The consumer is told about an outbound message in climbing order, never
\* twice about one status, and the last webhook handed over is the status the
\* row has.
ConsumerToldInOrder ==
  \A m \in Outbound :
    /\ \A i \in 1 .. Len(emitted[m]) - 1 : Climbs(emitted[m][i], emitted[m][i + 1])
    /\ Present(m) /\ emitted[m] # <<>> => status[m] = emitted[m][Len(emitted[m])]

\* No step but an import moves an outbound message backwards or out of
\* "failed": not a late timer, not a manual transition, not a restart.
ForwardOnly ==
  [][\A m \in Outbound :
       Present(m) /\ Present(m)' /\ status'[m] # status[m] =>
         Climbs(status[m], status'[m]) \/ ImportState]_vars

\* A message with a queued rung reaches "delivered" or goes past it (or its row
\* is deleted), unless a reset, an import or a restart comes in between: manual
\* transitions, deletes and other messages' timers do not strand it.
ReachesDelivered ==
  \A m \in Outbound, d \in 0 .. MaxDisruptions :
    pending[m] # "none" /\ disruptions = d
      ~> status[m] \in {"delivered", "read", "failed"} \cup Absent \/ disruptions > d
=============================================================================
