---------------------------- MODULE TemplateReview ----------------------------
(***************************************************************************)
(* Template review: creation, edit and deletion over the Graph API, the    *)
(* moderation buttons of the control plane, and the timer that approves a  *)
(* template nobody decided about.                                          *)
(*                                                                         *)
(* A template is known to the app under test by what it was told last: the *)
(* response of its creation says PENDING, every later change is announced  *)
(* with a message_template_status_update webhook.                          *)
(***************************************************************************)
EXTENDS Naturals, FiniteSets

CONSTANTS
  Templates,       \* template ids: the seeded ones, and those a creation will mint
  Seeded,          \* the templates of WHALOC_SEED
  Wabas,           \* business accounts
  SeedWabas,       \* the accounts of WHALOC_SEED
  WabaOf,          \* the account of a template
  NameOf,          \* its name,
  LanguageOf,      \* and its language: unique together within an account
  MaxEditions,     \* bound: contents of one template, edits included
  MaxDisruptions   \* bound: resets, imports and restarts of one behaviour

ASSUME ReviewAssumption ==
  /\ Seeded \subseteq Templates
  /\ SeedWabas \subseteq Wabas
  /\ WabaOf \in [Templates -> Wabas]
  /\ \A t \in Seeded : WabaOf[t] \in SeedWabas
  /\ \A t, u \in Seeded :
       WabaOf[t] = WabaOf[u] /\ NameOf[t] = NameOf[u] /\ LanguageOf[t] = LanguageOf[u] => t = u
  /\ MaxEditions \in Nat \ {0}
  /\ MaxDisruptions \in Nat

Status == {"PENDING", "APPROVED", "REJECTED", "PAUSED", "DISABLED"}
Decision == Status \ {"PENDING"}

\* Never inserted; deleted by a request; replaced by a reset or an import.
Absent == {"unminted", "deleted", "wiped"}

Editions == 1 .. MaxEditions

VARIABLES
  autoApprove,   \* does WHALOC_TEMPLATE_AUTO_APPROVE give a delay?
  wabas,         \* the rows of wabas
  status,        \* templates.status, or why there is no such row
  edition,       \* how often the content of a template was edited
  timers,        \* the timers the event loop holds, as <<template, edition>>
  pending,       \* #pending: the edition the known timer of a template was armed for, or 0
  heard,         \* what the app under test was told last about the present row
  resets,        \* resets waiting for the storage between their two halves
  snapshot,      \* the exported state file somebody kept, as a set of at most one
  disruptions    \* resets, imports and restarts so far

vars == <<autoApprove, wabas, status, edition, timers, pending, heard, resets, snapshot, disruptions>>
clock == <<timers, pending>>
control == <<resets, snapshot, disruptions>>

Present(t) == status[t] \in Status

\* Two templates that findByNameAndLanguage() cannot tell apart.
SameSlot(t, u) ==
  WabaOf[t] = WabaOf[u] /\ NameOf[t] = NameOf[u] /\ LanguageOf[t] = LanguageOf[u]

-----------------------------------------------------------------------------
(* #pending and the timers behind it *)

KnownTimers == {<<t, pending[t]>> : t \in Templates}

\* cancel(), of several templates at once
CancelEach(gone) ==
  /\ timers' = timers \ {<<t, pending[t]>> : t \in gone}
  /\ pending' = [t \in Templates |-> IF t \in gone THEN 0 ELSE pending[t]]

CancelAll == CancelEach(Templates)

\* Mutant: the timer of the previous edition is not cancelled.
ScheduleAnother(t, e) ==
  IF autoApprove
  THEN /\ timers' = timers \cup {<<t, e>>}
       /\ pending' = [pending EXCEPT ![t] = e]
  ELSE UNCHANGED clock

\* Mutant: the setting "off" is overlooked.
ScheduleAlways(t, e) ==
  /\ timers' = (timers \ {<<t, pending[t]>>}) \cup {<<t, e>>}
  /\ pending' = [pending EXCEPT ![t] = e]

\* #scheduleApproval(): a review that is manual has no timer.
ScheduleApproval(t, e) ==
  IF autoApprove
  THEN /\ timers' = (timers \ {<<t, pending[t]>>}) \cup {<<t, e>>}
       /\ pending' = [pending EXCEPT ![t] = e]
  ELSE UNCHANGED clock

-----------------------------------------------------------------------------
(* applySeed(): a seeded account or template that is missing comes back, the  *)
(* template APPROVED and unannounced.                                         *)

Missing(rows) ==
  {t \in Seeded : ~\E u \in Templates : rows[u] \in Status /\ (u = t \/ SameSlot(u, t))}

Reseeded(rows) == [t \in Templates |-> IF t \in Missing(rows) THEN "APPROVED" ELSE rows[t]]

Init ==
  /\ autoApprove \in BOOLEAN
  /\ wabas = SeedWabas
  /\ status = [t \in Templates |-> IF t \in Seeded THEN "APPROVED" ELSE "unminted"]
  /\ edition = [t \in Templates |-> 1]
  /\ timers = {}
  /\ pending = [t \in Templates |-> 0]
  /\ heard = [t \in Templates |-> "nothing"]
  /\ resets = 0
  /\ snapshot = {}
  /\ disruptions = 0

-----------------------------------------------------------------------------
(* The Graph API *)

\* POST /{waba}/message_templates: the answer says PENDING, no webhook.
Create(t) ==
  /\ t \notin Seeded
  /\ status[t] = "unminted"
  /\ WabaOf[t] \in wabas
  /\ ~\E u \in Templates : Present(u) /\ SameSlot(u, t)
  /\ status' = [status EXCEPT ![t] = "PENDING"]
  /\ heard' = [heard EXCEPT ![t] = "PENDING"]
  /\ ScheduleApproval(t, edition[t])
  /\ UNCHANGED <<autoApprove, wabas, edition, control>>

\* Mutant: an edit is as quiet as a creation.
EditQuietly(t) ==
  /\ Present(t)
  /\ edition[t] < MaxEditions
  /\ edition' = [edition EXCEPT ![t] = @ + 1]
  /\ status' = [status EXCEPT ![t] = "PENDING"]
  /\ ScheduleApproval(t, edition[t] + 1)
  /\ UNCHANGED <<autoApprove, wabas, heard, control>>

\* POST /{template}: back to PENDING from wherever it was, announced, and the
\* review starts again.
Edit(t) ==
  /\ Present(t)
  /\ edition[t] < MaxEditions
  /\ edition' = [edition EXCEPT ![t] = @ + 1]
  /\ status' = [status EXCEPT ![t] = "PENDING"]
  /\ heard' = [heard EXCEPT ![t] = "PENDING"]
  /\ ScheduleApproval(t, edition[t] + 1)
  /\ UNCHANGED <<autoApprove, wabas, control>>

\* What a DELETE takes: every language of the template's name, or, with hsm_id,
\* the template alone.
Doomed(t, hsmId) ==
  IF hsmId THEN {t} ELSE {u \in Templates : Present(u) /\ WabaOf[u] = WabaOf[t] /\ NameOf[u] = NameOf[t]}

\* DELETE /{waba}/message_templates
Delete(t, hsmId) ==
  /\ Present(t)
  /\ status' = [u \in Templates |-> IF u \in Doomed(t, hsmId) THEN "deleted" ELSE status[u]]
  /\ heard' = [u \in Templates |-> IF u \in Doomed(t, hsmId) THEN "DELETED" ELSE heard[u]]
  /\ CancelEach(Doomed(t, hsmId))
  /\ UNCHANGED <<autoApprove, wabas, edition, control>>

-----------------------------------------------------------------------------
(* The decisions *)

\* #moderate(), a decision of the control plane about a template in any status:
\* the timer is moot, the decision is stored and announced.
Moderate(t, decision) ==
  /\ Present(t)
  /\ CancelEach({t})
  /\ status' = [status EXCEPT ![t] = decision]
  /\ heard' = [heard EXCEPT ![t] = decision]
  /\ UNCHANGED <<autoApprove, wabas, edition, control>>

\* Mutant: the timer is due, and nothing comes of it.
AutoApproveNothing(t, e) ==
  /\ <<t, e>> \in timers
  /\ timers' = timers \ {<<t, e>>}
  /\ pending' = [pending EXCEPT ![t] = 0]
  /\ UNCHANGED <<autoApprove, wabas, status, heard, edition, control>>

\* A due timer: #autoApprove() approves a template that is still PENDING.
AutoApprove(t, e) ==
  /\ <<t, e>> \in timers
  /\ timers' = timers \ {<<t, e>>}
  /\ pending' = [pending EXCEPT ![t] = 0]
  /\ IF status[t] = "PENDING"
     THEN /\ status' = [status EXCEPT ![t] = "APPROVED"]
          /\ heard' = [heard EXCEPT ![t] = "APPROVED"]
     ELSE UNCHANGED <<status, heard>>
  /\ UNCHANGED <<autoApprove, wabas, edition, control>>

-----------------------------------------------------------------------------
(* What takes rows away, or the timers *)

\* POST /api/wabas: an explicit id is honoured.
CreateWaba(w) ==
  /\ w \notin wabas
  /\ wabas' = wabas \cup {w}
  /\ UNCHANGED <<autoApprove, status, edition, clock, heard, control>>

\* DELETE /api/wabas/:id: its templates go without a webhook, their timers stay.
DeleteWaba(w) ==
  /\ w \in wabas
  /\ wabas' = wabas \ {w}
  /\ status' = [t \in Templates |-> IF WabaOf[t] = w /\ Present(t) THEN "deleted" ELSE status[t]]
  /\ UNCHANGED <<autoApprove, edition, clock, heard, control>>

Disrupt ==
  /\ disruptions < MaxDisruptions
  /\ disruptions' = disruptions + 1

\* POST /api/reset up to its first storage delete
ResetBegin ==
  /\ Disrupt
  /\ CancelAll
  /\ resets' = resets + 1
  /\ UNCHANGED <<autoApprove, wabas, status, edition, heard, snapshot>>

\* ... and after the last one: every row goes, the seed comes back under the
\* same ids; a timer armed in between stays.
ResetFinish ==
  /\ resets > 0
  /\ resets' = resets - 1
  /\ wabas' = SeedWabas
  /\ status' = Reseeded([t \in Templates |-> IF Present(t) THEN "wiped" ELSE status[t]])
  /\ heard' = [t \in Templates |-> "nothing"]
  /\ UNCHANGED <<autoApprove, edition, clock, snapshot, disruptions>>

\* GET /api/export
ExportState ==
  /\ snapshot' = {[status |-> status, wabas |-> wabas]}
  /\ UNCHANGED <<autoApprove, wabas, status, edition, clock, heard, resets, disruptions>>

\* POST /api/import: no timer is armed for a PENDING row that comes back.
ImportState ==
  \E file \in snapshot :
    /\ Disrupt
    /\ CancelAll
    /\ wabas' = file.wabas
    /\ status' = [t \in Templates |->
                    IF file.status[t] \in Status THEN file.status[t]
                    ELSE IF Present(t) THEN "wiped" ELSE status[t]]
    /\ heard' = [t \in Templates |-> "nothing"]
    /\ UNCHANGED <<autoApprove, edition, resets, snapshot>>

\* The process ends and starts over the same database, perhaps with another
\* setting: timers are gone, what the seed misses comes back.
Restart ==
  /\ Disrupt
  /\ autoApprove' \in BOOLEAN
  /\ timers' = {}
  /\ pending' = [t \in Templates |-> 0]
  /\ resets' = 0
  /\ wabas' = wabas \cup SeedWabas
  /\ status' = Reseeded(status)
  /\ heard' = [t \in Templates |-> IF t \in Missing(status) THEN "nothing" ELSE heard[t]]
  /\ UNCHANGED <<edition, snapshot>>

-----------------------------------------------------------------------------
Next ==
  \/ \E t \in Templates : Create(t) \/ Edit(t)
  \/ \E t \in Templates, hsmId \in BOOLEAN : Delete(t, hsmId)
  \/ \E t \in Templates, decision \in Decision : Moderate(t, decision)
  \/ \E t \in Templates, e \in Editions : AutoApprove(t, e)
  \/ \E w \in Wabas : CreateWaba(w) \/ DeleteWaba(w)
  \/ ResetBegin \/ ResetFinish \/ ExportState \/ ImportState \/ Restart

\* Node fires a timer that is due.
Fairness == \A t \in Templates, e \in Editions : WF_vars(AutoApprove(t, e))

Spec == Init /\ [][Next]_vars
FairSpec == Spec /\ Fairness

-----------------------------------------------------------------------------
(* What template review promises *)

\* Every variable has its type.
TypeOK ==
  /\ autoApprove \in BOOLEAN
  /\ wabas \subseteq Wabas
  /\ status \in [Templates -> Status \cup Absent]
  /\ edition \in [Templates -> Editions]
  /\ timers \subseteq Templates \X Editions
  /\ pending \in [Templates -> Editions \cup {0}]
  /\ heard \in [Templates -> Status \cup {"nothing", "DELETED"}]
  /\ resets \in Nat
  /\ snapshot \subseteq [status : [Templates -> Status \cup Absent], wabas : SUBSET Wabas]
  /\ disruptions \in Nat

\* A PENDING template is approved by the timer of the content it has now, never
\* by one an earlier content left behind: an edit gets its full delay, through
\* any order of edits, decisions, deletes, resets and imports.
ReviewedAsEdited ==
  \A t \in Templates, e \in Editions :
    <<t, e>> \in timers /\ status[t] = "PENDING" => e = edition[t]

\* With the setting "off", nothing but a human decides.
ManualStaysManual == ~autoApprove => timers = {}

\* What the app under test was told last about a template that exists is its
\* status; about one it was told nothing of, it is a seeded or an imported one.
HeardIsStatus ==
  \A t \in Templates :
    Present(t) /\ heard[t] # "nothing" => heard[t] = status[t]

\* A template whose review has a timer leaves PENDING, unless it is edited or a
\* reset, an import or a restart comes in between.
EventuallyReviewed ==
  \A t \in Templates, e \in Editions, d \in 0 .. MaxDisruptions :
    status[t] = "PENDING" /\ pending[t] = e /\ disruptions = d
      ~> status[t] # "PENDING" \/ edition[t] > e \/ disruptions > d
=============================================================================
