------------------------- MODULE TemplateProofs -------------------------
(***************************************************************************)
(* Templates: their review, and the listing that pages through them.       *)
(*                                                                         *)
(* Review.                                                                 *)
(* The safety of template review for any number of templates, accounts,    *)
(* edits, resets, imports and restarts.                                    *)
(*                                                                         *)
(* ReviewedAsEdited is not inductive: a timer left behind by an earlier    *)
(* edition would break it as soon as its template is PENDING again.  The   *)
(* event loop must hold just the timers #pending knows (TimersTracked),    *)
(* each armed for the content of today, whatever the status of its         *)
(* template, rows that are gone included (TimersAreCurrent); and an edit   *)
(* that arms no timer must find none (ManualStaysManual).                  *)
(*                                                                         *)
(* Listing.                                                                *)
(* A finished walk missed nothing, and one whose cursors lived repeated    *)
(* nothing, for any templates, page size and clock.                        *)
(*                                                                         *)
(* The invariant says where the cursor stands: what the walk still owes    *)
(* comes after it, and what it has listed does not.  That a page takes     *)
(* the nearest rows is an argument by counting: who comes later has more   *)
(* rows before it.                                                         *)
(***************************************************************************)
EXTENDS TemplateReview, TemplatePaging, Integers, FiniteSetTheorems, WellFoundedInduction, TLAPS

-----------------------------------------------------------------------------
(* Review *)

\* The event loop and #pending agree.
TimersTracked ==
  \A t \in Templates, e \in Editions : <<t, e>> \in timers <=> pending[t] = e

\* A timer is for the content the template has, or had when it was removed.
TimersAreCurrent ==
  \A t \in Templates : pending[t] \in {0, edition[t]}

IInv ==
  /\ TypeOK
  /\ TimersTracked
  /\ TimersAreCurrent
  /\ ManualStaysManual
  /\ HeardIsStatus

-----------------------------------------------------------------------------
(* Operators *)

\* A decision is a status, and a template that is absent has none.
LEMMA StatusSets ==
  /\ Decision \subseteq Status
  /\ Status \cap Absent = {}
  /\ "PENDING" \in Status /\ "APPROVED" \in Status
  /\ "deleted" \in Absent /\ "wiped" \in Absent
  /\ "nothing" \notin Status
BY DEF Decision, Status, Absent

\* Editions count from 1; 0 stands for no timer.
LEMMA EditionsArePositive ==
  /\ 0 \notin Editions
  /\ \A e \in Editions : e \in Nat /\ (e < MaxEditions => e + 1 \in Editions)
BY ReviewAssumption DEF Editions

\* Cancelling keeps the types, and forgets exactly the timers of those templates.
LEMMA CancelEachFacts ==
  ASSUME TypeOK, TimersTracked, NEW gone \in SUBSET Templates, CancelEach(gone)
  PROVE  /\ timers' \subseteq Templates \X Editions
         /\ pending' \in [Templates -> Editions \cup {0}]
         /\ \A t \in Templates : pending'[t] = IF t \in gone THEN 0 ELSE pending[t]
         /\ TimersTracked'
         /\ timers' \subseteq timers
<1>1. pending' \in [Templates -> Editions \cup {0}]
  BY DEF CancelEach, TypeOK
<1>2. \A t \in Templates : pending'[t] = IF t \in gone THEN 0 ELSE pending[t]
  BY DEF CancelEach
<1>3. timers' \subseteq timers /\ timers' \subseteq Templates \X Editions
  BY DEF CancelEach, TypeOK
<1>4. ASSUME NEW t \in Templates, NEW e \in Editions
      PROVE  <<t, e>> \in timers' <=> pending'[t] = e
  <2>1. CASE t \in gone
    <3>1. pending'[t] # e
      BY <1>2, <2>1, EditionsArePositive
    <3>2. <<t, e>> \in timers => e = pending[t]
      BY DEF TimersTracked
    <3>3. <<t, e>> \notin timers'
      BY <2>1, <3>2 DEF CancelEach
    <3>4. QED
      BY <3>1, <3>3
  <2>2. CASE t \notin gone
    <3>1. <<t, e>> \in timers' <=> <<t, e>> \in timers
      BY <2>2 DEF CancelEach
    <3>2. QED
      BY <1>2, <2>2, <3>1 DEF TimersTracked
  <2>3. QED
    BY <2>1, <2>2
<1>5. QED
  BY <1>1, <1>2, <1>3, <1>4 DEF TimersTracked

\* Scheduling does the same for one template, which gets a timer if the setting is on.
LEMMA ScheduleFacts ==
  ASSUME TypeOK, TimersTracked, NEW t \in Templates, NEW e \in Editions, ScheduleApproval(t, e)
  PROVE  /\ timers' \subseteq Templates \X Editions
         /\ pending' \in [Templates -> Editions \cup {0}]
         /\ \A u \in Templates : pending'[u] = IF autoApprove /\ u = t THEN e ELSE pending[u]
         /\ TimersTracked'
         /\ ~autoApprove => timers' = timers
<1>1. CASE ~autoApprove
  BY <1>1 DEF ScheduleApproval, clock, TypeOK, TimersTracked
<1>2. CASE autoApprove
  <2>1. /\ timers' = (timers \ {<<t, pending[t]>>}) \cup {<<t, e>>}
        /\ pending' = [pending EXCEPT ![t] = e]
    BY <1>2 DEF ScheduleApproval
  <2>2. /\ timers' \subseteq Templates \X Editions
        /\ pending' \in [Templates -> Editions \cup {0}]
        /\ \A u \in Templates : pending'[u] = IF u = t THEN e ELSE pending[u]
    BY <2>1 DEF TypeOK
  <2>3. ASSUME NEW u \in Templates, NEW f \in Editions
        PROVE  <<u, f>> \in timers' <=> pending'[u] = f
    <3>1. <<u, f>> \in timers <=> pending[u] = f
      BY DEF TimersTracked
    <3>2. QED
      BY <2>1, <2>2, <3>1
  <2>4. QED
    BY <1>2, <2>2, <2>3 DEF TimersTracked
<1>3. QED
  BY <1>1, <1>2

\* applySeed() only gives rows to templates that had none.
LEMMA ReseededFacts ==
  ASSUME NEW kept \in [Templates -> Status \cup Absent]
  PROVE  /\ Reseeded(kept) \in [Templates -> Status \cup Absent]
         /\ \A t \in Templates : t \in Missing(kept) => kept[t] \notin Status
         /\ \A t \in Templates : t \notin Missing(kept) => Reseeded(kept)[t] = kept[t]
BY StatusSets DEF Reseeded, Missing

-----------------------------------------------------------------------------
(* The initial state *)

\* The invariant holds of an empty database.
LEMMA InitInv == Init => IInv
<1> SUFFICES ASSUME Init
             PROVE  IInv
  OBVIOUS
<1>1. TypeOK
  BY ReviewAssumption DEF Init, TypeOK, Status, Absent, Editions
<1>2. TimersTracked /\ TimersAreCurrent /\ ManualStaysManual
  BY EditionsArePositive DEF Init, TimersTracked, TimersAreCurrent, ManualStaysManual
<1>3. HeardIsStatus
  BY DEF Init, HeardIsStatus
<1>4. QED
  BY <1>1, <1>2, <1>3 DEF IInv

-----------------------------------------------------------------------------
(* The steps, one lemma per kind *)

\* A creation: a fresh PENDING row, and a timer unless review is manual.
LEMMA CreateStep ==
  ASSUME IInv, NEW t \in Templates, Create(t)
  PROVE  IInv'
<1> USE DEF IInv
<1>1. edition[t] \in Editions /\ ScheduleApproval(t, edition[t]) /\ edition' = edition
  BY DEF Create, TypeOK
<1>2. TypeOK'
  BY <1>1, ScheduleFacts, StatusSets DEF Create, TypeOK, control
<1>3. TimersTracked'
  BY <1>1, ScheduleFacts
<1>4. TimersAreCurrent'
  BY <1>1, ScheduleFacts DEF TimersAreCurrent
<1>5. ManualStaysManual'
  BY <1>1, ScheduleFacts DEF Create, ManualStaysManual
<1>6. HeardIsStatus'
  BY DEF Create, HeardIsStatus, Present, TypeOK
<1>7. QED
  BY <1>2, <1>3, <1>4, <1>5, <1>6

\* An edit: the next edition, with a timer of its own unless review is manual; then
\* there was none.
LEMMA EditStep ==
  ASSUME IInv, NEW t \in Templates, Edit(t)
  PROVE  IInv'
<1> USE DEF IInv
<1>1. /\ edition[t] + 1 \in Editions
      /\ ScheduleApproval(t, edition[t] + 1)
      /\ edition' \in [Templates -> Editions]
      /\ \A u \in Templates : edition'[u] = IF u = t THEN edition[t] + 1 ELSE edition[u]
  BY EditionsArePositive DEF Edit, TypeOK
<1>2. TypeOK'
  BY <1>1, ScheduleFacts, StatusSets DEF Edit, TypeOK, control
<1>3. TimersTracked'
  BY <1>1, ScheduleFacts
<1>4. ManualStaysManual'
  BY <1>1, ScheduleFacts DEF Edit, ManualStaysManual
<1>5. TimersAreCurrent'
  <2> SUFFICES ASSUME NEW u \in Templates
               PROVE  pending'[u] \in {0, edition'[u]}
    BY DEF TimersAreCurrent
  <2>1. CASE autoApprove
    BY <1>1, <2>1, ScheduleFacts DEF TimersAreCurrent
  <2>2. CASE ~autoApprove
    <3>1. timers = {}
      BY <2>2 DEF ManualStaysManual
    <3>2. pending[u] = 0
      BY <3>1 DEF TimersTracked, TypeOK
    <3>3. QED
      BY <1>1, <2>2, <3>2, ScheduleFacts
  <2>3. QED
    BY <2>1, <2>2
<1>6. HeardIsStatus'
  BY DEF Edit, HeardIsStatus, Present, TypeOK
<1>7. QED
  BY <1>2, <1>3, <1>4, <1>5, <1>6

\* A deletion takes rows and their timers.
LEMMA DeleteStep ==
  ASSUME IInv, NEW t \in Templates, NEW hsmId \in BOOLEAN, Delete(t, hsmId)
  PROVE  IInv'
<1> USE DEF IInv
<1> DEFINE gone == Doomed(t, hsmId)
<1>1. gone \in SUBSET Templates /\ CancelEach(gone) /\ edition' = edition /\ autoApprove' = autoApprove
  BY DEF Delete, Doomed
<1>2. \A u \in Templates :
        /\ status'[u] = IF u \in gone THEN "deleted" ELSE status[u]
        /\ heard'[u] = IF u \in gone THEN "DELETED" ELSE heard[u]
  BY DEF Delete
<1>3. /\ status' \in [Templates -> Status \cup Absent]
      /\ heard' \in [Templates -> Status \cup {"nothing", "DELETED"}]
  BY StatusSets DEF Delete, TypeOK
<1> HIDE DEF gone
<1>4. TypeOK'
  BY <1>1, <1>3, CancelEachFacts DEF Delete, TypeOK, control
<1>5. TimersTracked'
  BY <1>1, CancelEachFacts
<1>6. TimersAreCurrent'
  BY <1>1, CancelEachFacts DEF TimersAreCurrent
<1>7. ManualStaysManual'
  BY <1>1, CancelEachFacts DEF ManualStaysManual
<1>8. HeardIsStatus'
  BY <1>2, StatusSets DEF HeardIsStatus, Present
<1>9. QED
  BY <1>4, <1>5, <1>6, <1>7, <1>8

\* A decision takes the timer and is announced.
LEMMA ModerateStep ==
  ASSUME IInv, NEW t \in Templates, NEW decision \in Decision, Moderate(t, decision)
  PROVE  IInv'
<1> USE DEF IInv
<1>1. {t} \in SUBSET Templates /\ CancelEach({t}) /\ edition' = edition /\ autoApprove' = autoApprove
  BY DEF Moderate
<1>2. TypeOK'
  BY <1>1, CancelEachFacts, StatusSets DEF Moderate, TypeOK, control
<1>3. TimersTracked'
  BY <1>1, CancelEachFacts
<1>4. TimersAreCurrent'
  BY <1>1, CancelEachFacts DEF TimersAreCurrent
<1>5. ManualStaysManual'
  BY <1>1, CancelEachFacts DEF ManualStaysManual
<1>6. HeardIsStatus'
  BY DEF Moderate, HeardIsStatus, Present, TypeOK
<1>7. QED
  BY <1>2, <1>3, <1>4, <1>5, <1>6

\* A timer that is due was the only one of its template.
LEMMA AutoApproveStep ==
  ASSUME IInv, NEW t \in Templates, NEW e \in Editions, AutoApprove(t, e)
  PROVE  IInv'
<1> USE DEF IInv
<1>1. pending[t] = e
  BY DEF AutoApprove, TimersTracked
<1>2. CancelEach({t})
  <2>1. timers' = timers \ {<<u, pending[u]>> : u \in {t}}
    BY <1>1 DEF AutoApprove
  <2>2. pending' = [u \in Templates |-> IF u \in {t} THEN 0 ELSE pending[u]]
    BY DEF AutoApprove, TypeOK
  <2>3. QED
    BY <2>1, <2>2 DEF CancelEach
<1>3. {t} \in SUBSET Templates /\ edition' = edition /\ autoApprove' = autoApprove
  BY DEF AutoApprove
<1>4. TypeOK'
  BY <1>2, <1>3, CancelEachFacts, StatusSets DEF AutoApprove, TypeOK, control
<1>5. TimersTracked'
  BY <1>2, <1>3, CancelEachFacts
<1>6. TimersAreCurrent'
  BY <1>2, <1>3, CancelEachFacts DEF TimersAreCurrent
<1>7. ManualStaysManual'
  BY <1>2, <1>3, CancelEachFacts DEF ManualStaysManual
<1>8. HeardIsStatus'
  BY DEF AutoApprove, HeardIsStatus, Present, TypeOK
<1>9. QED
  BY <1>4, <1>5, <1>6, <1>7, <1>8

\* An account that comes or goes touches no timer; its templates go unannounced.
LEMMA WabaStep ==
  ASSUME IInv, NEW w \in Wabas, CreateWaba(w) \/ DeleteWaba(w)
  PROVE  IInv'
<1> USE DEF IInv
<1>1. UNCHANGED <<autoApprove, edition, timers, pending, heard, control>>
  BY DEF CreateWaba, DeleteWaba, clock
<1>2. \A t \in Templates : status'[t] = status[t] \/ status'[t] = "deleted"
  BY DEF CreateWaba, DeleteWaba
<1>3. status' \in [Templates -> Status \cup Absent] /\ wabas' \subseteq Wabas
  BY StatusSets DEF CreateWaba, DeleteWaba, TypeOK
<1>4. TypeOK'
  BY <1>1, <1>3 DEF TypeOK, control
<1>5. TimersTracked' /\ TimersAreCurrent' /\ ManualStaysManual'
  BY <1>1 DEF TimersTracked, TimersAreCurrent, ManualStaysManual
<1>6. HeardIsStatus'
  BY <1>1, <1>2, StatusSets DEF HeardIsStatus, Present
<1>7. QED
  BY <1>4, <1>5, <1>6

\* The first half of a reset: only the timers go.
LEMMA ResetBeginStep ==
  ASSUME IInv, ResetBegin
  PROVE  IInv'
<1> USE DEF IInv
<1>1. /\ Templates \in SUBSET Templates
      /\ CancelEach(Templates)
      /\ UNCHANGED <<autoApprove, wabas, status, edition, heard, snapshot>>
  BY DEF ResetBegin, CancelAll
<1>2. TypeOK'
  BY <1>1, CancelEachFacts DEF ResetBegin, Disrupt, TypeOK
<1>3. TimersTracked'
  BY <1>1, CancelEachFacts
<1>4. TimersAreCurrent'
  BY <1>1, CancelEachFacts DEF TimersAreCurrent
<1>5. ManualStaysManual'
  BY <1>1, CancelEachFacts DEF ManualStaysManual
<1>6. HeardIsStatus'
  BY <1>1 DEF HeardIsStatus, Present
<1>7. QED
  BY <1>2, <1>3, <1>4, <1>5, <1>6

\* Its second half: the rows go, the seed comes back, and a timer armed in between stays.
LEMMA ResetFinishStep ==
  ASSUME IInv, ResetFinish
  PROVE  IInv'
<1> USE DEF IInv
<1> DEFINE after == [t \in Templates |-> IF Present(t) THEN "wiped" ELSE status[t]]
<1>1. after \in [Templates -> Status \cup Absent]
  BY StatusSets DEF TypeOK
<1>2. status' = Reseeded(after) /\ heard' = [t \in Templates |-> "nothing"]
  BY DEF ResetFinish
<1> HIDE DEF after
<1>3. status' \in [Templates -> Status \cup Absent]
  BY <1>1, <1>2, ReseededFacts
<1>4. TypeOK'
  BY <1>2, <1>3, ReviewAssumption DEF ResetFinish, TypeOK, clock
<1>5. TimersTracked' /\ TimersAreCurrent' /\ ManualStaysManual'
  BY DEF ResetFinish, clock, TimersTracked, TimersAreCurrent, ManualStaysManual
<1>6. HeardIsStatus'
  BY <1>2 DEF HeardIsStatus
<1>7. QED
  BY <1>4, <1>5, <1>6

\* An export changes nothing but the file.
LEMMA ExportStep ==
  ASSUME IInv, ExportState
  PROVE  IInv'
<1> USE DEF IInv
<1>1. TypeOK'
  BY DEF ExportState, TypeOK, clock
<1>2. TimersTracked' /\ TimersAreCurrent' /\ ManualStaysManual' /\ HeardIsStatus'
  BY DEF ExportState, clock, TimersTracked, TimersAreCurrent, ManualStaysManual, HeardIsStatus, Present
<1>3. QED
  BY <1>1, <1>2

\* An import: the rows of the file, no timer, and nothing told of them.
LEMMA ImportStep ==
  ASSUME IInv, ImportState
  PROVE  IInv'
<1> USE DEF IInv
<1>1. PICK file \in snapshot :
        /\ Disrupt
        /\ CancelAll
        /\ wabas' = file.wabas
        /\ status' = [t \in Templates |->
                        IF file.status[t] \in Status THEN file.status[t]
                        ELSE IF Present(t) THEN "wiped" ELSE status[t]]
        /\ heard' = [t \in Templates |-> "nothing"]
        /\ UNCHANGED <<autoApprove, edition, resets, snapshot>>
  BY DEF ImportState
<1>2. Templates \in SUBSET Templates /\ CancelEach(Templates)
  BY <1>1 DEF CancelAll
<1>3. file \in [status : [Templates -> Status \cup Absent], wabas : SUBSET Wabas]
  BY DEF TypeOK
<1>4. status' \in [Templates -> Status \cup Absent] /\ wabas' \subseteq Wabas
  BY <1>1, <1>3, StatusSets DEF TypeOK
<1>5. TypeOK'
  BY <1>1, <1>2, <1>4, CancelEachFacts DEF Disrupt, TypeOK
<1>6. TimersTracked'
  BY <1>2, CancelEachFacts
<1>7. TimersAreCurrent'
  BY <1>1, <1>2, CancelEachFacts DEF TimersAreCurrent
<1>8. ManualStaysManual'
  BY <1>1, <1>2, CancelEachFacts DEF ManualStaysManual
<1>9. HeardIsStatus'
  BY <1>1 DEF HeardIsStatus
<1>10. QED
  BY <1>5, <1>6, <1>7, <1>8, <1>9

\* A restart: no timers, whatever the setting is now; the seed fills what it misses.
LEMMA RestartStep ==
  ASSUME IInv, Restart
  PROVE  IInv'
<1> USE DEF IInv
<1>1. status \in [Templates -> Status \cup Absent]
  BY DEF TypeOK
<1>2. /\ status' = Reseeded(status)
      /\ heard' = [t \in Templates |-> IF t \in Missing(status) THEN "nothing" ELSE heard[t]]
      /\ timers' = {}
      /\ pending' = [t \in Templates |-> 0]
  BY DEF Restart
<1>3. TypeOK'
  BY <1>1, <1>2, ReseededFacts, ReviewAssumption DEF Restart, Disrupt, TypeOK
<1>4. TimersTracked' /\ TimersAreCurrent' /\ ManualStaysManual'
  BY <1>2, EditionsArePositive DEF TimersTracked, TimersAreCurrent, ManualStaysManual
<1>5. HeardIsStatus'
  <2> SUFFICES ASSUME NEW t \in Templates, status'[t] \in Status, heard'[t] # "nothing"
               PROVE  heard'[t] = status'[t]
    BY DEF HeardIsStatus, Present
  <2>1. t \notin Missing(status) /\ heard'[t] = heard[t]
    BY <1>2
  <2>2. status'[t] = status[t]
    BY <1>1, <1>2, <2>1, ReseededFacts
  <2>3. QED
    BY <2>1, <2>2 DEF HeardIsStatus, Present
<1>6. QED
  BY <1>3, <1>4, <1>5

\* Every step keeps the invariant, action by action.
LEMMA StepInv == IInv /\ [Next]_vars => IInv'
<1> SUFFICES ASSUME IInv, [Next]_vars
             PROVE  IInv'
  OBVIOUS
<1>1. ASSUME NEW t \in Templates, Create(t) \/ Edit(t)
      PROVE  IInv'
  BY <1>1, CreateStep, EditStep
<1>2. ASSUME NEW t \in Templates, NEW hsmId \in BOOLEAN, Delete(t, hsmId)
      PROVE  IInv'
  BY <1>2, DeleteStep
<1>3. ASSUME NEW t \in Templates, NEW decision \in Decision, Moderate(t, decision)
      PROVE  IInv'
  BY <1>3, ModerateStep
<1>4. ASSUME NEW t \in Templates, NEW e \in Editions, AutoApprove(t, e)
      PROVE  IInv'
  BY <1>4, AutoApproveStep
<1>5. ASSUME NEW w \in Wabas, CreateWaba(w) \/ DeleteWaba(w)
      PROVE  IInv'
  BY <1>5, WabaStep
<1>6. CASE ResetBegin \/ ResetFinish \/ ExportState \/ ImportState \/ Restart
  BY <1>6, ResetBeginStep, ResetFinishStep, ExportStep, ImportStep, RestartStep
<1>7. CASE UNCHANGED vars
  BY <1>7 DEF vars, IInv, TypeOK, TimersTracked, TimersAreCurrent, ManualStaysManual,
              HeardIsStatus, Present
<1>8. QED
  BY <1>1, <1>2, <1>3, <1>4, <1>5, <1>6, <1>7 DEF Next

-----------------------------------------------------------------------------
(* The theorems *)

\* The invariant holds of every behaviour.
LEMMA Invariance == Spec => []IInv
BY InitInv, StepInv, PTL DEF Spec

\* Every variable keeps its type.
THEOREM TypeCorrect == Spec => []TypeOK
<1>1. IInv => TypeOK
  BY DEF IInv
<1>2. QED
  BY <1>1, Invariance, PTL

\* #autoApprove(): a template is approved by the timer of the content it has.
THEOREM ReviewedAsEditedHolds == Spec => []ReviewedAsEdited
<1>1. IInv => ReviewedAsEdited
  BY EditionsArePositive DEF IInv, TimersTracked, TimersAreCurrent, ReviewedAsEdited
<1>2. QED
  BY <1>1, Invariance, PTL

\* WHALOC_TEMPLATE_AUTO_APPROVE=off: no timer is ever armed.
THEOREM ManualStaysManualHolds == Spec => []ManualStaysManual
<1>1. IInv => ManualStaysManual
  BY DEF IInv
<1>2. QED
  BY <1>1, Invariance, PTL

\* message_template_status_update: what was told last of a present template is true.
THEOREM HeardIsStatusHolds == Spec => []HeardIsStatus
<1>1. IInv => HeardIsStatus
  BY DEF IInv
<1>2. QED
  BY <1>1, Invariance, PTL

-----------------------------------------------------------------------------
(* Listing *)

Known == DOMAIN createdAt

\* The walk owes nothing on the near side of its cursor, and nothing when it is done.
NothingLeftBehind ==
  /\ walk.at = "walking" =>
       \A t \in lasting \ seen : ComesFirst(walk.cursor, t, walk.direction)
  /\ walk.at = "done" => lasting \subseteq seen

\* It has listed nothing beyond its cursor, nor anything before it began.
NothingAhead ==
  /\ walk.at \in {"idle", "start"} => seen = {}
  /\ walk.at = "walking" =>
       \A t \in seen : t = walk.cursor \/ ComesFirst(t, walk.cursor, walk.direction)

PagingInv ==
  /\ PagingTypeOK
  /\ IsFiniteSet(Known)
  /\ NothingLeftBehind
  /\ ~ cursorLost => NothingAhead /\ repeated = {}

-----------------------------------------------------------------------------
(* The order of a walk *)

Clocked == \A t \in Known : t \in Nat /\ createdAt[t] \in Nat

LEMMA ClockedFacts == PagingTypeOK => Clocked
<1>1. SUFFICES ASSUME PagingTypeOK, NEW t \in DOMAIN createdAt PROVE t \in Nat /\ createdAt[t] \in Nat
  BY Zenon DEF Clocked, Known
<1>2. t \in Ids /\ createdAt[t] \in 0 .. MaxTime
  BY <1>1, Zenon DEF PagingTypeOK
<1>3. QED
  BY <1>2, PagingAssumption

\* It is a strict total order of the templates there ever were.
LEMMA Order ==
  ASSUME Clocked, NEW d
  PROVE  /\ \A t \in Known : ~ ComesFirst(t, t, d)
         /\ \A t, u, v \in Known : ComesFirst(t, u, d) /\ ComesFirst(u, v, d) => ComesFirst(t, v, d)
         /\ \A t, u \in Known : t = u \/ ComesFirst(t, u, d) \/ ComesFirst(u, t, d)
BY DEF Clocked, ComesFirst, Precedes

\* The rows of S a walk comes to before t.
Ahead(S, t, d) == {u \in S : ComesFirst(u, t, d)}

\* Who comes later has more rows before it.
LEMMA Counting ==
  ASSUME Clocked, IsFiniteSet(Known), NEW S \in SUBSET Known, NEW d,
         NEW t \in S, NEW u \in S, ComesFirst(t, u, d)
  PROVE  /\ Cardinality(Ahead(S, t, d)) \in Nat /\ Cardinality(Ahead(S, u, d)) \in Nat
         /\ Cardinality(Ahead(S, t, d)) < Cardinality(Ahead(S, u, d))
<1>1. IsFiniteSet(Ahead(S, t, d)) /\ IsFiniteSet(Ahead(S, u, d))
  BY FS_Subset DEF Ahead
<1>2. Ahead(S, t, d) \subseteq Ahead(S, u, d)
  BY Order DEF Ahead
<1>3. t \in Ahead(S, u, d) /\ t \notin Ahead(S, t, d)
  BY Order DEF Ahead
<1>4. Cardinality(Ahead(S, t, d)) \in Nat /\ Cardinality(Ahead(S, u, d)) \in Nat
  BY <1>1, FS_CardinalityType
<1>5. /\ Cardinality(Ahead(S, t, d)) <= Cardinality(Ahead(S, u, d))
      /\ Cardinality(Ahead(S, t, d)) # Cardinality(Ahead(S, u, d))
  BY <1>1, <1>2, <1>3, FS_Subset
<1>6. QED
  BY <1>4, <1>5

LEMMA LeastOfSome ==
  ASSUME NEW T \in SUBSET Nat, T # {}
  PROVE  \E i \in T : \A j \in T : i <= j
<1>1. PICK i \in T : \A j \in T : ~ (<<j, i>> \in OpToRel(<, Nat))
  BY NatLessThanWellFounded, WFMin
<1>2. ASSUME NEW j \in T PROVE i <= j
  <2>1. i \in Nat /\ j \in Nat
    OBVIOUS
  <2>2. ~ (j < i)
    BY <1>1, <2>1 DEF OpToRel
  <2>3. QED
    BY <2>1, <2>2
<1>3. QED
  BY <1>2

\* A walk through rows comes to one of them first.
LEMMA HasFirst ==
  ASSUME Clocked, IsFiniteSet(Known), NEW S \in SUBSET Known, S # {}, NEW d
  PROVE  \E t \in S : Ahead(S, t, d) = {}
<1> DEFINE n(t) == Cardinality(Ahead(S, t, d))
<1>1. \A t \in S : n(t) \in Nat
  BY FS_Subset, FS_CardinalityType DEF Ahead
<1>2. \A t, u \in S : ComesFirst(t, u, d) => n(t) < n(u)
  BY Counting
<1> HIDE DEF n
<1> DEFINE N == {n(t) : t \in S}
<1>3. N \in SUBSET Nat /\ N # {}
  BY <1>1
<1>4. PICK i \in N : \A j \in N : i <= j
  BY <1>3, LeastOfSome
<1>5. PICK t \in S : n(t) = i
  OBVIOUS
<1>6. ASSUME NEW u \in S, ComesFirst(u, t, d) PROVE FALSE
  <2>1. n(u) < n(t) /\ n(t) <= n(u)
    BY <1>2, <1>4, <1>5, <1>6
  <2>2. QED
    BY <1>1, <2>1
<1>7. QED
  BY <1>6 DEF Ahead

\* And to one of them last.
LEMMA HasLast ==
  ASSUME Clocked, IsFiniteSet(Known), NEW S \in SUBSET Known, S # {}, NEW d
  PROVE  \E t \in S : \A u \in S \ {t} : ComesFirst(u, t, d)
<1> DEFINE n(t) == Cardinality(Ahead(S, t, d))
           m == Cardinality(S)
<1>1. \A t \in S : n(t) \in Nat /\ n(t) <= m /\ m \in Nat
  BY FS_Subset, FS_CardinalityType DEF Ahead
<1>2. \A t, u \in S : ComesFirst(t, u, d) => n(t) < n(u)
  BY Counting
<1> HIDE DEF n, m
<1> DEFINE N == {m - n(t) : t \in S}
<1>3. N \in SUBSET Nat /\ N # {}
  BY <1>1
<1>4. PICK i \in N : \A j \in N : i <= j
  BY <1>3, LeastOfSome
<1>5. PICK t \in S : m - n(t) = i
  OBVIOUS
<1>6. ASSUME NEW u \in S, ComesFirst(t, u, d) PROVE FALSE
  <2>1. n(t) < n(u) /\ m - n(t) <= m - n(u)
    BY <1>2, <1>4, <1>5, <1>6
  <2>2. QED
    BY <1>1, <2>1
<1>7. QED
  BY <1>6, Order

-----------------------------------------------------------------------------
(* Pages *)

\* A page is a front part of what it is taken from, and not empty when that is not.
LEMMA PageFacts ==
  ASSUME Clocked, IsFiniteSet(Known), NEW S \in SUBSET Known, NEW d,
         NEW page, page = Nearest(S, Limit, d)
  PROVE  /\ page \subseteq S
         /\ \A t \in page, u \in S \ page : ComesFirst(t, u, d)
         /\ S # {} => page # {}
<1>1. page = {t \in S : Cardinality(Ahead(S, t, d)) < Limit}
  BY DEF Nearest, Ahead
<1>2. ASSUME NEW t \in page, NEW u \in S \ page PROVE ComesFirst(t, u, d)
  <2>1. t \in S /\ u \in S /\ t # u
    BY <1>1
  <2>2. SUFFICES ASSUME ComesFirst(u, t, d) PROVE FALSE
    BY <2>1, Order
  <2>3. /\ Cardinality(Ahead(S, t, d)) \in Nat /\ Cardinality(Ahead(S, u, d)) \in Nat
        /\ Cardinality(Ahead(S, u, d)) < Cardinality(Ahead(S, t, d))
    BY <2>1, <2>2, Counting
  <2>4. Cardinality(Ahead(S, t, d)) < Limit /\ ~ (Cardinality(Ahead(S, u, d)) < Limit)
    BY <1>1, <2>1
  <2>5. QED
    BY <2>3, <2>4, PagingAssumption
<1>3. ASSUME S # {} PROVE page # {}
  <2>1. PICK t \in S : Ahead(S, t, d) = {}
    BY <1>3, HasFirst
  <2>2. Cardinality(Ahead(S, t, d)) = 0
    BY <2>1, FS_EmptySet
  <2>3. QED
    BY <1>1, <2>2, PagingAssumption
<1>4. QED
  BY <1>1, <1>2, <1>3

\* The link of a page carries its last row.
LEMMA EdgeFacts ==
  ASSUME Clocked, IsFiniteSet(Known), NEW page \in SUBSET Known, page # {}, NEW d
  PROVE  /\ Edge(page, d) \in page
         /\ \A u \in page \ {Edge(page, d)} : ComesFirst(u, Edge(page, d), d)
<1>1. \E t \in page : \A u \in page \ {t} : ComesFirst(u, t, d)
  BY HasLast
<1>2. QED
  BY <1>1, Zenon DEF Edge

-----------------------------------------------------------------------------
(* The steps *)

LEMMA PagingInitInv == PagingInit => PagingInv
<1> SUFFICES ASSUME PagingInit PROVE PagingInv
  OBVIOUS
<1>1. Known = {} /\ IsFiniteSet(Known)
  BY FS_EmptySet DEF PagingInit, Known
<1>2. PagingTypeOK
  <2>1. now \in 0 .. MaxTime
    BY PagingAssumption DEF PagingInit
  <2>2. walk \in [at : {"idle", "done"}]
    BY DEF PagingInit
  <2>3. QED
    BY <1>1, <2>1, <2>2 DEF PagingInit, PagingTypeOK, Known
<1>3. QED
  BY <1>1, <1>2 DEF PagingInit, PagingInv, NothingLeftBehind, NothingAhead

\* The listing changes, the walk does not, and owes no more than before.
LEMMA ListingStep ==
  ASSUME PagingInv, UNCHANGED <<createdAt, walkVars>>, lasting' \subseteq lasting, PagingTypeOK'
  PROVE  PagingInv'
<1>1. \A t, u, d : ComesFirst(t, u, d)' = ComesFirst(t, u, d)
  BY DEF ComesFirst, Precedes
<1>2. NothingLeftBehind'
  BY <1>1 DEF PagingInv, NothingLeftBehind, walkVars
<1>3. NothingAhead => NothingAhead'
  BY <1>1 DEF NothingAhead, walkVars
<1>4. QED
  BY <1>2, <1>3 DEF PagingInv, Known, walkVars

LEMMA CreateRowStep ==
  ASSUME PagingInv, NEW t \in Ids, CreateRow(t)
  PROVE  PagingInv'
<1>1. /\ t \notin Known
      /\ createdAt' = [u \in Known \cup {t} |-> IF u = t THEN now ELSE createdAt[u]]
      /\ rows' = rows \cup {t} /\ matching' \in {matching, matching \cup {t}}
      /\ UNCHANGED <<now, lasting>> /\ UNCHANGED walkVars
  BY DEF CreateRow, Unminted, Known
<1>2. PagingTypeOK /\ IsFiniteSet(Known) /\ Clocked
  BY ClockedFacts DEF PagingInv
<1>3. Known' = Known \cup {t} /\ IsFiniteSet(Known')
  BY <1>1, <1>2, FS_AddElement DEF Known
<1>4. \A u \in Known : createdAt'[u] = createdAt[u]
  BY <1>1
<1>5. createdAt'[t] = now
  BY <1>1
<1>6. PagingTypeOK'
  <2>1. \A u \in Known' : createdAt'[u] \in 0 .. MaxTime
    BY <1>2, <1>3, <1>4, <1>5 DEF PagingTypeOK, Known
  <2>2. rows \subseteq Known /\ seen \subseteq Known /\ matching \subseteq rows
    BY <1>2 DEF PagingTypeOK, Known
  <2>3. walk' \in [at : {"idle", "done"}] \cup [at : {"start"}, direction : Direction]
                    \cup [at : {"walking"}, direction : Direction, cursor : Known']
    BY <1>1, <1>2, <1>3 DEF PagingTypeOK, walkVars, Known
  <2>4. QED
    BY <1>1, <1>2, <1>3, <2>1, <2>2, <2>3 DEF PagingTypeOK, walkVars, Known
<1>7. \A d : \A u, v \in Known : ComesFirst(u, v, d)' = ComesFirst(u, v, d)
  BY <1>4 DEF ComesFirst, Precedes
<1>8. lasting \subseteq Known /\ seen \subseteq Known /\ (walk.at = "walking" => walk.cursor \in Known)
  BY <1>2 DEF PagingTypeOK, Known
<1>9. NothingLeftBehind'
  BY <1>1, <1>7, <1>8 DEF PagingInv, NothingLeftBehind, walkVars
<1>10. NothingAhead => NothingAhead'
  BY <1>1, <1>7, <1>8 DEF NothingAhead, walkVars
<1>11. QED
  BY <1>1, <1>3, <1>6, <1>9, <1>10 DEF PagingInv, walkVars

LEMMA StartStep ==
  ASSUME PagingInv, StartForward \/ \E c \in Ids : StartBackward(c)
  PROVE  PagingInv'
<1>1. PagingTypeOK /\ IsFiniteSet(Known)
  BY DEF PagingInv
<1>2. CASE StartForward
  <2>1. PagingTypeOK'
    BY <1>1, <1>2 DEF StartForward, PagingTypeOK, Direction
  <2>2. NothingLeftBehind' /\ (~ cursorLost' => NothingAhead' /\ repeated' = {})
    BY <1>2 DEF StartForward, PagingInv, NothingLeftBehind, NothingAhead
  <2>3. QED
    BY <1>1, <1>2, <2>1, <2>2 DEF StartForward, PagingInv, Known
<1>3. ASSUME NEW c \in Ids, StartBackward(c) PROVE PagingInv'
  <2>1. /\ walk.at = "idle" /\ c \in rows
        /\ walk' = [at |-> "walking", direction |-> "before", cursor |-> c]
        /\ lasting' = {t \in matching : Precedes(t, c)}
        /\ UNCHANGED <<now, createdAt, rows, matching, seen, repeated, cursorLost>>
    BY <1>3 DEF StartBackward
  <2>2. PagingTypeOK'
    BY <1>1, <2>1 DEF PagingTypeOK, Direction
  <2>3. NothingLeftBehind'
    BY <2>1 DEF NothingLeftBehind, ComesFirst, Precedes
  <2>4. ~ cursorLost' => NothingAhead' /\ repeated' = {}
    BY <2>1 DEF PagingInv, NothingAhead
  <2>5. QED
    BY <1>1, <2>1, <2>2, <2>3, <2>4 DEF PagingInv, Known
<1>4. QED
  BY <1>2, <1>3

LEMMA ReadPageStep ==
  ASSUME PagingInv, ReadPage
  PROVE  PagingInv'
<1> DEFINE d == walk.direction
           beyond == IF walk.at = "start" THEN matching ELSE Beyond(walk.cursor, d)
           page == Nearest(beyond, Limit, d)
           edge == Edge(page, d)
<1>1. /\ walk.at \in {"start", "walking"}
      /\ seen' = seen \cup page /\ repeated' = repeated \cup (seen \cap page)
      /\ walk' = IF Continues(page, d)
                 THEN [at |-> "walking", direction |-> d, cursor |-> edge]
                 ELSE [at |-> "done"]
      /\ cursorLost' = (cursorLost \/ (walk.at = "walking" /\ walk.cursor \notin rows))
      /\ UNCHANGED <<now, createdAt, rows, matching, lasting>>
  BY DEF ReadPage
<1>2. PagingTypeOK /\ IsFiniteSet(Known) /\ Clocked
  BY ClockedFacts DEF PagingInv
<1>3. beyond \subseteq matching /\ matching \subseteq Known /\ lasting \subseteq matching
  BY <1>2 DEF PagingTypeOK, Known, Beyond
<1>4. d \in Direction
  BY <1>1, <1>2 DEF PagingTypeOK
<1>5. page = Nearest(beyond, Limit, d)
  OBVIOUS
<1> HIDE DEF beyond, page
<1>6. /\ page \subseteq beyond
      /\ \A t \in page, u \in beyond \ page : ComesFirst(t, u, d)
      /\ beyond # {} => page # {}
  BY <1>2, <1>3, <1>5, PageFacts
<1>7. page # {} => edge \in page /\ \A u \in page \ {edge} : ComesFirst(u, edge, d)
  BY <1>2, <1>3, <1>6, EdgeFacts
<1>8. Continues(page, d) => page # {}
  BY DEF Continues
\* What the walk owed and this page did not bring comes after the page.
<1>9. ASSUME NEW t \in lasting \ seen' PROVE page # {} /\ ComesFirst(edge, t, d)
  <2>1. t \in beyond
    <3>1. CASE walk.at = "start"
      BY <1>3, <3>1 DEF beyond
    <3>2. CASE walk.at = "walking" /\ walk.cursor \notin rows
      BY <1>3, <3>2 DEF Beyond, beyond
    <3>3. CASE walk.at = "walking" /\ walk.cursor \in rows
      <4>1. ComesFirst(walk.cursor, t, d)
        BY <1>1, <1>9, <3>3 DEF PagingInv, NothingLeftBehind
      <4>2. QED
        BY <1>3, <1>9, <3>3, <4>1 DEF Beyond, beyond
    <3>4. QED
      BY <1>1, <3>1, <3>2, <3>3
  <2>2. t \notin page
    BY <1>1, <1>9
  <2>3. QED
    BY <1>6, <1>7, <2>1, <2>2
<1> HIDE DEF page, edge, d
<1>10. PagingTypeOK'
  <2>1. walk' \in [at : {"idle", "done"}] \cup [at : {"start"}, direction : Direction]
                    \cup [at : {"walking"}, direction : Direction, cursor : Known]
    <3>1. CASE Continues(page, d)
      BY <1>1, <1>3, <1>4, <1>6, <1>7, <1>8, <3>1
    <3>2. CASE ~ Continues(page, d)
      BY <1>1, <3>2
    <3>3. QED
      BY <3>1, <3>2
  <2>2. seen' \subseteq Known /\ repeated' \subseteq seen' /\ cursorLost' \in BOOLEAN
    BY <1>1, <1>2, <1>3, <1>6 DEF PagingTypeOK, Known
  <2>3. QED
    BY <1>1, <1>2, <2>1, <2>2 DEF PagingTypeOK, Known
<1>11. \A t, u, v : ComesFirst(t, u, v)' = ComesFirst(t, u, v)
  BY <1>1 DEF ComesFirst, Precedes
<1>12. NothingLeftBehind'
  <2>1. CASE Continues(page, d)
    <3>1. walk' = [at |-> "walking", direction |-> d, cursor |-> edge]
      BY <1>1, <2>1
    <3>2. QED
      BY <1>1, <1>9, <1>11, <3>1 DEF NothingLeftBehind
  <2>2. CASE ~ Continues(page, d)
    <3>1. walk' = [at |-> "done"]
      BY <1>1, <2>2
    <3>2. ASSUME NEW t \in lasting \ seen' PROVE FALSE
      <4>1. page # {} /\ ComesFirst(edge, t, d) /\ t \in matching
        BY <1>3, <1>9
      <4>2. t \in Beyond(edge, d)
        BY <4>1 DEF Beyond
      <4>3. QED
        BY <2>2, <4>1, <4>2 DEF Continues, edge
    <3>3. QED
      BY <1>1, <3>1, <3>2 DEF NothingLeftBehind
  <2>3. QED
    BY <2>1, <2>2
<1>13. ASSUME ~ cursorLost' PROVE NothingAhead' /\ repeated' = {}
  <2>1. ~ cursorLost /\ NothingAhead /\ repeated = {}
    BY <1>1, <1>13 DEF PagingInv
  <2>2. walk.at = "walking" =>
          /\ walk.cursor \in rows /\ walk.cursor \in Known
          /\ \A t \in page : t \in Known /\ ComesFirst(walk.cursor, t, d)
          /\ \A t \in seen : t \in Known /\ (t = walk.cursor \/ ComesFirst(t, walk.cursor, d))
    <3>1. SUFFICES ASSUME walk.at = "walking"
                   PROVE  /\ walk.cursor \in rows /\ walk.cursor \in Known
                          /\ \A t \in page : t \in Known /\ ComesFirst(walk.cursor, t, d)
                          /\ \A t \in seen : t \in Known /\ (t = walk.cursor \/ ComesFirst(t, walk.cursor, d))
      OBVIOUS
    <3>2. walk.cursor \in rows /\ walk.cursor \in Known
      BY <1>1, <1>2, <1>13, <3>1 DEF PagingTypeOK, Known
    <3>3. beyond = {t \in matching : ComesFirst(walk.cursor, t, d)}
      BY <3>1, <3>2 DEF Beyond, beyond, d
    <3>4. \A t \in seen : t \in Known /\ (t = walk.cursor \/ ComesFirst(t, walk.cursor, d))
      BY <1>2, <2>1, <3>1 DEF PagingTypeOK, Known, NothingAhead, d
    <3>5. QED
      BY <1>3, <1>6, <3>2, <3>3, <3>4
  <2>3. walk.at = "start" => seen = {}
    BY <2>1 DEF NothingAhead
  <2>4. seen \cap page = {}
    BY <1>1, <1>2, <2>2, <2>3, Order
  <2>5. ASSUME Continues(page, d), NEW t \in seen' PROVE t = edge \/ ComesFirst(t, edge, d)
    <3>1. edge \in page /\ \A u \in page \ {edge} : ComesFirst(u, edge, d)
      BY <1>7, <1>8, <2>5
    <3>2. CASE t \in page
      BY <3>1, <3>2
    <3>3. CASE t \in seen
      <4>1. walk.at = "walking"
        BY <1>1, <2>3, <3>3
      <4>2. /\ t \in Known /\ walk.cursor \in Known /\ edge \in Known
            /\ ComesFirst(walk.cursor, edge, d)
            /\ t = walk.cursor \/ ComesFirst(t, walk.cursor, d)
        BY <2>2, <3>1, <3>3, <4>1
      <4>3. QED
        BY <1>2, <4>2, Order
    <3>4. QED
      BY <1>1, <2>5, <3>2, <3>3
  <2>6. NothingAhead'
    <3>1. CASE Continues(page, d)
      <4>1. walk' = [at |-> "walking", direction |-> d, cursor |-> edge]
        BY <1>1, <3>1
      <4>2. QED
        BY <1>11, <2>5, <3>1, <4>1 DEF NothingAhead
    <3>2. CASE ~ Continues(page, d)
      BY <1>1, <3>2 DEF NothingAhead
    <3>3. QED
      BY <3>1, <3>2
  <2>7. QED
    BY <1>1, <2>1, <2>4, <2>6
<1>14. QED
  BY <1>1, <1>2, <1>10, <1>12, <1>13 DEF PagingInv, Known

LEMMA PagingStepInv == PagingInv /\ [PagingNext]_pagingVars => PagingInv'
<1> SUFFICES ASSUME PagingInv, [PagingNext]_pagingVars PROVE PagingInv'
  OBVIOUS
<1>1. PagingTypeOK
  BY DEF PagingInv
<1>2. CASE Tick
  <2>1. PagingTypeOK'
    BY <1>1, <1>2, PagingAssumption DEF Tick, PagingTypeOK, walkVars
  <2>2. QED
    BY <1>2, <2>1, ListingStep DEF Tick
<1>3. ASSUME NEW t \in Ids, CreateRow(t) PROVE PagingInv'
  BY <1>3, CreateRowStep
<1>4. ASSUME NEW t \in Ids, DeleteRow(t) PROVE PagingInv'
  <2>1. PagingTypeOK'
    BY <1>1, <1>4 DEF DeleteRow, PagingTypeOK, walkVars
  <2>2. QED
    BY <1>4, <2>1, ListingStep DEF DeleteRow
<1>5. ASSUME NEW t \in Ids, Update(t) PROVE PagingInv'
  <2>1. PagingTypeOK'
    BY <1>1, <1>5 DEF Update, PagingTypeOK, walkVars
  <2>2. QED
    BY <1>5, <2>1, ListingStep DEF Update
<1>6. CASE StartForward \/ \E c \in Ids : StartBackward(c)
  BY <1>6, StartStep
<1>7. CASE ReadPage
  BY <1>7, ReadPageStep
<1>8. CASE UNCHANGED pagingVars
  <2>1. PagingTypeOK'
    BY <1>1, <1>8 DEF pagingVars, PagingTypeOK
  <2>2. QED
    BY <1>8, <2>1, ListingStep DEF pagingVars, walkVars
<1>9. QED
  BY <1>2, <1>3, <1>4, <1>5, <1>6, <1>7, <1>8 DEF PagingNext

LEMMA PagingInvariance == PagingSpec => []PagingInv
BY PagingInitInv, PagingStepInv, PTL DEF PagingSpec

\* Every variable has its type in every reachable state: a walk's cursor is an id that was
\* once on a page, whether or not its row is still there.
THEOREM PagingTypeCorrect == PagingSpec => []PagingTypeOK
<1>1. PagingInv => PagingTypeOK
  BY DEF PagingInv
<1>2. QED
  BY <1>1, PagingInvariance, PTL

\* template-repository.ts, list(): whatever is created, deleted or edited while a consumer
\* follows paging.next or paging.previous to the end, it is given every template that was
\* there and matched all the time.
THEOREM NothingIsMissed == PagingSpec => []NothingMissed
<1>1. PagingInv => NothingMissed
  BY DEF PagingInv, NothingLeftBehind, NothingMissed
<1>2. QED
  BY <1>1, PagingInvariance, PTL

\* As long as the template at the cursor exists whenever the cursor is used, no template is
\* given twice, although the filter lets rows in and out behind and before the walk.
THEOREM NothingTwice == PagingSpec => []ExclusiveWhileCursorLives
<1>1. PagingInv => ExclusiveWhileCursorLives
  BY DEF PagingInv, ExclusiveWhileCursorLives
<1>2. QED
  BY <1>1, PagingInvariance, PTL
=============================================================================
