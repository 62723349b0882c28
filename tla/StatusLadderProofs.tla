------------------------- MODULE StatusLadderProofs -------------------------
(***************************************************************************)
(* The ladder's safety for any number of messages, numbers, resets,        *)
(* imports and restarts.                                                   *)
(*                                                                         *)
(* TimerIsNextRung is not inductive by itself: it needs the timers of the  *)
(* event loop to be the ones #pending knows (TimersTracked), and only      *)
(* outbound messages to have one, rows that are gone included.  The        *)
(* history needs every row to have its number, so that no transition goes  *)
(* unannounced, and therefore every exported file to be consistent too.    *)
(***************************************************************************)
EXTENDS StatusLadder, TLAPS

\* Only outbound messages have timers, after their row is gone as well.
TimersAreOutbound ==
  \A m \in Messages : pending[m] # "none" => m \in Outbound

\* An exported file holds no row without its number.
FilesAreConsistent ==
  \A file \in snapshot : \A m \in Messages :
    file.status[m] \in Status => PhoneOf[m] \in file.phones

\* The history belongs to the row that exists now.
UntoldWhenAbsent ==
  \A m \in Messages : ~Present(m) => emitted[m] = <<>>

IInv ==
  /\ TypeOK
  /\ TimersTracked
  /\ TimersAreOutbound
  /\ TimerIsNextRung
  /\ RowsHaveTheirPhone
  /\ FilesAreConsistent
  /\ UntoldWhenAbsent
  /\ ConsumerToldInOrder

-----------------------------------------------------------------------------
(* The five statuses, spelled out for the solver *)

\* The statuses, one by one; a row that is absent has none of them.
LEMMA StatusSets ==
  /\ Status = {"accepted", "sent", "delivered", "read", "failed"}
  /\ WebhookStatus = {"sent", "delivered", "read", "failed"}
  /\ Absent = {"unminted", "gone"}
  /\ Status \cap Absent = {}
  /\ "none" \notin Rung
BY DEF Status, WebhookStatus, Absent, Rung

\* canTransition() is the climbing order.
LEMMA TransitionClimbs ==
  ASSUME NEW a \in Status, NEW b \in Status
  PROVE  CanTransition(a, b) <=> Climbs(a, b)
BY DEF CanTransition, Climbs, STATUS_ORDER, Status

\* A climb can always take the next rung, and only from the rung below.
LEMMA NextRungFacts ==
  /\ \A s \in Status : RungAfter(s) \in Rung \cup {"none"}
  /\ \A s \in Rung : NextRung(s) = RungAfter(s)
  /\ \A s \in Status : RungAfter(s) # "none" => CanTransition(s, RungAfter(s))
BY LadderAssumption DEF Status, Rung, RungAfter, NextRung, CanTransition, STATUS_ORDER

-----------------------------------------------------------------------------
(* Type correctness *)

\* An empty database is of its type.
LEMMA TypeInit == Init => TypeOK
BY LadderAssumption DEF Init, TypeOK, Absent

\* Storing a status and announcing it keeps both histories typed.
LEMMA TransitionType ==
  ASSUME TypeOK, NEW m \in Messages, NEW s \in WebhookStatus, Transition(m, s)
  PROVE  /\ status' \in [Messages -> Status \cup Absent]
         /\ emitted' \in [Messages -> Seq(WebhookStatus)]
<1>1. status \in [Messages -> Status \cup Absent] /\ emitted \in [Messages -> Seq(WebhookStatus)]
  BY DEF TypeOK
<1>2. s \in Status \cup Absent
  BY DEF WebhookStatus
<1>3. status' \in [Messages -> Status \cup Absent]
  BY <1>1, <1>2 DEF Transition
<1>4. Append(emitted[m], s) \in Seq(WebhookStatus)
  BY <1>1
<1>5. emitted' \in [Messages -> Seq(WebhookStatus)]
  BY <1>1, <1>4 DEF Transition, Announced
<1>6. QED
  BY <1>3, <1>5

\* No operation leaves the types.
LEMMA TypeStep == TypeOK /\ [Next]_vars => TypeOK'
<1> SUFFICES ASSUME TypeOK, [Next]_vars
             PROVE  TypeOK'
  OBVIOUS
<1> USE LadderAssumption, StatusSets DEF TypeOK, rows, clock, control
<1>1. ASSUME NEW m \in Messages, Send(m)
      PROVE  TypeOK'
  BY <1>1 DEF Send, Schedule, Rung
<1>2. ASSUME NEW m \in Messages, SimulateInbound(m)
      PROVE  TypeOK'
  BY <1>2 DEF SimulateInbound
<1>3. ASSUME NEW m \in Messages, ReadReceipt(m)
      PROVE  TypeOK'
  BY <1>3 DEF ReadReceipt
<1>4. ASSUME NEW m \in Messages, NEW rung \in Rung, Fire(m, rung)
      PROVE  TypeOK'
  <2>1. CASE Present(m) /\ CanTransition(status[m], rung)
    <3>1. rung \in WebhookStatus /\ NextRung(rung) \in Rung \cup {"none"}
      BY DEF Rung, NextRung
    <3>2. status' \in [Messages -> Status \cup Absent] /\ emitted' \in [Messages -> Seq(WebhookStatus)]
      BY <1>4, <2>1, <3>1, TransitionType DEF Fire
    <3>3. timers' \subseteq Messages \X Rung /\ pending' \in [Messages -> Rung \cup {"none"}]
      <4> DEFINE next == NextRung(rung)
      <4>1. timers' = (timers \ {<<m, rung>>}) \cup (IF next = "none" THEN {} ELSE {<<m, next>>})
            /\ pending' = [pending EXCEPT ![m] = next]
        BY <1>4, <2>1 DEF Fire
      <4>2. next \in Rung \cup {"none"}
        BY <3>1
      <4> HIDE DEF next
      <4>3. QED
        BY <4>1, <4>2
    <3>4. QED
      BY <1>4, <3>2, <3>3 DEF Fire
  <2>2. CASE ~(Present(m) /\ CanTransition(status[m], rung))
    BY <1>4, <2>2 DEF Fire
  <2>3. QED
    BY <2>1, <2>2
<1>5. ASSUME NEW m \in Messages, NEW s \in ManualStatus, MarkStatus(m, s)
      PROVE  TypeOK'
  <2>1. s \in WebhookStatus
    BY DEF ManualStatus
  <2>2. timers' \subseteq Messages \X Rung /\ pending' \in [Messages -> Rung \cup {"none"}]
    BY <1>5 DEF MarkStatus, Cancel
  <2>3. status' \in [Messages -> Status \cup Absent] /\ emitted' \in [Messages -> Seq(WebhookStatus)]
    BY <1>5, <2>1, TransitionType DEF MarkStatus
  <2>4. QED
    BY <1>5, <2>2, <2>3 DEF MarkStatus
<1>6. ASSUME NEW p \in Phones, CreatePhone(p) \/ DeletePhone(p)
      PROVE  TypeOK'
  <2>1. CASE CreatePhone(p)
    BY <2>1 DEF CreatePhone
  <2>2. CASE DeletePhone(p)
    BY <2>2 DEF DeletePhone
  <2>3. QED
    BY <1>6, <2>1, <2>2
<1>7. CASE ResetBegin
  BY <1>7 DEF ResetBegin, CancelAll, Disrupt
<1>8. CASE ResetFinish
  BY <1>8 DEF ResetFinish
<1>9. CASE ExportState
  BY <1>9 DEF ExportState
<1>10. CASE ImportState
  BY <1>10 DEF ImportState, CancelAll, Disrupt
<1>11. CASE Restart
  BY <1>11 DEF Restart, Disrupt
<1>12. CASE UNCHANGED vars
  BY <1>12 DEF vars
<1>13. QED
  BY <1>1, <1>2, <1>3, <1>4, <1>5, <1>6, <1>7, <1>8, <1>9, <1>10, <1>11, <1>12 DEF Next

\* Every variable keeps its type, whatever the constants.
THEOREM TypeCorrect == Spec => []TypeOK
<1>1. QED
  BY TypeInit, TypeStep, PTL DEF Spec

-----------------------------------------------------------------------------
(* The timers *)

TimerInv == TimersTracked /\ TimersAreOutbound /\ TimerIsNextRung

\* No operation forgets a timer, or arms one for another rung than the next.
LEMMA TimerStep == TypeOK /\ TimerInv /\ [Next]_vars => TimerInv'
<1> SUFFICES ASSUME TypeOK, TimerInv, [Next]_vars
             PROVE  TimerInv'
  OBVIOUS
<1> USE LadderAssumption, StatusSets
        DEF TimerInv, TimersTracked, TimersAreOutbound, TimerIsNextRung, rows, clock, control
<1>0. /\ status \in [Messages -> Status \cup Absent]
      /\ pending \in [Messages -> Rung \cup {"none"}]
  BY DEF TypeOK
<1>1. ASSUME NEW m \in Messages, Send(m)
      PROVE  TimerInv'
  <2>1. /\ status' = [status EXCEPT ![m] = "accepted"]
        /\ timers' = (timers \ {<<m, pending[m]>>}) \cup {<<m, "sent">>}
        /\ pending' = [pending EXCEPT ![m] = "sent"]
        /\ m \in Outbound
    BY <1>1 DEF Send, Schedule
  <2>2. TimersTracked'
    BY <1>0, <2>1
  <2>3. TimersAreOutbound'
    BY <1>0, <2>1
  <2>4. TimerIsNextRung'
    BY <1>0, <2>1 DEF Present, RungAfter
  <2>5. QED
    BY <2>2, <2>3, <2>4
<1>2. ASSUME NEW m \in Messages, SimulateInbound(m) \/ ReadReceipt(m)
      PROVE  TimerInv'
  <2>1. PICK s \in Status : status' = [status EXCEPT ![m] = s]
    BY <1>2 DEF SimulateInbound, ReadReceipt
  <2>2. m \in Inbound /\ m \notin Outbound /\ UNCHANGED <<timers, pending>>
    BY <1>2 DEF SimulateInbound, ReadReceipt
  <2>3. TimerIsNextRung'
    BY <1>0, <2>1, <2>2 DEF Present
  <2>4. QED
    BY <2>2, <2>3
<1>3. ASSUME NEW m \in Messages, NEW rung \in Rung, Fire(m, rung)
      PROVE  TimerInv'
  <2>1. pending[m] = rung /\ m \in Outbound
    BY <1>3 DEF Fire
  <2>2. CASE Present(m) /\ CanTransition(status[m], rung)
    <3> DEFINE next == NextRung(rung)
    <3>1. /\ status' = [status EXCEPT ![m] = rung]
          /\ timers' = (timers \ {<<m, rung>>}) \cup (IF next = "none" THEN {} ELSE {<<m, next>>})
          /\ pending' = [pending EXCEPT ![m] = next]
      BY <1>3, <2>2 DEF Fire, Transition
    <3>2. next = RungAfter(rung) /\ next \in Rung \cup {"none"}
      BY NextRungFacts DEF Rung, Status
    <3> HIDE DEF next
    <3>3. TimersTracked'
      BY <1>0, <2>1, <3>1, <3>2
    <3>4. TimersAreOutbound'
      BY <1>0, <2>1, <3>1
    <3>5. TimerIsNextRung'
      BY <1>0, <2>1, <3>1, <3>2 DEF Present
    <3>6. QED
      BY <3>3, <3>4, <3>5
  <2>3. CASE ~(Present(m) /\ CanTransition(status[m], rung))
    <3>1. /\ UNCHANGED status
          /\ timers' = timers \ {<<m, rung>>}
          /\ pending' = [pending EXCEPT ![m] = "none"]
      BY <1>3, <2>3 DEF Fire
    <3>2. QED
      BY <1>0, <2>1, <3>1 DEF Present
  <2>4. QED
    BY <2>2, <2>3
<1>4. ASSUME NEW m \in Messages, NEW s \in ManualStatus, MarkStatus(m, s)
      PROVE  TimerInv'
  <2>1. /\ timers' = timers \ {<<m, pending[m]>>}
        /\ pending' = [pending EXCEPT ![m] = "none"]
    BY <1>4 DEF MarkStatus, Cancel
  <2>2. \A k \in Messages : k # m => status'[k] = status[k]
    BY <1>0, <1>4 DEF MarkStatus, Transition
  <2>3. TimersTracked' /\ TimersAreOutbound'
    BY <1>0, <2>1
  <2>4. TimerIsNextRung'
    BY <1>0, <2>1, <2>2 DEF Present
  <2>5. QED
    BY <2>3, <2>4
<1>5. ASSUME NEW p \in Phones, CreatePhone(p) \/ DeletePhone(p)
      PROVE  TimerInv'
  <2>1. UNCHANGED <<timers, pending>>
    BY <1>5 DEF CreatePhone, DeletePhone
  <2>2. \A k \in Messages : status'[k] = status[k] \/ status'[k] = "gone"
    BY <1>0, <1>5 DEF CreatePhone, DeletePhone
  <2>3. QED
    BY <2>1, <2>2 DEF Present
<1>6. CASE ResetFinish
  <2>1. UNCHANGED <<timers, pending>> /\ \A k \in Messages : status'[k] \notin Status
    BY <1>0, <1>6 DEF ResetFinish, Present
  <2>2. QED
    BY <2>1 DEF Present
<1>7. CASE ResetBegin \/ ImportState \/ Restart
  <2>1. timers' = {} /\ pending' = [m \in Messages |-> "none"]
    BY <1>0, <1>7 DEF ResetBegin, ImportState, Restart, CancelAll, KnownTimers
  <2>2. QED
    BY <2>1
<1>8. CASE ExportState \/ UNCHANGED vars
  BY <1>8 DEF ExportState, vars, Present
<1>9. QED
  BY <1>1, <1>2, <1>3, <1>4, <1>5, <1>6, <1>7, <1>8 DEF Next

-----------------------------------------------------------------------------
(* The rows and their numbers *)

RowInv == RowsHaveTheirPhone /\ FilesAreConsistent

\* No operation leaves a message without its number, in the database or in a file.
LEMMA RowStep == TypeOK /\ RowInv /\ [Next]_vars => RowInv'
<1> SUFFICES ASSUME TypeOK, RowInv, [Next]_vars
             PROVE  RowInv'
  OBVIOUS
<1> USE LadderAssumption, StatusSets
        DEF RowInv, RowsHaveTheirPhone, FilesAreConsistent, Present, rows, clock, control
<1>0. /\ status \in [Messages -> Status \cup Absent]
      /\ snapshot \subseteq [status : [Messages -> Status \cup Absent], phones : SUBSET Phones]
  BY DEF TypeOK
<1>1. ASSUME NEW m \in Messages, Send(m) \/ SimulateInbound(m) \/ ReadReceipt(m)
      PROVE  RowInv'
  <2>1. UNCHANGED <<phones, snapshot>> /\ PhoneOf[m] \in phones
    BY <1>1 DEF Send, SimulateInbound, ReadReceipt
  <2>2. \A k \in Messages : k # m => status'[k] = status[k]
    BY <1>0, <1>1 DEF Send, SimulateInbound, ReadReceipt
  <2>3. QED
    BY <2>1, <2>2
<1>2. ASSUME NEW m \in Messages, NEW rung \in Rung, Fire(m, rung)
      PROVE  RowInv'
  <2>1. UNCHANGED <<phones, snapshot>>
    BY <1>2 DEF Fire
  <2>2. \A k \in Messages : status'[k] = status[k] \/ (k = m /\ Present(m))
    BY <1>0, <1>2 DEF Fire, Transition
  <2>3. QED
    BY <2>1, <2>2
<1>3. ASSUME NEW m \in Messages, NEW s \in ManualStatus, MarkStatus(m, s)
      PROVE  RowInv'
  <2>1. UNCHANGED <<phones, snapshot>> /\ Present(m)
    BY <1>3 DEF MarkStatus
  <2>2. \A k \in Messages : k # m => status'[k] = status[k]
    BY <1>0, <1>3 DEF MarkStatus, Transition
  <2>3. QED
    BY <2>1, <2>2
<1>4. ASSUME NEW p \in Phones, CreatePhone(p)
      PROVE  RowInv'
  BY <1>4 DEF CreatePhone
<1>5. ASSUME NEW p \in Phones, DeletePhone(p)
      PROVE  RowInv'
  BY <1>0, <1>5 DEF DeletePhone
<1>6. CASE ResetFinish
  BY <1>0, <1>6 DEF ResetFinish
<1>7. CASE ExportState
  BY <1>0, <1>7 DEF ExportState
<1>8. CASE ImportState
  <2>1. PICK file \in snapshot :
          /\ status' = [m \in Messages |->
                          IF file.status[m] \in Status THEN file.status[m]
                          ELSE IF Present(m) THEN "gone" ELSE status[m]]
          /\ phones' = file.phones
          /\ UNCHANGED snapshot
    BY <1>8 DEF ImportState
  <2>2. \A m \in Messages : status'[m] \in Status => file.status[m] \in Status
    BY <1>0, <2>1
  <2>3. QED
    BY <2>1, <2>2
<1>9. CASE ResetBegin \/ Restart \/ UNCHANGED vars
  BY <1>9 DEF ResetBegin, Restart, vars
<1>10. QED
  BY <1>1, <1>2, <1>3, <1>4, <1>5, <1>6, <1>7, <1>8, <1>9 DEF Next

-----------------------------------------------------------------------------
(* What the consumer is told *)

\* A history that climbs still does after a status above its last one.
LEMMA AppendClimbs ==
  ASSUME NEW told \in Seq(WebhookStatus), NEW s \in WebhookStatus,
         \A i \in 1 .. Len(told) - 1 : Climbs(told[i], told[i + 1]),
         told # <<>> => Climbs(told[Len(told)], s)
  PROVE  /\ \A i \in 1 .. Len(Append(told, s)) - 1 :
               Climbs(Append(told, s)[i], Append(told, s)[i + 1])
         /\ Append(told, s) # <<>>
         /\ Append(told, s)[Len(Append(told, s))] = s
<1> DEFINE now == Append(told, s)
<1>1. /\ Len(now) = Len(told) + 1
      /\ now[Len(told) + 1] = s
      /\ \A i \in 1 .. Len(told) : now[i] = told[i]
  OBVIOUS
<1>2. ASSUME NEW i \in 1 .. Len(now) - 1
      PROVE  Climbs(now[i], now[i + 1])
  <2>1. CASE i = Len(told)
    <3>1. told # <<>>
      BY <2>1, <1>2
    <3>2. QED
      BY <1>1, <2>1, <3>1, <1>2
  <2>2. CASE i # Len(told)
    BY <1>1, <2>2, <1>2
  <2>3. QED
    BY <2>1, <2>2
<1>3. \A i \in 1 .. Len(now) - 1 : Climbs(now[i], now[i + 1])
  BY <1>2
<1>4. now # <<>> /\ now[Len(now)] = s
  BY <1>1
<1>5. QED
  BY <1>3, <1>4

\* A transition the ladder allows extends the history as promised.
LEMMA TransitionIsTold ==
  ASSUME TypeOK, RowsHaveTheirPhone, ConsumerToldInOrder,
         NEW m \in Messages, NEW s \in WebhookStatus,
         Present(m), CanTransition(status[m], s), Transition(m, s)
  PROVE  ConsumerToldInOrder'
<1>1. /\ status \in [Messages -> Status \cup Absent]
      /\ emitted \in [Messages -> Seq(WebhookStatus)]
  BY DEF TypeOK
<1>2. emitted' = [emitted EXCEPT ![m] = Append(@, s)] /\ status' = [status EXCEPT ![m] = s]
  BY DEF Transition, Announced, RowsHaveTheirPhone
<1>3. Climbs(status[m], s)
  BY TransitionClimbs, StatusSets DEF Present, WebhookStatus
<1>4. ASSUME NEW k \in Outbound
      PROVE  /\ \A i \in 1 .. Len(emitted'[k]) - 1 : Climbs(emitted'[k][i], emitted'[k][i + 1])
             /\ Present(k)' /\ emitted'[k] # <<>> => status'[k] = emitted'[k][Len(emitted'[k])]
  <2>1. k \in Messages
    BY DEF Messages
  <2>2. CASE k = m
    <3>1. /\ emitted[m] \in Seq(WebhookStatus)
          /\ \A i \in 1 .. Len(emitted[m]) - 1 : Climbs(emitted[m][i], emitted[m][i + 1])
          /\ emitted[m] # <<>> => Climbs(emitted[m][Len(emitted[m])], s)
      BY <1>1, <1>3, <2>2 DEF ConsumerToldInOrder
    <3>2. emitted'[k] = Append(emitted[m], s) /\ status'[k] = s
      BY <1>1, <1>2, <2>2
    <3>3. QED
      BY <3>1, <3>2, AppendClimbs
  <2>3. CASE k # m
    <3>1. emitted'[k] = emitted[k] /\ status'[k] = status[k]
      BY <1>1, <1>2, <2>1, <2>3
    <3>2. QED
      BY <3>1 DEF ConsumerToldInOrder, Present
  <2>4. QED
    BY <2>2, <2>3
<1>5. QED
  BY <1>4 DEF ConsumerToldInOrder

HistoryInv == UntoldWhenAbsent /\ ConsumerToldInOrder

\* No operation tells the consumer less, or more, than the row's climb.
LEMMA HistoryStep ==
  TypeOK /\ RowsHaveTheirPhone /\ HistoryInv /\ [Next]_vars => HistoryInv'
<1> SUFFICES ASSUME TypeOK, RowsHaveTheirPhone, HistoryInv, [Next]_vars
             PROVE  HistoryInv'
  OBVIOUS
<1> USE StatusSets DEF HistoryInv, rows, clock, control
<1>0. /\ status \in [Messages -> Status \cup Absent]
      /\ emitted \in [Messages -> Seq(WebhookStatus)]
      /\ Outbound \subseteq Messages
  BY DEF TypeOK, Messages
<1>1. ASSUME NEW m \in Messages, Send(m)
      PROVE  HistoryInv'
  <2>1. UNCHANGED emitted /\ emitted[m] = <<>> /\ \A k \in Messages : k # m => status'[k] = status[k]
    BY <1>0, <1>1 DEF Send, UntoldWhenAbsent, Present
  <2>2. QED
    BY <1>0, <2>1 DEF ConsumerToldInOrder, UntoldWhenAbsent, Present
<1>2. ASSUME NEW m \in Messages, SimulateInbound(m) \/ ReadReceipt(m)
      PROVE  HistoryInv'
  <2>1. PICK s \in Status : status' = [status EXCEPT ![m] = s]
    BY <1>2 DEF SimulateInbound, ReadReceipt
  <2>2. m \notin Outbound /\ UNCHANGED emitted
    BY <1>2, LadderAssumption DEF SimulateInbound, ReadReceipt
  <2>3. QED
    BY <1>0, <2>1, <2>2 DEF ConsumerToldInOrder, UntoldWhenAbsent, Present
<1>3. ASSUME NEW m \in Messages, NEW s \in WebhookStatus,
             Present(m), CanTransition(status[m], s), Transition(m, s)
      PROVE  HistoryInv'
  <2>1. ConsumerToldInOrder'
    BY <1>3, TransitionIsTold
  <2>2. UntoldWhenAbsent'
    <3>1. /\ status' = [status EXCEPT ![m] = s] /\ s \in Status
          /\ \A k \in Messages : k # m => emitted'[k] = emitted[k]
      BY <1>0, <1>3 DEF Transition, Announced, WebhookStatus
    <3>2. QED
      BY <1>0, <3>1 DEF UntoldWhenAbsent, Present
  <2>3. QED
    BY <2>1, <2>2
<1>4. ASSUME UNCHANGED <<status, emitted>>
      PROVE  HistoryInv'
  BY <1>4 DEF ConsumerToldInOrder, UntoldWhenAbsent, Present
<1>5. ASSUME NEW m \in Messages, NEW rung \in Rung, Fire(m, rung)
      PROVE  HistoryInv'
  BY <1>3, <1>4, <1>5 DEF Fire, Rung
<1>6. ASSUME NEW m \in Messages, NEW s \in ManualStatus, MarkStatus(m, s)
      PROVE  HistoryInv'
  BY <1>3, <1>4, <1>6 DEF MarkStatus, ManualStatus
<1>7. ASSUME NEW p \in Phones, DeletePhone(p)
      PROVE  HistoryInv'
  <2>1. \A k \in Messages : \/ emitted'[k] = <<>>
                            \/ emitted'[k] = emitted[k] /\ status'[k] = status[k]
    BY <1>0, <1>7 DEF DeletePhone
  <2>2. QED
    BY <1>0, <2>1 DEF ConsumerToldInOrder, UntoldWhenAbsent, Present
<1>8. CASE ResetFinish \/ ImportState
  <2>1. emitted' = [k \in Messages |-> <<>>]
    BY <1>8 DEF ResetFinish, ImportState
  <2>2. QED
    BY <1>0, <2>1 DEF ConsumerToldInOrder, UntoldWhenAbsent
<1>9. QED
  <2>1. CASE \E p \in Phones : CreatePhone(p)
    BY <1>4, <2>1 DEF CreatePhone
  <2>2. CASE ResetBegin \/ ExportState \/ Restart \/ UNCHANGED vars
    BY <1>4, <2>2 DEF ResetBegin, ExportState, Restart, vars
  <2>3. QED
    BY <1>1, <1>2, <1>5, <1>6, <1>7, <1>8, <2>1, <2>2 DEF Next

-----------------------------------------------------------------------------
(* The theorems *)

\* The invariant holds of an empty database.
LEMMA InvariantInit == Init => IInv
BY TypeInit, StatusSets
   DEF Init, IInv, TimersTracked, TimersAreOutbound, TimerIsNextRung, RowsHaveTheirPhone,
       FilesAreConsistent, UntoldWhenAbsent, ConsumerToldInOrder, Present, Messages

\* Every step keeps the invariant, part by part.
LEMMA InvariantStep == IInv /\ [Next]_vars => IInv'
BY TypeStep, TimerStep, RowStep, HistoryStep DEF IInv, TimerInv, RowInv, HistoryInv

\* The inductive invariant holds of every behaviour.
THEOREM InvariantHolds == Spec => []IInv
<1>1. QED
  BY InvariantInit, InvariantStep, PTL DEF Spec

\* No timer is armed that the ladder does not know about.
THEOREM TimersTrackedHolds == Spec => []TimersTracked
<1>1. IInv => TimersTracked
  BY DEF IInv
<1>2. QED
  BY <1>1, InvariantHolds, PTL

\* A timer of a row that exists is for its very next rung.
THEOREM TimerIsNextRungHolds == Spec => []TimerIsNextRung
<1>1. IInv => TimerIsNextRung
  BY DEF IInv
<1>2. QED
  BY <1>1, InvariantHolds, PTL

\* A row never outlives its number.
THEOREM RowsHaveTheirPhoneHolds == Spec => []RowsHaveTheirPhone
<1>1. IInv => RowsHaveTheirPhone
  BY DEF IInv
<1>2. QED
  BY <1>1, InvariantHolds, PTL

\* The webhooks handed over for an outbound message climb, and the last one is
\* the status of its row.
THEOREM ConsumerToldInOrderHolds == Spec => []ConsumerToldInOrder
<1>1. IInv => ConsumerToldInOrder
  BY DEF IInv
<1>2. QED
  BY <1>1, InvariantHolds, PTL

\* Only an import moves an outbound message backwards.
THEOREM ForwardOnlyHolds == Spec => ForwardOnly
<1> DEFINE Moves == \A m \in Outbound :
              Present(m) /\ Present(m)' /\ status'[m] # status[m] =>
                Climbs(status[m], status'[m]) \/ ImportState
<1>1. IInv /\ [Next]_vars => [Moves]_vars
  <2> SUFFICES ASSUME IInv, Next, ~ImportState,
                      NEW m \in Outbound, Present(m), Present(m)', status'[m] # status[m]
               PROVE  Climbs(status[m], status'[m])
    OBVIOUS
  <2>0. status \in [Messages -> Status \cup Absent] /\ m \in Messages
    BY DEF IInv, TypeOK, Messages
  <2> USE StatusSets DEF Present, rows, clock, control
  <2>1. ASSUME NEW k \in Messages, NEW s \in WebhookStatus,
               CanTransition(status[k], s), Transition(k, s)
        PROVE  Climbs(status[m], status'[m])
    <3>1. k = m /\ status'[m] = s
      BY <2>0, <2>1 DEF Transition
    <3>2. QED
      BY <2>1, <3>1, TransitionClimbs DEF WebhookStatus
  <2>2. ASSUME NEW k \in Messages, NEW rung \in Rung, Fire(k, rung)
        PROVE  Climbs(status[m], status'[m])
    BY <2>1, <2>2 DEF Fire, Rung
  <2>3. ASSUME NEW k \in Messages, NEW s \in ManualStatus, MarkStatus(k, s)
        PROVE  Climbs(status[m], status'[m])
    BY <2>1, <2>3 DEF MarkStatus, ManualStatus
  <2>4. ASSUME NEW k \in Messages, Send(k) \/ SimulateInbound(k) \/ ReadReceipt(k)
        PROVE  FALSE
    BY <2>0, <2>4, LadderAssumption DEF Send, SimulateInbound, ReadReceipt
  <2>5. ASSUME NEW p \in Phones, CreatePhone(p) \/ DeletePhone(p)
        PROVE  FALSE
    BY <2>0, <2>5 DEF CreatePhone, DeletePhone
  <2>6. CASE ResetBegin \/ ResetFinish \/ ExportState \/ Restart
    BY <2>0, <2>6 DEF ResetBegin, ResetFinish, ExportState, Restart
  <2>7. QED
    BY <2>2, <2>3, <2>4, <2>5, <2>6 DEF Next
<1>2. QED
  BY <1>1, InvariantHolds, PTL DEF ForwardOnly, Spec
=============================================================================
