----------------------------- MODULE ChatProofs -----------------------------
(***************************************************************************)
(* What is kept by wa_id stays with its person, each typing indicator has  *)
(* one timer, and the chat view shows what the server has, for any number  *)
(* of people, messages, moves and raises; the composer's quotes, at the    *)
(* end, stay in their conversation.                                        *)
(*                                                                         *)
(* The first two hold by themselves once the types do.  The types are the  *)
(* work: frames and pages name messages, so the sets they are drawn from   *)
(* grow with the history (Frames and Frames').                             *)
(*                                                                         *)
(* The view is right when nothing is on its way, so its invariant says     *)
(* what holds while something is: whatever a frame or the store keeps under *)
(* a name gets to where its person or message is now by the moves still    *)
(* on their way (Leads), and the last frame about an indicator says what   *)
(* the server says.                                                        *)
(***************************************************************************)
EXTENDS Conversations, Composer, TLAPS

IInv ==
  /\ TypeOK
  /\ HistoryStaysWithThePerson
  /\ OneTimerPerIndicator

-----------------------------------------------------------------------------
(* Operators *)

\* Nobody is no person, and there are no more people than the bound.
LEMMA Constants ==
  /\ 0 \in People /\ Nobody = 0 /\ People \subseteq Nat
  /\ 0 \in Raises /\ Raises \subseteq Nat
  /\ None \notin WaIds /\ Away \notin WaIds /\ None # Away
  /\ \A n \in People : n < MaxPeople => n + 1 \in People /\ n + 1 # 0
  /\ \A n \in Raises : n < MaxRaises => n + 1 \in Raises /\ n + 1 # 0
BY ConversationsAssumption DEF People, Raises, Nobody

\* A contact that is made sure of is there, and the others are as before.
LEMMA EnsureFacts ==
  ASSUME ServerTypes, NEW w \in WaIds, Ensure(w)
  PROVE  /\ contacts' \in [WaIds -> People] /\ people' \in People
         /\ contacts'[w] \in People \ {Nobody}
         /\ \A v \in WaIds : contacts[v] # Nobody \/ v # w => contacts'[v] = contacts[v]
<1>1. CASE contacts[w] # Nobody
  BY <1>1 DEF Ensure, ServerTypes
<1>2. CASE contacts[w] = Nobody
  <2>1. people \in Nat /\ people < MaxPeople /\ people' = people + 1
    BY <1>2, Constants DEF Ensure, ServerTypes
  <2>2. people' \in People \ {Nobody}
    BY <2>1, Constants DEF ServerTypes
  <2>3. contacts' = [contacts EXCEPT ![w] = people']
    BY <1>2 DEF Ensure
  <2>4. QED
    BY <1>2, <2>2, <2>3 DEF ServerTypes
<1>3. QED
  BY <1>1, <1>2

\* An insert adds one row at the end.
LEMMA InsertFacts ==
  ASSUME ServerTypes, NEW w \in WaIds, NEW out \in BOOLEAN,
         contacts'[w] \in People \ {Nobody}, Insert(w, out)
  PROVE  /\ history' \in Seq(Rows)
         /\ Indices \subseteq Indices'
         /\ \A m \in Indices : history'[m] = history[m]
         /\ \A m \in Indices' \ Indices :
              history'[m] = [contact |-> w, person |-> contacts'[w], out |-> out]
         /\ Len(history') \in Indices' \ Indices
<1> DEFINE row == [contact |-> w, person |-> contacts'[w], out |-> out]
<1>1. row \in Rows /\ history' = Append(history, row) /\ history \in Seq(Rows)
  BY DEF Insert, Rows, ServerTypes
<1> HIDE DEF row
<1>2. /\ history' \in Seq(Rows) /\ Len(history') = Len(history) + 1
      /\ \A m \in 1 .. Len(history) : history'[m] = history[m]
      /\ history'[Len(history) + 1] = row
  BY <1>1
<1>3. Indices = 1 .. Len(history) /\ Indices' = 1 .. Len(history') /\ Len(history) \in Nat
  BY <1>1, <1>2 DEF Indices
<1>4. /\ Indices' \ Indices = {Len(history) + 1}
      /\ Indices \subseteq Indices'
  BY <1>2, <1>3
<1>5. QED
  BY <1>2, <1>3, <1>4 DEF row

\* What could be said of the messages can still be said when there are more.
LEMMA FramesGrow ==
  ASSUME Indices \subseteq Indices'
  PROVE  Frames \subseteq Frames'
BY DEF Frames, Moves

\* Publishing frames that can be said keeps the wire's type.
LEMMA PublishFacts ==
  ASSUME WireTypes, Indices \subseteq Indices', NEW more \in Seq(Frames'), Publish(more)
  PROVE  frames' \in Seq(Frames')
<1>1. frames \in Seq(Frames')
  BY FramesGrow DEF WireTypes
<1>2. QED
  BY <1>1 DEF Publish

\* The client's part is not disturbed by more messages.
LEMMA ClientGrows ==
  ASSUME StoreTypes, ViewTypes, Indices \subseteq Indices',
         UNCHANGED <<storeVars, viewVars, astray>>
  PROVE  StoreTypes' /\ ViewTypes'
<1>1. held' \in [WaIds -> [loaded : BOOLEAN, messages : SUBSET Indices']]
  BY DEF StoreTypes, storeVars
<1>2. page' \in Fetches(Indices')
  BY DEF ViewTypes, viewVars, Fetches
<1>3. QED
  BY <1>1, <1>2 DEF StoreTypes, ViewTypes, storeVars, viewVars

\* With the same messages the same can be said.
LEMMA SameMessages ==
  ASSUME UNCHANGED history
  PROVE  Indices' = Indices /\ Frames' = Frames
BY DEF Indices, Frames, Moves

\* A handler that adds messages, or none, and publishes what can be said.
LEMMA HandlerTypes ==
  ASSUME TypeOK, ServerTypes', Indices \subseteq Indices', NEW more \in Seq(Frames'), Publish(more),
         UNCHANGED <<storeVars, viewVars, echoes, astray>>
  PROVE  TypeOK'
<1>1. frames' \in Seq(Frames')
  BY PublishFacts DEF TypeOK
<1>2. StoreTypes' /\ ViewTypes'
  BY ClientGrows DEF TypeOK
<1>3. QED
  BY <1>1, <1>2 DEF TypeOK, WireTypes, Moves

-----------------------------------------------------------------------------
(* The history, when a contact is made sure of *)

LEMMA HistoryKept ==
  ASSUME ServerTypes, HistoryStaysWithThePerson, NEW w \in WaIds, Ensure(w),
         UNCHANGED <<holder, owner, history>>
  PROVE  HistoryStaysWithThePerson'
<1>1. \A m \in Indices : history[m] \in Rows
  BY DEF ServerTypes, Indices
<1>2. \A m \in Indices : contacts[history[m].contact] # Nobody
  BY <1>1 DEF HistoryStaysWithThePerson, Rows
<1>3. \A m \in Indices : contacts'[history[m].contact] = contacts[history[m].contact]
  BY <1>1, <1>2, EnsureFacts DEF Rows
<1>4. holder # None => contacts[holder] # Nobody /\ holder \in WaIds
  BY DEF HistoryStaysWithThePerson, ServerTypes
<1>5. holder # None => contacts'[holder] = contacts[holder]
  BY <1>4, EnsureFacts
<1>6. QED
  BY <1>3, <1>5, SameMessages DEF HistoryStaysWithThePerson

LEMMA HistoryGrows ==
  ASSUME ServerTypes, HistoryStaysWithThePerson, NEW w \in WaIds, NEW out \in BOOLEAN,
         Ensure(w), Insert(w, out), UNCHANGED <<holder, owner>>
  PROVE  HistoryStaysWithThePerson'
<1>1. contacts'[w] \in People \ {Nobody}
  BY EnsureFacts
<1>2. /\ \A m \in Indices : history'[m] = history[m]
      /\ \A m \in Indices' \ Indices :
           history'[m] = [contact |-> w, person |-> contacts'[w], out |-> out]
  BY <1>1, InsertFacts
<1>3. \A m \in Indices : history[m] \in Rows
  BY DEF ServerTypes, Indices
<1>4. \A m \in Indices : contacts'[history[m].contact] = history[m].person
  BY <1>3, EnsureFacts DEF HistoryStaysWithThePerson, Rows
<1>5. \A m \in Indices' : contacts'[history'[m].contact] = history'[m].person
  BY <1>2, <1>4
<1>6. holder # None => contacts[holder] # Nobody /\ holder \in WaIds
  BY DEF HistoryStaysWithThePerson, ServerTypes
<1>7. holder # None => contacts'[holder] = contacts[holder]
  BY <1>6, EnsureFacts
<1>8. QED
  BY <1>5, <1>7 DEF HistoryStaysWithThePerson

-----------------------------------------------------------------------------
(* The handlers *)

\* A message that is recorded, and the frames that can be sent of it.
LEMMA Recorded ==
  ASSUME ServerTypes, NEW w \in WaIds, NEW out \in BOOLEAN, Ensure(w), Insert(w, out)
  PROVE  /\ history' \in Seq(Rows) /\ Indices \subseteq Indices'
         /\ Inserted \in Frames'
<1>1. contacts'[w] \in People \ {Nobody}
  BY EnsureFacts
<1>2. /\ history' \in Seq(Rows) /\ Indices \subseteq Indices'
      /\ Len(history') \in Indices'
  BY <1>1, InsertFacts
<1>3. history'[Len(history')] \in Rows
  BY <1>2 DEF Indices
<1>4. MessageFrame(Len(history'), history'[Len(history')]) \in Frames'
  BY <1>2, <1>3 DEF MessageFrame, Frame, Frames, Rows
<1>5. QED
  BY <1>2, <1>4 DEF Inserted

\* A contact seen for the first time can be announced, whatever the messages are.
LEMMA Announced ==
  ASSUME ServerTypes, NEW w \in WaIds, Ensure(w)
  PROVE  FirstSeen(w) \in Seq(Frames')
<1>1. ContactFrame(w, contacts'[w]) \in Frames'
  BY EnsureFacts DEF ContactFrame, Frame, Frames
<1>2. QED
  BY <1>1 DEF FirstSeen

LEMMA InboundStep ==
  ASSUME IInv, NEW w \in WaIds, Inbound(w)
  PROVE  IInv'
<1> USE DEF Inbound
<1> DEFINE more == FirstSeen(w) \o <<Inserted>>
<1>1. ServerTypes /\ Ensure(w) /\ Insert(w, FALSE) /\ Publish(more)
  BY DEF IInv, TypeOK
<1>2. history' \in Seq(Rows) /\ Indices \subseteq Indices' /\ Inserted \in Frames'
  BY <1>1, Recorded
<1>3. ServerTypes'
  BY <1>1, <1>2, EnsureFacts DEF ServerTypes
<1>4. more \in Seq(Frames')
  BY <1>1, <1>2, Announced
<1>5. UNCHANGED <<storeVars, viewVars, echoes, astray>>
  OBVIOUS
<1>6. TypeOK'
  <2> HIDE DEF more, Inbound
  <2>1. QED
    BY <1>1, <1>2, <1>3, <1>4, <1>5, HandlerTypes DEF IInv
<1>7. HistoryStaysWithThePerson'
  BY <1>1, HistoryGrows DEF IInv
<1>8. OneTimerPerIndicator'
  BY DEF IInv, OneTimerPerIndicator, Up
<1>9. QED
  BY <1>6, <1>7, <1>8 DEF IInv

LEMMA InboundRefusedStep ==
  ASSUME IInv, NEW w \in WaIds, InboundRefused(w)
  PROVE  IInv'
<1> USE DEF InboundRefused
<1>1. ServerTypes /\ Ensure(w) /\ Publish(FirstSeen(w)) /\ UNCHANGED history
  BY DEF IInv, TypeOK
<1>2. ServerTypes'
  BY <1>1, EnsureFacts DEF ServerTypes
<1>3. FirstSeen(w) \in Seq(Frames')
  BY <1>1, Announced
<1>4. UNCHANGED <<storeVars, viewVars, echoes, astray>>
  OBVIOUS
<1>5. TypeOK'
  <2> HIDE DEF InboundRefused
  <2>1. QED
    BY <1>1, <1>2, <1>3, <1>4, SameMessages, HandlerTypes DEF IInv
<1>6. HistoryStaysWithThePerson'
  BY <1>1, HistoryKept DEF IInv
<1>7. OneTimerPerIndicator'
  BY DEF IInv, OneTimerPerIndicator, Up
<1>8. QED
  BY <1>5, <1>6, <1>7 DEF IInv

\* A typing indicator can be announced, and its dismissal.
LEMMA TypingAnnounced ==
  ASSUME NEW w \in WaIds
  PROVE  /\ <<TypingFrame(w, TRUE)>> \in Seq(Frames')
         /\ Dismissed(w) \in Seq(Frames')
<1>1. \A up \in BOOLEAN : TypingFrame(w, up) \in Frames'
  BY DEF TypingFrame, Frame, Frames
<1>2. PICK raised \in Frames' : raised = TypingFrame(w, TRUE)
  BY <1>1
<1>3. PICK quiet \in Frames' : quiet = TypingFrame(w, FALSE)
  BY <1>1
<1>4. <<raised>> \in Seq(Frames') /\ <<quiet>> \in Seq(Frames') /\ <<>> \in Seq(Frames')
  OBVIOUS
<1>5. Dismissed(w) = <<>> \/ Dismissed(w) = <<quiet>>
  BY <1>3, Zenon DEF Dismissed
<1>6. <<TypingFrame(w, TRUE)>> = <<raised>>
  BY <1>2, Zenon
<1>7. QED
  BY <1>4, <1>5, <1>6, Zenon

\* Taking an indicator down takes its timer, and no other.
LEMMA DropFacts ==
  ASSUME ServerTypes, OneTimerPerIndicator, NEW w \in WaIds, Drop(w)
  PROVE  /\ typing' \in [WaIds -> Raises] /\ timers' \subseteq Dismissals
         /\ OneTimerPerIndicator'
<1>1. /\ typing \in [WaIds -> Raises] /\ typing' = [typing EXCEPT ![w] = 0]
      /\ timers \subseteq Dismissals /\ timers' = timers \ {<<w, typing[w]>>}
  BY DEF ServerTypes, Drop
<1>2. Up' = Up \ {w} /\ Up \subseteq WaIds
  BY <1>1 DEF Up
<1>3. timers' = {<<v, typing[v]>> : v \in Up \ {w}}
  BY <1>1, <1>2 DEF OneTimerPerIndicator
<1>4. \A v \in Up \ {w} : typing'[v] = typing[v]
  BY <1>1, <1>2
<1>5. timers' = {<<v, typing'[v]>> : v \in Up'}
  BY <1>2, <1>3, <1>4
<1>6. QED
  BY <1>1, <1>5, Constants DEF OneTimerPerIndicator

LEMMA SendStep ==
  ASSUME IInv, NEW w \in WaIds, Send(w)
  PROVE  IInv'
<1> USE DEF Send
<1> DEFINE more == <<Inserted>> \o Dismissed(w)
<1>1. ServerTypes /\ Ensure(w) /\ Insert(w, TRUE) /\ Drop(w) /\ Publish(more)
  BY DEF IInv, TypeOK
<1>2. history' \in Seq(Rows) /\ Indices \subseteq Indices' /\ Inserted \in Frames'
  BY <1>1, Recorded
<1>3. /\ typing' \in [WaIds -> Raises] /\ timers' \subseteq Dismissals
      /\ OneTimerPerIndicator'
  BY <1>1, DropFacts DEF IInv
<1>4. ServerTypes'
  BY <1>1, <1>2, <1>3, EnsureFacts DEF ServerTypes
<1>5. Dismissed(w) \in Seq(Frames')
  BY TypingAnnounced
<1>6. more \in Seq(Frames')
  BY <1>2, <1>5
<1>7. UNCHANGED <<storeVars, viewVars, echoes, astray>>
  OBVIOUS
<1>8. TypeOK'
  <2> HIDE DEF more, Send
  <2>1. QED
    BY <1>1, <1>2, <1>4, <1>6, <1>7, HandlerTypes DEF IInv
<1>9. HistoryStaysWithThePerson'
  BY <1>1, HistoryGrows DEF IInv
<1>10. QED
  BY <1>3, <1>8, <1>9 DEF IInv

LEMMA StartTypingStep ==
  ASSUME IInv, NEW m \in Indices, StartTyping(m)
  PROVE  IInv'
<1> DEFINE w == history[m].contact
<1>1. w \in WaIds
  <2>1. history[m] \in Rows
    BY DEF IInv, TypeOK, ServerTypes, Indices
  <2>2. QED
    BY <2>1 DEF Rows
<1>2. /\ raises < MaxRaises /\ raises' = raises + 1
      /\ typing' = [typing EXCEPT ![w] = raises']
      /\ timers' = (timers \ {<<w, typing[w]>>}) \cup {<<w, raises'>>}
      /\ Publish(<<TypingFrame(w, TRUE)>>)
      /\ UNCHANGED <<contacts, people, holder, owner, history, moves>>
      /\ UNCHANGED <<storeVars, viewVars, echoes, astray>>
  BY DEF StartTyping
<1> HIDE DEF w
<1>3. ServerTypes
  BY DEF IInv, TypeOK
<1>4. raises' \in Raises \ {0}
  BY <1>2, <1>3, Constants DEF ServerTypes
<1>5. ServerTypes'
  BY <1>1, <1>2, <1>3, <1>4 DEF ServerTypes, Dismissals
<1>6. <<TypingFrame(w, TRUE)>> \in Seq(Frames')
  BY <1>1, TypingAnnounced
<1>7. TypeOK'
  BY <1>2, <1>5, <1>6, SameMessages, HandlerTypes DEF IInv
<1>8. HistoryStaysWithThePerson'
  BY <1>2, SameMessages DEF IInv, HistoryStaysWithThePerson
<1>9. OneTimerPerIndicator'
  <2>1. typing \in [WaIds -> Raises]
    BY <1>3 DEF ServerTypes
  <2>2. Up' = Up \cup {w} /\ Up \subseteq WaIds
    BY <1>1, <1>2, <1>4, <2>1 DEF Up
  <2>3. \A v \in Up \ {w} : typing'[v] = typing[v]
    BY <1>2, <2>1, <2>2
  <2>4. typing'[w] = raises'
    BY <1>1, <1>2, <2>1
  <2>5. timers \ {<<w, typing[w]>>} = {<<v, typing[v]>> : v \in Up \ {w}}
    BY <1>3 DEF IInv, OneTimerPerIndicator
  <2>6. timers' = {<<v, typing'[v]>> : v \in Up'}
    BY <1>2, <2>2, <2>3, <2>4, <2>5
  <2>7. QED
    BY <2>6 DEF OneTimerPerIndicator
<1>10. QED
  BY <1>7, <1>8, <1>9 DEF IInv

LEMMA ExpireStep ==
  ASSUME IInv, NEW t \in Dismissals, Expire(t)
  PROVE  IInv'
<1> DEFINE w == t[1]
<1>1. w \in WaIds /\ t = <<w, t[2]>>
  BY DEF Dismissals
<1>2. /\ t \in timers
      /\ typing' = [typing EXCEPT ![w] = 0]
      /\ timers' = timers \ {t, <<w, typing[w]>>}
      /\ Publish(Dismissed(w))
      /\ UNCHANGED <<contacts, people, holder, owner, history, moves, raises>>
      /\ UNCHANGED <<storeVars, viewVars, echoes, astray>>
  BY DEF Expire
<1> HIDE DEF w
<1>3. ServerTypes /\ OneTimerPerIndicator
  BY DEF IInv, TypeOK
\* The timer that fires is the one of the indicator that is up.
<1>4. t = <<w, typing[w]>>
  BY <1>1, <1>2, <1>3 DEF OneTimerPerIndicator
<1>5. Drop(w)
  BY <1>2, <1>4 DEF Drop
<1>6. /\ typing' \in [WaIds -> Raises] /\ timers' \subseteq Dismissals
      /\ OneTimerPerIndicator'
  BY <1>1, <1>3, <1>5, DropFacts
<1>7. ServerTypes'
  BY <1>2, <1>3, <1>6 DEF ServerTypes
<1>8. Dismissed(w) \in Seq(Frames')
  BY <1>1, TypingAnnounced
<1>9. TypeOK'
  BY <1>2, <1>7, <1>8, SameMessages, HandlerTypes DEF IInv
<1>10. HistoryStaysWithThePerson'
  BY <1>2, SameMessages DEF IInv, HistoryStaysWithThePerson
<1>11. QED
  BY <1>6, <1>9, <1>10 DEF IInv

LEMMA CreateContactStep ==
  ASSUME IInv, NEW w \in WaIds, NEW withUserId \in BOOLEAN, CreateContact(w, withUserId)
  PROVE  IInv'
<1>1. /\ contacts[w] = Nobody /\ Ensure(w) /\ Publish(FirstSeen(w))
      /\ \/ withUserId /\ holder = None /\ holder' = w /\ owner' = contacts'[w]
         \/ UNCHANGED <<holder, owner>>
      /\ UNCHANGED <<history, moves, typing, timers, raises>>
      /\ UNCHANGED <<storeVars, viewVars, echoes, astray>>
  BY DEF CreateContact
<1>2. ServerTypes
  BY DEF IInv, TypeOK
<1>3. contacts'[w] \in People \ {Nobody} /\ contacts' \in [WaIds -> People] /\ people' \in People
  BY <1>1, <1>2, EnsureFacts
<1>4. ServerTypes'
  BY <1>1, <1>2, <1>3 DEF ServerTypes
<1>5. FirstSeen(w) \in Seq(Frames')
  BY <1>1, <1>2, Announced
<1>6. TypeOK'
  BY <1>1, <1>4, <1>5, SameMessages, HandlerTypes DEF IInv
<1>7. HistoryStaysWithThePerson'
  <2>1. CASE UNCHANGED <<holder, owner>>
    BY <1>1, <1>2, <2>1, HistoryKept DEF IInv
  <2>2. CASE holder' = w /\ owner' = contacts'[w]
    <3>1. \A m \in Indices : history[m] \in Rows
      BY <1>2 DEF ServerTypes, Indices
    <3>2. \A m \in Indices : contacts'[history[m].contact] = history[m].person
      BY <1>1, <1>2, <3>1, EnsureFacts DEF IInv, HistoryStaysWithThePerson, Rows
    <3>3. w # None
      BY Constants
    <3>4. QED
      BY <1>1, <1>3, <2>2, <3>2, <3>3, SameMessages DEF HistoryStaysWithThePerson
  <2>3. QED
    BY <1>1, <2>1, <2>2
<1>8. OneTimerPerIndicator'
  BY <1>1 DEF IInv, OneTimerPerIndicator, Up
<1>9. QED
  BY <1>6, <1>7, <1>8 DEF IInv

LEMMA UpdateContactStep ==
  ASSUME IInv, NEW w \in WaIds, UpdateContact(w)
  PROVE  IInv'
<1>1. /\ contacts[w] # Nobody
      /\ \/ holder' = w /\ owner' = contacts[w]
         \/ holder' = None /\ owner' = Nobody
      /\ Publish(<<ContactFrame(w, contacts[w])>>)
      /\ UNCHANGED <<contacts, people, history, moves, typing, timers, raises>>
      /\ UNCHANGED <<storeVars, viewVars, echoes, astray>>
  BY DEF UpdateContact
<1>2. ServerTypes /\ contacts[w] \in People
  BY DEF IInv, TypeOK, ServerTypes
<1>3. ServerTypes'
  BY <1>1, <1>2, Constants DEF ServerTypes
<1>4. <<ContactFrame(w, contacts[w])>> \in Seq(Frames')
  <2>1. ContactFrame(w, contacts[w]) \in Frames'
    BY <1>2 DEF ContactFrame, Frame, Frames
  <2>2. QED
    BY <2>1
<1>5. TypeOK'
  BY <1>1, <1>3, <1>4, SameMessages, HandlerTypes DEF IInv
<1>6. HistoryStaysWithThePerson'
  BY <1>1, Constants, SameMessages DEF IInv, HistoryStaysWithThePerson
<1>7. OneTimerPerIndicator'
  BY <1>1 DEF IInv, OneTimerPerIndicator, Up
<1>8. QED
  BY <1>5, <1>6, <1>7 DEF IInv

LEMMA ChangeNumberStep ==
  ASSUME IInv, NEW w \in WaIds, NEW v \in WaIds, NEW mine \in BOOLEAN, ChangeNumber(w, v, mine)
  PROVE  IInv'
<1>1. /\ contacts[w] # Nobody /\ contacts[v] = Nobody
      /\ moves < MaxMoves /\ moves' = moves + 1
      /\ MoveRows(w, v)
      /\ Publish(<<MovedFrame(v, contacts[w], w)>>)
      /\ echoes' = echoes \cup {MovedFrame(v, contacts[w], w)} \/ echoes' = echoes
      /\ UNCHANGED <<people, owner, typing, timers, raises>>
      /\ UNCHANGED <<storeVars, viewVars, astray>>
  BY DEF ChangeNumber
<1>2. TypeOK /\ ServerTypes
  BY DEF IInv, TypeOK
<1>3. \A m \in Indices : history[m] \in Rows
  BY <1>2 DEF ServerTypes, Indices
<1>4. /\ contacts \in [WaIds -> People] /\ holder \in WaIds \cup {None}
      /\ contacts' = [contacts EXCEPT ![v] = contacts[w], ![w] = Nobody]
      /\ holder' = IF holder = w THEN v ELSE holder
      /\ history' = [m \in Indices |->
           IF history[m].contact = w THEN [history[m] EXCEPT !.contact = v] ELSE history[m]]
  BY <1>1, <1>2 DEF MoveRows, ServerTypes
<1>5. \A m \in Indices :
        /\ history'[m] \in Rows
        /\ history'[m].person = history[m].person
        /\ history'[m].contact = IF history[m].contact = w THEN v ELSE history[m].contact
  BY <1>3, <1>4 DEF Rows
<1>6. history' \in Seq(Rows) /\ Indices' = Indices
  <2>1. Indices = 1 .. Len(history) /\ Len(history) \in Nat
    BY <1>2 DEF Indices, ServerTypes
  <2>2. history' \in [1 .. Len(history) -> Rows]
    BY <1>4, <1>5, <2>1
  <2>3. history' \in Seq(Rows)
    BY <2>1, <2>2
  <2>4. QED
    BY <1>4, <2>3 DEF Indices
<1>7. moves' \in 0 .. MaxMoves
  BY <1>1, <1>2, ConversationsAssumption DEF ServerTypes
<1>8. ServerTypes'
  <2>1. contacts' \in [WaIds -> People]
    BY <1>4, Constants
  <2>2. QED
    BY <1>1, <1>2, <1>4, <1>6, <1>7, <2>1 DEF ServerTypes
<1>9. Frames' = Frames /\ MovedFrame(v, contacts[w], w) \in Moves
  BY <1>4, <1>6 DEF Frames, MovedFrame, Frame, Moves
<1>10. WireTypes'
  <2>1. <<MovedFrame(v, contacts[w], w)>> \in Seq(Frames')
    <3>1. MovedFrame(v, contacts[w], w) \in Frames'
      BY <1>9 DEF Frames
    <3>2. QED
      BY <3>1
  <2>2. frames' \in Seq(Frames')
    BY <1>1, <1>2, <1>6, <2>1, PublishFacts DEF TypeOK
  <2>3. echoes' \subseteq Moves
    BY <1>1, <1>2, <1>9 DEF TypeOK, WireTypes
  <2>4. QED
    BY <2>2, <2>3 DEF WireTypes, Moves
<1>11. StoreTypes' /\ ViewTypes'
  BY <1>1, <1>2, <1>6, ClientGrows DEF TypeOK
<1>12. HistoryStaysWithThePerson'
  <2>1. w # v
    BY <1>1
  <2>2. ASSUME NEW m \in Indices PROVE contacts'[history'[m].contact] = history'[m].person
    <3>1. history[m] \in Rows /\ contacts[history[m].contact] = history[m].person
      BY <1>3 DEF IInv, HistoryStaysWithThePerson
    <3>2. history[m].contact \in WaIds /\ history[m].contact # v
      BY <1>1, <3>1 DEF Rows
    <3>3. QED
      BY <1>4, <1>5, <2>1, <3>1, <3>2
  <2>3. /\ holder = None <=> owner = Nobody
        /\ holder # None => contacts[holder] = owner
    BY DEF IInv, HistoryStaysWithThePerson
  <2>4. holder # v
    BY <1>1, <2>3, Constants
  <2>5. /\ holder' = None <=> owner' = Nobody
        /\ holder' # None => contacts'[holder'] = owner'
    BY <1>1, <1>4, <2>1, <2>3, <2>4, Constants
  <2>6. QED
    BY <1>6, <2>2, <2>5 DEF HistoryStaysWithThePerson
<1>13. OneTimerPerIndicator'
  BY <1>1 DEF IInv, OneTimerPerIndicator, Up
<1>14. QED
  BY <1>8, <1>10, <1>11, <1>12, <1>13 DEF IInv, TypeOK

-----------------------------------------------------------------------------
(* The client *)

\* A step of the client leaves the server's part alone.
LEMMA ClientStep ==
  ASSUME IInv, UNCHANGED serverVars, WireTypes', StoreTypes', ViewTypes'
  PROVE  IInv'
<1> USE DEF serverVars
<1>1. ServerTypes'
  BY DEF IInv, TypeOK, ServerTypes
<1>2. HistoryStaysWithThePerson'
  BY SameMessages DEF IInv, HistoryStaysWithThePerson
<1>3. OneTimerPerIndicator'
  BY DEF IInv, OneTimerPerIndicator, Up
<1>4. QED
  BY <1>1, <1>2, <1>3 DEF IInv, TypeOK

LEMMA ApplyMoveTypes ==
  ASSUME StoreTypes, NEW f \in Moves, ApplyMove(f), UNCHANGED history
  PROVE  StoreTypes'
<1> DEFINE H == [loaded : BOOLEAN, messages : SUBSET Indices]
<1>1. f.at \in WaIds /\ f.from \in WaIds /\ f.about \in People
  BY DEF Moves
<1>2. known' \in [WaIds -> People]
  BY <1>1, Constants DEF ApplyMove, MoveKnown, StoreTypes
<1>3. held \in [WaIds -> H] /\ NotLoaded \in H
  BY DEF StoreTypes, NotLoaded
<1>4. \A winner : ReKeyed(f, winner) \in [WaIds -> H]
  BY <1>1, <1>3 DEF ReKeyed
<1>5. held' \in [WaIds -> H]
  BY <1>4 DEF ApplyMove, ReKeyMessages
<1>6. shown' \subseteq WaIds
  BY <1>1 DEF ApplyMove, StoreTypes
<1>7. active' \in WaIds \cup {None} /\ moved' \in [from : WaIds, to : WaIds] \cup {NotMoved}
  BY <1>1 DEF ApplyMove, MoveActive, StoreTypes
<1>8. QED
  BY <1>2, <1>5, <1>6, <1>7, SameMessages DEF StoreTypes

LEMMA ReceiveStep ==
  ASSUME IInv, Receive
  PROVE  IInv'
<1> DEFINE f == Head(frames)
<1>1. /\ frames # <<>> /\ frames' = Tail(frames)
      /\ ReceiveMessage(f) \/ ReceiveTyping(f) \/ ReceiveContact(f) \/ ReceiveMove(f)
      /\ UNCHANGED serverVars /\ UNCHANGED <<viewVars, echoes>>
  BY DEF Receive
<1>2. frames \in Seq(Frames) /\ echoes \subseteq Moves /\ StoreTypes /\ ViewTypes
  BY DEF IInv, TypeOK, WireTypes
<1>3. f \in Frames /\ Tail(frames) \in Seq(Frames)
  BY <1>1, <1>2
<1> HIDE DEF f
<1>4. Indices' = Indices /\ Frames' = Frames /\ UNCHANGED history
  BY <1>1, SameMessages DEF serverVars
<1>5. WireTypes'
  BY <1>1, <1>2, <1>3, <1>4 DEF WireTypes, Moves
<1>6. StoreTypes' /\ astray' \in [Parts -> BOOLEAN]
  <2>1. CASE ReceiveMessage(f)
    <3>1. f.at \in WaIds /\ f.about \in Indices
      BY <1>3, <2>1 DEF Frames, Moves, ReceiveMessage
    <3>2. held' \in [WaIds -> [loaded : BOOLEAN, messages : SUBSET Indices]]
      BY <1>2, <2>1, <3>1 DEF ReceiveMessage, StoreTypes
    <3>3. shown' \subseteq WaIds
      BY <1>2, <2>1 DEF ReceiveMessage, StoreTypes
    <3>4. QED
      BY <1>2, <1>4, <2>1, <3>2, <3>3 DEF ReceiveMessage, StoreTypes, ViewTypes
  <2>2. CASE ReceiveTyping(f)
    <3>1. f.at \in WaIds
      BY <1>3, <2>2 DEF Frames, Moves, ReceiveTyping
    <3>2. QED
      BY <1>2, <1>4, <2>2, <3>1 DEF ReceiveTyping, StoreTypes, ViewTypes
  <2>3. CASE ReceiveContact(f)
    <3>1. f.at \in WaIds /\ f.about \in People
      BY <1>3, <2>3 DEF Frames, Moves, ReceiveContact
    <3>2. QED
      BY <1>2, <1>4, <2>3, <3>1 DEF ReceiveContact, StoreTypes, ViewTypes
  <2>4. CASE ReceiveMove(f)
    <3>1. f \in Moves
      BY <1>3, <2>4 DEF Frames, ReceiveMove
    <3>2. ApplyMove(f)
      BY <2>4 DEF ReceiveMove
    <3>3. astray' \in [Parts -> BOOLEAN]
      BY <1>2, <2>4 DEF ReceiveMove, ViewTypes
    <3>4. QED
      BY <1>2, <1>4, <3>1, <3>2, <3>3, ApplyMoveTypes
  <2>5. QED
    BY <1>1, <2>1, <2>2, <2>3, <2>4
<1>7. ViewTypes'
  BY <1>1, <1>2, <1>4, <1>6 DEF ViewTypes, viewVars, Fetches
<1>8. QED
  BY <1>1, <1>5, <1>6, <1>7, ClientStep

LEMMA EchoStep ==
  ASSUME IInv, NEW f \in echoes, Echo(f)
  PROVE  IInv'
<1>1. /\ echoes' = echoes \ {f} /\ ApplyMove(f)
      /\ UNCHANGED serverVars /\ UNCHANGED <<frames, viewVars>>
  BY DEF Echo
<1>2. frames \in Seq(Frames) /\ echoes \subseteq Moves /\ StoreTypes /\ ViewTypes
  BY DEF IInv, TypeOK, WireTypes
<1>3. Indices' = Indices /\ Frames' = Frames /\ UNCHANGED history
  BY <1>1, SameMessages DEF serverVars
<1>4. WireTypes'
  BY <1>1, <1>2, <1>3 DEF WireTypes, Moves
<1>5. StoreTypes'
  BY <1>1, <1>2, <1>3, ApplyMoveTypes
<1>6. astray' \in [Parts -> BOOLEAN]
  BY <1>2 DEF Echo, ViewTypes
<1>7. ViewTypes'
  BY <1>1, <1>2, <1>3, <1>6 DEF ViewTypes, viewVars, Fetches
<1>8. QED
  BY <1>1, <1>4, <1>5, <1>7, ClientStep

\* A step that leaves the wire and the messages alone.
LEMMA ViewStep ==
  ASSUME IInv, UNCHANGED <<serverVars, frames, echoes>>,
         Indices' = Indices => StoreTypes' /\ ViewTypes'
  PROVE  IInv'
<1>1. Indices' = Indices /\ Frames' = Frames
  BY SameMessages DEF serverVars
<1>2. WireTypes'
  BY <1>1 DEF IInv, TypeOK, WireTypes, Moves
<1>3. QED
  BY <1>1, <1>2, ClientStep

LEMMA NavigateStep ==
  ASSUME IInv, NEW w \in WaIds \cup {None}, Navigate(w)
  PROVE  IInv'
<1> DEFINE to == IF w = None THEN None ELSE Land(w)
<1>1. /\ visits < MaxVisits /\ visits' = visits + 1
      /\ Show(to)
      /\ picked' = IF w = None THEN Nobody ELSE known[w]
      /\ indicators' = IF route = Away THEN Sent ELSE indicators
      /\ UNCHANGED <<serverVars, frames, known, held, shown, echoes>>
  BY DEF Navigate
<1>2. StoreTypes /\ ViewTypes
  BY DEF IInv, TypeOK
<1>3. to \in WaIds \cup {None}
  BY <1>2, Constants DEF Land, StoreTypes, NotMoved
<1> HIDE DEF to
<1>4. SUFFICES ASSUME Indices' = Indices PROVE StoreTypes' /\ ViewTypes'
  BY <1>1, ViewStep
<1>5. StoreTypes'
  BY <1>1, <1>2, <1>3, <1>4 DEF Show, Opened, StoreTypes
<1>6. page' \in Fetches(Indices') /\ indicators' \in Fetches(WaIds)
  BY <1>1, <1>2 DEF Show, ViewTypes, Fetches, Idle, Sent
<1>7. visits' \in 0 .. MaxVisits
  BY <1>1, <1>2, ConversationsAssumption DEF ViewTypes
<1>8. picked' \in People
  BY <1>1, <1>2, Constants DEF StoreTypes
<1>9. astray' \in [Parts -> BOOLEAN]
  <2>1. \E b : astray' = [astray EXCEPT !["view"] = b] /\ b \in BOOLEAN
    <3>1. astray["contacts"] \in BOOLEAN
      BY <1>2 DEF ViewTypes, Parts
    <3>2. QED
      BY <3>1, Zenon DEF Navigate
  <2>2. QED
    BY <1>2, <2>1 DEF ViewTypes
<1>10. QED
  BY <1>1, <1>2, <1>3, <1>5, <1>6, <1>7, <1>8, <1>9 DEF Show, ViewTypes

LEMMA LeaveStep ==
  ASSUME IInv, Leave
  PROVE  IInv'
<1>1. /\ visits < MaxVisits /\ visits' = visits + 1
      /\ route' = Away /\ page' = Idle /\ indicators' = Idle /\ picked' = Nobody
      /\ UNCHANGED <<serverVars, frames, storeVars, echoes, astray>>
  BY DEF Leave
<1>2. StoreTypes /\ ViewTypes
  BY DEF IInv, TypeOK
<1>3. SUFFICES ASSUME Indices' = Indices PROVE StoreTypes' /\ ViewTypes'
  BY <1>1, ViewStep
<1>4. StoreTypes'
  BY <1>1, <1>2, <1>3 DEF StoreTypes, storeVars
<1>5. visits' \in 0 .. MaxVisits
  BY <1>1, <1>2, ConversationsAssumption DEF ViewTypes
<1>6. QED
  BY <1>1, <1>2, <1>4, <1>5, Constants DEF ViewTypes, Fetches, Idle

LEMMA FollowStep ==
  ASSUME IInv, Follow
  PROVE  IInv'
<1>1. /\ moved # NotMoved /\ Show(moved.to)
      /\ UNCHANGED <<serverVars, frames, known, held, shown, visits, indicators, echoes, picked, astray>>
  BY DEF Follow
<1>2. StoreTypes /\ ViewTypes /\ moved.to \in WaIds
  BY <1>1 DEF IInv, TypeOK, StoreTypes
<1>3. SUFFICES ASSUME Indices' = Indices PROVE StoreTypes' /\ ViewTypes'
  BY <1>1, ViewStep
<1>4. StoreTypes'
  BY <1>1, <1>2, <1>3 DEF Show, Opened, StoreTypes
<1>5. ViewTypes'
  BY <1>1, <1>2, <1>3 DEF Show, ViewTypes, Fetches, Idle, Sent
<1>6. QED
  BY <1>4, <1>5

LEMMA AnswerPageStep ==
  ASSUME IInv, AnswerPage
  PROVE  IInv'
<1>1. /\ page' = Answered(MessagesOf(route))
      /\ UNCHANGED <<serverVars, frames, storeVars, route, visits, indicators, picked, echoes, astray>>
  BY DEF AnswerPage
<1>2. SUFFICES ASSUME Indices' = Indices PROVE StoreTypes' /\ ViewTypes'
  BY <1>1, ViewStep
<1>3. QED
  BY <1>1, <1>2 DEF IInv, TypeOK, StoreTypes, storeVars, ViewTypes, Fetches, Answered, MessagesOf

LEMMA AnswerIndicatorsStep ==
  ASSUME IInv, AnswerIndicators
  PROVE  IInv'
<1>1. /\ indicators' = Answered(Up)
      /\ UNCHANGED <<serverVars, frames, storeVars, route, visits, page, picked, echoes, astray>>
  BY DEF AnswerIndicators
<1>2. SUFFICES ASSUME Indices' = Indices PROVE StoreTypes' /\ ViewTypes'
  BY <1>1, ViewStep
<1>3. QED
  BY <1>1, <1>2 DEF IInv, TypeOK, StoreTypes, storeVars, ViewTypes, Fetches, Answered, Up

\* What has gone astray is noted, or not.
LEMMA AstrayTypes ==
  ASSUME ViewTypes, NEW part \in Parts
  PROVE  Led(part) \in [Parts -> BOOLEAN] /\ [astray EXCEPT ![part] = FALSE] \in [Parts -> BOOLEAN]
BY DEF Led, ViewTypes

LEMMA PageLoadedStep ==
  ASSUME IInv, PageLoaded
  PROVE  IInv'
<1>1. /\ page.stage = "answered"
      /\ held' = [held EXCEPT ![route] = [loaded |-> TRUE, messages |-> @.messages \cup page.answer]]
      /\ page' = Idle
      /\ astray' = astray \/ astray' = Led("messages")
      /\ UNCHANGED <<serverVars, frames, known, shown, active, moved, route, visits, indicators, picked, echoes>>
  BY Zenon DEF PageLoaded
<1>2. StoreTypes /\ ViewTypes /\ page.answer \subseteq Indices
  BY DEF IInv, TypeOK, ViewTypes, Fetches
<1>3. SUFFICES ASSUME Indices' = Indices PROVE StoreTypes' /\ ViewTypes'
  BY <1>1, ViewStep
<1>4. StoreTypes'
  <2>1. held' \in [WaIds -> [loaded : BOOLEAN, messages : SUBSET Indices]]
    BY <1>1, <1>2 DEF StoreTypes
  <2>2. QED
    BY <1>1, <1>2, <1>3, <2>1 DEF StoreTypes
<1>5. astray' \in [Parts -> BOOLEAN]
  BY <1>1, <1>2, AstrayTypes DEF ViewTypes, Parts
<1>6. page' \in Fetches(Indices') /\ indicators' \in Fetches(WaIds)
  BY <1>1, <1>2, <1>3 DEF ViewTypes, Fetches, Idle
<1>7. ViewTypes'
  BY <1>1, <1>2, <1>3, <1>5, <1>6 DEF ViewTypes
<1>8. QED
  BY <1>4, <1>7

LEMMA IndicatorsLoadedStep ==
  ASSUME IInv, IndicatorsLoaded
  PROVE  IInv'
<1>1. /\ shown' = indicators.answer
      /\ indicators' = Idle
      /\ astray' = [astray EXCEPT !["typing"] = FALSE] \/ astray' = Led("typing")
      /\ UNCHANGED <<serverVars, frames, known, held, active, moved, route, visits, page, picked, echoes>>
  BY Zenon DEF IndicatorsLoaded
<1>2. StoreTypes /\ ViewTypes /\ indicators.answer \subseteq WaIds
  BY DEF IInv, TypeOK, ViewTypes, Fetches
<1>3. SUFFICES ASSUME Indices' = Indices PROVE StoreTypes' /\ ViewTypes'
  BY <1>1, ViewStep
<1>4. StoreTypes'
  BY <1>1, <1>2, <1>3 DEF StoreTypes
<1>5. astray' \in [Parts -> BOOLEAN]
  BY <1>1, <1>2, AstrayTypes DEF ViewTypes, Parts
<1>6. page' \in Fetches(Indices') /\ indicators' \in Fetches(WaIds)
  BY <1>1, <1>2, <1>3 DEF ViewTypes, Fetches, Idle
<1>7. ViewTypes'
  BY <1>1, <1>2, <1>3, <1>5, <1>6 DEF ViewTypes
<1>8. QED
  BY <1>4, <1>7

-----------------------------------------------------------------------------
(* The invariant *)

LEMMA InitInv == Init => IInv
<1> SUFFICES ASSUME Init PROVE IInv
  OBVIOUS
<1> USE DEF Init
<1>1. history = <<>> /\ Indices = {}
  BY DEF Indices
<1>2. ServerTypes
  BY <1>1, Constants, ConversationsAssumption DEF ServerTypes
<1>3. WireTypes
  BY DEF WireTypes
<1>4. StoreTypes
  BY Constants DEF StoreTypes, NotLoaded
<1>5. ViewTypes
  BY Constants, ConversationsAssumption DEF ViewTypes, Fetches, Idle, Sent
<1>6. HistoryStaysWithThePerson
  BY <1>1 DEF HistoryStaysWithThePerson
<1>7. OneTimerPerIndicator
  BY DEF OneTimerPerIndicator, Up
<1>8. QED
  BY <1>2, <1>3, <1>4, <1>5, <1>6, <1>7 DEF IInv, TypeOK

LEMMA StepInv == IInv /\ [Next]_vars => IInv'
<1> SUFFICES ASSUME IInv, [Next]_vars PROVE IInv'
  OBVIOUS
<1>1. ASSUME NEW w \in WaIds, Inbound(w) PROVE IInv'
  BY <1>1, InboundStep
<1>2. ASSUME NEW w \in WaIds, InboundRefused(w) PROVE IInv'
  BY <1>2, InboundRefusedStep
<1>3. ASSUME NEW w \in WaIds, Send(w) PROVE IInv'
  BY <1>3, SendStep
<1>4. ASSUME NEW w \in WaIds, UpdateContact(w) PROVE IInv'
  BY <1>4, UpdateContactStep
<1>5. CASE SendToUser
  <2>1. holder \in WaIds /\ Send(holder)
    BY <1>5 DEF SendToUser, IInv, TypeOK, ServerTypes
  <2>2. QED
    BY <2>1, <1>3
<1>6. ASSUME NEW w \in WaIds, NEW withUserId \in BOOLEAN, CreateContact(w, withUserId) PROVE IInv'
  BY <1>6, CreateContactStep
<1>7. ASSUME NEW w \in WaIds, NEW v \in WaIds, NEW mine \in BOOLEAN, ChangeNumber(w, v, mine)
      PROVE  IInv'
  BY <1>7, ChangeNumberStep
<1>8. ASSUME NEW m \in Indices, StartTyping(m) PROVE IInv'
  BY <1>8, StartTypingStep
<1>9. ASSUME NEW t \in Dismissals, Expire(t) PROVE IInv'
  BY <1>9, ExpireStep
<1>10. CASE Receive
  BY <1>10, ReceiveStep
<1>11. ASSUME NEW f \in echoes, Echo(f) PROVE IInv'
  BY <1>11, EchoStep
<1>12. ASSUME NEW w \in WaIds \cup {None}, Navigate(w) PROVE IInv'
  BY <1>12, NavigateStep
<1>13. CASE Leave
  BY <1>13, LeaveStep
<1>14. CASE Follow
  BY <1>14, FollowStep
<1>15. CASE AnswerPage
  BY <1>15, AnswerPageStep
<1>16. CASE AnswerIndicators
  BY <1>16, AnswerIndicatorsStep
<1>17. CASE PageLoaded
  BY <1>17, PageLoadedStep
<1>18. CASE IndicatorsLoaded
  BY <1>18, IndicatorsLoadedStep
<1>19. CASE UNCHANGED vars
  <2>1. UNCHANGED <<serverVars, frames, storeVars, viewVars, echoes, astray>>
    BY <1>19 DEF vars
  <2>2. SUFFICES ASSUME Indices' = Indices PROVE StoreTypes' /\ ViewTypes'
    BY <2>1, ViewStep
  <2>3. QED
    BY <2>1, <2>2, ClientGrows DEF IInv, TypeOK
<1>20. QED
  BY <1>1, <1>2, <1>3, <1>4, <1>5, <1>6, <1>7, <1>8, <1>9, <1>10, <1>11, <1>12, <1>13, <1>14,
     <1>15, <1>16, <1>17, <1>18, <1>19 DEF Next

LEMMA Invariance == Spec => []IInv
BY InitInv, StepInv, PTL DEF Spec

\* Everything is of its type in every reachable state: whatever moves meanwhile, frames and
\* pages that are on their way speak of messages that exist and of wa_ids that can be named.
THEOREM TypeCorrect == Spec => []TypeOK
<1>1. IInv => TypeOK
  BY DEF IInv
<1>2. QED
  BY <1>1, Invariance, PTL

\* changeWaId() moves the row, the user id and the messages together, and only to a number
\* that is free: a message stays with the person it was exchanged with, whoever takes over
\* the number, and so does the business-scoped user id.
THEOREM HistoryStays == Spec => []HistoryStaysWithThePerson
<1>1. IInv => HistoryStaysWithThePerson
  BY DEF IInv
<1>2. QED
  BY <1>1, Invariance, PTL

\* However often an indicator is raised again, dismissed by a message or left to time out,
\* it has exactly one timer, and there is no timer without one.
THEOREM OneTimer == Spec => []OneTimerPerIndicator
<1>1. IInv => OneTimerPerIndicator
  BY DEF IInv
<1>2. QED
  BY <1>1, Invariance, PTL

-----------------------------------------------------------------------------
(* The chat view: where the moves on their way lead *)

\* Where there is no move, the path ends where it begins.
LEMMA LeadsNowhere ==
  ASSUME NEW S, NEW fr \in Seq(S), NEW w, NEW v
  PROVE  Leads(fr, Len(fr), w, v) => w = v
BY DEF Leads

\* Frames that move nothing lead nowhere else.
LEMMA LeadsQuiet ==
  ASSUME NEW S, NEW fr \in Seq(S), NEW n \in 0 .. Len(fr), NEW w \in WaIds,
         \A i \in n + 1 .. Len(fr) : fr[i].type # "moved"
  PROVE  Leads(fr, n, w, w)
<1> DEFINE path == [i \in n .. Len(fr) |-> w]
<1>1. path \in [n .. Len(fr) -> WaIds] /\ path[n] = w /\ path[Len(fr)] = w
  OBVIOUS
<1>2. \A i \in n + 1 .. Len(fr) : path[i] = w /\ path[i - 1] = w
  OBVIOUS
<1> HIDE DEF path
<1>3. \A i \in n + 1 .. Len(fr) :
        path[i] = IF fr[i].type = "moved" /\ fr[i].from = path[i - 1] THEN fr[i].at ELSE path[i - 1]
  BY <1>2
<1> QED BY <1>1, <1>3 DEF Leads

\* A move that is published leads from the number that was left to the new one.
LEMMA LeadsMove ==
  ASSUME NEW S, NEW fr \in Seq(S), NEW mv \in S, mv.type = "moved", mv.at \in WaIds, NEW w \in WaIds
  PROVE  Leads(fr \o <<mv>>, Len(fr), w, IF w = mv.from THEN mv.at ELSE w)
<1> DEFINE n == Len(fr)
           more == fr \o <<mv>>
           v == IF w = mv.from THEN mv.at ELSE w
           path == [i \in n .. n + 1 |-> IF i = n THEN w ELSE v]
<1>1. n \in Nat /\ Len(more) = n + 1 /\ more[n + 1] = mv
  OBVIOUS
<1>2. path \in [n .. n + 1 -> WaIds] /\ path[n] = w /\ path[n + 1] = v
  BY <1>1
<1>3. \A i \in n + 1 .. n + 1 : i = n + 1 /\ i - 1 = n
  BY <1>1
<1> HIDE DEF path, more, n
<1>4. \A i \in n + 1 .. Len(more) :
        path[i] = IF more[i].type = "moved" /\ more[i].from = path[i - 1]
                  THEN more[i].at ELSE path[i - 1]
  BY <1>1, <1>2, <1>3
<1>5. Leads(more, n, w, v)
  BY <1>1, <1>2, <1>4 DEF Leads
<1> QED BY <1>5 DEF more, n

\* A path goes on where more frames are published.
LEMMA LeadsOn ==
  ASSUME NEW S, NEW fr \in Seq(S), NEW more \in Seq(S), NEW n \in 0 .. Len(fr),
         NEW w, NEW v, NEW x, Leads(fr, n, w, v), Leads(fr \o more, Len(fr), v, x)
  PROVE  Leads(fr \o more, n, w, x)
<1> DEFINE all == fr \o more
<1>1. /\ Len(fr) \in Nat /\ Len(all) \in Nat /\ Len(fr) <= Len(all)
      /\ \A i \in 1 .. Len(fr) : all[i] = fr[i]
  OBVIOUS
<1>2. PICK p \in [n .. Len(fr) -> WaIds] :
        /\ p[n] = w /\ p[Len(fr)] = v
        /\ \A i \in n + 1 .. Len(fr) :
             p[i] = IF fr[i].type = "moved" /\ fr[i].from = p[i - 1] THEN fr[i].at ELSE p[i - 1]
  BY DEF Leads
<1>3. PICK q \in [Len(fr) .. Len(all) -> WaIds] :
        /\ q[Len(fr)] = v /\ q[Len(all)] = x
        /\ \A i \in Len(fr) + 1 .. Len(all) :
             q[i] = IF all[i].type = "moved" /\ all[i].from = q[i - 1] THEN all[i].at ELSE q[i - 1]
  BY DEF Leads
<1> HIDE DEF all
<1> DEFINE path == [i \in n .. Len(all) |-> IF i <= Len(fr) THEN p[i] ELSE q[i]]
<1>4. path \in [n .. Len(all) -> WaIds]
  BY <1>1
<1>5. path[n] = w /\ path[Len(all)] = x
  BY <1>1, <1>2, <1>3
<1>6. ASSUME NEW i \in n + 1 .. Len(all)
      PROVE  path[i] = IF all[i].type = "moved" /\ all[i].from = path[i - 1]
                       THEN all[i].at ELSE path[i - 1]
  <2>1. CASE i <= Len(fr)
    <3>1. i \in n + 1 .. Len(fr) /\ i \in 1 .. Len(fr) /\ path[i] = p[i] /\ path[i - 1] = p[i - 1]
      BY <1>1, <2>1
    <3> HIDE DEF path
    <3> QED BY <1>1, <1>2, <3>1
  <2>2. CASE i > Len(fr)
    <3>1. i \in Len(fr) + 1 .. Len(all) /\ path[i] = q[i] /\ path[i - 1] = q[i - 1]
      BY <1>1, <1>2, <1>3, <2>2
    <3> HIDE DEF path
    <3> QED BY <1>3, <3>1
  <2> QED BY <1>1, <2>1, <2>2
<1> HIDE DEF path
<1>7. Leads(all, n, w, x)
  BY <1>4, <1>5, <1>6 DEF Leads
<1> QED BY <1>7 DEF all

\* The first frame is received.
LEMMA LeadsTail ==
  ASSUME NEW S, NEW fr \in Seq(S), fr # <<>>, NEW n \in Nat, n + 1 <= Len(fr),
         NEW w, NEW v, Leads(fr, n + 1, w, v)
  PROVE  Leads(Tail(fr), n, w, v)
<1> DEFINE rest == Tail(fr)
<1>1. /\ Len(fr) \in Nat \ {0} /\ Len(rest) = Len(fr) - 1
      /\ \A i \in 1 .. Len(rest) : rest[i] = fr[i + 1]
  OBVIOUS
<1> HIDE DEF rest
<1>2. PICK p \in [n + 1 .. Len(fr) -> WaIds] :
        /\ p[n + 1] = w /\ p[Len(fr)] = v
        /\ \A i \in n + 1 + 1 .. Len(fr) :
             p[i] = IF fr[i].type = "moved" /\ fr[i].from = p[i - 1] THEN fr[i].at ELSE p[i - 1]
  BY DEF Leads
<1> DEFINE path == [i \in n .. Len(rest) |-> p[i + 1]]
<1>3. path \in [n .. Len(rest) -> WaIds] /\ path[n] = w /\ path[Len(rest)] = v
  BY <1>1, <1>2
<1>4. ASSUME NEW i \in n + 1 .. Len(rest)
      PROVE  path[i] = IF rest[i].type = "moved" /\ rest[i].from = path[i - 1]
                       THEN rest[i].at ELSE path[i - 1]
  <2>1. /\ i + 1 \in n + 1 + 1 .. Len(fr) /\ rest[i] = fr[i + 1]
        /\ path[i] = p[i + 1] /\ path[i - 1] = p[i] /\ (i + 1) - 1 = i
    BY <1>1
  <2> HIDE DEF path
  <2>2. p[i + 1] = IF fr[i + 1].type = "moved" /\ fr[i + 1].from = p[i] THEN fr[i + 1].at ELSE p[i]
    BY <1>2, <2>1
  <2> QED BY <2>1, <2>2
<1> HIDE DEF path
<1>5. Leads(rest, n, w, v)
  BY <1>3, <1>4 DEF Leads
<1> QED BY <1>5 DEF rest

\* It may be a move, which is then applied to what the path is of.
LEMMA LeadsHead ==
  ASSUME NEW S, NEW fr \in Seq(S), fr # <<>>, NEW w, NEW v, Leads(fr, 0, w, v)
  PROVE  Leads(Tail(fr), 0, IF fr[1].type = "moved" /\ fr[1].from = w THEN fr[1].at ELSE w, v)
<1> DEFINE u == IF fr[1].type = "moved" /\ fr[1].from = w THEN fr[1].at ELSE w
<1>1. Len(fr) \in Nat \ {0}
  OBVIOUS
<1>2. PICK p \in [0 .. Len(fr) -> WaIds] :
        /\ p[0] = w /\ p[Len(fr)] = v
        /\ \A i \in 0 + 1 .. Len(fr) :
             p[i] = IF fr[i].type = "moved" /\ fr[i].from = p[i - 1] THEN fr[i].at ELSE p[i - 1]
  BY DEF Leads
<1>3. p[1] = u
  BY <1>1, <1>2
<1> HIDE DEF u
<1> DEFINE path == [i \in 1 .. Len(fr) |-> p[i]]
<1>4. path \in [1 .. Len(fr) -> WaIds] /\ path[1] = u /\ path[Len(fr)] = v
  BY <1>1, <1>2, <1>3
<1>5. ASSUME NEW i \in 1 + 1 .. Len(fr)
      PROVE  path[i] = IF fr[i].type = "moved" /\ fr[i].from = path[i - 1]
                       THEN fr[i].at ELSE path[i - 1]
  <2>1. i \in 0 + 1 .. Len(fr) /\ path[i] = p[i] /\ path[i - 1] = p[i - 1]
    BY <1>1
  <2> HIDE DEF path
  <2> QED BY <1>2, <2>1
<1> HIDE DEF path
<1>6. Leads(fr, 0 + 1, u, v)
  BY <1>4, <1>5 DEF Leads
<1>7. Leads(Tail(fr), 0, u, v)
  BY <1>1, <1>6, LeadsTail
<1> QED BY <1>7 DEF u

-----------------------------------------------------------------------------
(* The invariant of the view *)

\* Frame f says whether w has an indicator: a message that is sent takes it down.
Says(f, w) == f.type \in {"typing", "quiet", "sent"} /\ f.at = w

\* It is the last that does.
SaysLast(fr, i, w) == Says(fr[i], w) /\ \A j \in DOMAIN fr : j > i => ~ Says(fr[j], w)

\* The last frame about an indicator says whether it is up; where there is none, the bubble does.
BubblesInOrder ==
  /\ \A w \in WaIds, i \in DOMAIN frames :
       SaysLast(frames, i, w) => (frames[i].type = "typing" <=> typing[w] # 0)
  /\ ~ astray["typing"] =>
       \A w \in WaIds :
         (\A i \in DOMAIN frames : ~ Says(frames[i], w)) => (w \in shown <=> typing[w] # 0)

\* The frame of a message names a conversation that the moves behind it take to the message's.
MessageOnItsWay(fr, i, rows) ==
  fr[i].type \in {"received", "sent"} => Leads(fr, i, fr[i].at, rows[fr[i].about].contact)

\* So does the name under which a message is held; nothing is held before the page is loaded.
MessagesArrive ==
  /\ \A i \in DOMAIN frames : MessageOnItsWay(frames, i, history)
  /\ \A w \in WaIds : ~ held[w].loaded => held[w].messages = {}
  /\ ~ astray["messages"] =>
       \A w \in WaIds : \A m \in held[w].messages : Leads(frames, 0, w, history[m].contact)

\* The moves behind the n-th frame lead from w to where person p is.
Finds(fr, n, w, p, rows) == \E v \in WaIds : Leads(fr, n, w, v) /\ rows[v] = p

\* The frame of a contact, or of a move, names a number that leads to its person.
PersonOnTheWay(fr, i, rows) ==
  fr[i].type \in {"contact", "moved"} =>
    fr[i].about # Nobody /\ Finds(fr, i, fr[i].at, fr[i].about, rows)

\* So does the name under which a contact is known.
PeopleFound ==
  /\ \A i \in DOMAIN frames : PersonOnTheWay(frames, i, contacts)
  /\ ~ astray["contacts"] =>
       \A w \in WaIds : known[w] # Nobody => Finds(frames, 0, w, known[w], contacts)

\* So does the conversation on screen; the route is there too, or one move behind.
ViewInPlace ==
  ~ astray["view"] /\ picked # Nobody =>
    /\ active \in WaIds /\ Finds(frames, 0, active, picked, contacts)
    /\ moved = NotMoved => route = active
    /\ moved # NotMoved => moved.from = route /\ moved.to = active

\* The inductive invariant of the view.
ChatInv ==
  /\ IInv
  /\ BubblesInOrder
  /\ MessagesArrive
  /\ PeopleFound
  /\ ViewInPlace

-----------------------------------------------------------------------------
(* What the handlers publish *)

\* What there is to know of the wire.
LEMMA WireFacts ==
  ASSUME TypeOK
  PROVE  /\ frames \in Seq(Frames) /\ DOMAIN frames = 1 .. Len(frames) /\ Len(frames) \in Nat
         /\ \A i \in DOMAIN frames : frames[i] \in Frames /\ frames[i].at \in WaIds
         /\ \A m \in Indices : history[m] \in Rows /\ history[m].contact \in WaIds
<1>1. frames \in Seq(Frames) /\ history \in Seq(Rows)
  BY DEF TypeOK, WireTypes, ServerTypes
<1>2. DOMAIN frames = 1 .. Len(frames) /\ Len(frames) \in Nat
  BY <1>1
<1>3. \A i \in DOMAIN frames : frames[i] \in Frames
  BY <1>1
<1>4. \A f \in Frames : f.at \in WaIds
  BY DEF Frames, Moves
<1>5. \A m \in Indices : history[m] \in Rows
  BY <1>1 DEF Indices
<1> QED BY <1>1, <1>2, <1>3, <1>4, <1>5 DEF Rows

\* A handler publishes more, and what was on its way still gets there.
LEMMA StillArrives ==
  ASSUME TypeOK, TypeOK', MessagesArrive, PeopleFound, ViewInPlace,
         NEW more \in Seq(Frames'), frames' = frames \o more, Indices \subseteq Indices',
         UNCHANGED <<storeVars, viewVars, astray>>,
         \A n \in 0 .. Len(frames), w \in WaIds, m \in Indices :
           Leads(frames, n, w, history[m].contact) => Leads(frames', n, w, history'[m].contact),
         \A n \in 0 .. Len(frames), w \in WaIds, p \in People :
           p # Nobody /\ Finds(frames, n, w, p, contacts) => Finds(frames', n, w, p, contacts'),
         \A i \in DOMAIN frames' \ DOMAIN frames :
           MessageOnItsWay(frames', i, history') /\ PersonOnTheWay(frames', i, contacts')
  PROVE  MessagesArrive' /\ PeopleFound' /\ ViewInPlace'
<1>1. /\ frames \in Seq(Frames) /\ DOMAIN frames = 1 .. Len(frames) /\ Len(frames) \in Nat
      /\ \A i \in DOMAIN frames : frames[i] \in Frames /\ frames[i].at \in WaIds
  BY WireFacts
<1>2. \A i \in DOMAIN frames : frames'[i] = frames[i]
  BY <1>1
<1>3. ASSUME NEW i \in DOMAIN frames
      PROVE  MessageOnItsWay(frames', i, history') /\ PersonOnTheWay(frames', i, contacts')
  <2>1. MessageOnItsWay(frames, i, history) /\ PersonOnTheWay(frames, i, contacts)
    BY <1>3 DEF MessagesArrive, PeopleFound
  <2>2. i \in 0 .. Len(frames) /\ frames[i] \in Frames /\ frames[i].at \in WaIds
        /\ frames'[i] = frames[i]
    BY <1>1, <1>2
  <2>3. frames[i].type \in {"received", "sent"} => frames[i].about \in Indices
    BY <2>2 DEF Frames, Moves
  <2>4. frames[i].type \in {"contact", "moved"} => frames[i].about \in People
    BY <2>2 DEF Frames, Moves
  <2>5. MessageOnItsWay(frames', i, history')
    BY <2>1, <2>2, <2>3 DEF MessageOnItsWay
  <2>6. PersonOnTheWay(frames', i, contacts')
    BY <2>1, <2>2, <2>4 DEF PersonOnTheWay
  <2> QED BY <2>5, <2>6
<1>4. 0 \in 0 .. Len(frames)
  BY <1>1
<1>5. MessagesArrive'
  <2>1. \A w \in WaIds : held[w].messages \subseteq Indices
    BY DEF TypeOK, StoreTypes
  <2> QED BY <1>3, <1>4, <2>1 DEF MessagesArrive, storeVars
<1>6. PeopleFound'
  <2>1. \A w \in WaIds : known[w] \in People
    BY DEF TypeOK, StoreTypes
  <2> QED BY <1>3, <1>4, <2>1 DEF PeopleFound, storeVars
<1>7. ViewInPlace'
  <2>1. picked \in People
    BY DEF TypeOK, ViewTypes
  <2> QED BY <1>4, <2>1 DEF ViewInPlace, storeVars, viewVars
<1> QED BY <1>5, <1>6, <1>7

\* The last word on every indicator is the server's.
LEMMA BubblesPublished ==
  ASSUME TypeOK, BubblesInOrder, NEW more \in Seq(Frames'), frames' = frames \o more,
         frames \in Seq(Frames'), UNCHANGED <<shown, astray>>,
         \A w \in WaIds :
           (\A j \in DOMAIN more : ~ Says(more[j], w)) => (typing'[w] # 0 <=> typing[w] # 0),
         \A w \in WaIds, j \in DOMAIN more :
           SaysLast(more, j, w) => (more[j].type = "typing" <=> typing'[w] # 0)
  PROVE  BubblesInOrder'
<1>1. /\ DOMAIN frames = 1 .. Len(frames) /\ DOMAIN more = 1 .. Len(more)
      /\ DOMAIN frames' = 1 .. Len(frames) + Len(more)
      /\ Len(frames) \in Nat /\ Len(more) \in Nat
      /\ \A i \in 1 .. Len(frames) : frames'[i] = frames[i]
      /\ \A j \in 1 .. Len(more) : frames'[Len(frames) + j] = more[j]
  OBVIOUS
<1>2. ASSUME NEW w \in WaIds, NEW i \in DOMAIN frames', SaysLast(frames', i, w)
      PROVE  frames'[i].type = "typing" <=> typing'[w] # 0
  <2>1. CASE i \in 1 .. Len(frames)
    <3>1. ASSUME NEW j \in DOMAIN more PROVE ~ Says(more[j], w)
      <4>1. Len(frames) + j \in DOMAIN frames' /\ Len(frames) + j > i
            /\ frames'[Len(frames) + j] = more[j]
        BY <1>1, <2>1
      <4> QED BY <1>2, <4>1 DEF SaysLast
    <3>2. SaysLast(frames, i, w)
      <4>1. Says(frames[i], w)
        BY <1>1, <1>2, <2>1 DEF SaysLast
      <4>2. ASSUME NEW j \in DOMAIN frames, j > i PROVE ~ Says(frames[j], w)
        <5>1. j \in DOMAIN frames' /\ frames'[j] = frames[j]
          BY <1>1
        <5> QED BY <1>2, <4>2, <5>1 DEF SaysLast
      <4> QED BY <4>1, <4>2 DEF SaysLast
    <3> QED BY <1>1, <2>1, <3>1, <3>2 DEF BubblesInOrder
  <2>2. CASE i \notin 1 .. Len(frames)
    <3>1. PICK k \in DOMAIN more : i = Len(frames) + k
      <4>1. i - Len(frames) \in DOMAIN more /\ i = Len(frames) + (i - Len(frames))
        BY <1>1, <2>2
      <4> QED BY <4>1
    <3>2. frames'[i] = more[k]
      BY <1>1, <3>1
    <3>3. ASSUME NEW j \in DOMAIN more, j > k PROVE ~ Says(more[j], w)
      <4>1. Len(frames) + j \in DOMAIN frames' /\ Len(frames) + j > i
            /\ frames'[Len(frames) + j] = more[j]
        BY <1>1, <3>1, <3>3
      <4> QED BY <1>2, <4>1 DEF SaysLast
    <3>4. SaysLast(more, k, w)
      BY <1>2, <3>2, <3>3 DEF SaysLast
    <3> QED BY <3>2, <3>4
  <2> QED BY <2>1, <2>2
<1>3. ASSUME ~ astray'["typing"], NEW w \in WaIds, \A i \in DOMAIN frames' : ~ Says(frames'[i], w)
      PROVE  w \in shown' <=> typing'[w] # 0
  <2>1. \A i \in DOMAIN frames : i \in DOMAIN frames' /\ frames'[i] = frames[i]
    BY <1>1
  <2>2. \A j \in DOMAIN more :
          Len(frames) + j \in DOMAIN frames' /\ frames'[Len(frames) + j] = more[j]
    BY <1>1
  <2>3. \A j \in DOMAIN more : ~ Says(more[j], w)
    BY <1>3, <2>2
  <2>4. \A i \in DOMAIN frames : ~ Says(frames[i], w)
    BY <1>3, <2>1
  <2> QED BY <1>3, <2>3, <2>4 DEF BubblesInOrder
<1> QED BY <1>2, <1>3 DEF BubblesInOrder

\* A frame that moves nothing, and says what the rows say.
Honest(f, rows, persons) ==
  /\ f.type # "moved"
  /\ f.type \in {"received", "sent"} => rows[f.about].contact = f.at
  /\ f.type = "contact" => f.about # Nobody /\ persons[f.at] = f.about

\* Handlers that move nobody.
LEMMA StillArrivesUnmoved ==
  ASSUME TypeOK, TypeOK', MessagesArrive, PeopleFound, ViewInPlace,
         NEW more \in Seq(Frames'), Publish(more), frames \in Seq(Frames'), Indices \subseteq Indices',
         UNCHANGED <<storeVars, viewVars, astray>>,
         \A m \in Indices : history'[m].contact = history[m].contact,
         \A w \in WaIds : contacts[w] # Nobody => contacts'[w] = contacts[w],
         \A j \in DOMAIN more : Honest(more[j], history', contacts')
  PROVE  MessagesArrive' /\ PeopleFound' /\ ViewInPlace'
<1>1. /\ DOMAIN frames = 1 .. Len(frames) /\ DOMAIN more = 1 .. Len(more)
      /\ frames' = frames \o more /\ frames' \in Seq(Frames')
      /\ Len(frames') = Len(frames) + Len(more)
      /\ DOMAIN frames' = 1 .. Len(frames) + Len(more)
      /\ Len(frames) \in Nat /\ Len(more) \in Nat
      /\ \A i \in DOMAIN frames' \ DOMAIN frames :
           i - Len(frames) \in DOMAIN more /\ frames'[i] = more[i - Len(frames)]
  BY DEF Publish
<1>2. \A i \in Len(frames) + 1 .. Len(frames') : frames'[i].type # "moved"
  BY <1>1 DEF Honest
<1>3. \A n \in Len(frames) .. Len(frames'), w \in WaIds : Leads(frames', n, w, w)
  <2> SUFFICES ASSUME NEW n \in Len(frames) .. Len(frames'), NEW w \in WaIds PROVE Leads(frames', n, w, w)
    OBVIOUS
  <2>1. n \in 0 .. Len(frames') /\ \A i \in n + 1 .. Len(frames') : frames'[i].type # "moved"
    BY <1>1, <1>2
  <2> QED BY <1>1, <2>1, LeadsQuiet
<1>4. ASSUME NEW n \in 0 .. Len(frames), NEW w, NEW v \in WaIds, Leads(frames, n, w, v)
      PROVE  Leads(frames', n, w, v)
  <2>1. Leads(frames \o more, Len(frames), v, v)
    BY <1>1, <1>3
  <2>2. Leads(frames \o more, n, w, v)
    BY <1>4, <2>1, LeadsOn
  <2> QED BY <1>1, <2>2
<1>5. \A n \in 0 .. Len(frames), w \in WaIds, m \in Indices :
        Leads(frames, n, w, history[m].contact) => Leads(frames', n, w, history'[m].contact)
  BY <1>4, WireFacts
<1>6. \A n \in 0 .. Len(frames), w \in WaIds, p \in People :
        p # Nobody /\ Finds(frames, n, w, p, contacts) => Finds(frames', n, w, p, contacts')
  BY <1>4 DEF Finds
<1>7. ASSUME NEW i \in DOMAIN frames' \ DOMAIN frames
      PROVE  MessageOnItsWay(frames', i, history') /\ PersonOnTheWay(frames', i, contacts')
  <2>1. Honest(frames'[i], history', contacts') /\ i \in Len(frames) .. Len(frames')
    BY <1>1
  <2>2. frames'[i] \in Frames'
    BY <1>1
  <2>3. \A f \in Frames' : f.at \in WaIds
    BY DEF Frames, Moves
  <2>4. Leads(frames', i, frames'[i].at, frames'[i].at)
    BY <1>3, <2>1, <2>2, <2>3
  <2> QED BY <2>1, <2>2, <2>3, <2>4 DEF Honest, MessageOnItsWay, PersonOnTheWay, Finds
<1> QED BY <1>1, <1>5, <1>6, <1>7, StillArrives

\* Handlers that leave the indicators alone.
LEMMA BubblesUntouched ==
  ASSUME TypeOK, BubblesInOrder, NEW more \in Seq(Frames'), Publish(more), frames \in Seq(Frames'),
         UNCHANGED <<shown, astray, typing>>,
         \A j \in DOMAIN more : more[j].type \in {"received", "contact", "moved"}
  PROVE  BubblesInOrder'
<1>1. \A w : \A j \in DOMAIN more : ~ Says(more[j], w)
  BY DEF Says
<1>2. \A w \in WaIds : (\A j \in DOMAIN more : ~ Says(more[j], w)) => (typing'[w] # 0 <=> typing[w] # 0)
  OBVIOUS
<1>3. \A w \in WaIds, j \in DOMAIN more :
        SaysLast(more, j, w) => (more[j].type = "typing" <=> typing'[w] # 0)
  BY <1>1 DEF SaysLast
<1> QED BY <1>2, <1>3, BubblesPublished DEF Publish

\* Handlers that take one down.
LEMMA BubbleDown ==
  ASSUME TypeOK, BubblesInOrder, NEW more \in Seq(Frames'), Publish(more), frames \in Seq(Frames'),
         UNCHANGED <<shown, astray>>, NEW w \in WaIds, typing' = [typing EXCEPT ![w] = 0],
         \A j \in DOMAIN more : more[j].type \in {"sent", "quiet"} /\ more[j].at = w,
         more = <<>> => typing[w] = 0
  PROVE  BubblesInOrder'
<1>1. typing'[w] = 0 /\ \A v \in WaIds \ {w} : typing'[v] = typing[v]
  BY DEF TypeOK, ServerTypes
<1>2. \A j \in DOMAIN more : \A v : Says(more[j], v) => v = w /\ more[j].type # "typing"
  BY DEF Says
<1>3. ASSUME NEW v \in WaIds, \A j \in DOMAIN more : ~ Says(more[j], v)
      PROVE  typing'[v] # 0 <=> typing[v] # 0
  <2>1. CASE v = w
    <3>1. DOMAIN more = {}
      BY <1>3, <2>1 DEF Says
    <3>2. more = <<>>
      BY <3>1
    <3> QED BY <1>1, <2>1, <3>2
  <2>2. CASE v # w
    BY <1>1, <2>2
  <2> QED BY <2>1, <2>2
<1>4. \A v \in WaIds, j \in DOMAIN more :
        SaysLast(more, j, v) => (more[j].type = "typing" <=> typing'[v] # 0)
  BY <1>1, <1>2 DEF SaysLast
<1> QED BY <1>3, <1>4, BubblesPublished DEF Publish

\* The frames, field by field.
LEMMA FrameFacts ==
  /\ \A w, up : TypingFrame(w, up).at = w
  /\ \A w : TypingFrame(w, TRUE).type = "typing" /\ TypingFrame(w, FALSE).type = "quiet"
  /\ \A w, p : LET f == ContactFrame(w, p) IN f.type = "contact" /\ f.at = w /\ f.about = p
  /\ \A m, row : LET f == MessageFrame(m, row) IN
       /\ f.type = (IF row.out THEN "sent" ELSE "received") /\ f.at = row.contact /\ f.about = m
  /\ \A v, p, w : LET f == MovedFrame(v, p, w) IN
       /\ f.type = "moved" /\ f.at = v /\ f.about = p /\ f.from = w
BY DEF TypingFrame, ContactFrame, MessageFrame, MovedFrame, Frame

\* Each element of a concatenation is one of either.
LEMMA EitherPart ==
  ASSUME NEW S, NEW s \in Seq(S), NEW t \in Seq(S), NEW j \in DOMAIN (s \o t)
  PROVE  \/ \E i \in DOMAIN s : (s \o t)[j] = s[i]
         \/ \E i \in DOMAIN t : (s \o t)[j] = t[i]
<1>1. CASE j <= Len(s)
  BY <1>1
<1>2. CASE j > Len(s)
  <2>1. j - Len(s) \in DOMAIN t /\ (s \o t)[j] = t[j - Len(s)]
    BY <1>2
  <2> QED BY <2>1
<1> QED BY <1>1, <1>2

\* The announcement of a new contact is honest.
LEMMA FirstSeenHonest ==
  ASSUME ServerTypes, NEW w \in WaIds, Ensure(w)
  PROVE  /\ \A j \in DOMAIN FirstSeen(w) :
              Honest(FirstSeen(w)[j], history', contacts') /\ FirstSeen(w)[j].type = "contact"
<1>1. contacts'[w] # Nobody
  BY EnsureFacts
<1> DEFINE f == ContactFrame(w, contacts'[w])
<1>2. Honest(f, history', contacts') /\ f.type = "contact"
  BY <1>1, FrameFacts DEF Honest
<1> HIDE DEF f
<1>3. FirstSeen(w) = <<f>> \/ FirstSeen(w) = <<>>
  BY DEF FirstSeen, f
<1> QED BY <1>2, <1>3

\* The message just inserted, too.
LEMMA InsertedHonest ==
  ASSUME ServerTypes, NEW w \in WaIds, NEW out \in BOOLEAN, Ensure(w), Insert(w, out)
  PROVE  /\ Honest(Inserted, history', contacts')
         /\ Inserted.type = (IF out THEN "sent" ELSE "received") /\ Inserted.at = w
         /\ \A m \in Indices : history'[m].contact = history[m].contact
         /\ \A v \in WaIds : contacts[v] # Nobody => contacts'[v] = contacts[v]
<1>1. contacts'[w] \in People \ {Nobody}
        /\ \A v \in WaIds : contacts[v] # Nobody \/ v # w => contacts'[v] = contacts[v]
  BY EnsureFacts
<1>2. /\ \A m \in Indices : history'[m] = history[m]
      /\ history'[Len(history')] = [contact |-> w, person |-> contacts'[w], out |-> out]
  BY <1>1, InsertFacts
<1>3. /\ Inserted.type = (IF out THEN "sent" ELSE "received") /\ Inserted.at = w
      /\ Inserted.about = Len(history')
  BY <1>2, FrameFacts DEF Inserted
<1>4. Honest(Inserted, history', contacts')
  BY <1>2, <1>3 DEF Honest
<1> QED BY <1>1, <1>2, <1>3, <1>4

\* A message comes in.
LEMMA InboundView ==
  ASSUME ChatInv, TypeOK', NEW w \in WaIds, Inbound(w)
  PROVE  BubblesInOrder' /\ MessagesArrive' /\ PeopleFound' /\ ViewInPlace'
<1> DEFINE more == FirstSeen(w) \o <<Inserted>>
<1>1. /\ Ensure(w) /\ Insert(w, FALSE) /\ Publish(more)
      /\ UNCHANGED <<typing, storeVars, viewVars, astray>>
  BY DEF Inbound
<1>2. /\ TypeOK /\ ServerTypes
      /\ BubblesInOrder /\ MessagesArrive /\ PeopleFound /\ ViewInPlace
  BY DEF ChatInv, IInv, TypeOK
<1>3. Indices \subseteq Indices' /\ Inserted \in Frames' /\ FirstSeen(w) \in Seq(Frames')
  BY <1>1, <1>2, Recorded, Announced
<1>4. frames \in Seq(Frames')
  BY <1>2, <1>3, FramesGrow DEF TypeOK, WireTypes
<1>5. /\ Honest(Inserted, history', contacts') /\ Inserted.type = "received"
      /\ \A m \in Indices : history'[m].contact = history[m].contact
      /\ \A v \in WaIds : contacts[v] # Nobody => contacts'[v] = contacts[v]
  BY <1>1, <1>2, InsertedHonest
<1>6. <<Inserted>> \in Seq(Frames') /\ more \in Seq(Frames')
  BY <1>3
<1>7. \A j \in DOMAIN more : \/ \E i \in DOMAIN FirstSeen(w) : more[j] = FirstSeen(w)[i]
                             \/ \E i \in DOMAIN <<Inserted>> : more[j] = <<Inserted>>[i]
  BY <1>3, <1>6, EitherPart
<1>8. \A j \in DOMAIN more :
        Honest(more[j], history', contacts') /\ more[j].type \in {"received", "contact"}
  BY <1>1, <1>2, <1>5, <1>7, FirstSeenHonest
<1> HIDE DEF more
<1>9. BubblesInOrder'
  BY <1>1, <1>2, <1>4, <1>6, <1>8, BubblesUntouched DEF storeVars
<1> QED BY <1>1, <1>2, <1>3, <1>4, <1>5, <1>6, <1>8, <1>9, StillArrivesUnmoved

\* Contacts are announced, and nothing else.
LEMMA ContactView ==
  ASSUME ChatInv, TypeOK', NEW more \in Seq(Frames'), Publish(more),
         UNCHANGED <<history, typing, storeVars, viewVars, astray>>,
         \A v \in WaIds : contacts[v] # Nobody => contacts'[v] = contacts[v],
         \A j \in DOMAIN more : Honest(more[j], history', contacts') /\ more[j].type = "contact"
  PROVE  BubblesInOrder' /\ MessagesArrive' /\ PeopleFound' /\ ViewInPlace'
<1>1. /\ TypeOK /\ BubblesInOrder /\ MessagesArrive /\ PeopleFound /\ ViewInPlace
  BY DEF ChatInv, IInv
<1>2. Indices' = Indices /\ frames \in Seq(Frames')
  BY <1>1, SameMessages DEF TypeOK, WireTypes
<1>3. BubblesInOrder'
  BY <1>1, <1>2, BubblesUntouched DEF storeVars
<1> QED BY <1>1, <1>2, <1>3, StillArrivesUnmoved

\* A contact of the dialog, or of a message that is refused.
LEMMA FirstSeenView ==
  ASSUME ChatInv, TypeOK', NEW w \in WaIds,
         \/ InboundRefused(w)
         \/ \E withUserId \in BOOLEAN : CreateContact(w, withUserId)
  PROVE  BubblesInOrder' /\ MessagesArrive' /\ PeopleFound' /\ ViewInPlace'
<1>1. /\ Ensure(w) /\ Publish(FirstSeen(w))
      /\ UNCHANGED <<history, typing, storeVars, viewVars, astray>>
  BY DEF InboundRefused, CreateContact
<1>2. ServerTypes
  BY DEF ChatInv, IInv, TypeOK
<1>3. \A v \in WaIds : contacts[v] # Nobody => contacts'[v] = contacts[v]
  BY <1>1, <1>2, EnsureFacts
<1> DEFINE more == FirstSeen(w)
<1>4. /\ more \in Seq(Frames')
      /\ \A j \in DOMAIN more : Honest(more[j], history', contacts') /\ more[j].type = "contact"
  BY <1>1, <1>2, Announced, FirstSeenHonest
<1>5. Publish(more)
  BY <1>1
<1> HIDE DEF more
<1> QED BY <1>1, <1>3, <1>4, <1>5, ContactView

\* A contact with another user id.
LEMMA UpdateContactView ==
  ASSUME ChatInv, TypeOK', NEW w \in WaIds, UpdateContact(w)
  PROVE  BubblesInOrder' /\ MessagesArrive' /\ PeopleFound' /\ ViewInPlace'
<1> DEFINE f == ContactFrame(w, contacts[w])
<1>1. /\ contacts[w] # Nobody /\ Publish(<<f>>)
      /\ UNCHANGED <<contacts, history, typing, storeVars, viewVars, astray>>
  BY DEF UpdateContact
<1>2. Honest(f, history', contacts') /\ f.type = "contact"
  BY <1>1, FrameFacts DEF Honest
<1>3. f \in Frames'
  BY DEF ContactFrame, Frame, Frames, ChatInv, IInv, TypeOK, ServerTypes
<1> HIDE DEF f
<1>4. /\ <<f>> \in Seq(Frames')
      /\ \A j \in DOMAIN <<f>> : Honest(<<f>>[j], history', contacts') /\ <<f>>[j].type = "contact"
  BY <1>2, <1>3
<1> DEFINE more == <<f>>
<1>5. more \in Seq(Frames') /\ Publish(more)
  BY <1>1, <1>4
<1>6. \A j \in DOMAIN more : Honest(more[j], history', contacts') /\ more[j].type = "contact"
  BY <1>4
<1>7. \A v \in WaIds : contacts[v] # Nobody => contacts'[v] = contacts[v]
  BY <1>1
<1> HIDE DEF more
<1> QED BY <1>1, <1>5, <1>6, <1>7, ContactView

\* The dismissal of an indicator, if there was one.
LEMMA DismissedFacts ==
  ASSUME NEW w \in WaIds
  PROVE  /\ Dismissed(w) \in Seq(Frames')
         /\ \A j \in DOMAIN Dismissed(w) : Dismissed(w)[j].type = "quiet" /\ Dismissed(w)[j].at = w
         /\ Dismissed(w) = <<>> <=> typing[w] = 0
<1> DEFINE f == TypingFrame(w, FALSE)
<1>1. f.type = "quiet" /\ f.at = w
  BY FrameFacts
<1> HIDE DEF f
<1>2. /\ typing[w] = 0 => Dismissed(w) = <<>>
      /\ typing[w] # 0 => Dismissed(w) = <<f>>
  BY Zenon DEF Dismissed, f
<1>3. /\ \A j \in DOMAIN Dismissed(w) : Dismissed(w)[j].type = "quiet" /\ Dismissed(w)[j].at = w
      /\ Dismissed(w) = <<>> <=> typing[w] = 0
  BY <1>1, <1>2
<1> QED BY <1>3, TypingAnnounced

\* A message goes out and takes the indicator down.
LEMMA SendView ==
  ASSUME ChatInv, TypeOK', NEW w \in WaIds, Send(w)
  PROVE  BubblesInOrder' /\ MessagesArrive' /\ PeopleFound' /\ ViewInPlace'
<1> DEFINE more == <<Inserted>> \o Dismissed(w)
<1>1. /\ Ensure(w) /\ Insert(w, TRUE) /\ Drop(w) /\ Publish(more)
      /\ UNCHANGED <<storeVars, viewVars, astray>>
  BY DEF Send
<1>2. /\ TypeOK /\ ServerTypes
      /\ BubblesInOrder /\ MessagesArrive /\ PeopleFound /\ ViewInPlace
  BY DEF ChatInv, IInv, TypeOK
<1>3. Indices \subseteq Indices' /\ Inserted \in Frames' /\ typing' = [typing EXCEPT ![w] = 0]
  BY <1>1, <1>2, Recorded DEF Drop
<1>4. frames \in Seq(Frames')
  BY <1>2, <1>3, FramesGrow DEF TypeOK, WireTypes
<1>5. /\ Honest(Inserted, history', contacts') /\ Inserted.type = "sent" /\ Inserted.at = w
      /\ \A m \in Indices : history'[m].contact = history[m].contact
      /\ \A v \in WaIds : contacts[v] # Nobody => contacts'[v] = contacts[v]
  BY <1>1, <1>2, InsertedHonest
<1>6. /\ Dismissed(w) \in Seq(Frames')
      /\ \A j \in DOMAIN Dismissed(w) : Dismissed(w)[j].type = "quiet" /\ Dismissed(w)[j].at = w
  BY DismissedFacts
<1>7. <<Inserted>> \in Seq(Frames') /\ more \in Seq(Frames') /\ more # <<>>
  BY <1>3, <1>6
<1>8. \A j \in DOMAIN more : \/ \E i \in DOMAIN <<Inserted>> : more[j] = <<Inserted>>[i]
                             \/ \E i \in DOMAIN Dismissed(w) : more[j] = Dismissed(w)[i]
  BY <1>6, <1>7, EitherPart
<1>9. \A j \in DOMAIN more :
        /\ more[j].type \in {"sent", "quiet"} /\ more[j].at = w
        /\ Honest(more[j], history', contacts')
  BY <1>5, <1>6, <1>8 DEF Honest
<1> HIDE DEF more
<1>10. BubblesInOrder'
  BY <1>1, <1>2, <1>3, <1>4, <1>7, <1>9, BubbleDown DEF storeVars
<1> QED BY <1>1, <1>2, <1>3, <1>4, <1>5, <1>7, <1>9, <1>10, StillArrivesUnmoved

\* A timer takes it down.
LEMMA ExpireView ==
  ASSUME ChatInv, TypeOK', NEW t \in Dismissals, Expire(t)
  PROVE  BubblesInOrder' /\ MessagesArrive' /\ PeopleFound' /\ ViewInPlace'
<1>1. PICK w \in WaIds : w = t[1]
  BY DEF Dismissals
<1> DEFINE more == Dismissed(w)
<1>2. /\ typing' = [typing EXCEPT ![w] = 0] /\ Publish(more)
      /\ UNCHANGED <<contacts, history, storeVars, viewVars, astray>>
  BY <1>1 DEF Expire
<1>3. /\ TypeOK /\ BubblesInOrder /\ MessagesArrive /\ PeopleFound /\ ViewInPlace
  BY DEF ChatInv, IInv
<1>4. Indices' = Indices /\ frames \in Seq(Frames')
  BY <1>2, <1>3, SameMessages DEF TypeOK, WireTypes
<1>5. /\ more \in Seq(Frames')
      /\ more = <<>> => typing[w] = 0
      /\ \A j \in DOMAIN more : more[j].type = "quiet" /\ more[j].at = w
  BY DismissedFacts
<1> HIDE DEF more
<1>6. \A j \in DOMAIN more : Honest(more[j], history', contacts')
  BY <1>5 DEF Honest
<1>7. BubblesInOrder'
  BY <1>2, <1>3, <1>4, <1>5, BubbleDown DEF storeVars
<1> QED BY <1>2, <1>3, <1>4, <1>5, <1>6, <1>7, StillArrivesUnmoved

\* An indicator is raised, whether or not one was up.
LEMMA StartTypingView ==
  ASSUME ChatInv, TypeOK', NEW m \in Indices, StartTyping(m)
  PROVE  BubblesInOrder' /\ MessagesArrive' /\ PeopleFound' /\ ViewInPlace'
<1>1. /\ TypeOK /\ BubblesInOrder /\ MessagesArrive /\ PeopleFound /\ ViewInPlace
  BY DEF ChatInv, IInv
<1>2. PICK w \in WaIds : w = history[m].contact
  BY <1>1, WireFacts
<1> DEFINE f == TypingFrame(w, TRUE)
<1>3. /\ typing' = [typing EXCEPT ![w] = raises'] /\ raises' = raises + 1 /\ Publish(<<f>>)
      /\ UNCHANGED <<contacts, history, storeVars, viewVars, astray>>
  BY <1>2 DEF StartTyping
<1>4. Indices' = Indices /\ frames \in Seq(Frames')
  BY <1>1, <1>3, SameMessages DEF TypeOK, WireTypes
<1>5. /\ typing'[w] # 0 /\ \A v \in WaIds \ {w} : typing'[v] = typing[v]
  BY <1>1, <1>3, Constants DEF TypeOK, ServerTypes
<1>6. <<f>> \in Seq(Frames') /\ f.type = "typing" /\ f.at = w
  BY TypingAnnounced, FrameFacts
<1> DEFINE more == <<f>>
<1> HIDE DEF f
<1>7. more \in Seq(Frames') /\ Publish(more) /\ 1 \in DOMAIN more /\ more[1] = f
      /\ \A j \in DOMAIN more : j = 1
  BY <1>3, <1>6
<1> HIDE DEF more
<1>8. \A j \in DOMAIN more : Honest(more[j], history', contacts')
  BY <1>6, <1>7 DEF Honest
<1>9. \A v \in WaIds, j \in DOMAIN more : Says(more[j], v) <=> v = w
  BY <1>6, <1>7 DEF Says
<1>10. BubblesInOrder'
  <2>1. \A v \in WaIds : (\A j \in DOMAIN more : ~ Says(more[j], v)) => (typing'[v] # 0 <=> typing[v] # 0)
    BY <1>5, <1>7, <1>9
  <2>2. \A v \in WaIds, j \in DOMAIN more :
          SaysLast(more, j, v) => (more[j].type = "typing" <=> typing'[v] # 0)
    BY <1>5, <1>6, <1>7, <1>9 DEF SaysLast
  <2> QED BY <1>1, <1>3, <1>4, <1>7, <2>1, <2>2, BubblesPublished DEF Publish, storeVars
<1> QED BY <1>1, <1>3, <1>4, <1>7, <1>8, <1>10, StillArrivesUnmoved

\* A person moves: every path that led to the number they leave goes on to the new one.
LEMMA ChangeNumberView ==
  ASSUME ChatInv, TypeOK', NEW w \in WaIds, NEW v \in WaIds, NEW mine \in BOOLEAN,
         ChangeNumber(w, v, mine)
  PROVE  BubblesInOrder' /\ MessagesArrive' /\ PeopleFound' /\ ViewInPlace'
<1> DEFINE mv == MovedFrame(v, contacts[w], w)
<1>1. /\ contacts[w] # Nobody /\ contacts[v] = Nobody
      /\ MoveRows(w, v) /\ Publish(<<mv>>)
      /\ UNCHANGED <<typing, storeVars, viewVars, astray>>
  BY DEF ChangeNumber
<1>2. /\ TypeOK /\ BubblesInOrder /\ MessagesArrive /\ PeopleFound /\ ViewInPlace
  BY DEF ChatInv, IInv
<1>3. mv.type = "moved" /\ mv.at = v /\ mv.about = contacts[w] /\ mv.from = w
  BY FrameFacts
<1>4. \A m \in Indices : history[m] \in Rows
  BY <1>2, WireFacts
<1>5. /\ contacts \in [WaIds -> People]
      /\ contacts' = [contacts EXCEPT ![v] = contacts[w], ![w] = Nobody]
      /\ history' = [m \in Indices |->
           IF history[m].contact = w THEN [history[m] EXCEPT !.contact = v] ELSE history[m]]
  BY <1>1, <1>2 DEF MoveRows, TypeOK, ServerTypes
<1>6. \A m \in Indices :
        history'[m].contact = IF history[m].contact = w THEN v ELSE history[m].contact
  BY <1>4, <1>5 DEF Rows
<1>7. Indices' = Indices
  BY <1>5 DEF Indices
<1>8. frames \in Seq(Frames') /\ Frames' = Frames
  BY <1>2, <1>7, FramesGrow DEF TypeOK, WireTypes, Frames, Moves
<1>9. mv \in Frames'
  BY <1>5 DEF MovedFrame, Frame, Frames, Moves
<1> HIDE DEF mv
<1> DEFINE more == <<mv>>
<1>10. more \in Seq(Frames') /\ Publish(more) /\ frames' = frames \o <<mv>> /\ frames' = frames \o more
  BY <1>1, <1>9 DEF Publish
<1>11. \A j \in DOMAIN more : more[j].type \in {"received", "contact", "moved"}
  BY <1>3
<1>12. /\ Len(frames) \in Nat /\ DOMAIN frames = 1 .. Len(frames)
       /\ Len(frames') = Len(frames) + 1 /\ DOMAIN frames' = 1 .. Len(frames) + 1
       /\ frames'[Len(frames) + 1] = mv
  BY <1>8, <1>10
<1>13. frames' \in Seq(Frames')
  BY <1>8, <1>10
<1>14. \A u \in WaIds : Leads(frames', Len(frames), u, IF u = w THEN v ELSE u)
  <2> SUFFICES ASSUME NEW u \in WaIds PROVE Leads(frames', Len(frames), u, IF u = w THEN v ELSE u)
    OBVIOUS
  <2>1. Leads(frames \o <<mv>>, Len(frames), u, IF u = mv.from THEN mv.at ELSE u)
    BY <1>3, <1>8, <1>9, LeadsMove
  <2> QED BY <1>3, <1>10, <2>1
<1>15. ASSUME NEW n \in 0 .. Len(frames), NEW u, NEW x \in WaIds, Leads(frames, n, u, x)
       PROVE  Leads(frames', n, u, IF x = w THEN v ELSE x)
  <2>1. Leads(frames \o more, Len(frames), x, IF x = w THEN v ELSE x)
    BY <1>10, <1>14
  <2>2. Leads(frames \o more, n, u, IF x = w THEN v ELSE x)
    BY <1>8, <1>10, <1>15, <2>1, LeadsOn
  <2> QED BY <1>10, <2>2
<1> HIDE DEF more
<1>16. \A n \in 0 .. Len(frames), u \in WaIds, m \in Indices :
         Leads(frames, n, u, history[m].contact) => Leads(frames', n, u, history'[m].contact)
  BY <1>2, <1>6, <1>15, WireFacts
<1>17. \A n \in 0 .. Len(frames), u \in WaIds, p \in People :
         p # Nobody /\ Finds(frames, n, u, p, contacts) => Finds(frames', n, u, p, contacts')
  <2> SUFFICES ASSUME NEW n \in 0 .. Len(frames), NEW u \in WaIds, NEW p \in People, p # Nobody,
                      NEW x \in WaIds, Leads(frames, n, u, x), contacts[x] = p
               PROVE  Finds(frames', n, u, p, contacts')
    BY DEF Finds
  <2>1. Leads(frames', n, u, IF x = w THEN v ELSE x)
    BY <1>15
  <2>2. contacts'[IF x = w THEN v ELSE x] = p
    BY <1>1, <1>5
  <2> QED BY <2>1, <2>2 DEF Finds
<1>18. ASSUME NEW i \in DOMAIN frames' \ DOMAIN frames
       PROVE  MessageOnItsWay(frames', i, history') /\ PersonOnTheWay(frames', i, contacts')
  <2>1. i = Len(frames) + 1 /\ i \in 0 .. Len(frames') /\ frames'[i] = mv
    BY <1>12
  <2>2. \A j \in i + 1 .. Len(frames') : frames'[j].type # "moved"
    BY <1>12, <2>1
  <2>3. Leads(frames', i, v, v)
    BY <1>13, <2>1, <2>2, LeadsQuiet
  <2>4. contacts'[v] = contacts[w]
    BY <1>1, <1>5
  <2> QED BY <1>1, <1>3, <2>1, <2>3, <2>4 DEF MessageOnItsWay, PersonOnTheWay, Finds
<1>19. BubblesInOrder'
  BY <1>1, <1>2, <1>8, <1>10, <1>11, BubblesUntouched DEF storeVars
<1>20. MessagesArrive' /\ PeopleFound' /\ ViewInPlace'
  BY <1>1, <1>2, <1>7, <1>10, <1>16, <1>17, <1>18, StillArrives
<1> QED BY <1>19, <1>20

-----------------------------------------------------------------------------
(* What the client does *)

\* The client's own steps leave the server and the wire alone.
LEMMA SameServer ==
  ASSUME UNCHANGED <<serverVars, frames>>
  PROVE  /\ UNCHANGED <<contacts, history, typing, frames>>
         /\ Indices' = Indices /\ Up' = Up
BY DEF serverVars, Indices, Up

\* To another page.
LEMMA LeaveView ==
  ASSUME ChatInv, Leave
  PROVE  BubblesInOrder' /\ MessagesArrive' /\ PeopleFound' /\ ViewInPlace'
<1>1. /\ UNCHANGED <<contacts, history, typing, frames>>
      /\ UNCHANGED <<known, held, shown, astray>> /\ picked' = Nobody
  BY SameServer DEF Leave, storeVars
<1>2. BubblesInOrder'
  BY <1>1 DEF ChatInv, BubblesInOrder
<1>3. MessagesArrive'
  BY <1>1 DEF ChatInv, MessagesArrive
<1>4. PeopleFound'
  BY <1>1 DEF ChatInv, PeopleFound
<1> QED BY <1>1, <1>2, <1>3, <1>4 DEF ViewInPlace

\* The view goes where the conversation went.
LEMMA FollowView ==
  ASSUME ChatInv, Follow
  PROVE  BubblesInOrder' /\ MessagesArrive' /\ PeopleFound' /\ ViewInPlace'
<1>1. /\ UNCHANGED <<contacts, history, typing, frames>>
      /\ UNCHANGED <<known, held, shown, astray, picked>>
      /\ moved # NotMoved /\ moved.from = route
      /\ route' = moved.to /\ active' = moved.to /\ moved' = NotMoved
  BY SameServer DEF Follow, Show, Opened
<1>2. BubblesInOrder'
  BY <1>1 DEF ChatInv, BubblesInOrder
<1>3. MessagesArrive'
  BY <1>1 DEF ChatInv, MessagesArrive
<1>4. PeopleFound'
  BY <1>1 DEF ChatInv, PeopleFound
<1>5. ViewInPlace'
  BY <1>1 DEF ChatInv, ViewInPlace
<1> QED BY <1>2, <1>3, <1>4, <1>5

\* An answer is given, and does nothing before it is there.
LEMMA AnswerView ==
  ASSUME ChatInv, AnswerPage \/ AnswerIndicators
  PROVE  BubblesInOrder' /\ MessagesArrive' /\ PeopleFound' /\ ViewInPlace'
<1>1. /\ UNCHANGED <<contacts, history, typing, frames>>
      /\ UNCHANGED <<known, held, shown, astray, picked, route, active, moved>>
  BY SameServer DEF AnswerPage, AnswerIndicators, storeVars
<1>2. BubblesInOrder'
  BY <1>1 DEF ChatInv, BubblesInOrder
<1>3. MessagesArrive'
  BY <1>1 DEF ChatInv, MessagesArrive
<1>4. PeopleFound'
  BY <1>1 DEF ChatInv, PeopleFound
<1>5. ViewInPlace'
  BY <1>1 DEF ChatInv, ViewInPlace
<1> QED BY <1>2, <1>3, <1>4, <1>5

\* Where frame f takes what is kept for w.
Carried(f, w) == IF f.type = "moved" /\ f.from = w THEN f.at ELSE w

\* The first frame goes, and the paths of the others and of what is kept go on without it.
LEMMA HeadFacts ==
  ASSUME TypeOK, frames # <<>>, frames' = Tail(frames)
  PROVE  /\ 1 \in DOMAIN frames /\ Head(frames) = frames[1] /\ Head(frames) \in Frames
         /\ \A i \in DOMAIN frames' : i \in Nat /\ i + 1 \in DOMAIN frames /\ frames'[i] = frames[i + 1]
         /\ \A i \in DOMAIN frames : i = 1 \/ i - 1 \in DOMAIN frames'
         /\ \A n \in DOMAIN frames' \cup {0} : \A w, v :
              Leads(frames, n + 1, w, v) => Leads(frames', n, w, v)
         /\ \A w, v : Leads(frames, 0, w, v) => Leads(frames', 0, Carried(Head(frames), w), v)
<1>1. frames \in Seq(Frames)
  BY WireFacts
<1>2. /\ DOMAIN frames = 1 .. Len(frames) /\ Len(frames) \in Nat \ {0}
      /\ DOMAIN frames' = 1 .. Len(frames) - 1
      /\ \A i \in 1 .. Len(frames) - 1 : frames'[i] = frames[i + 1]
  BY <1>1
<1>3. Head(frames) = frames[1] /\ Head(frames) \in Frames
  BY <1>1
<1>4. ASSUME NEW n \in DOMAIN frames' \cup {0}, NEW w, NEW v, Leads(frames, n + 1, w, v)
      PROVE  Leads(frames', n, w, v)
  <2>1. n \in Nat /\ n + 1 <= Len(frames)
    BY <1>2
  <2> QED BY <1>1, <1>4, <2>1, LeadsTail
<1>5. ASSUME NEW w, NEW v, Leads(frames, 0, w, v)
      PROVE  Leads(frames', 0, Carried(Head(frames), w), v)
  BY <1>1, <1>3, <1>5, LeadsHead DEF Carried
<1> QED BY <1>2, <1>3, <1>4, <1>5

\* What a frame does to the bubbles.
LEMMA ReceiveBubbles ==
  ASSUME ChatInv, Receive
  PROVE  BubblesInOrder'
<1> DEFINE f == Head(frames)
<1>1. /\ frames # <<>> /\ frames' = Tail(frames)
      /\ ReceiveMessage(f) \/ ReceiveTyping(f) \/ ReceiveContact(f) \/ ReceiveMove(f)
      /\ UNCHANGED typing
  BY DEF Receive, serverVars
<1>2. TypeOK /\ BubblesInOrder
  BY DEF ChatInv, IInv
<1>3. /\ 1 \in DOMAIN frames /\ f = frames[1] /\ f \in Frames
      /\ \A i \in DOMAIN frames' : i \in Nat /\ i + 1 \in DOMAIN frames /\ frames'[i] = frames[i + 1]
      /\ \A i \in DOMAIN frames : i = 1 \/ i - 1 \in DOMAIN frames'
  BY <1>1, <1>2, HeadFacts
<1>4. DOMAIN frames = 1 .. Len(frames)
  BY <1>2, WireFacts
<1> HIDE DEF f
<1>5. ASSUME NEW w \in WaIds, NEW i \in DOMAIN frames', SaysLast(frames', i, w)
      PROVE  frames'[i].type = "typing" <=> typing'[w] # 0
  <2>1. Says(frames[i + 1], w) /\ i + 1 \in DOMAIN frames
    BY <1>3, <1>5 DEF SaysLast
  <2>2. ASSUME NEW j \in DOMAIN frames, j > i + 1 PROVE ~ Says(frames[j], w)
    <3>1. j - 1 \in DOMAIN frames' /\ j - 1 > i /\ frames'[j - 1] = frames[j]
      <4>1. j \in Nat /\ i \in Nat /\ j # 1
        BY <1>3, <1>4, <2>2
      <4>2. j - 1 \in DOMAIN frames' /\ j - 1 > i /\ (j - 1) + 1 = j
        BY <1>3, <2>2, <4>1
      <4> QED BY <1>3, <4>2
    <3> QED BY <1>5, <3>1 DEF SaysLast
  <2>3. SaysLast(frames, i + 1, w)
    BY <2>1, <2>2 DEF SaysLast
  <2> QED BY <1>1, <1>2, <1>3, <2>1, <2>3 DEF BubblesInOrder
<1>6. ASSUME ~ astray'["typing"], NEW w \in WaIds, \A i \in DOMAIN frames' : ~ Says(frames'[i], w)
      PROVE  w \in shown' <=> typing'[w] # 0
  <2>1. ~ astray["typing"] /\ (f.type = "moved" => f.from \notin shown)
    <3>1. CASE ReceiveMove(f)
      <4>1. astray' = [astray EXCEPT !["typing"] = astray["typing"] \/ f.from \in shown,
                                     !["view"] = astray["view"] \/ (active = f.from /\ moved # NotMoved)]
        BY <3>1 DEF ReceiveMove
      <4>2. astray \in [Parts -> BOOLEAN] /\ "typing" \in Parts /\ "typing" # "view"
        BY <1>2 DEF TypeOK, ViewTypes, Parts
      <4>3. astray'["typing"] <=> astray["typing"] \/ f.from \in shown
        BY <4>1, <4>2, Zenon
      <4> QED BY <1>6, <4>3
    <3>2. CASE ~ ReceiveMove(f)
      BY <1>1, <1>6, <3>2 DEF ReceiveMessage, ReceiveTyping, ReceiveContact
    <3> QED BY <3>1, <3>2
  <2>2. ASSUME NEW j \in DOMAIN frames, j # 1 PROVE ~ Says(frames[j], w)
    <3>1. j - 1 \in DOMAIN frames' /\ (j - 1) + 1 = j
      BY <1>3, <1>4, <2>2
    <3>2. frames'[j - 1] = frames[j]
      BY <1>3, <3>1
    <3> QED BY <1>6, <3>1, <3>2
  <2>3. CASE Says(f, w)
    <3>1. SaysLast(frames, 1, w)
      BY <1>3, <1>4, <2>2, <2>3 DEF SaysLast
    <3>2. f.type = "typing" <=> typing[w] # 0
      BY <1>2, <1>3, <3>1 DEF BubblesInOrder
    <3>3. w \in shown' <=> f.type = "typing"
      BY <1>1, <2>3 DEF Says, ReceiveMessage, ReceiveTyping, ReceiveContact, ReceiveMove
    <3> QED BY <1>1, <3>2, <3>3
  <2>4. CASE ~ Says(f, w)
    <3>1. \A j \in DOMAIN frames : ~ Says(frames[j], w)
      BY <1>3, <2>2, <2>4
    <3>2. w \in shown <=> typing[w] # 0
      BY <1>2, <2>1, <3>1 DEF BubblesInOrder
    <3>3. w \in shown' <=> w \in shown
      <4>1. CASE ReceiveMessage(f)
        BY <2>4, <4>1 DEF ReceiveMessage, Says
      <4>2. CASE ReceiveTyping(f)
        BY <2>4, <4>2 DEF ReceiveTyping, Says
      <4>3. CASE ReceiveContact(f)
        BY <4>3 DEF ReceiveContact
      <4>4. CASE ReceiveMove(f)
        BY <2>1, <4>4 DEF ReceiveMove, ApplyMove
      <4> QED BY <1>1, <4>1, <4>2, <4>3, <4>4
    <3> QED BY <1>1, <3>2, <3>3
  <2> QED BY <2>3, <2>4
<1> QED BY <1>5, <1>6 DEF BubblesInOrder

\* What is held when a move is applied was held before, where the move comes from.
LEMMA ReKeyedFacts ==
  ASSUME StoreTypes, NEW f, f.at \in WaIds, f.from \in WaIds, ReKeyMessages(f),
         \A w \in WaIds : ~ held[w].loaded => held[w].messages = {}
  PROVE  /\ \A w \in WaIds : ~ held'[w].loaded => held'[w].messages = {}
         /\ \A w \in WaIds : \A m \in held'[w].messages :
              \/ m \in held[w].messages /\ (w # f.from \/ w = f.at)
              \/ m \in held[f.from].messages /\ w = f.at
<1>1. PICK other : held' = ReKeyed(f, other)
  BY DEF ReKeyMessages
<1> SUFFICES ASSUME NEW w \in WaIds
             PROVE  /\ ~ held'[w].loaded => held'[w].messages = {}
                    /\ \A m \in held'[w].messages :
                         \/ m \in held[w].messages /\ (w # f.from \/ w = f.at)
                         \/ m \in held[f.from].messages /\ w = f.at
  OBVIOUS
<1>2. \/ w = f.at /\ held'[w] \in {held[f.from], held[f.at]}
      \/ w = f.from /\ held'[w] = NotLoaded
      \/ w # f.at /\ w # f.from /\ held'[w] = held[w]
  BY <1>1 DEF ReKeyed
<1> QED BY <1>2 DEF NotLoaded

\* What a frame does to the messages that are held.
LEMMA ReceiveMessages ==
  ASSUME ChatInv, Receive
  PROVE  MessagesArrive'
<1> DEFINE f == Head(frames)
<1>1. /\ frames # <<>> /\ frames' = Tail(frames)
      /\ ReceiveMessage(f) \/ ReceiveTyping(f) \/ ReceiveContact(f) \/ ReceiveMove(f)
      /\ UNCHANGED history
  BY DEF Receive, serverVars
<1>2. TypeOK /\ StoreTypes /\ MessagesArrive
  BY DEF ChatInv, IInv, TypeOK
<1>3. /\ 1 \in DOMAIN frames /\ f = frames[1] /\ f \in Frames
      /\ \A i \in DOMAIN frames' : i \in Nat /\ i + 1 \in DOMAIN frames /\ frames'[i] = frames[i + 1]
      /\ \A n \in DOMAIN frames' \cup {0} : \A w, v :
           Leads(frames, n + 1, w, v) => Leads(frames', n, w, v)
      /\ \A w, v : Leads(frames, 0, w, v) => Leads(frames', 0, Carried(f, w), v)
  BY <1>1, <1>2, HeadFacts
<1>4. f.at \in WaIds /\ (f.type = "moved" => f.from \in WaIds)
  BY <1>3 DEF Frames, Moves
<1> HIDE DEF f
<1>5. ASSUME NEW i \in DOMAIN frames' PROVE MessageOnItsWay(frames', i, history')
  <2>1. MessageOnItsWay(frames, i + 1, history) /\ frames'[i] = frames[i + 1]
    BY <1>2, <1>3 DEF MessagesArrive
  <2> QED BY <1>1, <1>3, <2>1 DEF MessageOnItsWay
<1>6. \A w \in WaIds : ~ held[w].loaded => held[w].messages = {}
  BY <1>2 DEF MessagesArrive
<1>7. ASSUME ~ astray'["messages"] PROVE ~ astray["messages"]
  <2>1. CASE ReceiveMove(f)
    <3>1. astray' = [astray EXCEPT !["typing"] = astray["typing"] \/ f.from \in shown,
                                   !["view"] = astray["view"] \/ (active = f.from /\ moved # NotMoved)]
      BY <2>1 DEF ReceiveMove
    <3>2. astray \in [Parts -> BOOLEAN] /\ "messages" \in Parts /\ "typing" # "messages" /\ "view" # "messages"
      BY <1>2 DEF TypeOK, ViewTypes, Parts
    <3>3. astray'["messages"] <=> astray["messages"]
      BY <3>1, <3>2, Zenon
    <3> QED BY <1>7, <3>3
  <2>2. CASE ~ ReceiveMove(f)
    BY <1>1, <1>7, <2>2 DEF ReceiveMessage, ReceiveTyping, ReceiveContact
  <2> QED BY <2>1, <2>2
<1>8. CASE ReceiveMessage(f)
  <2>1. /\ \A w \in WaIds : ~ held'[w].loaded => held'[w].messages = {}
        /\ \A w \in WaIds : \A m \in held'[w].messages :
             m \in held[w].messages \/ (w = f.at /\ m = f.about)
    <3>1. CASE held[f.at].loaded
      <4>1. held' = [held EXCEPT ![f.at].messages = held[f.at].messages \cup {f.about}]
        BY <1>8, <3>1 DEF ReceiveMessage
      <4>2. held \in [WaIds -> [loaded : BOOLEAN, messages : SUBSET Indices]]
        BY <1>2 DEF StoreTypes
      <4>3. /\ held'[f.at].loaded /\ held'[f.at].messages = held[f.at].messages \cup {f.about}
            /\ \A w \in WaIds \ {f.at} : held'[w] = held[w]
        BY <1>4, <3>1, <4>1, <4>2
      <4> QED BY <1>6, <4>3
    <3>2. CASE ~ held[f.at].loaded
      BY <1>6, <1>8, <3>2 DEF ReceiveMessage
    <3> QED BY <3>1, <3>2
  <2>2. Leads(frames, 0 + 1, f.at, history[f.about].contact)
    BY <1>2, <1>3, <1>8 DEF MessagesArrive, MessageOnItsWay, ReceiveMessage
  <2>3. Leads(frames', 0, f.at, history[f.about].contact)
    BY <1>3, <2>2
  <2>4. \A w : Carried(f, w) = w
    BY <1>8 DEF Carried, ReceiveMessage
  <2>5. ASSUME ~ astray'["messages"], NEW w \in WaIds, NEW m \in held'[w].messages
        PROVE  Leads(frames', 0, w, history'[m].contact)
    <3>1. CASE m \in held[w].messages
      <4>1. Leads(frames, 0, w, history[m].contact)
        BY <1>2, <1>7, <2>5, <3>1 DEF MessagesArrive
      <4> QED BY <1>1, <1>3, <2>4, <4>1
    <3>2. CASE w = f.at /\ m = f.about
      BY <1>1, <2>3, <3>2
    <3> QED BY <2>1, <3>1, <3>2
  <2> QED BY <1>5, <2>1, <2>5 DEF MessagesArrive
<1>9. CASE ReceiveTyping(f) \/ ReceiveContact(f)
  <2>1. UNCHANGED <<held, astray>> /\ \A w : Carried(f, w) = w
    BY <1>9 DEF Carried, ReceiveTyping, ReceiveContact
  <2> QED BY <1>1, <1>2, <1>3, <1>5, <2>1 DEF MessagesArrive
<1>10. CASE ReceiveMove(f)
  <2>1. f.type = "moved" /\ ReKeyMessages(f) /\ f.from \in WaIds
    BY <1>4, <1>10 DEF ReceiveMove, ApplyMove
  <2>2. /\ \A w \in WaIds : ~ held'[w].loaded => held'[w].messages = {}
        /\ \A w \in WaIds : \A m \in held'[w].messages :
             \/ m \in held[w].messages /\ (w # f.from \/ w = f.at)
             \/ m \in held[f.from].messages /\ w = f.at
    BY <1>2, <1>4, <1>6, <2>1, ReKeyedFacts
  <2>3. ASSUME ~ astray'["messages"], NEW w \in WaIds, NEW m \in held'[w].messages
        PROVE  Leads(frames', 0, w, history'[m].contact)
    <3>1. PICK u \in WaIds : m \in held[u].messages /\ Carried(f, u) = w
      <4>1. Carried(f, f.from) = f.at /\ (w # f.from \/ w = f.at => Carried(f, w) = w)
        BY <2>1 DEF Carried
      <4> QED BY <2>1, <2>2, <4>1
    <3>2. Leads(frames, 0, u, history[m].contact)
      BY <1>2, <1>7, <2>3, <3>1 DEF MessagesArrive
    <3> QED BY <1>1, <1>3, <3>1, <3>2
  <2> QED BY <1>5, <2>2, <2>3 DEF MessagesArrive
<1> QED BY <1>1, <1>8, <1>9, <1>10

\* What a frame does to the contacts, and to the conversation on screen.
LEMMA ReceivePeople ==
  ASSUME ChatInv, Receive
  PROVE  PeopleFound' /\ ViewInPlace'
<1> DEFINE f == Head(frames)
<1>1. /\ frames # <<>> /\ frames' = Tail(frames)
      /\ ReceiveMessage(f) \/ ReceiveTyping(f) \/ ReceiveContact(f) \/ ReceiveMove(f)
      /\ UNCHANGED <<contacts, route, picked>>
  BY DEF Receive, serverVars, viewVars
<1>2. TypeOK /\ StoreTypes /\ PeopleFound /\ ViewInPlace
  BY DEF ChatInv, IInv, TypeOK
<1>3. /\ 1 \in DOMAIN frames /\ f = frames[1] /\ f \in Frames
      /\ \A i \in DOMAIN frames' : i \in Nat /\ i + 1 \in DOMAIN frames /\ frames'[i] = frames[i + 1]
      /\ \A n \in DOMAIN frames' \cup {0} : \A w, v :
           Leads(frames, n + 1, w, v) => Leads(frames', n, w, v)
      /\ \A w, v : Leads(frames, 0, w, v) => Leads(frames', 0, Carried(f, w), v)
  BY <1>1, <1>2, HeadFacts
<1>4. f.at \in WaIds /\ (f.type = "moved" => f.from \in WaIds)
  BY <1>3 DEF Frames, Moves
<1> HIDE DEF f
<1>5. \A n \in DOMAIN frames' \cup {0} : \A w, p :
        Finds(frames, n + 1, w, p, contacts) => Finds(frames', n, w, p, contacts')
  BY <1>1, <1>3 DEF Finds
<1>6. \A w, p : Finds(frames, 0, w, p, contacts) => Finds(frames', 0, Carried(f, w), p, contacts')
  BY <1>1, <1>3 DEF Finds
<1>7. ASSUME NEW i \in DOMAIN frames' PROVE PersonOnTheWay(frames', i, contacts')
  <2>1. PersonOnTheWay(frames, i + 1, contacts) /\ frames'[i] = frames[i + 1]
    BY <1>2, <1>3 DEF PeopleFound
  <2> QED BY <1>5, <2>1 DEF PersonOnTheWay
<1>8. PersonOnTheWay(frames, 0 + 1, contacts)
  BY <1>2, <1>3 DEF PeopleFound
<1>9. f.type \in {"contact", "moved"} => Finds(frames', 0, f.at, f.about, contacts')
  BY <1>3, <1>5, <1>8 DEF PersonOnTheWay
<1>10. CASE ~ ReceiveMove(f)
  <2>1. UNCHANGED <<active, moved, astray>> /\ \A w : Carried(f, w) = w
    BY <1>1, <1>10 DEF Carried, ReceiveMessage, ReceiveTyping, ReceiveContact
  <2>2. known \in [WaIds -> People]
    BY <1>2 DEF StoreTypes
  <2>3. \A w \in WaIds : known'[w] = known[w]
           \/ (w = f.at /\ known'[w] = f.about /\ f.type = "contact")
    BY <1>1, <1>4, <1>10, <2>2 DEF ReceiveMessage, ReceiveTyping, ReceiveContact
  <2>4. PeopleFound'
    BY <1>2, <1>6, <1>7, <1>9, <2>1, <2>3 DEF PeopleFound
  <2>5. ViewInPlace'
    BY <1>1, <1>2, <1>6, <2>1 DEF ViewInPlace
  <2> QED BY <2>4, <2>5
<1>11. CASE ReceiveMove(f)
  <2>1. f.type = "moved" /\ f.from \in WaIds /\ MoveKnown(f) /\ MoveActive(f)
    BY <1>4, <1>11 DEF ReceiveMove, ApplyMove
  <2>2. astray' = [astray EXCEPT !["typing"] = astray["typing"] \/ f.from \in shown,
                                 !["view"] = astray["view"] \/ (active = f.from /\ moved # NotMoved)]
    BY <1>11 DEF ReceiveMove
  <2>3. /\ astray \in [Parts -> BOOLEAN] /\ "contacts" \in Parts /\ "view" \in Parts
        /\ "typing" # "contacts" /\ "view" # "contacts" /\ "typing" # "view"
    BY <1>2 DEF TypeOK, ViewTypes, Parts
  <2>4. /\ astray'["contacts"] <=> astray["contacts"]
        /\ astray'["view"] <=> astray["view"] \/ (active = f.from /\ moved # NotMoved)
    BY <2>2, <2>3, Zenon
  <2>5. known' = [known EXCEPT ![f.at] = f.about, ![f.from] = Nobody] /\ known \in [WaIds -> People]
    BY <1>2, <2>1 DEF MoveKnown, StoreTypes
  <2>6. PeopleFound'
    <3> SUFFICES ASSUME ~ astray'["contacts"], NEW w \in WaIds, known'[w] # Nobody
                 PROVE  Finds(frames', 0, w, known'[w], contacts')
      BY <1>7 DEF PeopleFound
    <3>1. w # f.from /\ Carried(f, w) = w
      BY <2>1, <2>5 DEF Carried
    <3>2. CASE w = f.at
      BY <1>9, <2>1, <2>5, <3>1, <3>2
    <3>3. CASE w # f.at
      <4>1. known'[w] = known[w]
        BY <2>5, <3>1, <3>3
      <4> QED BY <1>2, <1>6, <2>4, <3>1, <4>1 DEF PeopleFound
    <3> QED BY <3>2, <3>3
  <2>7. ViewInPlace'
    <3> SUFFICES ASSUME ~ astray'["view"], picked # Nobody
                 PROVE  /\ active' \in WaIds /\ Finds(frames', 0, active', picked, contacts')
                        /\ moved' = NotMoved => route = active'
                        /\ moved' # NotMoved => moved'.from = route /\ moved'.to = active'
      BY <1>1 DEF ViewInPlace
    <3>1. /\ active \in WaIds /\ Finds(frames, 0, active, picked, contacts)
          /\ moved = NotMoved => route = active
          /\ moved # NotMoved => moved.from = route /\ moved.to = active
      BY <1>2, <2>4 DEF ViewInPlace
    <3>2. Finds(frames', 0, Carried(f, active), picked, contacts')
      BY <1>6, <3>1
    <3>3. CASE active = f.from
      <4>1. moved = NotMoved
        BY <2>4, <3>3
      <4>2. active' = f.at /\ moved' = [from |-> f.from, to |-> f.at] /\ Carried(f, active) = f.at
        BY <2>1, <3>3 DEF MoveActive, Carried
      <4>3. moved' # NotMoved
        BY <2>1, <4>2, Constants DEF NotMoved
      <4> QED BY <1>4, <3>1, <3>2, <3>3, <4>1, <4>2, <4>3
    <3>4. CASE active # f.from
      BY <2>1, <3>1, <3>2, <3>4 DEF MoveActive, Carried
    <3> QED BY <3>3, <3>4
  <2> QED BY <2>6, <2>7
<1> QED BY <1>10, <1>11

\* A dialog applies a move that a frame applies as well.
LEMMA EchoView ==
  ASSUME ChatInv, NEW f \in echoes, Echo(f)
  PROVE  BubblesInOrder' /\ MessagesArrive' /\ PeopleFound' /\ ViewInPlace'
<1>1. /\ ReKeyMessages(f) /\ MoveKnown(f) /\ MoveActive(f)
      /\ shown' = IF f.from \in shown THEN (shown \ {f.from}) \cup {f.at} ELSE shown
      /\ UNCHANGED <<contacts, history, typing, frames>>
      /\ UNCHANGED <<route, picked>>
      /\ astray' = [astray EXCEPT !["typing"] = astray["typing"] \/ f.from \in shown,
                                  !["view"] = astray["view"] \/ active = f.from,
                                  !["contacts"] = astray["contacts"] \/ Outdated(f),
                                  !["messages"] = astray["messages"] \/ held[f.from].loaded]
  BY SameServer DEF Echo, ApplyMove, viewVars
<1>2. /\ TypeOK /\ StoreTypes /\ ViewTypes /\ echoes \subseteq Moves
      /\ BubblesInOrder /\ MessagesArrive /\ PeopleFound /\ ViewInPlace
  BY DEF ChatInv, IInv, TypeOK, WireTypes
<1>3. f.at \in WaIds /\ f.from \in WaIds
  BY <1>2 DEF Moves
<1>4. /\ astray'["typing"] <=> astray["typing"] \/ f.from \in shown
      /\ astray'["view"] <=> astray["view"] \/ active = f.from
      /\ astray'["contacts"] <=> astray["contacts"] \/ Outdated(f)
      /\ astray'["messages"] <=> astray["messages"] \/ held[f.from].loaded
  <2>1. /\ astray \in [Parts -> BOOLEAN]
        /\ "typing" \in Parts /\ "view" \in Parts /\ "contacts" \in Parts /\ "messages" \in Parts
        /\ "typing" # "view" /\ "typing" # "contacts" /\ "typing" # "messages"
        /\ "view" # "contacts" /\ "view" # "messages" /\ "contacts" # "messages"
    BY <1>2 DEF ViewTypes, Parts
  <2> QED BY <1>1, <2>1, Zenon
<1>5. BubblesInOrder'
  BY <1>1, <1>2, <1>4 DEF BubblesInOrder
<1>6. MessagesArrive'
  <2>1. \A w \in WaIds : ~ held[w].loaded => held[w].messages = {}
    BY <1>2 DEF MessagesArrive
  <2>2. /\ \A w \in WaIds : ~ held'[w].loaded => held'[w].messages = {}
        /\ \A w \in WaIds : \A m \in held'[w].messages :
             \/ m \in held[w].messages /\ (w # f.from \/ w = f.at)
             \/ m \in held[f.from].messages /\ w = f.at
    BY <1>1, <1>2, <1>3, <2>1, ReKeyedFacts
  <2>3. ASSUME ~ astray'["messages"], NEW w \in WaIds, NEW m \in held'[w].messages
        PROVE  Leads(frames', 0, w, history'[m].contact)
    <3>1. ~ astray["messages"] /\ held[f.from].messages = {}
      BY <1>3, <1>4, <2>1, <2>3
    <3>2. m \in held[w].messages
      BY <2>2, <3>1
    <3> QED BY <1>1, <1>2, <3>1, <3>2 DEF MessagesArrive
  <2> QED BY <1>1, <1>2, <2>2, <2>3 DEF MessagesArrive
<1>7. PeopleFound'
  <2> SUFFICES ASSUME ~ astray'["contacts"], NEW w \in WaIds, known'[w] # Nobody
               PROVE  Finds(frames', 0, w, known'[w], contacts')
    BY <1>1, <1>2 DEF PeopleFound
  <2>1. known' = [known EXCEPT ![f.at] = f.about, ![f.from] = Nobody] /\ known \in [WaIds -> People]
    BY <1>1, <1>2 DEF MoveKnown, StoreTypes
  <2>2. w # f.from
    BY <2>1
  <2>3. CASE w = f.at
    BY <1>1, <1>4, <2>1, <2>2, <2>3 DEF Outdated, Finds
  <2>4. CASE w # f.at
    BY <1>1, <1>2, <1>4, <2>1, <2>2, <2>4 DEF PeopleFound
  <2> QED BY <2>3, <2>4
<1>8. ViewInPlace'
  BY <1>1, <1>2, <1>4 DEF ViewInPlace, MoveActive
<1> QED BY <1>5, <1>6, <1>7, <1>8

\* A conversation is picked: the one of the person known under its name.
LEMMA NavigateView ==
  ASSUME ChatInv, NEW w \in WaIds \cup {None}, Navigate(w)
  PROVE  BubblesInOrder' /\ MessagesArrive' /\ PeopleFound' /\ ViewInPlace'
<1> DEFINE to == IF w = None THEN None ELSE Land(w)
<1>1. /\ UNCHANGED <<contacts, history, typing, frames>>
      /\ UNCHANGED <<known, held, shown>>
      /\ route' = to /\ active' = to /\ moved' = NotMoved
      /\ picked' = IF w = None THEN Nobody ELSE known[w]
      /\ astray' = [astray EXCEPT !["view"] = astray["contacts"] \/ (w # None /\ Land(w) # w)]
  BY SameServer DEF Navigate, Show, Opened
<1>2. /\ ViewTypes /\ BubblesInOrder /\ MessagesArrive /\ PeopleFound
  BY DEF ChatInv, IInv, TypeOK
<1>3. /\ astray'["view"] <=> astray["contacts"] \/ (w # None /\ Land(w) # w)
      /\ astray'["typing"] <=> astray["typing"]
      /\ astray'["contacts"] <=> astray["contacts"]
      /\ astray'["messages"] <=> astray["messages"]
  <2>1. /\ astray \in [Parts -> BOOLEAN]
        /\ "typing" \in Parts /\ "view" \in Parts /\ "contacts" \in Parts /\ "messages" \in Parts
        /\ "typing" # "view" /\ "view" # "contacts" /\ "view" # "messages"
    BY <1>2 DEF ViewTypes, Parts
  <2> QED BY <1>1, <2>1, Zenon
<1>4. BubblesInOrder'
  BY <1>1, <1>2, <1>3 DEF BubblesInOrder
<1>5. MessagesArrive'
  BY <1>1, <1>2, <1>3 DEF MessagesArrive
<1>6. PeopleFound'
  BY <1>1, <1>2, <1>3 DEF PeopleFound
<1>7. ViewInPlace'
  <2> SUFFICES ASSUME ~ astray'["view"], picked' # Nobody
               PROVE  active' \in WaIds /\ Finds(frames, 0, active', picked', contacts)
    BY <1>1 DEF ViewInPlace
  <2>1. w \in WaIds /\ picked' = known[w] /\ active' = w /\ ~ astray["contacts"]
    BY <1>1, <1>3
  <2> QED BY <1>2, <2>1 DEF PeopleFound
<1> QED BY <1>4, <1>5, <1>6, <1>7

\* A page arrives.
LEMMA PageLoadedView ==
  ASSUME ChatInv, PageLoaded
  PROVE  BubblesInOrder' /\ MessagesArrive' /\ PeopleFound' /\ ViewInPlace'
<1> DEFINE good == \A m \in page.answer : Leads(frames, 0, route, history[m].contact)
<1>1. /\ UNCHANGED <<contacts, history, typing, frames>>
      /\ UNCHANGED <<known, shown, active, moved, route, picked>>
      /\ held' = [held EXCEPT ![route] =
                    [loaded |-> TRUE, messages |-> held[route].messages \cup page.answer]]
      /\ astray' = IF good THEN astray ELSE [astray EXCEPT !["messages"] = TRUE]
  BY SameServer DEF PageLoaded, Led
<1>2. /\ StoreTypes /\ ViewTypes
      /\ BubblesInOrder /\ MessagesArrive /\ PeopleFound /\ ViewInPlace
  BY DEF ChatInv, IInv, TypeOK
<1>3. /\ ~ astray'["messages"] => ~ astray["messages"] /\ good
      /\ astray'["typing"] = astray["typing"]
      /\ astray'["view"] = astray["view"]
      /\ astray'["contacts"] = astray["contacts"]
  <2>1. astray \in [Parts -> BOOLEAN]
    BY <1>2 DEF ViewTypes
  <2>2. CASE good
    BY <1>1, <2>2
  <2>3. CASE ~ good
    <3>1. astray' = [astray EXCEPT !["messages"] = TRUE]
      BY <1>1, <2>3
    <3> QED BY <2>1, <3>1 DEF Parts
  <2> QED BY <2>2, <2>3
<1>4. BubblesInOrder'
  BY <1>1, <1>2, <1>3 DEF BubblesInOrder
<1>5. PeopleFound'
  BY <1>1, <1>2, <1>3 DEF PeopleFound
<1>6. ViewInPlace'
  BY <1>1, <1>2, <1>3 DEF ViewInPlace
<1>7. MessagesArrive'
  <2>1. \A w \in WaIds :
          IF w = route
          THEN held'[w].loaded /\ held'[w].messages = held[w].messages \cup page.answer
          ELSE held'[w] = held[w]
    BY <1>1, <1>2 DEF StoreTypes
  <2>2. \A w \in WaIds : ~ held'[w].loaded => held'[w].messages = {}
    BY <1>2, <2>1 DEF MessagesArrive
  <2>3. ASSUME ~ astray'["messages"], NEW w \in WaIds, NEW m \in held'[w].messages
        PROVE  Leads(frames', 0, w, history'[m].contact)
    <3>1. CASE m \in held[w].messages
      BY <1>1, <1>2, <1>3, <2>3, <3>1 DEF MessagesArrive
    <3>2. CASE m \notin held[w].messages
      <4>1. w = route /\ m \in page.answer
        BY <2>1, <2>3, <3>2
      <4> QED BY <1>1, <1>3, <2>3, <4>1
    <3> QED BY <3>1, <3>2
  <2> QED BY <1>1, <1>2, <2>2, <2>3 DEF MessagesArrive
<1> QED BY <1>4, <1>5, <1>6, <1>7

\* The indicators arrive: where no frame is still to say so, the answer says what the server says.
LEMMA IndicatorsLoadedView ==
  ASSUME ChatInv, IndicatorsLoaded
  PROVE  BubblesInOrder' /\ MessagesArrive' /\ PeopleFound' /\ ViewInPlace'
<1> DEFINE good == \A w \in WaIds : (w \in indicators.answer) = (w \in Up) \/ Pending(w)
<1>1. /\ UNCHANGED <<contacts, history, typing, frames>>
      /\ UNCHANGED <<known, held, active, moved, route, picked>>
      /\ shown' = indicators.answer
      /\ astray' = [astray EXCEPT !["typing"] = ~ good]
  <2>1. astray' = IF good THEN [astray EXCEPT !["typing"] = FALSE]
                  ELSE [astray EXCEPT !["typing"] = TRUE]
    BY DEF IndicatorsLoaded, Led
  <2>2. astray' = [astray EXCEPT !["typing"] = ~ good]
    <3> HIDE DEF good
    <3>1. CASE good
      <4>1. (~ good) = FALSE
        BY <3>1, Zenon
      <4> QED BY <2>1, <3>1, <4>1, Zenon
    <3>2. CASE ~ good
      <4>1. (~ good) = TRUE
        BY <3>2, Zenon
      <4> QED BY <2>1, <3>2, <4>1, Zenon
    <3> QED BY <3>1, <3>2
  <2> QED BY <2>2, SameServer DEF IndicatorsLoaded
<1>2. /\ ViewTypes /\ BubblesInOrder /\ MessagesArrive /\ PeopleFound /\ ViewInPlace
  BY DEF ChatInv, IInv, TypeOK
<1> HIDE DEF good
<1>3. /\ astray'["typing"] <=> ~ good
      /\ astray'["messages"] = astray["messages"]
      /\ astray'["view"] = astray["view"]
      /\ astray'["contacts"] = astray["contacts"]
  <2>1. /\ astray \in [Parts -> BOOLEAN]
        /\ "typing" \in Parts /\ "view" \in Parts /\ "contacts" \in Parts /\ "messages" \in Parts
        /\ "typing" # "view" /\ "typing" # "contacts" /\ "typing" # "messages"
    BY <1>2 DEF ViewTypes, Parts
  <2> QED BY <1>1, <2>1, Zenon
<1>4. MessagesArrive'
  BY <1>1, <1>2, <1>3 DEF MessagesArrive
<1>5. PeopleFound'
  BY <1>1, <1>2, <1>3 DEF PeopleFound
<1>6. ViewInPlace'
  BY <1>1, <1>2, <1>3 DEF ViewInPlace
<1>7. BubblesInOrder'
  <2>1. ASSUME good, NEW w \in WaIds, \A i \in DOMAIN frames : ~ Says(frames[i], w)
        PROVE  w \in shown' <=> typing[w] # 0
    <3>1. ~ Pending(w)
      BY <2>1 DEF Pending, Says
    <3>2. (w \in indicators.answer) = (w \in Up)
      BY <2>1, <3>1 DEF good
    <3> QED BY <1>1, <3>2 DEF Up
  <2> QED BY <1>1, <1>2, <1>3, <2>1 DEF BubblesInOrder
<1> QED BY <1>4, <1>5, <1>6, <1>7

-----------------------------------------------------------------------------
(* The view is right *)

LEMMA InitChat == Init => ChatInv
<1> SUFFICES ASSUME Init PROVE ChatInv
  OBVIOUS
<1>1. IInv
  BY InitInv
<1>2. /\ frames = <<>> /\ DOMAIN frames = {}
      /\ shown = {} /\ picked = Nobody
      /\ \A w \in WaIds : typing[w] = 0 /\ known[w] = Nobody /\ held[w] = NotLoaded
  BY DEF Init
<1>3. \A w \in WaIds : held[w].messages = {}
  BY <1>2 DEF NotLoaded
<1> QED BY <1>1, <1>2, <1>3
        DEF ChatInv, BubblesInOrder, MessagesArrive, PeopleFound, ViewInPlace

LEMMA StepChat == ChatInv /\ [Next]_vars => ChatInv'
<1> SUFFICES ASSUME ChatInv, [Next]_vars PROVE ChatInv'
  OBVIOUS
<1>1. IInv'
  BY StepInv DEF ChatInv
<1>2. TypeOK'
  BY <1>1 DEF IInv
<1> DEFINE View == BubblesInOrder /\ MessagesArrive /\ PeopleFound /\ ViewInPlace
<1> SUFFICES View'
  BY <1>1 DEF ChatInv
<1>3. ASSUME NEW w \in WaIds, Inbound(w) \/ InboundRefused(w) \/ Send(w) \/ UpdateContact(w)
      PROVE  View'
  <2>1. CASE Inbound(w)
    BY <1>2, <2>1, InboundView
  <2>2. CASE InboundRefused(w)
    BY <1>2, <2>2, FirstSeenView
  <2>3. CASE Send(w)
    BY <1>2, <2>3, SendView
  <2>4. CASE UpdateContact(w)
    BY <1>2, <2>4, UpdateContactView
  <2> QED BY <1>3, <2>1, <2>2, <2>3, <2>4
<1>4. CASE SendToUser
  <2>1. holder \in WaIds /\ Send(holder)
    BY <1>4 DEF SendToUser, ChatInv, IInv, TypeOK, ServerTypes
  <2> QED BY <1>2, <2>1, SendView
<1>5. ASSUME NEW w \in WaIds, NEW withUserId \in BOOLEAN, CreateContact(w, withUserId) PROVE View'
  BY <1>2, <1>5, FirstSeenView
<1>6. ASSUME NEW w \in WaIds, NEW v \in WaIds, NEW mine \in BOOLEAN, ChangeNumber(w, v, mine)
      PROVE  View'
  BY <1>2, <1>6, ChangeNumberView
<1>7. ASSUME NEW m \in Indices, StartTyping(m) PROVE View'
  BY <1>2, <1>7, StartTypingView
<1>8. ASSUME NEW t \in Dismissals, Expire(t) PROVE View'
  BY <1>2, <1>8, ExpireView
<1>9. CASE Receive
  BY <1>9, ReceiveBubbles, ReceiveMessages, ReceivePeople
<1>10. ASSUME NEW f \in echoes, Echo(f) PROVE View'
  BY <1>10, EchoView
<1>11. ASSUME NEW w \in WaIds \cup {None}, Navigate(w) PROVE View'
  BY <1>11, NavigateView
<1>12. CASE Leave \/ Follow \/ AnswerPage \/ AnswerIndicators \/ PageLoaded \/ IndicatorsLoaded
  <2>1. CASE Leave
    BY <2>1, LeaveView
  <2>2. CASE Follow
    BY <2>2, FollowView
  <2>3. CASE AnswerPage \/ AnswerIndicators
    BY <2>3, AnswerView
  <2>4. CASE PageLoaded
    BY <2>4, PageLoadedView
  <2>5. CASE IndicatorsLoaded
    BY <2>5, IndicatorsLoadedView
  <2> QED BY <1>12, <2>1, <2>2, <2>3, <2>4, <2>5
<1>13. CASE UNCHANGED vars
  <2>1. /\ UNCHANGED <<contacts, history, typing, frames>>
        /\ UNCHANGED <<known, held, shown, astray, picked, route, active, moved>>
    BY <1>13 DEF vars, serverVars, storeVars, viewVars
  <2>2. BubblesInOrder'
    BY <2>1 DEF ChatInv, BubblesInOrder
  <2>3. MessagesArrive'
    BY <2>1 DEF ChatInv, MessagesArrive
  <2>4. PeopleFound'
    BY <2>1 DEF ChatInv, PeopleFound
  <2>5. ViewInPlace'
    BY <2>1 DEF ChatInv, ViewInPlace
  <2> QED BY <2>2, <2>3, <2>4, <2>5
<1> HIDE DEF View
<1> QED BY <1>3, <1>4, <1>5, <1>6, <1>7, <1>8, <1>9, <1>10, <1>11, <1>12, <1>13 DEF Next

LEMMA ChatInvariance == Spec => []ChatInv
<1> QED BY InitChat, StepChat, PTL DEF Spec

\* Where nothing is on its way, what is said of the paths is said of the names.
LEMMA QuietFacts ==
  ASSUME ChatInv, Quiet
  PROVE  /\ DOMAIN frames = {}
         /\ \A w, v : Leads(frames, 0, w, v) => w = v
<1>1. frames \in Seq(Frames) /\ frames = <<>>
  BY WireFacts DEF ChatInv, IInv, Quiet
<1>2. Len(frames) = 0 /\ DOMAIN frames = {}
  BY <1>1
<1>3. ASSUME NEW w, NEW v, Leads(frames, 0, w, v) PROVE w = v
  <2>1. Leads(frames, Len(frames), w, v)
    BY <1>2, <1>3
  <2> QED BY <1>1, <2>1, LeadsNowhere
<1> QED BY <1>2, <1>3

\* Raises, dismissals by a message or a timer, and GET /api/typing in any order: when nothing
\* is on its way, the bubbles of the browser are the indicators of the server, unless a
\* number change re-keyed a bubble or a frame was quicker than the answer.
THEOREM BubblesAreTrue == Spec => []ShownTypingIsTrue
<1>1. ChatInv => ShownTypingIsTrue
  <2> SUFFICES ASSUME ChatInv, Quiet, ~ astray["typing"] PROVE shown = Up
    BY DEF ShownTypingIsTrue
  <2>1. \A w \in WaIds : w \in shown <=> typing[w] # 0
    BY QuietFacts DEF ChatInv, BubblesInOrder
  <2>2. shown \subseteq WaIds
    BY DEF ChatInv, IInv, TypeOK, StoreTypes
  <2> QED BY <2>1, <2>2 DEF Up
<1> QED BY <1>1, ChatInvariance, PTL

\* However people move and whoever takes over their numbers, the route and the open
\* conversation end up at the person who was picked, unless the view was led astray.
THEOREM ViewFollows == Spec => []ViewFollowsThePerson
<1>1. ChatInv => ViewFollowsThePerson
  <2> SUFFICES ASSUME ChatInv, Quiet, ~ astray["view"], picked # Nobody
               PROVE  route = active /\ contacts[route] = picked
    BY DEF ViewFollowsThePerson
  <2>1. /\ active \in WaIds /\ Finds(frames, 0, active, picked, contacts)
        /\ moved = NotMoved => route = active
        /\ moved # NotMoved => moved.from = route /\ moved.to = active
    BY DEF ChatInv, ViewInPlace
  <2>2. moved = NotMoved
    BY <2>1 DEF Quiet
  <2>3. contacts[active] = picked
    BY <2>1, QuietFacts DEF Finds
  <2> QED BY <2>1, <2>2, <2>3
<1> QED BY <1>1, ChatInvariance, PTL

\* A re-keyed history, frames that arrive before or after the move and pages merged into what
\* is there: nobody else's message stays in a conversation, unless it was led astray.
THEOREM MessagesOfOne == Spec => []NobodyElsesMessages
<1>1. ChatInv => NobodyElsesMessages
  <2> SUFFICES ASSUME ChatInv, Quiet, ~ astray["messages"], NEW w \in WaIds, NEW m \in held[w].messages
               PROVE  m \in MessagesOf(w)
    BY DEF NobodyElsesMessages
  <2>1. Leads(frames, 0, w, history[m].contact)
    BY DEF ChatInv, MessagesArrive
  <2>2. history[m].contact = w
    BY <2>1, QuietFacts
  <2>3. m \in Indices
    BY DEF ChatInv, IInv, TypeOK, StoreTypes
  <2> QED BY <2>2, <2>3 DEF MessagesOf
<1> QED BY <1>1, ChatInvariance, PTL

-----------------------------------------------------------------------------
(* The composer *)

\* A quote of a message of the same conversation, or no quote.
InPlace(r) == r.replyTo # Nothing => ChatOf[r.replyTo] = r.chat

\* The quotes on screen, on their way and stored.  A request is an upload, which quotes
\* nothing, or it was built from what was on screen when it was sent.
ComposerInv ==
  /\ replyTo # Nothing => ChatOf[replyTo] = chat
  /\ \A w \in waiting :
       /\ {"op", "request"} \subseteq DOMAIN w
       /\ w.op # "upload" => InPlace(w.request)
  /\ \A r \in stored : InPlace(r)

\* A request built from a quote in place is in place.
LEMMA QuotedInPlace ==
  ASSUME NEW c, NEW kind, NEW quoted, NEW media, NEW target,
         quoted # Nothing => ChatOf[quoted] = c
  PROVE  InPlace(Request(c, kind, quoted, media, target))
BY DEF InPlace, Request

\* A new request, with the view as it is.
LEMMA PostInPlace ==
  ASSUME ComposerInv, UNCHANGED stored,
         NEW op, NEW request, NEW message, Post(op, request, message),
         op # "upload" => InPlace(request),
         replyTo' # Nothing => ChatOf[replyTo'] = chat'
  PROVE  ComposerInv'
BY DEF ComposerInv, InPlace, Post

\* As far as quotes go, the same request.
SameRequest(w, v) ==
  DOMAIN w = DOMAIN v /\ w.op = v.op /\ w.request = v.request

\* No new request, and a quote that stays or goes.
LEMMA WaitingInPlace ==
  ASSUME ComposerInv, UNCHANGED <<stored, chat>>,
         replyTo' \in {replyTo, Nothing},
         \A w \in waiting' : \E v \in waiting : SameRequest(w, v)
  PROVE  ComposerInv'
BY DEF ComposerInv, InPlace, SameRequest

\* Answers and navigation change a waiting request, and neither its op nor its body.
LEMMA MovedRequest ==
  ASSUME ComposerInv, NEW w \in waiting, NEW v, NEW stage, NEW media, NEW parts,
         \/ v = w
         \/ v = [w EXCEPT !.stage = stage]
         \/ v = [w EXCEPT !.stage = stage, !.media = media]
         \/ v = [w EXCEPT !.hears = @ \ parts]
  PROVE  \E u \in waiting : SameRequest(v, u)
<1>1. SameRequest(v, w)
  BY DEF SameRequest, ComposerInv
<1> QED BY <1>1

\* One step per action.
LEMMA ComposerStep == ComposerInv /\ [ComposerNext]_composerVars => ComposerInv'
<1> SUFFICES ASSUME ComposerInv, [ComposerNext]_composerVars PROVE ComposerInv'
  OBVIOUS
<1> USE DEF formVars, pageVars, storedVars
<1>1. CASE Type \/ SetExtras \/ \E m \in Tabs : SwitchMode(m)
  BY <1>1, WaitingInPlace DEF SameRequest, Type, SetExtras, SwitchMode
<1>2. ASSUME NEW m \in Messages, Reply(m) \/ React(m) PROVE ComposerInv'
  BY <1>2 DEF ComposerInv, InPlace, Reply, React
<1>3. CASE ClearReply
  BY <1>3, WaitingInPlace DEF SameRequest, ClearReply
<1>4. CASE SendDraft
  <2>1. InPlace(Request(chat, draft.kind, replyTo, draft.media, draft.target))
    BY QuotedInPlace DEF ComposerInv
  <2> QED BY <1>4, <2>1, PostInPlace DEF SendDraft, ComposerInv
<1>5. CASE Upload
  BY <1>5, PostInPlace DEF Upload, ComposerInv
<1>6. ASSUME NEW m \in Messages, Tap(m) PROVE ComposerInv'
  <2>1. InPlace(Request(ChatOf[m], ButtonOf[m], m, Nothing, Nothing))
    BY QuotedInPlace
  <2> QED BY <1>6, <2>1, PostInPlace DEF Tap, ComposerInv
<1>7. ASSUME NEW w \in waiting, ReceivePost(w) PROVE ComposerInv'
  <2>1. \A v \in waiting' : \E u \in waiting : SameRequest(v, u)
    <3>1. PICK stage : waiting' = (waiting \ {w}) \cup {[w EXCEPT !.stage = stage]}
      BY <1>7 DEF ReceivePost, Move
    <3>2. \A v \in waiting' : v \in waiting \/ v = [w EXCEPT !.stage = stage]
      BY <3>1
    <3> QED BY <3>2, MovedRequest
  <2>2. /\ stored' = stored \/ (stored' = stored \cup {w.request} /\ w.op # "upload")
        /\ UNCHANGED <<chat, replyTo>>
    BY <1>7 DEF ReceivePost
  <2> QED BY <2>1, <2>2 DEF ComposerInv, InPlace, SameRequest
<1>8. ASSUME NEW w \in waiting, ReceiveUpload(w) \/ Lose(w) PROVE ComposerInv'
  <2>1. \A v \in waiting' : \E u \in waiting : SameRequest(v, u)
    <3>1. \A v \in waiting' :
            \/ v \in waiting
            \/ v = [w EXCEPT !.stage = "refused"]
            \/ \E m \in Media : v = [w EXCEPT !.stage = "accepted", !.media = m]
      BY <1>8 DEF ReceiveUpload, Lose, Move
    <3> QED BY <3>1, MovedRequest
  <2> QED BY <1>8, <2>1, WaitingInPlace DEF ReceiveUpload, Lose
<1>9. ASSUME NEW w \in waiting, Answer(w) PROVE ComposerInv'
  <2>1. \A v \in waiting' : \E u \in waiting : SameRequest(v, u)
    BY <1>9, MovedRequest DEF Answer, SendAccepted, SendRefused,
       UploadAccepted, UploadRefused, TapAnswered, Forget,
       ComposerInv
  <2> QED
    BY <1>9, <2>1, WaitingInPlace DEF Answer, SendAccepted,
       SendRefused, UploadAccepted, UploadRefused, TapAnswered
<1>10. ASSUME NEW c \in Chats, SwitchChat(c) PROVE ComposerInv'
  <2>1. \A v \in waiting' : \E u \in waiting : SameRequest(v, u)
    <3>1. \A v \in waiting' : \E w \in waiting : v = [w EXCEPT !.hears = @ \ {"bubble"}]
      BY <1>10 DEF SwitchChat, Outliving
    <3> QED BY <3>1, MovedRequest
  <2> QED BY <1>10, <2>1 DEF SwitchChat, Moved, ComposerInv, InPlace, SameRequest
<1>11. ASSUME NEW c \in Chats, OpenChat(c) PROVE ComposerInv'
  BY <1>11 DEF OpenChat, Moved, ComposerInv, InPlace
<1>12. ASSUME NEW parts, LeaveChat(parts) PROVE ComposerInv'
  <2>1. \A v \in waiting' : \E u \in waiting : SameRequest(v, u)
    <3>1. \A v \in waiting' : \E w \in waiting : v = [w EXCEPT !.hears = @ \ parts]
      BY <1>12 DEF LeaveChat, Outliving
    <3> QED BY <3>1, MovedRequest
  <2> QED BY <1>12, <2>1 DEF LeaveChat, Moved, ComposerInv, InPlace, SameRequest
<1>13. CASE UNCHANGED composerVars
  BY <1>13 DEF composerVars, ComposerInv, InPlace
<1> QED
  BY <1>1, <1>2, <1>3, <1>4, <1>5, <1>6, <1>7, <1>8, <1>9, <1>10, <1>11, <1>12, <1>13
  DEF ComposerNext

\* Whatever is typed, replied to, tapped, answered, lost or left while requests are out, a
\* stored message quotes a message of its own conversation: the reply is cleared by every
\* move to another conversation, and a request keeps the quote it was built with.
THEOREM QuotesStay == ComposerSpec => []QuotesStayInTheConversation
<1>1. ComposerInit => ComposerInv
  BY DEF ComposerInit, ComposerInv
<1>2. ComposerInv => QuotesStayInTheConversation
  BY DEF ComposerInv, InPlace, QuotesStayInTheConversation
<1> QED BY <1>1, <1>2, ComposerStep, PTL DEF ComposerSpec
=============================================================================
