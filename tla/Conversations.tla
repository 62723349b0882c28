---------------------------- MODULE Conversations ----------------------------
(***************************************************************************)
(* The people one business number talks to, and the chat view that shows   *)
(* them.  A conversation is no row of its own: it is named by the contact's *)
(* wa_id, so when a person moves to another number everything the client   *)
(* keys by conversation has to move too, while frames, requests and the    *)
(* echo of the move are still on their way.  Typing indicators live in the *)
(* server's memory, under the same name, each with a timer of its own.     *)
(*                                                                         *)
(* A person is a number given out when a contact row is first inserted; the *)
(* model follows people, the program only ever sees wa_ids.                *)
(***************************************************************************)
EXTENDS Naturals, Sequences, FiniteSets

CONSTANTS
  WaIds,         \* what contacts, and so conversations, are named by
  None,          \* no wa_id
  Away,          \* the route of the pages that are not the chat view
  MaxPeople,     \* bound: contacts ever inserted
  MaxMessages,   \* bound: messages
  MaxMoves,      \* bound: number changes
  MaxRaises,     \* bound: times an indicator is raised
  MaxVisits,     \* bound: times the developer navigates
  MaxFrames,     \* bound: frames on their way at once
  WithUserIds    \* bound: does a behaviour use the user id?

ASSUME ConversationsAssumption ==
  /\ None \notin WaIds \cup {Away} /\ Away \notin WaIds
  /\ {MaxPeople, MaxMessages, MaxMoves, MaxRaises, MaxVisits, MaxFrames} \subseteq Nat
  /\ WithUserIds \in BOOLEAN

Nobody == 0
People == 0 .. MaxPeople
Raises == 0 .. MaxRaises

VARIABLES
  contacts,      \* the person behind each wa_id, Nobody when there is no row
  people,        \* contact rows inserted so far
  holder,        \* the wa_id whose row carries the business-scoped user id
  owner,         \* history: the person it was given to
  history,       \* the messages: their contact_wa_id, direction, and (history) the person
  moves,         \* number changes so far
  typing,        \* the indicator of each conversation: which raise it is, 0 for none
  timers,        \* scheduled dismissals
  raises,        \* indicators raised so far
  frames         \* WebSocket frames on their way, in order

serverVars == <<contacts, people, holder, owner, history, moves, typing, timers, raises>>

VARIABLES
  known,         \* client: state.contacts
  held,          \* client: state.messages, by conversation
  shown,         \* client: state.typing, the conversations with a bubble
  active,        \* client: state.activeConversationId
  moved,         \* client: state.conversationMoved
  route,         \* client: the wa_id in the URL, None for the bare list, or Away
  visits,        \* navigations so far
  page,          \* client: GET /api/conversations/:id/messages for the route
  indicators,    \* client: GET /api/typing
  echoes,        \* client: answers of its own number changes, still on their way
  picked,        \* history: the person the developer picked, Nobody if not known
  astray         \* history: which parts of the view events have overtaken

storeVars == <<known, held, shown, active, moved>>
viewVars == <<route, visits, page, indicators, picked>>
vars == <<serverVars, frames, storeVars, viewVars, echoes, astray>>

Indices == DOMAIN history

NotLoaded == [loaded |-> FALSE, messages |-> {}]
NotMoved == [from |-> None, to |-> None]
Idle == [stage |-> "idle", answer |-> {}]
Sent == [stage |-> "sent", answer |-> {}]
Answered(answer) == [stage |-> "answered", answer |-> answer]

\* The parts of the view that something can lead astray.
Parts == {"typing", "view", "contacts", "messages"}

Frame(type, w, about, from) == [type |-> type, at |-> w, about |-> about, from |-> from]
MessageFrame(m, row) == Frame(IF row.out THEN "sent" ELSE "received", row.contact, m, None)
TypingFrame(w, up) == Frame(IF up THEN "typing" ELSE "quiet", w, 0, None)
ContactFrame(w, person) == Frame("contact", w, person, None)
MovedFrame(v, person, w) == Frame("moved", v, person, w)

Init ==
  /\ contacts = [w \in WaIds |-> Nobody] /\ people = 0
  /\ holder = None /\ owner = Nobody
  /\ history = <<>> /\ moves = 0
  /\ typing = [w \in WaIds |-> 0] /\ timers = {} /\ raises = 0
  /\ frames = <<>>
  /\ known = [w \in WaIds |-> Nobody]
  /\ held = [w \in WaIds |-> NotLoaded]
  /\ shown = {} /\ active = None /\ moved = NotMoved
  /\ route = None /\ visits = 0
  /\ page = Idle /\ indicators = Sent
  /\ echoes = {} /\ picked = Nobody
  /\ astray = [p \in Parts |-> FALSE]

-----------------------------------------------------------------------------
(* The server.  Every handler runs to its end before the next one starts.  *)

Publish(more) == frames' = frames \o more

\* The bound: no request while too many frames are on their way.
Room == Len(frames) < MaxFrames

\* A contact row for w, unless there is one.
Ensure(w) ==
  IF contacts[w] # Nobody
  THEN UNCHANGED <<contacts, people>>
  ELSE /\ people < MaxPeople
       /\ people' = people + 1
       /\ contacts' = [contacts EXCEPT ![w] = people']

Insert(w, out) ==
  /\ Len(history) < MaxMessages
  /\ history' = Append(history, [contact |-> w, person |-> contacts'[w], out |-> out])

\* The frame of a message just inserted, and of a contact seen for the first time.
Inserted == MessageFrame(Len(history'), history'[Len(history')])
FirstSeen(w) == IF contacts[w] = Nobody THEN <<ContactFrame(w, contacts'[w])>> ELSE <<>>

\* POST /api/inbound: the contact, then the message.
Inbound(w) ==
  /\ Room
  /\ Ensure(w)
  /\ Insert(w, FALSE)
  /\ Publish(FirstSeen(w) \o <<Inserted>>)
  /\ UNCHANGED <<holder, owner, moves, typing, timers, raises, storeVars, viewVars, echoes, astray>>

\* The media it names is not there, or is another number's: the contact stays.
InboundRefused(w) ==
  /\ Room
  /\ contacts[w] = Nobody
  /\ Ensure(w)
  /\ Publish(FirstSeen(w))
  /\ UNCHANGED <<holder, owner, history, moves, typing, timers, raises, storeVars, viewVars, echoes, astray>>

\* #drop(): the entry goes, and its timer with it.
Drop(w) ==
  /\ typing' = [typing EXCEPT ![w] = 0]
  /\ timers' = timers \ {<<w, typing[w]>>}

\* Mutant: the entry is looked for when it is gone.
DismissedUnsaid(w) == <<>>

\* clear() announces what there was, and nothing when there was none.
Dismissed(w) == IF typing[w] = 0 THEN <<>> ELSE <<TypingFrame(w, FALSE)>>

\* POST /{phoneNumberId}/messages: a contact it creates is not announced.  The message is,
\* and then the indicator it takes down.
Send(w) ==
  /\ Room
  /\ Ensure(w)
  /\ Insert(w, TRUE)
  /\ Drop(w)
  /\ Publish(<<Inserted>> \o Dismissed(w))
  /\ UNCHANGED <<holder, owner, moves, raises, storeVars, viewVars, echoes, astray>>

\* The same, addressed to a business-scoped user id; refused when nobody has it.
SendToUser == holder # None /\ Send(holder)

\* Mutant: the old timer is left armed.
StartTypingAgain(m) ==
  LET w == history[m].contact IN
  /\ Room /\ ~ history[m].out
  /\ raises < MaxRaises
  /\ raises' = raises + 1
  /\ typing' = [typing EXCEPT ![w] = raises']
  /\ timers' = timers \cup {<<w, raises'>>}
  /\ Publish(<<TypingFrame(w, TRUE)>>)
  /\ UNCHANGED <<contacts, people, holder, owner, history, moves, storeVars, viewVars, echoes, astray>>

\* A read receipt with a typing_indicator, for a message the number received.
StartTyping(m) ==
  LET w == history[m].contact IN
  /\ Room /\ ~ history[m].out
  /\ raises < MaxRaises
  /\ raises' = raises + 1
  /\ typing' = [typing EXCEPT ![w] = raises']
  /\ timers' = (timers \ {<<w, typing[w]>>}) \cup {<<w, raises'>>}
  /\ Publish(<<TypingFrame(w, TRUE)>>)
  /\ UNCHANGED <<contacts, people, holder, owner, history, moves, storeVars, viewVars, echoes, astray>>

\* 25 seconds are over.  A timer names a conversation, not the indicator it was made for.
Expire(t) ==
  /\ t \in timers
  /\ typing' = [typing EXCEPT ![t[1]] = 0]
  /\ timers' = timers \ {t, <<t[1], typing[t[1]]>>}
  /\ Publish(Dismissed(t[1]))
  /\ UNCHANGED <<contacts, people, holder, owner, history, moves, raises, storeVars, viewVars, echoes, astray>>

\* POST /api/contacts, with a user id or without one
CreateContact(w, withUserId) ==
  /\ Room
  /\ contacts[w] = Nobody
  /\ withUserId => WithUserIds /\ holder = None
  /\ Ensure(w)
  /\ IF withUserId THEN holder' = w /\ owner' = contacts'[w] ELSE UNCHANGED <<holder, owner>>
  /\ Publish(FirstSeen(w))
  /\ UNCHANGED <<history, moves, typing, timers, raises, storeVars, viewVars, echoes, astray>>

\* PATCH /api/contacts/:waId, giving the user id to a contact or taking it away
UpdateContact(w) ==
  /\ Room
  /\ contacts[w] # Nobody
  /\ WithUserIds
  /\ \/ holder = None /\ holder' = w /\ owner' = contacts[w]
     \/ holder = w /\ holder' = None /\ owner' = Nobody
  /\ Publish(<<ContactFrame(w, contacts[w])>>)
  /\ UNCHANGED <<contacts, people, history, moves, typing, timers, raises, storeVars, viewVars, echoes, astray>>

\* Mutant: the messages stay with the number.
MoveRowOnly(w, v) ==
  /\ contacts' = [contacts EXCEPT ![v] = contacts[w], ![w] = Nobody]
  /\ holder' = IF holder = w THEN v ELSE holder
  /\ UNCHANGED history

\* changeWaId(): the row, its user id and its messages, in one transaction.
MoveRows(w, v) ==
  /\ contacts' = [contacts EXCEPT ![v] = contacts[w], ![w] = Nobody]
  /\ holder' = IF holder = w THEN v ELSE holder
  /\ history' = [m \in Indices |->
                   IF history[m].contact = w THEN [history[m] EXCEPT !.contact = v] ELSE history[m]]

\* POST /api/contacts/:waId/change-number, from this client's dialog or from elsewhere.
\* The indicators stay where they are.
ChangeNumber(w, v, mine) ==
  /\ Room
  /\ contacts[w] # Nobody /\ contacts[v] = Nobody
  /\ moves < MaxMoves
  /\ moves' = moves + 1
  /\ MoveRows(w, v)
  /\ Publish(<<MovedFrame(v, contacts[w], w)>>)
  /\ echoes' = IF mine THEN echoes \cup {MovedFrame(v, contacts[w], w)} ELSE echoes
  /\ UNCHANGED <<people, owner, typing, timers, raises, storeVars, viewVars, astray>>

-----------------------------------------------------------------------------
(* The store: what a frame does to it.                                     *)

Led(part) == [astray EXCEPT ![part] = TRUE]

\* An empty store of messages for a conversation that has not been loaded ignores the frame.
ReceiveMessage(f) ==
  /\ f.type \in {"received", "sent"}
  /\ held' = IF held[f.at].loaded THEN [held EXCEPT ![f.at].messages = @ \cup {f.about}] ELSE held
  /\ shown' = IF f.type = "sent" THEN shown \ {f.at} ELSE shown
  /\ UNCHANGED <<known, active, moved, astray>>

ReceiveTyping(f) ==
  /\ f.type \in {"typing", "quiet"}
  /\ shown' = IF f.type = "typing" THEN shown \cup {f.at} ELSE shown \ {f.at}
  /\ UNCHANGED <<known, held, active, moved, astray>>

ReceiveContact(f) ==
  /\ f.type = "contact"
  /\ known' = [known EXCEPT ![f.at] = f.about]
  /\ UNCHANGED <<held, shown, active, moved, astray>>

\* Of two entries that end up under one key, the one listed last stays.
ReKeyed(f, other) ==
  [w \in WaIds |->
     CASE w = f.at -> IF held[f.from].loaded /\ other = f.from THEN held[f.from] ELSE held[f.at]
       [] w = f.from -> NotLoaded
       [] OTHER -> held[w]]

Collides(f) == held[f.from].loaded /\ held[f.at].loaded

\* Mutant: the histories keep their keys.
ReKeyNothing(f) == held' = held

ReKeyMessages(f) ==
  \E winner \in IF Collides(f) THEN {f.from, f.at} ELSE {f.from} : held' = ReKeyed(f, winner)

MoveKnown(f) == known' = [known EXCEPT ![f.at] = f.about, ![f.from] = Nobody]

\* Mutant: the note of where the conversation went is missing.
MoveActiveUnnoted(f) ==
  /\ active' = IF active = f.from THEN f.at ELSE active
  /\ UNCHANGED moved

MoveActive(f) ==
  IF active = f.from
  THEN active' = f.at /\ moved' = [from |-> f.from, to |-> f.at]
  ELSE UNCHANGED <<active, moved>>

\* withMovedContact()
ApplyMove(f) ==
  /\ MoveKnown(f)
  /\ ReKeyMessages(f)
  /\ shown' = IF f.from \in shown THEN (shown \ {f.from}) \cup {f.at} ELSE shown
  /\ MoveActive(f)

\* A bubble that is up moves to a conversation the server never heard of; a view that has
\* not followed an earlier move cannot follow this one.
ReceiveMove(f) ==
  /\ f.type = "moved"
  /\ ApplyMove(f)
  /\ astray' = [astray EXCEPT !["typing"] = @ \/ f.from \in shown,
                              !["view"] = @ \/ (active = f.from /\ moved # NotMoved)]

Receive ==
  /\ frames # <<>>
  /\ LET f == Head(frames) IN ReceiveMessage(f) \/ ReceiveTyping(f) \/ ReceiveContact(f) \/ ReceiveMove(f)
  /\ frames' = Tail(frames)
  /\ UNCHANGED <<serverVars, viewVars, echoes>>

\* The moves among the frames behind the n-th take what is kept for w to v.
Leads(fr, n, w, v) ==
  \E path \in [n .. Len(fr) -> WaIds] :
    /\ path[n] = w /\ path[Len(fr)] = v
    /\ \A i \in n + 1 .. Len(fr) :
         path[i] = IF fr[i].type = "moved" /\ fr[i].from = path[i - 1] THEN fr[i].at ELSE path[i - 1]

\* Is the person elsewhere than the moves that are still on their way will say?
Outdated(f) == ~ \E w \in WaIds : Leads(frames, 0, f.at, w) /\ contacts[w] = f.about

\* The dialog applies the move itself when its answer is there, after the frame or before it.
Echo(f) ==
  /\ f \in echoes
  /\ echoes' = echoes \ {f}
  /\ ApplyMove(f)
  /\ astray' = [astray EXCEPT !["typing"] = @ \/ f.from \in shown,
                              !["view"] = @ \/ active = f.from,
                              !["contacts"] = @ \/ Outdated(f),
                              !["messages"] = @ \/ held[f.from].loaded]
  /\ UNCHANGED <<serverVars, frames, viewVars>>

-----------------------------------------------------------------------------
(* The chat view.                                                          *)

\* "conversation/opened"
Opened(w) == active' = w /\ moved' = NotMoved

\* The effect on the route: the request of the last one is aborted.
Show(w) ==
  /\ route' = w
  /\ Opened(w)
  /\ page' = IF w = None THEN Idle ELSE Sent

\* The effect on a move runs in the same pass and still sees the move of before.
Land(w) == IF moved.from = w THEN moved.to ELSE w

\* A conversation of the list, a contact of the "New" dialog, or the bare list.  The page
\* asks for the indicators when it is mounted, and not again.
Navigate(w) ==
  /\ visits < MaxVisits /\ w # route
  /\ visits' = visits + 1
  /\ Show(IF w = None THEN None ELSE Land(w))
  /\ picked' = IF w = None THEN Nobody ELSE known[w]
  /\ indicators' = IF route = Away THEN Sent ELSE indicators
  /\ astray' = [astray EXCEPT !["view"] = astray["contacts"] \/ (w # None /\ Land(w) # w)]
  /\ UNCHANGED <<serverVars, frames, known, held, shown, echoes>>

\* To another page: the requests are aborted, and the store keeps its open conversation.
Leave ==
  /\ visits < MaxVisits /\ route # Away
  /\ visits' = visits + 1
  /\ route' = Away
  /\ page' = Idle /\ indicators' = Idle
  /\ picked' = Nobody
  /\ UNCHANGED <<serverVars, frames, storeVars, echoes, astray>>

\* The effect on a move: the view goes where the conversation went.
Follow ==
  /\ moved # NotMoved /\ moved.from = route
  /\ Show(moved.to)
  /\ UNCHANGED <<serverVars, frames, known, held, shown, visits, indicators, echoes, picked, astray>>

MessagesOf(w) == {m \in Indices : history[m].contact = w}
Up == {w \in WaIds : typing[w] # 0}

AnswerPage ==
  /\ page.stage = "sent"
  /\ page' = Answered(MessagesOf(route))
  /\ UNCHANGED <<serverVars, frames, storeVars, route, visits, indicators, picked, echoes, astray>>

AnswerIndicators ==
  /\ indicators.stage = "sent"
  /\ indicators' = Answered(Up)
  /\ UNCHANGED <<serverVars, frames, storeVars, route, visits, page, picked, echoes, astray>>

\* Is a frame on its way that says whether w has an indicator?
Pending(w) == \E i \in DOMAIN frames : frames[i].type \in {"typing", "quiet"} /\ frames[i].at = w

\* "messages/loaded": into what is there.  The messages may have moved on meanwhile.
PageLoaded ==
  /\ page.stage = "answered"
  /\ held' = [held EXCEPT ![route] = [loaded |-> TRUE, messages |-> @.messages \cup page.answer]]
  /\ page' = Idle
  /\ astray' = IF \A m \in page.answer : Leads(frames, 0, route, history[m].contact)
               THEN astray ELSE Led("messages")
  /\ UNCHANGED <<serverVars, frames, known, shown, active, moved, route, visits, indicators, picked, echoes>>

\* "typing/loaded": in place of what is there.  A frame may have been quicker.
IndicatorsLoaded ==
  /\ indicators.stage = "answered"
  /\ shown' = indicators.answer
  /\ indicators' = Idle
  /\ astray' = IF \A w \in WaIds : (w \in indicators.answer) = (w \in Up) \/ Pending(w)
               THEN [astray EXCEPT !["typing"] = FALSE] ELSE Led("typing")
  /\ UNCHANGED <<serverVars, frames, known, held, active, moved, route, visits, page, picked, echoes>>

-----------------------------------------------------------------------------
Dismissals == WaIds \X (Raises \ {0})

Next ==
  \/ \E w \in WaIds : Inbound(w) \/ InboundRefused(w) \/ Send(w) \/ UpdateContact(w)
  \/ SendToUser
  \/ \E w \in WaIds, withUserId \in BOOLEAN : CreateContact(w, withUserId)
  \/ \E w, v \in WaIds, mine \in BOOLEAN : ChangeNumber(w, v, mine)
  \/ \E m \in Indices : StartTyping(m)
  \/ \E t \in Dismissals : Expire(t)
  \/ Receive
  \/ \E f \in echoes : Echo(f)
  \/ \E w \in WaIds \cup {None} : Navigate(w)
  \/ Leave
  \/ Follow
  \/ AnswerPage
  \/ AnswerIndicators
  \/ PageLoaded
  \/ IndicatorsLoaded

\* Timers fire, frames arrive, requests are answered and effects run.
Fairness ==
  /\ \A t \in Dismissals : WF_vars(Expire(t))
  /\ WF_vars(Receive)
  /\ WF_vars(Follow)
  /\ WF_vars(AnswerIndicators) /\ WF_vars(IndicatorsLoaded)

Spec == Init /\ [][Next]_vars /\ Fairness

-----------------------------------------------------------------------------
(* Properties.                                                             *)

Rows == [contact : WaIds, person : People \ {Nobody}, out : BOOLEAN]
Moves == [type : {"moved"}, at : WaIds, about : People, from : WaIds]
Frames ==
  [type : {"received", "sent"}, at : WaIds, about : Indices, from : {None}] \cup
  [type : {"typing", "quiet"}, at : WaIds, about : {0}, from : {None}] \cup
  [type : {"contact"}, at : WaIds, about : People, from : {None}] \cup
  Moves
Fetches(answers) == [stage : {"idle", "sent", "answered"}, answer : SUBSET answers]

ServerTypes ==
  /\ contacts \in [WaIds -> People] /\ people \in People
  /\ holder \in WaIds \cup {None} /\ owner \in People
  /\ history \in Seq(Rows)
  /\ moves \in 0 .. MaxMoves
  /\ typing \in [WaIds -> Raises] /\ timers \subseteq Dismissals /\ raises \in Raises

WireTypes == frames \in Seq(Frames) /\ echoes \subseteq Moves

StoreTypes ==
  /\ known \in [WaIds -> People]
  /\ held \in [WaIds -> [loaded : BOOLEAN, messages : SUBSET Indices]]
  /\ shown \subseteq WaIds /\ active \in WaIds \cup {None}
  /\ moved \in [from : WaIds, to : WaIds] \cup {NotMoved}

ViewTypes ==
  /\ route \in WaIds \cup {None, Away} /\ visits \in 0 .. MaxVisits
  /\ page \in Fetches(Indices) /\ indicators \in Fetches(WaIds)
  /\ picked \in People /\ astray \in [Parts -> BOOLEAN]

\* Everything is of its type: frames speak of messages, people and wa_ids that there are.
TypeOK == ServerTypes /\ WireTypes /\ StoreTypes /\ ViewTypes

\* contact-service.ts (149-152): "The contact keeps its identity ... and takes its messages
\* with it".  Whatever moves, and whoever takes over a number that became free, a message
\* stays with the person it was exchanged with, and so does the business-scoped user id.
HistoryStaysWithThePerson ==
  /\ \A m \in Indices : contacts[history[m].contact] = history[m].person
  /\ holder = None <=> owner = Nobody
  /\ holder # None => contacts[holder] = owner

\* typing-service.ts (15-17): the dismissal is "replaced (never duplicated)": one timer for
\* each indicator that is up, so no timer of an earlier raise takes a later one down.
OneTimerPerIndicator == timers = {<<w, typing[w]>> : w \in Up}

\* No frame and no answer is on its way, and the view has followed.
Quiet ==
  /\ frames = <<>> /\ echoes = {}
  /\ page.stage = "idle" /\ indicators.stage = "idle"
  /\ ~ (moved # NotMoved /\ moved.from = route)

\* The bubbles on screen are the server's indicators, unless a number change re-keyed a
\* bubble the server has under the old name, or a frame was quicker than GET /api/typing.
ShownTypingIsTrue == Quiet /\ ~ astray["typing"] => shown = Up

\* chats-page.tsx (158-160): "the view follows".  The conversation on screen is the one of
\* the person who was picked, unless a second move came before the first was followed, the
\* dialog repeated a move, or a move of before a visit to another page was left over.
ViewFollowsThePerson ==
  Quiet /\ ~ astray["view"] /\ picked # Nobody =>
    /\ route = active
    /\ contacts[route] = picked

\* What is held under a conversation's name belongs to it, although names change hands,
\* unless a page was answered before a move and arrived after it, or a move was repeated.
NobodyElsesMessages ==
  Quiet /\ ~ astray["messages"] => \A w \in WaIds : held[w].messages \subseteq MessagesOf(w)

\* typing-bubble.tsx (6-8): nothing counts down in the browser, "the server dismisses the
\* indicator ... and says so over the socket": every bubble goes, or is one of the lost.
BubblesGo == \A w \in WaIds : (w \in shown) ~> (w \notin shown \/ astray["typing"])
==============================================================================
