----------------------------- MODULE ClientStore -----------------------------
(***************************************************************************)
(* The web client's store, for one conversation on screen: the messages    *)
(* and the conversation list.  REST answers seed both, WebSocket frames    *)
(* keep them current, nothing polls.  The frames arrive in order, but an   *)
(* answer travels on a connection of its own and is overtaken by frames,   *)
(* and the socket can be down for a while.                                 *)
(*                                                                         *)
(* A message is the number of its creation, its status a rank on the       *)
(* ladder, 0 for a message that is not there.  The server moves it forward *)
(* (module StatusLadder) until a reset, an import or the deletion of the   *)
(* number takes it.                                                        *)
(***************************************************************************)
EXTENDS Naturals, Sequences

CONSTANTS
  Messages,        \* how many messages the conversation gets
  Rungs,           \* the highest status rank
  Files,           \* what the files hold that there are to import: a status for each message
  MaxDisruptions,  \* bound: resets, deletions, imports, their announcements, drops
  MaxFrames        \* bound: frames on their way at once

Ids == 1 .. Messages
Statuses == [Ids -> 0 .. Rungs]

ASSUME ClientAssumption ==
  /\ Messages \in Nat \ {0}
  /\ Rungs \in Nat \ {0}
  /\ Files \subseteq Statuses
  /\ {MaxDisruptions, MaxFrames} \subseteq Nat

VARIABLES
  server,      \* the messages in the database, with their status
  created,     \* messages created so far
  alive,       \* is the business number there?
  wipes,       \* resets, deletions, imports and their announcements so far
  imports,     \* imports that have replaced the database and are not over
  subscribed,  \* is the socket open?
  frames,      \* WebSocket frames on their way
  drops,       \* times the socket dropped
  view,        \* is the conversation "open" on screen, or is another page?
  fetch,       \* the two requests of the chat view
  messages,    \* state.messages[id], and whether it is there at all
  preview,     \* state.conversations, reduced to this conversation's lastMessage
  behind,      \* history: has something passed this part of the store by?
  ghosts       \* history: the messages that the client keeps although they were taken

vars == <<server, created, alive, wipes, imports, subscribed, frames, drops, view, fetch, messages, preview,
          behind, ghosts>>
serverVars == <<server, created, alive, wipes, imports>>
socketVars == <<subscribed, frames, drops>>
storeVars == <<messages, preview>>

Nobody == [m \in Ids |-> 0]

\* A message has a status only once it was created.
Known(status) == \A m \in Ids : m > created => status[m] = 0

\* GET /api/conversations/:id/messages and GET /api/conversations
Requests == {"messages", "preview"}

NotLoaded == [loaded |-> FALSE, status |-> Nobody]
NoPreview == [loaded |-> FALSE, last |-> 0, status |-> 0]
NoFetch == [stage |-> "idle", answer |-> Nobody, world |-> 0]
Sent == [stage |-> "sent", answer |-> Nobody, world |-> 0]

\* The newest message of an answer, 0 when the conversation has none.
Newest(answer) ==
  CHOOSE n \in 0 .. Messages :
    /\ n # 0 => answer[n] # 0
    /\ \A m \in Ids : answer[m] # 0 => m <= n

Init ==
  /\ server = Nobody /\ created = 0 /\ alive = TRUE /\ wipes = 0 /\ imports = 0
  /\ subscribed = TRUE /\ frames = <<>> /\ drops = 0
  /\ view = "elsewhere"
  /\ fetch = [r \in Requests |-> NoFetch]
  /\ messages = NotLoaded
  /\ preview = NoPreview
  /\ behind = [r \in Requests |-> FALSE]
  /\ ghosts = {}

\* Frames after which nothing that was there before is: a reset or an import, and the
\* deletion of the number or of its account.  They take what was created before.
Ends(f) == f.type \in {"wiped", "deleted"}
Takes(f, m) == Ends(f) /\ m <= f.message

\* Is message m in an answer, or in one of the frames fs?
OnItsWay(m, fs) ==
  \/ fetch["messages"].stage = "answered" /\ fetch["messages"].answer[m] # 0
  \/ \E i \in DOMAIN fs : ~ Ends(fs[i]) /\ fs[i].message = m

Holds(m, fs) == messages.status[m] # 0 \/ OnItsWay(m, fs)

-----------------------------------------------------------------------------
(* The server.                                                             *)

Room == Len(frames) < MaxFrames

\* publish(): the frame goes to the sockets that are open, and to nobody else.
Publish(frame) ==
  /\ Room
  /\ frames' = IF subscribed THEN Append(frames, frame) ELSE frames
  /\ behind' = [r \in Requests |-> behind[r] \/ ~subscribed]
  /\ ghosts' = ghosts \cup {m \in Ids : ~subscribed /\ Takes(frame, m) /\ Holds(m, frames)}
  /\ UNCHANGED <<subscribed, drops, view, fetch, storeVars>>

Frame(type, m, status) == [type |-> type, message |-> m, status |-> status, world |-> wipes']

\* A send or an inbound message: "message.created"
CreateMessage ==
  /\ alive
  /\ created < Messages
  /\ created' = created + 1
  /\ server' = [server EXCEPT ![created'] = 1]
  /\ UNCHANGED <<alive, wipes, imports>>
  /\ Publish(Frame("created", created', 1))

\* "message.status_changed"
ChangeStatus(m) ==
  /\ server[m] \in 1 .. Rungs - 1
  /\ server' = [server EXCEPT ![m] = @ + 1]
  /\ UNCHANGED <<created, alive, wipes, imports>>
  /\ Publish(Frame("status", m, server'[m]))

CanDisrupt == wipes + drops < MaxDisruptions

\* The messages go, and another world begins.
Begin(content) ==
  /\ wipes' = wipes + 1
  /\ server' = content
  /\ UNCHANGED created

\* The second half of a reset: from the first row to "state.reset" nothing waits.  The
\* number survives; one that does not is deleted next, or created next.
Wipe ==
  /\ CanDisrupt
  /\ Begin(Nobody)
  /\ UNCHANGED <<alive, imports>>
  /\ Publish(Frame("wiped", created, 0))

\* DELETE of the number: the rows of its messages cascade.  An account goes number by
\* number.
DeleteNumber ==
  /\ CanDisrupt
  /\ alive /\ alive' = FALSE
  /\ Begin(Nobody)
  /\ UNCHANGED imports
  /\ Publish(Frame("deleted", created, 0))

\* POST of a number under the same explicit id.  Its frame changes the snapshot and nothing
\* of this (module Console).
RecreateNumber ==
  /\ ~ alive /\ alive' = TRUE
  /\ UNCHANGED <<server, created, wipes, imports, socketVars, view, fetch, storeVars, behind, ghosts>>

\* The first half of an import: the number and its messages are those of a file, each as it
\* once stood here or on another server.  Nobody is told yet.
Import(content) ==
  /\ CanDisrupt
  /\ alive' \in BOOLEAN /\ (content # Nobody => alive')
  /\ Begin(content)
  /\ imports' = imports + 1
  /\ behind' = [r \in Requests |-> TRUE]
  /\ ghosts' = ghosts \cup {m \in Ids : Holds(m, frames)}
  /\ UNCHANGED <<socketVars, view, fetch, storeVars>>

\* The second half, when the objects are written: "state.imported".  What it took is noted.
AnnounceImport ==
  /\ CanDisrupt
  /\ imports > 0 /\ imports' = imports - 1
  /\ Begin(server)
  /\ UNCHANGED alive
  /\ Publish(Frame("wiped", 0, 0))

\* Or a put throws, and nobody is ever told.
FailImport ==
  /\ imports > 0 /\ imports' = imports - 1
  /\ UNCHANGED <<server, created, alive, wipes, socketVars, view, fetch, storeVars, behind, ghosts>>

\* Are frames of messages on their way that an import has replaced since?
Overtaken ==
  \E i \in DOMAIN frames :
    /\ ~ Ends(frames[i]) /\ frames[i].world < wipes
    /\ \A j \in DOMAIN frames : i < j => ~ Ends(frames[j])

\* The handler of a request reads the database.  A number that is gone has no messages.
Answer(r) ==
  /\ fetch[r].stage = "sent"
  /\ fetch' = [fetch EXCEPT ![r] = [stage |-> "answered", answer |-> server, world |-> wipes]]
  /\ behind' = [behind EXCEPT ![r] = Overtaken]
  /\ UNCHANGED <<serverVars, socketVars, view, storeVars, ghosts>>

-----------------------------------------------------------------------------
(* The view.                                                               *)

\* The two effects of the chat page run when it is mounted, and not again while the
\* number and the conversation stay the same.
OpenConversation ==
  /\ view = "elsewhere"
  /\ view' = "open"
  /\ fetch' = [r \in Requests |-> Sent]
  /\ UNCHANGED <<serverVars, socketVars, storeVars, behind, ghosts>>

\* Their cleanup aborts what is in flight; the store keeps what it has.
LeaveConversation ==
  /\ view = "open"
  /\ view' = "elsewhere"
  /\ fetch' = [r \in Requests |-> NoFetch]
  /\ UNCHANGED <<serverVars, socketVars, storeVars, behind, ghosts>>

\* Another number is selected: by hand, or because a snapshot that was read again after a
\* reconnect lacks this one.  The list of conversations goes, the messages stay.
SelectAnother ==
  /\ view' = "elsewhere"
  /\ fetch' = [r \in Requests |-> NoFetch]
  /\ preview' = NoPreview
  /\ UNCHANGED <<serverVars, socketVars, messages, behind, ghosts>>

-----------------------------------------------------------------------------
(* The reducer.                                                            *)

\* Mutant: the last one wins.
ReplaceStatus(current, incoming) == incoming

\* insertMessage(), with mergeStatus(): a status never moves backwards.
MergeStatus(current, incoming) == IF incoming < current THEN current ELSE incoming

\* Mutant: the first page replaces what is there.
MessagesLoadedAnew ==
  LET f == fetch["messages"] IN
  /\ f.stage = "answered"
  /\ messages' = [loaded |-> TRUE, status |-> f.answer]
  /\ fetch' = [fetch EXCEPT !["messages"] = NoFetch]
  /\ UNCHANGED <<serverVars, socketVars, view, preview, behind, ghosts>>

\* "messages/loaded" merges into what is there.
MessagesLoaded ==
  LET f == fetch["messages"] IN
  /\ f.stage = "answered"
  /\ messages' = [loaded |-> TRUE,
                  status |-> [m \in Ids |-> MergeStatus(messages.status[m], f.answer[m])]]
  /\ fetch' = [fetch EXCEPT !["messages"] = NoFetch]
  /\ UNCHANGED <<serverVars, socketVars, view, preview, behind, ghosts>>

\* "conversations/loaded" replaces what is there.
ConversationsLoaded ==
  LET f == fetch["preview"]
      n == Newest(f.answer) IN
  /\ f.stage = "answered"
  /\ preview' = [loaded |-> TRUE, last |-> n, status |-> IF n = 0 THEN 0 ELSE f.answer[n]]
  /\ fetch' = [fetch EXCEPT !["preview"] = NoFetch]
  /\ UNCHANGED <<serverVars, socketVars, view, messages, behind, ghosts>>

\* upsertMessage(): a conversation that has not been loaded ignores the frame.
UpsertMessage(f) ==
  messages' = IF messages.loaded
              THEN [messages EXCEPT !.status[f.message] = MergeStatus(@, f.status)]
              ELSE messages

\* withConversationOf(): a new message becomes the preview, a status refreshes its own.
WithConversationOf(f) ==
  preview' = IF preview.loaded /\ (f.type = "created" \/ preview.last = f.message)
             THEN [preview EXCEPT !.last = f.message, !.status = f.status]
             ELSE preview

\* What frame f tells and the answer in flight does not will be missing: from the
\* messages when there is nothing to merge into, from the preview in any case.
PassesBy(r, f) ==
  /\ fetch[r].stage = "answered"
  /\ fetch[r].answer[f.message] < f.status
  /\ r = "messages" => ~messages.loaded

ReceiveMessage ==
  /\ frames # <<>> /\ Head(frames).type \in {"created", "status"}
  /\ UpsertMessage(Head(frames))
  /\ WithConversationOf(Head(frames))
  /\ behind' = [r \in Requests |-> behind[r] \/ PassesBy(r, Head(frames))]
  /\ frames' = Tail(frames)
  /\ UNCHANGED <<serverVars, subscribed, drops, view, fetch, ghosts>>

\* Mutant: the messages are not among what is forgotten.
ForgetPreview == preview' = NoPreview /\ UNCHANGED messages

Forget == preview' = NoPreview /\ messages' = NotLoaded

\* The store forgets everything; the chat page, if it is on screen, does not ask again.  An
\* answer of the world before is still to come, and so are frames of one.
ReceiveWipe ==
  /\ frames # <<>> /\ Head(frames).type = "wiped"
  /\ LET Late(r) == fetch[r].stage = "answered" /\ fetch[r].world < Head(frames).world IN
       /\ behind' = [r \in Requests |->
                       behind[r] \/ Late(r) \/ (view = "open" /\ fetch[r].stage = "idle")]
       /\ ghosts' = {m \in Ids : /\ OnItsWay(m, Tail(frames))
                                 /\ m \in ghosts \/ (Late("messages") /\ Takes(Head(frames), m))}
  /\ Forget
  /\ frames' = Tail(frames)
  /\ UNCHANGED <<serverVars, subscribed, drops, view, fetch>>

\* withServer(): the number is not selected any more, so its page is left and the list of
\* conversations goes.  state.messages stays as it is.
ReceiveDeletion ==
  /\ frames # <<>> /\ Head(frames).type = "deleted"
  /\ ghosts' = ghosts \cup {m \in Ids : Takes(Head(frames), m) /\ messages.status[m] # 0}
  /\ view' = "elsewhere"
  /\ fetch' = [r \in Requests |-> NoFetch]
  /\ preview' = NoPreview
  /\ frames' = Tail(frames)
  /\ UNCHANGED <<serverVars, subscribed, drops, messages, behind>>

-----------------------------------------------------------------------------
(* The socket.                                                             *)

Drop ==
  /\ subscribed
  /\ CanDisrupt
  /\ drops' = drops + 1
  /\ subscribed' = FALSE
  /\ frames' = <<>>
  /\ behind' = [r \in Requests |-> behind[r] \/ frames # <<>>]
  /\ ghosts' = ghosts \cup {m \in Ids : /\ \E i \in DOMAIN frames : Takes(frames[i], m)
                                       /\ Holds(m, <<>>)}
  /\ UNCHANGED <<serverVars, view, fetch, storeVars>>

\* The store re-reads GET /api/state (accounts and numbers), and nothing of this.
Reconnect ==
  /\ ~subscribed
  /\ subscribed' = TRUE
  /\ UNCHANGED <<serverVars, frames, drops, view, fetch, storeVars, behind, ghosts>>

Next ==
  \/ CreateMessage
  \/ \E m \in Ids : ChangeStatus(m)
  \/ Wipe
  \/ DeleteNumber
  \/ RecreateNumber
  \/ \E content \in Files : Known(content) /\ Import(content)
  \/ AnnounceImport
  \/ FailImport
  \/ \E r \in Requests : Answer(r)
  \/ OpenConversation
  \/ LeaveConversation
  \/ SelectAnother
  \/ MessagesLoaded
  \/ ConversationsLoaded
  \/ ReceiveMessage
  \/ ReceiveWipe
  \/ ReceiveDeletion
  \/ Drop
  \/ Reconnect

Spec == Init /\ [][Next]_vars

-----------------------------------------------------------------------------
(* Properties.                                                             *)

Frames ==
  [type : {"created", "status"}, message : 1 .. created, status : 1 .. Rungs, world : Nat] \cup
  [type : {"wiped", "deleted"}, message : 0 .. created, status : {0}, world : Nat]

\* Everything is of its type, and nothing is held or on its way of a message to come.
TypeOK ==
  /\ server \in Statuses /\ Known(server)
  /\ created \in 0 .. Messages
  /\ alive \in BOOLEAN /\ wipes \in Nat /\ imports \in 0 .. wipes /\ drops \in Nat
  /\ subscribed \in BOOLEAN
  /\ frames \in Seq(Frames) /\ (~ subscribed => frames = <<>>)
  /\ view \in {"open", "elsewhere"}
  /\ fetch \in [Requests -> [stage : {"idle", "sent", "answered"}, answer : Statuses, world : Nat]]
  /\ \A r \in Requests : Known(fetch[r].answer)
  /\ messages \in [loaded : BOOLEAN, status : Statuses] /\ Known(messages.status)
  /\ ~ messages.loaded => messages = NotLoaded
  /\ preview \in [loaded : BOOLEAN, last : 0 .. created, status : 0 .. Rungs]
  /\ behind \in [Requests -> BOOLEAN] /\ ghosts \subseteq Ids

\* reducer.ts (24-27): while a conversation is held, no message of it loses ground or
\* disappears, however frames and answers overtake each other.
NeverBackwards ==
  [][messages.loaded /\ messages'.loaded =>
       \A m \in Ids : messages'.status[m] >= messages.status[m]]_vars

\* The client shows nothing that is not true: a message on screen is in the database,
\* with this status or a later one, until the frame that takes it is on its way.  Only an
\* answer that a wipe overtook, a wipe that was missed, the deletion of the number and an
\* import leave ghosts, and only of the messages that were there by then.
NothingInvented ==
  \A m \in Ids \ ghosts :
    \/ messages.status[m] <= server[m]
    \/ \E i \in DOMAIN frames : Takes(frames[i], m)

\* Nothing is on its way that could still change the page.
Settled ==
  /\ view = "open"
  /\ subscribed
  /\ frames = <<>>
  /\ \A r \in Requests : fetch[r].stage = "idle"

\* Once all is quiet, the screen is the database's, message by message: the conversation,
\* but for ghosts, unless a frame met an older first page in flight, the socket was down, a
\* wipe found the page open, or an import has not been announced; and the preview in the
\* conversation list, the newest message in its latest status, although frames may have set
\* it back for a while.
SettledScreenIsCurrent ==
  Settled =>
    /\ ~behind["messages"] =>
         messages.loaded /\ \A m \in Ids \ ghosts : messages.status[m] = server[m]
    /\ ~behind["preview"] =>
         /\ preview.loaded
         /\ preview.last = Newest(server)
         /\ preview.last # 0 => preview.status = server[preview.last]
==============================================================================
