------------------------------ MODULE Composer ------------------------------
(***************************************************************************)
(* The chat view's composer, with which a developer plays the user: a form *)
(* per message type, the reply and the reaction a message's menu sets, the *)
(* upload a media message needs first, and the taps on the buttons the app *)
(* under test sent.  Each of them posts to the control plane and goes on   *)
(* when the answer is there; meanwhile the form stays editable and the     *)
(* view may move to another conversation, with the same form in it.        *)
(***************************************************************************)
EXTENDS Naturals, FiniteSets

CONSTANTS
  Chats,         \* conversations, each between a number and a contact
  NumberOf,      \* the number of a conversation
  Messages,      \* messages the app under test sent, with buttons to tap
  ChatOf,        \* the conversation each of them is in
  ButtonOf,      \* what a tap on its buttons answers with
  Media,         \* ids for uploads
  Nothing,       \* no conversation, no message, no media
  Tabs,          \* bound: the tabs a behaviour uses
  MaxPosts,      \* bound: requests of one behaviour
  MaxWaiting     \* bound: requests waiting for their answer at once

\* A form for each type of inbound message.
Modes == {"text", "media", "location", "interactive", "button", "contacts", "reaction", "unsupported"}

ASSUME ComposerAssumption ==
  /\ Tabs \subseteq Modes
  /\ ChatOf \in [Messages -> Chats]
  /\ ButtonOf \in [Messages -> {"interactive", "button"}]
  /\ DOMAIN NumberOf = Chats
  /\ Nothing \notin Chats \cup Messages \cup Media
  /\ MaxPosts \in Nat /\ MaxWaiting \in Nat

VARIABLES
  chat,       \* the conversation on screen, Nothing for the empty pane
  mode,       \* the tab that is selected
  draft,      \* the form, which has a type of its own
  extras,     \* the context riders: is every mini-form that is on filled in?
  busy,       \* is its button disabled?
  replyTo,    \* the message the next one quotes
  reacting,   \* the message whose menu opened the reaction form
  tapped,     \* messages whose buttons are disabled
  waiting,    \* requests without an answer
  posts,      \* requests so far
  mediaOwner, \* server: the number each media object belongs to
  stored      \* server: what the inbound messages say

formVars == <<mode, draft, extras, busy>>
pageVars == <<chat, replyTo, reacting, tapped>>
storedVars == <<mediaOwner, stored>>
composerVars == <<formVars, pageVars, waiting, posts, storedVars>>

-----------------------------------------------------------------------------
(* Drafts.  "ready" is what the schema the server shares would say.        *)

Draft(kind, ready, media, target) ==
  [kind |-> kind, ready |-> ready, media |-> media, target |-> target]

Plain(kind, ready) == Draft(kind, ready, Nothing, Nothing)
MediaDraft(m) == Draft("media", m # Nothing, m, Nothing)
ReactionDraft(m) == Draft("reaction", m # Nothing, Nothing, m)

\* The form a tab opens on.  The blank coordinates are the number 0, the card is an example.
EmptyDraft(kind) == Plain(kind, kind \in {"location", "contacts", "unsupported"})

\* What typing can make of each form.  A caption or a filename does not make a media message.
TypedText == {Plain("text", r) : r \in BOOLEAN}
TypedMedia == {draft}
TypedLocation == {Plain("location", r) : r \in BOOLEAN}
TypedInteractive == {Plain("interactive", r) : r \in BOOLEAN}
TypedButton == {Plain("button", r) : r \in BOOLEAN}
TypedContacts == {Plain("contacts", r) : r \in BOOLEAN}
TypedReaction == {ReactionDraft(m) : m \in Messages \cup {Nothing}}

Typed ==
  CASE draft.kind = "text" -> TypedText
    [] draft.kind = "media" -> TypedMedia
    [] draft.kind = "location" -> TypedLocation
    [] draft.kind = "interactive" -> TypedInteractive
    [] draft.kind = "button" -> TypedButton
    [] draft.kind = "contacts" -> TypedContacts
    [] draft.kind = "reaction" -> TypedReaction
    [] draft.kind = "unsupported" -> {draft}

\* A rider's mini-form that is on with a required field blank makes the request invalid.
Builds == draft.ready /\ extras

\* The body of POST /api/inbound; a reaction names its message itself and quotes nothing.
Request(c, kind, quoted, media, target) ==
  [chat |-> c, kind |-> kind, media |-> media, target |-> target,
   replyTo |-> IF kind = "reaction" THEN Nothing ELSE quoted]

NoRequest == Request(Nothing, "text", Nothing, Nothing, Nothing)

-----------------------------------------------------------------------------
(* The form.                                                               *)

Type ==
  /\ chat # Nothing
  /\ draft' \in Typed \ {draft}
  /\ UNCHANGED <<mode, extras, busy, pageVars, waiting, posts, storedVars>>

\* The riders outlive a mode switch and a send.
SetExtras ==
  /\ chat # Nothing
  /\ extras' = ~ extras
  /\ UNCHANGED <<mode, draft, busy, pageVars, waiting, posts, storedVars>>

SwitchMode(next) ==
  /\ chat # Nothing
  /\ mode' = next
  /\ draft' = EmptyDraft(next)
  /\ reacting' = IF next = "reaction" THEN reacting ELSE Nothing
  /\ UNCHANGED <<extras, busy, chat, replyTo, tapped, waiting, posts, storedVars>>

-----------------------------------------------------------------------------
(* The menu of a message on screen.                                        *)

Reply(m) ==
  /\ ChatOf[m] = chat
  /\ replyTo' = m
  /\ UNCHANGED <<formVars, chat, reacting, tapped, waiting, posts, storedVars>>

ClearReply ==
  /\ replyTo # Nothing
  /\ replyTo' = Nothing
  /\ UNCHANGED <<formVars, chat, reacting, tapped, waiting, posts, storedVars>>

\* The effect that fills the form runs when the target changes, and only then.
React(m) ==
  /\ ChatOf[m] = chat /\ reacting # m
  /\ reacting' = m
  /\ mode' = "reaction"
  /\ draft' = ReactionDraft(m)
  /\ UNCHANGED <<extras, busy, chat, replyTo, tapped, waiting, posts, storedVars>>

-----------------------------------------------------------------------------
(* Requests.  One remembers which parts of the view were on screen when it *)
(* was sent: a part that is gone by the time of the answer hears nothing.  *)

PartsHearing(op) ==
  CASE op = "send" -> {"form", "page"} [] op = "upload" -> {"form"} [] op = "tap" -> {"bubble"}

Post(op, request, message) ==
  /\ posts < MaxPosts /\ Cardinality(waiting) < MaxWaiting
  /\ posts' = posts + 1
  /\ waiting' = waiting \cup {[nr |-> posts', op |-> op, request |-> request, message |-> message,
                              stage |-> "sent", media |-> Nothing,
                              next |-> EmptyDraft(IF op = "send" THEN mode ELSE "text"),
                              hears |-> PartsHearing(op)]}

\* An invalid draft never leaves the browser.  The button is disabled while the form is busy, the Enter
\* key of the text form is not.
SendDraft ==
  /\ chat # Nothing /\ Builds
  /\ busy => draft.kind = "text"
  /\ Post("send", Request(chat, draft.kind, replyTo, draft.media, draft.target), Nothing)
  /\ busy' = TRUE
  /\ UNCHANGED <<mode, draft, extras, pageVars, storedVars>>

\* Picking a file in the media form uploads it to the number of the conversation.
Upload ==
  /\ chat # Nothing /\ draft.kind = "media"
  /\ Post("upload", [NoRequest EXCEPT !.chat = chat], Nothing)
  /\ busy' = TRUE
  /\ UNCHANGED <<mode, draft, extras, pageVars, storedVars>>

\* A menu choice or a quick reply: the ref turns a second tap on the same bubble away.
Tap(m) ==
  /\ ChatOf[m] = chat /\ m \notin tapped
  /\ Post("tap", Request(ChatOf[m], ButtonOf[m], m, Nothing, Nothing), m)
  /\ tapped' = tapped \cup {m}
  /\ UNCHANGED <<formVars, chat, replyTo, reacting, storedVars>>

-----------------------------------------------------------------------------
(* The server.                                                             *)

\* The media has to exist, and to be the number's own.
AcceptsMedia(request) == request.kind = "media" => mediaOwner[request.media] = NumberOf[request.chat]

Move(w, stage) == waiting' = (waiting \ {w}) \cup {[w EXCEPT !.stage = stage]}

\* POST /api/inbound: stored, or refused before anything is.
ReceivePost(w) ==
  /\ w.stage = "sent" /\ w.op \in {"send", "tap"}
  /\ \/ AcceptsMedia(w.request) /\ Move(w, "accepted") /\ stored' = stored \cup {w.request}
     \/ ~ AcceptsMedia(w.request) /\ Move(w, "refused") /\ UNCHANGED stored
  /\ UNCHANGED <<formVars, pageVars, posts, mediaOwner>>

\* POST /api/inbound-media
ReceiveUpload(w) ==
  /\ w.stage = "sent" /\ w.op = "upload"
  /\ \E m \in Media :
       /\ mediaOwner[m] = Nothing
       /\ mediaOwner' = [mediaOwner EXCEPT ![m] = NumberOf[w.request.chat]]
       /\ waiting' = (waiting \ {w}) \cup {[w EXCEPT !.stage = "accepted", !.media = m]}
  /\ UNCHANGED <<formVars, pageVars, posts, stored>>

\* The connection fails: before the server saw the request, or after it had answered.
Lose(w) ==
  /\ w.stage \in {"sent", "accepted"}
  /\ Move(w, "refused")
  /\ UNCHANGED <<formVars, pageVars, posts, storedVars>>

-----------------------------------------------------------------------------
(* The answers.                                                            *)

Forget(w) == waiting' = waiting \ {w}

\* A send that was stored clears the form to the type it was sent from, whatever is in it now,
\* and takes the reply and the reaction with it.
SendAccepted(w) ==
  /\ w.op = "send" /\ w.stage = "accepted" /\ Forget(w)
  /\ draft' = IF "form" \in w.hears THEN w.next ELSE draft
  /\ busy' = IF "form" \in w.hears THEN FALSE ELSE busy
  /\ replyTo' = IF "page" \in w.hears THEN Nothing ELSE replyTo
  /\ reacting' = IF "page" \in w.hears THEN Nothing ELSE reacting
  /\ UNCHANGED <<mode, extras, chat, tapped, posts, storedVars>>

SendRefused(w) ==
  /\ w.op = "send" /\ w.stage = "refused" /\ Forget(w)
  /\ busy' = IF "form" \in w.hears THEN FALSE ELSE busy
  /\ UNCHANGED <<mode, draft, extras, pageVars, posts, storedVars>>

\* The upload opens the media form, whatever form it finds.
UploadAccepted(w) ==
  /\ w.op = "upload" /\ w.stage = "accepted" /\ Forget(w)
  /\ IF "form" \in w.hears
     THEN mode' = "media" /\ draft' = MediaDraft(w.media) /\ busy' = FALSE
     ELSE UNCHANGED <<mode, draft, busy>>
  /\ UNCHANGED <<extras, pageVars, posts, storedVars>>

\* Mutant: a refused upload leaves the button as it is.
UploadRefusedSilently(w) ==
  /\ w.op = "upload" /\ w.stage = "refused" /\ Forget(w)
  /\ UNCHANGED <<formVars, pageVars, posts, storedVars>>

UploadRefused(w) ==
  /\ w.op = "upload" /\ w.stage = "refused" /\ Forget(w)
  /\ busy' = IF "form" \in w.hears THEN FALSE ELSE busy
  /\ UNCHANGED <<mode, draft, extras, pageVars, posts, storedVars>>

TapAnswered(w) ==
  /\ w.op = "tap" /\ w.stage # "sent" /\ Forget(w)
  /\ tapped' = IF "bubble" \in w.hears THEN tapped \ {w.message} ELSE tapped
  /\ UNCHANGED <<formVars, chat, replyTo, reacting, posts, storedVars>>

Answer(w) ==
  SendAccepted(w) \/ SendRefused(w) \/ UploadAccepted(w) \/ UploadRefused(w) \/ TapAnswered(w)

-----------------------------------------------------------------------------
(* Navigation.                                                             *)

\* The requests that outlive a part of the view.
Outliving(parts) ==
  {[w EXCEPT !.hears = @ \ parts] : w \in waiting}

FreshForm ==
  /\ mode' = "text" /\ draft' = EmptyDraft("text")
  /\ extras' = TRUE /\ busy' = FALSE

\* Mutant: a message's menu is forgotten when the page closes, not when the conversation changes.
MovedKeepingReply(c) ==
  /\ chat' = c
  /\ reacting' = Nothing /\ tapped' = {}
  /\ UNCHANGED replyTo

\* The effect on the conversation's id, and the bubbles of another conversation.
Moved(c) ==
  /\ chat' = c
  /\ replyTo' = Nothing /\ reacting' = Nothing /\ tapped' = {}

\* From one conversation to another the form stays, with all that is in it.
SwitchChat(c) ==
  /\ chat # Nothing /\ c # chat
  /\ Moved(c)
  /\ waiting' = Outliving({"bubble"})
  /\ UNCHANGED <<formVars, posts, storedVars>>

OpenChat(c) ==
  /\ chat = Nothing
  /\ Moved(c) /\ FreshForm
  /\ UNCHANGED <<waiting, posts, storedVars>>

\* Back to the list of conversations, or to another page.
LeaveChat(parts) ==
  /\ chat # Nothing
  /\ Moved(Nothing) /\ FreshForm
  /\ waiting' = Outliving(parts)
  /\ UNCHANGED <<posts, storedVars>>

-----------------------------------------------------------------------------
ComposerInit ==
  /\ chat = Nothing /\ mode = "text" /\ draft = EmptyDraft("text") /\ extras = TRUE
  /\ busy = FALSE
  /\ replyTo = Nothing /\ reacting = Nothing /\ tapped = {}
  /\ waiting = {} /\ posts = 0
  /\ mediaOwner = [m \in Media |-> Nothing] /\ stored = {}

ComposerNext ==
  \/ Type
  \/ SetExtras
  \/ \E m \in Tabs : SwitchMode(m)
  \/ \E m \in Messages : Reply(m) \/ React(m)
  \/ ClearReply
  \/ SendDraft
  \/ Upload
  \/ \E m \in Messages : Tap(m)
  \/ \E w \in waiting : ReceivePost(w) \/ ReceiveUpload(w) \/ Lose(w) \/ Answer(w)
  \/ \E c \in Chats : SwitchChat(c) \/ OpenChat(c)
  \/ LeaveChat({"form", "bubble"})
  \/ LeaveChat({"form", "bubble", "page"})

\* Every request is answered or fails, and the answer's continuation runs.
ComposerFairness ==
  /\ WF_composerVars(\E w \in waiting : ReceivePost(w) \/ ReceiveUpload(w) \/ Lose(w))
  /\ WF_composerVars(\E w \in waiting : Answer(w))

ComposerSpec == ComposerInit /\ [][ComposerNext]_composerVars /\ ComposerFairness

-----------------------------------------------------------------------------
\* A message quotes a message of its own conversation: neither a reply chosen before the view
\* moved on, nor a form that stays open across conversations, nor the answer to a send of
\* another conversation leaves a quote that the next message carries into the wrong thread.
QuotesStayInTheConversation ==
  \A r \in stored : r.replyTo # Nothing => ChatOf[r.replyTo] = r.chat

\* composer.tsx: the form is disabled while a send or an upload is out.  It never stays so,
\* whatever answers come, fail or get lost, and whichever conversation they find on screen.
BusyEnds == busy ~> ~ busy

=============================================================================
