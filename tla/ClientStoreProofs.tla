-------------------------- MODULE ClientStoreProofs --------------------------
(***************************************************************************)
(* What the client's store promises, for any number of messages, statuses, *)
(* resets, deletions, imports and drops: nothing on screen is invented,    *)
(* nothing loses ground, and once all is quiet the screen is the           *)
(* database's.                                                             *)
(*                                                                         *)
(* The first is not inductive: a frame or an answer that is still on its   *)
(* way may be about to invent something.  IInv says, message by message,   *)
(* that none is, unless the frame that takes the message follows it.       *)
(* ScreenInv is its counterpart for the last: what the screen lacks is on  *)
(* its way, in a frame of the present world.                               *)
(***************************************************************************)
EXTENDS ClientStore, WellFoundedInduction, TLAPS

\* The frame that takes message m is on its way, and behind frame i.
TakeComes(m) == \E j \in DOMAIN frames : Takes(frames[j], m)
TakeAfter(i, m) == \E j \in DOMAIN frames : i < j /\ Takes(frames[j], m)

\* A frame tells what the database has, unless it is taken back by a later one.
FrameTrue(i, m) == m \in ghosts \/ TakeAfter(i, m) \/ frames[i].status <= server[m]
FramesTrue ==
  \A i \in DOMAIN frames :
    /\ frames[i].world <= wipes
    /\ ~ Ends(frames[i]) => FrameTrue(i, frames[i].message)

\* An answer tells what the database has, unless a frame of a later world takes it back.
TakenSince(m, world) == \E j \in DOMAIN frames : Takes(frames[j], m) /\ world < frames[j].world
AnswerTrue ==
  LET f == fetch["messages"] IN
  f.stage = "answered" =>
    /\ f.world <= wipes
    /\ \A m \in Ids : m \in ghosts \/ TakenSince(m, f.world) \/ f.answer[m] <= server[m]

\* The same of what is on screen.
ScreenTrue ==
  \A m \in Ids : m \in ghosts \/ TakeComes(m) \/ messages.status[m] <= server[m]

IInv ==
  /\ TypeOK
  /\ FramesTrue
  /\ AnswerTrue
  /\ ScreenTrue

-----------------------------------------------------------------------------
(* Types *)

LEMMA RankNat ==
  /\ Rungs \in Nat /\ Messages \in Nat
  /\ 0 \in 0 .. Rungs /\ 1 \in 0 .. Rungs
  /\ MaxDisruptions \in Nat /\ Files \subseteq Statuses
BY ClientAssumption

\* Nothing is known of a conversation without messages.
LEMMA NobodyKnown == Nobody \in Statuses /\ Known(Nobody) /\ Known(Nobody)'
BY RankNat DEF Nobody, Statuses, Known

Fetches == [stage : {"idle", "sent", "answered"}, answer : Statuses, world : Nat]

ServerTyped ==
  /\ server \in Statuses /\ Known(server)
  /\ created \in 0 .. Messages
  /\ alive \in BOOLEAN /\ wipes \in Nat /\ imports \in 0 .. wipes /\ drops \in Nat
FramesTyped ==
  /\ subscribed \in BOOLEAN
  /\ frames \in Seq(Frames) /\ (~ subscribed => frames = <<>>)
FetchTyped == fetch \in [Requests -> Fetches] /\ \A r \in Requests : Known(fetch[r].answer)
MessagesTyped ==
  /\ messages \in [loaded : BOOLEAN, status : Statuses] /\ Known(messages.status)
  /\ ~ messages.loaded => messages = NotLoaded
PreviewTyped == preview \in [loaded : BOOLEAN, last : 0 .. created, status : 0 .. Rungs]
RestTyped ==
  /\ view \in {"open", "elsewhere"}
  /\ behind \in [Requests -> BOOLEAN] /\ ghosts \subseteq Ids

\* The type invariant, part by part.
LEMMA Parts ==
  /\ TypeOK <=> /\ ServerTyped /\ FramesTyped /\ FetchTyped
                /\ MessagesTyped /\ PreviewTyped /\ RestTyped
  /\ TypeOK' <=> /\ ServerTyped' /\ FramesTyped' /\ FetchTyped'
                 /\ MessagesTyped' /\ PreviewTyped' /\ RestTyped'
<1>1. TypeOK <=> /\ ServerTyped /\ FramesTyped /\ FetchTyped
                 /\ MessagesTyped /\ PreviewTyped /\ RestTyped
  BY Zenon DEF TypeOK, ServerTyped, FramesTyped, FetchTyped, MessagesTyped, PreviewTyped,
               RestTyped, Fetches
<1>2. TypeOK' <=> /\ ServerTyped' /\ FramesTyped' /\ FetchTyped'
                  /\ MessagesTyped' /\ PreviewTyped' /\ RestTyped'
  BY Zenon DEF TypeOK, ServerTyped, FramesTyped, FetchTyped, MessagesTyped, PreviewTyped,
               RestTyped, Fetches
<1>3. QED
  BY <1>1, <1>2

\* What was known stays known as messages are created.
LEMMA KnownStays ==
  ASSUME created \in Nat, created' \in Nat, created <= created',
         NEW status \in Statuses, Known(status)
  PROVE  \A m \in Ids : m > created' => status[m] = 0
BY DEF Known, Ids

LEMMA LeastOfSome ==
  ASSUME NEW T \in SUBSET Nat, T # {}
  PROVE  \E i \in T : \A j \in T : i <= j
<1>1. PICK i \in T : \A j \in T : ~ (<<j, i>> \in OpToRel(<, Nat))
  BY NatLessThanWellFounded, WFMin
<1>2. ASSUME NEW j \in T PROVE i <= j
  <2>1. i \in Nat /\ j \in Nat
    OBVIOUS
  <2>2. ~ (j < i)
    BY <1>1, <2>1 DEF OpToRel
  <2>3. QED
    BY <2>1, <2>2
<1>3. QED
  BY <1>2

\* The newest message of an answer: the least of the numbers that no message of the answer
\* exceeds.
LEMMA NewestIs ==
  ASSUME NEW answer \in Statuses
  PROVE  /\ Newest(answer) \in 0 .. Messages
         /\ Newest(answer) # 0 => answer[Newest(answer)] # 0
         /\ \A m \in Ids : answer[m] # 0 => m <= Newest(answer)
<1> DEFINE Reaches(n) == \A m \in Ids : answer[m] # 0 => m <= n
<1> DEFINE Top(n) == (n # 0 => answer[n] # 0) /\ Reaches(n)
<1> DEFINE T == {n \in Nat : Reaches(n)}
<1>1. Messages \in T
  BY RankNat DEF Ids
<1>2. PICK n \in T : \A j \in T : n <= j
  BY <1>1, LeastOfSome
<1>3. n \in 0 .. Messages
  BY <1>1, <1>2, RankNat
<1>4. n # 0 => answer[n] # 0
  <2>1. SUFFICES ASSUME n # 0, answer[n] = 0 PROVE FALSE
    OBVIOUS
  <2>2. n - 1 \in Nat /\ ~ (n <= n - 1)
    BY <1>3, <2>1
  <2>3. \A m \in Ids : answer[m] # 0 => m <= n - 1
    BY <1>2, <1>3, <2>1, RankNat DEF Ids
  <2>4. QED
    BY <1>2, <2>2, <2>3
<1>5. Top(n)
  BY <1>2, <1>4
<1>6. Newest(answer) = CHOOSE k \in 0 .. Messages : Top(k)
  BY DEF Newest
<1>7. Newest(answer) \in 0 .. Messages /\ Top(Newest(answer))
  <2> HIDE DEF Top
  <2>1. QED
    BY <1>3, <1>5, <1>6
<1>8. QED
  BY <1>7

\* It was created, if the answer knows of none to come.
LEMMA NewestExists ==
  ASSUME created \in 0 .. Messages, NEW answer \in Statuses, Known(answer)
  PROVE  Newest(answer) \in 0 .. created
BY NewestIs, RankNat DEF Known, Ids

\* There is only one message like that.
LEMMA NewestIsOne ==
  ASSUME NEW answer \in Statuses, NEW n \in 0 .. Messages, n # 0 => answer[n] # 0,
         \A m \in Ids : answer[m] # 0 => m <= n
  PROVE  Newest(answer) = n
<1>1. Newest(answer) # 0 => Newest(answer) \in Ids /\ Newest(answer) <= n
  BY NewestIs, RankNat DEF Ids
<1>2. n # 0 => n \in Ids /\ n <= Newest(answer)
  BY NewestIs, RankNat DEF Ids
<1>3. QED
  BY <1>1, <1>2, NewestIs, RankNat

\* What may be on its way grows with the messages.
LEMMA FramesGrow ==
  ASSUME created \in Nat, created' \in Nat, created <= created'
  PROVE  Frames \subseteq Frames' /\ Seq(Frames) \subseteq Seq(Frames')
<1>1. Frames \subseteq Frames'
  BY DEF Frames
<1>2. QED
  BY <1>1

\* What is neither created nor changed keeps its type.
LEMMA SameFrames ==
  ASSUME FramesTyped, created' = created, UNCHANGED <<subscribed, frames>>
  PROVE  FramesTyped'
BY DEF FramesTyped, Frames

LEMMA SameFetch ==
  ASSUME ServerTyped, FetchTyped, created' \in Nat, created <= created', UNCHANGED fetch
  PROVE  FetchTyped'
<1>1. ASSUME NEW r \in Requests PROVE Known(fetch[r].answer)'
  BY <1>1, KnownStays, RankNat DEF FetchTyped, ServerTyped, Fetches, Known
<1>2. QED
  BY <1>1 DEF FetchTyped, Fetches

LEMMA SameStore ==
  ASSUME ServerTyped, created' \in Nat, created <= created'
  PROVE  /\ MessagesTyped /\ UNCHANGED messages => MessagesTyped'
         /\ PreviewTyped /\ UNCHANGED preview => PreviewTyped'
<1>1. ASSUME MessagesTyped, UNCHANGED messages PROVE MessagesTyped'
  <2>1. Known(messages.status)'
    BY <1>1, KnownStays, RankNat DEF MessagesTyped, ServerTyped, Known
  <2>2. QED
    BY <1>1, <2>1 DEF MessagesTyped, NotLoaded
<1>2. ASSUME PreviewTyped, UNCHANGED preview PROVE PreviewTyped'
  BY <1>2 DEF PreviewTyped, ServerTyped
<1>3. QED
  BY <1>1, <1>2

\* An answer that is there, or none, and the other requests as they were.
LEMMA OneFetch ==
  ASSUME FetchTyped, NEW f \in Fetches, Known(f.answer), NEW S \in SUBSET Requests,
         fetch' = [r \in Requests |-> IF r \in S THEN f ELSE fetch[r]], created' = created
  PROVE  FetchTyped'
<1>1. fetch' \in [Requests -> Fetches]
  BY DEF FetchTyped
<1>2. ASSUME NEW r \in Requests PROVE Known(fetch[r].answer)'
  BY DEF FetchTyped, Known
<1>3. QED
  BY <1>1, <1>2 DEF FetchTyped, Fetches

\* A frame that is published comes last, or does not come; nothing of the store changes.
LEMMA PublishTyped ==
  ASSUME TypeOK, ServerTyped', NEW f \in Frames', created <= created', Publish(f)
  PROVE  TypeOK'
<1>1. created \in Nat /\ created' \in Nat
  BY Parts, RankNat DEF ServerTyped
<1>2. frames \in Seq(Frames')
  BY <1>1, Parts, FramesGrow DEF FramesTyped
<1>3. FramesTyped'
  BY <1>2, Parts DEF FramesTyped, Publish
<1>4. behind' \in [Requests -> BOOLEAN] /\ ghosts' \subseteq Ids /\ view' = view
  BY Parts DEF Publish, RestTyped
<1>5. RestTyped'
  BY <1>4, Parts DEF RestTyped
<1>6. FetchTyped' /\ MessagesTyped' /\ PreviewTyped'
  BY <1>1, Parts, SameFetch, SameStore DEF Publish, storeVars
<1>7. QED
  BY <1>3, <1>5, <1>6, Parts

LEMMA TypesAtFirst == Init => TypeOK
<1> SUFFICES ASSUME Init PROVE TypeOK
  OBVIOUS
<1>1. created = 0 /\ 0 \in 0 .. Messages /\ 0 \in 0 .. created
  BY ClientAssumption DEF Init
<1>2. ServerTyped
  BY <1>1, RankNat, NobodyKnown DEF Init, ServerTyped
<1>3. FramesTyped
  BY DEF Init, FramesTyped
<1>4. FetchTyped
  <2>1. NoFetch \in Fetches /\ Known(NoFetch.answer)
    BY RankNat, NobodyKnown DEF NoFetch, Fetches
  <2>2. QED
    BY <2>1 DEF Init, FetchTyped
<1>5. MessagesTyped
  BY NobodyKnown DEF Init, NotLoaded, MessagesTyped
<1>6. PreviewTyped
  BY <1>1, RankNat DEF Init, NoPreview, PreviewTyped
<1>7. RestTyped
  BY DEF Init, RestTyped
<1>8. QED
  BY <1>2, <1>3, <1>4, <1>5, <1>6, <1>7, Parts

LEMMA TypesStep == TypeOK /\ [Next]_vars => TypeOK'
<1> SUFFICES ASSUME TypeOK, [Next]_vars PROVE TypeOK'
  OBVIOUS
<1>0. /\ ServerTyped /\ FramesTyped /\ FetchTyped
      /\ MessagesTyped /\ PreviewTyped /\ RestTyped
      /\ created \in Nat
  BY Parts, RankNat DEF ServerTyped
<1>1. CASE CreateMessage
  <2>1. created' = created + 1 /\ created' \in 1 .. Messages /\ created' \in Ids
    BY <1>0, <1>1, RankNat DEF CreateMessage, ServerTyped, Ids
  <2>2. server' \in Statuses /\ UNCHANGED <<alive, wipes, imports, drops>>
    BY <1>0, <1>1, <2>1, RankNat DEF CreateMessage, Publish, ServerTyped, Statuses
  <2>3. Known(server)'
    BY <1>0, <1>1, <2>1 DEF CreateMessage, ServerTyped, Known, Ids, Statuses
  <2>4. ServerTyped'
    BY <1>0, <2>1, <2>2, <2>3 DEF ServerTyped
  <2>5. Frame("created", created', 1) \in Frames'
    BY <1>0, <2>1, <2>2, ClientAssumption DEF Frame, Frames, ServerTyped
  <2>6. created <= created'
    BY <1>0, <2>1
  <2>7. QED
    BY <1>1, <2>4, <2>5, <2>6, PublishTyped DEF CreateMessage
<1>2. CASE \E m \in Ids : ChangeStatus(m)
  <2> PICK m \in Ids : ChangeStatus(m)
    BY <1>2
  <2>1. /\ UNCHANGED <<created, alive, wipes, imports, drops>>
        /\ m \in 1 .. created /\ server'[m] \in 1 .. Rungs
        /\ server' = [server EXCEPT ![m] = @ + 1] /\ server[m] + 1 \in 0 .. Rungs
    BY <1>0, RankNat DEF ChangeStatus, Publish, ServerTyped, Known, Ids, Statuses
  <2>2. server' \in Statuses
    BY <1>0, <2>1 DEF ServerTyped, Statuses
  <2>3. Known(server)'
    BY <1>0, <2>1 DEF ServerTyped, Known, Ids, Statuses
  <2>4. ServerTyped'
    BY <1>0, <2>1, <2>2, <2>3 DEF ServerTyped
  <2>5. Frame("status", m, server'[m]) \in Frames'
    BY <1>0, <2>1 DEF Frame, Frames, ServerTyped
  <2>6. QED
    BY <1>0, <2>1, <2>4, <2>5, PublishTyped DEF ChangeStatus
\* Another world begins, with messages that were created.
<1>w. \A i \in 0 .. wipes : i \in 0 .. wipes + 1 /\ i + 1 \in 0 .. wipes + 1 /\ (i > 0 => i - 1 \in 0 .. wipes + 1)
  BY <1>0 DEF ServerTyped
<1>b. ASSUME NEW content \in Statuses, Known(content), Begin(content), drops' = drops,
             alive' \in BOOLEAN, imports' \in 0 .. wipes + 1
      PROVE  ServerTyped' /\ created' = created /\ wipes' \in Nat
  BY <1>0, <1>b DEF Begin, ServerTyped, Known
<1>3. CASE Wipe
  <2>1. Begin(Nobody) /\ UNCHANGED <<alive, imports, drops>> /\ Publish(Frame("wiped", created, 0))
    BY <1>3 DEF Wipe, Publish
  <2>2. ServerTyped' /\ created' = created /\ wipes' \in Nat
    <3>1. imports' \in 0 .. wipes + 1 /\ alive' \in BOOLEAN /\ drops' = drops
      BY <1>0, <1>w, <2>1 DEF ServerTyped
    <3>2. QED
      BY <1>b, <2>1, <3>1, NobodyKnown
  <2>3. Frame("wiped", created, 0) \in Frames'
    BY <1>0, <2>2 DEF Frame, Frames
  <2>4. QED
    BY <1>0, <2>1, <2>2, <2>3, PublishTyped
<1>13. CASE DeleteNumber
  <2>1. /\ Begin(Nobody) /\ UNCHANGED <<imports, drops>> /\ alive' = FALSE
        /\ Publish(Frame("deleted", created, 0))
    BY <1>13 DEF DeleteNumber, Publish
  <2>2. ServerTyped' /\ created' = created /\ wipes' \in Nat
    <3>1. imports' \in 0 .. wipes + 1 /\ alive' \in BOOLEAN /\ drops' = drops
      BY <1>0, <1>w, <2>1 DEF ServerTyped
    <3>2. QED
      BY <1>b, <2>1, <3>1, NobodyKnown
  <2>3. Frame("deleted", created, 0) \in Frames'
    BY <1>0, <2>2 DEF Frame, Frames
  <2>4. QED
    BY <1>0, <2>1, <2>2, <2>3, PublishTyped
<1>14. CASE AnnounceImport
  <2>1. /\ Begin(server) /\ UNCHANGED <<alive, drops>> /\ imports' = imports - 1 /\ imports > 0
        /\ Publish(Frame("wiped", 0, 0))
    BY <1>14 DEF AnnounceImport, Publish
  <2>2. ServerTyped' /\ created' = created /\ wipes' \in Nat
    <3>1. imports' \in 0 .. wipes + 1 /\ alive' \in BOOLEAN /\ drops' = drops
      BY <1>0, <1>w, <2>1 DEF ServerTyped
    <3>2. server \in Statuses /\ Known(server)
      BY <1>0 DEF ServerTyped
    <3>3. QED
      BY <1>b, <2>1, <3>1, <3>2
  <2>3. Frame("wiped", 0, 0) \in Frames'
    BY <1>0, <2>2 DEF Frame, Frames
  <2>4. QED
    BY <1>0, <2>1, <2>2, <2>3, PublishTyped
<1>15. CASE \E content \in Files : Known(content) /\ Import(content)
  <2> PICK content \in Files : Known(content) /\ Import(content)
    BY <1>15
  <2>1. /\ Begin(content) /\ alive' \in BOOLEAN /\ imports' = imports + 1
        /\ UNCHANGED <<subscribed, frames, drops, view, fetch, messages, preview>>
        /\ behind' = [r \in Requests |-> TRUE]
        /\ ghosts' = ghosts \cup {m \in Ids : Holds(m, frames)}
    BY DEF Import, socketVars, storeVars
  <2>2. ServerTyped' /\ created' = created
    <3>1. imports' \in 0 .. wipes + 1 /\ alive' \in BOOLEAN /\ drops' = drops
      BY <1>0, <1>w, <2>1 DEF ServerTyped
    <3>2. content \in Statuses /\ Known(content)
      BY RankNat
    <3>3. QED
      BY <1>b, <2>1, <3>1, <3>2
  <2>3. RestTyped'
    BY <1>0, <2>1 DEF RestTyped
  <2>4. FramesTyped' /\ FetchTyped' /\ MessagesTyped' /\ PreviewTyped'
    BY <1>0, <2>1, <2>2, SameFrames, SameFetch, SameStore
  <2>5. QED
    BY <2>2, <2>3, <2>4, Parts
\* No other step touches the server.
<1> DEFINE Quiet == UNCHANGED <<server, created, alive, wipes, imports>>
<1>q. ASSUME Quiet, drops' \in Nat
      PROVE  ServerTyped' /\ created' \in Nat /\ created <= created'
  BY <1>q, <1>0 DEF ServerTyped, Known
<1>4. CASE \E r \in Requests : Answer(r)
  <2> PICK r \in Requests : Answer(r)
    BY <1>4
  <2>1. Quiet /\ UNCHANGED <<drops, subscribed, frames, view, messages, preview, ghosts>>
    BY DEF Answer, serverVars, socketVars, storeVars
  <2> DEFINE f == [stage |-> "answered", answer |-> server, world |-> wipes]
  <2>2. f \in Fetches /\ Known(f.answer)
    BY <1>0 DEF Fetches, ServerTyped
  <2>3. fetch' = [q \in Requests |-> IF q \in {r} THEN f ELSE fetch[q]]
    BY <1>0 DEF Answer, FetchTyped
  <2> HIDE DEF f
  <2>4. FetchTyped'
    BY <1>0, <2>1, <2>2, <2>3, OneFetch
  <2>5. RestTyped'
    <3>1. behind' = [behind EXCEPT ![r] = Overtaken] /\ Overtaken \in BOOLEAN
      BY DEF Answer, Overtaken
    <3> HIDE DEF Overtaken
    <3>2. QED
      BY <1>0, <2>1, <3>1 DEF RestTyped
  <2>6. ServerTyped' /\ FramesTyped' /\ MessagesTyped' /\ PreviewTyped'
    BY <1>0, <1>q, <2>1, SameFrames, SameStore DEF ServerTyped
  <2>7. QED
    BY <2>4, <2>5, <2>6, Parts
<1>5. CASE OpenConversation \/ LeaveConversation
  <2>1. /\ Quiet
        /\ UNCHANGED <<drops, subscribed, frames, messages, preview, behind, ghosts>>
        /\ view' \in {"open", "elsewhere"}
    BY <1>5 DEF OpenConversation, LeaveConversation, serverVars, socketVars, storeVars
  <2>2. /\ Sent \in Fetches /\ Known(Sent.answer)
        /\ NoFetch \in Fetches /\ Known(NoFetch.answer)
    BY RankNat, NobodyKnown DEF Sent, NoFetch, Fetches
  <2>3. PICK f \in {Sent, NoFetch} :
          fetch' = [r \in Requests |-> IF r \in Requests THEN f ELSE fetch[r]]
    BY <1>5 DEF OpenConversation, LeaveConversation
  <2>4. FetchTyped'
    BY <1>0, <2>1, <2>2, <2>3, OneFetch
  <2>5. RestTyped'
    BY <1>0, <2>1 DEF RestTyped
  <2>6. ServerTyped' /\ FramesTyped' /\ MessagesTyped' /\ PreviewTyped'
    BY <1>0, <1>q, <2>1, SameFrames, SameStore DEF ServerTyped
  <2>7. QED
    BY <2>4, <2>5, <2>6, Parts
<1>6. CASE MessagesLoaded
  <2>1. Quiet /\ UNCHANGED <<drops, subscribed, frames, view, preview, behind, ghosts>>
    BY <1>6 DEF MessagesLoaded, serverVars, socketVars
  <2>2. NoFetch \in Fetches /\ Known(NoFetch.answer)
    BY RankNat, NobodyKnown DEF NoFetch, Fetches
  <2>3. fetch' = [q \in Requests |-> IF q \in {"messages"} THEN NoFetch ELSE fetch[q]]
    BY <1>0, <1>6 DEF MessagesLoaded, FetchTyped
  <2>4. FetchTyped'
    <3>1. {"messages"} \subseteq Requests
      BY DEF Requests
    <3>2. QED
      BY <1>0, <2>1, <2>2, <2>3, <3>1, OneFetch
  <2>5. MessagesTyped'
    <3>1. PICK f \in Fetches : f = fetch["messages"] /\ Known(f.answer)
      BY <1>0 DEF FetchTyped, Requests
    <3> DEFINE merged == [m \in Ids |-> MergeStatus(messages.status[m], f.answer[m])]
    <3>2. messages' = [loaded |-> TRUE, status |-> merged]
      BY <1>6, <3>1 DEF MessagesLoaded
    <3>3. \A m \in Ids : /\ MergeStatus(messages.status[m], f.answer[m]) \in 0 .. Rungs
                         /\ m > created => MergeStatus(messages.status[m], f.answer[m]) = 0
      BY <1>0, <3>1 DEF MessagesTyped, MergeStatus, Statuses, Fetches, Known
    <3>4. merged \in Statuses /\ Known(merged)
      BY <3>3 DEF Statuses, Known
    <3> HIDE DEF merged
    <3>5. QED
      BY <2>1, <3>2, <3>4 DEF MessagesTyped, Known
  <2>6. RestTyped'
    BY <1>0, <2>1 DEF RestTyped
  <2>7. ServerTyped' /\ FramesTyped' /\ PreviewTyped'
    BY <1>0, <1>q, <2>1, SameFrames, SameStore DEF ServerTyped
  <2>8. QED
    BY <2>4, <2>5, <2>6, <2>7, Parts
<1>7. CASE ConversationsLoaded
  <2>1. Quiet /\ UNCHANGED <<drops, subscribed, frames, view, messages, behind, ghosts>>
    BY <1>7 DEF ConversationsLoaded, serverVars, socketVars
  <2>2. NoFetch \in Fetches /\ Known(NoFetch.answer)
    BY RankNat, NobodyKnown DEF NoFetch, Fetches
  <2>3. fetch' = [q \in Requests |-> IF q \in {"preview"} THEN NoFetch ELSE fetch[q]]
    BY <1>0, <1>7 DEF ConversationsLoaded, FetchTyped
  <2>4. FetchTyped'
    <3>1. {"preview"} \subseteq Requests
      BY DEF Requests
    <3>2. QED
      BY <1>0, <2>1, <2>2, <2>3, <3>1, OneFetch
  <2>5. PreviewTyped'
    <3>1. PICK f \in Fetches : f = fetch["preview"] /\ Known(f.answer)
      BY <1>0 DEF FetchTyped, Requests
    <3>2. Newest(f.answer) \in 0 .. created
      BY <1>0, <3>1, NewestExists DEF ServerTyped, Fetches
    <3> DEFINE n == Newest(f.answer)
    <3>3. preview' = [loaded |-> TRUE, last |-> n, status |-> IF n = 0 THEN 0 ELSE f.answer[n]]
      BY <1>7, <3>1 DEF ConversationsLoaded
    <3>4. n \in 0 .. created
      BY <3>2
    <3> HIDE DEF n
    <3>5. (IF n = 0 THEN 0 ELSE f.answer[n]) \in 0 .. Rungs
      BY <1>0, <3>1, <3>4, RankNat DEF ServerTyped, Fetches, Statuses, Ids
    <3>6. QED
      BY <2>1, <3>3, <3>4, <3>5 DEF PreviewTyped
  <2>6. RestTyped'
    BY <1>0, <2>1 DEF RestTyped
  <2>7. ServerTyped' /\ FramesTyped' /\ MessagesTyped'
    BY <1>0, <1>q, <2>1, SameFrames, SameStore DEF ServerTyped
  <2>8. QED
    BY <2>4, <2>5, <2>6, <2>7, Parts
<1>8. CASE ReceiveMessage
  <2>1. Quiet /\ UNCHANGED <<drops, subscribed, fetch, view, ghosts>> /\ frames' = Tail(frames)
    BY <1>8 DEF ReceiveMessage, serverVars
  <2>2. PICK f \in Frames : f = Head(frames) /\ f.type \in {"created", "status"}
    BY <1>0, <1>8 DEF ReceiveMessage, FramesTyped
  <2>3. f.message \in 1 .. created /\ f.message \in Ids /\ f.status \in 0 .. Rungs
    BY <1>0, <2>2, RankNat DEF Frames, ServerTyped, Ids
  <2>4. MessagesTyped'
    <3>1. CASE ~ messages.loaded
      BY <1>0, <1>8, <2>1, <3>1 DEF ReceiveMessage, UpsertMessage, MessagesTyped, Known
    <3>2. CASE messages.loaded
      <4> DEFINE merged == [messages.status EXCEPT ![f.message] =
                              MergeStatus(messages.status[f.message], f.status)]
      <4>1. messages' = [messages EXCEPT !.status = merged]
        BY <1>0, <1>8, <2>2, <3>2 DEF ReceiveMessage, UpsertMessage, MessagesTyped
      <4>2. MergeStatus(messages.status[f.message], f.status) \in 0 .. Rungs
        BY <1>0, <2>3 DEF MessagesTyped, MergeStatus, Statuses
      <4>3. merged \in Statuses /\ Known(merged)
        BY <1>0, <2>3, <4>2 DEF MessagesTyped, Statuses, Known
      <4> HIDE DEF merged
      <4>4. QED
        BY <1>0, <2>1, <3>2, <4>1, <4>3 DEF MessagesTyped, Known
    <3>3. QED
      BY <3>1, <3>2
  <2>5. PreviewTyped'
    <3>1. \/ preview' = preview
          \/ preview' = [preview EXCEPT !.last = f.message, !.status = f.status]
      BY <1>8, <2>2 DEF ReceiveMessage, WithConversationOf
    <3>2. f.message \in 0 .. created
      BY <1>0, <2>3
    <3>3. QED
      BY <1>0, <2>1, <2>3, <3>1, <3>2 DEF PreviewTyped
  <2>6. FramesTyped'
    BY <1>0, <1>8, <2>1 DEF ReceiveMessage, FramesTyped, Frames
  <2>7. RestTyped'
    <3>1. \A r \in Requests : (behind[r] \/ PassesBy(r, Head(frames))) \in BOOLEAN
      OBVIOUS
    <3>2. behind' = [r \in Requests |-> behind[r] \/ PassesBy(r, Head(frames))]
      BY <1>8 DEF ReceiveMessage
    <3>3. QED
      BY <1>0, <2>1, <3>1, <3>2 DEF RestTyped
  <2>8. ServerTyped' /\ FetchTyped'
    BY <1>0, <1>q, <2>1, SameFetch DEF ServerTyped
  <2>9. QED
    BY <2>4, <2>5, <2>6, <2>7, <2>8, Parts
<1>9. CASE ReceiveWipe
  <2>1. /\ Quiet /\ UNCHANGED <<drops, subscribed, fetch, view>> /\ frames' = Tail(frames)
        /\ messages' = NotLoaded /\ preview' = NoPreview
    BY <1>9 DEF ReceiveWipe, Forget, serverVars
  <2>2. FramesTyped'
    BY <1>0, <1>9, <2>1 DEF ReceiveWipe, FramesTyped, Frames
  <2>3. RestTyped'
    BY <1>0, <1>9, <2>1 DEF ReceiveWipe, RestTyped
  <2>4. MessagesTyped'
    BY <2>1, NobodyKnown DEF MessagesTyped, NotLoaded
  <2>5. PreviewTyped'
    BY <1>0, <2>1, RankNat DEF PreviewTyped, NoPreview
  <2>6. ServerTyped' /\ FetchTyped'
    BY <1>0, <1>q, <2>1, SameFetch DEF ServerTyped
  <2>7. QED
    BY <2>2, <2>3, <2>4, <2>5, <2>6, Parts
<1>16. CASE ReceiveDeletion \/ SelectAnother
  <2>1. /\ Quiet /\ UNCHANGED <<drops, subscribed, messages, behind>>
        /\ frames' = frames \/ (frames # <<>> /\ frames' = Tail(frames))
        /\ view' = "elsewhere" /\ preview' = NoPreview
        /\ ghosts' \subseteq ghosts \cup Ids
        /\ fetch' = [r \in Requests |-> IF r \in Requests THEN NoFetch ELSE fetch[r]]
    BY <1>16 DEF ReceiveDeletion, SelectAnother, serverVars, socketVars
  <2>2. FramesTyped'
    <3>1. CASE frames' = frames
      BY <1>0, <2>1, <3>1, SameFrames
    <3>2. CASE frames # <<>> /\ frames' = Tail(frames)
      BY <1>0, <2>1, <3>2 DEF FramesTyped, Frames
    <3>3. QED
      BY <2>1, <3>1, <3>2
  <2>3. RestTyped'
    BY <1>0, <2>1 DEF RestTyped
  <2>4. NoFetch \in Fetches /\ Known(NoFetch.answer)
    BY RankNat, NobodyKnown DEF NoFetch, Fetches
  <2>5. FetchTyped'
    BY <1>0, <2>1, <2>4, OneFetch
  <2>6. PreviewTyped'
    BY <1>0, <2>1, RankNat DEF PreviewTyped, NoPreview
  <2>7. ServerTyped' /\ MessagesTyped'
    BY <1>0, <1>q, <2>1, SameStore DEF ServerTyped
  <2>8. QED
    BY <2>2, <2>3, <2>5, <2>6, <2>7, Parts
<1>10. CASE Drop
  <2>1. /\ Quiet /\ UNCHANGED <<fetch, view, messages, preview>> /\ frames' = <<>>
        /\ subscribed' = FALSE /\ drops' = drops + 1
    BY <1>10 DEF Drop, serverVars, storeVars
  <2>2. FramesTyped'
    <3>1. <<>> \in Seq(Frames')
      OBVIOUS
    <3>2. QED
      BY <2>1, <3>1, Zenon DEF FramesTyped
  <2>3. RestTyped'
    BY <1>0, <1>10, <2>1 DEF Drop, RestTyped
  <2>4. ServerTyped' /\ FetchTyped' /\ MessagesTyped' /\ PreviewTyped'
    BY <1>0, <1>q, <2>1, SameFetch, SameStore DEF ServerTyped
  <2>5. QED
    BY <2>2, <2>3, <2>4, Parts
<1>11. CASE Reconnect \/ RecreateNumber \/ FailImport
  <2>1. /\ UNCHANGED <<server, created, wipes, drops, frames>>
        /\ UNCHANGED <<fetch, view, messages, preview, behind, ghosts>>
        /\ alive' \in BOOLEAN /\ imports' \in 0 .. wipes
        /\ subscribed' = subscribed \/ subscribed' = TRUE
    <3>1. CASE Reconnect \/ RecreateNumber
      BY <1>0, <3>1 DEF Reconnect, RecreateNumber, serverVars, socketVars, storeVars, ServerTyped
    <3>2. CASE FailImport
      BY <1>0, <3>2 DEF FailImport, socketVars, storeVars, ServerTyped
    <3>3. QED
      BY <1>11, <3>1, <3>2
  <2>2. FramesTyped'
    <3>1. CASE subscribed' = subscribed
      BY <1>0, <2>1, <3>1, SameFrames
    <3>2. CASE subscribed' = TRUE
      BY <1>0, <2>1, <3>2 DEF FramesTyped, Frames
    <3>3. QED
      BY <2>1, <3>1, <3>2
  <2>3. RestTyped'
    BY <1>0, <2>1 DEF RestTyped
  <2>4. ServerTyped'
    BY <1>0, <2>1 DEF ServerTyped, Known
  <2>5. FetchTyped' /\ MessagesTyped' /\ PreviewTyped'
    BY <1>0, <2>1, <2>4, SameFetch, SameStore DEF ServerTyped
  <2>6. QED
    BY <2>2, <2>3, <2>4, <2>5, Parts
<1>12. CASE UNCHANGED vars
  <2>1. /\ Quiet
        /\ UNCHANGED <<fetch, view, messages, preview, behind, ghosts, drops, frames, subscribed>>
    BY <1>12 DEF vars
  <2>2. RestTyped'
    BY <1>0, <2>1 DEF RestTyped
  <2>3. ServerTyped' /\ FramesTyped' /\ FetchTyped' /\ MessagesTyped' /\ PreviewTyped'
    BY <1>0, <1>q, <2>1, SameFrames, SameFetch, SameStore DEF ServerTyped
  <2>4. QED
    BY <2>2, <2>3, Parts
<1>17. QED
  BY <1>1, <1>2, <1>3, <1>4, <1>5, <1>6, <1>7, <1>8, <1>9, <1>10, <1>11, <1>12, <1>13, <1>14,
     <1>15, <1>16 DEF Next

\* Everything is of its type, and nothing is held or on its way of a message to come.
THEOREM TypeCorrect == Spec => []TypeOK
<1>1. Init => TypeOK
  BY TypesAtFirst
<1>2. TypeOK /\ [Next]_vars => TypeOK'
  BY TypesStep
<1>3. QED
  BY <1>1, <1>2, PTL DEF Spec

-----------------------------------------------------------------------------
(* Nothing loses ground *)

\* reducer.ts (24-27): while a conversation is held, no message of it loses ground or
\* disappears, however frames and answers overtake each other.
THEOREM NeverBackwardsHolds == Spec => NeverBackwards
<1>1. TypeOK /\ [Next]_vars =>
        [messages.loaded /\ messages'.loaded =>
           \A m \in Ids : messages'.status[m] >= messages.status[m]]_vars
  <2> SUFFICES ASSUME TypeOK, Next, messages.loaded, messages'.loaded, NEW m \in Ids
               PROVE  messages'.status[m] >= messages.status[m]
    OBVIOUS
  <2>1. messages.status \in Statuses /\ messages.status[m] \in Nat
    BY RankNat DEF TypeOK, Statuses
  <2>2. CASE MessagesLoaded
    <3>1. fetch["messages"].answer[m] \in Nat
      BY RankNat DEF TypeOK, Statuses, Requests
    <3>2. QED
      BY <2>1, <2>2, <3>1 DEF MessagesLoaded, MergeStatus
  <2>3. CASE ReceiveMessage
    <3>1. PICK f \in Frames : f = Head(frames) /\ f.type \in {"created", "status"}
      BY <2>3 DEF ReceiveMessage, TypeOK
    <3>2. f.status \in Nat
      BY <3>1, RankNat DEF Frames
    <3>3. messages' = [messages EXCEPT !.status[f.message] =
                         MergeStatus(messages.status[f.message], f.status)]
      BY <2>3, <3>1 DEF ReceiveMessage, UpsertMessage
    <3>4. QED
      BY <2>1, <3>2, <3>3 DEF MergeStatus, TypeOK, Statuses
  <2>4. CASE ReceiveWipe
    BY <2>4 DEF ReceiveWipe, Forget, NotLoaded
  <2>5. CASE messages' = messages
    BY <2>1, <2>5
  <2>6. QED
    BY <2>2, <2>3, <2>4, <2>5
       DEF Next, CreateMessage, ChangeStatus, Wipe, DeleteNumber, RecreateNumber, Import,
           AnnounceImport, FailImport, Publish, Answer, OpenConversation, LeaveConversation,
           SelectAnother, ConversationsLoaded, ReceiveDeletion, Drop, Reconnect, storeVars
<1>2. QED
  BY <1>1, TypeCorrect, PTL DEF Spec, NeverBackwards

-----------------------------------------------------------------------------
(* Nothing is invented *)

\* What is in the store of frames, answers and messages, and nothing else.
LEMMA Reads ==
  /\ TypeOK => /\ frames \in Seq(Frames) /\ wipes \in Nat /\ server \in [Ids -> Nat]
               /\ messages.status \in [Ids -> Nat]
               /\ fetch["messages"].answer \in [Ids -> Nat]
               /\ fetch["messages"].world \in Nat
               /\ created \in Nat
               /\ ghosts \subseteq Ids
  /\ \A i \in DOMAIN frames : TypeOK =>
       /\ frames[i] \in Frames /\ frames[i].world \in Nat
       /\ ~ Ends(frames[i]) => /\ frames[i].message \in Ids /\ frames[i].status \in Nat
<1>0. ASSUME NEW status \in Statuses PROVE status \in [Ids -> Nat]
  BY RankNat DEF Statuses
<1>1. ASSUME TypeOK
      PROVE  /\ frames \in Seq(Frames) /\ wipes \in Nat /\ server \in [Ids -> Nat]
             /\ messages.status \in [Ids -> Nat] /\ created \in Nat /\ ghosts \subseteq Ids
  <2>1. ServerTyped /\ FramesTyped /\ MessagesTyped /\ RestTyped
    BY <1>1, Parts
  <2>2. server \in Statuses /\ messages.status \in Statuses
    BY <2>1 DEF ServerTyped, MessagesTyped
  <2>3. QED
    BY <1>0, <2>1, <2>2, RankNat DEF ServerTyped, FramesTyped, RestTyped
<1>2. ASSUME TypeOK
      PROVE  fetch["messages"].answer \in [Ids -> Nat] /\ fetch["messages"].world \in Nat
  <2>1. FetchTyped
    BY <1>2, Parts
  <2>2. fetch["messages"] \in Fetches
    BY <2>1 DEF FetchTyped, Requests
  <2>3. QED
    BY <1>0, <2>2, RankNat DEF Fetches
<1>3. ASSUME NEW i \in DOMAIN frames, TypeOK
      PROVE  /\ frames[i] \in Frames /\ frames[i].world \in Nat
             /\ ~ Ends(frames[i]) => frames[i].message \in Ids /\ frames[i].status \in Nat
  <2>1. frames[i] \in Frames
    BY <1>1, <1>3
  <2>2. QED
    BY <1>3, <2>1, RankNat, Parts DEF Frames, Ends, ServerTyped, Ids
<1>4. QED
  BY <1>1, <1>2, <1>3

\* The server tells what it did: a message moved forward, or what was there is taken.  What
\* was true stays true.
LEMMA PublishTrue ==
  ASSUME IInv, TypeOK', NEW f, Publish(f), f.world = wipes', wipes <= wipes',
         \A m \in Ids : server[m] <= server'[m] \/ Takes(f, m),
         Ends(f) => wipes < wipes',
         ~ Ends(f) => f.message \in Ids /\ f.status <= server'[f.message]
  PROVE  IInv'
<1>1. /\ frames \in Seq(Frames) /\ Len(frames) \in Nat /\ wipes \in Nat /\ wipes' \in Nat
      /\ server \in [Ids -> Nat] /\ server' \in [Ids -> Nat]
      /\ messages.status \in [Ids -> Nat] /\ fetch["messages"].answer \in [Ids -> Nat]
      /\ fetch["messages"].world \in Nat
      /\ UNCHANGED <<messages, fetch>>
  <2>1. server' \in [Ids -> Nat] /\ wipes' \in Nat
    BY RankNat, Parts DEF ServerTyped, Statuses
  <2>2. QED
    BY <2>1, Reads DEF IInv, Publish, storeVars
<1>a. PICK a \in [Ids -> Nat], w \in Nat, on \in BOOLEAN :
        /\ a = fetch["messages"].answer /\ w = fetch["messages"].world
        /\ on <=> fetch["messages"].stage = "answered"
  BY <1>1
<1>2. CASE ~ subscribed
  <2>1. /\ frames = <<>> /\ frames' = <<>>
        /\ ghosts' = ghosts \cup {m \in Ids : Takes(f, m) /\ Holds(m, frames)}
    BY <1>2 DEF IInv, TypeOK, Publish
  <2>2. FramesTrue'
    BY <2>1 DEF FramesTrue
  <2>3. ASSUME NEW m \in Ids, m \notin ghosts'
        PROVE  /\ messages.status[m] <= server'[m]
               /\ on => w <= wipes /\ a[m] <= server'[m]
    <3>1. /\ messages.status[m] <= server[m]
          /\ on => w <= wipes /\ a[m] <= server[m]
      BY <1>a, <2>1, <2>3 DEF IInv, ScreenTrue, TakeComes, AnswerTrue, TakenSince
    <3>2. CASE Takes(f, m)
      <4>1. messages.status[m] = 0 /\ (on => a[m] = 0)
        BY <1>a, <2>1, <2>3, <3>2 DEF Holds, OnItsWay
      <4>2. QED
        BY <1>1, <3>1, <4>1
    <3>3. CASE server[m] <= server'[m]
      BY <1>1, <3>1, <3>3
    <3>4. QED
      BY <3>2, <3>3
  <2>4. ScreenTrue'
    BY <1>1, <2>3 DEF ScreenTrue
  <2>5. AnswerTrue'
    <3>1. on => w <= wipes'
      BY <1>1, <1>a DEF IInv, AnswerTrue
    <3>2. QED
      BY <1>1, <1>a, <2>3, <3>1 DEF AnswerTrue
  <2>6. QED
    BY <2>2, <2>4, <2>5 DEF IInv
<1>3. CASE subscribed
  <2>1. frames' = Append(frames, f)
    BY <1>3 DEF Publish
  <2>n. PICK n \in Nat : n = Len(frames) + 1
    BY <1>1
  <2>2. /\ Len(frames') = n /\ DOMAIN frames' = 1 .. n /\ DOMAIN frames = 1 .. Len(frames)
        /\ \A i \in DOMAIN frames : i \in DOMAIN frames' /\ frames'[i] = frames[i] /\ i < n
        /\ n \in DOMAIN frames' /\ frames'[n] = f
        /\ \A i \in DOMAIN frames' : i \in DOMAIN frames \/ i = n
    BY <1>1, <2>1, <2>n
  <2>3. ghosts' = ghosts
    BY <1>3 DEF Publish
  <2>4. ASSUME NEW m \in Ids
        PROVE  /\ TakeComes(m) \/ Takes(f, m) => TakeComes(m)'
               /\ \A i \in DOMAIN frames : TakeAfter(i, m) \/ Takes(f, m) => TakeAfter(i, m)'
               /\ TakenSince(m, w) \/ (Takes(f, m) /\ w < f.world) => TakenSince(m, w)'
    BY <2>2 DEF TakeComes, TakeAfter, TakenSince
  <2>5. ASSUME NEW m \in Ids PROVE Takes(f, m) \/ server[m] <= server'[m]
    OBVIOUS
  <2>6. FramesTrue'
    <3>1. SUFFICES ASSUME NEW i \in DOMAIN frames'
                   PROVE  /\ frames'[i].world <= wipes'
                          /\ ~ Ends(frames'[i]) => FrameTrue(i, frames[i].message)'
      BY DEF FramesTrue
    <3>2. CASE i = n
      <4>1. ~ Ends(f) => f.status <= server'[f.message]
        OBVIOUS
      <4>2. QED
        BY <1>1, <2>2, <3>2, <4>1 DEF FrameTrue
    <3>3. CASE i \in DOMAIN frames
      <4>1. /\ frames'[i] = frames[i] /\ frames[i].world <= wipes /\ frames[i].world \in Nat
        BY <2>2, <3>3, Reads DEF IInv, FramesTrue
      <4>2. ASSUME ~ Ends(frames[i]) PROVE FrameTrue(i, frames[i].message)'
        <5> PICK m, v : m = frames[i].message /\ v = frames[i].status
          OBVIOUS
        <5>1. m \in Ids /\ v \in Nat
          BY <3>3, <4>2, Reads DEF IInv
        <5>2. m \in ghosts \/ TakeAfter(i, m) \/ v <= server[m]
          BY <3>3, <4>2 DEF IInv, FramesTrue, FrameTrue
        <5>3. m \in ghosts' \/ TakeAfter(i, m)' \/ v <= server'[m]
          BY <1>1, <2>3, <2>4, <2>5, <3>3, <5>1, <5>2
        <5>4. TakeAfter(i, m)' => TakeAfter(i, frames[i].message)'
          BY <4>1 DEF TakeAfter
        <5>5. QED
          BY <4>1, <5>3, <5>4 DEF FrameTrue
      <4>3. QED
        BY <1>1, <4>1, <4>2
    <3>4. QED
      BY <2>2, <3>2, <3>3
  <2>7. ScreenTrue'
    <3>1. ASSUME NEW m \in Ids
          PROVE  m \in ghosts' \/ TakeComes(m)' \/ messages.status[m] <= server'[m]
      <4>1. m \in ghosts \/ TakeComes(m) \/ messages.status[m] <= server[m]
        BY DEF IInv, ScreenTrue
      <4>2. QED
        BY <1>1, <2>3, <2>4, <2>5, <4>1
    <3>2. QED
      BY <1>1, <3>1 DEF ScreenTrue
  <2>8. AnswerTrue'
    <3>1. SUFFICES ASSUME on
                   PROVE  /\ w <= wipes'
                          /\ \A m \in Ids : m \in ghosts' \/ TakenSince(m, w)' \/ a[m] <= server'[m]
      BY <1>1, <1>a DEF AnswerTrue, TakenSince
    <3>2. /\ w <= wipes
          /\ \A m \in Ids : m \in ghosts \/ TakenSince(m, w) \/ a[m] <= server[m]
      BY <1>a, <3>1 DEF IInv, AnswerTrue
    <3>3. ASSUME NEW m \in Ids
          PROVE  m \in ghosts' \/ TakenSince(m, w)' \/ a[m] <= server'[m]
      <4>1. CASE Takes(f, m)
        <5>1. w < f.world
          BY <1>1, <3>2, <4>1 DEF Takes
        <5>2. QED
          BY <2>4, <4>1, <5>1
      <4>2. CASE server[m] <= server'[m]
        <5>1. m \in ghosts \/ TakenSince(m, w) \/ a[m] <= server[m]
          BY <3>2
        <5>2. QED
          BY <1>1, <2>3, <2>4, <4>2, <5>1
      <4>3. QED
        BY <4>1, <4>2
    <3>4. QED
      BY <1>1, <3>2, <3>3
  <2>9. QED
    BY <2>6, <2>7, <2>8 DEF IInv
<1>4. QED
  BY <1>2, <1>3

LEMMA InventedStep == IInv /\ [Next]_vars => IInv'
<1> SUFFICES ASSUME IInv, [Next]_vars PROVE IInv'
  OBVIOUS
<1>0. TypeOK /\ TypeOK' /\ FramesTrue /\ AnswerTrue /\ ScreenTrue
  BY TypesStep DEF IInv
<1>r. /\ frames \in Seq(Frames) /\ Len(frames) \in Nat /\ wipes \in Nat
      /\ server \in [Ids -> Nat] /\ messages.status \in [Ids -> Nat]
      /\ fetch["messages"].answer \in [Ids -> Nat] /\ fetch["messages"].world \in Nat
      /\ ghosts \subseteq Ids /\ created \in Nat
  BY <1>0, Reads
<1>a. PICK a \in [Ids -> Nat], w \in Nat, on \in BOOLEAN :
        /\ a = fetch["messages"].answer /\ w = fetch["messages"].world
        /\ on <=> fetch["messages"].stage = "answered"
  BY <1>r
\* It is enough to look at the messages and the answer when frames and ghosts stay.
<1>s. ASSUME UNCHANGED <<frames, server, wipes, ghosts>>, AnswerTrue',
             \A m \in Ids : m \in ghosts \/ TakeComes(m) \/ messages'.status[m] <= server[m]
      PROVE  IInv'
  <2>1. FramesTrue'
    BY <1>0, <1>s DEF FramesTrue, FrameTrue, TakeAfter
  <2>2. ScreenTrue'
    BY <1>s DEF ScreenTrue, TakeComes
  <2>3. QED
    BY <1>0, <1>s, <2>1, <2>2 DEF IInv
\* An answer that stays, or is none, is as true as it was.
<1>k. ASSUME UNCHANGED <<frames, server, wipes, ghosts>>,
             fetch'["messages"] = fetch["messages"] \/ fetch'["messages"].stage # "answered"
      PROVE  AnswerTrue'
  BY <1>0, <1>k DEF AnswerTrue, TakenSince
<1>1. CASE CreateMessage
  <2>1. /\ wipes' = wipes /\ created' \in Ids /\ created' > created
        /\ server' = [server EXCEPT ![created'] = 1]
    BY <1>0, <1>1, <1>r, RankNat DEF CreateMessage, Ids
  <2>2. server[created'] = 0
    BY <1>0, <2>1 DEF TypeOK, Known
  <2>3. \A m \in Ids : server[m] <= server'[m]
    BY <1>r, <2>1, <2>2
  <2> DEFINE f == Frame("created", created', 1)
  <2>4. /\ ~ Ends(f) /\ f.message = created' /\ f.status = 1 /\ f.world = wipes'
        /\ 1 <= server'[created']
    BY <1>r, <2>1 DEF Frame, Ends
  <2>5. Publish(f)
    BY <1>1 DEF CreateMessage
  <2> HIDE DEF f
  <2>6. wipes <= wipes' /\ \A m \in Ids : server[m] <= server'[m] \/ Takes(f, m)
    BY <1>r, <2>1, <2>3
  <2>7. f.message \in Ids /\ f.status <= server'[f.message]
    BY <2>1, <2>4
  <2>8. QED
    BY <1>0, <2>4, <2>5, <2>6, <2>7, PublishTrue
<1>2. CASE \E m \in Ids : ChangeStatus(m)
  <2> PICK m \in Ids : ChangeStatus(m)
    BY <1>2
  <2>1. wipes' = wipes /\ server' = [server EXCEPT ![m] = @ + 1]
    BY DEF ChangeStatus
  <2>2. (\A k \in Ids : server[k] <= server'[k]) /\ server'[m] \in Nat
    BY <1>r, <2>1
  <2> DEFINE f == Frame("status", m, server'[m])
  <2>3. ~ Ends(f) /\ f.message = m /\ f.status <= server'[m] /\ f.world = wipes'
    BY <2>2 DEF Frame, Ends
  <2>4. Publish(f)
    BY DEF ChangeStatus
  <2> HIDE DEF f
  <2>5. wipes <= wipes' /\ \A k \in Ids : server[k] <= server'[k] \/ Takes(f, k)
    BY <1>r, <2>1, <2>2
  <2>6. f.message \in Ids /\ f.status <= server'[f.message]
    BY <2>3
  <2>7. QED
    BY <1>0, <2>3, <2>4, <2>5, <2>6, PublishTrue
<1>3. CASE Wipe \/ DeleteNumber \/ AnnounceImport
  <2>1. PICK f : /\ Publish(f) /\ Ends(f) /\ f.world = wipes' /\ wipes' = wipes + 1
                 /\ server' = server \/ (server' = Nobody /\ f.message = created)
    BY <1>3 DEF Wipe, DeleteNumber, AnnounceImport, Begin, Frame, Ends
  <2>2. ASSUME NEW m \in Ids PROVE server[m] <= server'[m] \/ Takes(f, m)
    <3>1. CASE server' = server
      BY <1>r, <3>1
    <3>2. CASE server' = Nobody /\ f.message = created
      <4>1. m <= created \/ server[m] = 0
        BY <1>0, <1>r DEF TypeOK, Known, Ids
      <4>2. server'[m] = 0
        BY <3>2 DEF Nobody
      <4>3. QED
        BY <1>r, <2>1, <3>2, <4>1, <4>2 DEF Takes
    <3>3. QED
      BY <2>1, <3>1, <3>2
  <2>3. wipes < wipes' /\ wipes <= wipes'
    BY <1>r, <2>1
  <2>4. QED
    BY <1>0, <2>1, <2>2, <2>3, PublishTrue
<1>13. CASE \E content \in Files : Known(content) /\ Import(content)
  <2>1. /\ wipes' = wipes + 1 /\ UNCHANGED <<frames, fetch, messages>>
        /\ ghosts' = ghosts \cup {m \in Ids : Holds(m, frames)}
    BY <1>13 DEF Import, Begin, socketVars, storeVars
  <2>2. server' \in [Ids -> Nat]
    BY <1>0, RankNat, Parts DEF ServerTyped, Statuses
  <2>3. ASSUME NEW m \in Ids, m \notin ghosts'
        PROVE  /\ messages.status[m] = 0 /\ (on => a[m] = 0)
               /\ \A i \in DOMAIN frames : ~ Ends(frames[i]) => frames[i].message # m
    BY <1>a, <2>1, <2>3 DEF Holds, OnItsWay
  <2>4. ScreenTrue'
    BY <2>1, <2>2, <2>3 DEF ScreenTrue
  <2>5. AnswerTrue'
    <3>1. on => w <= wipes'
      BY <1>0, <1>a, <1>r, <2>1 DEF AnswerTrue
    <3>2. QED
      BY <1>a, <2>1, <2>2, <2>3, <3>1 DEF AnswerTrue
  <2>6. FramesTrue'
    <3>1. ASSUME NEW i \in DOMAIN frames
          PROVE  /\ frames[i].world <= wipes'
                 /\ ~ Ends(frames[i]) => frames[i].message \in ghosts'
      <4>1. frames[i].world <= wipes /\ frames[i].world \in Nat
        BY <1>0, Reads DEF FramesTrue
      <4>2. ~ Ends(frames[i]) => frames[i].message \in Ids
        BY <1>0, Reads
      <4>3. QED
        BY <1>r, <2>1, <2>3, <4>1, <4>2
    <3>2. QED
      BY <2>1, <3>1 DEF FramesTrue, FrameTrue
  <2>7. QED
    BY <1>0, <2>4, <2>5, <2>6 DEF IInv
<1>4. CASE \E r \in Requests : Answer(r)
  <2> PICK r \in Requests : Answer(r)
    BY <1>4
  <2>1. UNCHANGED <<frames, server, wipes, messages, ghosts>>
    BY DEF Answer, serverVars, socketVars, storeVars
  <2>2. AnswerTrue'
    <3>1. CASE r = "messages"
      <4>1. fetch'["messages"] = [stage |-> "answered", answer |-> server, world |-> wipes]
        BY <1>0, <3>1 DEF Answer, TypeOK, Requests
      <4>2. wipes <= wipes /\ \A m \in Ids : server[m] <= server[m]
        BY <1>r
      <4>3. QED
        BY <2>1, <4>1, <4>2 DEF AnswerTrue
    <3>2. CASE r # "messages"
      <4>1. fetch'["messages"] = fetch["messages"]
        BY <1>0, <3>2 DEF Answer, TypeOK, Requests
      <4>2. QED
        BY <1>k, <2>1, <4>1
    <3>3. QED
      BY <3>1, <3>2
  <2>3. QED
    BY <1>0, <1>s, <2>1, <2>2 DEF ScreenTrue
<1>5. CASE OpenConversation \/ LeaveConversation \/ SelectAnother
  <2>1. UNCHANGED <<frames, server, wipes, messages, ghosts>>
    BY <1>5 DEF OpenConversation, LeaveConversation, SelectAnother, serverVars, socketVars, storeVars
  <2>2. fetch'["messages"].stage # "answered"
    BY <1>5 DEF OpenConversation, LeaveConversation, SelectAnother, Sent, NoFetch, Requests
  <2>3. AnswerTrue'
    BY <1>k, <2>1, <2>2
  <2>4. QED
    BY <1>0, <1>s, <2>1, <2>3 DEF ScreenTrue
<1>6. CASE MessagesLoaded
  <2>1. UNCHANGED <<frames, server, wipes, ghosts>> /\ on
    BY <1>6, <1>a DEF MessagesLoaded, serverVars, socketVars
  <2>2. fetch'["messages"].stage # "answered"
    BY <1>0, <1>6 DEF MessagesLoaded, NoFetch, TypeOK, Requests
  <2>3. AnswerTrue'
    BY <1>k, <2>1, <2>2
  <2>4. \A m \in Ids : messages'.status[m] = MergeStatus(messages.status[m], a[m])
    BY <1>6, <1>a DEF MessagesLoaded
  <2>5. ASSUME NEW m \in Ids
        PROVE  m \in ghosts \/ TakeComes(m) \/ messages'.status[m] <= server[m]
    <3>1. m \in ghosts \/ TakeComes(m) \/ messages.status[m] <= server[m]
      BY <1>0 DEF ScreenTrue
    <3>2. m \in ghosts \/ TakeComes(m) \/ a[m] <= server[m]
      BY <1>0, <1>a, <2>1 DEF AnswerTrue, TakenSince, TakeComes
    <3>3. QED
      BY <1>r, <2>4, <3>1, <3>2 DEF MergeStatus
  <2>6. QED
    BY <1>s, <2>1, <2>3, <2>5
<1>7. CASE ConversationsLoaded
  <2>1. UNCHANGED <<frames, server, wipes, messages, ghosts>>
    BY <1>7 DEF ConversationsLoaded, serverVars, socketVars
  <2>2. fetch'["messages"] = fetch["messages"]
    BY <1>0, <1>7 DEF ConversationsLoaded, TypeOK, Requests
  <2>3. AnswerTrue'
    BY <1>k, <2>1, <2>2
  <2>4. QED
    BY <1>0, <1>s, <2>1, <2>3 DEF ScreenTrue
\* When the first frame is taken, the others move up.
<1>t. ASSUME frames # <<>>, frames' = Tail(frames)
      PROVE  /\ 1 \in DOMAIN frames /\ Head(frames) = frames[1]
             /\ \A i \in DOMAIN frames' : i + 1 \in DOMAIN frames /\ frames'[i] = frames[i + 1]
             /\ \A m : /\ TakeComes(m) => Takes(frames[1], m) \/ TakeComes(m)'
                       /\ TakeAfter(1, m) => TakeComes(m)'
                       /\ \A i \in DOMAIN frames' : TakeAfter(i + 1, m) => TakeAfter(i, m)'
                       /\ TakenSince(m, w) =>
                            \/ Takes(frames[1], m) /\ w < frames[1].world
                            \/ TakenSince(m, w)'
  <2>1. /\ 1 \in DOMAIN frames /\ Head(frames) = frames[1]
        /\ DOMAIN frames = 1 .. Len(frames) /\ DOMAIN frames' = 1 .. Len(frames) - 1
        /\ \A i \in DOMAIN frames' : i + 1 \in DOMAIN frames /\ frames'[i] = frames[i + 1]
    BY <1>r, <1>t
  <2>2. ASSUME NEW j \in DOMAIN frames
        PROVE  \/ j = 1
               \/ /\ 1 < j /\ j - 1 \in DOMAIN frames' /\ frames'[j - 1] = frames[j]
                  /\ \A i \in DOMAIN frames' : i + 1 < j => i < j - 1
    <3>1. j = 1 \/ (j - 1 \in DOMAIN frames' /\ (j - 1) + 1 = j /\ 1 < j)
      BY <1>r, <2>1, <2>2
    <3>2. \A i \in DOMAIN frames' : i + 1 < j => i < j - 1
      BY <1>r, <2>1, <2>2
    <3>3. QED
      BY <2>1, <3>1, <3>2
  <2>3. ASSUME NEW i \in DOMAIN frames', NEW m, TakeAfter(i + 1, m) PROVE TakeAfter(i, m)'
    <3>1. PICK j \in DOMAIN frames : i + 1 < j /\ Takes(frames[j], m)
      BY <2>3 DEF TakeAfter
    <3>2. j # 1
      BY <1>r, <2>1, <2>3, <3>1
    <3>3. QED
      BY <2>2, <3>1, <3>2 DEF TakeAfter
  <2>4. ASSUME NEW m
        PROVE  /\ TakeComes(m) => Takes(frames[1], m) \/ TakeComes(m)'
               /\ TakeAfter(1, m) => TakeComes(m)'
               /\ TakenSince(m, w) => \/ Takes(frames[1], m) /\ w < frames[1].world
                                      \/ TakenSince(m, w)'
    <3>1. ASSUME NEW j \in DOMAIN frames, Takes(frames[j], m)
          PROVE  /\ j = 1 \/ TakeComes(m)'
                 /\ 1 < j => TakeComes(m)'
                 /\ w < frames[j].world => j = 1 \/ TakenSince(m, w)'
      BY <2>2, <3>1 DEF TakeComes, TakenSince
    <3>2. QED
      BY <3>1 DEF TakeComes, TakeAfter, TakenSince
  <2>5. QED
    BY <2>1, <2>3, <2>4
\* The frames that are left are as true as before, of messages that are no ghosts now.
<1>u. ASSUME frames # <<>>, frames' = Tail(frames), UNCHANGED <<server, wipes>>,
             \A i \in DOMAIN frames' : ~ Ends(frames'[i]) =>
               (frames'[i].message \in ghosts => frames'[i].message \in ghosts')
      PROVE  FramesTrue'
  <2>1. SUFFICES ASSUME NEW i \in DOMAIN frames'
                 PROVE  /\ frames'[i].world <= wipes
                        /\ ~ Ends(frames'[i]) => FrameTrue(i, frames[i].message)'
    BY <1>u DEF FramesTrue
  <2>2. i + 1 \in DOMAIN frames /\ frames'[i] = frames[i + 1]
    BY <1>t, <1>u
  <2>m. PICK m : m = frames[i + 1].message
    OBVIOUS
  <2>3. /\ frames[i + 1].world <= wipes
        /\ ~ Ends(frames[i + 1]) =>
             m \in ghosts \/ TakeAfter(i + 1, m) \/ frames[i + 1].status <= server[m]
    BY <1>0, <2>2, <2>m DEF FramesTrue, FrameTrue
  <2>4. TakeAfter(i + 1, m) => TakeAfter(i, m)'
    BY <1>t, <1>u
  <2>5. TakeAfter(i, m)' => TakeAfter(i, frames[i].message)'
    BY <2>2, <2>m DEF TakeAfter
  <2>6. QED
    BY <1>u, <2>2, <2>m, <2>3, <2>4, <2>5 DEF FrameTrue
<1>8. CASE ReceiveMessage
  <2>1. /\ frames # <<>> /\ frames' = Tail(frames) /\ UNCHANGED <<server, wipes, fetch, ghosts>>
        /\ ~ Ends(Head(frames)) /\ UpsertMessage(Head(frames))
    BY <1>8 DEF ReceiveMessage, serverVars, Ends
  <2>2. 1 \in DOMAIN frames /\ Head(frames) = frames[1] /\ ~ Ends(frames[1])
    BY <1>t, <2>1
  <2>3. FramesTrue'
    BY <1>u, <2>1
  <2>4. \A m : /\ TakeComes(m) => TakeComes(m)'
               /\ TakenSince(m, w) => TakenSince(m, w)'
    BY <1>t, <2>1, <2>2 DEF Takes
  <2>5. AnswerTrue'
    <3>1. on => w <= wipes /\ \A m \in Ids : m \in ghosts \/ TakenSince(m, w) \/ a[m] <= server[m]
      BY <1>0, <1>a DEF AnswerTrue
    <3>2. QED
      BY <1>a, <2>1, <2>4, <3>1 DEF AnswerTrue, TakenSince
  <2>6. PICK k \in Ids, v \in Nat : k = frames[1].message /\ v = frames[1].status
    BY <1>0, <2>2, Reads
  <2>7. k \in ghosts \/ TakeComes(k)' \/ v <= server[k]
    BY <1>0, <1>t, <2>1, <2>2, <2>6 DEF FramesTrue, FrameTrue
  <2>8. \A m \in Ids : messages'.status[m] \in {messages.status[m]} \cup
                         (IF m = k THEN {v} ELSE {})
    BY <1>0, <1>r, <2>1, <2>2, <2>6 DEF UpsertMessage, MergeStatus, TypeOK, Statuses
  <2>9. ScreenTrue'
    <3>1. ASSUME NEW m \in Ids
          PROVE  m \in ghosts \/ TakeComes(m)' \/ messages'.status[m] <= server[m]
      BY <1>0, <1>r, <2>4, <2>7, <2>8 DEF ScreenTrue
    <3>2. QED
      BY <2>1, <3>1 DEF ScreenTrue
  <2>10. QED
    BY <1>0, <2>3, <2>5, <2>9 DEF IInv
<1>9. CASE ReceiveWipe
  <2> DEFINE Late == on /\ w < Head(frames).world
  <2>1. /\ frames # <<>> /\ frames' = Tail(frames) /\ UNCHANGED <<server, wipes, fetch>>
        /\ messages' = NotLoaded
        /\ ghosts' = {m \in Ids : /\ OnItsWay(m, Tail(frames))
                                  /\ m \in ghosts \/ (Late /\ Takes(Head(frames), m))}
    BY <1>9, <1>a DEF ReceiveWipe, Forget, serverVars
  <2>2. 1 \in DOMAIN frames /\ Head(frames) = frames[1]
    BY <1>t, <2>1
  <2>3. \A m \in ghosts : OnItsWay(m, Tail(frames)) => m \in ghosts'
    BY <1>r, <2>1
  <2>4. FramesTrue'
    <3>1. ASSUME NEW i \in DOMAIN frames', ~ Ends(frames'[i])
          PROVE  OnItsWay(frames'[i].message, Tail(frames))
      BY <2>1, <3>1 DEF OnItsWay
    <3>2. QED
      BY <1>u, <2>1, <2>3, <3>1
  <2>5. AnswerTrue'
    <3>1. SUFFICES ASSUME on
                   PROVE  /\ w <= wipes
                          /\ \A m \in Ids : m \in ghosts' \/ TakenSince(m, w)' \/ a[m] <= server[m]
      BY <1>a, <2>1 DEF AnswerTrue, TakenSince
    <3>2. w <= wipes /\ \A m \in Ids : m \in ghosts \/ TakenSince(m, w) \/ a[m] <= server[m]
      BY <1>0, <1>a, <3>1 DEF AnswerTrue
    <3>3. ASSUME NEW m \in Ids
          PROVE  m \in ghosts' \/ TakenSince(m, w)' \/ a[m] <= server[m]
      <4>1. a[m] # 0 => OnItsWay(m, Tail(frames))
        BY <1>a, <3>1 DEF OnItsWay
      <4>2. TakenSince(m, w) => TakenSince(m, w)' \/ (Takes(Head(frames), m) /\ Late)
        BY <1>t, <2>1, <2>2, <3>1
      <4>3. a[m] # 0 /\ Takes(Head(frames), m) /\ Late => m \in ghosts'
        BY <2>1, <4>1
      <4>4. a[m] = 0 => a[m] <= server[m]
        BY <1>r
      <4>5. QED
        BY <2>3, <3>2, <4>1, <4>2, <4>3, <4>4
    <3>4. QED
      BY <3>2, <3>3
  <2>6. ScreenTrue'
    BY <1>r, <2>1 DEF ScreenTrue, NotLoaded, Nobody
  <2>7. QED
    BY <1>0, <2>4, <2>5, <2>6 DEF IInv
<1>14. CASE ReceiveDeletion
  <2>1. /\ frames # <<>> /\ frames' = Tail(frames) /\ UNCHANGED <<server, wipes, messages>>
        /\ fetch'["messages"].stage # "answered"
        /\ ghosts' = ghosts \cup {m \in Ids : Takes(Head(frames), m) /\ messages.status[m] # 0}
    BY <1>14 DEF ReceiveDeletion, serverVars, NoFetch, Requests
  <2>2. FramesTrue'
    BY <1>u, <2>1
  <2>3. AnswerTrue'
    BY <2>1 DEF AnswerTrue
  <2>4. ScreenTrue'
    <3>1. ASSUME NEW m \in Ids, m \notin ghosts'
          PROVE  TakeComes(m)' \/ messages.status[m] <= server[m]
      <4>1. TakeComes(m) \/ messages.status[m] <= server[m]
        BY <1>0, <2>1, <3>1 DEF ScreenTrue
      <4>2. TakeComes(m) => Takes(Head(frames), m) \/ TakeComes(m)'
        BY <1>t, <2>1
      <4>3. Takes(Head(frames), m) => messages.status[m] = 0
        BY <2>1, <3>1
      <4>4. QED
        BY <1>r, <4>1, <4>2, <4>3
    <3>2. QED
      BY <2>1, <3>1 DEF ScreenTrue
  <2>5. QED
    BY <1>0, <2>2, <2>3, <2>4 DEF IInv
<1>10. CASE Drop
  <2>1. /\ frames' = <<>> /\ UNCHANGED <<server, wipes, fetch, messages>>
        /\ ghosts' = ghosts \cup {m \in Ids : TakeComes(m) /\ Holds(m, <<>>)}
    BY <1>10 DEF Drop, serverVars, storeVars, TakeComes
  <2>2. FramesTrue'
    BY <2>1 DEF FramesTrue
  <2>3. ASSUME NEW m \in Ids, m \notin ghosts'
        PROVE  messages.status[m] <= server[m] /\ (on => a[m] <= server[m])
    <3>1. CASE TakeComes(m)
      <4>1. messages.status[m] = 0 /\ (on => a[m] = 0)
        BY <1>a, <2>1, <2>3, <3>1 DEF Holds, OnItsWay
      <4>2. QED
        BY <1>r, <4>1
    <3>2. CASE ~ TakeComes(m)
      BY <1>0, <1>a, <2>1, <2>3, <3>2 DEF ScreenTrue, AnswerTrue, TakenSince, TakeComes
    <3>3. QED
      BY <3>1, <3>2
  <2>4. AnswerTrue'
    <3>1. on => w <= wipes
      BY <1>0, <1>a DEF AnswerTrue
    <3>2. QED
      BY <1>a, <2>1, <2>3, <3>1 DEF AnswerTrue
  <2>5. ScreenTrue'
    BY <2>1, <2>3 DEF ScreenTrue
  <2>6. QED
    BY <1>0, <2>2, <2>4, <2>5 DEF IInv
<1>11. CASE Reconnect \/ RecreateNumber \/ FailImport \/ UNCHANGED vars
  <2>1. UNCHANGED <<frames, server, wipes, messages, fetch, ghosts>>
    BY <1>11 DEF Reconnect, RecreateNumber, FailImport, serverVars, socketVars, storeVars, vars
  <2>2. AnswerTrue'
    BY <1>k, <2>1
  <2>3. QED
    BY <1>0, <1>s, <2>1, <2>2 DEF ScreenTrue
<1>12. QED
  BY <1>1, <1>2, <1>3, <1>4, <1>5, <1>6, <1>7, <1>8, <1>9, <1>10, <1>11, <1>13, <1>14 DEF Next

\* At first nothing is on its way.
LEMMA InventedAtFirst == Init => IInv
<1>1. Init => FramesTrue
  BY DEF Init, FramesTrue
<1>2. Init => AnswerTrue
  BY DEF Init, AnswerTrue, NoFetch, Requests
<1>3. Init => ScreenTrue
  BY DEF Init, ScreenTrue, NotLoaded, Nobody
<1>4. QED
  BY <1>1, <1>2, <1>3, TypesAtFirst DEF IInv

\* A message on screen is in the database, with this status or a later one, until the frame
\* that takes it is on its way; only an answer that a wipe overtook, a wipe that was missed,
\* the deletion of the number and an import leave ghosts, of the messages there were by then.
THEOREM NothingInventedHolds == Spec => []NothingInvented
<1>1. Init => IInv
  BY InventedAtFirst
<1>2. IInv /\ [Next]_vars => IInv'
  BY InventedStep
<1>3. IInv => NothingInvented
  BY DEF IInv, ScreenTrue, TakeComes, NothingInvented
<1>4. QED
  BY <1>1, <1>2, <1>3, PTL DEF Spec

-----------------------------------------------------------------------------
(* The screen, once all is quiet.  ScreenInv is about what is missing from  *)
(* an answer or from the screen: it is on its way, in a frame of this world *)
(* that no wipe comes after.                                                *)

\* The frames that end a world.
IsEnd(i) == Ends(frames[i])
EndAfter(i) == \E j \in DOMAIN frames : i < j /\ IsEnd(j)
EndComes == \E j \in DOMAIN frames : IsEnd(j)
EndComesSince(world) == \E j \in DOMAIN frames : IsEnd(j) /\ world < frames[j].world

\* A frame of this world, that no wipe comes after, and what such frames bring: the status
\* a message has in the database, the news that there is such a message.
Lives(i) == ~ IsEnd(i) /\ ~ EndAfter(i) /\ frames[i].world = wipes
Brings(m, i) == Lives(i) /\ frames[i].message = m /\ frames[i].status = server[m]
Announces(m, i) == Lives(i) /\ frames[i].message = m /\ frames[i].type = "created"
Coming(m) == \E i \in DOMAIN frames : Brings(m, i)
Announced(m) == \E i \in DOMAIN frames : Announces(m, i)

\* Nothing is current while frames that an import has overtaken are on their way.
OvertakenIsBehind == Overtaken => \A r \in Requests : behind[r]

\* No message is further in this answer than in the database.
InDatabase(answer) == \A m \in Ids : answer[m] <= server[m]

\* The frames of a message end with its status in the database, and those that announce
\* messages with the newest one.
FramesEndRight ==
  \A i \in DOMAIN frames : Lives(i) =>
    /\ \E j \in DOMAIN frames : i <= j /\ Brings(frames[i].message, j)
    /\ frames[i].type = "created" =>
         \E j \in DOMAIN frames : i <= j /\ Announces(Newest(server), j)

\* An answer that nothing passed by is of the present world, or its wipe is on its way.
Dated(r) ==
  fetch[r].stage = "answered" =>
    /\ fetch[r].world <= wipes
    /\ fetch[r].world = wipes => InDatabase(fetch[r].answer)
    /\ fetch[r].world < wipes /\ ~ behind[r] => EndComesSince(fetch[r].world)

\* Is this the answer to r, of the present world, and has nothing passed it by?
Fresh(r) == fetch[r].stage = "answered" /\ fetch[r].world = wipes /\ ~ behind[r]

\* What such an answer does not tell is coming, or is in the list it will be merged into.
MessagesWhole ==
  Fresh("messages") =>
    \A m \in Ids :
      \/ server[m] <= fetch["messages"].answer[m]
      \/ Coming(m)
      \/ ~ EndComes /\ messages.loaded /\ server[m] <= messages.status[m]

PreviewWhole ==
  Fresh("preview") =>
    \A m \in Ids :
      /\ server[m] <= fetch["preview"].answer[m] \/ Coming(m)
      /\ fetch["preview"].answer[m] # 0 \/ server[m] = 0 \/ Announced(m)

\* Is this part of the screen there to stay, until a wipe?
Standing(r) == view = "open" /\ fetch[r].stage = "idle" /\ ~ behind[r] /\ ~ EndComes

\* What the list on screen does not show is coming.
MessagesCatchUp ==
  Standing("messages") =>
    messages.loaded /\ \A m \in Ids : server[m] <= messages.status[m] \/ Coming(m)

\* The preview is the newest message, or that one is announced.
PreviewCatchesUp ==
  Standing("preview") =>
    /\ preview.loaded
    /\ Newest(server) = 0 => preview.last = 0
    /\ Newest(server) # 0 =>
         \/ Announced(Newest(server))
         \/ /\ preview.last = Newest(server)
            /\ preview.status = server[preview.last] \/ Coming(preview.last)

MessagesRight == Dated("messages") /\ MessagesWhole /\ MessagesCatchUp
PreviewRight == Dated("preview") /\ PreviewWhole /\ PreviewCatchesUp
ScreenInv == FramesEndRight /\ OvertakenIsBehind /\ MessagesRight /\ PreviewRight

\* What a request has in flight, and what the store shows, as numbers.
LEMMA ScreenReads ==
  ASSUME TypeOK
  PROVE  /\ server \in Statuses /\ server \in [Ids -> Nat]
         /\ \A r \in Requests : /\ fetch[r].answer \in Statuses
                                /\ fetch[r].answer \in [Ids -> Nat]
                                /\ fetch[r].world \in Nat
                                /\ behind[r] \in BOOLEAN
         /\ messages.status \in [Ids -> Nat] /\ wipes \in Nat
         /\ behind \in [Requests -> BOOLEAN]
         /\ \A i \in DOMAIN frames : /\ frames[i].world \in Nat
                                     /\ ~ IsEnd(i) => frames[i].status \in Nat \ {0}
<1>1. ServerTyped /\ FetchTyped /\ RestTyped /\ Statuses \subseteq [Ids -> Nat]
  BY Parts, RankNat DEF Statuses
<1>2. \A r \in Requests : fetch[r] \in Fetches
  BY <1>1 DEF FetchTyped
<1>3. \A i \in DOMAIN frames : /\ frames[i].world \in Nat
                             /\ ~ IsEnd(i) => frames[i].status \in Nat \ {0}
  BY Reads, RankNat DEF Frames, IsEnd, Ends
<1>4. QED
  BY <1>1, <1>2, <1>3, Reads, RankNat DEF ServerTyped, Fetches, RestTyped

\* When the frames and the server stay, so does what is coming.
LEMMA SameComing ==
  ASSUME UNCHANGED <<frames, server, wipes>>
  PROVE  /\ EndComes' <=> EndComes
         /\ \A w : EndComesSince(w)' <=> EndComesSince(w)
         /\ OvertakenIsBehind /\ UNCHANGED behind => OvertakenIsBehind'
         /\ \A m : (Coming(m)' <=> Coming(m)) /\ (Announced(m)' <=> Announced(m))
         /\ FramesEndRight => FramesEndRight'
BY DEF EndComes, EndComesSince, Overtaken, OvertakenIsBehind, Coming, Announced, Brings,
       Announces, Lives, IsEnd, EndAfter, FramesEndRight

\* When the first frame is taken, the others move up; what it brought comes no more.
LEMMA OneTaken ==
  ASSUME frames \in Seq(Frames), frames # <<>>, frames' = Tail(frames),
         UNCHANGED <<server, wipes>>
  PROVE  /\ 1 \in DOMAIN frames /\ Head(frames) = frames[1]
         /\ Lives(1) <=> ~ EndComes /\ frames[1].world = wipes
         /\ ~ IsEnd(1) => (EndComes' <=> EndComes)
         /\ \A w : EndComesSince(w) => EndComesSince(w)' \/ (IsEnd(1) /\ w < frames[1].world)
         /\ Overtaken' => Overtaken
         /\ \A m : /\ Coming(m) => Coming(m)' \/ Brings(m, 1)
                   /\ Announced(m) => Announced(m)' \/ Announces(m, 1)
         /\ \A m : \A j \in DOMAIN frames : 1 <= j =>
              /\ Brings(m, j) => Coming(m)' \/ Brings(m, 1)
              /\ Announces(m, j) => Announced(m)' \/ Announces(m, 1)
         /\ FramesEndRight => FramesEndRight'
<1>1. /\ 1 \in DOMAIN frames /\ Head(frames) = frames[1]
      /\ DOMAIN frames = 1 .. Len(frames) /\ DOMAIN frames' = 1 .. Len(frames) - 1
      /\ Len(frames) \in Nat
      /\ \A i \in DOMAIN frames' : i + 1 \in DOMAIN frames /\ frames'[i] = frames[i + 1]
  OBVIOUS
<1>2. \A j \in DOMAIN frames : j = 1 \/ (1 < j /\ j - 1 \in DOMAIN frames' /\ (j - 1) + 1 = j)
  BY <1>1
<1>3. \A i \in DOMAIN frames' : (IsEnd(i)' <=> IsEnd(i + 1))
  BY <1>1 DEF IsEnd
<1>4. \A i \in DOMAIN frames' : EndAfter(i)' <=> EndAfter(i + 1)
  <2> SUFFICES ASSUME NEW i \in DOMAIN frames' PROVE EndAfter(i)' <=> EndAfter(i + 1)
    OBVIOUS
  <2>1. ASSUME EndAfter(i + 1) PROVE EndAfter(i)'
    <3>1. PICK j \in DOMAIN frames : i + 1 < j /\ IsEnd(j)
      BY <2>1 DEF EndAfter
    <3>2. j - 1 \in DOMAIN frames' /\ i < j - 1 /\ (j - 1) + 1 = j
      BY <1>1, <3>1
    <3>3. IsEnd(j - 1)'
      BY <1>3, <3>1, <3>2
    <3>4. QED
      BY <3>2, <3>3 DEF EndAfter
  <2>2. ASSUME EndAfter(i)' PROVE EndAfter(i + 1)
    <3>1. PICK j \in DOMAIN frames' : i < j /\ IsEnd(j)'
      BY <2>2 DEF EndAfter
    <3>2. j + 1 \in DOMAIN frames /\ i + 1 < j + 1 /\ IsEnd(j + 1)
      BY <1>1, <1>3, <3>1
    <3>3. QED
      BY <3>2 DEF EndAfter
  <2>3. QED
    BY <2>1, <2>2
<1>5. \A i \in DOMAIN frames' : Lives(i)' <=> Lives(i + 1)
  BY <1>1, <1>3, <1>4 DEF Lives
<1>6. \A m : \A i \in DOMAIN frames' : /\ Brings(m, i)' <=> Brings(m, i + 1)
                                       /\ Announces(m, i)' <=> Announces(m, i + 1)
  BY <1>1, <1>5 DEF Brings, Announces
<1>7. Lives(1) <=> ~ EndComes /\ frames[1].world = wipes
  <2>1. \A j \in DOMAIN frames : j # 1 => 1 < j
    BY <1>2
  <2>2. QED
    BY <1>1, <2>1 DEF Lives, EndAfter, EndComes
<1>8. ASSUME ~ IsEnd(1) PROVE EndComes' <=> EndComes
  <2>1. ASSUME NEW j \in DOMAIN frames, IsEnd(j) PROVE EndComes'
    <3>1. j - 1 \in DOMAIN frames' /\ IsEnd(j - 1)'
      BY <1>2, <1>3, <1>8, <2>1
    <3>2. QED
      BY <3>1 DEF EndComes
  <2>2. ASSUME NEW i \in DOMAIN frames', IsEnd(i)' PROVE EndComes
    BY <1>1, <1>3, <2>2 DEF EndComes
  <2>3. QED
    BY <2>1, <2>2 DEF EndComes
<1>9. ASSUME NEW m, NEW j \in DOMAIN frames
      PROVE  /\ Brings(m, j) => j = 1 \/ (j - 1 \in DOMAIN frames' /\ Brings(m, j - 1)')
             /\ Announces(m, j) => j = 1 \/ (j - 1 \in DOMAIN frames' /\ Announces(m, j - 1)')
  BY <1>2, <1>6
<1>10. \A m : \A j \in DOMAIN frames :
         /\ Brings(m, j) => Coming(m)' \/ Brings(m, 1)
         /\ Announces(m, j) => Announced(m)' \/ Announces(m, 1)
  BY <1>9 DEF Coming, Announced
<1>11. ASSUME FramesEndRight PROVE FramesEndRight'
  <2>1. SUFFICES ASSUME NEW i \in DOMAIN frames', Lives(i)'
                 PROVE  /\ \E j \in DOMAIN frames' : i <= j /\ Brings(frames[i].message, j)'
                        /\ frames'[i].type = "created" =>
                             \E j \in DOMAIN frames' : i <= j /\ Announces(Newest(server), j)'
    BY DEF FramesEndRight
  <2>2. i + 1 \in DOMAIN frames /\ Lives(i + 1) /\ frames'[i] = frames[i + 1] /\ i \in Nat
    BY <1>1, <1>5, <2>1
  <2>3. ASSUME NEW m, NEW j \in DOMAIN frames, i + 1 <= j
        PROVE  /\ j - 1 \in DOMAIN frames' /\ i <= j - 1
               /\ Brings(m, j) => Brings(m, j - 1)'
               /\ Announces(m, j) => Announces(m, j - 1)'
    <3>1. j # 1 /\ j - 1 \in DOMAIN frames' /\ i <= j - 1
      BY <1>1, <2>2, <2>3
    <3>2. QED
      BY <1>9, <3>1
  <2>k. PICK k : k = frames[i + 1].message
    OBVIOUS
  <2>s. PICK s : s = Newest(server)
    OBVIOUS
  <2>4. PICK j \in DOMAIN frames : i + 1 <= j /\ Brings(k, j)
    BY <1>11, <2>2, <2>k DEF FramesEndRight
  <2>5. j - 1 \in DOMAIN frames' /\ i <= j - 1 /\ Brings(k, j - 1)'
    BY <2>3, <2>4
  <2>6. Brings(frames[i].message, j - 1)'
    BY <2>2, <2>5, <2>k DEF Brings
  <2>7. ASSUME frames[i + 1].type = "created"
        PROVE  \E l \in DOMAIN frames' : i <= l /\ Announces(Newest(server), l)'
    <3>1. PICK l \in DOMAIN frames : i + 1 <= l /\ Announces(s, l)
      BY <1>11, <2>2, <2>7, <2>s DEF FramesEndRight
    <3>2. l - 1 \in DOMAIN frames' /\ i <= l - 1 /\ Announces(s, l - 1)'
      BY <2>3, <3>1
    <3>3. Announces(Newest(server), l - 1)'
      BY <3>2, <2>s DEF Announces
    <3>4. QED
      BY <3>2, <3>3
  <2>8. QED
    BY <2>2, <2>5, <2>6, <2>7
<1>12. ASSUME NEW w, EndComesSince(w) PROVE EndComesSince(w)' \/ (IsEnd(1) /\ w < frames[1].world)
  <2>1. PICK j \in DOMAIN frames : IsEnd(j) /\ w < frames[j].world
    BY <1>12 DEF EndComesSince
  <2>2. CASE j = 1
    BY <2>1, <2>2
  <2>3. CASE j # 1
    <3>1. j - 1 \in DOMAIN frames' /\ (j - 1) + 1 = j
      BY <1>2, <2>3
    <3>2. frames'[j - 1] = frames[j]
      BY <1>1, <3>1
    <3>3. QED
      BY <2>1, <3>1, <3>2 DEF EndComesSince, IsEnd
  <2>4. QED
    BY <2>2, <2>3
<1>13. Overtaken' => Overtaken
  <2>1. SUFFICES ASSUME NEW i \in DOMAIN frames', ~ IsEnd(i)', frames'[i].world < wipes,
                        ~ EndAfter(i)'
                 PROVE  Overtaken
    BY DEF Overtaken, IsEnd, EndAfter
  <2>2. i + 1 \in DOMAIN frames /\ ~ IsEnd(i + 1) /\ ~ EndAfter(i + 1) /\ frames[i + 1].world < wipes
    BY <1>1, <1>3, <1>4, <2>1
  <2>3. QED
    BY <2>2 DEF Overtaken, IsEnd, EndAfter
<1>14. QED
  BY <1>1, <1>7, <1>8, <1>10, <1>11, <1>12, <1>13 DEF Coming, Announced

\* A frame that tells what the server has just done comes last.
LEMMA OneMore ==
  ASSUME frames \in Seq(Frames), NEW f, ~ Ends(f), frames' = Append(frames, f),
         UNCHANGED wipes, f.world = wipes, NEW k \in Ids, f.message = k, f.status = server'[k],
         \A m \in Ids : m # k => server'[m] = server[m]
  PROVE  /\ EndComes' <=> EndComes
         /\ \A w : EndComesSince(w) => EndComesSince(w)'
         /\ Overtaken' /\ wipes \in Nat => Overtaken
         /\ \A m \in Ids : /\ Coming(m) \/ m = k => Coming(m)'
                           /\ Announced(m) \/ (m = k /\ f.type = "created") => Announced(m)'
         /\ \A j \in DOMAIN frames :
              /\ j \in DOMAIN frames'
              /\ \A m \in Ids : /\ m # k /\ Brings(m, j) => Brings(m, j)'
                                /\ Announces(m, j) => Announces(m, j)'
         /\ \E n \in DOMAIN frames' :
              /\ frames'[n] = f /\ Brings(k, n)' /\ (f.type = "created" => Announces(k, n)')
              /\ \A i \in DOMAIN frames' :
                   /\ i <= n
                   /\ i = n \/ (/\ i \in DOMAIN frames /\ frames'[i] = frames[i]
                                /\ Lives(i)' => Lives(i))
<1>n. PICK n \in Nat : n = Len(frames) + 1
  OBVIOUS
<1>1. /\ DOMAIN frames' = 1 .. n /\ DOMAIN frames = 1 .. n - 1
      /\ \A i \in DOMAIN frames : i \in DOMAIN frames' /\ frames'[i] = frames[i] /\ i < n
      /\ n \in DOMAIN frames' /\ frames'[n] = f
      /\ \A i \in DOMAIN frames' : i <= n /\ (i \in DOMAIN frames \/ i = n)
  BY <1>n
<1>2. ~ IsEnd(n)' /\ \A i \in DOMAIN frames : IsEnd(i)' <=> IsEnd(i)
  BY <1>1 DEF IsEnd
<1>3. /\ ~ EndAfter(n)' /\ (EndComes' <=> EndComes)
      /\ \A i \in DOMAIN frames : EndAfter(i)' <=> EndAfter(i)
  <2>1. ~ EndAfter(n)'
    BY <1>1 DEF EndAfter
  <2>2. QED
    BY <1>1, <1>2, <2>1 DEF EndAfter, EndComes
<1>4. Lives(n)' /\ \A i \in DOMAIN frames : Lives(i)' <=> Lives(i)
  BY <1>1, <1>2, <1>3 DEF Lives
<1>5. Brings(k, n)' /\ (f.type = "created" => Announces(k, n)')
  BY <1>1, <1>4 DEF Brings, Announces
<1>6. \A m \in Ids : \A j \in DOMAIN frames :
        /\ m # k /\ Brings(m, j) => Brings(m, j)'
        /\ Announces(m, j) => Announces(m, j)'
  BY <1>1, <1>4 DEF Brings, Announces
<1>7. \A m \in Ids : /\ Coming(m) \/ m = k => Coming(m)'
                     /\ Announced(m) \/ (m = k /\ f.type = "created") => Announced(m)'
  BY <1>1, <1>5, <1>6 DEF Coming, Announced
<1>8. \A i \in DOMAIN frames' : i = n \/ (/\ i \in DOMAIN frames /\ frames'[i] = frames[i]
                                          /\ Lives(i)' => Lives(i))
  BY <1>1, <1>4
<1>9. \A w : EndComesSince(w) => EndComesSince(w)'
  BY <1>1, <1>2 DEF EndComesSince
<1>10. Overtaken' /\ wipes \in Nat => Overtaken
  <2>1. SUFFICES ASSUME NEW i \in DOMAIN frames', ~ IsEnd(i)', frames'[i].world < wipes,
                        ~ EndAfter(i)', wipes \in Nat
                 PROVE  Overtaken
    BY DEF Overtaken, IsEnd, EndAfter
  <2>2. i # n
    BY <1>1, <2>1
  <2>3. i \in DOMAIN frames /\ ~ IsEnd(i) /\ ~ EndAfter(i) /\ frames[i].world < wipes
    BY <1>1, <1>2, <1>3, <2>1, <2>2
  <2>4. QED
    BY <2>3 DEF Overtaken, IsEnd, EndAfter
<1>11. QED
  BY <1>1, <1>3, <1>5, <1>6, <1>7, <1>8, <1>9, <1>10

\* The server moves message k forward and tells of it: what is missing is on its way.
LEMMA PublishScreen ==
  ASSUME IInv, TypeOK', ScreenInv, NEW f, NEW k \in Ids, Publish(f), UNCHANGED wipes,
         ~ Ends(f), f.world = wipes, f.message = k, server[k] <= f.status,
         server' = [server EXCEPT ![k] = f.status],
         server[k] = 0 => f.type = "created",
         IF f.type = "created" THEN Newest(server') = k ELSE Newest(server') = Newest(server)
  PROVE  ScreenInv'
<1>0. /\ TypeOK /\ frames \in Seq(Frames)
      /\ UNCHANGED <<fetch, messages, preview, view>>
  BY Reads DEF IInv, Publish, storeVars
<1>r. /\ server \in [Ids -> Nat] /\ server' \in [Ids -> Nat] /\ messages.status \in [Ids -> Nat]
      /\ "messages" \in Requests /\ "preview" \in Requests
      /\ \A r \in Requests : fetch[r].answer \in [Ids -> Nat]
      /\ \A m \in Ids : server[m] <= server'[m] /\ (m # k => server'[m] = server[m])
      /\ Newest(server) \in 0 .. Messages /\ server' \in Statuses
  <2>1. server' \in Statuses
    BY Parts DEF ServerTyped
  <2>2. server' \in [Ids -> Nat]
    BY <2>1, RankNat DEF Statuses
  <2>3. server \in [Ids -> Nat] /\ Newest(server) \in 0 .. Messages
    BY <1>0, ScreenReads, NewestIs
  <2>4. \A m \in Ids : server[m] <= server'[m] /\ (m # k => server'[m] = server[m])
    BY <2>2, <2>3
  <2>5. messages.status \in [Ids -> Nat] /\ \A r \in Requests : fetch[r].answer \in [Ids -> Nat]
    BY <1>0, ScreenReads
  <2>6. QED
    BY <2>1, <2>2, <2>3, <2>4, <2>5 DEF Requests
<1>d. ASSUME NEW r \in Requests, Dated(r), \A w : EndComesSince(w) => EndComesSince(w)'
      PROVE  Dated(r)'
  <2>1. PICK w \in Nat : w = fetch[r].world
    BY <1>0, ScreenReads
  <2>2. EndComesSince(w) => EndComesSince(fetch[r].world)'
    BY <1>0, <1>d, <2>1 DEF EndComesSince
  <2>3. fetch'[r] = fetch[r] /\ (~ behind'[r] => ~ behind[r])
    BY <1>0 DEF Publish
  <2>4. InDatabase(fetch[r].answer) => InDatabase(fetch[r].answer)'
    BY <1>0, <1>r DEF InDatabase
  <2>5. QED
    BY <1>d, <2>1, <2>2, <2>3, <2>4 DEF Dated
<1>1. CASE ~ subscribed
  <2>1. frames = <<>> /\ frames' = <<>> /\ \A r \in Requests : behind'[r]
    BY <1>0, <1>1 DEF TypeOK, Publish
  <2>2. /\ FramesEndRight' /\ OvertakenIsBehind'
        /\ ~ EndComes /\ \A w : ~ EndComesSince(w)
    BY <2>1 DEF FramesEndRight, OvertakenIsBehind, EndComes, EndComesSince
  <2>3. MessagesRight'
    BY <1>d, <1>r, <2>1, <2>2 DEF ScreenInv, MessagesRight, MessagesWhole, MessagesCatchUp,
                                  Fresh, Standing
  <2>4. PreviewRight'
    BY <1>d, <1>r, <2>1, <2>2 DEF ScreenInv, PreviewRight, PreviewWhole, PreviewCatchesUp,
                                  Fresh, Standing
  <2>5. QED
    BY <2>2, <2>3, <2>4 DEF ScreenInv
<1>2. CASE subscribed
  <2>1. frames' = Append(frames, f) /\ \A r \in Requests : behind'[r] = behind[r]
    BY <1>0, <1>2, ScreenReads DEF Publish
  <2>0. f.status = server'[k]
    BY <1>r
  <2>2. /\ EndComes' <=> EndComes
        /\ \A w : EndComesSince(w) => EndComesSince(w)'
        /\ Overtaken' => Overtaken
        /\ \A m \in Ids : /\ Coming(m) \/ m = k => Coming(m)'
                          /\ Announced(m) \/ (m = k /\ f.type = "created") => Announced(m)'
        /\ \A j \in DOMAIN frames :
             /\ j \in DOMAIN frames'
             /\ \A m \in Ids : /\ m # k /\ Brings(m, j) => Brings(m, j)'
                               /\ Announces(m, j) => Announces(m, j)'
        /\ \E n \in DOMAIN frames' :
             /\ frames'[n] = f /\ Brings(k, n)' /\ (f.type = "created" => Announces(k, n)')
             /\ \A i \in DOMAIN frames' :
                  /\ i <= n
                  /\ i = n \/ (/\ i \in DOMAIN frames /\ frames'[i] = frames[i]
                               /\ Lives(i)' => Lives(i))
    BY <1>0, <1>r, <2>1, OneMore, <2>0, Reads
  <2>3. ASSUME NEW m \in Ids PROVE server'[m] <= server[m] \/ Coming(m)'
    BY <1>r, <2>2
  <2>4. \A r \in Requests : (Fresh(r)' <=> Fresh(r)) /\ (Standing(r)' <=> Standing(r))
    BY <1>0, <2>1, <2>2 DEF Fresh, Standing
  <2>5. MessagesRight'
    <3>1. ASSUME NEW m \in Ids, NEW a \in Nat, server[m] <= a \/ Coming(m)
          PROVE  server'[m] <= a \/ Coming(m)'
      BY <1>r, <2>2, <3>1
    <3>2. MessagesWhole'
      <4>1. SUFFICES ASSUME Fresh("messages"), NEW m \in Ids
                     PROVE  \/ server'[m] <= fetch["messages"].answer[m]
                            \/ Coming(m)'
                            \/ ~ EndComes /\ messages.loaded /\ server'[m] <= messages.status[m]
        BY <1>0, <1>r, <2>2, <2>4 DEF MessagesWhole
      <4>2. fetch["messages"].answer[m] \in Nat /\ messages.status[m] \in Nat
        BY <1>r
      <4>3. \/ server[m] <= fetch["messages"].answer[m]
            \/ Coming(m)
            \/ ~ EndComes /\ messages.loaded /\ server[m] <= messages.status[m]
        BY <4>1 DEF ScreenInv, MessagesRight, MessagesWhole
      <4>4. QED
        BY <3>1, <4>2, <4>3
    <3>3. MessagesCatchUp'
      <4>1. SUFFICES ASSUME Standing("messages")
                     PROVE  /\ messages.loaded
                            /\ \A m \in Ids : server'[m] <= messages.status[m] \/ Coming(m)'
        BY <1>0, <1>r, <2>4 DEF MessagesCatchUp
      <4>2. messages.loaded /\ \A m \in Ids : server[m] <= messages.status[m] \/ Coming(m)
        BY <4>1 DEF ScreenInv, MessagesRight, MessagesCatchUp
      <4>3. \A m \in Ids : messages.status[m] \in Nat
        BY <1>r
      <4>4. QED
        BY <3>1, <4>2, <4>3
    <3>4. QED
      <4>1. Dated("messages")'
        BY <1>d, <1>r, <2>2 DEF ScreenInv, MessagesRight
      <4>2. QED
        BY <3>2, <3>3, <4>1 DEF MessagesRight
  <2>6. PreviewRight'
    <3>1. PreviewWhole'
      <4>1. SUFFICES ASSUME Fresh("preview"), NEW m \in Ids
                     PROVE  /\ server'[m] <= fetch["preview"].answer[m] \/ Coming(m)'
                            /\ fetch["preview"].answer[m] # 0 \/ server'[m] = 0 \/ Announced(m)'
        BY <1>0, <1>r, <2>4 DEF PreviewWhole
      <4>2. /\ server[m] <= fetch["preview"].answer[m] \/ Coming(m)
            /\ fetch["preview"].answer[m] # 0 \/ server[m] = 0 \/ Announced(m)
        BY <4>1 DEF ScreenInv, PreviewRight, PreviewWhole
      <4>3. QED
        BY <1>r, <2>2, <4>2
    <3>2. PreviewCatchesUp'
      <4>1. SUFFICES ASSUME Standing("preview")
                     PROVE  PreviewCatchesUp'
        BY <1>r, <2>4 DEF PreviewCatchesUp
      <4>2. /\ preview.loaded
            /\ Newest(server) = 0 => preview.last = 0
            /\ Newest(server) # 0 =>
                 \/ Announced(Newest(server))
                 \/ /\ preview.last = Newest(server)
                    /\ preview.status = server[preview.last] \/ Coming(preview.last)
        BY <4>1 DEF ScreenInv, PreviewRight, PreviewCatchesUp
      <4>3. PICK s \in 0 .. Messages : s = Newest(server)
        BY <1>r
      <4>4. PICK p : p = preview.last
        OBVIOUS
      <4>5. CASE f.type = "created"
        <5>1. Newest(server)' = k /\ k # 0 /\ Announced(k)'
          BY <2>2, <4>5 DEF Ids
        <5>2. Announced(Newest(server))'
          BY <5>1 DEF Announced, Announces
        <5>3. QED
          BY <1>0, <4>2, <5>1, <5>2 DEF PreviewCatchesUp
      <4>6. CASE f.type # "created"
        <5>1. Newest(server)' = s /\ (s # 0 => s \in Ids)
          BY <4>3, <4>6 DEF Ids
        <5>2. s # 0 /\ Announced(s) => Announced(Newest(server))'
          BY <2>2, <5>1, <4>3 DEF Announced, Announces
        <5>3. ASSUME s # 0, p = s, preview.status = server[p] \/ Coming(p)
              PROVE  preview'.status = server'[preview'.last] \/ Coming(preview.last)'
          <6>1. preview.status = server'[p] \/ Coming(p)'
            BY <1>r, <2>2, <5>1, <5>3
          <6>2. Coming(p)' => Coming(preview.last)'
            BY <1>0, <4>4 DEF Coming, Brings
          <6>3. QED
            BY <1>0, <4>4, <6>1, <6>2
        <5>4. \/ s = 0 /\ p = 0
              \/ s # 0 /\ Announced(s)
              \/ s # 0 /\ p = s /\ (preview.status = server[p] \/ Coming(p))
          BY <4>2, <4>3, <4>4 DEF Announced
        <5>5. QED
          BY <1>0, <4>2, <4>4, <5>1, <5>2, <5>3, <5>4 DEF PreviewCatchesUp
      <4>7. QED
        BY <4>5, <4>6
    <3>3. QED
      <4>1. Dated("preview")'
        BY <1>d, <1>r, <2>2 DEF ScreenInv, PreviewRight
      <4>2. QED
        BY <3>1, <3>2, <4>1 DEF PreviewRight
  <2>7. FramesEndRight'
    <3>1. PICK n \in DOMAIN frames' :
             /\ frames'[n] = f /\ Brings(k, n)' /\ (f.type = "created" => Announces(k, n)')
             /\ \A i \in DOMAIN frames' :
                  /\ i <= n
                  /\ i = n \/ (/\ i \in DOMAIN frames /\ frames'[i] = frames[i]
                               /\ Lives(i)' => Lives(i))
      BY <2>2
    <3>2. SUFFICES ASSUME NEW i \in DOMAIN frames', Lives(i)'
                   PROVE  /\ \E j \in DOMAIN frames' : i <= j /\ Brings(frames[i].message, j)'
                          /\ frames'[i].type = "created" =>
                               \E j \in DOMAIN frames' : i <= j /\ Announces(Newest(server), j)'
      BY DEF FramesEndRight
    <3>3. PICK q, t : q = frames'[i].message /\ t = Newest(server')
      OBVIOUS
    <3>4. i <= n /\ (f.type = "created" => t = k /\ Announces(t, n)')
      BY <3>1, <3>3
    <3>5. i = n => q = k /\ frames'[i] = f
      BY <3>1, <3>3
    <3>6. i # n => i \in DOMAIN frames /\ frames'[i] = frames[i] /\ Lives(i)
      BY <3>1, <3>2
    <3>7. \E j \in DOMAIN frames' : i <= j /\ Brings(q, j)'
      <4>1. CASE q = k
        BY <3>1, <3>4, <4>1
      <4>2. CASE q # k
        <5>1. i \in DOMAIN frames /\ q = frames[i].message /\ Lives(i) /\ q \in Ids
          <6>1. i \in DOMAIN frames /\ q = frames[i].message /\ Lives(i)
            BY <3>3, <3>5, <3>6, <4>2
          <6>2. QED
            BY <1>0, <6>1, Reads DEF Lives, IsEnd
        <5>2. PICK j \in DOMAIN frames : i <= j /\ Brings(q, j)
          BY <5>1 DEF ScreenInv, FramesEndRight
        <5>3. QED
          BY <2>2, <4>2, <5>1, <5>2
      <4>3. QED
        BY <4>1, <4>2
    <3>8. frames'[i].type = "created" => \E j \in DOMAIN frames' : i <= j /\ Announces(t, j)'
      <4>1. SUFFICES ASSUME frames'[i].type = "created", f.type # "created"
                     PROVE  \E j \in DOMAIN frames' : i <= j /\ Announces(t, j)'
        BY <3>1, <3>4
      <4>2. i \in DOMAIN frames /\ frames[i].type = "created" /\ Lives(i) /\ t = Newest(server)
        BY <3>3, <3>5, <3>6, <4>1
      <4>3. PICK j \in DOMAIN frames : i <= j /\ Announces(t, j)
        BY <4>2 DEF ScreenInv, FramesEndRight
      <4>4. t \in Ids
        BY <1>0, <4>3, Reads DEF Announces, Lives, IsEnd
      <4>5. QED
        BY <2>2, <4>3, <4>4
    <3>9. \A j \in DOMAIN frames' : /\ Brings(q, j)' => Brings(frames[i].message, j)'
                                    /\ Announces(t, j)' => Announces(Newest(server), j)'
      BY <3>3 DEF Brings, Announces
    <3>10. QED
      BY <3>7, <3>8, <3>9
  <2>8. OvertakenIsBehind'
    BY <2>1, <2>2 DEF ScreenInv, OvertakenIsBehind
  <2>9. QED
    BY <2>5, <2>6, <2>7, <2>8 DEF ScreenInv
<1>3. QED
  BY <1>1, <1>2

\* The server ends a world and tells of it: nothing of the screen stands before the frame.
LEMMA EndScreen ==
  ASSUME IInv, TypeOK', ScreenInv, NEW f, Publish(f), Ends(f), f.world = wipes',
         wipes' = wipes + 1
  PROVE  ScreenInv'
<1>0. /\ TypeOK /\ frames \in Seq(Frames) /\ wipes \in Nat
      /\ UNCHANGED <<fetch, messages, preview, view>>
      /\ Dated("messages") /\ Dated("preview")
      /\ \A r \in Requests : fetch[r].world \in Nat
  BY Reads, ScreenReads DEF IInv, Publish, storeVars, ScreenInv, MessagesRight, PreviewRight
<1>1. /\ FramesEndRight' /\ OvertakenIsBehind'
      /\ \/ EndComes' /\ \A w \in Nat : w <= wipes => EndComesSince(w)'
         \/ \A r \in Requests : behind'[r]
  <2>1. CASE subscribed
    <3>1. frames' = Append(frames, f)
      BY <2>1 DEF Publish
    <3>n. PICK n \in Nat : n = Len(frames) + 1
      BY <1>0
    <3>2. DOMAIN frames' = 1 .. n /\ frames'[n] = f /\ n \in DOMAIN frames'
      BY <1>0, <3>1, <3>n
    <3>3. IsEnd(n)'
      BY <3>2 DEF IsEnd
    <3>4. ASSUME NEW i \in DOMAIN frames' PROVE IsEnd(i)' \/ EndAfter(i)'
      <4>1. i = n \/ i < n
        BY <3>2
      <4>2. QED
        BY <3>2, <3>3, <4>1 DEF EndAfter
    <3>5. ~ Overtaken'
      BY <3>4 DEF Overtaken, IsEnd, EndAfter
    <3>6. \A i \in DOMAIN frames' : ~ Lives(i)'
      BY <3>4 DEF Lives
    <3>7. \A w \in Nat : w <= wipes => w < f.world
      BY <1>0
    <3>8. EndComes' /\ \A w \in Nat : w <= wipes => EndComesSince(w)'
      BY <3>2, <3>3, <3>7 DEF EndComes, EndComesSince
    <3>9. QED
      BY <3>5, <3>6, <3>8 DEF FramesEndRight, OvertakenIsBehind
  <2>2. CASE ~ subscribed
    <3>1. frames' = <<>>
      BY <1>0, <2>2 DEF Publish, TypeOK
    <3>2. \A r \in Requests : behind'[r]
      BY <2>2 DEF Publish
    <3>3. QED
      BY <3>1, <3>2 DEF FramesEndRight, OvertakenIsBehind
  <2>3. QED
    BY <2>1, <2>2
<1>2. ASSUME NEW r \in Requests, Dated(r) PROVE Dated(r)' /\ ~ Fresh(r)' /\ ~ Standing(r)'
  <2>1. fetch[r].stage = "answered" => fetch[r].world < wipes' /\ fetch[r].world <= wipes
    BY <1>0, <1>2 DEF Dated
  <2>2. ~ Fresh(r)'
    BY <1>0, <2>1 DEF Fresh
  <2>3. fetch[r].stage = "answered" => EndComesSince(fetch[r].world)' \/ behind'[r]
    BY <1>0, <1>1, <2>1
  <2>4. Dated(r)'
    BY <1>0, <2>1, <2>3 DEF Dated
  <2>5. QED
    BY <1>1, <2>2, <2>4 DEF Standing
<1>3. MessagesRight' /\ PreviewRight'
  BY <1>0, <1>2 DEF MessagesRight, PreviewRight, MessagesWhole, PreviewWhole,
                    MessagesCatchUp, PreviewCatchesUp, Requests
<1>4. QED
  BY <1>1, <1>3 DEF ScreenInv

\* Every step of the server, the view, the reducer and the socket leaves it so.
LEMMA ScreenStep == IInv /\ ScreenInv /\ [Next]_vars => ScreenInv'
<1> SUFFICES ASSUME IInv, ScreenInv, [Next]_vars PROVE ScreenInv'
  OBVIOUS
<1>0. /\ TypeOK /\ TypeOK' /\ FramesTrue
      /\ FramesEndRight /\ OvertakenIsBehind
      /\ Dated("messages") /\ MessagesWhole /\ MessagesCatchUp
      /\ Dated("preview") /\ PreviewWhole /\ PreviewCatchesUp
  BY TypesStep DEF IInv, ScreenInv, MessagesRight, PreviewRight
<1>r. /\ frames \in Seq(Frames) /\ server \in Statuses /\ server \in [Ids -> Nat]
      /\ messages.status \in [Ids -> Nat]
      /\ \A r \in Requests : /\ fetch[r].answer \in Statuses
                             /\ fetch[r].answer \in [Ids -> Nat]
                             /\ fetch[r].world \in Nat
                             /\ behind[r] \in BOOLEAN
      /\ wipes \in Nat /\ created \in Nat
      /\ "messages" \in Requests /\ "preview" \in Requests
  BY <1>0, Reads, ScreenReads DEF Requests
\* A part of the screen that a step leaves alone, and one whose request starts over.
<1>m. ASSUME UNCHANGED <<frames, server, wipes, messages, view>>,
             fetch'["messages"] = fetch["messages"], behind'["messages"] = behind["messages"]
      PROVE  MessagesRight'
  <2>1. /\ EndComes' <=> EndComes
        /\ \A w : EndComesSince(w)' <=> EndComesSince(w)
        /\ \A m : Coming(m)' <=> Coming(m)
    BY <1>m, SameComing
  <2>2. Dated("messages")'
    BY <1>0, <1>m, <2>1 DEF Dated, InDatabase
  <2>3. MessagesWhole'
    BY <1>0, <1>m, <2>1 DEF MessagesWhole, Fresh
  <2>4. MessagesCatchUp'
    BY <1>0, <1>m, <2>1 DEF MessagesCatchUp, Standing
  <2>5. QED
    BY <2>2, <2>3, <2>4 DEF MessagesRight
<1>p. ASSUME UNCHANGED <<frames, server, wipes, preview, view>>,
             fetch'["preview"] = fetch["preview"], behind'["preview"] = behind["preview"]
      PROVE  PreviewRight'
  <2>1. /\ EndComes' <=> EndComes
        /\ \A w : EndComesSince(w)' <=> EndComesSince(w)
        /\ \A m : (Coming(m)' <=> Coming(m)) /\ (Announced(m)' <=> Announced(m))
    BY <1>p, SameComing
  <2>2. Dated("preview")'
    BY <1>0, <1>p, <2>1 DEF Dated, InDatabase
  <2>3. PreviewWhole'
    BY <1>0, <1>p, <2>1 DEF PreviewWhole, Fresh
  <2>4. PreviewCatchesUp'
    BY <1>0, <1>p, <2>1 DEF PreviewCatchesUp, Standing, Coming, Announced, Brings, Announces,
                            Lives, IsEnd, EndAfter
  <2>5. QED
    BY <2>2, <2>3, <2>4 DEF PreviewRight
<1>i. ASSUME NEW r \in Requests, fetch'[r].stage # "answered", ~ Standing(r)'
      PROVE  /\ r = "messages" => MessagesRight'
             /\ r = "preview" => PreviewRight'
  BY <1>i DEF MessagesRight, PreviewRight, Dated, MessagesWhole, PreviewWhole, MessagesCatchUp,
              PreviewCatchesUp, Fresh
<1>f. UNCHANGED <<frames, server, wipes>> =>
        /\ FramesEndRight'
        /\ UNCHANGED behind => OvertakenIsBehind'
  BY <1>0, SameComing
<1>1. CASE CreateMessage
  <2>1. /\ wipes' = wipes /\ created' \in Ids /\ created' = created + 1
        /\ server' = [server EXCEPT ![created'] = 1]
    BY <1>0, <1>1, <1>r, RankNat DEF CreateMessage, TypeOK, Ids
  <2>2. PICK k \in Ids : k = created'
    BY <2>1
  <2>3. server[k] = 0 /\ \A m \in Ids : server[m] # 0 => m <= k
    BY <1>0, <1>r, <2>1, <2>2 DEF TypeOK, Known, Ids
  <2>4. Newest(server') = k
    <3>1. server' \in Statuses
      BY <1>0, Parts DEF ServerTyped
    <3>2. /\ k \in 0 .. Messages /\ server'[k] # 0
          /\ \A m \in Ids : server'[m] # 0 => m <= k
      BY <1>r, <2>1, <2>2, <2>3, RankNat DEF Ids
    <3>3. QED
      BY <3>1, <3>2, NewestIsOne
  <2> DEFINE g == Frame("created", created', 1)
  <2>5. PICK f : f = g
    OBVIOUS
  <2>6. /\ f.type = "created" /\ f.message = k /\ f.status = 1 /\ f.world = wipes
        /\ Publish(f) /\ ~ Ends(f)
    BY <1>1, <2>1, <2>2, <2>5 DEF CreateMessage, Frame, Ends
  <2>7. server[k] <= f.status /\ server' = [server EXCEPT ![k] = f.status]
    BY <2>1, <2>2, <2>3, <2>6
  <2>8. QED
    BY <1>0, <2>1, <2>4, <2>6, <2>7, PublishScreen
<1>2. CASE \E m \in Ids : ChangeStatus(m)
  <2> PICK k \in Ids : ChangeStatus(k)
    BY <1>2
  <2>1. /\ wipes' = wipes /\ server' = [server EXCEPT ![k] = @ + 1]
        /\ server[k] \in Nat \ {0}
    BY RankNat DEF ChangeStatus
  <2>2. Newest(server') = Newest(server)
    <3>1. server' \in Statuses
      BY <1>0, Parts DEF ServerTyped
    <3>2. \A m \in Ids : server'[m] # 0 <=> server[m] # 0
      BY <1>r, <2>1
    <3>3. /\ Newest(server) \in 0 .. Messages
          /\ Newest(server) # 0 => Newest(server) \in Ids /\ server[Newest(server)] # 0
          /\ \A m \in Ids : server[m] # 0 => m <= Newest(server)
      BY <1>r, NewestIs, RankNat DEF Ids
    <3>4. QED
      BY <3>1, <3>2, <3>3, NewestIsOne
  <2> DEFINE g == Frame("status", k, server'[k])
  <2>3. PICK f : f = g
    OBVIOUS
  <2>4. /\ f.type = "status" /\ f.message = k /\ f.status = server[k] + 1 /\ f.world = wipes
        /\ Publish(f) /\ ~ Ends(f)
    BY <1>r, <2>1, <2>3 DEF ChangeStatus, Frame, Ends
  <2>5. server[k] <= f.status /\ server' = [server EXCEPT ![k] = f.status]
    BY <1>r, <2>1, <2>4
  <2>6. QED
    BY <1>0, <2>1, <2>2, <2>4, <2>5, PublishScreen
<1>3. CASE Wipe \/ DeleteNumber \/ AnnounceImport
  <2>1. PICK f : Publish(f) /\ Ends(f) /\ f.world = wipes' /\ wipes' = wipes + 1
    BY <1>3 DEF Wipe, DeleteNumber, AnnounceImport, Begin, Frame, Ends
  <2>2. QED
    BY <1>0, <2>1, EndScreen
<1>13. CASE \E content \in Files : Known(content) /\ Import(content)
  <2>1. /\ wipes' = wipes + 1 /\ UNCHANGED <<frames, fetch, view, messages, preview>>
        /\ \A r \in Requests : behind'[r]
    BY <1>13 DEF Import, Begin, socketVars, storeVars
  <2>2. \A i \in DOMAIN frames : ~ (frames[i].world = wipes + 1)
    BY <1>0, <1>r, Reads DEF FramesTrue
  <2>3. FramesEndRight' /\ OvertakenIsBehind'
    BY <2>1, <2>2 DEF FramesEndRight, Lives, OvertakenIsBehind
  <2>4. ASSUME NEW r \in Requests, Dated(r) PROVE Dated(r)' /\ ~ Fresh(r)' /\ ~ Standing(r)'
    <3>1. fetch[r].stage = "answered" => fetch[r].world <= wipes' /\ fetch[r].world # wipes'
      BY <1>r, <2>1, <2>4 DEF Dated
    <3>2. QED
      BY <2>1, <3>1 DEF Dated, Fresh, Standing
  <2>5. MessagesRight' /\ PreviewRight'
    BY <1>0, <1>r, <2>4 DEF MessagesRight, PreviewRight, MessagesWhole, PreviewWhole,
                            MessagesCatchUp, PreviewCatchesUp
  <2>6. QED
    BY <2>3, <2>5 DEF ScreenInv
<1>4. CASE \E r \in Requests : Answer(r)
  <2> PICK r \in Requests : Answer(r)
    BY <1>4
  <2>1. /\ UNCHANGED <<frames, server, wipes, messages, preview, view>>
        /\ fetch'[r] = [stage |-> "answered", answer |-> server, world |-> wipes]
        /\ \A q \in Requests : q # r => fetch'[q] = fetch[q] /\ behind'[q] = behind[q]
        /\ behind'[r] <=> Overtaken
    BY <1>0, <1>r DEF Answer, serverVars, socketVars, storeVars, TypeOK
  <2>2. Dated(r)' /\ ~ Standing(r)'
    BY <1>r, <2>1 DEF Dated, InDatabase, Standing
  <2>3. MessagesRight'
    <3>1. CASE r = "messages"
      <4>1. MessagesWhole'
        BY <1>r, <2>1, <3>1 DEF MessagesWhole
      <4>2. QED
        BY <2>2, <3>1, <4>1 DEF MessagesRight, MessagesCatchUp
    <3>2. QED
      BY <1>m, <1>r, <2>1, <3>1
  <2>4. PreviewRight'
    <3>1. CASE r = "preview"
      <4>1. PreviewWhole'
        BY <1>r, <2>1, <3>1 DEF PreviewWhole
      <4>2. QED
        BY <2>2, <3>1, <4>1 DEF PreviewRight, PreviewCatchesUp
    <3>2. QED
      BY <1>p, <1>r, <2>1, <3>1
  <2>5. OvertakenIsBehind'
    <3>1. Overtaken' <=> Overtaken
      BY <2>1 DEF Overtaken
    <3>2. QED
      BY <1>0, <2>1, <3>1 DEF OvertakenIsBehind
  <2>6. QED
    BY <1>f, <2>1, <2>3, <2>4, <2>5 DEF ScreenInv
<1>5. CASE OpenConversation \/ LeaveConversation \/ SelectAnother
  <2>1. /\ UNCHANGED <<frames, server, wipes, behind>>
        /\ \A r \in Requests : fetch'[r].stage # "answered" /\ ~ Standing(r)'
    BY <1>5 DEF OpenConversation, LeaveConversation, SelectAnother, serverVars, socketVars, Sent,
               NoFetch, Standing
  <2>2. QED
    BY <1>f, <1>i, <1>r, <2>1 DEF ScreenInv
<1>6. CASE MessagesLoaded
  <2>1. /\ UNCHANGED <<frames, server, wipes, preview, view, behind>>
        /\ fetch["messages"].stage = "answered"
        /\ fetch'["messages"].stage = "idle" /\ fetch'["preview"] = fetch["preview"]
    BY <1>0, <1>6, <1>r DEF MessagesLoaded, serverVars, socketVars, NoFetch, TypeOK
  <2>2. /\ EndComes' <=> EndComes
        /\ \A w : EndComesSince(w)' <=> EndComesSince(w)
        /\ \A m : Coming(m)' <=> Coming(m)
    BY <2>1, SameComing
  <2>3. ASSUME Standing("messages")'
        PROVE  messages'.loaded /\ \A m \in Ids : server[m] <= messages'.status[m] \/ Coming(m)
    <3>1. Fresh("messages") /\ ~ EndComes
      BY <1>0, <1>r, <2>1, <2>2, <2>3 DEF Standing, Dated, Fresh, EndComesSince, EndComes
    <3>2. /\ messages'.loaded
          /\ \A m \in Ids : messages'.status[m] =
               MergeStatus(messages.status[m], fetch["messages"].answer[m])
      BY <1>6 DEF MessagesLoaded
    <3>3. ASSUME NEW m \in Ids PROVE server[m] <= messages'.status[m] \/ Coming(m)
      <4>1. /\ server[m] \in Nat /\ messages.status[m] \in Nat
            /\ fetch["messages"].answer[m] \in Nat
        BY <1>r
      <4>2. /\ messages.status[m] <= messages'.status[m]
            /\ fetch["messages"].answer[m] <= messages'.status[m]
            /\ messages'.status[m] \in Nat
        BY <3>2, <4>1 DEF MergeStatus
      <4>3. \/ server[m] <= fetch["messages"].answer[m]
            \/ Coming(m)
            \/ server[m] <= messages.status[m]
        BY <1>0, <3>1 DEF MessagesWhole
      <4>4. QED
        BY <4>1, <4>2, <4>3
    <3>4. QED
      BY <3>2, <3>3
  <2>4. MessagesRight'
    BY <2>1, <2>2, <2>3 DEF MessagesRight, Dated, MessagesWhole, Fresh, MessagesCatchUp
  <2>5. QED
    BY <1>f, <1>p, <2>1, <2>4 DEF ScreenInv
<1>7. CASE ConversationsLoaded
  <2>1. /\ UNCHANGED <<frames, server, wipes, messages, view, behind>>
        /\ fetch["preview"].stage = "answered"
        /\ fetch'["preview"].stage = "idle" /\ fetch'["messages"] = fetch["messages"]
    BY <1>0, <1>7, <1>r DEF ConversationsLoaded, serverVars, socketVars, NoFetch, TypeOK
  <2>2. /\ EndComes' <=> EndComes
        /\ \A m : (Coming(m)' <=> Coming(m)) /\ (Announced(m)' <=> Announced(m))
    BY <2>1, SameComing
  <2>a. PICK a \in Statuses : a = fetch["preview"].answer
    BY <1>r
  <2>3. PICK n \in 0 .. Messages : n = Newest(a) /\ (n # 0 => n \in Ids /\ a[n] # 0)
    BY NewestIs, RankNat DEF Ids
  <2>4. PICK s \in 0 .. Messages : s = Newest(server) /\ (s # 0 => s \in Ids /\ server[s] # 0)
    BY <1>r, NewestIs, RankNat DEF Ids
  <2>5. /\ \A m \in Ids : a[m] # 0 => m <= n
        /\ \A m \in Ids : server[m] # 0 => m <= s
        /\ a \in [Ids -> Nat]
    BY <1>r, <2>a, <2>3, <2>4, NewestIs
  <2>6. preview' = [loaded |-> TRUE, last |-> n, status |-> IF n = 0 THEN 0 ELSE a[n]]
    BY <1>7, <2>a, <2>3 DEF ConversationsLoaded
  <2>7. ASSUME Standing("preview")'
        PROVE  /\ s = 0 => n = 0
               /\ s # 0 => Announced(s) \/ (n = s /\ (a[s] = server[s] \/ Coming(s)))
    <3>1. Fresh("preview")
      BY <1>0, <1>r, <2>1, <2>2, <2>7 DEF Standing, Dated, Fresh, EndComesSince, EndComes
    <3>2. \A m \in Ids : /\ a[m] <= server[m]
                         /\ server[m] <= a[m] \/ Coming(m)
                         /\ a[m] # 0 \/ server[m] = 0 \/ Announced(m)
      BY <1>0, <3>1, <2>a DEF PreviewWhole, Fresh, Dated, InDatabase
    <3>3. ASSUME n # 0 PROVE s # 0 /\ n <= s
      <4>1. n \in Ids /\ a[n] \in Nat \ {0} /\ server[n] \in Nat /\ a[n] <= server[n]
        BY <1>r, <2>3, <2>5, <3>2, <3>3
      <4>2. server[n] # 0
        BY <4>1
      <4>3. QED
        BY <2>5, <3>3, <4>1, <4>2, RankNat DEF Ids
    <3>4. ASSUME s # 0, ~ Announced(s) PROVE n = s /\ (a[s] = server[s] \/ Coming(s))
      <4>1. a[s] # 0 /\ s \in Ids
        BY <2>4, <3>2, <3>4
      <4>2. n = s
        BY <2>5, <3>3, <4>1, RankNat
      <4>3. QED
        BY <1>r, <2>5, <3>2, <4>1, <4>2
    <3>5. QED
      BY <3>3, <3>4
  <2>8. PreviewCatchesUp'
    <3>1. SUFFICES ASSUME Standing("preview")' PROVE PreviewCatchesUp'
      BY DEF PreviewCatchesUp
    <3>2. /\ Newest(server)' = s /\ preview'.loaded /\ preview'.last = n
          /\ n # 0 => preview'.status = a[n]
      BY <2>1, <2>4, <2>6
    <3>3. /\ Announced(s) => Announced(Newest(server))'
          /\ Coming(n) => Coming(preview.last)'
      BY <2>1, <3>2, SameComing DEF Announced, Announces, Coming, Brings, Lives, IsEnd, EndAfter
    <3>4. QED
      BY <2>1, <2>7, <3>1, <3>2, <3>3 DEF PreviewCatchesUp
  <2>9. PreviewRight'
    BY <2>1, <2>8 DEF PreviewRight, Dated, PreviewWhole, Fresh
  <2>10. QED
    BY <1>f, <1>m, <2>1, <2>9 DEF ScreenInv

<1>8. CASE ReceiveMessage
  <2>1. /\ frames # <<>> /\ frames' = Tail(frames)
        /\ UNCHANGED <<server, wipes, fetch, view>>
        /\ Head(frames).type \in {"created", "status"}
        /\ UpsertMessage(Head(frames)) /\ WithConversationOf(Head(frames))
        /\ \A r \in Requests : behind'[r] <=> behind[r] \/ PassesBy(r, Head(frames))
    BY <1>8 DEF ReceiveMessage, serverVars
  <2>2. /\ 1 \in DOMAIN frames /\ Head(frames) = frames[1]
        /\ Lives(1) <=> ~ EndComes /\ frames[1].world = wipes
        /\ ~ IsEnd(1) => (EndComes' <=> EndComes)
        /\ \A w : EndComesSince(w) => EndComesSince(w)' \/ (IsEnd(1) /\ w < frames[1].world)
        /\ Overtaken' => Overtaken
        /\ \A m : /\ Coming(m) => Coming(m)' \/ Brings(m, 1)
                  /\ Announced(m) => Announced(m)' \/ Announces(m, 1)
        /\ \A m : \A j \in DOMAIN frames : 1 <= j =>
             /\ Brings(m, j) => Coming(m)' \/ Brings(m, 1)
             /\ Announces(m, j) => Announced(m)' \/ Announces(m, 1)
        /\ FramesEndRight'
    BY <1>0, <1>r, <2>1, OneTaken
  <2>3. PICK k \in Ids, v \in Nat \ {0} : k = frames[1].message /\ v = frames[1].status
    <3>1. ~ IsEnd(1)
      BY <2>1, <2>2 DEF IsEnd, Ends
    <3>2. QED
      BY <1>0, <2>2, <3>1, Reads, ScreenReads DEF IsEnd
  <2>4. /\ ~ IsEnd(1)
        /\ EndComes' <=> EndComes
        /\ \A m : Brings(m, 1) => ~ EndComes /\ m = k /\ v = server[m]
        /\ \A m : Announces(m, 1) => ~ EndComes /\ m = k /\ frames[1].type = "created"
    BY <2>1, <2>2, <2>3 DEF IsEnd, Ends, Brings, Announces
  <2>5. \A r \in Requests :
          /\ Dated(r) => Dated(r)'
          /\ Standing(r)' => Standing(r)
          /\ Fresh(r)' => /\ Fresh(r)
                          /\ (r = "messages" /\ messages.loaded) \/ v <= fetch[r].answer[k]
    BY <1>r, <2>1, <2>2, <2>3, <2>4 DEF Dated, Standing, Fresh, PassesBy, InDatabase
  <2>6. ASSUME NEW m \in Ids, messages.loaded
        PROVE  /\ messages'.loaded /\ messages'.status[m] \in Nat
               /\ messages.status[m] <= messages'.status[m]
               /\ m = k => v <= messages'.status[m]
    <3>1. messages' = [messages EXCEPT !.status[k] = MergeStatus(@, v)]
      BY <2>1, <2>2, <2>3, <2>6 DEF UpsertMessage
    <3>2. messages'.loaded /\ messages'.status = [messages.status EXCEPT ![k] = MergeStatus(@, v)]
      BY <1>0, <2>6, <3>1 DEF TypeOK
    <3>3. messages.status[m] \in Nat /\ messages.status[k] \in Nat
      BY <1>r
    <3>4. QED
      BY <1>r, <2>3, <3>2, <3>3 DEF MergeStatus
  <2>7. MessagesRight'
    <3>1. MessagesWhole'
      <4>1. SUFFICES ASSUME Fresh("messages")', NEW m \in Ids
                     PROVE  \/ server[m] <= fetch["messages"].answer[m]
                            \/ Coming(m)'
                            \/ ~ EndComes' /\ messages'.loaded /\ server[m] <= messages'.status[m]
        BY <2>1 DEF MessagesWhole
      <4>2. /\ fetch["messages"].answer[m] \in Nat /\ messages.status[m] \in Nat
            /\ server[m] \in Nat
        BY <1>r
      <4>3. /\ Fresh("messages")
            /\ messages.loaded \/ v <= fetch["messages"].answer[k]
        BY <1>r, <2>5, <4>1
      <4>4. \/ server[m] <= fetch["messages"].answer[m]
            \/ Coming(m)
            \/ ~ EndComes /\ messages.loaded /\ server[m] <= messages.status[m]
        BY <1>0, <4>3 DEF MessagesWhole
      <4>5. CASE Coming(m)
        <5>1. Coming(m)' \/ (~ EndComes /\ m = k /\ v = server[m])
          BY <2>2, <2>4, <4>5
        <5>2. QED
          BY <2>4, <2>6, <4>3, <5>1
      <4>6. CASE ~ EndComes /\ messages.loaded /\ server[m] <= messages.status[m]
        BY <2>4, <2>6, <4>2, <4>6
      <4>7. QED
        BY <4>4, <4>5, <4>6
    <3>2. MessagesCatchUp'
      <4>1. SUFFICES ASSUME Standing("messages")'
                     PROVE  /\ messages'.loaded
                            /\ \A m \in Ids : server[m] <= messages'.status[m] \/ Coming(m)'
        BY <2>1 DEF MessagesCatchUp
      <4>2. messages.loaded /\ \A m \in Ids : server[m] <= messages.status[m] \/ Coming(m)
        BY <1>0, <1>r, <2>5, <4>1 DEF MessagesCatchUp
      <4>3. ASSUME NEW m \in Ids
            PROVE  messages'.loaded /\ (server[m] <= messages'.status[m] \/ Coming(m)')
        <5>1. Coming(m) => Coming(m)' \/ (m = k /\ v = server[m])
          BY <2>2, <2>4
        <5>2. server[m] \in Nat /\ messages.status[m] \in Nat
          BY <1>r
        <5>3. QED
          BY <2>6, <4>2, <5>1, <5>2
      <4>4. QED
        BY <4>3, RankNat, ClientAssumption DEF Ids
    <3>3. QED
      BY <1>0, <1>r, <2>5, <3>1, <3>2 DEF MessagesRight
  <2>8. PreviewRight'
    <3>1. PreviewWhole'
      <4>1. SUFFICES ASSUME Fresh("preview")', NEW m \in Ids
                     PROVE  /\ server[m] <= fetch["preview"].answer[m] \/ Coming(m)'
                            /\ fetch["preview"].answer[m] # 0 \/ server[m] = 0 \/ Announced(m)'
        BY <2>1 DEF PreviewWhole
      <4>2. Fresh("preview") /\ v <= fetch["preview"].answer[k]
        BY <1>r, <2>5, <4>1
      <4>3. fetch["preview"].answer[k] # 0
        BY <1>r, <4>2
      <4>4. /\ server[m] <= fetch["preview"].answer[m] \/ Coming(m)
            /\ fetch["preview"].answer[m] # 0 \/ server[m] = 0 \/ Announced(m)
        BY <1>0, <4>2 DEF PreviewWhole
      <4>5. /\ Coming(m) => Coming(m)' \/ (m = k /\ v = server[m])
            /\ Announced(m) => Announced(m)' \/ m = k
        BY <2>2, <2>4
      <4>6. QED
        BY <4>2, <4>3, <4>4, <4>5
    <3>2. PreviewCatchesUp'
      <4>1. SUFFICES ASSUME Standing("preview")' PROVE PreviewCatchesUp'
        BY DEF PreviewCatchesUp
      <4>2. /\ preview.loaded
            /\ Newest(server) = 0 => preview.last = 0
            /\ Newest(server) # 0 =>
                 \/ Announced(Newest(server))
                 \/ /\ preview.last = Newest(server)
                    /\ preview.status = server[preview.last] \/ Coming(preview.last)
        BY <1>0, <1>r, <2>5, <4>1 DEF PreviewCatchesUp
      <4>3. PICK s \in 0 .. Messages :
              /\ s = Newest(server) /\ (s # 0 => s \in Ids)
              /\ \A m \in Ids : server[m] # 0 => m <= s
        <5>1. /\ Newest(server) \in 0 .. Messages
              /\ \A m \in Ids : server[m] # 0 => m <= Newest(server)
          BY <1>r, NewestIs
        <5>2. Newest(server) # 0 => Newest(server) \in Ids
          BY <5>1, RankNat DEF Ids
        <5>3. QED
          BY <5>1, <5>2
      <4>4. PICK p, q : p = preview.last /\ q = preview'.last
        OBVIOUS
      \* No wipe comes, so this frame is of the present world and tells what is there.
      <4>5. ~ EndComes /\ Lives(1) /\ s # 0
        <5>1. ~ EndComes /\ Lives(1)
          <6>1. ~ EndComes /\ ~ behind["preview"]
            BY <1>r, <2>4, <2>5, <4>1 DEF Standing
          <6>2. ~ Overtaken
            BY <1>0, <1>r, <6>1 DEF OvertakenIsBehind
          <6>3. ~ (frames[1].world < wipes)
            BY <2>2, <2>4, <6>1, <6>2 DEF Overtaken, IsEnd, EndComes
          <6>4. frames[1].world = wipes
            BY <1>0, <1>r, <2>2, <6>3, Reads DEF FramesTrue
          <6>5. QED
            BY <2>2, <6>1, <6>4
        <5>2. PICK j \in DOMAIN frames : Brings(frames[1].message, j)
          BY <1>0, <2>2, <5>1 DEF FramesEndRight
        <5>3. server[k] # 0
          <6>1. frames[j].status = server[k] /\ ~ IsEnd(j)
            BY <2>3, <5>2 DEF Brings, Lives
          <6>2. QED
            BY <1>0, <6>1, ScreenReads
        <5>4. k <= s /\ k # 0
          BY <4>3, <5>3, RankNat DEF Ids
        <5>5. QED
          BY <5>1, <5>2, <5>4, RankNat DEF Ids
      <4>6. Coming(k)' \/ v = server[k]
        <5>1. PICK j \in DOMAIN frames : 1 <= j /\ Brings(frames[1].message, j)
          BY <1>0, <2>2, <4>5 DEF FramesEndRight
        <5>2. Brings(k, j)
          BY <2>3, <5>1
        <5>3. QED
          BY <2>2, <2>4, <5>1, <5>2
      <4>7. frames[1].type = "created" => k = s \/ Announced(s)'
        <5>1. SUFFICES ASSUME frames[1].type = "created" PROVE k = s \/ Announced(s)'
          OBVIOUS
        <5>2. PICK j \in DOMAIN frames : 1 <= j /\ Announces(Newest(server), j)
          BY <1>0, <2>2, <4>5, <5>1 DEF FramesEndRight
        <5>3. Announces(s, j)
          BY <4>3, <5>2
        <5>4. QED
          BY <2>2, <2>4, <5>2, <5>3
      <4>8. IF frames[1].type = "created" \/ p = k
            THEN q = k /\ preview'.status = v /\ preview'.loaded
            ELSE q = p /\ preview'.status = preview.status /\ preview'.loaded
        BY <1>0, <2>1, <2>2, <2>3, <4>2, <4>4 DEF WithConversationOf, TypeOK
      <4>9. Announced(s)' \/ (q = s /\ (preview'.status = server[s] \/ Coming(s)'))
        <5>1. CASE frames[1].type = "created"
          BY <4>6, <4>7, <4>8, <5>1
        <5>2. CASE frames[1].type # "created"
          <6>1. \/ Announced(s)
                \/ p = s /\ (preview.status = server[s] \/ Coming(s))
            BY <4>2, <4>3, <4>4, <4>5
          <6>2. /\ Announced(s) => Announced(s)'
                /\ s # k /\ Coming(s) => Coming(s)'
            BY <2>2, <2>4, <5>2
          <6>3. QED
            BY <4>6, <4>8, <5>2, <6>1, <6>2
        <5>3. QED
          BY <5>1, <5>2
      <4>10. /\ Announced(s)' => Announced(Newest(server))'
             /\ q = s /\ Coming(s)' => Coming(preview.last)'
             /\ Newest(server)' = s
        BY <2>1, <4>3, <4>4 DEF Announced, Announces, Coming, Brings
      <4>11. QED
        BY <2>1, <4>4, <4>5, <4>8, <4>9, <4>10 DEF PreviewCatchesUp
    <3>3. QED
      BY <1>0, <1>r, <2>5, <3>1, <3>2 DEF PreviewRight
  <2>9. OvertakenIsBehind'
    BY <1>0, <2>1, <2>2 DEF OvertakenIsBehind
  <2>10. QED
    BY <2>2, <2>7, <2>8, <2>9 DEF ScreenInv
<1>9. CASE ReceiveWipe
  <2>1. /\ frames # <<>> /\ frames' = Tail(frames)
        /\ UNCHANGED <<server, wipes, fetch, view>>
        /\ Head(frames).type = "wiped"
        /\ \A r \in Requests :
             behind'[r] <=> \/ behind[r]
                            \/ /\ fetch[r].stage = "answered"
                               /\ fetch[r].world < Head(frames).world
                            \/ view = "open" /\ fetch[r].stage = "idle"
    BY <1>9 DEF ReceiveWipe, serverVars
  <2>2. /\ 1 \in DOMAIN frames /\ Head(frames) = frames[1]
        /\ \A w : EndComesSince(w) => EndComesSince(w)' \/ (IsEnd(1) /\ w < frames[1].world)
        /\ Overtaken' => Overtaken
        /\ \A m : /\ Coming(m) => Coming(m)' \/ Brings(m, 1)
                  /\ Announced(m) => Announced(m)' \/ Announces(m, 1)
        /\ FramesEndRight'
    BY <1>0, <1>r, <2>1, OneTaken
  <2>3. IsEnd(1) /\ EndComes /\ \A m : ~ Brings(m, 1) /\ ~ Announces(m, 1)
    BY <2>1, <2>2 DEF IsEnd, Ends, EndComes, Brings, Announces, Lives
  <2>5. \A r \in Requests :
          /\ Dated(r) => Dated(r)'
          /\ ~ Standing(r)'
          /\ Fresh(r)' => Fresh(r)
    BY <1>r, <2>1, <2>2 DEF Dated, Standing, Fresh, InDatabase
  <2>6. MessagesWhole'
    BY <1>0, <1>r, <2>1, <2>2, <2>3, <2>5 DEF MessagesWhole
  <2>7. PreviewWhole'
    BY <1>0, <1>r, <2>1, <2>2, <2>3, <2>5 DEF PreviewWhole
  <2>8. MessagesRight' /\ PreviewRight'
    BY <1>0, <1>r, <2>5, <2>6, <2>7 DEF MessagesRight, PreviewRight, MessagesCatchUp,
                                        PreviewCatchesUp
  <2>9. OvertakenIsBehind'
    BY <1>0, <2>1, <2>2 DEF OvertakenIsBehind
  <2>10. QED
    BY <2>2, <2>8, <2>9 DEF ScreenInv
<1>14. CASE ReceiveDeletion
  <2>1. /\ frames # <<>> /\ frames' = Tail(frames) /\ UNCHANGED <<server, wipes, behind>>
        /\ \A r \in Requests : fetch'[r].stage # "answered" /\ ~ Standing(r)'
    BY <1>14 DEF ReceiveDeletion, serverVars, NoFetch, Standing
  <2>2. FramesEndRight' /\ (Overtaken' => Overtaken)
    BY <1>0, <1>r, <2>1, OneTaken
  <2>3. OvertakenIsBehind'
    BY <1>0, <2>1, <2>2 DEF OvertakenIsBehind
  <2>4. QED
    BY <1>i, <1>r, <2>1, <2>2, <2>3 DEF ScreenInv
<1>10. CASE Drop
  <2>1. /\ frames' = <<>> /\ UNCHANGED <<server, wipes, fetch, view, messages, preview>>
        /\ \A r \in Requests : behind'[r] = (behind[r] \/ frames # <<>>)
    BY <1>10 DEF Drop, serverVars, storeVars
  <2>2. CASE frames = <<>>
    <3>1. /\ frames' = frames /\ behind' = behind
          /\ behind'["messages"] = behind["messages"] /\ behind'["preview"] = behind["preview"]
      BY <1>0, <1>r, <1>10, <2>1, <2>2, ScreenReads DEF Drop
    <3>2. QED
      BY <1>f, <1>m, <1>p, <2>1, <3>1 DEF ScreenInv
  <2>3. CASE frames # <<>>
    <3>1. \A r \in Requests : /\ Dated(r) => Dated(r)'
                              /\ ~ Fresh(r)' /\ ~ Standing(r)'
      BY <1>r, <2>1, <2>3 DEF Dated, InDatabase, Fresh, Standing
    <3>2. MessagesRight' /\ PreviewRight'
      BY <1>0, <1>r, <3>1 DEF MessagesRight, PreviewRight, MessagesWhole, PreviewWhole,
                              MessagesCatchUp, PreviewCatchesUp
    <3>3. FramesEndRight' /\ OvertakenIsBehind'
      BY <2>1 DEF FramesEndRight, OvertakenIsBehind, Overtaken
    <3>4. QED
      BY <3>2, <3>3 DEF ScreenInv
  <2>4. QED
    BY <2>2, <2>3
<1>11. CASE Reconnect \/ RecreateNumber \/ FailImport \/ UNCHANGED vars
  <2>1. UNCHANGED <<frames, server, wipes, messages, preview, view, fetch, behind>>
    BY <1>11 DEF Reconnect, RecreateNumber, FailImport, serverVars, socketVars, storeVars, vars
  <2>2. QED
    BY <1>f, <1>m, <1>p, <2>1 DEF ScreenInv
<1>12. QED
  BY <1>1, <1>2, <1>3, <1>4, <1>5, <1>6, <1>7, <1>8, <1>9, <1>10, <1>11, <1>13, <1>14
  DEF Next

\* Once all is quiet, the screen is the database's, message by message: the conversation,
\* but for ghosts, unless a frame met an older first page in flight, the socket was down, a
\* wipe found the page open, or an import has not been announced; and the preview in the
\* conversation list.
THEOREM SettledScreenHolds == Spec => []SettledScreenIsCurrent
<1>1. Init => IInv
  BY InventedAtFirst
<1>2. Init => ScreenInv
  BY DEF Init, ScreenInv, FramesEndRight, OvertakenIsBehind, Overtaken, MessagesRight, PreviewRight, Dated, MessagesWhole,
         PreviewWhole, MessagesCatchUp, PreviewCatchesUp, Fresh, Standing, NoFetch, Requests
<1>3. IInv /\ ScreenInv /\ [Next]_vars => IInv' /\ ScreenInv'
  BY InventedStep, ScreenStep
<1>4. IInv /\ ScreenInv => SettledScreenIsCurrent
  <2> SUFFICES ASSUME IInv, ScreenInv, Settled PROVE SettledScreenIsCurrent
    BY DEF SettledScreenIsCurrent
  <2>1. /\ ~ EndComes /\ \A m : ~ Coming(m) /\ ~ Announced(m)
        /\ \A r \in Requests : ~ behind[r] => Standing(r)
    BY DEF Settled, EndComes, Coming, Announced, Standing
  <2>2. ASSUME ~ behind["messages"]
        PROVE  messages.loaded /\ \A m \in Ids \ ghosts : messages.status[m] = server[m]
    <3>1. messages.loaded /\ \A m \in Ids : server[m] <= messages.status[m]
      BY <2>1, <2>2 DEF ScreenInv, MessagesRight, MessagesCatchUp, Requests
    <3>2. \A m \in Ids \ ghosts : messages.status[m] <= server[m]
      BY DEF IInv, ScreenTrue, TakeComes, Settled
    <3>3. server \in [Ids -> Nat] /\ messages.status \in [Ids -> Nat]
      BY Reads DEF IInv
    <3>4. QED
      BY <3>1, <3>2, <3>3
  <2>3. ASSUME ~ behind["preview"]
        PROVE  /\ preview.loaded
               /\ preview.last = Newest(server)
               /\ preview.last # 0 => preview.status = server[preview.last]
    BY <2>1, <2>3 DEF ScreenInv, PreviewRight, PreviewCatchesUp, Requests
  <2>4. QED
    BY <2>2, <2>3 DEF SettledScreenIsCurrent
<1>5. QED
  BY <1>1, <1>2, <1>3, <1>4, PTL DEF Spec
==============================================================================
