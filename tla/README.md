# whaloc in TLA+

whaloc emulates Meta's side of the WhatsApp Cloud API: a Graph surface, a control plane and a
web client over one SQLite database, one media directory and one Node process. This directory
holds TLA+ modules of its core behaviour, the TLC runs that check them on small instances, and
TLAPS proofs of the properties that matter most. Paths below are relative to
`packages/server/src/` unless they say otherwise.

## The atomicity rule

Everything rests on one fact about the runtime. The SQLite driver
(`db/node-sqlite-dialect.ts`, 59-80 and 148-167) executes queries synchronously and resumes the
caller in a microtask. So a stretch of a handler that only awaits the database runs to completion
before another request, timer or answer is looked at, although it contains many `await`s.
**One action of a module is one such stretch.** Handlers interleave at, and only at:

- storage I/O (`mediaStorage.put/get/delete`), so between the two halves of a reset or a delete;
- `fetch` and `scheduler.sleep` in the webhook emitter;
- reading a request body, before a handler touches any state;
- timers, and the end of the process.

The modules therefore do not interleave inside a stretch, and the rule is a limit of what they
show: a driver that really waited (a worker thread, a networked database) would need finer
actions, and so would two requests pipelined in one TCP segment, whose handlers Node starts in
one turn of the event loop.

The database is taken to be a file, which a restart keeps; with `:memory:` a restart is a reset
without its first half.

## Inventory

| Component | State | Operations | Hard part | Module |
|---|---|---|---|---|
| Status ladder (`domain/status-ladder.ts`, `message-service.ts`, `inbound-service.ts`, `read-receipt-service.ts`) | `messages.status`, a timer per message in `#pending` | send, simulate inbound, climb, manual transition, read receipt | timers race manual transitions, deletes, resets, imports, restarts | `StatusLadder` |
| Webhook emitter (`domain/webhook-emitter.ts`) | a loop per delivery, the `webhook_deliveries` log | emit, attempt, retry, re-deliver; reset, export, import of the log | independent retry loops over a log others wipe or replace; restart loses loops | `WebhookEmitter`, `DeliveryContract` |
| Template review (`domain/template-lifecycle.ts`, `template-service.ts`) | `templates.status`, a timer per template | create, edit, delete, moderate, auto-approve | approval timer against edits and decisions; reseeding under the same id | `TemplateReview` |
| Template listing (`db/repositories/template-repository.ts`, `graph-api/template-routes.ts`) | rows ordered by `(created_at, id)`, the consumer's cursor | page forwards, page backwards | rows change under the walk; equal timestamps; lost cursor | `TemplatePaging` |
| Resumable uploads (`domain/upload-service.ts`, `storage/local-dir-storage.ts`) | session row, object in the media directory | open, status, append | read-modify-write of an object with I/O in it; failed put; crash between put and update | `UploadSession` |
| Reset, seed, export, import (`domain/reset-service.ts`, `apply-seed.ts`, `snapshot-service.ts`) | all tables, all timers, all bytes | reset (two halves), export, import (two halves), restart | what happens between the halves; a second half that never comes; ids that come back | actions of the modules above |
| Accounts and numbers (`domain/waba-service.ts`, `phone-number-service.ts`, `meta-id-registry.ts`) | `wabas`, `phone_numbers`, ids, subscriptions, a seed | create, rename, delete, the registration ladder, reseed | ids and MSISDNs that were taken meanwhile; handlers that wait for a body; cascades | `Accounts`, `GraphApi` |
| Error injection, tokens (`domain/injection-service.ts`, `graph-api/injection.ts`, `bearer-auth.ts`, `token-registry.ts`) | rules with counters, expired tokens | authenticate, evaluate, create, delete, expire | several rules judge one request, one answers; counters across requests | `RequestGate`, `GraphApi` |
| Media objects (`domain/media-service.ts`) | `media` rows, bytes | upload, delete, expire | no transaction spans rows and bytes: deletes, resets, exports and imports overlap | `MediaStore` |
| Contacts (`domain/contact-service.ts`, `conversation-service.ts`) | `contacts`, messages by `contact_wa_id` | create, update, change number | names that move to other people; everything keyed by name | `Conversations` |
| Typing indicators (`domain/typing-service.ts`) | a map and a timer per conversation | raise, dismiss, expire | re-raises against left-over timers; a number change under an indicator | `Conversations` |
| Web client, one conversation (`packages/web/src/store/`) | messages, preview | REST answers, WebSocket events, reconnect | answers and events overtaking each other, a socket that drops, messages taken by a reset, an import or a deleted number | `ClientStore` |
| Web client, chat view (`packages/web/src/features/chats/chats-page.tsx`) | contacts, lists by conversation, bubbles, the URL | answers, frames, navigation, following a move | the view follows in an effect what frames and its own answers re-key | `Conversations` |
| Web client, composer (`features/chats/composer.tsx`) | draft, reply, reaction, disabled controls | type, switch, send, upload, tap | an answer finds another conversation or form on screen | `Composer` |
| Web client, console (`components/scope-gate.tsx`, `store/scope.ts`, the other pages) | snapshot, scope, rules, tokens, templates, log, URL | GETs, echoes of its own requests, frames, redirects | three sources race for one store; the URL and the store must agree | `Console` |
| Profile, account events, wire formats, driver, configuration, rendering | rows or pure data | single-stretch updates | little or none | see "Not modelled" |

The components call each other in one direction: services change rows, then publish an event to
the WebSocket and hand a webhook to the emitter as a background task nobody waits for. What comes
back asynchronously are timers (ladder, review, typing), storage results and webhook answers.

What makes each component correct:

- *ladder*: a status only moves forward; the consumer hears it in that order, once; no timer the
  ladder forgot is still armed; a queued message arrives.
- *emitter*: every attempt is logged, beside what an import brought back, only transient failures are retried, an answer is final, a
  delivery ends.
- *review*: content is approved only by a timer armed for that content or by a human; the consumer
  knows the status of every template it was told about.
- *listing*: a walk misses nothing that was there all along, repeats nothing, ends.
- *uploads*: the offset tells what is stored, a handle is given for exactly the file, no bytes are
  left behind.
- *media*: a row has its file and a file its row, a snapshot is a database that can be imported.
- *accounts*: a connected number has something that vouches for it, an MSISDN is one number, an id
  is one object.
- *gates*: a rule answers exactly the requests its trigger promises, whatever the other rules do.
- *contacts and typing*: what is kept by number stays with its person; an indicator has one timer and
  its bubble goes.
- *composer*: a quote stays in its conversation, the form never stays disabled.
- *web client*: nothing is shown that is not true, nothing held loses ground, once all is quiet
  the screen shows what the server has, and whatever link is followed a page is shown.

## Modules

### StatusLadder

`status`, `phones` are rows; `timers` is what the event loop holds, `pending` the map
`#pending`: they are separate so that a timer that was forgotten and not cancelled is a state of
the model. `emitted` is the history of the webhooks handed to the emitter for the present row.

Actions: `Send`, `SimulateInbound`, `Fire` (timer callback and `#climb`), `MarkStatus` (cancels the
timer even when it refuses), `ReadReceipt`, `CreatePhone`, `DeletePhone` (rows cascade, timers are
not told), `ResetBegin` / `ResetFinish`, `ExportState`, `ImportState`, `Restart`.

- `TimerIsNextRung` and `ConsumerToldInOrder` are the invariants that are run,
  `ForwardOnly` an action property that an import, and nothing else, may break, `ReachesDelivered`
  the liveness property. `TimersTracked` and `RowsHaveTheirPhone`, which they rest on, are proved.
- Refusals that change nothing (a number that is not `CONNECTED`, an unknown recipient) are sends
  that do not happen. Contacts are not modelled: deleting one is not offered by any route.

### WebhookEmitter and DeliveryContract

A loop is an emission or a re-delivery: `phase` is its place, `ended` its attempts with an outcome,
`log` the table. `file` is the log's rows in the snapshot exported last: none, if it was exported without
`?include=deliveries`. `Export` reads them, and `ReplaceLog` is what both a reset (`WipeLog`, no rows) and
`replaceAll()` (`Import`, the file's rows) make of the table, under loops that go on. `wiped` and `restored`
are history: how many attempts had ended at the last replacement, and the rows it brought back.
`EveryAttemptLogged` says that `restored` is there unchanged, that besides it the rows of a loop are exactly its
attempts since, and that no attempt has two rows, one from the file included. A file of another server
holds rows of deliveries this one never ran; such rows meet none of its own and are left out.

`DeliveryContract` is the abstract
specification: skipped, or tried until an answer, at most `MaxAttempts` times, or lost with the
process. `KeepsContract` is the refinement, with `fate` computed from `phase` and `last`.
`CHECK_DEADLOCK FALSE`: once all bounded events are delivered nothing is left to do. The GET
handshake is not modelled.

### TemplateReview

Like the ladder, with a `edition` per template so that an approval timer carries the content it was
armed for, and `heard`, what the app under test was told last. `Missing` and `Reseeded` are
`applySeed()`: a seeded template that is gone comes back `APPROVED`, silently, under its old id.
Not modelled: the quality score, and the validation of the components.

### TemplatePaging

Ids are numbers, `createdAt` milliseconds, so equal timestamps happen. `matching` are the rows the
filters let through; `Update` moves a row in or out. A page and its `hasNext`/`hasPrevious` are read
in one stretch (`ReadPage`). `seen`, `repeated`, `lasting`, `cursorLost` are history.
`CHECK_DEADLOCK FALSE`: a finished walk over a finished set of templates stops.

### UploadSession

An append is five steps because it waits for the storage four times: `BeginAppend` (the checks),
`ReadObject`, `OpenForWriting` (truncates), `Written`, `Commit` (updates the row from what was put).
Objects are sequences of the numbers of the file's bytes. `overlapped` and `torn` are history: two
appends (or an append and a reset) at once, and a put that failed or a process that ended while the
object was rewritten. The invariants say that these are the *only* ways to go wrong.
Put, get and delete are those of the local directory: an S3 object is replaced at once, so a failed
put over S3 keeps the old bytes. A read that fails half way is a request that is never committed.
One reset runs at a time. `CHECK_DEADLOCK FALSE`: a completed session has no further step.

### MediaStore

`db` is the rows, `disk` the files, `job[w]` the place of a request: `keys` are the files it still has
to delete (or write, or read), `later` what follows. An operation is a `Begin...` up to its first
storage call, one step per file, and an `End...`; an operation without files to touch is one step,
as in the code. `Walk` is the loop of `WabaService.delete`: it lists the numbers once, deletes them one
by one, and gives up at one that somebody else deleted. The order in which it meets them is left open.

A file can stay behind, and a row can lose its file: `spoiled` is a history of the overlaps, failed
storage calls and restarts after which that may be so, and the invariants say that nothing *else* leads
there. Every cause in `Risks` and every `Mishap` (a failed storage call, a restart) is needed: without it
TLC finds the invariant violated. What a reader should take from it:

- An upload beside the delete of its number, its account or a reset leaves its file behind: the file
  is written first, and the insert then fails on the foreign key, or the row goes with the cascade.
- An import beside nearly anything leaves files behind, and beside another import rows without files.
- An export beside a delete carries rows without bytes; the code says so in a warning.
- Two deletes, two resets, uploads beside uploads, exports beside uploads are safe.

The expiry of media hides a row and removes nothing; it is not modelled. The file written by a
restore appears at once (`UploadSession` models how a put truncates and grows an object). One account
is enough: accounts share nothing. The bytes of upload sessions are in `UploadSession`.

### Accounts, RequestGate and GraphApi

`GraphApi` composes the two others: `Arrive` is the bearer gate, then the rules, then the handler;
`Unauthenticated` and `Injected` are the requests a gate answered. A handler that reads a body is in
`inFlight` until `BodyRead`, and acts on the state it finds then: the number may be gone, registered or
renamed. `Refusal` has the checks in the code's order, as a set of at most one failure, `Effect` what
an accepted request does. The control plane, restarts (which apply the seed over what the database
holds by then) and resets come between any two of them.

`Accounts`: `numbers` are the rows, `proof` is not a column but remembers what vouches for a row's
owner (a code, a pre-verified number, the control plane, the seed). `minted` are all ids a row ever had:
the mint draws at random and never repeats one, but the control plane may name an id that was deleted.
`reseeded` is history: the rows a restart's seed put back over rows that had taken their id or their
digits, from which `OneNumberPerMsisdn` and `OneIdOneObject` are exempt (findings).

`RequestGate`: `rules` are the rows in creation order, `told` and `passed` count what consumers
saw. `RulesKeepTheirPromise` relates the two: a countdown is spent by failures it answered and by
nothing else, and a request goes through only when every rule it matches lets it.

Bodies are the only waits: storage I/O inside a delete is `MediaStore`'s. Which failure an injected rule
sends, its delay and its headers are data. The profile is its picture, the only field that names another
object.

### Conversations

The server side follows people, whom the program does not know: `contacts` maps a `wa_id` to the person
behind it, `history` keeps with each message its `contact_wa_id` and the person it was exchanged with.
`ChangeNumber` is `ContactService.changeNumber()`: rows move to the new number, and the old one is free
for somebody else. `typing` is the map of `TypingService`, an indicator being the number of its raise;
`timers` the event loop. Business-scoped user ids (`holder`) are used when `WithUserIds`.

The client side is the chat view: `known`, `held`, `shown`, `active`, `moved` are parts of the reducer's
state, `route` the URL, `page` and `indicators` the two GETs. The dialog that changes a number dispatches
its own answer as a frame (`echoes`), before or after the frame. `Follow` is the effect of
`chats-page.tsx` that navigates to the new name. `astray` is history: which part of the view an overtaking
or a repeated move has released from its promise. `Leads` follows a name through the moves that are still on
their way; what a late echo or page brings is out of date (`Outdated`) when it ends up elsewhere than the
server has it by then.

Bounds on the world: one business number; the webhook of a move is the emitter's; the socket does not
drop and the server is not wiped, which `ClientStore` and `Console` are about; an indicator that is
due and whose timer has not fired yet is still listed (the code filters it); the refresh of contacts by
the settings page is left out.

### Composer

`mode` is the tab, `draft` the form, with a type of its own, because an answer may set one
without the other. A request in `waiting` carries what its continuation closed over: the mode it
was sent from, the message it taps. `hears` is which parts of the page are still mounted to hear of it.
`Send`, `Upload` and `Tap` post, `Receive` and `ReceiveUpload` are the server (a media id of another
number is refused), `Lose` a failed request, `SendAccepted`, `SendRefused`, `UploadAccepted`,
`UploadRefused`, `TapAnswered` the continuations. `SwitchChat` keeps the form mounted, `OpenChat` and
`Leave` remount it. Drafts carry what the shared schema would say of them (`ready`) and no text.
An effect of a navigation runs with it, and contacts keep their number.

### ClientStore

One conversation: `messages` is `state.messages[id]`, with `loaded` for "there is a list", `preview`
the conversation's `lastMessage` in `state.conversations`. `frames` is the socket, in order; `fetch` the
two requests of the chat page, each sent, answered by the server (which reads its rows then), and
applied by the reducer. `behind` and `ghosts` are history: what can no longer be expected on screen.
Again every cause is needed. They are the client's known limits:

- A frame that arrives between the answer and its arrival is lost when there is no list to merge into
  (finding), and in any case for the preview, which the answer replaces.
- While the socket is down everything is missed; a reconnect re-reads `GET /api/state` and nothing of
  this (`store.tsx`, 121-135).
- After a reset the store is empty, and a chat page that was open does not ask again: its effects
  depend on the number and the conversation only, although `reducer.ts` (453) counts on the views to
  reload. An answer from before the reset brings its messages back until the page is opened again.

- A message that is gone on the server may stay on screen: it is then one of the `ghosts`. `DeleteNumber` is the
  cascade of a number's messages; `ReceiveDeletion` leaves the page and the list of conversations, but
  `state.messages` stays (`reducer.ts`, 209-222 and 286-306), and when the number is back under its id
  (`RecreateNumber`) the next page is merged into what was left (finding). `SelectAnother` is the other way to lose the
  list and keep the messages. Only a wipe, or a fresh tab, clears them.
- An import is two actions, because `importState()` waits for the storage between `replaceAll()` and
  `state.imported`: `Import` swaps the database and tells nobody, `AnnounceImport` publishes the wipe, and
  `FailImport` is a put that throws, after which nobody is ever told (finding). From the first half on everything
  is behind, and what was held or on its way may be a ghost. Messages may be created, and numbers deleted,
  between the two; frames from before the swap may arrive after an answer from behind it (`Overtaken`).

`world` stamps frames and answers with the number of wipes before them. `NothingInvented` speaks of all messages
but the ghosts, and `ghosts` grows only by messages the client held, or was about to hold, when they were taken.

Bounds on the world: all messages fit the first page; the list is fetched when the page is opened,
not when another conversation is chosen. A file to import holds messages this server once had.

### Console

One tab. `wabas`, `rules`, `expired`, `templates`, `log` are the server, which changes them and
publishes a frame for each change; `clock` is the millisecond of the last attempt, and a log entry an id and its
millisecond, ordered by both, with ids as random among equals as the code's. `store` is the reducer, `requests` the GETs (those of one
`Promise.all` are one request), `echo` the answer the tab waits for in order to dispatch it as a frame.
`path` is the URL, `last` the scope remembered in the browser, and `gate` what `ScopeGate` and React
have still to do: `dirty`, there is a state to render; `effect`, the effect of the last render that
has not run. `Redirect` and `Repair` are the two cases of the gate, `RenderView` mounts the page, which
sends its GETs. `ResolveScope` is `resolveScope()`. `behind` is history: the collections some answer
or frame has passed by. `cuts` is history: the milliseconds at which a page of the log on screen ended. `gone` and `returned` are history too: what the store has lost since the last render,
and whether it was back when the page was rendered.

Two limits of the code the properties name. A number that goes and comes back between two renders, or an
account without numbers that does, leaves the page blank: the gate has announced that scope already and does
not announce it again, while the store has healed to another one (`returned`). And the templates of an account
that is deleted and created again while its page is open stay in the list: the deletion sends no frame for
them (`TakesTemplates`).

Two more concern the server. An import is again `Import`, `AnnounceImport` or `FailImport`: from the swap on every
collection is behind, and only the announcement, which carries the state as it is by then, or GETs made
after the swap bring one back; a put that throws leaves an open tab in the old world, armed rules on its badge or
missing from it (finding). And the cursor of the log is `created_at < before`: `Newest` leaves out whatever shares the
millisecond of a page's end and did not fit on the page, for good (finding). `LogIsExact` demands everything else.
A snapshot file may bring a log of its own (`SnapshotLog`).

React runs effects before it renders again and may render several frames at once. The first GET may
fail and leaves the boot screen: what the user does then is not modelled. Template filters and their
debounce are the account asked for. `WHALOC_TOKENS` names one token.

## Runs

Every run passes; each property has a mutant of the modelled code in `PROJECT.json` under which TLC
finds it violated.

| Run | Shows | Instance |
|---|---|---|
| `status_ladder` | timers, order of what the consumer hears, progress | 1 outbound, 1 inbound message, 2 numbers (one seeded), 3 disruptions, manual transitions until 4 webhooks, automatic `read` on; 164,733 states |
| `webhook_emitter` | log, refinement of the contract, termination | 1 event, its emission and 1 re-delivery, 3 attempts, 2 disruptions, with exports at any time; 249,910 states |
| `template_review` | who decides what, and what the consumer hears | 2 languages of one name, one seeded, 2 editions, 2 disruptions; 319,460 states |
| `template_paging` | nothing missed, walks end | 4 templates, 2 milliseconds, pages of 2; 139,532 states |
| `upload_session` | offsets, handles, bytes left behind, completion | file of 2 bytes, 2 appends at once, 2 mishaps, 2 disruptions; 423,213 states |
| `media_store` | rows against files | 2 objects, 2 numbers (one seeded), 2 requests at a time, 1 failure, symmetric in objects and requests; 1,797,357 states |
| `client_store` | the screen against the server | 2 messages of 2 statuses, 1 file to import, 2 resets, deletions, imports, announcements or drops in any mix, 3 frames at once; 3,615,253 states |
| `graph_api` | registration ladder, MSISDNs, ids, rules | 3 ids of which 2 are seeded, 2 MSISDNs in 3 spellings, 1 token, 2 rules, 4 operations, 1 restart or reset, 1 body in flight; 715,748 states |
| `composer` | quotes, the disabled form | 2 conversations of different numbers, 1 message, 1 upload, 3 tabs, 2 requests; 266,025 states |
| `conversations` | histories, indicators, bubbles | 2 numbers, 2 people, 2 messages, 1 move, 2 raises, user ids; 159,357 states |
| `conversations_view` | the view follows, nobody else's messages | 3 numbers, 2 people, 1 message, 2 moves, 2 navigations, 2 frames at once, symmetric in the numbers; 2,970,459 states |
| `console` | snapshot, badge, log, page, redirects | 2 accounts, 2 numbers, 5 links, pages of 1, a file with 1 account, 1 rule and 2 attempts, 2 changes, navigations or failures in any mix; 1,496,618 states |

`CHECK_DEADLOCK FALSE` is set where a behaviour may end: all bounded events delivered, a walk or an
upload finished, all operations, posts, moves or steps of the bound used up.

Why the bounds are enough. Messages of the ladder share nothing but the disruptions, which act on
all at once, and the proofs cover any number; three disruptions allow a reset, an import and a
restart in one behaviour, or a reset that is interrupted and repeated. Two loops of one event are an
emission and a re-delivery, which differ from two re-deliveries only in what starts them; loops of different events
share only the log. Two disruptions are, for instance, a reset and the import of what was exported before it, or an
import and a restart. Two languages of one name exercise both kinds of deletion and the seed lookup by
name. Four templates in pages of two give a full page, a boundary inside one millisecond, and a
template created or deleted on either side of it. Two bytes give a first, a middle and a completing
append (an empty one is a middle one); two mishaps are, for instance, a failing put beside a
concurrent append. Two requests over media are every pair of operations, and what either leaves behind
is met by all that follow, an import of the last export included; one failure separates the causes. Two
messages of two statuses let a frame be older than the answer, newer, of the previewed message or of
the other one; two disruptions are both halves of an import, an import that fails beside a drop, or a number
that is deleted (and comes back) beside a reset; three frames are two of a message and the one that takes it.

Four operations on the Graph surface walk one number from its creation over the code to registration, or
delete a seeded object, take its id or its digits and meet the seed at a restart; with one body in flight
every handler meets every change. Two rules are a shadowing and a shadowed one; a count of two tells the
first from the n-th. These limits are not what the claims rest on: all four properties of `graph_api` are
proved for every value. Two requests of the composer are an answer that finds another one under way, or an
upload and the send that uses it; two conversations of two numbers tell every wrong place. Two people and
two numbers let a number be left, taken over and returned to; the view has a third, so that a person can move
on before the first move is known, or another one into the number that was left; two moves are a move and one
that comes before it was followed; one message and two frames are enough for a page answered before a move to arrive
after it. Two steps of the console are, for instance, two changes of one collection whose frame and answer
overtake each other, a change while the socket is down, or a link followed while the account it names
vanishes; a third step only repeats a pair of these for another collection, since collections share
nothing but the wipe. Both halves of an import are one step together with its announcement, and the file's two
attempts with a page of one make every boundary.

## Fairness

- Ladder and review: weak fairness of each due timer; Node runs due timers.
- Emitter: weak fairness of the end of each attempt (the request timeout ends it without the
  receiver) and of the retry (a timer). No fairness of emissions or re-deliveries.
- Listing: weak fairness of the consumer's next request. `WalkEnds` holds because finitely many
  templates exist: a listing into which new templates were created for ever would be walked for ever.
- Uploads: the storage answers, and the client that opened the session sends the next bytes while no
  append is in flight. Concurrent and empty appends are bounded (`MaxMishaps`): a second client that
  posts for ever can keep the first from ever finishing, in the code as in the model.

- Composer: every request is answered or fails (browsers time out), and its continuation runs. No
  fairness of the user.
- Conversations: dismissal timers fire, frames arrive, the GET for the indicators is answered and applied,
  and the effect that follows a move runs. No fairness of the user or of the consumer.

All liveness properties except over bounded mishaps are stated up to the next disruption (reset,
import, restart), because the code gives no promise beyond: timers are not persisted
(`domain/scheduler.ts`, 8-10).

## Findings

Places where the code and what a comment says of it differ, met while modelling. The properties are
stated as the code keeps them, so each of these is an exemption in a property or a history variable;
taking it away makes TLC print the behaviour. Quotations are in `PROJECT.json`.

Server:

- **Inbound messages are announced.** `markStatus` never looks at the direction:
  `POST /api/messages/:id/status` on an inbound id sends a status webhook, against
  `read-receipt-service.ts` (32-35). (`StatusLadder.MarkStatus`)
- **Templates vanish unannounced with their account**, without the `DELETED` webhook
  `template-lifecycle.ts` (26-27) promises for every removal. (`TemplateReview`)
- **A deleted cursor restarts the listing**: the condition is dropped and the walk repeats templates,
  against "Exclusive cursor" (`template-repository.ts`, 72). (`TemplatePaging`, `cursorLost`)
- **A failed put loses earlier chunks.** The object is deleted, the row keeps counting its bytes, the
  next append is accepted at the old offset and the session completes with a handle for the wrong bytes;
  `upload-service.ts` (35-38) names losing a chunk as the bug the truthful offset is there to prevent. The
  same end is reached by a restart between put and update and by overlapping appends; `OffsetTruthful`
  and `HandleMeansComplete` show that no other step of `UploadSession` leads there. Imports and exports of
  sessions are not among them: they are not modelled. (`UploadSession`, `torn`, `overlapped`)
- **A restart can give two numbers one MSISDN, or an id two objects**: the seed asks for its own ids
  and spellings only. (`Accounts`, `reseeded`)
- **An import whose files cannot be written is never announced.** The database is swapped, a put throws, and
  `state.imported` is not published: open tabs stay in a world that is gone, although `docs/SPEC.md` (319)
  says connected UIs reload. (`ClientStore.FailImport`, `Console.FailImport`, `behind`)
- **Attempts that share the millisecond of a page's end are on no page**: the cursor is a strict bound with no
  tie-breaker, although the log is to be browsable in full. (`Console.Newest`, `cuts`)

Web client:

- **Messages of a deleted number stay in the store** and are back on screen when the number is created again under
  its id. (`ClientStore`, `ghosts`)
- **A frame that meets the first page is lost.** `upsertMessage` ignores a frame while the conversation
  has no list, although `reducer.ts` (24-27) calls the merges order-independent for exactly this race.
  (`ClientStore`, `behind`)
- **A bubble stays for good** when a contact changes its number while it types: the client re-keys the
  indicator, the server dismisses it under the old name. And **a bubble comes back** when the frame that
  ends it is quicker than the answer to `GET /api/typing`. (`Conversations`, `astray`)
- **A second move that comes before the first was followed** leaves the view on a dead conversation.
  (`Conversations`, `astray`)
- **A delivery that meets a page of the log in flight** is lost or shown twice. (`Console`, `behind`)
- **A send that is answered after another tab was selected** leaves the form of one mode under the tab of
  another; **a media draft survives a switch to another number** and is refused. (`Composer`)
- **Templates of other accounts enter the list on screen**; after a wipe **open pages stay at their
  loading text**; and **a reconnect does not re-read rules, tokens and contacts**. (`Console`)

## Proofs

The proof modules cover every value of the constants under the modules' named assumptions
(`LadderAssumption`, `EmitterAssumption`, `ReviewAssumption`, `PagingAssumption`, `UploadAssumption`,
`MediaAssumption`, `ConversationsAssumption`, `ComposerAssumption`, `AccountsAssumption`, `GateAssumption`,
`BoundsAssumption`, `ClientAssumption`, `ConsoleAssumption`); TLC evaluates each of them in the runs of its
module. They say of what type a constant is, and little more: the ids and the digits of a seed differ, registered
tokens are none of the strangers' (`GateAssumption`), the rules of an imported snapshot have ids of their
own that no rule created later has (the code draws them at random), and a seed and a snapshot file have neither
two accounts of one id nor, in an account, two numbers of one (`Apart` in `ConsoleAssumption`: ids are the
primary keys of `db/migrations.ts` 15–31, and an import that breaks one is rolled back). The attempts of a snapshot file
have ids of their own (if they were this server's once, whatever is still under way of them is behind anyway),
are in order and older than this server's first one: a clock that was set back, or a file from a server whose
clock is ahead, is left out. The files a client's server imports hold a status for each message.

There are eight proof modules: one for each of `StatusLadder` and `ClientStore`, two for `Console`
(`ConsoleProofs`, and `SnapshotProofs` that extends it), and four for two components each: `ServerProofs`
(`GraphApi` with `Accounts` and `RequestGate`, `WebhookEmitter`), `TemplateProofs` (`TemplateReview`,
`TemplatePaging`), `MediaProofs` (`UploadSession`, `MediaStore`) and `ChatProofs` (`Conversations`, `Composer`).
The two share a proof module and so a name space, which is why some names of the second one carry a prefix
(`MediaSpec`, `MediaTypes`, `EmitterInit`). The type invariant of each component is proved and for that reason in
no run: as a theorem of its own (`TypeCorrect`, `EmitterTypeCorrect`, `PagingTypeCorrect`, `TypesAlways`) or as a
part of the inductive invariant (`MediaTypes`).

### Status ladder

`StatusLadderProofs`. The inductive invariant joins `TypeOK`, `TimersTracked`, `TimerIsNextRung`,
`RowsHaveTheirPhone` and `ConsumerToldInOrder` with three facts they rest on: only outbound messages
have timers, those whose rows are gone included (`TimersAreOutbound`), an exported file holds no row
without its number (`FilesAreConsistent`, or an import would break `RowsHaveTheirPhone`), and a message
without a row has told the consumer nothing yet (`UntoldWhenAbsent`). Each action has one step, under it
one per conjunct it can disturb. From it follow `TypeCorrect`, `TimersTrackedHolds`,
`TimerIsNextRungHolds`, `RowsHaveTheirPhoneHolds`, `ConsumerToldInOrderHolds` and, as an action
property, `ForwardOnlyHolds`.

### Webhook emitter

`ServerProofs`, the emitter. The inductive invariant adds to the two safety properties: a running loop has
an attempt left (`ended < MaxAttempts`), an idle loop was never touched, the last wipe is not ahead
of the attempts, a loop that runs has not been answered, rows an import brought back are of attempts that had
ended by then (`RestoredOld`, so that none meets an attempt to come), and the file tells the truth of the
attempts it has (`FileTrue`, so that an import leaves no row doubled and no answer followed by a retry).
`KeepsContractHolds` maps each step to a contract step or a stutter; the interesting case is
`AttemptEnds`, which is an answer, another try or the surrender depending on the outcome and the count.

### Templates

`TemplateProofs`, the review. `ReviewedAsEdited` is not inductive: a timer an earlier edition left behind
would break it once its template is `PENDING` again. The invariant therefore says of every template, those
that are gone included, that the event loop holds the timers `#pending` knows (`TimersTracked`) and
that each is for the current edition (`TimersAreCurrent`), next to `TypeOK`, `ManualStaysManual` (an
edit that arms no timer must find none) and `HeardIsStatus`. From it follow `TypeCorrect`,
`ReviewedAsEditedHolds`, `ManualStaysManualHolds` and `HeardIsStatusHolds`.

`TemplateProofs`, the listing, for any number of templates, timestamps and page sizes. `NothingMissed` speaks
of the end of a walk; the invariant speaks of its middle: a template that lasts is either seen or still
beyond the cursor (`NothingLeftBehind`), and nothing seen is (`NothingAhead`). The step is a counting
argument: a page is the first `Limit` of what lies beyond, so a row beyond the cursor that is not on a
page lies beyond the page's edge, and a page that is not full is all there is. `Precedes` is shown to be a
strict total order on what was created (`Order`). From it follow `PagingTypeCorrect`, `NothingIsMissed` and
`NothingTwice`, that no template is listed twice while the cursor's template is there.

### Uploads and media

`MediaProofs`, upload sessions, for a file of any length and any number of requests. `OffsetTruthful` speaks of
moments at which nothing is rewritten, so the invariant follows an append through its waits: unless
appends overlapped there is one, of an open session without a handle (`OneAtATime`), and unless
something was torn its base is what the row counts, its key the row's or a new one, and its file empty
and then complete (`AppendsInPlace`). A session that is not open has nothing (`ClosedIsEmpty`), and a reset
has listed the one object there may be (`ResetTakesAll`), which is also why `NoBytesLeftBehind` holds.
The lemmas on bytes (`PrefixGrows`, `OverlayFacts`) say that a prefix continued by its next
chunk is a longer prefix, and what a put leaves of an emptied file. From it follow `TypeCorrect`,
`OffsetTruthfulHolds`, `HandleMeansCompleteHolds`, `NoBytesLeftBehindHolds` and, as an action
property, `HandleKeepsItsBytesHolds`.

`MediaProofs`, the media store, for any number of objects, numbers and requests. The three properties speak of
moments without a job; the invariant (`MediaInv`) says what each job still owes. For files (`FilesInOrder`):
every file has a row, or an upload or an import is about to give it one, and a job that takes rows away has
the files of all of them on its list. For rows (`RowsInOrder`): every row has its file, or a job is about to take
the row or to write the file; an export has, or is still to read, the bytes of every row it has taken. That is
inductive only because jobs that would spoil each other's list are known: `Unspoiled` says that
`spoiled` has noted every overlap there is, so outside it two jobs are `Compatible`. Three facts carry the
steps: an object that is being uploaded is in nobody's rows, file or list (`Fresh`), a row and its media stand
on a number that exists (`Consistent`), and an object belongs to one number for good (`OneHome`), without
which a snapshot could bring it back under another number whose delete is under way. From it follow
`NoFileIsLeftBehind`, `RowsCanBeDownloaded` and `ExportsAreConsistent`.

### Conversations and the composer

`ChatProofs`, the server side, for any number of people, messages, moves and raises. `HistoryStays` and
`OneTimer` are inductive once the types are; the types are the work, because frames and pages speak of
messages, so the sets they are drawn from grow with the history.

`ChatProofs`, the view. Its three properties hold when nothing is on its way; the invariant (`ChatInv`)
must say what holds while everything is. The idea is `Leads`: the moves among the frames behind a place take a
name to another. The frame of a message stands where those behind it lead to the message's conversation, and
whatever is held under a name is led to where it belongs (`MessagesArrive`); the same goes for the person a
frame, the contact list or the open conversation names (`PeopleFound`, `ViewInPlace`), the route being there
too or one move behind. Of the frames about an indicator the last one tells the truth, and where there is
none the bubble does (`BubblesInOrder`). A frame that is published ends every path and a frame that is received
begins it, which the lemmas on `Leads` state once. With nothing on its way every path is a name itself
(`QuietFacts`), and `BubblesAreTrue`, `ViewFollows` and `MessagesOfOne` follow. The proof attempt showed
that an echo can be out of date without a second move of the same person; `Outdated` says when.

`ChatProofs`, the composer. `QuotesStay` needs to know of what is on its way that a request was built from the
quote that was on screen, or is an upload and quotes nothing (`ComposerInv`).

### Accounts, gates and the Graph surface

`ServerProofs`, the Graph surface, for any ids, spellings, rules and restarts. For accounts the invariant says of
every row how it can stand on the ladder (`Rung`), that every id in use was minted or named and noted as
such (`Accounted`), that random ids never meet (`Apart`), that an id names a row of one table only, but for
what the seed put back (`OneStore`), and that MSISDNs do not meet, with the same exception. For the gate it
says that rules have different ids (`OneRulePerId`) besides the promise
itself; `OneMoreRequest` is its heart: a rule that has counted one more request keeps its promise whether
it answered it, another did, or none. The arithmetic of "every n-th" is the lemma `Division`. Handlers
that act on a later body need no invariant of their own, because each checks what it needs when the body is
there; that is what `RungsHold` shows.

### Client store

`ClientStoreProofs`, for any number of messages, statuses, resets, deletions, imports and drops. `NothingInvented` is
not inductive, since what is on its way may be about to invent something. The invariant says, message by message,
that a frame tells what the database has unless it is a ghost's or the frame that takes the message comes after it
(`FramesTrue`), that an answer does unless the message was taken since (`AnswerTrue`), and that the screen does
unless the taking is on its way (`ScreenTrue`). `NeverBackwardsHolds` follows from the types alone.

`SettledScreenHolds` needs the converse, that what is missing is on its way (`ScreenInv`). A frame lives when it is of
the present world and none that ends a world comes after it; the living frames of a message end with its status in
the database, and those that announce messages with the newest (`FramesEndRight`). Frames an import has overtaken
make everything behind (`OvertakenIsBehind`). An answer is of the present world, or what ended its world is on its way
(`Dated`, in `MessagesRight` and `PreviewRight`); nothing passed it by, then it lacks only what living frames bring
(`MessagesWhole`, `PreviewWhole`), and so does the screen it becomes (`MessagesCatchUp`, `PreviewCatchesUp`). Two lemmas
carry the steps: a published frame comes last (`OneMore`), and the first frame is taken when what it brought has been
merged (`OneTaken`).

### Console

`ConsoleProofs`, for any accounts, numbers, links, seeds and snapshots, and any number of changes. The state is
wide and its actions many, so the proof has two layers. `TypesAlways` goes through every action once and states,
next to the types, what it does in a form the other proofs use: a change of the server publishes these frames
(`ServerMoves`), an answer lands with what was read for it (`Landed`), the user navigates (`Navigated`), the gate
renders (`Showed`, `Redirected`, `Repaired`, `Announced`). The others have one step for each of these forms.

- `RedirectsStop` follows from `RepairsEnd`: what `ResolveScope` finds it finds again (`FoundAgain`), so the
  path after one redirect names a scope of the snapshot, and after two it is honest or there is no account.
- `ScopeAndPathAgree` follows from `Page`. What was announced last is in the snapshot or is noted as gone,
  and if it is not gone the store has it or the scope it heals to (`Kept`); what has been rendered is on the
  path (`Rest`). `HealedScope` says that healing a scope twice is healing it once while what it names is there.
- `BadgeTellsTheTruth` follows from `Current`, which speaks of single *cells*: a rule by its id, the token, the
  template of the account on screen. The last frame under way about a cell tells what the server has
  (`FramesTell`). An answer, the awaited echo and the store are right about every cell no frame is coming
  about, unless something passed their collection by (`AnswersHold`, `EchoTells`, `StoreHolds`); rules that
  are not loaded are being fetched (`RulesComing`). Stamps put frames, answers and echoes in one order
  (`WireOrder`). TLC checked these conjuncts as invariants on the instance of `console` before they were proved.
- `LogIsExactAlways` follows from `LogInv`. The log is in the order of its milliseconds, with each id once, and this
  server's attempts in the order of their ids (`LogOrder`); their frames are under way one by one, in that order
  (`DeliveriesApart`). A page that was read is a page of what the log was then: nothing below its cursor is
  missing but what shares the cursor's millisecond, and what has happened since is on its way (`LatestHolds`,
  `OlderHolds`). The list on screen and what is on its way to it are the log down to its cursor, but for the
  milliseconds in `cuts` (`LogHolds`), unless something has passed it by or a wipe is coming, after which the list is
  not loaded. Pages continue each other although they may share milliseconds, because the log only grows at its other
  end and an id is there once.
- `SnapshotStaysCurrent` (`SnapshotProofs`), for `SnapshotIsCurrent`, follows from `WorldInv`. An account is its
  *facets*: that it is there, its name, each of its numbers. The last frame under way about a facet says what it is
  (`FacetsTold`), and snapshots, the awaited echo and the store are right about the facets no later frame is about
  (`AnswersRight`, `EchoRight`, `StoreRight`). Yet the reducer does not simply overwrite: a rename whose account is
  missing appends it, a number whose account is missing is dropped. Either would leave the screen wrong for good if
  the account's existence were not told as well. So an account that a frame holds for known is there, or a frame
  that ends it follows (`Presumed`), and it is brought again only after that end (`Afresh`); `EchoPresumed` and
  `EchoAfresh` say so of the answer this tab awaits, which can come long after its own frame, and `HeardOrder`
  bounds how long. `Moved` and `Follows` say what a published frame does to the facets on the server and what the
  reducer makes of it. Facets that agree are accounts that agree (`FacetsAreAll`) only while no snapshot has an id
  twice, which is `AllApart`. The order of accounts and of numbers is left out, as in the property (`Unordered`).

### Only model-checked

- All liveness properties: `ReachesDelivered`, `EventuallySettled`, `EventuallyReviewed`, `WalkEnds`,
  `SessionCompletes`, `BusyEnds`, `BubblesGo`. Temporal reasoning under fairness is out of the prover's reach.

Every invariant and action property the runs check is a theorem.

## Not modelled

- `domain/webhook-payloads.ts`, `template-send-validation.ts`, `send-message-request.ts`, the schemas of
  `packages/shared`, `graph-api/fields.ts`: functions from data to data. What they decide about control (a
  request is refused, a draft builds) is a guard in `GraphApi` and `Composer`.
- `db/node-sqlite-dialect.ts`, `migrations.ts`, `migrator.ts`: the atomicity rule is what they provide;
  migrations run once before anything else does.
- `config/`, `logging/`, `domain/index.ts` and the other re-exports: read once, or nothing but names.
- `storage/s3-storage.ts`: a client of a service; `UploadSession` says where S3 differs.
- `domain/state-snapshot.ts` and the format of a snapshot file: data. What an import does to rows, timers,
  bytes and the client is modelled.
- Business profile fields other than the picture, account events, the GET handshake and the quality score:
  one row or one webhook each, with nothing to race.
- Downloads and the expiry of media: they read.
- Rendering: the settings cards, message bubbles, template content and fill forms, media previews, dialogs,
  toasts, unread counts, error presets. What they send is an action of `Composer`, `Console` or of the
  server's modules.

## Plan

Done: all modules above, and proofs of every safety and action property the runs check. The runs and proof
modules are as many as are kept; what follows would replace or deepen some of them.

1. Composition of `StatusLadder` with `WebhookEmitter`: what the consumer can receive in which order.
2. `ClientStore`: the list kept when another conversation is chosen; older pages.
3. `UploadSession`: export and import of sessions.
4. `Console`: a snapshot file of a server whose clock is ahead, so that its attempts are later than new ones.
