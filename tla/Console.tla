------------------------------- MODULE Console -------------------------------
(***************************************************************************)
(* One browser tab: the account snapshot every view reads, the scope that  *)
(* lives in the URL and in the store, the injection rules behind the       *)
(* shell's badge, the token table, the template list and the delivery log. *)
(* GET answers seed them, WebSocket frames keep them current, and this     *)
(* tab's own REST answers are dispatched as if they were frames.  The      *)
(* frames arrive in order; the answers overtake each other and them.       *)
(*                                                                         *)
(* Accounts and numbers are 1, 2, ...; 0 is null.  A change is stamped     *)
(* with its number, which also names the rule or the delivery it creates.  *)
(* An attempt of the log has an id and the millisecond it was logged in.   *)
(***************************************************************************)
EXTENDS Integers, Sequences, FiniteSets, SequencesExt

CONSTANTS
  Accounts,       \* WABA ids
  Numbers,        \* phone number ids
  Seed,           \* WHALOC_SEED: a snapshot
  Snapshot,       \* the accounts of the snapshot file somebody imports
  SnapshotRules,  \* and its injection rules, with ids no other rule will have
  SnapshotLog,    \* and its attempts, all from before this server's first one
  Links,          \* the paths the tab may be opened with
  PageSize,       \* the delivery log's page
  MaxSteps        \* bound: changes of the server, navigations by hand, dropped sockets
                  \* and failed requests

Phones == [id : Numbers, grade : {0, 1}]
Worlds == Seq([id : Accounts, name : {0, 1}, numbers : Seq(Phones)])
Rules == [id : Int, left : Nat]
Attempts == [id : Int, time : Int]
Scopes == [account : Accounts \cup {0}, number : Numbers \cup {0}]
Views == {"chats", "templates", "webhooks", "settings"}

\* Ids are primary keys: no two accounts have one, and no two numbers of an account.
Distinct(s) == \A i, j \in DOMAIN s : s[i].id = s[j].id => i = j
Apart(snap) == Distinct(snap) /\ \A i \in DOMAIN snap : Distinct(snap[i].numbers)

ASSUME ConsoleAssumption ==
  /\ Accounts \subseteq Nat \ {0} /\ Numbers \subseteq Nat \ {0}
  /\ {Seed, Snapshot} \subseteq Worlds
  /\ Apart(Seed) /\ Apart(Snapshot)
  /\ SnapshotRules \in Seq(Rules)
  /\ Distinct(SnapshotRules) /\ \A i \in DOMAIN SnapshotRules : SnapshotRules[i].id <= 0
  /\ SnapshotLog \in Seq(Attempts) /\ Distinct(SnapshotLog)
  /\ \A i \in DOMAIN SnapshotLog : SnapshotLog[i].id <= 0 /\ SnapshotLog[i].time < 0
  /\ \A i, j \in DOMAIN SnapshotLog : i < j => SnapshotLog[i].time <= SnapshotLog[j].time
  /\ Links \subseteq [view : Views, scope : Scopes]
  /\ PageSize \in Nat \ {0}
  /\ MaxSteps \in Nat

VARIABLES
  wabas,      \* the accounts and their numbers, in creation order
  rules,      \* the injection rules, in creation order
  expired,    \* is the token of WHALOC_TOKENS expired?
  templates,  \* each account's template: 0 none, then its statuses
  log,        \* the delivery log, by created_at and id
  clock,      \* the millisecond of the last attempt
  imports,    \* imports between their two halves, and the change the last one came after
  changes,    \* how often any of it was announced to have changed
  connected,  \* is the socket open?
  frames,     \* WebSocket frames on their way
  drops,      \* sockets dropped and requests failed
  store,      \* the reducer's state
  requests,   \* the GETs under way
  echo,       \* the answer this tab waits for, to dispatch it as a frame
  path,       \* the URL: the view and the scope in it
  last,       \* whaloc:last-scope in the browser's storage
  gate,       \* ScopeGate: what is still to render, and which effect is still to run
  visits,     \* navigations so far
  behind,     \* history: collections that something passed by
  cuts        \* history: the milliseconds at which a page of the log on screen ended

vars == <<wabas, rules, expired, templates, log, clock, imports, changes, connected, frames,
          drops, store, requests, echo, path, last, gate, visits, behind, cuts>>
serverVars == <<wabas, rules, expired, templates, log, clock, imports, changes>>
tabVars == <<path, last, visits>>

Collections == {"server", "rules", "tokens", "templates", "log"}

NotLoaded == [loaded |-> FALSE]
Loaded(d) == [loaded |-> TRUE, data |-> d]

CanStep == changes + imports.pending + visits + drops < MaxSteps

NoScope == [account |-> 0, number |-> 0]
Scope(a, n) == [account |-> a, number |-> n]

\* The GETs, each at most once under way, and what each one is about: the bootstrap and
\* the reload after a wipe are the requests of one Promise.all.
About(g) ==
  CASE g = "bootstrap" -> {"server", "rules"}
    [] g = "state" -> {"server"}
    [] g = "reload" -> {"rules", "tokens"}
    [] g = "tokens" -> {"tokens"}
    [] g = "templates" -> {"templates"}
    [] g \in {"latest", "older"} -> {"log"}
Gets == {"bootstrap", "state", "reload", "tokens", "templates", "latest", "older"}

Idle == [stage |-> "idle"]
Sent(arg) == [stage |-> "sent", arg |-> arg]
NoEcho == [pending |-> FALSE]

Ids(s) == {s[i].id : i \in DOMAIN s}
At(s, id) == CHOOSE i \in DOMAIN s : s[i].id = id
Known(s, id) == id \in Ids(s)
\* The ids of a list differ, so the filter takes one item out.
Dropped(s, id) == IF Known(s, id) THEN RemoveAt(s, At(s, id)) ELSE s
\* Replaces the item of that id in place, or appends it.
Upsert(s, x) == IF Known(s, x.id) THEN [s EXCEPT ![At(s, x.id)] = x] ELSE Append(s, x)

Owners(snap, n) == {i \in DOMAIN snap : Known(snap[i].numbers, n)}
Least(S) == CHOOSE i \in S : \A j \in S : i <= j

\* resolveScope(): an existing number, else an existing account, else the first account
\* that has a number, else the first one; and of it the number, else the first one.
ResolveScope(snap, wanted) ==
  IF snap = <<>> THEN NoScope
  ELSE LET owners == Owners(snap, wanted.number)
           populated == {i \in DOMAIN snap : snap[i].numbers # <<>>}
           waba == snap[CASE owners # {} -> Least(owners)
                          [] owners = {} /\ Known(snap, wanted.account) -> At(snap, wanted.account)
                          [] OTHER -> IF populated # {} THEN Least(populated) ELSE 1]
       IN  Scope(waba.id, CASE waba.numbers = <<>> -> 0
                            [] Known(waba.numbers, wanted.number) -> wanted.number
                            [] OTHER -> waba.numbers[1].id)

Init ==
  /\ wabas = Seed /\ rules = <<>> /\ expired = FALSE
  /\ templates = [a \in Accounts |-> 0] /\ log = <<>> /\ clock = 1
  /\ imports = [pending |-> 0, at |-> 0] /\ changes = 0
  /\ connected = FALSE /\ frames = <<>> /\ drops = 0
  /\ store = [server |-> NotLoaded, rules |-> NotLoaded, tokens |-> NotLoaded,
              templates |-> NotLoaded, log |-> NotLoaded, before |-> 0, scope |-> NoScope]
  /\ requests = [g \in Gets |-> IF g = "bootstrap" THEN Sent(0) ELSE Idle]
  /\ echo = NoEcho
  /\ path \in Links
  /\ last = NoScope
  /\ gate = [dirty |-> TRUE, hops |-> 0, announced |-> NoScope, effect |-> NoScope,
             asked |-> 0, mounted |-> "none", gone |-> {}, returned |-> FALSE, connectedBefore |-> FALSE]
  /\ visits = 0
  /\ behind = [c \in Collections |-> FALSE] /\ cuts = {}

-----------------------------------------------------------------------------
(* The server: who changes something is this tab (mine) or somebody else.  *)

Frame(type, body) == [type |-> type, body |-> body, at |-> changes + 1]

\* The template of an account that is deleted goes without a frame of its own, and the
\* account may be back before its page is left.
TakesTemplates(f) == f.type = "waba" /\ f.body.change = "deleted" /\ f.body.id = gate.asked

Concerned(f) ==
  CASE f.type = "waba" -> {"server"} \cup IF TakesTemplates(f) THEN {"templates"} ELSE {}
    [] f.type = "number" -> {"server"}
    [] f.type = "rule" -> {"rules"}
    [] f.type = "token" -> {"tokens"}
    [] f.type = "template" -> {"templates"}
    [] f.type = "delivery" -> {"log"}
    [] f.type \in {"state.reset", "state.imported"} -> Collections

Wipes(f) == f.type \in {"state.reset", "state.imported"}

\* A frame arrives, or is lost: what was read before it and has not landed yet is old.  A
\* new attempt is above the older pages.
PassesBy(f, g) ==
  /\ requests[g].stage = "answered" /\ requests[g].at < f.at
  /\ About(g) \cap Concerned(f) # {} /\ (g = "older" => Wipes(f))
RequestsPassedBy(f) ==
  [g \in Gets |->
     IF PassesBy(f, g)
     THEN [requests[g] EXCEPT !.old = TRUE] ELSE requests[g]]
EchoPassedBy(f) ==
  IF echo.pending
  THEN [echo EXCEPT !.old = IF f.at > echo.frame.at THEN @ \cup Concerned(f) ELSE @,
                    !.heard = @ \/ f.at >= echo.frame.at]
  ELSE echo

\* publish() of the frames of one change.
Tell(fs, mine) ==
  LET f == Last(fs) IN
  /\ mine => ~echo.pending /\ store.server.loaded
  /\ changes' = changes + 1
  /\ frames' = IF connected THEN frames \o fs ELSE frames
  /\ behind' = IF connected THEN behind
               ELSE [c \in Collections |-> behind[c] \/ c \in Concerned(f)]
  /\ requests' = IF connected THEN requests ELSE RequestsPassedBy(f)
  /\ echo' = CASE mine -> [pending |-> TRUE, frame |-> f, old |-> {}, heard |-> ~connected]
               [] ~mine /\ connected -> echo
               [] OTHER -> EchoPassedBy(f)
  /\ UNCHANGED <<connected, drops, store, gate, tabVars, cuts>>

Publish(fs, mine) == CanStep /\ Tell(fs, mine) /\ UNCHANGED imports

Account(a, name, numbers) == [id |-> a, name |-> name, numbers |-> numbers]
WabaFrame(change, a, name) ==
  Frame("waba", [change |-> change, id |-> a, name |-> name])
NumberFrame(change, a, x) ==
  Frame("number", [change |-> change, account |-> a, number |-> x])
RuleFrame(change, r) == Frame("rule", [change |-> change, rule |-> r])
TokenFrame(isExpired) == Frame("token", isExpired)
TemplateFrame(a, status) == Frame("template", [account |-> a, status |-> status])
DeliveryFrame(d) == Frame("delivery", d)

\* POST /api/wabas
CreateWaba(a, mine) ==
  /\ ~Known(wabas, a)
  /\ wabas' = Append(wabas, Account(a, 0, <<>>))
  /\ UNCHANGED <<rules, expired, templates, log, clock>>
  /\ Publish(<<WabaFrame("created", a, 0)>>, mine)

\* PATCH /api/wabas/:id
RenameWaba(a, mine) ==
  /\ Known(wabas, a) /\ wabas[At(wabas, a)].name = 0
  /\ wabas' = [wabas EXCEPT ![At(wabas, a)].name = 1]
  /\ UNCHANGED <<rules, expired, templates, log, clock>>
  /\ Publish(<<WabaFrame("updated", a, 1)>>, mine)

\* DELETE /api/wabas/:id: its numbers, each announced, its templates, then itself.
DeleteWaba(a, mine) ==
  /\ Known(wabas, a)
  /\ LET waba == wabas[At(wabas, a)] IN
       /\ wabas' = Dropped(wabas, a)
       /\ templates' = [templates EXCEPT ![a] = 0]
       /\ Publish([i \in DOMAIN waba.numbers |-> NumberFrame("deleted", a, waba.numbers[i])]
                    \o <<WabaFrame("deleted", a, waba.name)>>, mine)
  /\ UNCHANGED <<rules, expired, log, clock>>

\* POST, PATCH and DELETE of a number; its edits and ratings are one grade.
CreateNumber(a, n, mine) ==
  /\ Known(wabas, a) /\ Owners(wabas, n) = {}
  /\ LET x == [id |-> n, grade |-> 0] IN
       /\ wabas' = [wabas EXCEPT ![At(wabas, a)].numbers = Append(@, x)]
       /\ Publish(<<NumberFrame("created", a, x)>>, mine)
  /\ UNCHANGED <<rules, expired, templates, log, clock>>

UpdateNumber(n, mine) ==
  /\ Owners(wabas, n) # {}
  /\ LET i == Least(Owners(wabas, n))
         x == [id |-> n, grade |-> 1] IN
       /\ wabas[i].numbers[At(wabas[i].numbers, n)].grade = 0
       /\ wabas' = [wabas EXCEPT ![i].numbers = Upsert(@, x)]
       /\ Publish(<<NumberFrame("updated", wabas[i].id, x)>>, mine)
  /\ UNCHANGED <<rules, expired, templates, log, clock>>

DeleteNumber(n, mine) ==
  /\ Owners(wabas, n) # {}
  /\ LET i == Least(Owners(wabas, n)) IN
       /\ wabas' = [wabas EXCEPT ![i].numbers = Dropped(@, n)]
       /\ Publish(<<NumberFrame("deleted", wabas[i].id, [id |-> n, grade |-> 0])>>, mine)
  /\ UNCHANGED <<rules, expired, templates, log, clock>>

\* A "next 1" rule is armed, fires on a request, is deleted.
CreateRule(mine) ==
  /\ LET r == [id |-> changes + 1, left |-> 1] IN
       /\ rules' = Append(rules, r)
       /\ Publish(<<RuleFrame("created", r)>>, mine)
  /\ UNCHANGED <<wabas, expired, templates, log, clock>>

FireRule(i) ==
  /\ rules[i].left > 0 /\ \A j \in 1 .. i - 1 : rules[j].left = 0
  /\ rules' = [rules EXCEPT ![i].left = @ - 1]
  /\ Publish(<<RuleFrame("updated", rules'[i])>>, FALSE)
  /\ UNCHANGED <<wabas, expired, templates, log, clock>>

DeleteRule(i, mine) ==
  /\ rules' = Dropped(rules, rules[i].id)
  /\ Publish(<<RuleFrame("deleted", rules[i])>>, mine)
  /\ UNCHANGED <<wabas, expired, templates, log, clock>>

SetTokenExpired ==
  /\ expired' = ~expired
  /\ Publish(<<TokenFrame(expired')>>, FALSE)
  /\ UNCHANGED <<wabas, rules, templates, log, clock>>

\* The app under test creates a template, a review moves it.
ChangeTemplate(a) ==
  /\ Known(wabas, a) /\ templates[a] < 2
  /\ templates' = [templates EXCEPT ![a] = @ + 1]
  /\ Publish(<<TemplateFrame(a, templates'[a])>>, FALSE)
  /\ UNCHANGED <<wabas, rules, expired, log, clock>>

\* created_at is in milliseconds, and among the attempts of one the id, a random one, decides.
Deliver(tick, k) ==
  /\ LET d == [id |-> changes + 1, time |-> clock + tick] IN
       /\ \A i \in k .. Len(log) : log[i].time = d.time
       /\ log' = InsertAt(log, k, d)
       /\ clock' = d.time
       /\ Publish(<<DeliveryFrame(d)>>, FALSE)
  /\ UNCHANGED <<wabas, rules, expired, templates>>

Refill(accounts, itsRules, attempts) ==
  /\ wabas' = accounts /\ rules' = itsRules /\ log' = attempts
  /\ expired' = FALSE /\ templates' = [a \in Accounts |-> 0]
  /\ UNCHANGED clock

\* POST /api/reset, from the wipe on.
Reset(mine) ==
  /\ Refill(Seed, <<>>, <<>>)
  /\ Publish(<<Frame("state.reset", Seed)>>, mine)

\* POST /api/import up to replaceAll(): nobody is told, and what any tab holds, or is about
\* to be given, is of the world that went.
Import ==
  /\ CanStep
  /\ Refill(Snapshot, SnapshotRules, SnapshotLog)
  /\ imports' = [pending |-> imports.pending + 1, at |-> changes]
  /\ LET untold == Frame("state.imported", Snapshot) IN
       /\ requests' = RequestsPassedBy(untold)
       /\ echo' = EchoPassedBy(untold)
  /\ behind' = [c \in Collections |-> TRUE]
  /\ UNCHANGED <<changes, connected, frames, drops, store, gate, tabVars, cuts>>

\* The bytes are in the storage: the world is announced as it is by now.
AnnounceImport(mine) ==
  /\ imports.pending > 0
  /\ imports' = [imports EXCEPT !.pending = @ - 1]
  /\ Tell(<<Frame("state.imported", wabas)>>, mine)
  /\ UNCHANGED <<wabas, rules, expired, templates, log, clock>>

\* A put fails: the import throws, and nobody ever hears of the world it brought.
FailImport ==
  /\ imports.pending > 0
  /\ imports' = [imports EXCEPT !.pending = @ - 1]
  /\ drops' = drops + 1
  /\ UNCHANGED <<wabas, rules, expired, templates, log, clock, changes, connected, frames, store,
                 requests, echo, gate, tabVars, behind, cuts>>

\* The handler of a GET reads the database.  What is below a cursor comes first in the log,
\* whatever shares its millisecond does not; a page shows the last of that, newest first.
Newest(below) ==
  LET above == {i \in DOMAIN log : below # 0 /\ log[i].time >= below}
      end == IF above = {} THEN Len(log) ELSE Least(above) - 1
  IN  [i \in 1 .. IF end < PageSize THEN end ELSE PageSize |-> log[end + 1 - i]]

TemplatesOf(account) == [a \in Accounts |-> IF a = account THEN templates[a] ELSE 0]

Read(c, arg) ==
  CASE c = "server" -> wabas
    [] c = "rules" -> rules
    [] c = "tokens" -> expired
    [] c = "templates" -> TemplatesOf(arg)
    [] c = "log" -> Newest(arg)

Answer(g) ==
  /\ requests[g].stage = "sent"
  /\ requests' = [requests EXCEPT ![g] =
       [stage |-> "answered", arg |-> @.arg, at |-> changes, old |-> FALSE,
        data |-> [c \in About(g) |-> Read(c, @.arg)]]]
  /\ UNCHANGED <<serverVars, connected, frames, drops, store, echo, gate, tabVars, behind, cuts>>

-----------------------------------------------------------------------------
(* The reducer.                                                            *)

\* withServer(): a new snapshot, and the scope moved to something that exists in it.
WithServer(st, snap) ==
  [st EXCEPT !.server = Loaded(snap), !.scope = ResolveScope(snap, @)]

\* Mutant: the account in the frame replaces the one in the snapshot.
ReplaceWaba(st, f) ==
  IF ~st.server.loaded THEN st
  ELSE LET s == st.server.data IN
       WithServer(st, IF f.change = "deleted" THEN Dropped(s, f.id)
                      ELSE Upsert(s, Account(f.id, f.name, <<>>)))

ApplyWabaChange(st, f) ==
  IF ~st.server.loaded THEN st
  ELSE LET s == st.server.data IN
       WithServer(st, CASE f.change = "deleted" -> Dropped(s, f.id)
                        [] f.change # "deleted" /\ Known(s, f.id) ->
                             [s EXCEPT ![At(s, f.id)].name = f.name]
                        [] OTHER -> Append(s, Account(f.id, f.name, <<>>)))

ApplyPhoneNumberChange(st, f) ==
  IF ~st.server.loaded THEN st
  ELSE LET s == st.server.data
           Changed(numbers) == IF f.change = "deleted" THEN Dropped(numbers, f.number.id)
                               ELSE Upsert(numbers, f.number)
       IN  WithServer(st, [i \in DOMAIN s |->
                             IF s[i].id = f.account THEN [s[i] EXCEPT !.numbers = Changed(@)]
                             ELSE s[i]])

\* Mutant: a reset leaves the rules on the badge.
RulesAfterForgotten(st, type) == st.rules

\* After a reset no rule is armed; what an import brought is not known yet.
RulesAfter(st, type) == IF type = "state.reset" THEN Loaded(<<>>) ELSE NotLoaded

ApplyWipe(st, type, snap) ==
  WithServer([st EXCEPT !.rules = RulesAfter(st, type),
                        !.tokens = IF type = "state.reset" /\ st.tokens.loaded
                                   THEN Loaded(FALSE) ELSE NotLoaded,
                        !.templates = NotLoaded, !.log = NotLoaded, !.before = 0], snap)

\* A list that is not loaded ignores its frames; a collection that is there takes them in.
ApplyRuleChange(st, f) ==
  IF ~st.rules.loaded THEN st
  ELSE LET s == st.rules.data IN
       [st EXCEPT !.rules = Loaded(IF f.change = "deleted" THEN Dropped(s, f.rule.id)
                                   ELSE Upsert(s, f.rule))]

ApplyTokenChange(st, isExpired) ==
  IF st.tokens.loaded THEN [st EXCEPT !.tokens = Loaded(isExpired)] ELSE st

ApplyTemplateChange(st, f) ==
  IF st.templates.loaded
  THEN [st EXCEPT !.templates = Loaded([st.templates.data EXCEPT ![f.account] = f.status])]
  ELSE st

ApplyDelivery(st, d) ==
  IF st.log.loaded THEN [st EXCEPT !.log = Loaded(<<d>> \o st.log.data)] ELSE st

\* applyWsEvent()
Apply(st, f) ==
  CASE f.type = "waba" -> ApplyWabaChange(st, f.body)
    [] f.type = "number" -> ApplyPhoneNumberChange(st, f.body)
    [] f.type = "rule" -> ApplyRuleChange(st, f.body)
    [] f.type = "token" -> ApplyTokenChange(st, f.body)
    [] f.type = "template" -> ApplyTemplateChange(st, f.body)
    [] f.type = "delivery" -> ApplyDelivery(st, f.body)
    [] f.type \in {"state.reset", "state.imported"} -> ApplyWipe(st, f.type, f.body)

\* What a snapshot holds: numbers, and accounts that have none.  What the store held and
\* has lost.
Things(snap) ==
  {<<"bare", a>> : a \in {b \in Ids(snap) : snap[At(snap, b)].numbers = <<>>}}
    \cup UNION {{<<"number", n>> : n \in Ids(snap[i].numbers)} : i \in DOMAIN snap}
Gone(st) ==
  IF store.server.loaded /\ st.server.loaded
  THEN Things(store.server.data) \ Things(st.server.data) ELSE {}

\* dispatch(): the store has a new state, the page is to be rendered.
Dispatch(st) ==
  /\ store' = st
  /\ gate' = [gate EXCEPT !.dirty = TRUE, !.hops = 0, !.gone = @ \cup Gone(st)]

-----------------------------------------------------------------------------
(* The socket.                                                             *)

\* onStatus("open"): a reconnect re-reads GET /api/state, the first connect nothing.
Connect ==
  /\ ~connected
  /\ connected' = TRUE
  /\ gate' = [gate EXCEPT !.connectedBefore = TRUE]
  /\ requests' = IF gate.connectedBefore THEN [requests EXCEPT !["state"] = Sent(0)] ELSE requests
  /\ UNCHANGED <<serverVars, frames, drops, store, echo, tabVars, behind, cuts>>

\* Everything under way is lost.
Drop ==
  /\ connected /\ CanStep
  /\ drops' = drops + 1
  /\ connected' = FALSE
  /\ frames' = <<>>
  /\ LET lost == UNION {Concerned(frames[i]) : i \in DOMAIN frames} IN
       /\ behind' = [c \in Collections |-> behind[c] \/ c \in lost]
       /\ requests' = [g \in Gets |->
            IF \E i \in DOMAIN frames : PassesBy(frames[i], g)
            THEN [requests[g] EXCEPT !.old = TRUE] ELSE requests[g]]
  \* Whatever was lost may have been about what the awaited answer is about.
  /\ echo' = IF frames = <<>> THEN echo
             ELSE EchoPassedBy([Last(frames) EXCEPT !.type = "state.reset"])
  /\ UNCHANGED <<serverVars, store, gate, tabVars, cuts>>

\* onEvent: dispatched; a wipe that came over the socket re-reads what has no events.  What
\* was announced before an import was swapped in takes the tab back behind it.
Receive ==
  /\ frames # <<>>
  /\ LET f == Head(frames)
         stale == f.at <= imports.at IN
       /\ Dispatch(Apply(store, f))
       /\ requests' = [g \in Gets |-> IF Wipes(f) /\ g = "reload" THEN Sent(0)
                                      ELSE RequestsPassedBy(f)[g]]
       /\ echo' = EchoPassedBy(f)
       /\ behind' = [c \in Collections |->
            IF Wipes(f) THEN stale
            ELSE behind[c] \/ (stale /\ c \in Concerned(f)) \/ (c = "templates" /\ TakesTemplates(f))]
  /\ frames' = Tail(frames)
  /\ UNCHANGED <<serverVars, connected, drops, tabVars, cuts>>

\* The answer to this tab's own change is dispatched as the frame of it.  A dialog in the
\* breadcrumb then navigates to what it has created.
ReceiveEcho(go) ==
  /\ echo.pending
  /\ LET f == echo.frame
         wiped == Wipes(f)
         created == f.type \in {"waba", "number"} /\ f.body.change = "created" IN
       /\ Dispatch(Apply(store, f))
       /\ go => created /\ path.view \in {"chats", "templates"}
       /\ path' = CASE go /\ f.type = "waba" -> [view |-> path.view, scope |-> Scope(f.body.id, 0)]
                    [] go /\ f.type = "number" ->
                         [view |-> "chats", scope |-> Scope(f.body.account, f.body.number.id)]
                    [] OTHER -> path
       /\ behind' = [c \in Collections |->
            CASE c \in echo.old /\ c \in Concerned(f) -> TRUE
              [] c \notin echo.old /\ wiped /\ c \in {"rules", "tokens"} ->
                   f.type = "state.imported" /\ echo.heard /\ requests["reload"].stage = "idle"
              [] c \notin echo.old /\ wiped /\ c \notin {"rules", "tokens"} -> FALSE
              [] OTHER -> behind[c]]
  /\ echo' = NoEcho
  /\ UNCHANGED <<serverVars, connected, frames, drops, requests, last, visits, cuts>>

-----------------------------------------------------------------------------
(* The answers land.                                                       *)

Answered(g) == requests[g].stage = "answered"
Data(g, c) == Loaded(requests[g].data[c])
Lands(g) ==
  /\ requests' = [requests EXCEPT ![g] = Idle]
  /\ UNCHANGED <<serverVars, connected, frames, drops, echo, tabVars>>
Caught(g) ==
  /\ behind' = [c \in Collections |-> IF c \in About(g) THEN requests[g].old ELSE behind[c]]
  /\ UNCHANGED cuts

\* "bootstrap/loaded"
BootstrapLoaded ==
  /\ Answered("bootstrap")
  /\ Dispatch(WithServer([store EXCEPT !.rules = Data("bootstrap", "rules")],
                         requests["bootstrap"].data["server"]))
  /\ Caught("bootstrap")
  /\ Lands("bootstrap")

\* "state/loaded", after a reconnect or a handshake.
StateLoaded ==
  /\ Answered("state")
  /\ Dispatch(WithServer(store, requests["state"].data["server"]))
  /\ Caught("state")
  /\ Lands("state")

\* reloadAfterWipe()
WipeReloaded ==
  /\ Answered("reload")
  /\ Dispatch([store EXCEPT !.rules = Data("reload", "rules"), !.tokens = Data("reload", "tokens")])
  /\ Caught("reload")
  /\ Lands("reload")

TokensLoaded ==
  /\ Answered("tokens")
  /\ Dispatch([store EXCEPT !.tokens = Data("tokens", "tokens")])
  /\ Caught("tokens")
  /\ Lands("tokens")

TemplatesLoaded ==
  /\ Answered("templates")
  /\ Dispatch([store EXCEPT !.templates = Data("templates", "templates")])
  /\ Caught("templates")
  /\ Lands("templates")

\* Mutant: a page that is exactly full counts as the last one.
BeforeLonger(page) == IF Len(page) <= PageSize THEN 0 ELSE Last(page).time

\* The route's paging.before: the end of a full page.
Before(page) == IF Len(page) < PageSize THEN 0 ELSE Last(page).time

\* "deliveries/loaded": the latest page replaces the list.  The frame of a delivery that is
\* in the page already, and still under way, will show it twice.
LatestLoaded ==
  /\ Answered("latest")
  /\ LET get == requests["latest"]
         page == get.data["log"] IN
       /\ Dispatch([store EXCEPT !.log = Loaded(page), !.before = Before(page)])
       /\ behind' = [behind EXCEPT !["log"] =
            get.old \/ \E i \in DOMAIN frames : frames[i].type = "delivery" /\ frames[i].at <= get.at]
       /\ cuts' = {Before(page)}
  /\ Lands("latest")

\* The entries of a page that are not known, in their order.
Unknown(page, known) ==
  LET fresh == {i \in DOMAIN page : ~Known(known, page[i].id)}
  IN  [k \in 1 .. Cardinality(fresh) |->
         page[CHOOSE i \in fresh : Cardinality({j \in fresh : j <= i}) = k]]

\* An older page is appended, what is known left out.  Nobody aborts this one: it can land
\* in the list of a later visit.
OlderLoaded ==
  /\ Answered("older")
  /\ LET page == requests["older"].data["log"]
         known == IF store.log.loaded THEN store.log.data ELSE <<>> IN
       /\ Dispatch([store EXCEPT !.log = Loaded(known \o Unknown(page, known)), !.before = Before(page)])
       /\ behind' = [behind EXCEPT !["log"] =
            @ \/ requests["older"].old \/ ~store.log.loaded \/ store.before # requests["older"].arg]
       /\ cuts' = cuts \cup {Before(page)}
  /\ Lands("older")

\* A request fails: nobody asks again before the next reconnect or visit.
Lose(g) ==
  /\ requests[g].stage = "sent" /\ g # "bootstrap" /\ CanStep
  /\ drops' = drops + 1
  /\ requests' = [requests EXCEPT ![g] = Idle]
  /\ behind' = [c \in Collections |-> behind[c] \/ (g \in {"reload", "templates"} /\ c \in About(g))]
  /\ UNCHANGED <<serverVars, connected, frames, store, echo, gate, tabVars, cuts>>

-----------------------------------------------------------------------------
(* The router.                                                             *)

Scoped == path.view \in {"chats", "templates"}
Landing == [view |-> "chats", scope |-> NoScope]

\* pathFor(): the templates' path names no number.
PathFor(view, scope) ==
  CASE view \in {"webhooks", "settings"} -> [view |-> view, scope |-> NoScope]
    [] view \notin {"webhooks", "settings"} /\ scope.account = 0 -> Landing
    [] view = "templates" /\ scope.account # 0 ->
         [view |-> view, scope |-> Scope(scope.account, 0)]
    [] view = "chats" /\ scope.account # 0 -> [view |-> view, scope |-> scope]

\* A page that is left aborts its request.
Go(p) ==
  LET same == p.view = path.view IN
  /\ store.server.loaded /\ CanStep
  /\ visits' = visits + 1
  /\ path' = p
  /\ requests' = IF same THEN requests
                 ELSE [requests EXCEPT !["latest"] = Idle, !["tokens"] = Idle, !["templates"] = Idle]
  /\ gate' = [gate EXCEPT !.dirty = TRUE, !.hops = 0,
                          !.asked = IF same THEN @ ELSE 0, !.mounted = IF same THEN @ ELSE "none"]
  /\ UNCHANGED <<serverVars, connected, frames, drops, store, echo, last, behind, cuts>>

\* A tab of the shell; without an account the scoped ones are disabled.
OpenTab(view) ==
  /\ view \in {"webhooks", "settings"} \/ store.scope.account # 0
  /\ PathFor(view, store.scope) # path
  /\ Go(PathFor(view, store.scope))

GoHome == Go(Landing)

\* The breadcrumb.
PickWaba(a) ==
  /\ Scoped /\ store.server.loaded
  /\ Known(store.server.data, a)
  /\ Go(PathFor(path.view, ResolveScope(store.server.data, Scope(a, 0))))

PickNumber(n) ==
  /\ path.view = "chats" /\ store.server.loaded
  /\ \E i \in DOMAIN store.server.data :
       store.server.data[i].id = store.scope.account /\ Known(store.server.data[i].numbers, n)
  /\ Go(PathFor("chats", Scope(store.scope.account, n)))

\* "Load older attempts"
LoadOlder ==
  /\ path.view = "webhooks" /\ store.before # 0 /\ requests["older"].stage = "idle"
  /\ requests' = [requests EXCEPT !["older"] = Sent(store.before)]
  /\ UNCHANGED <<serverVars, connected, frames, drops, store, echo, gate, tabVars, behind, cuts>>

\* "Verify webhook", once the handshake is done: GET /api/state.
Verify ==
  /\ path.view = "webhooks" /\ requests["state"].stage = "idle" /\ CanStep
  /\ visits' = visits + 1
  /\ requests' = [requests EXCEPT !["state"] = Sent(0)]
  /\ UNCHANGED <<serverVars, connected, frames, drops, store, echo, gate, path, last, behind, cuts>>

\* The scope the path leads to, and whether the path is telling the truth about it.
Resolved == ResolveScope(store.server.data, path.scope)
\* Mutant: a path to the chats always has to name a number.
HonestWithNumber ==
  /\ path.scope.account = Resolved.account
  /\ path.view = "templates" \/ (path.scope.number # 0 /\ path.scope.number = Resolved.number)
Honest ==
  /\ path.scope.account = Resolved.account
  /\ path.view = "templates" \/ path.scope.number = Resolved.number

\* What every render does: what had gone meanwhile and is back is noted.
Rendered(g) ==
  gate' = [g EXCEPT !.gone = {}, !.returned = @ \/ gate.gone \cap Things(store.server.data) # {}]

\* React renders when the effects of the last render have run.
CanRender == store.server.loaded /\ gate.dirty /\ gate.effect = NoScope

\* The delivery log and the settings read their own collection when they are mounted.
RenderGlobal ==
  /\ CanRender /\ ~Scoped
  /\ Rendered([gate EXCEPT !.dirty = FALSE, !.hops = 0, !.announced = NoScope, !.mounted = path.view])
  /\ requests' = IF gate.mounted = path.view THEN requests
                 ELSE [requests EXCEPT ![IF path.view = "webhooks" THEN "latest" ELSE "tokens"] = Sent(0)]
  /\ UNCHANGED <<serverVars, connected, frames, drops, store, echo, tabVars, behind, cuts>>

\* ScopeRedirect, and the empty workspace when there is nowhere to go.
Redirect ==
  /\ CanRender /\ Scoped /\ path.scope.account = 0
  /\ LET to == PathFor(path.view, ResolveScope(store.server.data, last)) IN
       IF store.server.data = <<>>
       THEN /\ Rendered([gate EXCEPT !.dirty = FALSE, !.hops = 0, !.announced = NoScope])
            /\ UNCHANGED path
       ELSE /\ Rendered([gate EXCEPT !.hops = @ + 1, !.announced = NoScope])
            /\ path' = to
  /\ UNCHANGED <<serverVars, connected, frames, drops, store, requests, echo, last, visits, behind, cuts>>

\* ScopeGate, a path that lies: the view is unmounted and the URL repaired.
Repair ==
  /\ CanRender /\ Scoped /\ path.scope.account # 0 /\ ~Honest
  /\ path' = PathFor(path.view, Resolved)
  /\ Rendered([gate EXCEPT !.hops = @ + 1, !.announced = NoScope, !.asked = 0])
  /\ requests' = [requests EXCEPT !["templates"] = Idle]
  /\ UNCHANGED <<serverVars, connected, frames, drops, store, echo, last, visits, behind, cuts>>

\* ScopeGate, a path that is honest: a scope it has not announced yet is announced by an
\* effect, and the view is there when the store has that scope.
RenderView ==
  /\ CanRender /\ Scoped /\ path.scope.account # 0 /\ Honest
  /\ LET asks == path.view = "templates" /\ store.scope = Resolved /\ gate.asked # Resolved.account IN
       /\ Rendered([gate EXCEPT !.dirty = FALSE, !.hops = 0, !.announced = Resolved,
                                !.effect = IF gate.announced = Resolved THEN NoScope ELSE Resolved,
                                !.asked = IF asks THEN Resolved.account ELSE @])
       /\ requests' = IF asks THEN [requests EXCEPT !["templates"] = Sent(Resolved.account)]
                      ELSE requests
  /\ UNCHANGED <<serverVars, connected, frames, drops, store, echo, tabVars, behind, cuts>>

\* Mutant: an account that is selected already is not selected again.
AnnounceAccount ==
  /\ gate.effect # NoScope
  /\ store' = IF store.scope.account = gate.effect.account THEN store
              ELSE [store EXCEPT !.scope = gate.effect]
  /\ last' = gate.effect
  /\ gate' = [gate EXCEPT !.effect = NoScope, !.returned = FALSE,
                          !.dirty = @ \/ store'.scope # store.scope]
  /\ UNCHANGED <<serverVars, connected, frames, drops, requests, echo, path, visits, behind, cuts>>

\* "scope/selected", as it was resolved when the gate rendered.
Announce ==
  /\ gate.effect # NoScope
  /\ store' = [store EXCEPT !.scope = gate.effect]
  /\ last' = gate.effect
  /\ gate' = [gate EXCEPT !.effect = NoScope, !.returned = FALSE,
                          !.dirty = @ \/ store.scope # gate.effect]
  /\ UNCHANGED <<serverVars, connected, frames, drops, requests, echo, path, visits, behind, cuts>>

-----------------------------------------------------------------------------

ServerChanges ==
  \/ /\ CanStep
     /\ \/ \E mine \in BOOLEAN :
             \/ \E a \in Accounts : CreateWaba(a, mine) \/ RenameWaba(a, mine) \/ DeleteWaba(a, mine)
             \/ \E n \in Numbers : UpdateNumber(n, mine) \/ DeleteNumber(n, mine)
             \/ \E a \in Accounts, n \in Numbers : CreateNumber(a, n, mine)
             \/ CreateRule(mine)
             \/ \E i \in DOMAIN rules : DeleteRule(i, mine)
             \/ Reset(mine)
        \/ \E i \in DOMAIN rules : FireRule(i)
        \/ SetTokenExpired
        \/ \E a \in Accounts : ChangeTemplate(a)
        \/ \E tick \in {0, 1}, k \in 1 .. Len(log) + 1 : Deliver(tick, k)
        \/ Import
  \/ \E mine \in BOOLEAN : AnnounceImport(mine)
  \/ FailImport

AnswerLands ==
  BootstrapLoaded \/ StateLoaded \/ WipeReloaded \/ TokensLoaded \/ TemplatesLoaded
    \/ LatestLoaded \/ OlderLoaded

Visits ==
  \/ \E view \in {"chats", "templates", "webhooks", "settings"} : OpenTab(view)
  \/ GoHome
  \/ \E a \in Accounts : PickWaba(a)
  \/ \E n \in Numbers : PickNumber(n)
  \/ LoadOlder
  \/ Verify

Renders == RenderGlobal \/ Redirect \/ Repair \/ RenderView \/ Announce

Next ==
  \/ ServerChanges
  \/ \E g \in Gets : Answer(g) \/ Lose(g)
  \/ Connect \/ Drop \/ Receive
  \/ \E go \in BOOLEAN : ReceiveEcho(go)
  \/ AnswerLands
  \/ Visits
  \/ Renders

Spec == Init /\ [][Next]_vars

-----------------------------------------------------------------------------
(* Properties.                                                             *)

\* Nothing is on its way any more.
Quiet ==
  /\ connected /\ frames = <<>> /\ ~echo.pending
  /\ \A g \in Gets : requests[g].stage = "idle"

\* The same accounts and numbers, in whatever order: an answer that overtakes the frame of
\* an earlier creation puts the two the other way round.
Unordered(snap) ==
  {[snap[i] EXCEPT !.numbers = ToSet(@)] : i \in DOMAIN snap}

\* store.tsx (127-129): re-reading the snapshot is "the cheapest way to be right again".
\* Once all is quiet the accounts and numbers on screen are the server's, unless an older
\* answer landed over newer frames, the changes fell before the first connect, or they came
\* by an import that is still to be announced, or failed before it was.
SnapshotIsCurrent ==
  Quiet /\ ~behind["server"] =>
    store.server.loaded /\ Unordered(store.server.data) = Unordered(wabas)

\* injection-badge.tsx (5-15): no armed rule "can quietly confuse a developer".  Once all is
\* quiet the rules behind the badge are the server's, through firings, resets and imports,
\* unless an older answer landed, the socket was down or an import is not announced; and so
\* are the tokens on the card and the template of the account on screen.
BadgeIsTrue ==
  Quiet =>
    /\ ~behind["rules"] => store.rules.loaded /\ ToSet(store.rules.data) = ToSet(rules)
    /\ store.tokens.loaded /\ ~behind["tokens"] => store.tokens.data = expired
    /\ store.templates.loaded /\ ~behind["templates"] /\ gate.asked # 0 =>
         store.templates.data[gate.asked] = templates[gate.asked]

\* None later than the one above it, and none twice.
NewestFirst(page) ==
  \A i, j \in DOMAIN page : i < j => page[i].time >= page[j].time /\ page[i].id # page[j].id

\* The delivery log on screen shows attempts of the server's log, each once and newest first,
\* and misses none down to its cursor but what shares its millisecond with the end of a
\* page, unless a delivery fell into the load of a page or two visits' pages met.
LogIsExact ==
  Quiet /\ store.log.loaded /\ ~behind["log"] =>
    LET shown == ToSet(store.log.data)
        due == {d \in ToSet(log) : store.before # 0 => d.time >= store.before}
    IN  /\ NewestFirst(store.log.data)
        /\ shown \subseteq due
        /\ {d \in due : d.time \notin cuts} \subseteq shown

AtRest == store.server.loaded /\ ~gate.dirty /\ gate.effect = NoScope

\* Only a snapshot that older and newer worlds have mixed has a number twice.
NumbersHaveOneOwner ==
  \A n \in Numbers : \A i, j \in Owners(store.server.data, n) : i = j

\* scope.ts (6-11): the reducer heals the store, the router redirects the URL, "and they must
\* not disagree".  When the page is at rest, URL and store name one scope, it exists, and
\* the view is on screen; only a number that went and came back between two renders, or an
\* account that had no number, had one and has none, leaves the page blank.
PageIsShown ==
  AtRest /\ Scoped /\ ~gate.returned /\ NumbersHaveOneOwner =>
    IF path.scope.account = 0 THEN store.server.data = <<>>
    ELSE Honest /\ store.scope = Resolved

\* app.tsx, scope-gate.tsx: redirects do not send each other back and forth.  After whatever
\* happens the page is at rest within two of them.
RedirectsEnd == gate.hops <= 2
==============================================================================
