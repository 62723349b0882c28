--------------------------- MODULE ConsoleProofs ---------------------------
(***************************************************************************)
(* The console's tab, for any accounts, numbers, seed, snapshot file and   *)
(* links: the page is shown and its redirects end, and what the badge, the *)
(* token card, the templates and the delivery log say is what the server   *)
(* has.  SnapshotProofs goes on from here with the accounts.               *)
(*                                                                         *)
(* The types come first, with what each action does as a record of its     *)
(* own (ServerMoves, Landed, Navigated, Showed...), so that the later      *)
(* invariants read these and not the actions.                              *)
(*                                                                         *)
(* The page: resolveScope() is stable, what it found once it finds again,  *)
(* so the path is honest after two redirects (RepairsEnd).  What was       *)
(* announced has gone since, and the gate knows, or the scope that the     *)
(* reducer healed is still the one (Kept, Rest).                           *)
(*                                                                         *)
(* The cells, a rule, the token, a template: frames are in order, and the  *)
(* last one under way about a cell says what the cell is (FramesTell).  So *)
(* an answer, the store and the awaited answer are right about a cell that *)
(* nothing is coming about, unless something has passed them by (Current). *)
(*                                                                         *)
(* The log: its rows are in the order of their milliseconds, and what was  *)
(* announced was above all that were logged before its millisecond         *)
(* (LogOrder, DeliveriesApart).  A page that was read is a page of the log *)
(* as it was then, but for what shares the millisecond of its end          *)
(* (LatestHolds, OlderHolds), and the list with the attempts on their way  *)
(* is the log down to the cursor, but for the milliseconds at which a page *)
(* ended, unless something has passed it by or a wipe is on its way        *)
(* (LogHolds).                                                             *)
(***************************************************************************)
EXTENDS Console, SequenceTheorems, FiniteSetTheorems, WellFoundedInduction, TLAPS

Waba == [id : Accounts, name : {0, 1}, numbers : Seq(Phones)]
Kinds == {"created", "updated", "deleted"}
Statuses == [Accounts -> Nat]

\* What a frame of each type says.
WabaBodies == [change : Kinds, id : Accounts, name : {0, 1}]
NumberBodies == [change : Kinds, account : Accounts, number : Phones]
RuleBodies == [change : Kinds, rule : Rules]
TemplateBodies == [account : Accounts, status : Nat]
FrameBodies(type) ==
  CASE type = "waba" -> WabaBodies
    [] type = "number" -> NumberBodies
    [] type = "rule" -> RuleBodies
    [] type = "token" -> BOOLEAN
    [] type = "template" -> TemplateBodies
    [] type = "delivery" -> Attempts
    [] type \in {"state.reset", "state.imported"} -> Worlds
FrameTypes == {"waba", "number", "rule", "token", "template", "delivery", "state.reset", "state.imported"}

Frames == UNION {[type : {t}, body : FrameBodies(t), at : Nat] : t \in FrameTypes}

Loads(S) == {NotLoaded} \cup {Loaded(d) : d \in S}

\* The log's types come with its part, below (PagesTyped).
IsStore(st) ==
  st \in [server : Loads(Worlds), rules : Loads(Seq(Rules)), tokens : Loads(BOOLEAN),
          templates : Loads(Statuses), log : {st.log}, before : {st.before}, scope : Scopes]

Values(c) ==
  CASE c = "server" -> Worlds
    [] c = "rules" -> Seq(Rules)
    [] c = "tokens" -> BOOLEAN
    [] c = "templates" -> Statuses

IsAnswer(g, r) ==
  /\ r \in [stage : {"answered"}, arg : {r.arg}, at : Nat, old : BOOLEAN, data : {r.data}]
  /\ \A c \in About(g) \ {"log"} : r.data[c] \in Values(c)
IsRequest(g, r) == r = Idle \/ r = Sent(r.arg) \/ IsAnswer(g, r)

IsEcho(e) ==
  \/ e = NoEcho
  \/ e \in [pending : {TRUE}, frame : Frames, old : SUBSET Collections, heard : BOOLEAN]

Gates ==
  [dirty : BOOLEAN, hops : Nat, announced : Scopes, effect : Scopes, asked : Accounts \cup {0},
   mounted : Views \cup {"none"}, gone : SUBSET ({"number", "bare"} \X Nat), returned : BOOLEAN,
   connectedBefore : BOOLEAN]

ServerTypes ==
  /\ wabas \in Worlds /\ rules \in Seq(Rules) /\ expired \in BOOLEAN
  /\ templates \in Statuses /\ changes \in Nat
  /\ clock \in Nat \ {0} /\ imports \in [pending : Nat, at : 0 .. changes]
WireTypes ==
  /\ connected \in BOOLEAN
  /\ frames \in Seq(Frames)
  /\ IsEcho(echo)
RequestTypes ==
  /\ requests = [g \in Gets |-> requests[g]]
  /\ \A g \in Gets : IsRequest(g, requests[g])
TabTypes ==
  /\ path \in [view : Views, scope : Scopes] /\ last \in Scopes
  /\ gate \in Gates
  /\ behind \in [Collections -> BOOLEAN]
TypeOK == ServerTypes /\ WireTypes /\ RequestTypes /\ IsStore(store) /\ TabTypes

-----------------------------------------------------------------------------
(* Lists *)

\* At() finds the item of a known id.
LEMMA KnownAt ==
  ASSUME NEW s, NEW id, Known(s, id)
  PROVE  At(s, id) \in DOMAIN s /\ s[At(s, id)].id = id
<1>1. PICK i \in DOMAIN s : s[i].id = id
  BY DEF Known, Ids
<1>2. QED
  BY <1>1 DEF At

\* The filter takes the item of that id out and leaves the others in their order.
LEMMA DroppedIsSeq ==
  ASSUME NEW S, NEW s \in Seq(S), NEW id
  PROVE  Dropped(s, id) \in Seq(S)
<1>1. CASE ~Known(s, id)
  BY <1>1 DEF Dropped
<1>2. CASE Known(s, id)
  <2> DEFINE k == At(s, id)
  <2>1. k \in 1 .. Len(s)
    BY <1>2, KnownAt
  <2> HIDE DEF k
  <2>2. SubSeq(s, 1, k - 1) \in Seq(S) /\ SubSeq(s, k + 1, Len(s)) \in Seq(S)
    BY <2>1
  <2>3. Dropped(s, id) = SubSeq(s, 1, k - 1) \o SubSeq(s, k + 1, Len(s))
    BY <1>2 DEF Dropped, RemoveAt, k
  <2>4. QED
    BY <2>2, <2>3
<1>3. QED
  BY <1>1, <1>2

\* A list stays a list when an item is replaced or appended.
LEMMA UpsertIsSeq ==
  ASSUME NEW S, NEW s \in Seq(S), NEW x \in S
  PROVE  Upsert(s, x) \in Seq(S)
<1>1. CASE Known(s, x.id)
  BY <1>1, KnownAt, ExceptSeq DEF Upsert
<1>2. CASE ~Known(s, x.id)
  BY <1>2 DEF Upsert
<1>3. QED
  BY <1>1, <1>2

\* A list that is changed item by item.
LEMMA SeqOfMapped ==
  ASSUME NEW S, NEW s \in Seq(S), NEW t, DOMAIN t = DOMAIN s, t = [i \in DOMAIN s |-> t[i]],
         \A i \in DOMAIN s : t[i] \in S
  PROVE  t \in Seq(S)
<1>1. DOMAIN s = 1 .. Len(s) /\ Len(s) \in Nat
  OBVIOUS
<1>2. t \in [1 .. Len(s) -> S]
  BY <1>1
<1>3. QED
  BY <1>1, <1>2, SeqDef

\* What is loaded has its data in the set, what is not has none.
LEMMA LoadsFacts ==
  ASSUME NEW S, NEW x \in Loads(S)
  PROVE  /\ x.loaded \in BOOLEAN
         /\ ~x.loaded => x = NotLoaded
         /\ x.loaded => x.data \in S /\ x = Loaded(x.data)
<1>1. CASE x = NotLoaded
  BY <1>1 DEF NotLoaded
<1>2. CASE \E d \in S : x = Loaded(d)
  <2>1. PICK d \in S : x = Loaded(d)
    BY <1>2
  <2>2. x.loaded = TRUE /\ x.data = d
    BY <2>1 DEF Loaded
  <2>3. QED
    BY <2>1, <2>2
<1>3. QED
  BY <1>1, <1>2 DEF Loads

\* Loaded(d) is loaded with d.
LEMMA LoadedInLoads ==
  ASSUME NEW S, NEW d \in S
  PROVE  /\ Loaded(d) \in Loads(S) /\ NotLoaded \in Loads(S)
         /\ Loaded(d).loaded = TRUE /\ Loaded(d).data = d /\ NotLoaded.loaded = FALSE
BY DEF Loads, Loaded, NotLoaded

-----------------------------------------------------------------------------
(* The snapshot *)

\* A snapshot is a list of accounts; the seed, the file and the empty one are snapshots.
LEMMA WorldsAre == Worlds = Seq(Waba) /\ Seed \in Worlds /\ Snapshot \in Worlds /\ <<>> \in Worlds
BY ConsoleAssumption DEF Worlds, Waba

\* What an account of a snapshot looks like.
LEMMA WorldFacts ==
  ASSUME NEW snap \in Worlds
  PROVE  /\ DOMAIN snap = 1 .. Len(snap) /\ Len(snap) \in Nat
         /\ snap # <<>> => 1 \in DOMAIN snap
         /\ \A i \in DOMAIN snap : /\ snap[i] \in Waba /\ snap[i].id \in Accounts
                                   /\ snap[i].numbers \in Seq(Phones)
<1>1. snap \in Seq(Waba)
  BY WorldsAre
<1>2. /\ DOMAIN snap = 1 .. Len(snap) /\ Len(snap) \in Nat
      /\ snap # <<>> => 1 \in DOMAIN snap
      /\ \A i \in DOMAIN snap : snap[i] \in Waba
  BY <1>1
<1>3. QED
  BY <1>2 DEF Waba

\* A set of positions that is not empty has a first one.
LEMMA LeastIsIn ==
  ASSUME NEW S, S \subseteq Nat, S # {}
  PROVE  Least(S) \in S /\ \A i \in S : Least(S) <= i
<1>1. PICK x \in S : \A y \in S : ~ (<<y, x>> \in OpToRel(<, Nat))
  BY NatLessThanWellFounded, WFMin
<1>2. ASSUME NEW y \in S PROVE x <= y
  <2>1. x \in Nat /\ y \in Nat
    OBVIOUS
  <2>2. ~ (y < x)
    BY <1>1, <2>1 DEF OpToRel
  <2>3. QED
    BY <2>1, <2>2
<1>3. QED
  BY <1>2 DEF Least

\* resolveScope() goes to the owner of the number wanted, else to the account wanted if it
\* is there, else to an account with a number, and only then to one without.
Picked(snap, wanted, i) ==
  /\ i \in DOMAIN snap
  /\ ResolveScope(snap, wanted) =
       Scope(snap[i].id, IF snap[i].numbers = <<>> THEN 0
                         ELSE IF Known(snap[i].numbers, wanted.number) THEN wanted.number
                         ELSE snap[i].numbers[1].id)
  /\ Owners(snap, wanted.number) # {} => i = Least(Owners(snap, wanted.number))
                                        /\ i \in Owners(snap, wanted.number)
  /\ Owners(snap, wanted.number) = {} /\ Known(snap, wanted.account) => i = At(snap, wanted.account)
  /\ Owners(snap, wanted.number) = {} /\ ~Known(snap, wanted.account) /\ snap[i].numbers = <<>> =>
       \A j \in DOMAIN snap : snap[j].numbers = <<>>

\* resolveScope() picks one of the accounts, by the first of its rules that applies.
LEMMA ResolvePicks ==
  ASSUME NEW snap \in Worlds, snap # <<>>, NEW wanted
  PROVE  \E i \in DOMAIN snap : Picked(snap, wanted, i)
<1> DEFINE owners == Owners(snap, wanted.number)
           populated == {i \in DOMAIN snap : snap[i].numbers # <<>>}
           i == CASE owners # {} -> Least(owners)
                  [] owners = {} /\ Known(snap, wanted.account) -> At(snap, wanted.account)
                  [] OTHER -> IF populated # {} THEN Least(populated) ELSE 1
<1>1. owners \subseteq DOMAIN snap /\ populated \subseteq DOMAIN snap /\ DOMAIN snap \subseteq Nat
  BY WorldFacts DEF Owners
<1>2. ResolveScope(snap, wanted) =
        Scope(snap[i].id, IF snap[i].numbers = <<>> THEN 0
                          ELSE IF Known(snap[i].numbers, wanted.number) THEN wanted.number
                          ELSE snap[i].numbers[1].id)
  <2> DEFINE Of(waba) == Scope(waba.id, CASE waba.numbers = <<>> -> 0
                                          [] Known(waba.numbers, wanted.number) -> wanted.number
                                          [] OTHER -> waba.numbers[1].id)
  <2>1. ResolveScope(snap, wanted) = Of(snap[i])
    BY Zenon DEF ResolveScope
  <2>2. ~Known(<<>>, wanted.number)
    BY DEF Known, Ids
  <2> HIDE DEF i
  <2>3. QED
    BY <2>1, <2>2
<1>3. /\ owners # {} => i = Least(owners)
      /\ owners = {} /\ Known(snap, wanted.account) => i = At(snap, wanted.account)
      /\ owners = {} /\ ~Known(snap, wanted.account) =>
           i = IF populated # {} THEN Least(populated) ELSE 1
  OBVIOUS
<1> HIDE DEF i
<1>4. 1 \in DOMAIN snap
  BY WorldFacts
<1>5. CASE owners # {}
  <2>1. i \in owners /\ i \in DOMAIN snap /\ i = Least(owners)
    BY <1>1, <1>3, <1>5, LeastIsIn
  <2>2. Picked(snap, wanted, i)
    BY <1>2, <1>5, <2>1 DEF Picked
  <2>3. QED
    BY <2>1, <2>2
<1>6. CASE owners = {} /\ Known(snap, wanted.account)
  <2>1. i \in DOMAIN snap
    BY <1>3, <1>6, KnownAt
  <2>2. Picked(snap, wanted, i)
    BY <1>2, <1>3, <1>6, <2>1 DEF Picked
  <2>3. QED
    BY <2>1, <2>2
<1>7. CASE owners = {} /\ ~Known(snap, wanted.account)
  <2>1. i \in DOMAIN snap /\ (populated # {} => i \in populated)
    BY <1>1, <1>3, <1>4, <1>7, LeastIsIn
  <2>2. snap[i].numbers = <<>> => \A j \in DOMAIN snap : snap[j].numbers = <<>>
    BY <2>1
  <2>3. Picked(snap, wanted, i)
    BY <1>2, <1>7, <2>1, <2>2 DEF Picked
  <2>4. QED
    BY <2>1, <2>3
<1>8. QED
  BY <1>5, <1>6, <1>7

\* The scope is of the account picked, and of it the number wanted, or else the first.
LEMMA PickedScope ==
  ASSUME NEW snap \in Worlds, NEW wanted \in Scopes, NEW i, Picked(snap, wanted, i)
  PROVE  LET r == ResolveScope(snap, wanted) IN
         /\ r \in Scopes /\ r.account = snap[i].id /\ r.account \in Accounts
         /\ r.number = 0 <=> snap[i].numbers = <<>>
         /\ r.number # 0 => r.number \in Numbers /\ Known(snap[i].numbers, r.number)
         /\ Known(snap, r.account)
<1> DEFINE ns == snap[i].numbers
           n == IF ns = <<>> THEN 0
                ELSE IF Known(ns, wanted.number) THEN wanted.number ELSE ns[1].id
<1>1. /\ i \in DOMAIN snap /\ snap[i].id \in Accounts /\ ns \in Seq(Phones)
      /\ ResolveScope(snap, wanted) = Scope(snap[i].id, n)
  BY WorldFacts DEF Picked
<1>2. \A k \in DOMAIN ns : ns[k].id \in Numbers
  <2>1. \A k \in DOMAIN ns : ns[k] \in Phones
    BY <1>1
  <2>2. QED
    BY <2>1 DEF Phones
<1>3. ASSUME ns # <<>> PROVE n \in Numbers /\ Known(ns, n)
  <2>1. 1 \in DOMAIN ns
    BY <1>1, <1>3
  <2>2. CASE Known(ns, wanted.number)
    BY <1>2, <1>3, <2>2, KnownAt
  <2>3. CASE ~Known(ns, wanted.number)
    BY <1>2, <1>3, <2>1, <2>3 DEF Known, Ids
  <2>4. QED
    BY <2>2, <2>3
<1>4. Known(snap, snap[i].id)
  BY <1>1 DEF Known, Ids
<1>5. 0 \notin Numbers
  BY ConsoleAssumption
<1> HIDE DEF n
<1>6. n = 0 <=> ns = <<>>
  BY <1>3, <1>5 DEF n
<1>7. Scope(snap[i].id, n) \in Scopes /\ Scope(snap[i].id, n).account = snap[i].id
      /\ Scope(snap[i].id, n).number = n
  BY <1>1, <1>3, <1>6 DEF Scope, Scopes
<1>8. QED
  BY <1>1, <1>3, <1>4, <1>6, <1>7

\* Whatever is wanted, what is found is a scope.
LEMMA ResolveInScopes ==
  ASSUME NEW snap \in Worlds, NEW wanted \in Scopes
  PROVE  /\ ResolveScope(snap, wanted) \in Scopes /\ NoScope \in Scopes
         /\ snap # <<>> => ResolveScope(snap, wanted).account \in Accounts
<1>1. NoScope \in Scopes
  BY DEF NoScope, Scopes
<1>2. CASE snap = <<>>
  BY <1>1, <1>2 DEF ResolveScope
<1>3. CASE snap # <<>>
  <2>1. PICK i \in DOMAIN snap : Picked(snap, wanted, i)
    BY <1>3, ResolvePicks
  <2>2. QED
    BY <1>1, <2>1, PickedScope
<1>4. QED
  BY <1>1, <1>2, <1>3

-----------------------------------------------------------------------------
(* Frames and what they do to the store *)

\* The parts of a frame.
LEMMA FrameIs ==
  ASSUME NEW f \in Frames
  PROVE  /\ f.type \in FrameTypes /\ f.body \in FrameBodies(f.type) /\ f.at \in Nat
         /\ f = [type |-> f.type, body |-> f.body, at |-> f.at]
<1>1. PICK t \in FrameTypes : f \in [type : {t}, body : FrameBodies(t), at : Nat]
  BY DEF Frames
<1>2. f.type = t
  BY <1>1
<1>3. QED
  BY <1>1, <1>2

\* A record of a type, a body of it and a stamp is a frame.
LEMMA IsAFrame ==
  ASSUME NEW t \in FrameTypes, NEW body \in FrameBodies(t), NEW n \in Nat
  PROVE  [type |-> t, body |-> body, at |-> n] \in Frames
BY DEF Frames

\* What frames of each type carry.
LEMMA Bodies ==
  /\ FrameBodies("waba") = WabaBodies /\ FrameBodies("number") = NumberBodies
  /\ FrameBodies("rule") = RuleBodies /\ FrameBodies("token") = BOOLEAN
  /\ FrameBodies("template") = TemplateBodies /\ FrameBodies("delivery") = Attempts
  /\ FrameBodies("state.reset") = Worlds /\ FrameBodies("state.imported") = Worlds
BY DEF FrameBodies

\* The store's accounts stay, or others come and the scope is moved into them.
Heals(st, st2) ==
  \/ st2.server = st.server /\ st2.scope = st.scope
  \/ \E snap \in Worlds :
       st2.server = Loaded(snap) /\ st2.scope = ResolveScope(snap, st.scope)

\* withServer() changes the snapshot and the scope only.
LEMMA WithServerFacts ==
  ASSUME NEW st, IsStore(st), NEW snap \in Worlds
  PROVE  LET st2 == WithServer(st, snap) IN
         /\ IsStore(st2) /\ Heals(st, st2)
         /\ st2.rules = st.rules /\ st2.tokens = st.tokens /\ st2.templates = st.templates
<1> DEFINE st2 == WithServer(st, snap)
<1>1. /\ st2.server = Loaded(snap) /\ st2.scope = ResolveScope(snap, st.scope)
      /\ st2.rules = st.rules /\ st2.tokens = st.tokens /\ st2.templates = st.templates
      /\ st2.log = st.log /\ st2.before = st.before
  BY DEF WithServer, IsStore
<1>2. Loaded(snap) \in Loads(Worlds) /\ ResolveScope(snap, st.scope) \in Scopes
  BY LoadedInLoads, ResolveInScopes DEF IsStore
<1>3. IsStore(st2)
  BY <1>2 DEF IsStore, WithServer
<1>4. Heals(st, st2)
  BY <1>1 DEF Heals
<1>5. QED
  BY <1>1, <1>3, <1>4

\* A new account is one.
LEMMA AccountIn ==
  ASSUME NEW a \in Accounts, NEW name \in {0, 1}, NEW ns \in Seq(Phones)
  PROVE  Account(a, name, ns) \in Waba
BY DEF Account, Waba

\* An account added, renamed, taken out.
LEMMA WorldsClosed ==
  ASSUME NEW snap \in Worlds, NEW a \in Accounts, NEW name \in {0, 1}
  PROVE  /\ Append(snap, Account(a, name, <<>>)) \in Worlds
         /\ Dropped(snap, a) \in Worlds
         /\ Known(snap, a) => [snap EXCEPT ![At(snap, a)].name = name] \in Worlds
<1>1. snap \in Seq(Waba) /\ <<>> \in Seq(Phones)
  BY WorldsAre
<1>2. Append(snap, Account(a, name, <<>>)) \in Seq(Waba)
  <2>1. Account(a, name, <<>>) \in Waba
    BY <1>1, AccountIn
  <2>2. QED
    BY <1>1, <2>1
<1>3. Dropped(snap, a) \in Seq(Waba)
  BY <1>1, DroppedIsSeq
<1>4. ASSUME Known(snap, a) PROVE [snap EXCEPT ![At(snap, a)].name = name] \in Seq(Waba)
  <2> DEFINE k == At(snap, a)
  <2>1. k \in 1 .. Len(snap) /\ snap[k] \in Waba
    BY <1>1, <1>4, KnownAt
  <2> HIDE DEF k
  <2>2. [snap[k] EXCEPT !.name = name] \in Waba
    BY <2>1 DEF Waba
  <2>3. [snap EXCEPT ![k].name = name] = [snap EXCEPT ![k] = [snap[k] EXCEPT !.name = name]]
    OBVIOUS
  <2>4. [snap EXCEPT ![k] = [snap[k] EXCEPT !.name = name]] \in Seq(Waba)
    BY <1>1, <2>1, <2>2, ExceptSeq
  <2>5. QED
    BY <2>3, <2>4 DEF k
<1>5. QED
  BY <1>2, <1>3, <1>4, WorldsAre

\* The numbers of an account replaced.
LEMMA NumbersReplaced ==
  ASSUME NEW snap \in Worlds, NEW k \in DOMAIN snap, NEW ns \in Seq(Phones)
  PROVE  [snap EXCEPT ![k].numbers = ns] \in Worlds
<1>1. snap \in Seq(Waba) /\ k \in 1 .. Len(snap) /\ snap[k] \in Waba
  BY WorldsAre
<1>2. [snap[k] EXCEPT !.numbers = ns] \in Waba
  BY <1>1 DEF Waba
<1>3. [snap EXCEPT ![k].numbers = ns] = [snap EXCEPT ![k] = [snap[k] EXCEPT !.numbers = ns]]
  OBVIOUS
<1>4. QED
  BY <1>1, <1>2, <1>3, ExceptSeq, WorldsAre

-----------------------------------------------------------------------------
(* applyWsEvent *)

\* A frame about an account changes the snapshot and the scope only.
LEMMA ApplyWabaFacts ==
  ASSUME NEW st, IsStore(st), NEW f \in WabaBodies
  PROVE  LET st2 == ApplyWabaChange(st, f) IN
         /\ IsStore(st2) /\ Heals(st, st2)
         /\ st2.rules = st.rules /\ st2.tokens = st.tokens /\ st2.templates = st.templates
<1>1. f.id \in Accounts /\ f.name \in {0, 1}
  BY DEF WabaBodies
<1>2. CASE ~st.server.loaded
  BY <1>2 DEF ApplyWabaChange, Heals
<1>3. CASE st.server.loaded
  <2> DEFINE s == st.server.data
  <2>1. s \in Worlds
    BY <1>3, LoadsFacts DEF IsStore
  <2> DEFINE snap == CASE f.change = "deleted" -> Dropped(s, f.id)
                        [] f.change # "deleted" /\ Known(s, f.id) ->
                             [s EXCEPT ![At(s, f.id)].name = f.name]
                        [] OTHER -> Append(s, Account(f.id, f.name, <<>>))
  <2>2. snap \in Worlds
    BY <1>1, <2>1, WorldsClosed
  <2>3. ApplyWabaChange(st, f) = WithServer(st, snap)
    BY <1>3 DEF ApplyWabaChange
  <2> HIDE DEF snap
  <2>4. QED
    BY <2>2, <2>3, WithServerFacts
<1>4. QED
  BY <1>2, <1>3

\* And so does one about a number.
LEMMA ApplyNumberFacts ==
  ASSUME NEW st, IsStore(st), NEW f \in NumberBodies
  PROVE  LET st2 == ApplyPhoneNumberChange(st, f) IN
         /\ IsStore(st2) /\ Heals(st, st2)
         /\ st2.rules = st.rules /\ st2.tokens = st.tokens /\ st2.templates = st.templates
<1>1. f.account \in Accounts /\ f.number \in Phones
  BY DEF NumberBodies
<1>2. CASE ~st.server.loaded
  BY <1>2 DEF ApplyPhoneNumberChange, Heals
<1>3. CASE st.server.loaded
  <2> DEFINE s == st.server.data
             Changed(numbers) == IF f.change = "deleted" THEN Dropped(numbers, f.number.id)
                                 ELSE Upsert(numbers, f.number)
             snap == [i \in DOMAIN s |->
                        IF s[i].id = f.account THEN [s[i] EXCEPT !.numbers = Changed(@)] ELSE s[i]]
  <2>1. s \in Worlds /\ s \in Seq(Waba)
    BY <1>3, LoadsFacts, WorldsAre DEF IsStore
  <2>2. \A i \in DOMAIN s : s[i] \in Waba /\ s[i].numbers \in Seq(Phones)
    BY <2>1, WorldFacts
  <2>3. ASSUME NEW i \in DOMAIN s PROVE snap[i] \in Waba
    <3>1. Changed(s[i].numbers) \in Seq(Phones)
      BY <1>1, <2>2, DroppedIsSeq, UpsertIsSeq
    <3>2. [s[i] EXCEPT !.numbers = Changed(s[i].numbers)] \in Waba
      BY <2>2, <3>1 DEF Waba
    <3>3. QED
      BY <2>2, <3>2
  <2>4. ApplyPhoneNumberChange(st, f) = WithServer(st, snap)
    BY <1>3 DEF ApplyPhoneNumberChange
  <2>5. snap = [i \in DOMAIN s |-> snap[i]] /\ DOMAIN snap = DOMAIN s
    OBVIOUS
  <2> HIDE DEF snap
  <2>6. snap \in Worlds
    BY <2>1, <2>3, <2>5, SeqOfMapped, WorldsAre
  <2>7. QED
    BY <2>4, <2>6, WithServerFacts
<1>4. QED
  BY <1>2, <1>3

-----------------------------------------------------------------------------
(* Cells: a rule, the token, the template of an account *)

Cells == {"rules", "tokens", "templates"}

Status(s, r) == {x \in ToSet(s) : x.id = r}

ValueIn(d, k, r) ==
  CASE k = "rules" -> Status(d, r)
    [] k = "tokens" -> d
    [] k = "templates" -> d[r]
Held(st, k) ==
  CASE k = "rules" -> st.rules
    [] k = "tokens" -> st.tokens
    [] k = "templates" -> st.templates
Here(k, r) ==
  CASE k = "rules" -> Status(rules, r)
    [] k = "tokens" -> expired
    [] k = "templates" -> templates[r]

\* Frames after which a cell may have another value.
Touches(f, k, r) ==
  \/ Wipes(f)
  \/ k = "rules" /\ f.type = "rule" /\ f.body.rule.id = r
  \/ k = "tokens" /\ f.type = "token"
  \/ k = "templates" /\ f.type = "template" /\ f.body.account = r
  \/ k = "templates" /\ f.type = "waba" /\ f.body.change = "deleted" /\ f.body.id = r

\* A frame that touches a cell says that it has the value v, if it says what the value is.
Says(f, k, v) ==
  CASE f.type = "rule" -> v = IF f.body.change = "deleted" THEN {} ELSE {f.body.rule}
    [] f.type = "token" -> v = f.body
    [] f.type = "template" -> v = f.body.status
    [] f.type = "state.reset" /\ k = "rules" -> v = {}
    [] f.type = "state.reset" /\ k = "tokens" -> v = FALSE
    [] OTHER -> TRUE

\* A rule's status is the item of its id.
LEMMA InStatus ==
  ASSUME NEW s, NEW r, NEW x
  PROVE  x \in Status(s, r) <=> \E i \in DOMAIN s : s[i] = x /\ x.id = r
BY DEF Status, ToSet

\* Dropping an id leaves no item of it and the others as they were.
LEMMA DroppedStatus ==
  ASSUME NEW S, NEW s \in Seq(S), Distinct(s), NEW id
  PROVE  /\ Distinct(Dropped(s, id))
         /\ Status(Dropped(s, id), id) = {}
         /\ \A r : r # id => Status(Dropped(s, id), r) = Status(s, r)
<1>1. CASE ~Known(s, id)
  BY <1>1 DEF Dropped, Status, ToSet, Known, Ids
<1>2. CASE Known(s, id)
  <2> DEFINE k == At(s, id)
             t == Dropped(s, id)
  <2>1. k \in 1 .. Len(s) /\ s[k].id = id
    BY <1>2, KnownAt
  <2>2. \A i \in 1 .. Len(s) : s[i].id = id => i = k
    BY <2>1 DEF Distinct
  <2>3. t = SubSeq(s, 1, k - 1) \o SubSeq(s, k + 1, Len(s))
    BY <1>2 DEF Dropped, RemoveAt
  <2> HIDE DEF k, t
  <2>4. /\ t \in Seq(S) /\ Len(t) = Len(s) - 1
        /\ \A i \in 1 .. Len(t) : t[i] = IF i < k THEN s[i] ELSE s[i + 1]
    <3> DEFINE a == SubSeq(s, 1, k - 1)
               b == SubSeq(s, k + 1, Len(s))
    <3>1. Len(s) \in Nat /\ k \in Int
      BY <2>1
    <3>2. /\ a \in Seq(S) /\ Len(a) = k - 1
          /\ \A i \in 1 .. k - 1 : a[i] = s[i]
      BY <2>1
    <3>3. /\ b \in Seq(S) /\ Len(b) = Len(s) - k
          /\ \A i \in 1 .. Len(s) - k : b[i] = s[k + i]
      BY <2>1, <3>1
    <3> HIDE DEF a, b
    <3>4. /\ t \in Seq(S) /\ Len(t) = Len(a) + Len(b)
          /\ \A i \in 1 .. Len(a) + Len(b) : t[i] = IF i <= Len(a) THEN a[i] ELSE b[i - Len(a)]
      BY <2>3, <3>2, <3>3, ConcatProperties DEF a, b
    <3>5. ASSUME NEW i \in 1 .. Len(t) PROVE t[i] = IF i < k THEN s[i] ELSE s[i + 1]
      BY <2>1, <3>1, <3>2, <3>3, <3>4
    <3>6. Len(t) = Len(s) - 1
      BY <2>1, <3>1, <3>2, <3>3, <3>4
    <3>7. QED
      BY <3>4, <3>5, <3>6
  <2>5. /\ DOMAIN t = 1 .. Len(t) /\ DOMAIN s = 1 .. Len(s)
        /\ Len(s) \in Nat /\ Len(t) \in Nat /\ k \in Nat
    BY <2>1, <2>4
  <2>6. \A i \in 1 .. Len(t) : t[i].id # id
    <3>1. TAKE i \in 1 .. Len(t)
    <3>2. i < k => i \in 1 .. Len(s) /\ i # k
      BY <2>4, <2>5
    <3>3. ~(i < k) => i + 1 \in 1 .. Len(s) /\ i + 1 # k
      BY <2>4, <2>5
    <3>4. QED
      BY <2>2, <2>4, <3>2, <3>3
  <2>7. Distinct(t)
    <3>1. SUFFICES ASSUME NEW i \in 1 .. Len(t), NEW j \in 1 .. Len(t), t[i].id = t[j].id
                   PROVE  i = j
      BY <2>5 DEF Distinct
    <3> DEFINE from(m) == IF m < k THEN m ELSE m + 1
    <3>2. from(i) \in DOMAIN s /\ from(j) \in DOMAIN s /\ t[i] = s[from(i)] /\ t[j] = s[from(j)]
      BY <2>4, <2>5
    <3>3. from(i) = from(j)
      BY <3>1, <3>2 DEF Distinct
    <3>4. QED
      BY <2>5, <3>3
  <2>8. Status(t, id) = {}
    BY <2>5, <2>6 DEF Status, ToSet
  <2>9. ASSUME NEW r, r # id PROVE Status(t, r) = Status(s, r)
    <3>1. ASSUME NEW i \in DOMAIN t PROVE \E j \in DOMAIN s : s[j] = t[i]
      BY <2>4, <2>5
    <3>2. ASSUME NEW j \in DOMAIN s, s[j].id = r PROVE \E i \in DOMAIN t : t[i] = s[j]
      <4>1. j # k /\ j \in 1 .. Len(s)
        BY <2>1, <2>5, <2>9, <3>2
      <4>2. CASE j < k
        BY <2>1, <2>4, <2>5, <4>1, <4>2
      <4>3. CASE j > k
        <5>1. j - 1 \in 1 .. Len(t) /\ ~(j - 1 < k) /\ (j - 1) + 1 = j
          BY <2>1, <2>4, <2>5, <4>1, <4>3
        <5>2. QED
          BY <2>4, <2>5, <5>1
      <4>4. QED
        BY <2>5, <4>1, <4>2, <4>3
    <3>3. QED
      BY <3>1, <3>2 DEF Status, ToSet
  <2>10. QED
    BY <2>7, <2>8, <2>9 DEF t
<1>3. QED
  BY <1>1, <1>2

\* Upserting an item leaves it alone under its id, and the others as they were.
LEMMA UpsertStatus ==
  ASSUME NEW S, NEW s \in Seq(S), Distinct(s), NEW x \in S
  PROVE  /\ Distinct(Upsert(s, x))
         /\ Status(Upsert(s, x), x.id) = {x}
         /\ \A r : r # x.id => Status(Upsert(s, x), r) = Status(s, r)
<1> DEFINE t == Upsert(s, x)
<1>1. DOMAIN s = 1 .. Len(s) /\ Len(s) \in Nat
  OBVIOUS
<1>2. CASE Known(s, x.id)
  <2> DEFINE k == At(s, x.id)
  <2>1. k \in DOMAIN s /\ s[k].id = x.id /\ t = [s EXCEPT ![k] = x]
    BY <1>2, KnownAt DEF Upsert
  <2> HIDE DEF k, t
  <2>2. DOMAIN t = DOMAIN s /\ \A i \in DOMAIN s : t[i] = IF i = k THEN x ELSE s[i]
    BY <2>1
  <2>3. \A i \in DOMAIN s : s[i].id = x.id => i = k
    BY <2>1 DEF Distinct
  <2>4. Distinct(t)
    BY <2>1, <2>2, <2>3 DEF Distinct
  <2>5. Status(t, x.id) = {x}
    BY <2>1, <2>2, <2>3 DEF Status, ToSet
  <2>6. \A r : r # x.id => Status(t, r) = Status(s, r)
    BY <2>1, <2>2 DEF Status, ToSet
  <2>7. QED
    BY <2>4, <2>5, <2>6 DEF t
<1>3. CASE ~Known(s, x.id)
  <2>1. t = Append(s, x) /\ \A i \in DOMAIN s : s[i].id # x.id
    BY <1>3 DEF Upsert, Known, Ids
  <2> HIDE DEF t
  <2>2. /\ DOMAIN t = 1 .. Len(s) + 1
        /\ \A i \in DOMAIN s : t[i] = s[i]
        /\ t[Len(s) + 1] = x
    BY <1>1, <2>1
  <2>3. \A i \in DOMAIN t : i \in DOMAIN s \/ i = Len(s) + 1
    BY <1>1, <2>2
  <2>4. DOMAIN s \subseteq DOMAIN t /\ Len(s) + 1 \in DOMAIN t
    BY <1>1, <2>2
  <2>5. Distinct(t)
    BY <2>1, <2>2, <2>3 DEF Distinct
  <2>6. Status(t, x.id) = {x}
    BY <2>1, <2>2, <2>3, <2>4 DEF Status, ToSet
  <2>7. \A r : r # x.id => Status(t, r) = Status(s, r)
    BY <2>1, <2>2, <2>3, <2>4 DEF Status, ToSet
  <2>8. QED
    BY <2>5, <2>6, <2>7 DEF t
<1>4. QED
  BY <1>2, <1>3

\* What dispatching a frame does: the types stay, the accounts are healed, the cell it is
\* about has the value it says, and the others stay.
RulesDistinct(st) == st.rules.loaded => Distinct(st.rules.data)
Applied(st, st2, f) ==
  /\ IsStore(st2) /\ Heals(st, st2) /\ RulesDistinct(st2)
  /\ \A k \in Cells, r \in Int :
       Held(st2, k).loaded =>
         /\ ~Touches(f, k, r) => /\ Held(st, k).loaded
                                 /\ ValueIn(Held(st2, k).data, k, r) = ValueIn(Held(st, k).data, k, r)
         /\ Touches(f, k, r) => Says(f, k, ValueIn(Held(st2, k).data, k, r))
  /\ st2.rules.loaded \/ ~st.rules.loaded \/ f.type = "state.imported"

\* The types of the store's parts.
LEMMA StoreFields ==
  ASSUME NEW st, IsStore(st)
  PROVE  /\ st.server \in Loads(Worlds) /\ st.rules \in Loads(Seq(Rules))
         /\ st.tokens \in Loads(BOOLEAN) /\ st.templates \in Loads(Statuses) /\ st.scope \in Scopes
BY DEF IsStore

\* Frames about accounts, numbers and deliveries leave the cells alone.
LEMMA SameCells ==
  ASSUME NEW st, NEW st2, NEW f \in Frames, f.type \in {"waba", "number", "delivery"},
         RulesDistinct(st), IsStore(st2), Heals(st, st2),
         st2.rules = st.rules, st2.tokens = st.tokens, st2.templates = st.templates
  PROVE  Applied(st, st2, f)
<1>1. \A k \in Cells : Held(st2, k) = Held(st, k)
  BY DEF Cells, Held
<1>2. \A k \in Cells : \A v : Says(f, k, v)
  BY DEF Says
<1>3. RulesDistinct(st2)
  BY DEF RulesDistinct
<1>4. st2.rules.loaded \/ ~st.rules.loaded
  OBVIOUS
<1>5. QED
  BY <1>1, <1>2, <1>3, <1>4 DEF Applied

\* A frame about a rule.
LEMMA ApplyRule ==
  ASSUME NEW st, IsStore(st), RulesDistinct(st), NEW f \in Frames, f.type = "rule"
  PROVE  Applied(st, ApplyRuleChange(st, f.body), f)
<1> DEFINE st2 == ApplyRuleChange(st, f.body)
           own == f.body.rule
           s == st.rules.data
           s2 == IF f.body.change = "deleted" THEN Dropped(s, own.id) ELSE Upsert(s, own)
<1>1. own \in Rules /\ f.body \in RuleBodies
  <2>1. f.body \in RuleBodies
    BY FrameIs, Bodies
  <2>2. QED
    BY <2>1 DEF RuleBodies
<1>2. CASE ~st.rules.loaded
  <2>1. st2 = st
    BY <1>2 DEF ApplyRuleChange
  <2>2. \A k \in Cells, r \in Int : Touches(f, k, r) => k = "rules"
    BY DEF Touches, Wipes
  <2>3. Heals(st, st2)
    BY <2>1 DEF Heals
  <2>4. Held(st2, "rules") = st.rules
    BY <2>1 DEF Held
  <2>5. QED
    BY <1>2, <2>1, <2>2, <2>3, <2>4 DEF Applied
<1>3. CASE st.rules.loaded
  <2>1. s \in Seq(Rules) /\ Distinct(s)
    BY <1>3, StoreFields, LoadsFacts DEF RulesDistinct
  <2>2. s2 \in Seq(Rules) /\ Distinct(s2)
    BY <1>1, <2>1, DroppedIsSeq, UpsertIsSeq, DroppedStatus, UpsertStatus
  <2>3. /\ Status(s2, own.id) = IF f.body.change = "deleted" THEN {} ELSE {own}
        /\ \A r : r # own.id => Status(s2, r) = Status(s, r)
    <3> HIDE DEF own, s
    <3>1. CASE f.body.change = "deleted"
      <4>1. s2 = Dropped(s, own.id)
        BY <3>1
      <4>2. /\ Status(Dropped(s, own.id), own.id) = {}
            /\ \A r : r # own.id => Status(Dropped(s, own.id), r) = Status(s, r)
        BY <2>1, DroppedStatus
      <4>3. QED
        BY <3>1, <4>1, <4>2
    <3>2. CASE f.body.change # "deleted"
      <4>1. own \in Rules /\ s \in Seq(Rules) /\ Distinct(s)
        BY <1>1, <2>1
      <4>2. Status(Upsert(s, own), own.id) = {own}
        BY <4>1, UpsertStatus
      <4>3. \A r : r # own.id => Status(Upsert(s, own), r) = Status(s, r)
        BY <4>1, UpsertStatus
      <4>4. s2 = Upsert(s, own)
        BY <3>2
      <4>5. QED
        BY <3>2, <4>2, <4>3, <4>4
    <3>3. QED
      BY <3>1, <3>2
  <2>4. st2 = [st EXCEPT !.rules = Loaded(s2)]
    BY <1>3 DEF ApplyRuleChange
  <2> HIDE DEF s2
  <2>5. Loaded(s2) \in Loads(Seq(Rules)) /\ Loaded(s2).loaded = TRUE /\ Loaded(s2).data = s2
    BY <2>2, LoadedInLoads
  <2>6. /\ st2.server = st.server /\ st2.scope = st.scope /\ st2.rules = Loaded(s2)
        /\ st2.tokens = st.tokens /\ st2.templates = st.templates
        /\ st2.log = st.log /\ st2.before = st.before
    BY <2>4 DEF IsStore
  <2>7. IsStore(st2)
    BY <2>4, <2>5 DEF IsStore
  <2> HIDE DEF st2
  <2>8. Heals(st, st2) /\ RulesDistinct(st2)
    BY <2>2, <2>5, <2>6 DEF Heals, RulesDistinct
  <2>9. ASSUME NEW k \in Cells, NEW r \in Int, Held(st2, k).loaded
        PROVE  /\ ~Touches(f, k, r) => /\ Held(st, k).loaded
                                       /\ ValueIn(Held(st2, k).data, k, r) = ValueIn(Held(st, k).data, k, r)
               /\ Touches(f, k, r) => Says(f, k, ValueIn(Held(st2, k).data, k, r))
    <3>1. CASE k = "rules"
      <4>1. Held(st2, k) = Loaded(s2) /\ Held(st, k) = st.rules
        BY <2>6, <3>1 DEF Held
      <4>2. ValueIn(Held(st2, k).data, k, r) = Status(s2, r) /\ ValueIn(Held(st, k).data, k, r) = Status(s, r)
        BY <2>5, <3>1, <4>1 DEF ValueIn
      <4>3. Touches(f, k, r) <=> own.id = r
        BY <3>1 DEF Touches, Wipes
      <4>4. QED
        BY <1>3, <2>3, <4>1, <4>2, <4>3 DEF Says
    <3>2. CASE k # "rules"
      <4>1. Held(st2, k) = Held(st, k)
        BY <2>6, <3>2 DEF Held, Cells
      <4>2. ~Touches(f, k, r)
        BY <3>2 DEF Touches, Wipes
      <4>3. QED
        BY <2>9, <4>1, <4>2
    <3>3. QED
      BY <3>1, <3>2
  <2>10. st2.rules.loaded
    BY <2>5, <2>6
  <2>11. QED
    BY <2>7, <2>8, <2>9, <2>10 DEF Applied, st2
<1>4. QED
  BY <1>2, <1>3

\* A frame about the token.
LEMMA ApplyToken ==
  ASSUME NEW st, IsStore(st), RulesDistinct(st), NEW f \in Frames, f.type = "token"
  PROVE  Applied(st, ApplyTokenChange(st, f.body), f)
<1> DEFINE st2 == ApplyTokenChange(st, f.body)
<1>1. f.body \in BOOLEAN
  BY FrameIs, Bodies
<1>2. Loaded(f.body) \in Loads(BOOLEAN) /\ Loaded(f.body).loaded = TRUE /\ Loaded(f.body).data = f.body
  BY <1>1, LoadedInLoads
<1>3. /\ st2.server = st.server /\ st2.scope = st.scope /\ st2.rules = st.rules
      /\ st2.tokens = IF st.tokens.loaded THEN Loaded(f.body) ELSE st.tokens
      /\ st2.templates = st.templates
  BY DEF ApplyTokenChange, IsStore
<1>4. IsStore(st2)
  BY <1>2 DEF IsStore, ApplyTokenChange
<1> HIDE DEF st2
<1>5. Heals(st, st2) /\ RulesDistinct(st2)
  BY <1>3 DEF Heals, RulesDistinct
<1>6. ASSUME NEW k \in Cells, NEW r \in Int, Held(st2, k).loaded
      PROVE  /\ ~Touches(f, k, r) => /\ Held(st, k).loaded
                                     /\ ValueIn(Held(st2, k).data, k, r) = ValueIn(Held(st, k).data, k, r)
             /\ Touches(f, k, r) => Says(f, k, ValueIn(Held(st2, k).data, k, r))
  <2>1. CASE k = "tokens"
    <3>1. Held(st2, k) = st2.tokens /\ Held(st, k) = st.tokens
      BY <2>1 DEF Held
    <3>2. st2.tokens = Loaded(f.body)
      BY <1>3, <1>6, <3>1
    <3>3. ValueIn(Held(st2, k).data, k, r) = f.body
      BY <1>2, <2>1, <3>1, <3>2 DEF ValueIn
    <3>4. Touches(f, k, r)
      BY <2>1 DEF Touches
    <3>5. QED
      BY <3>3, <3>4 DEF Says
  <2>2. CASE k # "tokens"
    <3>1. Held(st2, k) = Held(st, k)
      BY <1>3, <2>2 DEF Held, Cells
    <3>2. ~Touches(f, k, r)
      BY <2>2 DEF Touches, Wipes
    <3>3. QED
      BY <1>6, <3>1, <3>2
  <2>3. QED
    BY <2>1, <2>2
<1>7. QED
  BY <1>3, <1>4, <1>5, <1>6 DEF Applied, st2

\* A frame about a template.
LEMMA ApplyTemplate ==
  ASSUME NEW st, IsStore(st), RulesDistinct(st), NEW f \in Frames, f.type = "template"
  PROVE  Applied(st, ApplyTemplateChange(st, f.body), f)
<1> DEFINE st2 == ApplyTemplateChange(st, f.body)
           d == st.templates.data
           d2 == [d EXCEPT ![f.body.account] = f.body.status]
<1>1. f.body \in TemplateBodies /\ f.body.account \in Accounts /\ f.body.status \in Nat
  BY FrameIs, Bodies DEF TemplateBodies
<1>2. CASE ~st.templates.loaded
  <2>1. st2 = st
    BY <1>2 DEF ApplyTemplateChange
  <2>2. \A k \in Cells, r \in Int : Touches(f, k, r) => k = "templates"
    BY DEF Touches, Wipes
  <2>3. Heals(st, st2) /\ Held(st2, "templates") = st.templates
    BY <2>1 DEF Heals, Held
  <2>4. QED
    BY <1>2, <2>1, <2>2, <2>3 DEF Applied
<1>3. CASE st.templates.loaded
  <2>1. d \in Statuses
    BY <1>3, StoreFields, LoadsFacts
  <2>2. /\ d2 \in Statuses /\ d2[f.body.account] = f.body.status
        /\ \A r : r # f.body.account => d2[r] = d[r]
    BY <1>1, <2>1 DEF Statuses
  <2>3. st2 = [st EXCEPT !.templates = Loaded(d2)]
    BY <1>3 DEF ApplyTemplateChange
  <2> HIDE DEF d2
  <2>4. Loaded(d2) \in Loads(Statuses) /\ Loaded(d2).loaded = TRUE /\ Loaded(d2).data = d2
    BY <2>2, LoadedInLoads
  <2>5. /\ st2.server = st.server /\ st2.scope = st.scope /\ st2.rules = st.rules
        /\ st2.tokens = st.tokens /\ st2.templates = Loaded(d2)
    BY <2>3 DEF IsStore
  <2>6. IsStore(st2)
    BY <2>3, <2>4 DEF IsStore
  <2> HIDE DEF st2
  <2>7. Heals(st, st2) /\ RulesDistinct(st2)
    BY <2>5 DEF Heals, RulesDistinct
  <2>8. ASSUME NEW k \in Cells, NEW r \in Int, Held(st2, k).loaded
        PROVE  /\ ~Touches(f, k, r) => /\ Held(st, k).loaded
                                       /\ ValueIn(Held(st2, k).data, k, r) = ValueIn(Held(st, k).data, k, r)
               /\ Touches(f, k, r) => Says(f, k, ValueIn(Held(st2, k).data, k, r))
    <3>1. CASE k = "templates"
      <4>1. Held(st2, k) = Loaded(d2) /\ Held(st, k) = st.templates
        BY <2>5, <3>1 DEF Held
      <4>2. ValueIn(Held(st2, k).data, k, r) = d2[r] /\ ValueIn(Held(st, k).data, k, r) = d[r]
        BY <2>4, <3>1, <4>1 DEF ValueIn
      <4>3. Touches(f, k, r) <=> f.body.account = r
        BY <3>1 DEF Touches, Wipes
      <4>4. QED
        BY <1>3, <2>2, <4>1, <4>2, <4>3 DEF Says
    <3>2. CASE k # "templates"
      <4>1. Held(st2, k) = Held(st, k)
        BY <2>5, <3>2 DEF Held, Cells
      <4>2. ~Touches(f, k, r)
        BY <3>2 DEF Touches, Wipes
      <4>3. QED
        BY <2>8, <4>1, <4>2
    <3>3. QED
      BY <3>1, <3>2
  <2>9. QED
    BY <2>5, <2>6, <2>7, <2>8 DEF Applied, st2
<1>4. QED
  BY <1>2, <1>3

\* What a wipe leaves in the store.
LEMMA WipedCells ==
  ASSUME NEW st, IsStore(st), NEW f \in Frames, Wipes(f)
  PROVE  LET st2 == ApplyWipe(st, f.type, f.body) IN
         /\ IsStore(st2) /\ Heals(st, st2)
         /\ st2.rules = IF f.type = "state.reset" THEN Loaded(<<>>) ELSE NotLoaded
         /\ st2.tokens = IF f.type = "state.reset" /\ st.tokens.loaded THEN Loaded(FALSE) ELSE NotLoaded
         /\ st2.templates = NotLoaded
         /\ Loaded(<<>>).loaded = TRUE /\ Loaded(<<>>).data = <<>> /\ NotLoaded.loaded = FALSE
         /\ Loaded(FALSE).data = FALSE
<1> DEFINE st1 == [st EXCEPT !.rules = RulesAfter(st, f.type),
                             !.tokens = IF f.type = "state.reset" /\ st.tokens.loaded
                                        THEN Loaded(FALSE) ELSE NotLoaded,
                             !.templates = NotLoaded, !.log = NotLoaded, !.before = 0]
           st2 == ApplyWipe(st, f.type, f.body)
<1>1. f.body \in Worlds
  BY FrameIs, Bodies DEF Wipes
<1>2. /\ \A S : NotLoaded \in Loads(S)
      /\ NotLoaded.loaded = FALSE
      /\ Loaded(FALSE) \in Loads(BOOLEAN) /\ Loaded(FALSE).data = FALSE
      /\ Loaded(<<>>) \in Loads(Seq(Rules)) /\ Loaded(<<>>).loaded = TRUE /\ Loaded(<<>>).data = <<>>
  <2>1. NotLoaded.loaded = FALSE /\ \A S : NotLoaded \in Loads(S)
    BY DEF Loads, NotLoaded
  <2>2. <<>> \in Seq(Rules)
    OBVIOUS
  <2>3. QED
    BY <2>1, <2>2, LoadedInLoads
<1>3. /\ st1.rules = IF f.type = "state.reset" THEN Loaded(<<>>) ELSE NotLoaded
      /\ st1.tokens = IF f.type = "state.reset" /\ st.tokens.loaded THEN Loaded(FALSE) ELSE NotLoaded
      /\ st1.templates = NotLoaded /\ st1.server = st.server /\ st1.scope = st.scope
  BY DEF IsStore, RulesAfter
<1>4. IsStore(st1)
  BY <1>2 DEF IsStore, RulesAfter
<1>5. st2 = WithServer(st1, f.body)
  BY DEF ApplyWipe
<1> HIDE DEF st1, st2
<1>6. /\ IsStore(st2) /\ Heals(st1, st2)
      /\ st2.rules = st1.rules /\ st2.tokens = st1.tokens /\ st2.templates = st1.templates
  BY <1>1, <1>4, <1>5, WithServerFacts
<1>7. Heals(st, st2)
  BY <1>3, <1>6 DEF Heals
<1>8. QED
  BY <1>2, <1>3, <1>6, <1>7 DEF st2

\* A reset or an import.
LEMMA ApplyWiped ==
  ASSUME NEW st, IsStore(st), NEW f \in Frames, Wipes(f)
  PROVE  Applied(st, ApplyWipe(st, f.type, f.body), f)
<1> DEFINE st2 == ApplyWipe(st, f.type, f.body)
<1>1. /\ IsStore(st2) /\ Heals(st, st2)
      /\ st2.rules = IF f.type = "state.reset" THEN Loaded(<<>>) ELSE NotLoaded
      /\ st2.tokens = IF f.type = "state.reset" /\ st.tokens.loaded THEN Loaded(FALSE) ELSE NotLoaded
      /\ st2.templates = NotLoaded
  BY WipedCells
<1>2. /\ Loaded(<<>>).loaded = TRUE /\ Loaded(<<>>).data = <<>> /\ NotLoaded.loaded = FALSE
      /\ Loaded(FALSE).data = FALSE
  BY WipedCells
<1> HIDE DEF st2
<1>3. RulesDistinct(st2)
  BY <1>1, <1>2 DEF RulesDistinct, Distinct
<1>4. ASSUME NEW k \in Cells, NEW r \in Int, Held(st2, k).loaded
      PROVE  Touches(f, k, r) /\ Says(f, k, ValueIn(Held(st2, k).data, k, r))
  <2>1. Touches(f, k, r)
    BY DEF Touches
  <2>2. CASE k = "rules"
    <3>1. f.type = "state.reset" /\ Held(st2, k) = Loaded(<<>>)
      BY <1>1, <1>2, <1>4, <2>2 DEF Held
    <3>2. ValueIn(Held(st2, k).data, k, r) = {}
      BY <1>2, <2>2, <3>1 DEF ValueIn, Status, ToSet
    <3>3. QED
      BY <2>1, <2>2, <3>1, <3>2 DEF Says
  <2>3. CASE k = "tokens"
    <3>1. f.type = "state.reset" /\ Held(st2, k) = Loaded(FALSE)
      BY <1>1, <1>2, <1>4, <2>3 DEF Held
    <3>2. ValueIn(Held(st2, k).data, k, r) = FALSE
      BY <1>2, <2>3, <3>1 DEF ValueIn
    <3>3. QED
      BY <2>1, <2>3, <3>1, <3>2 DEF Says
  <2>4. CASE k = "templates"
    BY <1>1, <1>2, <1>4, <2>4 DEF Held
  <2>5. QED
    BY <2>2, <2>3, <2>4 DEF Cells
<1>5. st2.rules.loaded \/ f.type = "state.imported"
  BY <1>1, <1>2 DEF Wipes
<1>6. QED
  BY <1>1, <1>3, <1>4, <1>5 DEF Applied, st2

\* Any frame.
LEMMA ApplyFacts ==
  ASSUME NEW st, IsStore(st), RulesDistinct(st), NEW f \in Frames
  PROVE  Applied(st, Apply(st, f), f)
<1>1. f.type \in FrameTypes /\ f.body \in FrameBodies(f.type)
  BY FrameIs
<1>2. CASE f.type = "waba"
  BY <1>1, <1>2, Bodies, ApplyWabaFacts, SameCells DEF Apply
<1>3. CASE f.type = "number"
  BY <1>1, <1>3, Bodies, ApplyNumberFacts, SameCells DEF Apply
<1>4. CASE f.type = "delivery"
  <2> DEFINE st2 == ApplyDelivery(st, f.body)
  <2>1. /\ st2.server = st.server /\ st2.scope = st.scope /\ st2.rules = st.rules
        /\ st2.tokens = st.tokens /\ st2.templates = st.templates
    BY DEF ApplyDelivery, IsStore
  <2>2. IsStore(st2)
    BY DEF ApplyDelivery, IsStore
  <2>3. Heals(st, st2) /\ Apply(st, f) = st2
    BY <1>4, <2>1 DEF Heals, Apply
  <2>4. QED
    BY <1>4, <2>1, <2>2, <2>3, SameCells
<1>5. CASE f.type = "rule"
  BY <1>5, ApplyRule DEF Apply
<1>6. CASE f.type = "token"
  BY <1>6, ApplyToken DEF Apply
<1>7. CASE f.type = "template"
  BY <1>7, ApplyTemplate DEF Apply
<1>8. CASE Wipes(f)
  BY <1>8, ApplyWiped DEF Apply, Wipes
<1>9. QED
  BY <1>1, <1>2, <1>3, <1>4, <1>5, <1>6, <1>7, <1>8 DEF FrameTypes, Wipes

-----------------------------------------------------------------------------
(* What a frame passes by *)

\* The last item of a list that has one.
LEMMA LastOf ==
  ASSUME NEW S, NEW fs \in Seq(S), fs # <<>>
  PROVE  Last(fs) \in S /\ Last(fs) = fs[Len(fs)] /\ Len(fs) \in DOMAIN fs
BY DEF Last

\* A frame that may change a cell concerns its collection.
LEMMA ConcernsWhatItTouches ==
  ASSUME NEW f \in Frames, NEW k \in Cells, NEW r, Touches(f, k, r), k = "templates" => r = gate.asked
  PROVE  k \in Concerned(f) /\ k \in Collections
<1>1. k \in Collections
  BY DEF Cells, Collections
<1>2. CASE Wipes(f)
  BY <1>1, <1>2 DEF Concerned, Wipes
<1>3. CASE ~Wipes(f)
  BY <1>1, <1>3 DEF Concerned, Touches, TakesTemplates
<1>4. QED
  BY <1>1, <1>2, <1>3

\* Frames concern collections.
LEMMA ConcernedIn ==
  ASSUME NEW f \in Frames
  PROVE  Concerned(f) \subseteq Collections
BY FrameIs DEF Concerned, Collections, FrameTypes

\* Some of the requests that are answered become old, nothing else of them changes.
Older(r, r2) ==
  \/ r2 = r
  \/ /\ r.stage = "answered" /\ r2.stage = "answered" /\ r2.arg = r.arg /\ r2.at = r.at
     /\ r2.data = r.data /\ r2.old = TRUE
     /\ r2 = [r EXCEPT !.old = TRUE]

\* A request is idle, sent or answered.
LEMMA StagesOf ==
  ASSUME NEW g \in Gets, NEW r, IsRequest(g, r)
  PROVE  /\ r.stage \in {"idle", "sent", "answered"}
         /\ r.stage = "idle" <=> r = Idle
         /\ r.stage = "answered" <=> IsAnswer(g, r)
<1>1. Idle.stage = "idle" /\ \A a : Sent(a).stage = "sent"
  BY DEF Idle, Sent
<1>2. IsAnswer(g, r) => r.stage = "answered"
  BY DEF IsAnswer
<1>3. QED
  BY <1>1, <1>2 DEF IsRequest

\* An answer that becomes old is an answer still.
LEMMA OldAnswer ==
  ASSUME NEW g \in Gets, NEW r, IsRequest(g, r), r.stage = "answered"
  PROVE  LET r2 == [r EXCEPT !.old = TRUE] IN Older(r, r2) /\ IsRequest(g, r2)
<1> DEFINE r2 == [r EXCEPT !.old = TRUE]
<1>1. IsAnswer(g, r)
  BY StagesOf
<1>2. /\ r2.stage = "answered" /\ r2.arg = r.arg /\ r2.at = r.at /\ r2.data = r.data
      /\ r2.old = TRUE /\ r2.at \in Nat
      /\ r2 \in [stage : {"answered"}, arg : {r.arg}, at : Nat, old : BOOLEAN, data : {r.data}]
  BY <1>1 DEF IsAnswer
<1>3. Older(r, r2)
  BY <1>1, <1>2 DEF Older, IsAnswer
<1> HIDE DEF r2
<1>4. IsAnswer(g, r2)
  BY <1>1, <1>2 DEF IsAnswer
<1>5. QED
  BY <1>3, <1>4 DEF IsRequest, r2

\* Requests that something passes by are requests, and some of them older.
LEMMA PassedByTypes ==
  ASSUME RequestTypes, NEW f
  PROVE  /\ RequestsPassedBy(f) = [g \in Gets |-> RequestsPassedBy(f)[g]]
         /\ \A g \in Gets :
              LET r2 == RequestsPassedBy(f)[g] IN
              /\ IsRequest(g, r2) /\ Older(requests[g], r2)
              /\ PassesBy(f, g) => r2.old = TRUE
<1>1. ASSUME NEW g \in Gets
      PROVE  LET r2 == RequestsPassedBy(f)[g] IN
             /\ IsRequest(g, r2) /\ Older(requests[g], r2)
             /\ PassesBy(f, g) => r2.old = TRUE
  <2> DEFINE r == requests[g]
             r2 == RequestsPassedBy(f)[g]
             passed == PassesBy(f, g)
  <2>1. r2 = IF passed THEN [r EXCEPT !.old = TRUE] ELSE r
    BY DEF RequestsPassedBy
  <2>2. IsRequest(g, r)
    BY DEF RequestTypes
  <2>3. CASE passed
    <3> HIDE DEF r
    <3>1. r.stage = "answered"
      BY <2>3 DEF PassesBy, r
    <3>2. Older(r, [r EXCEPT !.old = TRUE]) /\ IsRequest(g, [r EXCEPT !.old = TRUE])
      BY <2>2, <3>1, OldAnswer
    <3>3. [r EXCEPT !.old = TRUE].old = TRUE
      BY <2>2, <3>1, StagesOf DEF IsAnswer
    <3> HIDE DEF r2
    <3>4. QED
      BY <2>1, <2>3, <3>2, <3>3 DEF r, r2
  <2>4. CASE ~passed
    BY <2>1, <2>2, <2>4 DEF Older
  <2>5. QED
    BY <2>3, <2>4
<1>2. QED
  BY <1>1 DEF RequestsPassedBy

-----------------------------------------------------------------------------
(* Accounts and numbers *)

\* What there is to know of an account: that it is there, its name, and each of its numbers.
Facets == {"there", "name", "number"}
Facet(s, k, a, n) ==
  CASE k = "there" -> {w.id : w \in Status(s, a)}
    [] k = "name" -> {w.name : w \in Status(s, a)}
    [] k = "number" -> UNION {Status(w.numbers, n) : w \in Status(s, a)}

\* Frames that end an account, that bring it, and that hold it for known.
Ends(f, a) == Wipes(f) \/ (f.type = "waba" /\ f.body.change = "deleted" /\ f.body.id = a)
Creates(f, a) == f.type = "waba" /\ f.body.change = "created" /\ f.body.id = a
OfNumber(f, a) == f.type = "number" /\ f.body.account = a
Presumes(f, a) == OfNumber(f, a) \/ (f.type = "waba" /\ f.body.change # "deleted" /\ f.body.id = a)

\* Frames that change a facet, and what it is after them.
Changes(f, k, a, n) ==
  \/ Ends(f, a)
  \/ k = "there" /\ Creates(f, a)
  \/ k = "name" /\ f.type = "waba" /\ f.body.id = a
  \/ k = "number" /\ OfNumber(f, a) /\ f.body.number.id = n
Becomes(f, k, a, n) ==
  CASE Wipes(f) -> Facet(f.body, k, a, n)
    [] ~Wipes(f) /\ f.body.change = "deleted" -> {}
    [] f.type = "waba" /\ f.body.change # "deleted" -> IF k = "there" THEN {a} ELSE {f.body.name}
    [] f.type = "number" /\ f.body.change # "deleted" -> {f.body.number}

\* A snapshot after a frame.
Renumbered(numbers, b) ==
  IF b.change = "deleted" THEN Dropped(numbers, b.number.id) ELSE Upsert(numbers, b.number)
AfterWaba(s, b) ==
  CASE b.change = "deleted" -> Dropped(s, b.id)
    [] b.change # "deleted" /\ Known(s, b.id) -> [s EXCEPT ![At(s, b.id)].name = b.name]
    [] OTHER -> Append(s, Account(b.id, b.name, <<>>))
AfterNumber(s, b) ==
  [i \in DOMAIN s |->
     IF s[i].id = b.account THEN [s[i] EXCEPT !.numbers = Renumbered(@, b)] ELSE s[i]]
After(s, f) ==
  CASE f.type = "waba" -> AfterWaba(s, f.body)
    [] f.type = "number" -> AfterNumber(s, f.body)
    [] Wipes(f) -> f.body
    [] OTHER -> s

\* The one item of an id.
LEMMA StatusOf ==
  ASSUME NEW s, Distinct(s), NEW a
  PROVE  Status(s, a) = IF Known(s, a) THEN {s[At(s, a)]} ELSE {}
<1>1. CASE Known(s, a)
  <2>1. At(s, a) \in DOMAIN s /\ s[At(s, a)].id = a
    BY <1>1, KnownAt
  <2>2. \A i \in DOMAIN s : s[i].id = a => i = At(s, a)
    BY <2>1 DEF Distinct
  <2>3. \A x : x \in Status(s, a) <=> x = s[At(s, a)]
    BY <2>1, <2>2, InStatus
  <2>4. QED
    BY <1>1, <2>3
<1>2. CASE ~Known(s, a)
  <2>1. \A x : x \notin Status(s, a)
    BY <1>2, InStatus DEF Known, Ids
  <2>2. QED
    BY <1>2, <2>1
<1>3. QED
  BY <1>1, <1>2

\* A snapshot whose accounts of an id are the same has the same facets of it.
LEMMA FacetByStatus ==
  ASSUME NEW s, NEW t, NEW a, Status(s, a) = Status(t, a), NEW k, NEW n
  PROVE  Facet(s, k, a, n) = Facet(t, k, a, n)
BY DEF Facet

\* The facets of an account that is not there.
LEMMA FacetNone ==
  ASSUME NEW s, NEW a, Status(s, a) = {}, NEW k \in Facets, NEW n
  PROVE  Facet(s, k, a, n) = {}
BY DEF Facet, Facets

\* The facets of an account that is there.
LEMMA FacetOne ==
  ASSUME NEW s, NEW a, NEW w, Status(s, a) = {w}, NEW n
  PROVE  /\ Facet(s, "there", a, n) = {w.id}
         /\ Facet(s, "name", a, n) = {w.name}
         /\ Facet(s, "number", a, n) = Status(w.numbers, n)
<1>1. Facet(s, "there", a, n) = {w.id}
  BY DEF Facet
<1>2. Facet(s, "name", a, n) = {w.name}
  BY DEF Facet
<1>3. Facet(s, "number", a, n) = UNION {Status(w.numbers, n)}
  <2>1. Facet(s, "number", a, n) = UNION {Status(v.numbers, n) : v \in {w}}
    BY DEF Facet
  <2>2. QED
    BY <2>1
<1>4. QED
  BY <1>1, <1>2, <1>3

\* Known is what its first facet says.
LEMMA ThereIs ==
  ASSUME NEW s, NEW a, NEW n
  PROVE  Facet(s, "there", a, n) = IF Known(s, a) THEN {a} ELSE {}
<1>1. \A x : x \in Facet(s, "there", a, n) <=> \E w \in Status(s, a) : x = w.id
  BY DEF Facet
<1>2. \A x : x \in Facet(s, "there", a, n) <=> x = a /\ \E i \in DOMAIN s : s[i].id = a
  BY <1>1, InStatus
<1>3. QED
  BY <1>2 DEF Known, Ids

\* An account replaced or appended keeps the ids apart.
LEMMA UpsertApart ==
  ASSUME NEW s \in Worlds, Apart(s), NEW y \in Waba, Distinct(y.numbers)
  PROVE  /\ Upsert(s, y) \in Worlds /\ Apart(Upsert(s, y))
         /\ Status(Upsert(s, y), y.id) = {y}
         /\ \A b : b # y.id => Status(Upsert(s, y), b) = Status(s, b)
<1> DEFINE t == Upsert(s, y)
<1>1. s \in Seq(Waba) /\ Distinct(s) /\ \A i \in DOMAIN s : Distinct(s[i].numbers)
  BY WorldsAre DEF Apart
<1>2. t \in Worlds
  BY <1>1, UpsertIsSeq, WorldsAre
<1>3. Distinct(t) /\ Status(t, y.id) = {y}
  <2>1. s \in Seq(Waba) /\ Distinct(s) /\ y \in Waba
    BY <1>1
  <2>2. Distinct(Upsert(s, y))
    BY <2>1, UpsertStatus
  <2>3. Status(Upsert(s, y), y.id) = {y}
    BY <2>1, UpsertStatus
  <2>4. QED
    BY <2>2, <2>3
<1>4. \A b : b # y.id => Status(t, b) = Status(s, b)
  BY <1>1, UpsertStatus
<1> HIDE DEF t
<1>5. ASSUME NEW i \in DOMAIN t PROVE Distinct(t[i].numbers)
  <2>1. t[i] \in Status(t, t[i].id)
    BY InStatus
  <2>2. CASE t[i].id = y.id
    BY <1>3, <2>1, <2>2
  <2>3. CASE t[i].id # y.id
    <3>1. t[i] \in Status(s, t[i].id)
      BY <1>4, <2>1, <2>3
    <3>2. PICK j \in DOMAIN s : s[j] = t[i]
      BY <3>1, InStatus
    <3>3. QED
      BY <1>1, <3>2
  <2>4. QED
    BY <2>2, <2>3
<1>6. Apart(t)
  BY <1>3, <1>5 DEF Apart
<1>7. QED
  BY <1>2, <1>3, <1>4, <1>6 DEF t

\* And so does one taken out.
LEMMA DroppedApart ==
  ASSUME NEW s \in Worlds, Apart(s), NEW a
  PROVE  /\ Dropped(s, a) \in Worlds /\ Apart(Dropped(s, a))
         /\ Status(Dropped(s, a), a) = {}
         /\ \A b : b # a => Status(Dropped(s, a), b) = Status(s, b)
<1> DEFINE t == Dropped(s, a)
<1>1. s \in Seq(Waba) /\ Distinct(s) /\ \A i \in DOMAIN s : Distinct(s[i].numbers)
  BY WorldsAre DEF Apart
<1>2. t \in Worlds
  BY <1>1, DroppedIsSeq, WorldsAre
<1>3. Distinct(t) /\ Status(t, a) = {}
  BY <1>1, DroppedStatus
<1>4. \A b : b # a => Status(t, b) = Status(s, b)
  BY <1>1, DroppedStatus
<1> HIDE DEF t
<1>5. ASSUME NEW i \in DOMAIN t PROVE Distinct(t[i].numbers)
  <2>1. t[i] \in Status(t, t[i].id)
    BY InStatus
  <2>2. t[i] \in Status(s, t[i].id)
    BY <1>3, <1>4, <2>1
  <2>3. PICK j \in DOMAIN s : s[j] = t[i]
    BY <2>2, InStatus
  <2>4. QED
    BY <1>1, <2>3
<1>6. Apart(t)
  BY <1>3, <1>5 DEF Apart
<1>7. QED
  BY <1>2, <1>3, <1>4, <1>6 DEF t

\* The account of an id.
LEMMA AccountOf ==
  ASSUME NEW s \in Worlds, Apart(s), NEW a, Known(s, a)
  PROVE  LET w == s[At(s, a)] IN
         /\ At(s, a) \in DOMAIN s /\ w \in Waba /\ w.id = a /\ Status(s, a) = {w}
         /\ w.numbers \in Seq(Phones) /\ Distinct(w.numbers)
<1>1. At(s, a) \in DOMAIN s /\ s[At(s, a)].id = a
  BY KnownAt
<1>2. Status(s, a) = {s[At(s, a)]}
  BY StatusOf DEF Apart
<1>3. QED
  BY <1>1, <1>2, WorldFacts DEF Apart

\* What a frame makes of a facet: what it says, unless it speaks of a number whose account
\* is not there; and an account that is renamed is there.
Follows(s, t, f, k, a, n) ==
  \/ ~Changes(f, k, a, n) /\ Facet(t, k, a, n) = Facet(s, k, a, n)
  \/ ~Changes(f, k, a, n) /\ k = "there" /\ Presumes(f, a) /\ Facet(t, k, a, n) = {a}
  \/ Changes(f, k, a, n) /\ Facet(t, k, a, n) = Becomes(f, k, a, n)
  \/ /\ Changes(f, k, a, n) /\ k = "number" /\ OfNumber(f, a)
     /\ ~Known(s, a) /\ Facet(t, k, a, n) = {}

\* After a frame about an account that was deleted.
LEMMA AfterDeleted ==
  ASSUME NEW s \in Worlds, Apart(s), NEW f \in Frames, f.type = "waba", f.body.change = "deleted",
         NEW k \in Facets, NEW a, NEW n
  PROVE  After(s, f) \in Worlds /\ Apart(After(s, f)) /\ Follows(s, After(s, f), f, k, a, n)
<1> DEFINE id == f.body.id
           t == Dropped(s, id)
<1>1. After(s, f) = t
  BY DEF After, AfterWaba, Wipes
<1>2. t \in Worlds /\ Apart(t) /\ Status(t, id) = {}
  BY DroppedApart
<1>3. \A b : b # id => Status(t, b) = Status(s, b)
  BY DroppedApart
<1>4. Changes(f, k, a, n) <=> a = id
  BY DEF Changes, Ends, Creates, OfNumber, Wipes
<1>5. Becomes(f, k, a, n) = {}
  BY DEF Becomes, Wipes
<1> HIDE DEF t
<1>6. ASSUME a = id PROVE Follows(s, t, f, k, a, n)
  BY <1>2, <1>4, <1>5, <1>6, FacetNone DEF Follows
<1>7. ASSUME a # id PROVE Follows(s, t, f, k, a, n)
  BY <1>3, <1>4, <1>7, FacetByStatus DEF Follows
<1>8. QED
  BY <1>1, <1>2, <1>6, <1>7

\* A frame about an account that is there renames it, or brings it.
LEMMA NamedIs ==
  ASSUME NEW s \in Worlds, Apart(s), NEW b \in WabaBodies, b.change # "deleted"
  PROVE  \E y \in Waba :
           /\ AfterWaba(s, b) = Upsert(s, y) /\ y.id = b.id /\ y.name = b.name /\ Distinct(y.numbers)
           /\ y.numbers = IF Known(s, b.id) THEN s[At(s, b.id)].numbers ELSE <<>>
<1>1. b.id \in Accounts /\ b.name \in {0, 1}
  BY DEF WabaBodies
<1>2. CASE Known(s, b.id)
  <2> DEFINE k == At(s, b.id)
             w == s[k]
             y == [w EXCEPT !.name = b.name]
  <2>1. k \in DOMAIN s /\ w \in Waba /\ w.id = b.id /\ Distinct(w.numbers)
    BY <1>2, AccountOf
  <2>2. y \in Waba /\ y.id = b.id /\ y.name = b.name /\ y.numbers = w.numbers
    BY <1>1, <2>1 DEF Waba
  <2>3. AfterWaba(s, b) = [s EXCEPT ![k].name = b.name]
    BY <1>2 DEF AfterWaba
  <2>4. AfterWaba(s, b) = [s EXCEPT ![k] = y]
    BY <2>3
  <2>5. AfterWaba(s, b) = Upsert(s, y)
    BY <1>2, <2>2, <2>4 DEF Upsert
  <2>6. QED
    BY <1>2, <2>1, <2>2, <2>5
<1>3. CASE ~Known(s, b.id)
  <2> DEFINE y == Account(b.id, b.name, <<>>)
  <2>1. <<>> \in Seq(Phones) /\ Distinct(<<>>)
    BY DEF Distinct
  <2>2. y \in Waba
    BY <1>1, <2>1, AccountIn
  <2>3. y.id = b.id /\ y.name = b.name /\ y.numbers = <<>>
    BY DEF Account
  <2>4. AfterWaba(s, b) = Append(s, y)
    BY <1>3 DEF AfterWaba
  <2>5. AfterWaba(s, b) = Upsert(s, y)
    BY <1>3, <2>3, <2>4 DEF Upsert
  <2>6. QED
    BY <1>3, <2>1, <2>2, <2>3, <2>5
<1>4. QED
  BY <1>2, <1>3

\* After a frame about an account that was created or renamed.
LEMMA AfterNamed ==
  ASSUME NEW s \in Worlds, Apart(s), NEW f \in Frames, f.type = "waba", f.body.change # "deleted",
         NEW k \in Facets, NEW a, NEW n
  PROVE  After(s, f) \in Worlds /\ Apart(After(s, f)) /\ Follows(s, After(s, f), f, k, a, n)
<1> DEFINE b == f.body
           t == After(s, f)
<1>1. b \in WabaBodies /\ t = AfterWaba(s, b)
  BY FrameIs, Bodies DEF After, Wipes
<1>2. PICK y \in Waba :
        /\ AfterWaba(s, b) = Upsert(s, y) /\ y.id = b.id /\ y.name = b.name /\ Distinct(y.numbers)
        /\ y.numbers = IF Known(s, b.id) THEN s[At(s, b.id)].numbers ELSE <<>>
  BY <1>1, NamedIs
<1>3. t \in Worlds /\ Apart(t) /\ Status(t, y.id) = {y}
  <2>1. Distinct(y.numbers) /\ t = Upsert(s, y)
    BY <1>1, <1>2
  <2>2. Upsert(s, y) \in Worlds /\ Apart(Upsert(s, y))
    BY <2>1, UpsertApart
  <2>3. Status(Upsert(s, y), y.id) = {y}
    BY <2>1, UpsertApart
  <2>4. QED
    BY <2>1, <2>2, <2>3
<1>4. \A c : c # y.id => Status(t, c) = Status(s, c)
  BY <1>1, <1>2, UpsertApart
<1>5. /\ Changes(f, k, a, n) <=> a = b.id /\ (k = "name" \/ (k = "there" /\ b.change = "created"))
      /\ Presumes(f, a) <=> a = b.id
  BY DEF Changes, Ends, Creates, OfNumber, Wipes, Presumes, Facets
<1>6. Becomes(f, k, a, n) = IF k = "there" THEN {a} ELSE {b.name}
  BY DEF Becomes, Wipes
<1> HIDE DEF t, b
<1>7. ASSUME a # b.id PROVE Follows(s, t, f, k, a, n)
  BY <1>2, <1>4, <1>5, <1>7, FacetByStatus DEF Follows
<1>8. ASSUME a = b.id PROVE Follows(s, t, f, k, a, n)
  <2>1. Status(t, a) = {y}
    BY <1>2, <1>3, <1>8
  <2>2. Facet(t, "there", a, n) = {a} /\ Facet(t, "name", a, n) = {b.name}
        /\ Facet(t, "number", a, n) = Status(y.numbers, n)
    BY <1>2, <1>8, <2>1, FacetOne
  <2>3. CASE k = "there"
    BY <1>5, <1>6, <1>8, <2>2, <2>3 DEF Follows
  <2>4. CASE k = "name"
    BY <1>5, <1>6, <1>8, <2>2, <2>4 DEF Follows
  <2>5. CASE k = "number"
    <3>1. Facet(s, "number", a, n) = Status(y.numbers, n)
      <4>1. CASE Known(s, a)
        <5>1. Status(s, a) = {s[At(s, a)]}
          BY <4>1, AccountOf
        <5>2. Facet(s, "number", a, n) = Status(s[At(s, a)].numbers, n)
          BY <5>1, FacetOne
        <5>3. QED
          BY <1>2, <1>8, <4>1, <5>2
      <4>2. CASE ~Known(s, a)
        <5>1. Status(s, a) = {}
          BY <4>2, StatusOf DEF Apart
        <5>2. Facet(s, "number", a, n) = {}
          BY <5>1, FacetNone DEF Facets
        <5>3. Status(<<>>, n) = {}
          BY DEF Status, ToSet
        <5>4. QED
          BY <1>2, <1>8, <4>2, <5>2, <5>3
      <4>3. QED
        BY <4>1, <4>2
    <3>2. QED
      BY <1>5, <2>2, <2>5, <3>1 DEF Follows
  <2>6. QED
    BY <2>3, <2>4, <2>5 DEF Facets
<1>9. QED
  BY <1>3, <1>7, <1>8 DEF t

\* The numbers of an account after a frame about one of them.
LEMMA RenumberedStatus ==
  ASSUME NEW ns \in Seq(Phones), Distinct(ns), NEW b \in NumberBodies
  PROVE  /\ Renumbered(ns, b) \in Seq(Phones) /\ Distinct(Renumbered(ns, b))
         /\ Status(Renumbered(ns, b), b.number.id) = IF b.change = "deleted" THEN {} ELSE {b.number}
         /\ \A n : n # b.number.id => Status(Renumbered(ns, b), n) = Status(ns, n)
<1>1. PICK x \in Phones : x = b.number
  BY DEF NumberBodies
<1>2. CASE b.change = "deleted"
  BY <1>1, <1>2, DroppedIsSeq, DroppedStatus DEF Renumbered
<1>3. CASE b.change # "deleted"
  <2>1. Renumbered(ns, b) = Upsert(ns, x)
    BY <1>1, <1>3 DEF Renumbered
  <2>2. Upsert(ns, x) \in Seq(Phones) /\ Distinct(Upsert(ns, x))
    BY UpsertIsSeq, UpsertStatus
  <2>3. Status(Upsert(ns, x), x.id) = {x}
    BY UpsertStatus
  <2>4. \A n : n # x.id => Status(Upsert(ns, x), n) = Status(ns, n)
    BY UpsertStatus
  <2>5. QED
    BY <1>1, <1>3, <2>1, <2>2, <2>3, <2>4
<1>4. QED
  BY <1>2, <1>3

\* A frame about a number of an account that is there changes that account alone.
LEMMA NumbersAre ==
  ASSUME NEW s \in Worlds, Apart(s), NEW b \in NumberBodies
  PROVE  IF Known(s, b.account)
         THEN LET w == s[At(s, b.account)]
                  y == [w EXCEPT !.numbers = Renumbered(w.numbers, b)]
              IN  /\ y \in Waba /\ y.id = b.account /\ y.name = w.name
                  /\ y.numbers = Renumbered(w.numbers, b) /\ Distinct(y.numbers)
                  /\ AfterNumber(s, b) = [s EXCEPT ![At(s, b.account)] = y]
                  /\ AfterNumber(s, b) = Upsert(s, y)
         ELSE AfterNumber(s, b) = s
<1>1. b.number \in Phones /\ DOMAIN s = 1 .. Len(s) /\ s \in Seq(Waba)
  BY WorldFacts, WorldsAre DEF NumberBodies
<1>2. CASE Known(s, b.account)
  <2> DEFINE k == At(s, b.account)
             w == s[k]
             ns == Renumbered(w.numbers, b)
             y == [w EXCEPT !.numbers = ns]
             t == [s EXCEPT ![k] = y]
  <2>1. /\ k \in DOMAIN s /\ w \in Waba /\ w.id = b.account
        /\ w.numbers \in Seq(Phones) /\ Distinct(w.numbers)
    BY <1>2, AccountOf
  <2>2. ns \in Seq(Phones) /\ Distinct(ns)
    BY <2>1, RenumberedStatus
  <2>3. y \in Waba /\ y.id = b.account /\ y.name = w.name /\ y.numbers = ns
    <3> HIDE DEF ns
    <3>1. QED
      BY <2>1, <2>2 DEF Waba
  <2>4. \A i \in DOMAIN s : s[i].id = b.account <=> i = k
    BY <2>1 DEF Apart, Distinct
  <2>5. AfterNumber(s, b) = t
    <3>1. AfterNumber(s, b) = [i \in DOMAIN s |-> IF i = k THEN y ELSE s[i]]
      BY <2>4 DEF AfterNumber
    <3>2. QED
      BY <3>1
  <2>6. t = Upsert(s, y)
    BY <1>2, <2>3 DEF Upsert
  <2>7. QED
    BY <1>2, <2>2, <2>3, <2>5, <2>6
<1>3. CASE ~Known(s, b.account)
  <2>1. \A i \in DOMAIN s : s[i].id # b.account
    BY <1>3 DEF Known, Ids
  <2>2. AfterNumber(s, b) = [i \in DOMAIN s |-> s[i]]
    BY <2>1 DEF AfterNumber
  <2>3. QED
    BY <1>1, <1>3, <2>2
<1>4. QED
  BY <1>2, <1>3

\* After a frame about a number.
LEMMA AfterNumbered ==
  ASSUME NEW s \in Worlds, Apart(s), NEW f \in Frames, f.type = "number",
         NEW k \in Facets, NEW a, NEW n
  PROVE  After(s, f) \in Worlds /\ Apart(After(s, f)) /\ Follows(s, After(s, f), f, k, a, n)
<1> DEFINE b == f.body
           t == After(s, f)
<1>1. b \in NumberBodies /\ t = AfterNumber(s, b) /\ b.number \in Phones
  BY FrameIs, Bodies DEF After, NumberBodies, Wipes
<1>2. /\ OfNumber(f, a) <=> a = b.account
      /\ Changes(f, k, a, n) <=> a = b.account /\ k = "number" /\ n = b.number.id
  BY DEF Changes, Ends, Creates, OfNumber, Wipes, Facets
<1>3. Becomes(f, k, a, n) = IF b.change = "deleted" THEN {} ELSE {b.number}
  BY DEF Becomes, Wipes
<1> HIDE DEF t, b
<1>4. ASSUME ~Known(s, b.account) PROVE Follows(s, t, f, k, a, n)
  <2>1. t = s
    BY <1>1, <1>4, NumbersAre
  <2>2. CASE ~Changes(f, k, a, n)
    BY <2>1, <2>2 DEF Follows
  <2>3. CASE Changes(f, k, a, n)
    <3>1. Status(s, a) = {}
      BY <1>2, <1>4, <2>3, StatusOf DEF Apart
    <3>2. QED
      BY <1>2, <1>4, <2>1, <2>3, <3>1, FacetNone DEF Follows
  <2>4. QED
    BY <2>1, <2>2, <2>3
<1>5. ASSUME Known(s, b.account) PROVE Follows(s, t, f, k, a, n)
  <2> DEFINE w == s[At(s, b.account)]
             y == [w EXCEPT !.numbers = Renumbered(w.numbers, b)]
  <2>1. /\ y \in Waba /\ y.id = b.account /\ y.name = w.name
        /\ y.numbers = Renumbered(w.numbers, b) /\ Distinct(y.numbers) /\ t = Upsert(s, y)
    BY <1>1, <1>5, NumbersAre
  <2>2. /\ w.id = b.account /\ Status(s, b.account) = {w}
        /\ w.numbers \in Seq(Phones) /\ Distinct(w.numbers)
    BY <1>5, AccountOf
  <2> HIDE DEF w, y
  <2>3. t \in Worlds /\ Apart(t) /\ Status(t, y.id) = {y}
    BY <2>1, UpsertApart
  <2>4. \A c : c # y.id => Status(t, c) = Status(s, c)
    BY <2>1, UpsertApart
  <2>5. CASE a # b.account
    BY <1>2, <2>1, <2>4, <2>5, FacetByStatus DEF Follows
  <2>6. CASE a = b.account
    <3>1. Status(t, a) = {y} /\ Status(s, a) = {w}
      BY <2>1, <2>2, <2>3, <2>6
    <3>2. Facet(t, "there", a, n) = {y.id} /\ Facet(t, "name", a, n) = {y.name}
          /\ Facet(t, "number", a, n) = Status(y.numbers, n)
      BY <3>1, FacetOne
    <3>3. Facet(s, "there", a, n) = {w.id} /\ Facet(s, "name", a, n) = {w.name}
          /\ Facet(s, "number", a, n) = Status(w.numbers, n)
      BY <3>1, FacetOne
    <3>4. CASE k # "number"
      BY <1>2, <2>1, <2>2, <3>2, <3>3, <3>4 DEF Follows, Facets
    <3>5. CASE k = "number" /\ n # b.number.id
      <4>1. Status(y.numbers, n) = Status(w.numbers, n)
        BY <1>1, <2>1, <2>2, <3>5, RenumberedStatus
      <4>2. QED
        BY <1>2, <3>2, <3>3, <3>5, <4>1 DEF Follows
    <3>6. CASE k = "number" /\ n = b.number.id
      <4>1. Status(y.numbers, n) = IF b.change = "deleted" THEN {} ELSE {b.number}
        BY <1>1, <2>1, <2>2, <3>6, RenumberedStatus
      <4>2. QED
        BY <1>2, <1>3, <2>6, <3>2, <3>6, <4>1 DEF Follows
    <3>7. QED
      BY <3>4, <3>5, <3>6
  <2>7. QED
    BY <2>3, <2>5, <2>6
<1>6. t \in Worlds /\ Apart(t)
  <2>1. CASE ~Known(s, b.account)
    BY <1>1, <2>1, NumbersAre
  <2>2. CASE Known(s, b.account)
    BY <1>1, <2>2, NumbersAre, UpsertApart
  <2>3. QED
    BY <2>1, <2>2
<1>7. QED
  BY <1>4, <1>5, <1>6 DEF t

\* After any frame.
LEMMA AfterFacets ==
  ASSUME NEW s \in Worlds, Apart(s), NEW f \in Frames, Wipes(f) => Apart(f.body),
         NEW k \in Facets, NEW a, NEW n
  PROVE  After(s, f) \in Worlds /\ Apart(After(s, f)) /\ Follows(s, After(s, f), f, k, a, n)
<1>1. CASE f.type = "waba"
  BY <1>1, AfterDeleted, AfterNamed
<1>2. CASE f.type = "number"
  BY <1>2, AfterNumbered
<1>3. CASE Wipes(f)
  <2>1. f.body \in Worlds
    BY <1>3, FrameIs, Bodies DEF Wipes
  <2>2. After(s, f) = f.body
    BY <1>3 DEF After, Wipes
  <2>3. Changes(f, k, a, n)
    BY <1>3 DEF Changes, Ends
  <2>4. Becomes(f, k, a, n) = Facet(f.body, k, a, n)
    BY <1>3 DEF Becomes, Wipes
  <2>5. QED
    BY <1>3, <2>1, <2>2, <2>3, <2>4 DEF Follows
<1>4. CASE f.type \notin {"waba", "number"} /\ ~Wipes(f)
  <2>1. After(s, f) = s
    BY <1>4 DEF After
  <2>2. ~Changes(f, k, a, n)
    BY <1>4 DEF Changes, Ends, Creates, OfNumber
  <2>3. QED
    BY <2>1, <2>2 DEF Follows
<1>5. QED
  BY <1>1, <1>2, <1>3, <1>4

\* The reducer makes that of the accounts it has loaded.
LEMMA ApplyServer ==
  ASSUME NEW st, IsStore(st), NEW f \in Frames
  PROVE  Apply(st, f).server =
           IF st.server.loaded \/ Wipes(f) THEN Loaded(After(st.server.data, f)) ELSE st.server
<1>1. f.type \in FrameTypes
  BY FrameIs
<1>2. \A snap : WithServer(st, snap).server = Loaded(snap)
  BY DEF WithServer, IsStore
<1>3. CASE f.type = "waba"
  BY <1>2, <1>3 DEF Apply, ApplyWabaChange, After, AfterWaba, Wipes
<1>4. CASE f.type = "number"
  BY <1>2, <1>4 DEF Apply, ApplyPhoneNumberChange, After, AfterNumber, Renumbered, Wipes
<1>5. CASE Wipes(f)
  BY <1>5 DEF Apply, ApplyWipe, WithServer, After, Wipes, IsStore
<1>6. CASE f.type \in {"rule", "token", "template", "delivery"}
  <2>1. After(st.server.data, f) = st.server.data /\ ~Wipes(f)
    BY <1>6 DEF After, Wipes
  <2>2. Apply(st, f).server = st.server
    BY <1>6 DEF Apply, ApplyRuleChange, ApplyTokenChange, ApplyTemplateChange, ApplyDelivery, IsStore
  <2>3. st.server.loaded => st.server = Loaded(st.server.data)
    BY LoadsFacts, StoreFields
  <2>4. QED
    BY <2>1, <2>2, <2>3
<1>7. QED
  BY <1>1, <1>3, <1>4, <1>5, <1>6 DEF FrameTypes, Wipes

-----------------------------------------------------------------------------
(* The server's changes *)

\* No two rules have one id, and the next rule will have another.
RuleIds == Distinct(rules) /\ \A i \in DOMAIN rules : rules[i].id <= changes

\* A change of the server is told by its frame.
Told(f) ==
  \A k \in Cells, r \in Int :
    IF Touches(f, k, r) THEN Says(f, k, Here(k, r)') ELSE Here(k, r)' = Here(k, r)
Logged(f) ==
  /\ f.type = "delivery" =>
       \E tick \in {0, 1}, k \in 1 .. Len(log) + 1 :
         /\ f.body = [id |-> f.at, time |-> clock + tick] /\ clock' = clock + tick
         /\ \A i \in k .. Len(log) : log[i].time = clock'
         /\ log' = InsertAt(log, k, f.body)
  /\ f.type # "delivery" =>
       log' = (IF f.type = "state.reset" THEN <<>> ELSE log) /\ clock' = clock

\* The accounts after a change are what its last frame makes of them, it brings no account that
\* is there and speaks of none that is not, and what goes before it is gone with it.
Housed(fs) ==
  LET f == Last(fs) IN
  /\ wabas' = After(wabas, f) /\ (Wipes(f) => Apart(f.body))
  /\ \A a : /\ Creates(f, a) => ~Known(wabas, a)
            /\ Presumes(f, a) /\ ~Creates(f, a) => Known(wabas, a)
  /\ \A i \in DOMAIN fs :
       i # Len(fs) => /\ f.type = "waba" /\ f.body.change = "deleted"
                      /\ fs[i].body.change = "deleted" /\ fs[i].body.account = f.body.id

ServerMoves(fs, mine) ==
  /\ fs \in Seq(Frames) /\ fs # <<>>
  /\ \A i \in DOMAIN fs : fs[i].at = changes + 1 /\ (i # Len(fs) => fs[i].type = "number")
  /\ Last(fs).type = "delivery" => Len(fs) = 1
  /\ Tell(fs, mine) /\ imports'.at = imports.at
  /\ mine => Last(fs).type \notin {"template", "delivery"}
  /\ ServerTypes' /\ RuleIds'
  /\ Told(Last(fs)) /\ Logged(Last(fs))
  /\ Apart(wabas) => Housed(fs)

\* The log stays as it is.
LEMMA LogStays ==
  ASSUME NEW f, f.type # "delivery", ~Wipes(f), UNCHANGED <<log, clock>>
  PROVE  Logged(f)
BY DEF Logged, Wipes

\* One frame about the accounts.
LEMMA HousedOne ==
  ASSUME NEW f, wabas' = After(wabas, f), Wipes(f) => Apart(f.body),
         \A a : /\ Creates(f, a) => ~Known(wabas, a)
                /\ Presumes(f, a) /\ ~Creates(f, a) => Known(wabas, a)
  PROVE  Housed(<<f>>)
<1>1. Last(<<f>>) = f /\ Len(<<f>>) = 1 /\ DOMAIN <<f>> = {1}
  BY DEF Last
<1>2. QED
  BY <1>1 DEF Housed

\* And one about something else.
LEMMA HousedElsewhere ==
  ASSUME NEW f, f.type \notin {"waba", "number"}, ~Wipes(f), UNCHANGED wabas
  PROVE  Housed(<<f>>)
<1>1. After(wabas, f) = wabas
  BY DEF After
<1>2. \A a : ~Creates(f, a) /\ ~Presumes(f, a)
  BY DEF Creates, Presumes, OfNumber
<1>3. QED
  BY <1>1, <1>2, HousedOne

\* Numbers of one account replaced.
LEMMA HousedNumbers ==
  ASSUME NEW s \in Worlds, Apart(s), NEW b \in NumberBodies, NEW k \in DOMAIN s, s[k].id = b.account
  PROVE  /\ Known(s, b.account)
         /\ AfterNumber(s, b) = [s EXCEPT ![k].numbers = Renumbered(s[k].numbers, b)]
<1>1. Known(s, b.account)
  BY DEF Known, Ids
<1>2. k = At(s, b.account)
  BY <1>1, KnownAt DEF Apart, Distinct
<1>3. AfterNumber(s, b) = [s EXCEPT ![k] = [s[k] EXCEPT !.numbers = Renumbered(s[k].numbers, b)]]
  BY <1>1, <1>2, NumbersAre
<1>4. QED
  BY <1>1, <1>3

\* A change told by one frame.
LEMMA OneFrame ==
  ASSUME NEW f \in Frames, f.at = changes + 1, NEW mine \in BOOLEAN,
         mine => f.type \notin {"template", "delivery"},
         Tell(<<f>>, mine), imports'.at = imports.at, ServerTypes', RuleIds', Told(f), Logged(f),
         Apart(wabas) => Housed(<<f>>)
  PROVE  ServerMoves(<<f>>, mine)
<1> DEFINE fs == <<f>>
<1>1. fs \in Seq(Frames) /\ fs # <<>> /\ Len(fs) = 1 /\ fs[1] = f /\ DOMAIN fs = {1}
  OBVIOUS
<1>2. Last(fs) = f
  BY <1>1 DEF Last
<1> HIDE DEF fs
<1>3. Tell(fs, mine) /\ (Apart(wabas) => Housed(fs))
  BY DEF fs
<1>4. ServerMoves(fs, mine)
  BY <1>1, <1>2, <1>3 DEF ServerMoves
<1>5. QED
  BY <1>4 DEF fs

\* The frame that Frame() makes.
LEMMA FrameOf ==
  ASSUME ServerTypes, NEW t \in FrameTypes, NEW body \in FrameBodies(t)
  PROVE  /\ Frame(t, body) \in Frames /\ Frame(t, body).at = changes + 1
         /\ Frame(t, body).type = t /\ Frame(t, body).body = body
BY IsAFrame DEF Frame, ServerTypes

\* Changes of the accounts: no cell changes but the template of an account that is deleted.
LEMMA CellsStay ==
  ASSUME NEW f \in Frames, f.type \in {"number", "delivery"} \/ (f.type = "waba" /\ f.body.change # "deleted"),
         UNCHANGED <<rules, expired, templates>>
  PROVE  Told(f)
<1>1. \A k \in Cells, r \in Int : ~Touches(f, k, r)
  BY DEF Touches, Wipes
<1>2. \A k \in Cells, r \in Int : Here(k, r)' = Here(k, r)
  BY DEF Here
<1>3. QED
  BY <1>1, <1>2 DEF Told

\* The rules of the server have types and ids of their own.
LEMMA RulesTyped ==
  ASSUME ServerTypes
  PROVE  \A i \in DOMAIN rules : rules[i] \in Rules /\ rules[i].id \in Int /\ rules[i].left \in Nat
<1>1. \A i \in DOMAIN rules : rules[i] \in Rules
  BY DEF ServerTypes
<1>2. QED
  BY <1>1 DEF Rules

\* Rules that stay keep their ids distinct.
LEMMA RuleIdsStay ==
  ASSUME ServerTypes, RuleIds, UNCHANGED rules, changes' = changes + 1
  PROVE  RuleIds'
<1>1. \A i \in DOMAIN rules : rules[i] \in Rules /\ rules[i].id \in Int
  BY RulesTyped
<1>2. QED
  BY <1>1 DEF RuleIds, ServerTypes

\* The number of changes grows by one.
LEMMA ChangesGrow ==
  ASSUME ServerTypes, NEW fs, NEW mine, Publish(fs, mine)
  PROVE  /\ changes' = changes + 1 /\ changes' \in Nat /\ changes + 1 \in Nat
         /\ Tell(fs, mine) /\ imports' = imports /\ imports' \in [pending : Nat, at : 0 .. changes']
BY DEF Publish, Tell, ServerTypes

\* Operations on accounts and numbers that leave the other collections alone.
LEMMA SnapshotMoves ==
  ASSUME ServerTypes, RuleIds, NEW t \in {"waba", "number"}, NEW body \in FrameBodies(t),
         t = "waba" => body.change # "deleted", NEW mine \in BOOLEAN, Publish(<<Frame(t, body)>>, mine),
         wabas' \in Worlds, UNCHANGED <<rules, expired, templates, log, clock>>,
         Apart(wabas) => Housed(<<Frame(t, body)>>)
  PROVE  ServerMoves(<<Frame(t, body)>>, mine)
<1> DEFINE f == Frame(t, body)
<1>1. f \in Frames /\ f.at = changes + 1 /\ f.type = t /\ f.body = body
  BY FrameOf DEF FrameTypes
<1>2. /\ changes' = changes + 1 /\ changes' \in Nat
      /\ Tell(<<f>>, mine) /\ imports' = imports /\ imports' \in [pending : Nat, at : 0 .. changes']
  BY ChangesGrow
<1>3. ServerTypes' /\ RuleIds'
  BY <1>2, RuleIdsStay DEF ServerTypes
<1> HIDE DEF f
<1>4. Told(f) /\ Logged(f)
  BY <1>1, CellsStay, LogStays DEF Wipes
<1>5. Apart(wabas) => Housed(<<f>>)
  BY DEF f
<1>6. QED
  BY <1>1, <1>2, <1>3, <1>4, <1>5, OneFrame DEF f

\* POST /api/wabas.
LEMMA CreateWabaMoves ==
  ASSUME ServerTypes, RuleIds, NEW a \in Accounts, NEW mine \in BOOLEAN, CreateWaba(a, mine)
  PROVE  \E fs : ServerMoves(fs, mine)
<1>1. [change |-> "created", id |-> a, name |-> 0] \in FrameBodies("waba")
  BY Bodies DEF WabaBodies, Kinds
<1>2. wabas' \in Worlds
  BY WorldsClosed DEF CreateWaba, ServerTypes
<1> DEFINE f == Frame("waba", [change |-> "created", id |-> a, name |-> 0])
<1>3. f.type = "waba" /\ f.body = [change |-> "created", id |-> a, name |-> 0]
  BY DEF Frame
<1> HIDE DEF f
<1>4. ~Known(wabas, a) /\ wabas' = Append(wabas, Account(a, 0, <<>>))
  BY DEF CreateWaba
<1>5. wabas' = After(wabas, f)
  BY <1>3, <1>4 DEF After, AfterWaba, Wipes
<1>6. ~Wipes(f) /\ \A c : Presumes(f, c) => c = a /\ Creates(f, c)
  BY <1>3 DEF Wipes, Presumes, OfNumber, Creates
<1>7. \A c : Creates(f, c) => c = a
  BY <1>3 DEF Creates
<1>8. Housed(<<f>>)
  BY <1>4, <1>5, <1>6, <1>7, HousedOne
<1>9. QED
  BY <1>1, <1>2, <1>8, SnapshotMoves DEF CreateWaba, WabaFrame, f

\* PATCH /api/wabas/:id.
LEMMA RenameWabaMoves ==
  ASSUME ServerTypes, RuleIds, NEW a \in Accounts, NEW mine \in BOOLEAN, RenameWaba(a, mine)
  PROVE  \E fs : ServerMoves(fs, mine)
<1>1. [change |-> "updated", id |-> a, name |-> 1] \in FrameBodies("waba")
  BY Bodies DEF WabaBodies, Kinds
<1>2. wabas' \in Worlds
  BY WorldsClosed DEF RenameWaba, ServerTypes
<1> DEFINE f == Frame("waba", [change |-> "updated", id |-> a, name |-> 1])
<1>3. f.type = "waba" /\ f.body = [change |-> "updated", id |-> a, name |-> 1]
  BY DEF Frame
<1> HIDE DEF f
<1>4. Known(wabas, a) /\ wabas' = [wabas EXCEPT ![At(wabas, a)].name = 1]
  BY DEF RenameWaba
<1>5. wabas' = After(wabas, f)
  BY <1>3, <1>4 DEF After, AfterWaba, Wipes
<1>6. ~Wipes(f) /\ \A c : (Presumes(f, c) => c = a) /\ ~Creates(f, c)
  BY <1>3 DEF Wipes, Presumes, OfNumber, Creates
<1>7. Housed(<<f>>)
  BY <1>4, <1>5, <1>6, HousedOne
<1>8. QED
  BY <1>1, <1>2, <1>7, SnapshotMoves DEF RenameWaba, WabaFrame, f

\* A number's first owner is one of the accounts.
LEMMA OwnersIn ==
  ASSUME ServerTypes, NEW n, Owners(wabas, n) # {}
  PROVE  /\ Least(Owners(wabas, n)) \in DOMAIN wabas
         /\ Known(wabas[Least(Owners(wabas, n))].numbers, n)
         /\ wabas[Least(Owners(wabas, n))].numbers \in Seq(Phones)
         /\ wabas[Least(Owners(wabas, n))].id \in Accounts
<1>1. wabas \in Worlds /\ Owners(wabas, n) \subseteq DOMAIN wabas /\ DOMAIN wabas \subseteq Nat
  BY WorldFacts DEF Owners, ServerTypes
<1>2. Least(Owners(wabas, n)) \in Owners(wabas, n)
  BY <1>1, LeastIsIn
<1>3. QED
  BY <1>1, <1>2, WorldFacts DEF Owners

\* A frame about a number of an account that is there.
LEMMA NumberTold ==
  ASSUME wabas \in Worlds, Apart(wabas), NEW b \in NumberBodies, NEW k \in DOMAIN wabas,
         wabas[k].id = b.account, wabas' = [wabas EXCEPT ![k].numbers = Renumbered(wabas[k].numbers, b)]
  PROVE  Housed(<<Frame("number", b)>>)
<1> DEFINE f == Frame("number", b)
<1>1. f.type = "number" /\ f.body = b
  BY DEF Frame
<1> HIDE DEF f
<1>2. PICK s \in Worlds : s = wabas
  OBVIOUS
<1>3. Known(wabas, b.account) /\ wabas' = AfterNumber(wabas, b)
  BY <1>2, HousedNumbers
<1>4. wabas' = After(wabas, f)
  BY <1>1, <1>3 DEF After, Wipes
<1>5. ~Wipes(f) /\ \A a : (Presumes(f, a) => a = b.account) /\ ~Creates(f, a)
  BY <1>1 DEF Wipes, Presumes, OfNumber, Creates
<1>6. QED
  BY <1>3, <1>4, <1>5, HousedOne DEF f

\* POST of a number.
LEMMA CreateNumberMoves ==
  ASSUME ServerTypes, RuleIds, NEW a \in Accounts, NEW n \in Numbers, NEW mine \in BOOLEAN,
         CreateNumber(a, n, mine)
  PROVE  \E fs : ServerMoves(fs, mine)
<1> DEFINE x == [id |-> n, grade |-> 0]
           k == At(wabas, a)
<1>1. x \in Phones /\ k \in DOMAIN wabas /\ wabas \in Worlds
  BY KnownAt DEF Phones, CreateNumber, ServerTypes
<1>2. [change |-> "created", account |-> a, number |-> x] \in FrameBodies("number")
  BY <1>1, Bodies DEF NumberBodies, Kinds
<1>3. wabas[k].numbers \in Seq(Phones)
  BY <1>1, WorldFacts
<1>4. Append(wabas[k].numbers, x) \in Seq(Phones)
  BY <1>1, <1>3
<1>5. wabas' = [wabas EXCEPT ![k].numbers = Append(wabas[k].numbers, x)]
  BY DEF CreateNumber
<1>6. wabas' \in Worlds
  BY <1>1, <1>4, <1>5, NumbersReplaced
<1>7. Publish(<<Frame("number", [change |-> "created", account |-> a, number |-> x])>>, mine)
      /\ UNCHANGED <<rules, expired, templates, log, clock>>
  BY DEF CreateNumber, NumberFrame
<1> DEFINE b == [change |-> "created", account |-> a, number |-> x]
<1>8. ASSUME Apart(wabas) PROVE Housed(<<Frame("number", b)>>)
  <2>1. k \notin Owners(wabas, n) /\ wabas[k].id = a
    BY KnownAt DEF CreateNumber
  <2>2. ~Known(wabas[k].numbers, n)
    BY <1>1, <2>1 DEF Owners
  <2>3. Renumbered(wabas[k].numbers, b) = Append(wabas[k].numbers, x)
    BY <2>2 DEF Renumbered, Upsert
  <2>4. b \in NumberBodies /\ b.account = a
    BY <1>2, Bodies
  <2> HIDE DEF b, k
  <2>5. QED
    BY <1>1, <1>5, <1>8, <2>1, <2>3, <2>4, NumberTold
<1>9. QED
  BY <1>2, <1>6, <1>7, <1>8, SnapshotMoves

\* PATCH of a number.
LEMMA UpdateNumberMoves ==
  ASSUME ServerTypes, RuleIds, NEW n \in Numbers, NEW mine \in BOOLEAN, UpdateNumber(n, mine)
  PROVE  \E fs : ServerMoves(fs, mine)
<1> DEFINE x == [id |-> n, grade |-> 1]
           i == Least(Owners(wabas, n))
<1>1. /\ x \in Phones /\ wabas \in Worlds
      /\ i \in DOMAIN wabas /\ wabas[i].numbers \in Seq(Phones) /\ wabas[i].id \in Accounts
  BY OwnersIn DEF Phones, UpdateNumber, ServerTypes
<1>2. [change |-> "updated", account |-> wabas[i].id, number |-> x] \in FrameBodies("number")
  BY <1>1, Bodies DEF NumberBodies, Kinds
<1>3. Upsert(wabas[i].numbers, x) \in Seq(Phones)
  BY <1>1, UpsertIsSeq
<1>4. wabas' = [wabas EXCEPT ![i].numbers = Upsert(wabas[i].numbers, x)]
  BY DEF UpdateNumber
<1>5. wabas' \in Worlds
  BY <1>1, <1>3, <1>4, NumbersReplaced
<1>6. Publish(<<Frame("number", [change |-> "updated", account |-> wabas[i].id, number |-> x])>>, mine)
      /\ UNCHANGED <<rules, expired, templates, log, clock>>
  BY DEF UpdateNumber, NumberFrame
<1> DEFINE b == [change |-> "updated", account |-> wabas[i].id, number |-> x]
<1>7. ASSUME Apart(wabas) PROVE Housed(<<Frame("number", b)>>)
  <2>1. Renumbered(wabas[i].numbers, b) = Upsert(wabas[i].numbers, x)
    BY DEF Renumbered
  <2>2. b \in NumberBodies /\ b.account = wabas[i].id
    BY <1>2, Bodies
  <2> HIDE DEF b, i
  <2>3. QED
    BY <1>1, <1>4, <1>7, <2>1, <2>2, NumberTold
<1>8. QED
  BY <1>2, <1>5, <1>6, <1>7, SnapshotMoves

\* DELETE of a number.
LEMMA DeleteNumberMoves ==
  ASSUME ServerTypes, RuleIds, NEW n \in Numbers, NEW mine \in BOOLEAN, DeleteNumber(n, mine)
  PROVE  \E fs : ServerMoves(fs, mine)
<1> DEFINE x == [id |-> n, grade |-> 0]
           i == Least(Owners(wabas, n))
<1>1. /\ x \in Phones /\ wabas \in Worlds
      /\ i \in DOMAIN wabas /\ wabas[i].numbers \in Seq(Phones) /\ wabas[i].id \in Accounts
  BY OwnersIn DEF Phones, DeleteNumber, ServerTypes
<1>2. [change |-> "deleted", account |-> wabas[i].id, number |-> x] \in FrameBodies("number")
  BY <1>1, Bodies DEF NumberBodies, Kinds
<1>3. Dropped(wabas[i].numbers, n) \in Seq(Phones)
  BY <1>1, DroppedIsSeq
<1>4. wabas' = [wabas EXCEPT ![i].numbers = Dropped(wabas[i].numbers, n)]
  BY DEF DeleteNumber
<1>5. wabas' \in Worlds
  BY <1>1, <1>3, <1>4, NumbersReplaced
<1>6. Publish(<<Frame("number", [change |-> "deleted", account |-> wabas[i].id, number |-> x])>>, mine)
      /\ UNCHANGED <<rules, expired, templates, log, clock>>
  BY DEF DeleteNumber, NumberFrame
<1> DEFINE b == [change |-> "deleted", account |-> wabas[i].id, number |-> x]
<1>7. ASSUME Apart(wabas) PROVE Housed(<<Frame("number", b)>>)
  <2>1. Renumbered(wabas[i].numbers, b) = Dropped(wabas[i].numbers, n)
    BY DEF Renumbered
  <2>2. b \in NumberBodies /\ b.account = wabas[i].id
    BY <1>2, Bodies
  <2> HIDE DEF b, i
  <2>3. QED
    BY <1>1, <1>4, <1>7, <2>1, <2>2, NumberTold
<1>8. QED
  BY <1>2, <1>5, <1>6, <1>7, SnapshotMoves

\* DELETE /api/wabas/:id tells of its numbers first, and of itself last.
LEMMA DeleteWabaMoves ==
  ASSUME ServerTypes, RuleIds, NEW a \in Accounts, NEW mine \in BOOLEAN, DeleteWaba(a, mine)
  PROVE  \E fs : ServerMoves(fs, mine)
<1> DEFINE waba == wabas[At(wabas, a)]
           ns == waba.numbers
           gone == [i \in DOMAIN ns |-> NumberFrame("deleted", a, ns[i])]
           f == WabaFrame("deleted", a, waba.name)
           fs == gone \o <<f>>
<1>1. wabas \in Worlds /\ At(wabas, a) \in DOMAIN wabas /\ waba \in Waba /\ ns \in Seq(Phones)
  BY KnownAt, WorldFacts DEF DeleteWaba, ServerTypes
<1>2. [change |-> "deleted", id |-> a, name |-> waba.name] \in FrameBodies("waba")
  BY <1>1, Bodies DEF WabaBodies, Kinds, Waba
<1>3. f \in Frames /\ f.at = changes + 1 /\ f.type = "waba"
      /\ f.body = [change |-> "deleted", id |-> a, name |-> waba.name]
  BY <1>2, FrameOf DEF FrameTypes, WabaFrame
<1>4. ASSUME NEW i \in DOMAIN ns
      PROVE  /\ gone[i] \in Frames /\ gone[i].at = changes + 1 /\ gone[i].type = "number"
             /\ gone[i].body.change = "deleted" /\ gone[i].body.account = a
  <2>1. ns[i] \in Phones
    BY <1>1
  <2>2. [change |-> "deleted", account |-> a, number |-> ns[i]] \in FrameBodies("number")
    BY <2>1, Bodies DEF NumberBodies, Kinds
  <2>3. Frame("number", [change |-> "deleted", account |-> a, number |-> ns[i]]) \in Frames
    BY <2>2, FrameOf DEF FrameTypes
  <2>4. QED
    BY <2>3 DEF NumberFrame, Frame
<1>5. gone = [i \in DOMAIN ns |-> gone[i]] /\ DOMAIN gone = DOMAIN ns
  OBVIOUS
<1>6. /\ wabas' = Dropped(wabas, a) /\ templates' = [templates EXCEPT ![a] = 0]
      /\ Publish(fs, mine) /\ UNCHANGED <<rules, expired, log, clock>>
  BY DEF DeleteWaba
<1> HIDE DEF gone, f, ns
<1>7. gone \in Seq(Frames) /\ Len(gone) = Len(ns) /\ Len(ns) \in Nat /\ DOMAIN gone = 1 .. Len(gone)
  BY <1>1, <1>4, <1>5, SeqOfMapped
<1>8. /\ fs \in Seq(Frames) /\ Len(fs) = Len(gone) + 1 /\ DOMAIN fs = 1 .. Len(gone) + 1
      /\ fs[Len(gone) + 1] = f /\ \A i \in 1 .. Len(gone) : fs[i] = gone[i]
  BY <1>3, <1>7
<1> HIDE DEF fs
<1>9. fs # <<>> /\ Last(fs) = f
  BY <1>7, <1>8 DEF Last
<1>10. \A i \in DOMAIN fs : fs[i].at = changes + 1 /\ (i # Len(fs) => fs[i].type = "number")
  <2>1. TAKE i \in DOMAIN fs
  <2>2. CASE i = Len(gone) + 1
    BY <1>3, <1>8, <2>2
  <2>3. CASE i # Len(gone) + 1
    <3>1. i \in 1 .. Len(gone) /\ i \in DOMAIN ns
      BY <1>5, <1>7, <1>8, <2>3
    <3>2. QED
      BY <1>4, <1>8, <3>1
  <2>4. QED
    BY <2>2, <2>3
<1>11. /\ changes' = changes + 1 /\ changes' \in Nat
       /\ Tell(fs, mine) /\ imports' = imports /\ imports' \in [pending : Nat, at : 0 .. changes']
  BY <1>6, ChangesGrow
<1>12. wabas' \in Worlds
  BY <1>1, <1>6, WorldsClosed
<1>13. ServerTypes' /\ RuleIds'
  <2>1. templates' \in Statuses
    BY <1>6 DEF Statuses, ServerTypes
  <2>2. QED
    BY <1>6, <1>11, <1>12, <2>1, RuleIdsStay DEF ServerTypes
<1>14. Told(f)
  <2>1. SUFFICES ASSUME NEW k \in Cells, NEW r \in Int
                 PROVE  IF Touches(f, k, r) THEN Says(f, k, Here(k, r)') ELSE Here(k, r)' = Here(k, r)
    BY DEF Told
  <2>2. Says(f, k, Here(k, r)')
    BY <1>3 DEF Says
  <2>3. ASSUME ~Touches(f, k, r) PROVE Here(k, r)' = Here(k, r)
    <3>1. CASE k # "templates"
      BY <1>6, <3>1 DEF Here, Cells
    <3>2. CASE k = "templates"
      <4>1. r # a
        BY <1>3, <2>3, <3>2 DEF Touches
      <4>2. templates'[r] = templates[r]
        BY <1>6, <4>1 DEF Statuses, ServerTypes
      <4>3. QED
        BY <3>2, <4>2 DEF Here
    <3>3. QED
      BY <3>1, <3>2
  <2>4. QED
    BY <2>2, <2>3
<1>15. Logged(f)
  BY <1>3, <1>6, LogStays DEF Wipes
<1>16. Housed(fs)
  <2>1. wabas' = After(wabas, f)
    BY <1>3, <1>6 DEF After, AfterWaba, Wipes
  <2>2. ~Wipes(f) /\ \A c : ~Presumes(f, c) /\ ~Creates(f, c)
    BY <1>3 DEF Wipes, Presumes, OfNumber, Creates
  <2>3. ASSUME NEW i \in DOMAIN fs, i # Len(fs)
        PROVE  fs[i].body.change = "deleted" /\ fs[i].body.account = a
    <3>1. i \in 1 .. Len(gone) /\ i \in DOMAIN ns
      BY <1>5, <1>7, <1>8, <2>3
    <3>2. QED
      BY <1>4, <1>8, <3>1
  <2>4. QED
    BY <1>3, <1>9, <2>1, <2>2, <2>3 DEF Housed
<1>17. ServerMoves(fs, mine)
  BY <1>3, <1>8, <1>9, <1>10, <1>11, <1>13, <1>14, <1>15, <1>16 DEF ServerMoves
<1>18. QED
  BY <1>17

\* Operations on the rules: what a rule's frame says is what the list has then.
LEMMA RuleMoves ==
  ASSUME ServerTypes, NEW change \in Kinds, NEW x \in Rules, NEW mine \in BOOLEAN,
         Publish(<<RuleFrame(change, x)>>, mine),
         rules' \in Seq(Rules), Distinct(rules'), \A i \in DOMAIN rules' : rules'[i].id <= changes + 1,
         Status(rules', x.id) = IF change = "deleted" THEN {} ELSE {x},
         \A r : r # x.id => Status(rules', r) = Status(rules, r),
         UNCHANGED <<wabas, expired, templates, log, clock>>
  PROVE  \E fs : ServerMoves(fs, mine)
<1> DEFINE f == RuleFrame(change, x)
<1>1. [change |-> change, rule |-> x] \in FrameBodies("rule")
  BY Bodies DEF RuleBodies
<1>2. /\ f \in Frames /\ f.at = changes + 1 /\ f.type = "rule"
      /\ f.body = [change |-> change, rule |-> x]
  BY <1>1, FrameOf DEF FrameTypes, RuleFrame
<1>3. changes' = changes + 1 /\ changes' \in Nat /\ imports' \in [pending : Nat, at : 0 .. changes']
  BY ChangesGrow
<1>4. ServerTypes' /\ RuleIds'
  BY <1>3 DEF ServerTypes, RuleIds
<1>5. Tell(<<f>>, mine) /\ imports' = imports
  BY ChangesGrow
<1> HIDE DEF f
<1>6. Told(f)
  <2>1. SUFFICES ASSUME NEW k \in Cells, NEW r \in Int
                 PROVE  IF Touches(f, k, r) THEN Says(f, k, Here(k, r)') ELSE Here(k, r)' = Here(k, r)
    BY DEF Told
  <2>2. CASE k # "rules"
    <3>1. ~Touches(f, k, r)
      BY <1>2, <2>2 DEF Touches, Wipes
    <3>2. QED
      BY <2>2, <3>1 DEF Here, Cells
  <2>3. CASE k = "rules"
    <3>1. Here(k, r) = Status(rules, r) /\ Here(k, r)' = Status(rules', r)
      BY <2>3 DEF Here, Status
    <3>2. Touches(f, k, r) <=> x.id = r
      BY <1>2, <2>3 DEF Touches, Wipes
    <3>3. Says(f, k, Here(k, r)') <=> Here(k, r)' = IF change = "deleted" THEN {} ELSE {x}
      BY <1>2 DEF Says
    <3>4. QED
      BY <3>1, <3>2, <3>3
  <2>4. QED
    BY <2>2, <2>3
<1>7. Logged(f) /\ Housed(<<f>>)
  BY <1>2, LogStays, HousedElsewhere DEF Wipes
<1>8. QED
  BY <1>2, <1>4, <1>5, <1>6, <1>7, OneFrame

\* A rule is armed: its id is new.
LEMMA CreateRuleMoves ==
  ASSUME ServerTypes, RuleIds, NEW mine \in BOOLEAN, CreateRule(mine)
  PROVE  \E fs : ServerMoves(fs, mine)
<1> DEFINE x == [id |-> changes + 1, left |-> 1]
<1>1. x \in Rules /\ x.id = changes + 1 /\ rules \in Seq(Rules) /\ changes \in Nat
  BY DEF Rules, ServerTypes
<1>2. rules' = Append(rules, x) /\ Publish(<<RuleFrame("created", x)>>, mine)
      /\ UNCHANGED <<wabas, expired, templates, log, clock>>
  BY DEF CreateRule
<1> HIDE DEF x
<1>3. \A i \in DOMAIN rules : rules[i].id \in Int /\ rules[i].id <= changes
  BY RulesTyped DEF RuleIds
<1>4. ~Known(rules, x.id)
  BY <1>1, <1>3 DEF Known, Ids
<1>5. rules' = Upsert(rules, x)
  BY <1>2, <1>4 DEF Upsert
<1>6. rules' \in Seq(Rules) /\ Distinct(rules')
  BY <1>1, <1>5, UpsertIsSeq, UpsertStatus DEF RuleIds
<1>7. Status(rules', x.id) = {x}
  BY <1>1, <1>5, UpsertStatus DEF RuleIds
<1>8. \A r : r # x.id => Status(rules', r) = Status(rules, r)
  BY <1>1, <1>5, UpsertStatus DEF RuleIds
<1>9. \A i \in DOMAIN rules' : rules'[i].id <= changes + 1
  <2>1. /\ DOMAIN rules = 1 .. Len(rules) /\ DOMAIN rules' = 1 .. Len(rules) + 1 /\ Len(rules) \in Nat
        /\ rules'[Len(rules) + 1] = x /\ \A i \in 1 .. Len(rules) : rules'[i] = rules[i]
    BY <1>1, <1>2
  <2>2. QED
    BY <1>1, <1>3, <2>1
<1>10. QED
  BY <1>1, <1>2, <1>6, <1>7, <1>8, <1>9, RuleMoves DEF Kinds

\* A rule fires.
LEMMA FireRuleMoves ==
  ASSUME ServerTypes, RuleIds, NEW i \in DOMAIN rules, FireRule(i)
  PROVE  \E fs : ServerMoves(fs, FALSE)
<1> DEFINE x == [rules[i] EXCEPT !.left = rules[i].left - 1]
<1>1. rules \in Seq(Rules) /\ changes \in Nat /\ rules[i] \in Rules
  BY RulesTyped DEF ServerTypes
<1>2. rules[i].left \in Nat /\ rules[i].left > 0
  BY RulesTyped DEF FireRule
<1>3. x \in Rules /\ x.id = rules[i].id
  BY <1>1, <1>2 DEF Rules
<1>4. rules' = [rules EXCEPT ![i] = x]
  BY DEF FireRule
<1>5. UNCHANGED <<wabas, expired, templates, log, clock>> /\ Publish(<<RuleFrame("updated", rules'[i])>>, FALSE)
  BY DEF FireRule
<1> HIDE DEF x
<1>6. Known(rules, x.id) /\ At(rules, x.id) = i
  <2>1. Known(rules, x.id)
    BY <1>3 DEF Known, Ids
  <2>2. QED
    BY <1>3, <2>1, KnownAt DEF RuleIds, Distinct
<1>7. rules' = Upsert(rules, x) /\ rules'[i] = x
  BY <1>1, <1>4, <1>6 DEF Upsert
<1>8. rules' \in Seq(Rules) /\ Distinct(rules')
  BY <1>1, <1>3, <1>7, UpsertIsSeq, UpsertStatus DEF RuleIds
<1>9. Status(rules', x.id) = {x}
  <2>1. PICK y \in Rules : y = x
    BY <1>3
  <2>2. Distinct(rules) /\ rules \in Seq(Rules)
    BY <1>1 DEF RuleIds
  <2>3. Status(Upsert(rules, y), y.id) = {y}
    BY <2>2, UpsertStatus
  <2>4. QED
    BY <1>7, <2>1, <2>3
<1>10. \A r : r # x.id => Status(rules', r) = Status(rules, r)
  BY <1>1, <1>3, <1>7, UpsertStatus DEF RuleIds
<1>11. \A j \in DOMAIN rules' : rules'[j].id <= changes + 1
  <2>1. \A j \in DOMAIN rules : rules[j].id \in Int /\ rules[j].id <= changes
    BY RulesTyped DEF RuleIds
  <2>2. DOMAIN rules' = DOMAIN rules /\ \A j \in DOMAIN rules : rules'[j].id = rules[j].id
    BY <1>3, <1>4
  <2>3. QED
    BY <1>1, <2>1, <2>2
<1>12. Publish(<<RuleFrame("updated", x)>>, FALSE)
  BY <1>5, <1>7
<1>13. QED
  BY <1>3, <1>5, <1>8, <1>9, <1>10, <1>11, <1>12, RuleMoves DEF Kinds

\* A rule is deleted.
LEMMA DeleteRuleMoves ==
  ASSUME ServerTypes, RuleIds, NEW i \in DOMAIN rules, NEW mine \in BOOLEAN, DeleteRule(i, mine)
  PROVE  \E fs : ServerMoves(fs, mine)
<1> DEFINE x == rules[i]
<1>1. rules \in Seq(Rules) /\ changes \in Nat /\ x \in Rules
  BY RulesTyped DEF ServerTypes
<1>2. rules' = Dropped(rules, x.id) /\ Publish(<<RuleFrame("deleted", x)>>, mine)
      /\ UNCHANGED <<wabas, expired, templates, log, clock>>
  BY DEF DeleteRule
<1> HIDE DEF x
<1>3. rules' \in Seq(Rules) /\ Distinct(rules')
  BY <1>1, <1>2, DroppedIsSeq, DroppedStatus DEF RuleIds
<1>4. Status(rules', x.id) = {}
  BY <1>1, <1>2, DroppedStatus DEF RuleIds
<1>5. \A r : r # x.id => Status(rules', r) = Status(rules, r)
  BY <1>1, <1>2, DroppedStatus DEF RuleIds
<1>6. \A j \in DOMAIN rules' : rules'[j].id <= changes + 1
  <2>1. TAKE j \in DOMAIN rules'
  <2>2. \A m \in DOMAIN rules : rules[m].id \in Int /\ rules[m].id <= changes
    BY RulesTyped DEF RuleIds
  <2>3. CASE rules'[j].id = x.id
    BY <1>4, <2>3 DEF Status, ToSet
  <2>4. CASE rules'[j].id # x.id
    <3>1. rules'[j] \in Status(rules, rules'[j].id)
      BY <1>5, <2>4, InStatus
    <3>2. PICK m \in DOMAIN rules : rules[m] = rules'[j]
      BY <3>1, InStatus
    <3>3. QED
      BY <1>1, <2>2, <3>2
  <2>5. QED
    BY <2>3, <2>4
<1>7. QED
  BY <1>1, <1>2, <1>3, <1>4, <1>5, <1>6, RuleMoves DEF Kinds

\* The token expires or is renewed.
LEMMA SetTokenMoves ==
  ASSUME ServerTypes, RuleIds, SetTokenExpired
  PROVE  \E fs : ServerMoves(fs, FALSE)
<1> DEFINE f == TokenFrame(expired')
<1>1. expired' \in BOOLEAN /\ UNCHANGED <<wabas, rules, templates, log, clock>>
  BY DEF SetTokenExpired
<1>2. PICK v \in BOOLEAN : v = expired'
  BY <1>1
<1>3. Frame("token", v) \in Frames
  BY <1>2, Bodies, FrameOf DEF FrameTypes
<1>4. f \in Frames /\ f.at = changes + 1 /\ f.type = "token" /\ f.body = expired'
  BY <1>2, <1>3 DEF TokenFrame, Frame
<1>5. Publish(<<f>>, FALSE)
  BY DEF SetTokenExpired
<1>6. /\ changes' = changes + 1 /\ changes' \in Nat
      /\ Tell(<<f>>, FALSE) /\ imports' = imports /\ imports' \in [pending : Nat, at : 0 .. changes']
  BY <1>5, ChangesGrow
<1>7. ServerTypes' /\ RuleIds'
  BY <1>1, <1>6, RuleIdsStay DEF ServerTypes
<1> HIDE DEF f
<1>8. Told(f)
  <2>1. SUFFICES ASSUME NEW k \in Cells, NEW r \in Int
                 PROVE  IF Touches(f, k, r) THEN Says(f, k, Here(k, r)') ELSE Here(k, r)' = Here(k, r)
    BY DEF Told
  <2>2. CASE k = "tokens"
    BY <1>4, <2>2 DEF Touches, Says, Here
  <2>3. CASE k # "tokens"
    <3>1. ~Touches(f, k, r)
      BY <1>4, <2>3 DEF Touches, Wipes
    <3>2. Here(k, r)' = Here(k, r)
      BY <1>1, <2>3 DEF Here, Cells
    <3>3. QED
      BY <3>1, <3>2
  <2>4. QED
    BY <2>2, <2>3
<1>9. Logged(f) /\ Housed(<<f>>)
  BY <1>1, <1>4, LogStays, HousedElsewhere DEF Wipes
<1>10. QED
  BY <1>4, <1>6, <1>7, <1>8, <1>9, OneFrame

\* A template is created or reviewed.
LEMMA ChangeTemplateMoves ==
  ASSUME ServerTypes, RuleIds, NEW a \in Accounts, ChangeTemplate(a)
  PROVE  \E fs : ServerMoves(fs, FALSE)
<1> DEFINE status == templates[a] + 1
           f == TemplateFrame(a, status)
<1>1. status \in Nat /\ templates' = [templates EXCEPT ![a] = status] /\ templates \in Statuses
  BY DEF ChangeTemplate, ServerTypes, Statuses
<1>2. /\ templates'[a] = status /\ templates' \in Statuses
      /\ \A r : r # a => templates'[r] = templates[r]
  BY <1>1 DEF Statuses
<1>3. UNCHANGED <<wabas, rules, expired, log, clock>> /\ Publish(<<f>>, FALSE)
  BY <1>2 DEF ChangeTemplate
<1>4. [account |-> a, status |-> status] \in FrameBodies("template")
  BY <1>1, Bodies DEF TemplateBodies
<1>5. /\ f \in Frames /\ f.at = changes + 1 /\ f.type = "template"
      /\ f.body = [account |-> a, status |-> status]
  BY <1>4, FrameOf DEF FrameTypes, TemplateFrame
<1>6. /\ changes' = changes + 1 /\ changes' \in Nat
      /\ Tell(<<f>>, FALSE) /\ imports' = imports /\ imports' \in [pending : Nat, at : 0 .. changes']
  BY <1>3, ChangesGrow
<1>7. ServerTypes' /\ RuleIds'
  BY <1>2, <1>3, <1>6, RuleIdsStay DEF ServerTypes
<1> HIDE DEF f, status
<1>8. Told(f)
  <2>1. SUFFICES ASSUME NEW k \in Cells, NEW r \in Int
                 PROVE  IF Touches(f, k, r) THEN Says(f, k, Here(k, r)') ELSE Here(k, r)' = Here(k, r)
    BY DEF Told
  <2>2. CASE k = "templates"
    <3>1. Here(k, r)' = templates'[r] /\ Here(k, r) = templates[r]
      BY <2>2 DEF Here
    <3>2. Touches(f, k, r) <=> a = r
      BY <1>5, <2>2 DEF Touches, Wipes
    <3>3. Says(f, k, Here(k, r)') <=> Here(k, r)' = status
      BY <1>5 DEF Says
    <3>4. QED
      BY <1>2, <3>1, <3>2, <3>3
  <2>3. CASE k # "templates"
    <3>1. ~Touches(f, k, r)
      BY <1>5, <2>3 DEF Touches, Wipes
    <3>2. Here(k, r)' = Here(k, r)
      BY <1>3, <2>3 DEF Here, Cells
    <3>3. QED
      BY <3>1, <3>2
  <2>4. QED
    BY <2>2, <2>3
<1>9. Logged(f) /\ Housed(<<f>>)
  BY <1>3, <1>5, LogStays, HousedElsewhere DEF Wipes
<1>10. QED
  BY <1>5, <1>6, <1>7, <1>8, <1>9, OneFrame

\* A delivery is attempted.
LEMMA DeliverMoves ==
  ASSUME ServerTypes, RuleIds, NEW tick \in {0, 1}, NEW k \in 1 .. Len(log) + 1, Deliver(tick, k)
  PROVE  \E fs : ServerMoves(fs, FALSE)
<1> DEFINE d == [id |-> changes + 1, time |-> clock + tick]
           f == DeliveryFrame(d)
<1>1. /\ Publish(<<f>>, FALSE) /\ UNCHANGED <<wabas, rules, expired, templates>>
      /\ clock' = clock + tick /\ log' = InsertAt(log, k, d)
      /\ \A i \in k .. Len(log) : log[i].time = clock'
  BY DEF Deliver
<1>2. /\ changes' = changes + 1 /\ changes' \in Nat
      /\ Tell(<<f>>, FALSE) /\ imports' = imports /\ imports' \in [pending : Nat, at : 0 .. changes']
  BY <1>1, ChangesGrow
<1>3. d \in FrameBodies("delivery") /\ clock' \in Nat \ {0}
  <2>1. changes \in Nat /\ clock \in Nat \ {0} /\ tick \in Nat
    BY DEF ServerTypes
  <2>2. d \in Attempts
    BY <2>1 DEF Attempts
  <2>3. QED
    BY <1>1, <2>1, <2>2, Bodies
<1>4. f \in Frames /\ f.at = changes + 1 /\ f.type = "delivery" /\ f.body = d
  BY <1>3, FrameOf DEF FrameTypes, DeliveryFrame
<1>5. ServerTypes' /\ RuleIds'
  BY <1>1, <1>2, <1>3, RuleIdsStay DEF ServerTypes
<1>6. Logged(f)
  BY <1>1, <1>4 DEF Logged
<1> HIDE DEF f
<1>7. Told(f)
  BY <1>1, <1>4, CellsStay
<1>8. Housed(<<f>>)
  BY <1>1, <1>4, HousedElsewhere DEF Wipes
<1>9. QED
  BY <1>2, <1>4, <1>5, <1>6, <1>7, <1>8, OneFrame

\* The new world is typed, and its rules are unlike the old.
LEMMA Refilled ==
  ASSUME ServerTypes, NEW accounts \in Worlds, NEW itsRules \in Seq(Rules), Distinct(itsRules),
         \A i \in DOMAIN itsRules : itsRules[i].id <= 0, NEW attempts,
         Refill(accounts, itsRules, attempts),
         changes' \in Nat, imports' \in [pending : Nat, at : 0 .. changes']
  PROVE  ServerTypes' /\ RuleIds'
<1>1. /\ wabas' = accounts /\ rules' = itsRules /\ expired' = FALSE /\ clock' = clock
      /\ templates' = [a \in Accounts |-> 0]
  BY DEF Refill
<1>2. ServerTypes'
  BY <1>1 DEF ServerTypes, Statuses
<1>3. \A i \in DOMAIN itsRules : itsRules[i] \in Rules
  OBVIOUS
<1>4. \A i \in DOMAIN itsRules : itsRules[i].id \in Int
  BY <1>3 DEF Rules
<1>5. RuleIds'
  BY <1>1, <1>4 DEF RuleIds
<1>6. QED
  BY <1>2, <1>5

\* A frame that brings a world brings the accounts that are there.
LEMMA HousedWorld ==
  ASSUME NEW f, Wipes(f), f.body = wabas', Apart(wabas')
  PROVE  Housed(<<f>>)
<1>1. wabas' = After(wabas, f)
  BY DEF After, Wipes
<1>2. \A a : ~Creates(f, a) /\ ~Presumes(f, a)
  BY DEF Creates, Presumes, OfNumber, Wipes
<1>3. QED
  BY <1>1, <1>2, HousedOne

\* POST /api/reset: the seed's accounts, no rule, no expired token, no attempt.
LEMMA ResetMoves ==
  ASSUME ServerTypes, NEW mine \in BOOLEAN, Reset(mine)
  PROVE  \E fs : ServerMoves(fs, mine)
<1> DEFINE f == Frame("state.reset", Seed)
<1>1. Refill(Seed, <<>>, <<>>) /\ Publish(<<f>>, mine)
  BY DEF Reset
<1>2. /\ changes' = changes + 1 /\ changes' \in Nat
      /\ Tell(<<f>>, mine) /\ imports' = imports /\ imports' \in [pending : Nat, at : 0 .. changes']
  BY <1>1, ChangesGrow
<1>3. f \in Frames /\ f.at = changes + 1 /\ f.type = "state.reset" /\ f.body = Seed
  BY Bodies, FrameOf, WorldsAre DEF FrameTypes
<1>4. ServerTypes' /\ RuleIds'
  <2>1. Distinct(<<>>) /\ <<>> \in Seq(Rules) /\ DOMAIN <<>> = {}
    BY DEF Distinct
  <2>2. QED
    BY <1>1, <1>2, <2>1, WorldsAre, Refilled
<1>5. wabas' = Seed /\ rules' = <<>> /\ expired' = FALSE /\ log' = <<>> /\ clock' = clock
  BY <1>1 DEF Refill
<1> HIDE DEF f
<1>6. Told(f)
  <2>1. SUFFICES ASSUME NEW k \in Cells, NEW r \in Int
                 PROVE  Touches(f, k, r) /\ Says(f, k, Here(k, r)')
    BY DEF Told
  <2>2. k = "rules" => Here(k, r)' = {}
    BY <1>5 DEF Here, Status, ToSet
  <2>3. k = "tokens" => Here(k, r)' = FALSE
    BY <1>5 DEF Here
  <2>4. QED
    BY <1>3, <2>2, <2>3 DEF Touches, Says, Wipes
<1>7. Logged(f)
  BY <1>3, <1>5 DEF Logged
<1>8. Housed(<<f>>)
  BY <1>3, <1>5, ConsoleAssumption, HousedWorld DEF Wipes
<1>9. QED
  BY <1>2, <1>3, <1>4, <1>6, <1>7, <1>8, OneFrame

\* The announcement of an import changes nothing and says all there is.
LEMMA AnnounceImportMoves ==
  ASSUME ServerTypes, RuleIds, NEW mine \in BOOLEAN, AnnounceImport(mine)
  PROVE  \E fs : ServerMoves(fs, mine)
<1> DEFINE f == Frame("state.imported", wabas)
<1>1. /\ imports.pending > 0 /\ imports' = [imports EXCEPT !.pending = imports.pending - 1]
      /\ Tell(<<f>>, mine) /\ UNCHANGED <<wabas, rules, expired, templates, log, clock>>
  BY DEF AnnounceImport
<1>2. changes' = changes + 1 /\ changes' \in Nat /\ changes \in Nat
  BY <1>1 DEF Tell, ServerTypes
<1>3. imports' \in [pending : Nat, at : 0 .. changes'] /\ imports'.at = imports.at
  BY <1>1, <1>2 DEF ServerTypes
<1>4. f \in Frames /\ f.at = changes + 1 /\ f.type = "state.imported" /\ f.body = wabas
  BY Bodies, FrameOf DEF FrameTypes, ServerTypes
<1>5. ServerTypes' /\ RuleIds'
  BY <1>1, <1>2, <1>3, RuleIdsStay DEF ServerTypes
<1> HIDE DEF f
<1>6. Told(f)
  BY <1>4 DEF Told, Touches, Says, Wipes
<1>7. Logged(f)
  BY <1>1, <1>4 DEF Logged
<1>8. ASSUME Apart(wabas) PROVE Housed(<<f>>)
  <2>1. f.body = wabas' /\ Apart(wabas')
    BY <1>1, <1>4, <1>8
  <2>2. QED
    BY <1>4, <2>1, HousedWorld DEF Wipes
<1>9. QED
  BY <1>1, <1>3, <1>4, <1>5, <1>6, <1>7, <1>8, OneFrame

\* Whatever changes the server is published, typed and told by its last frame.
LEMMA ServerSteps ==
  ASSUME ServerTypes, RuleIds, ServerChanges
  PROVE  (\E fs : \E mine \in BOOLEAN : ServerMoves(fs, mine)) \/ Import \/ FailImport
<1>1. ASSUME NEW mine \in BOOLEAN, NEW a \in Accounts,
             CreateWaba(a, mine) \/ RenameWaba(a, mine) \/ DeleteWaba(a, mine)
      PROVE  \E fs : ServerMoves(fs, mine)
  BY <1>1, CreateWabaMoves, RenameWabaMoves, DeleteWabaMoves
<1>2. ASSUME NEW mine \in BOOLEAN, NEW n \in Numbers, UpdateNumber(n, mine) \/ DeleteNumber(n, mine)
      PROVE  \E fs : ServerMoves(fs, mine)
  BY <1>2, UpdateNumberMoves, DeleteNumberMoves
<1>3. ASSUME NEW mine \in BOOLEAN, NEW a \in Accounts, NEW n \in Numbers, CreateNumber(a, n, mine)
      PROVE  \E fs : ServerMoves(fs, mine)
  BY <1>3, CreateNumberMoves
<1>4. ASSUME NEW mine \in BOOLEAN, CreateRule(mine) \/ \E i \in DOMAIN rules : DeleteRule(i, mine)
      PROVE  \E fs : ServerMoves(fs, mine)
  BY <1>4, CreateRuleMoves, DeleteRuleMoves
<1>5. ASSUME NEW mine \in BOOLEAN, Reset(mine) \/ AnnounceImport(mine)
      PROVE  \E fs : ServerMoves(fs, mine)
  BY <1>5, ResetMoves, AnnounceImportMoves
<1>6. ASSUME NEW i \in DOMAIN rules, FireRule(i)
      PROVE  \E fs : ServerMoves(fs, FALSE)
  BY <1>6, FireRuleMoves
<1>7. ASSUME SetTokenExpired \/ (\E a \in Accounts : ChangeTemplate(a))
      PROVE  \E fs : ServerMoves(fs, FALSE)
  BY <1>7, SetTokenMoves, ChangeTemplateMoves
<1>8. ASSUME NEW tick \in {0, 1}, NEW k \in 1 .. Len(log) + 1, Deliver(tick, k)
      PROVE  \E fs : ServerMoves(fs, FALSE)
  BY <1>8, DeliverMoves
<1>9. QED
  BY <1>1, <1>2, <1>3, <1>4, <1>5, <1>6, <1>7, <1>8 DEF ServerChanges

-----------------------------------------------------------------------------
(* Types *)

\* Each request is one of its GET.
LEMMA RequestsTyped ==
  ASSUME RequestTypes
  PROVE  DOMAIN requests = Gets /\ \A g \in Gets : IsRequest(g, requests[g])
BY DEF RequestTypes

\* Setting one request leaves the others.
LEMMA RequestSet ==
  ASSUME RequestTypes, NEW g \in Gets, NEW v, IsRequest(g, v), requests' = [requests EXCEPT ![g] = v]
  PROVE  /\ RequestTypes'
         /\ requests'[g] = v /\ \A h \in Gets : h # g => requests'[h] = requests[h]
<1>1. requests = [h \in Gets |-> requests[h]] /\ DOMAIN requests = Gets
  BY DEF RequestTypes
<1>2. /\ requests' = [h \in Gets |-> requests'[h]]
      /\ requests'[g] = v /\ \A h \in Gets : h # g => requests'[h] = requests[h]
  BY <1>1
<1>3. QED
  BY <1>2 DEF RequestTypes

\* A request taken back, and one sent.
LEMMA IdleOrSent ==
  ASSUME NEW g, NEW a
  PROVE  IsRequest(g, Idle) /\ IsRequest(g, Sent(a)) /\ Idle.stage = "idle" /\ Sent(a).stage = "sent"
         /\ Sent(a).arg = a
<1>1. Sent(a).arg = a /\ Sent(a).stage = "sent" /\ Idle.stage = "idle"
  BY DEF Sent, Idle
<1>2. QED
  BY <1>1 DEF IsRequest

\* The GETs.
LEMMA GetNames ==
  /\ "bootstrap" \in Gets /\ "state" \in Gets /\ "reload" \in Gets /\ "tokens" \in Gets
  /\ "templates" \in Gets /\ "latest" \in Gets /\ "older" \in Gets
BY DEF Gets

\* What each GET is about.
LEMMA AboutIs ==
  /\ About("bootstrap") = {"server", "rules"} /\ About("state") = {"server"}
  /\ About("reload") = {"rules", "tokens"} /\ About("tokens") = {"tokens"}
  /\ About("templates") = {"templates"} /\ About("latest") = {"log"} /\ About("older") = {"log"}
BY DEF About

\* GETs are about collections.
LEMMA AboutIn ==
  ASSUME NEW g \in Gets
  PROVE  About(g) \subseteq Collections
BY DEF Gets, About, Collections

\* What it means for the awaited answer that a frame goes by.
LEMMA EchoPassed ==
  ASSUME IsEcho(echo), NEW f, Concerned(f) \subseteq Collections
  PROVE  LET e2 == EchoPassedBy(f) IN
         /\ IsEcho(e2) /\ e2.pending = echo.pending
         /\ echo.pending =>
              /\ e2.frame = echo.frame
              /\ e2.old = IF f.at > echo.frame.at THEN echo.old \cup Concerned(f) ELSE echo.old
              /\ e2.heard <=> echo.heard \/ f.at >= echo.frame.at
<1>1. CASE echo = NoEcho
  BY <1>1 DEF EchoPassedBy, NoEcho, IsEcho
<1>2. CASE echo # NoEcho
  <2>1. echo \in [pending : {TRUE}, frame : Frames, old : SUBSET Collections, heard : BOOLEAN]
    BY <1>2 DEF IsEcho
  <2> DEFINE old2 == IF f.at > echo.frame.at THEN echo.old \cup Concerned(f) ELSE echo.old
             heard2 == echo.heard \/ f.at >= echo.frame.at
  <2>2. old2 \in SUBSET Collections /\ heard2 \in BOOLEAN
    BY <2>1
  <2> HIDE DEF old2, heard2
  <2>3. EchoPassedBy(f) = [echo EXCEPT !.old = old2, !.heard = heard2]
    BY <2>1 DEF EchoPassedBy, old2, heard2
  <2> DEFINE e2 == EchoPassedBy(f)
  <2>4. /\ e2 \in [pending : {TRUE}, frame : Frames, old : SUBSET Collections, heard : BOOLEAN]
        /\ e2.pending = TRUE /\ e2.frame = echo.frame /\ e2.old = old2 /\ e2.heard = heard2
    BY <2>1, <2>2, <2>3
  <2> HIDE DEF e2
  <2>5. IsEcho(e2)
    BY <2>4 DEF IsEcho
  <2>6. QED
    BY <2>1, <2>4, <2>5 DEF old2, heard2, e2
<1>3. QED
  BY <1>1, <1>2

\* What publishing does to the wire, the requests and the echo.
Published(fs, mine) ==
  /\ frames' \in Seq(Frames)
  /\ connected => frames' = frames \o fs
  /\ ~connected => frames' = frames
  /\ RequestTypes' /\ IsEcho(echo') /\ behind' \in [Collections -> BOOLEAN]
  /\ connected => behind' = behind /\ requests' = requests
  /\ \A g \in Gets :
       /\ Older(requests[g], requests'[g])
       /\ ~connected /\ PassesBy(Last(fs), g) => requests'[g].old = TRUE
  /\ ~connected => \A c \in Collections : behind'[c] <=> behind[c] \/ c \in Concerned(Last(fs))
  /\ mine => /\ echo'.pending /\ echo'.frame = Last(fs) /\ echo'.old = {}
             /\ echo'.heard <=> ~connected
  /\ ~mine /\ connected => echo' = echo
  /\ ~mine /\ ~connected => echo' = EchoPassedBy(Last(fs))
  /\ changes' = changes + 1
  /\ UNCHANGED <<connected, drops, store, gate, path, last, visits, cuts>>

\* Publishing keeps the types.
LEMMA PublishFacts ==
  ASSUME TypeOK, NEW fs, NEW mine \in BOOLEAN, ServerMoves(fs, mine)
  PROVE  TypeOK' /\ Published(fs, mine)
<1> DEFINE f == Last(fs)
<1>1. fs \in Seq(Frames) /\ f \in Frames /\ f.at = changes + 1 /\ Tell(fs, mine) /\ ServerTypes'
  BY LastOf DEF ServerMoves
<1> HIDE DEF f
<1>2. /\ RequestTypes /\ IsEcho(echo) /\ behind \in [Collections -> BOOLEAN]
      /\ frames \in Seq(Frames) /\ connected \in BOOLEAN
  BY DEF TypeOK, WireTypes, TabTypes
<1>3. /\ changes' = changes + 1
      /\ frames' = IF connected THEN frames \o fs ELSE frames
      /\ behind' = IF connected THEN behind
                   ELSE [c \in Collections |-> behind[c] \/ c \in Concerned(f)]
      /\ requests' = IF connected THEN requests ELSE RequestsPassedBy(f)
      /\ echo' = CASE mine -> [pending |-> TRUE, frame |-> f, old |-> {}, heard |-> ~connected]
                   [] ~mine /\ connected -> echo
                   [] OTHER -> EchoPassedBy(f)
      /\ UNCHANGED <<connected, drops, store, gate, path, last, visits, cuts>>
  BY <1>1 DEF Tell, f, tabVars
<1>4. frames' \in Seq(Frames)
  BY <1>1, <1>2, <1>3
<1>5. /\ behind' \in [Collections -> BOOLEAN]
      /\ ~connected => \A c \in Collections : behind'[c] <=> behind[c] \/ c \in Concerned(f)
  BY <1>2, <1>3
<1>6. /\ RequestTypes'
      /\ \A g \in Gets :
           /\ Older(requests[g], requests'[g])
           /\ ~connected /\ PassesBy(f, g) => requests'[g].old = TRUE
  <2>1. CASE connected
    BY <1>2, <1>3, <2>1 DEF RequestTypes, Older
  <2>2. CASE ~connected
    <3>1. requests' = RequestsPassedBy(f)
      BY <1>3, <2>2
    <3>2. RequestTypes'
      BY <1>2, <3>1, PassedByTypes DEF RequestTypes
    <3>3. QED
      BY <1>1, <1>2, <3>1, <3>2, PassedByTypes
  <2>3. QED
    BY <2>1, <2>2
<1>7. /\ mine => /\ echo'.pending /\ echo'.frame = f /\ echo'.old = {}
                 /\ echo'.heard <=> ~connected
      /\ ~mine /\ connected => echo' = echo
      /\ ~mine /\ ~connected => echo' = EchoPassedBy(f)
  BY <1>2, <1>3
<1>8. IsEcho(echo')
  <2>1. CASE mine
    <3>1. echo' \in [pending : {TRUE}, frame : Frames, old : SUBSET Collections, heard : BOOLEAN]
      BY <1>1, <1>2, <1>3, <2>1
    <3>2. QED
      BY <3>1 DEF IsEcho
  <2>2. CASE ~mine
    BY <1>1, <1>2, <1>7, <2>2, EchoPassed, ConcernedIn
  <2>3. QED
    BY <2>1, <2>2
<1>9. Published(fs, mine)
  <2>1. /\ connected => frames' = frames \o fs /\ behind' = behind /\ requests' = requests
        /\ ~connected => frames' = frames
    BY <1>3
  <2>2. /\ changes' = changes + 1 /\ UNCHANGED <<connected, drops, store, gate, path, last, visits, cuts>>
    BY <1>3
  <2>3. QED
    BY <1>4, <1>5, <1>6, <1>7, <1>8, <2>1, <2>2, Zenon DEF Published, f
<1>10. TypeOK'
  BY <1>1, <1>2, <1>3, <1>4, <1>5, <1>6, <1>8 DEF TypeOK, WireTypes, TabTypes, IsEcho
<1>11. QED
  BY <1>9, <1>10

\* The things of a snapshot.
LEMMA ThingsTyped ==
  ASSUME NEW snap \in Worlds
  PROVE  Things(snap) \subseteq {"number", "bare"} \X Nat
<1>1. \A i \in DOMAIN snap : snap[i].id \in Nat /\ snap[i].numbers \in Seq(Phones)
  BY WorldFacts, ConsoleAssumption
<1>2. ASSUME NEW i \in DOMAIN snap, NEW n \in Ids(snap[i].numbers) PROVE n \in Nat
  <2>1. PICK k \in DOMAIN snap[i].numbers : n = snap[i].numbers[k].id
    BY DEF Ids
  <2>2. snap[i].numbers[k] \in Phones
    BY <1>1, <2>1
  <2>3. QED
    BY <2>1, <2>2, ConsoleAssumption DEF Phones
<1>3. Ids(snap) \subseteq Nat
  BY <1>1 DEF Ids
<1>4. \A i \in DOMAIN snap : {<<"number", n>> : n \in Ids(snap[i].numbers)} \subseteq {"number", "bare"} \X Nat
  BY <1>2
<1>5. {<<"bare", a>> : a \in {b \in Ids(snap) : snap[At(snap, b)].numbers = <<>>}} \subseteq {"number", "bare"} \X Nat
  BY <1>3
<1>6. UNION {{<<"number", n>> : n \in Ids(snap[i].numbers)} : i \in DOMAIN snap} \subseteq {"number", "bare"} \X Nat
  BY <1>4, Zenon
<1> DEFINE A == UNION {{<<"number", n>> : n \in Ids(snap[i].numbers)} : i \in DOMAIN snap}
           B == {<<"bare", a>> : a \in {b \in Ids(snap) : snap[At(snap, b)].numbers = <<>>}}
           all == {"number", "bare"} \X Nat
<1>7. Things(snap) = B \cup A
  BY DEF Things
<1>8. A \subseteq all /\ B \subseteq all
  BY <1>5, <1>6
<1> HIDE DEF A, B, all
<1>9. Things(snap) \subseteq all
  BY <1>7, <1>8
<1>10. QED
  BY <1>9 DEF all

\* dispatch() asks for a render; the rest of the gate's state stays.
LEMMA DispatchFacts ==
  ASSUME TypeOK, NEW st, IsStore(st), Dispatch(st)
  PROVE  /\ store' = st /\ IsStore(store') /\ gate' \in Gates
         /\ gate'.dirty = TRUE /\ gate'.hops = 0 /\ gate'.gone = gate.gone \cup Gone(st)
         /\ gate'.announced = gate.announced /\ gate'.effect = gate.effect
         /\ gate'.asked = gate.asked /\ gate'.returned = gate.returned
<1>1. gate \in Gates /\ store' = st
  BY DEF TypeOK, TabTypes, Dispatch
<1>2. Gone(st) \in SUBSET ({"number", "bare"} \X Nat)
  <2>1. CASE store.server.loaded
    <3>1. store.server.data \in Worlds
      BY <2>1, StoreFields, LoadsFacts DEF TypeOK
    <3>2. QED
      BY <3>1, ThingsTyped DEF Gone
  <2>2. CASE ~store.server.loaded
    BY <2>2 DEF Gone
  <2>3. QED
    BY <2>1, <2>2
<1>3. gate' = [gate EXCEPT !.dirty = TRUE, !.hops = 0, !.gone = gate.gone \cup Gone(st)]
  BY DEF Dispatch
<1>4. gate' \in Gates
  BY <1>1, <1>2, <1>3 DEF Gates
<1>5. QED
  BY <1>1, <1>3, <1>4 DEF Gates

\* Nothing the page shows or the gate knows changes.
GateStill ==
  /\ UNCHANGED <<path, last>>
  /\ store'.server = store.server /\ store'.scope = store.scope
  /\ gate'.dirty = gate.dirty /\ gate'.hops = gate.hops /\ gate'.gone = gate.gone
  /\ gate'.announced = gate.announced /\ gate'.effect = gate.effect /\ gate'.returned = gate.returned

\* The cells and what is under way about them stay, or a request is sent or given up.
CellsStill ==
  /\ UNCHANGED <<rules, expired, templates, changes, frames, echo>> /\ imports'.at = imports.at
  /\ store'.rules = store.rules /\ store'.tokens = store.tokens /\ store'.templates = store.templates
  /\ connected => connected'
  /\ \A g \in Gets : \/ requests'[g] = requests[g]
                     \/ requests'[g].stage \in {"idle", "sent"}
  /\ \A g \in {"bootstrap", "reload"} :
       requests[g].stage # "idle" => requests'[g].stage # "idle" \/ behind'["rules"]
  /\ \A c \in Collections : behind[c] => behind'[c]
  /\ \/ gate'.asked = gate.asked /\ requests'["templates"] = requests["templates"]
     \/ gate'.asked = gate.asked /\ requests'["templates"].stage = "idle" /\ behind'["templates"]
     \/ gate'.asked = 0 /\ requests'["templates"].stage = "idle"
     \/ gate'.asked # 0 /\ requests'["templates"] = Sent(gate'.asked)

\* Answer.
LEMMA AnswerFacts ==
  ASSUME TypeOK, NEW g \in Gets, Answer(g)
  PROVE  /\ TypeOK' /\ GateStill
         /\ requests[g].stage = "sent" /\ requests'[g].stage = "answered" /\ requests'[g].at = changes
         /\ requests'[g].arg = requests[g].arg /\ requests'[g].old = FALSE
         /\ \A c \in About(g) : requests'[g].data[c] = Read(c, requests[g].arg)
         /\ \A h \in Gets : h # g => requests'[h] = requests[h]
         /\ UNCHANGED <<serverVars, connected, frames, drops, store, echo, gate, tabVars, behind>>
<1> DEFINE arg == requests[g].arg
           d == [c \in About(g) |-> Read(c, arg)]
           v == [stage |-> "answered", arg |-> arg, at |-> changes, old |-> FALSE, data |-> d]
<1>1. /\ RequestTypes /\ ServerTypes /\ requests' = [requests EXCEPT ![g] = v]
      /\ UNCHANGED <<serverVars, connected, frames, drops, store, echo, gate, tabVars, behind>>
      /\ requests[g].stage = "sent"
  BY DEF Answer, TypeOK
<1>2. \A c \in About(g) \ {"log"} : d[c] \in Values(c)
  <2>1. TemplatesOf(arg) \in Statuses
    BY <1>1 DEF TemplatesOf, Statuses, ServerTypes
  <2>2. \A c \in Collections \ {"log"} : Read(c, arg) \in Values(c)
    BY <1>1, <2>1 DEF Collections, Read, Values, ServerTypes
  <2>3. QED
    BY <2>2, AboutIn
<1>3. \A c \in About(g) : d[c] = Read(c, arg)
  OBVIOUS
<1> HIDE DEF d
<1>4. IsRequest(g, v)
  BY <1>1, <1>2 DEF IsRequest, IsAnswer, ServerTypes
<1>5. RequestTypes' /\ requests'[g] = v /\ \A h \in Gets : h # g => requests'[h] = requests[h]
  BY <1>1, <1>4, RequestSet
<1>6. TypeOK'
  BY <1>1, <1>5 DEF TypeOK, ServerTypes, WireTypes, TabTypes, serverVars, tabVars, IsEcho, IsStore
<1>7. GateStill
  BY <1>1 DEF GateStill, tabVars
<1>8. QED
  BY <1>1, <1>3, <1>5, <1>6, <1>7

\* Lose.
LEMMA LoseFacts ==
  ASSUME TypeOK, NEW g \in Gets, Lose(g)
  PROVE  TypeOK' /\ GateStill /\ CellsStill
<1>1. /\ RequestTypes /\ behind \in [Collections -> BOOLEAN] /\ requests' = [requests EXCEPT ![g] = Idle]
      /\ behind' = [c \in Collections |-> behind[c] \/ (g \in {"reload", "templates"} /\ c \in About(g))]
      /\ UNCHANGED <<serverVars, connected, frames, store, echo, gate, tabVars>>
      /\ g # "bootstrap"
  BY DEF Lose, TypeOK, TabTypes
<1>2. /\ RequestTypes' /\ requests'[g] = Idle /\ Idle.stage = "idle"
      /\ \A h \in Gets : h # g => requests'[h] = requests[h]
  BY <1>1, IdleOrSent, RequestSet
<1>3. /\ behind' \in [Collections -> BOOLEAN]
      /\ \A c \in Collections : behind[c] => behind'[c]
      /\ g = "reload" => behind'["rules"]
      /\ g = "templates" => behind'["templates"]
  BY <1>1, AboutIs DEF Collections
<1>4. TypeOK'
  BY <1>1, <1>2, <1>3 DEF TypeOK, ServerTypes, WireTypes, TabTypes, serverVars, tabVars, IsEcho, IsStore
<1>5. GateStill
  BY <1>1 DEF GateStill, tabVars
<1>6. \A h \in Gets : requests'[h] = requests[h] \/ requests'[h].stage \in {"idle", "sent"}
  BY <1>2
<1>7. \A h \in {"bootstrap", "reload"} :
        requests[h].stage # "idle" => requests'[h].stage # "idle" \/ behind'["rules"]
  BY <1>1, <1>2, <1>3, GetNames
<1>8. \/ gate'.asked = gate.asked /\ requests'["templates"] = requests["templates"]
      \/ gate'.asked = gate.asked /\ requests'["templates"].stage = "idle" /\ behind'["templates"]
  BY <1>1, <1>2, <1>3, GetNames
<1>9. CellsStill
  BY <1>1, <1>3, <1>6, <1>7, <1>8 DEF CellsStill, serverVars
<1>10. QED
  BY <1>4, <1>5, <1>9

\* Connect.
LEMMA ConnectFacts ==
  ASSUME TypeOK, Connect
  PROVE  TypeOK' /\ GateStill /\ CellsStill
<1>1. /\ RequestTypes /\ gate \in Gates /\ connected' = TRUE
      /\ gate' = [gate EXCEPT !.connectedBefore = TRUE]
      /\ requests' = IF gate.connectedBefore THEN [requests EXCEPT !["state"] = Sent(0)] ELSE requests
      /\ UNCHANGED <<serverVars, frames, drops, store, echo, tabVars, behind>>
  BY DEF Connect, TypeOK, TabTypes
<1>2. gate' \in Gates
  BY <1>1 DEF Gates
<1>3. /\ gate'.dirty = gate.dirty /\ gate'.hops = gate.hops /\ gate'.gone = gate.gone
      /\ gate'.announced = gate.announced /\ gate'.effect = gate.effect /\ gate'.returned = gate.returned
      /\ gate'.asked = gate.asked
  BY <1>1 DEF Gates
<1>4. /\ RequestTypes'
      /\ \A g \in Gets : g # "state" => requests'[g] = requests[g]
      /\ requests'["state"] = requests["state"] \/ requests'["state"].stage \in {"idle", "sent"}
  <2>1. CASE gate.connectedBefore
    <3>1. requests' = [requests EXCEPT !["state"] = Sent(0)]
      BY <1>1, <2>1
    <3>2. "state" \in Gets /\ IsRequest("state", Sent(0)) /\ Sent(0).stage = "sent"
      BY IdleOrSent, GetNames
    <3>3. RequestTypes' /\ requests'["state"] = Sent(0)
          /\ \A g \in Gets : g # "state" => requests'[g] = requests[g]
      BY <1>1, <3>1, <3>2, RequestSet
    <3>4. QED
      BY <3>2, <3>3
  <2>2. CASE ~gate.connectedBefore
    <3>1. requests' = requests
      BY <1>1, <2>2
    <3>2. QED
      BY <1>1, <3>1 DEF RequestTypes
  <2>3. QED
    BY <2>1, <2>2
<1>5. TypeOK'
  BY <1>1, <1>2, <1>4 DEF TypeOK, ServerTypes, WireTypes, TabTypes, serverVars, tabVars, IsEcho, IsStore
<1>6. GateStill
  BY <1>1, <1>3 DEF GateStill, tabVars
<1>7. CellsStill
  BY <1>1, <1>3, <1>4, GetNames DEF CellsStill, serverVars
<1>8. QED
  BY <1>5, <1>6, <1>7

\* The parts of an awaited answer.
LEMMA EchoIs ==
  ASSUME NEW e, IsEcho(e), e.pending
  PROVE  /\ e \in [pending : {TRUE}, frame : Frames, old : SUBSET Collections, heard : BOOLEAN]
         /\ e.frame \in Frames /\ e.old \subseteq Collections /\ e.heard \in BOOLEAN
<1>1. e # NoEcho
  BY DEF NoEcho
<1>2. QED
  BY <1>1 DEF IsEcho

\* An import's first half: what is under way is old, and so is what the tab holds.
Swapped ==
  /\ imports'.at = changes
  /\ UNCHANGED <<changes, connected, frames, store, gate, path, last>>
  /\ \A g \in Gets :
       /\ Older(requests[g], requests'[g])
       /\ requests'[g].stage = "answered" /\ requests[g].at <= changes => requests'[g].old = TRUE
  /\ echo'.pending = echo.pending
  /\ echo.pending => /\ echo'.frame = echo.frame
                     /\ echo.frame.at <= changes => echo'.heard /\ echo'.old = Collections
  /\ \A c \in Collections : behind'[c] = TRUE

\* Import.
LEMMA ImportFacts ==
  ASSUME TypeOK, Import
  PROVE  TypeOK' /\ RuleIds' /\ GateStill /\ Swapped
<1> DEFINE f == Frame("state.imported", Snapshot)
<1>1. /\ RequestTypes /\ IsEcho(echo) /\ ServerTypes /\ changes \in Nat
      /\ Refill(Snapshot, SnapshotRules, SnapshotLog)
      /\ imports' = [pending |-> imports.pending + 1, at |-> changes]
      /\ requests' = RequestsPassedBy(f) /\ echo' = EchoPassedBy(f)
      /\ behind' = [c \in Collections |-> TRUE]
      /\ UNCHANGED <<changes, connected, frames, drops, store, gate, tabVars>>
  BY DEF Import, TypeOK, WireTypes, ServerTypes
<1>2. f.type = "state.imported" /\ f.at = changes + 1
  BY DEF Frame
<1> HIDE DEF f
<1>3. Wipes(f) /\ Concerned(f) = Collections
  BY <1>2 DEF Wipes, Concerned
<1>4. imports' \in [pending : Nat, at : 0 .. changes'] /\ changes' \in Nat /\ imports'.at = changes
  BY <1>1 DEF ServerTypes
<1>5. ServerTypes' /\ RuleIds'
  <2>1. SnapshotRules \in Seq(Rules) /\ Distinct(SnapshotRules)
        /\ \A i \in DOMAIN SnapshotRules : SnapshotRules[i].id <= 0
    BY ConsoleAssumption
  <2>2. QED
    BY <1>1, <1>4, <2>1, WorldsAre, Refilled
<1>6. ASSUME NEW g \in Gets
      PROVE  /\ IsRequest(g, requests'[g]) /\ Older(requests[g], requests'[g])
             /\ requests'[g].stage = "answered" /\ requests[g].at <= changes =>
                  requests'[g].old = TRUE
  <2>1. /\ IsRequest(g, requests'[g]) /\ Older(requests[g], requests'[g])
        /\ PassesBy(f, g) => requests'[g].old = TRUE
    BY <1>1, PassedByTypes
  <2>2. ASSUME requests'[g].stage = "answered", requests[g].at <= changes PROVE PassesBy(f, g)
    <3>1. requests[g].stage = "answered" /\ requests[g].at \in Nat
      BY <1>1, <2>1, <2>2, StagesOf DEF Older, RequestTypes, IsAnswer
    <3>2. About(g) \cap Concerned(f) # {}
      BY <1>3, AboutIs DEF Gets, Collections
    <3>3. requests[g].at < f.at /\ (g = "older" => Wipes(f))
      BY <1>1, <1>2, <1>3, <2>2, <3>1
    <3>4. QED
      BY <3>1, <3>2, <3>3 DEF PassesBy
  <2>3. QED
    BY <2>1, <2>2
<1>7. RequestTypes'
  <2>1. requests' = [g \in Gets |-> requests'[g]]
    BY <1>1 DEF RequestsPassedBy
  <2>2. QED
    BY <1>6, <2>1 DEF RequestTypes
<1>8. /\ IsEcho(echo') /\ echo'.pending = echo.pending
      /\ echo.pending => /\ echo'.frame = echo.frame
                         /\ echo.frame.at <= changes => echo'.heard /\ echo'.old = Collections
  <2>1. /\ IsEcho(echo') /\ echo'.pending = echo.pending
        /\ echo.pending =>
             /\ echo'.frame = echo.frame
             /\ echo'.old = IF f.at > echo.frame.at THEN echo.old \cup Concerned(f) ELSE echo.old
             /\ echo'.heard <=> echo.heard \/ f.at >= echo.frame.at
    BY <1>1, <1>3, EchoPassed
  <2>2. ASSUME echo.pending, echo.frame.at <= changes PROVE echo'.old = Collections /\ echo'.heard
    <3>1. echo.old \subseteq Collections /\ echo.frame.at \in Nat /\ echo'.heard \in BOOLEAN
      BY <1>1, <2>1, <2>2, EchoIs, FrameIs
    <3>2. echo.frame.at < f.at /\ f.at >= echo.frame.at
      BY <1>1, <1>2, <2>2, <3>1
    <3>3. echo'.old = echo.old \cup Concerned(f)
      BY <2>1, <2>2, <3>1, <3>2, <1>2
    <3>4. echo'.heard
      BY <2>1, <2>2, <3>2, Zenon
    <3>5. QED
      BY <1>3, <3>1, <3>3, <3>4
  <2>3. QED
    BY <2>1, <2>2
<1>9. TypeOK'
  <2>1. WireTypes'
    BY <1>1, <1>8 DEF TypeOK, WireTypes, IsEcho
  <2>2. TabTypes' /\ IsStore(store)'
    BY <1>1 DEF TypeOK, TabTypes, tabVars, IsStore
  <2>3. QED
    BY <1>5, <1>7, <2>1, <2>2 DEF TypeOK
<1>10. GateStill
  BY <1>1 DEF GateStill, tabVars
<1>11. Swapped
  BY <1>1, <1>4, <1>6, <1>8 DEF Swapped, tabVars
<1>12. QED
  BY <1>5, <1>9, <1>10, <1>11

\* An import that fails after its first half changes nothing a tab could see.
LEMMA FailFacts ==
  ASSUME TypeOK, FailImport
  PROVE  TypeOK' /\ GateStill /\ CellsStill /\ UNCHANGED <<wabas, log, clock, requests, connected, store, gate, behind, cuts>>
<1>1. /\ imports.pending > 0 /\ imports' = [imports EXCEPT !.pending = imports.pending - 1]
      /\ UNCHANGED <<wabas, rules, expired, templates, log, clock, changes, connected, frames, store,
                     requests, echo, gate, tabVars, behind, cuts>>
  BY DEF FailImport
<1>2. imports' \in [pending : Nat, at : 0 .. changes'] /\ imports'.at = imports.at
  BY <1>1 DEF TypeOK, ServerTypes
<1>3. TypeOK'
  BY <1>1, <1>2 DEF TypeOK, ServerTypes, WireTypes, RequestTypes, TabTypes, tabVars, IsEcho, IsStore
<1>4. GateStill
  BY <1>1 DEF GateStill, tabVars
<1>5. CellsStill
  BY <1>1, <1>2 DEF CellsStill
<1>6. QED
  BY <1>1, <1>3, <1>4, <1>5

-----------------------------------------------------------------------------
(* The socket and the answers, action by action *)

\* Drop.
LEMMA DropFacts ==
  ASSUME TypeOK, Drop
  PROVE  /\ TypeOK' /\ GateStill
         /\ frames' = <<>> /\ connected' = FALSE
         /\ UNCHANGED <<serverVars, store, gate, path, last>>
         /\ \A g \in Gets :
              /\ Older(requests[g], requests'[g])
              /\ \A i \in DOMAIN frames : PassesBy(frames[i], g) => requests'[g].old = TRUE
         /\ \A c \in Collections :
              behind'[c] <=> behind[c] \/ \E i \in DOMAIN frames : c \in Concerned(frames[i])
         /\ frames = <<>> => echo' = echo
         /\ echo'.pending = echo.pending
         /\ frames # <<>> /\ echo.pending =>
              /\ echo'.frame = echo.frame
              /\ echo'.old = IF Last(frames).at > echo.frame.at THEN Collections ELSE echo.old
              /\ echo'.heard <=> echo.heard \/ Last(frames).at >= echo.frame.at
<1> DEFINE passed(g) == \E i \in DOMAIN frames : PassesBy(frames[i], g)
           lost == UNION {Concerned(frames[i]) : i \in DOMAIN frames}
           wipe == [Last(frames) EXCEPT !.type = "state.reset"]
<1>1. /\ RequestTypes /\ IsEcho(echo) /\ behind \in [Collections -> BOOLEAN] /\ frames \in Seq(Frames)
      /\ connected' = FALSE /\ frames' = <<>>
      /\ behind' = [c \in Collections |-> behind[c] \/ c \in lost]
      /\ requests' = [g \in Gets |-> IF passed(g) THEN [requests[g] EXCEPT !.old = TRUE] ELSE requests[g]]
      /\ echo' = IF frames = <<>> THEN echo ELSE EchoPassedBy(wipe)
      /\ UNCHANGED <<serverVars, store, gate, tabVars>>
  BY DEF Drop, TypeOK, WireTypes, TabTypes
<1>2. \A c \in Collections :
        behind'[c] <=> behind[c] \/ \E i \in DOMAIN frames : c \in Concerned(frames[i])
  BY <1>1
<1>3. behind' \in [Collections -> BOOLEAN]
  BY <1>1
<1>4. ASSUME NEW g \in Gets
      PROVE  /\ Older(requests[g], requests'[g]) /\ IsRequest(g, requests'[g])
             /\ passed(g) => requests'[g].old = TRUE
  <2> DEFINE r == requests[g]
  <2>1. IsRequest(g, r) /\ requests'[g] = IF passed(g) THEN [r EXCEPT !.old = TRUE] ELSE r
    BY <1>1 DEF RequestTypes
  <2>2. CASE passed(g)
    <3> HIDE DEF r
    <3>1. r.stage = "answered"
      BY <2>2 DEF r, PassesBy
    <3>2. Older(r, [r EXCEPT !.old = TRUE]) /\ IsRequest(g, [r EXCEPT !.old = TRUE])
      BY <2>1, <3>1, OldAnswer
    <3>3. [r EXCEPT !.old = TRUE].old = TRUE
      BY <2>1, <3>1, StagesOf DEF IsAnswer
    <3>4. requests'[g] = [r EXCEPT !.old = TRUE]
      BY <2>1, <2>2
    <3>5. QED
      BY <3>2, <3>3, <3>4 DEF r
  <2>3. CASE ~passed(g)
    BY <2>1, <2>3 DEF Older
  <2>4. QED
    BY <2>2, <2>3
<1>5. RequestTypes'
  BY <1>1, <1>4 DEF RequestTypes
<1>6. ASSUME NEW g \in Gets, NEW i \in DOMAIN frames
      PROVE  PassesBy(frames[i], g) => requests'[g].old = TRUE
  BY <1>4
<1>7. /\ IsEcho(echo') /\ echo'.pending = echo.pending
      /\ frames # <<>> /\ echo.pending =>
           /\ echo'.frame = echo.frame
           /\ echo'.old = IF Last(frames).at > echo.frame.at THEN Collections ELSE echo.old
           /\ echo'.heard <=> echo.heard \/ Last(frames).at >= echo.frame.at
  <2>1. CASE frames = <<>>
    BY <1>1, <2>1
  <2>2. CASE frames # <<>>
    <3>1. Last(frames) \in Frames
      BY <1>1, <2>2, LastOf
    <3>2. wipe.type = "state.reset" /\ wipe.at = Last(frames).at
      BY <3>1, FrameIs
    <3>3. Concerned(wipe) = Collections
      BY <3>2 DEF Concerned
    <3> HIDE DEF wipe
    <3>4. echo' = EchoPassedBy(wipe)
      BY <1>1, <2>2
    <3>5. echo.pending => echo.old \cup Collections = Collections
      BY <1>1, EchoIs
    <3>6. Concerned(wipe) \subseteq Collections
      BY <3>3
    <3>7. QED
      BY <1>1, <3>2, <3>3, <3>4, <3>5, <3>6, EchoPassed
  <2>3. QED
    BY <2>1, <2>2
<1>8. TypeOK'
  <2>1. WireTypes'
    <3>1. connected' \in BOOLEAN
      BY <1>1
    <3>2. frames' \in Seq(Frames)
      BY <1>1
    <3>3. IsEcho(echo)'
      BY <1>7 DEF IsEcho
    <3>4. QED
      BY <3>1, <3>2, <3>3 DEF WireTypes
  <2>2. ServerTypes' /\ IsStore(store)' /\ TabTypes'
    BY <1>1, <1>3 DEF TypeOK, ServerTypes, TabTypes, serverVars, tabVars, IsStore
  <2>3. QED
    BY <1>5, <2>1, <2>2 DEF TypeOK
<1>9. GateStill
  BY <1>1 DEF GateStill, tabVars
<1>10. frames = <<>> => echo' = echo
  BY <1>1
<1> HIDE DEF passed, lost, wipe
<1>11. QED
  BY <1>1, <1>2, <1>4, <1>6, <1>7, <1>8, <1>9, <1>10 DEF tabVars

\* What has been passed by once a frame is there.
Behind(f, c) ==
  IF Wipes(f) THEN f.at <= imports.at
  ELSE behind[c] \/ (f.at <= imports.at /\ c \in Concerned(f)) \/ (c = "templates" /\ TakesTemplates(f))

\* Receive.
LEMMA ReceiveFacts ==
  ASSUME TypeOK, RulesDistinct(store), Receive
  PROVE  LET f == Head(frames) IN
         /\ TypeOK' /\ frames # <<>> /\ f \in Frames
         /\ Dispatch(Apply(store, f)) /\ Applied(store, Apply(store, f), f)
         /\ frames' = Tail(frames) /\ echo' = EchoPassedBy(f)
         /\ UNCHANGED <<serverVars, connected, path, last>>
         /\ \A g \in Gets :
              IF Wipes(f) /\ g = "reload" THEN requests'[g] = Sent(0)
              ELSE /\ Older(requests[g], requests'[g])
                   /\ PassesBy(f, g) => requests'[g].old = TRUE
         /\ \A c \in Collections : behind'[c] <=> Behind(f, c)
<1> DEFINE f == Head(frames)
           st == Apply(store, f)
<1>1. /\ RequestTypes /\ IsEcho(echo) /\ behind \in [Collections -> BOOLEAN] /\ frames \in Seq(Frames)
      /\ IsStore(store) /\ frames # <<>> /\ frames' = Tail(frames) /\ echo' = EchoPassedBy(f)
      /\ Dispatch(st)
      /\ requests' = [g \in Gets |-> IF Wipes(f) /\ g = "reload" THEN Sent(0) ELSE RequestsPassedBy(f)[g]]
      /\ behind' = [c \in Collections |-> Behind(f, c)]
      /\ UNCHANGED <<serverVars, connected, drops, tabVars>>
  BY DEF Receive, TypeOK, WireTypes, TabTypes, Behind
<1>2. f \in Frames /\ frames' \in Seq(Frames)
  BY <1>1
<1> HIDE DEF f
<1>3. Applied(store, st, f)
  BY <1>1, <1>2, ApplyFacts
<1>4. IsStore(st)
  BY <1>3 DEF Applied
<1> HIDE DEF st
<1>5. IsStore(store') /\ gate' \in Gates
  BY <1>1, <1>4, DispatchFacts
<1>6. IsEcho(echo')
  BY <1>1, <1>2, ConcernedIn, EchoPassed
<1>7. ASSUME NEW g \in Gets
      PROVE  /\ IsRequest(g, requests'[g])
             /\ IF Wipes(f) /\ g = "reload" THEN requests'[g] = Sent(0)
                ELSE /\ Older(requests[g], requests'[g])
                     /\ PassesBy(f, g) => requests'[g].old = TRUE
  <2>1. CASE Wipes(f) /\ g = "reload"
    BY <1>1, <2>1, IdleOrSent
  <2>2. CASE ~(Wipes(f) /\ g = "reload")
    <3>1. requests'[g] = RequestsPassedBy(f)[g]
      BY <1>1, <2>2
    <3>2. QED
      BY <1>1, <2>2, <3>1, PassedByTypes
  <2>3. QED
    BY <2>1, <2>2
<1>8. RequestTypes'
  BY <1>1, <1>7 DEF RequestTypes
<1>10. behind' \in [Collections -> BOOLEAN] /\ \A c \in Collections : behind'[c] <=> Behind(f, c)
  <2>1. \A c \in Collections : Behind(f, c) \in BOOLEAN
    <3>1. Wipes(f) \in BOOLEAN /\ TakesTemplates(f) \in BOOLEAN /\ (f.at <= imports.at) \in BOOLEAN
      BY DEF Wipes, TakesTemplates
    <3>2. QED
      BY <1>1, <3>1, Zenon DEF Behind
  <2>2. QED
    BY <1>1, <2>1
<1>12. TypeOK'
  BY <1>1, <1>2, <1>5, <1>6, <1>8, <1>10 DEF TypeOK, ServerTypes, WireTypes, TabTypes, serverVars, tabVars
<1>13. QED
  BY <1>1, <1>2, <1>3, <1>7, <1>10, <1>12 DEF f, st, tabVars

\* The accounts and numbers that frames name.
LEMMA FrameNames ==
  ASSUME NEW f \in Frames
  PROVE  /\ f.type = "waba" => f.body.id \in Accounts
         /\ f.type = "number" => f.body.account \in Accounts /\ f.body.number.id \in Numbers
<1>1. f.body \in FrameBodies(f.type)
  BY FrameIs
<1>2. f.type = "waba" => f.body \in WabaBodies
  BY <1>1, Bodies
<1>3. f.type = "number" => f.body \in NumberBodies
  BY <1>1, Bodies
<1>4. QED
  BY <1>2, <1>3 DEF WabaBodies, NumberBodies, Phones

\* ReceiveEcho.
LEMMA ReceiveEchoFacts ==
  ASSUME TypeOK, RulesDistinct(store), NEW go \in BOOLEAN, ReceiveEcho(go)
  PROVE  LET f == echo.frame IN
         /\ TypeOK' /\ echo.pending /\ f \in Frames
         /\ Dispatch(Apply(store, f)) /\ Applied(store, Apply(store, f), f)
         /\ echo' = NoEcho
         /\ UNCHANGED <<serverVars, connected, frames, requests, last>>
         /\ \A c \in Collections :
              /\ c \in echo.old /\ c \in Concerned(f) => behind'[c]
              /\ ~Wipes(f) /\ ~(c \in echo.old /\ c \in Concerned(f)) => behind'[c] = behind[c]
              /\ Wipes(f) /\ c = "rules" /\ c \notin echo.old =>
                   (behind'[c] <=> f.type = "state.imported" /\ echo.heard
                                   /\ requests["reload"].stage = "idle")
<1> DEFINE f == echo.frame
           st == Apply(store, f)
           now(c) == CASE c \in echo.old /\ c \in Concerned(f) -> TRUE
                       [] c \notin echo.old /\ Wipes(f) /\ c \in {"rules", "tokens"} ->
                            f.type = "state.imported" /\ echo.heard /\ requests["reload"].stage = "idle"
                       [] c \notin echo.old /\ Wipes(f) /\ c \notin {"rules", "tokens"} -> FALSE
                       [] OTHER -> behind[c]
           to == CASE go /\ f.type = "waba" -> [view |-> path.view, scope |-> Scope(f.body.id, 0)]
                   [] go /\ f.type = "number" ->
                        [view |-> "chats", scope |-> Scope(f.body.account, f.body.number.id)]
                   [] OTHER -> path
<1>1. /\ RequestTypes /\ IsEcho(echo) /\ behind \in [Collections -> BOOLEAN] /\ frames \in Seq(Frames)
      /\ IsStore(store) /\ echo.pending /\ echo' = NoEcho /\ Dispatch(st)
      /\ path \in [view : Views, scope : Scopes]
      /\ path' = to
      /\ behind' = [c \in Collections |-> now(c)]
      /\ UNCHANGED <<serverVars, connected, frames, drops, requests, last, visits>>
  BY DEF ReceiveEcho, TypeOK, WireTypes, TabTypes, Wipes
<1>2. f \in Frames /\ echo.heard \in BOOLEAN
  BY <1>1, EchoIs
<1> HIDE DEF f
<1>3. Applied(store, st, f)
  BY <1>1, <1>2, ApplyFacts
<1>4. IsStore(st)
  BY <1>3 DEF Applied
<1> HIDE DEF st
<1>5. IsStore(store') /\ gate' \in Gates
  BY <1>1, <1>4, DispatchFacts
<1>6. ASSUME NEW c \in Collections
      PROVE  /\ c \in echo.old /\ c \in Concerned(f) => now(c)
             /\ ~Wipes(f) /\ ~(c \in echo.old /\ c \in Concerned(f)) => now(c) = behind[c]
             /\ Wipes(f) /\ c = "rules" /\ c \notin echo.old =>
                  (now(c) <=> f.type = "state.imported" /\ echo.heard /\ requests["reload"].stage = "idle")
             /\ now(c) \in BOOLEAN
  BY <1>1, <1>2
<1>7. to \in [view : Views, scope : Scopes]
  <2>1. CASE go /\ f.type = "waba"
    <3>1. Scope(f.body.id, 0) \in Scopes
      BY <1>2, <2>1, FrameNames DEF Scope, Scopes
    <3>2. QED
      BY <1>1, <2>1, <3>1
  <2>2. CASE go /\ f.type = "number"
    <3>1. Scope(f.body.account, f.body.number.id) \in Scopes /\ "chats" \in Views
      BY <1>2, <2>2, FrameNames DEF Scope, Scopes, Views
    <3>2. to = [view |-> "chats", scope |-> Scope(f.body.account, f.body.number.id)]
      BY <2>2
    <3>3. QED
      BY <3>1, <3>2
  <2>3. CASE ~(go /\ f.type = "waba") /\ ~(go /\ f.type = "number")
    BY <1>1, <2>3
  <2>4. QED
    BY <2>1, <2>2, <2>3
<1> HIDE DEF now, to
<1>8. behind' \in [Collections -> BOOLEAN] /\ \A c \in Collections : behind'[c] = now(c)
  BY <1>1, <1>6
<1>9. TypeOK'
  <2>1. WireTypes'
    <3>1. IsEcho(echo)'
      BY <1>1 DEF IsEcho
    <3>2. QED
      BY <1>1, <3>1 DEF TypeOK, WireTypes
  <2>2. ServerTypes' /\ RequestTypes'
    BY <1>1 DEF TypeOK, ServerTypes, RequestTypes, serverVars
  <2>3. TabTypes'
    BY <1>1, <1>5, <1>7, <1>8 DEF TypeOK, TabTypes
  <2>4. QED
    BY <1>5, <2>1, <2>2, <2>3 DEF TypeOK
<1>10. \A c \in Collections :
         /\ c \in echo.old /\ c \in Concerned(f) => behind'[c]
         /\ ~Wipes(f) /\ ~(c \in echo.old /\ c \in Concerned(f)) => behind'[c] = behind[c]
         /\ Wipes(f) /\ c = "rules" /\ c \notin echo.old =>
              (behind'[c] <=> f.type = "state.imported" /\ echo.heard /\ requests["reload"].stage = "idle")
  BY <1>6, <1>8, Zenon
<1>11. QED
  BY <1>1, <1>2, <1>3, <1>9, <1>10 DEF f, st

\* An answer lands in the store.
Landed(g) ==
  /\ requests[g].stage = "answered" /\ requests'[g] = Idle
  /\ \A h \in Gets : h # g => requests'[h] = requests[h]
  /\ UNCHANGED <<serverVars, connected, frames, echo, path, last>>
  /\ \A k \in Cells :
       IF k \in About(g)
       THEN Held(store', k) = Loaded(requests[g].data[k]) /\ behind'[k] = requests[g].old
       ELSE Held(store', k) = Held(store, k) /\ behind'[k] = behind[k]

\* What every landing does.
LEMMA LandFacts ==
  ASSUME TypeOK, NEW g \in Gets, Answered(g), Lands(g), NEW st, IsStore(st), Dispatch(st),
         behind' \in [Collections -> BOOLEAN],
         \A k \in Cells :
           IF k \in About(g)
           THEN Held(st, k) = Data(g, k) /\ behind'[k] = requests[g].old
           ELSE Held(st, k) = Held(store, k) /\ behind'[k] = behind[k]
  PROVE  TypeOK' /\ Landed(g)
<1>1. /\ RequestTypes /\ requests' = [requests EXCEPT ![g] = Idle] /\ requests[g].stage = "answered"
      /\ UNCHANGED <<serverVars, connected, frames, drops, echo, tabVars>>
  BY DEF TypeOK, Lands, Answered
<1>2. RequestTypes' /\ requests'[g] = Idle /\ \A h \in Gets : h # g => requests'[h] = requests[h]
  BY <1>1, IdleOrSent, RequestSet
<1>3. store' = st /\ IsStore(store') /\ gate' \in Gates
  BY DispatchFacts
<1>4. TypeOK'
  <2>1. WireTypes' /\ ServerTypes'
    BY <1>1 DEF TypeOK, WireTypes, ServerTypes, serverVars, IsEcho
  <2>2. TabTypes'
    BY <1>1, <1>3 DEF TypeOK, TabTypes, tabVars
  <2>3. QED
    BY <1>2, <1>3, <2>1, <2>2 DEF TypeOK
<1>5. Landed(g)
  BY <1>1, <1>2, <1>3 DEF Landed, Data, tabVars
<1>6. QED
  BY <1>4, <1>5

\* The store takes a new state in which the scope is healed.
Dispatched == \E st : IsStore(st) /\ Dispatch(st) /\ Heals(store, st)

\* What an answer brings.
LEMMA AnswerIs ==
  ASSUME TypeOK, NEW g \in Gets, Answered(g)
  PROVE  /\ requests[g].old \in BOOLEAN /\ requests[g].at \in Nat
         /\ \A c \in About(g) \ {"log"} :
              requests[g].data[c] \in Values(c) /\ Data(g, c) \in Loads(Values(c))
<1>1. IsAnswer(g, requests[g])
  BY StagesOf DEF TypeOK, RequestTypes, Answered
<1>2. QED
  BY <1>1, LoadedInLoads DEF IsAnswer, Data

\* A landing's collections are behind when its answer was old.
LEMMA CaughtFacts ==
  ASSUME TypeOK, NEW g \in Gets, Answered(g), Caught(g)
  PROVE  /\ behind' \in [Collections -> BOOLEAN]
         /\ \A c \in Cells : behind'[c] = IF c \in About(g) THEN requests[g].old ELSE behind[c]
<1>1. requests[g].old \in BOOLEAN /\ behind \in [Collections -> BOOLEAN] /\ Cells \subseteq Collections
  BY AnswerIs DEF TypeOK, TabTypes, Cells, Collections
<1>2. QED
  BY <1>1 DEF Caught

\* BootstrapLoaded.
LEMMA BootstrapFacts ==
  ASSUME TypeOK, BootstrapLoaded
  PROVE  TypeOK' /\ Dispatched /\ Landed("bootstrap")
<1> DEFINE g == "bootstrap"
           st1 == [store EXCEPT !.rules = Data(g, "rules")]
           snap == requests[g].data["server"]
           st == WithServer(st1, snap)
<1>1. g \in Gets /\ Answered(g) /\ Dispatch(st) /\ Caught(g) /\ Lands(g) /\ About(g) = {"server", "rules"}
  BY GetNames, AboutIs DEF BootstrapLoaded
<1>2. Data(g, "rules") \in Loads(Seq(Rules)) /\ snap \in Worlds
  BY <1>1, AnswerIs DEF Values
<1>3. /\ IsStore(store) /\ IsStore(st1) /\ st1.server = store.server /\ st1.scope = store.scope
      /\ st1.rules = Data(g, "rules") /\ st1.tokens = store.tokens /\ st1.templates = store.templates
  BY <1>2 DEF TypeOK, IsStore
<1> HIDE DEF st1, snap
<1>4. IsStore(st) /\ Heals(st1, st)
      /\ st.rules = Data(g, "rules") /\ st.tokens = store.tokens /\ st.templates = store.templates
  BY <1>2, <1>3, WithServerFacts
<1> HIDE DEF st
<1>5. Heals(store, st)
  BY <1>3, <1>4 DEF Heals
<1>6. Dispatched
  BY <1>1, <1>4, <1>5 DEF Dispatched
<1>7. /\ behind' \in [Collections -> BOOLEAN]
      /\ \A c \in Cells : behind'[c] = IF c \in About(g) THEN requests[g].old ELSE behind[c]
  BY <1>1, CaughtFacts
<1>8. \A k \in Cells :
        IF k \in About(g)
        THEN Held(st, k) = Data(g, k) /\ behind'[k] = requests[g].old
        ELSE Held(st, k) = Held(store, k) /\ behind'[k] = behind[k]
  BY <1>1, <1>4, <1>7 DEF Held, Cells
<1>9. TypeOK' /\ Landed(g)
  BY <1>1, <1>4, <1>7, <1>8, LandFacts
<1>10. QED
  BY <1>6, <1>9

\* StateLoaded.
LEMMA StateFacts ==
  ASSUME TypeOK, StateLoaded
  PROVE  TypeOK' /\ Dispatched /\ Landed("state")
<1> DEFINE g == "state"
           snap == requests[g].data["server"]
           st == WithServer(store, snap)
<1>1. g \in Gets /\ Answered(g) /\ Dispatch(st) /\ Caught(g) /\ Lands(g) /\ About(g) = {"server"}
  BY GetNames, AboutIs DEF StateLoaded
<1>2. snap \in Worlds /\ IsStore(store)
  BY <1>1, AnswerIs DEF Values, TypeOK
<1> HIDE DEF snap
<1>3. IsStore(st) /\ Heals(store, st)
      /\ st.rules = store.rules /\ st.tokens = store.tokens /\ st.templates = store.templates
  BY <1>2, WithServerFacts
<1> HIDE DEF st
<1>4. Dispatched
  BY <1>1, <1>3 DEF Dispatched
<1>5. /\ behind' \in [Collections -> BOOLEAN]
      /\ \A c \in Cells : behind'[c] = IF c \in About(g) THEN requests[g].old ELSE behind[c]
  BY <1>1, CaughtFacts
<1>6. \A k \in Cells :
        IF k \in About(g)
        THEN Held(st, k) = Data(g, k) /\ behind'[k] = requests[g].old
        ELSE Held(st, k) = Held(store, k) /\ behind'[k] = behind[k]
  BY <1>1, <1>3, <1>5 DEF Held, Cells
<1>7. TypeOK' /\ Landed(g)
  BY <1>1, <1>3, <1>5, <1>6, LandFacts
<1>8. QED
  BY <1>4, <1>7

\* The landings that leave the accounts alone.
LEMMA CellsLand ==
  ASSUME TypeOK, NEW g \in Gets, Answered(g), Lands(g), NEW st, Dispatch(st), Caught(g) \/ About(g) = {"log"},
         behind' \in [Collections -> BOOLEAN],
         About(g) = {"log"} => \A k \in Cells : behind'[k] = behind[k],
         IsStore(st), st.server = store.server, st.scope = store.scope,
         \A k \in Cells : Held(st, k) = IF k \in About(g) THEN Data(g, k) ELSE Held(store, k)
  PROVE  TypeOK' /\ Dispatched /\ Landed(g)
<1>1. Heals(store, st)
  BY DEF Heals
<1>2. Dispatched
  BY <1>1 DEF Dispatched
<1>3. \A c \in Cells : behind'[c] = IF c \in About(g) THEN requests[g].old ELSE behind[c]
  <2>1. CASE Caught(g)
    BY <2>1, CaughtFacts
  <2>2. CASE About(g) = {"log"}
    BY <2>2 DEF Cells
  <2>3. QED
    BY <2>1, <2>2
<1>4. TypeOK' /\ Landed(g)
  BY <1>3, LandFacts
<1>5. QED
  BY <1>2, <1>4

\* WipeReloaded.
LEMMA ReloadFacts ==
  ASSUME TypeOK, WipeReloaded
  PROVE  TypeOK' /\ Dispatched /\ Landed("reload")
<1> DEFINE g == "reload"
           st == [store EXCEPT !.rules = Data(g, "rules"), !.tokens = Data(g, "tokens")]
<1>1. g \in Gets /\ Answered(g) /\ Dispatch(st) /\ Caught(g) /\ Lands(g) /\ About(g) = {"rules", "tokens"}
  BY GetNames, AboutIs DEF WipeReloaded
<1>2. Data(g, "rules") \in Loads(Seq(Rules)) /\ Data(g, "tokens") \in Loads(BOOLEAN)
  BY <1>1, AnswerIs DEF Values
<1>3. /\ IsStore(st) /\ st.server = store.server /\ st.scope = store.scope
      /\ st.rules = Data(g, "rules") /\ st.tokens = Data(g, "tokens") /\ st.templates = store.templates
  BY <1>2 DEF TypeOK, IsStore
<1> HIDE DEF st
<1>4. \A k \in Cells : Held(st, k) = IF k \in About(g) THEN Data(g, k) ELSE Held(store, k)
  BY <1>1, <1>3 DEF Held, Cells
<1>5. behind' \in [Collections -> BOOLEAN]
  BY <1>1, CaughtFacts
<1>6. About(g) # {"log"}
  BY <1>1
<1>7. QED
  BY <1>1, <1>3, <1>4, <1>5, <1>6, CellsLand

\* TokensLoaded.
LEMMA TokensFacts ==
  ASSUME TypeOK, TokensLoaded
  PROVE  TypeOK' /\ Dispatched /\ Landed("tokens")
<1> DEFINE g == "tokens"
           st == [store EXCEPT !.tokens = Data(g, "tokens")]
<1>1. g \in Gets /\ Answered(g) /\ Dispatch(st) /\ Caught(g) /\ Lands(g) /\ About(g) = {"tokens"}
  BY GetNames, AboutIs DEF TokensLoaded
<1>2. Data(g, "tokens") \in Loads(BOOLEAN)
  BY <1>1, AnswerIs DEF Values
<1>3. /\ IsStore(st) /\ st.server = store.server /\ st.scope = store.scope
      /\ st.rules = store.rules /\ st.tokens = Data(g, "tokens") /\ st.templates = store.templates
  BY <1>2 DEF TypeOK, IsStore
<1> HIDE DEF st
<1>4. \A k \in Cells : Held(st, k) = IF k \in About(g) THEN Data(g, k) ELSE Held(store, k)
  BY <1>1, <1>3 DEF Held, Cells
<1>5. behind' \in [Collections -> BOOLEAN]
  BY <1>1, CaughtFacts
<1>6. About(g) # {"log"}
  BY <1>1
<1>7. QED
  BY <1>1, <1>3, <1>4, <1>5, <1>6, CellsLand

\* TemplatesLoaded.
LEMMA TemplatesFacts ==
  ASSUME TypeOK, TemplatesLoaded
  PROVE  TypeOK' /\ Dispatched /\ Landed("templates")
<1> DEFINE g == "templates"
           st == [store EXCEPT !.templates = Data(g, "templates")]
<1>1. g \in Gets /\ Answered(g) /\ Dispatch(st) /\ Caught(g) /\ Lands(g) /\ About(g) = {"templates"}
  BY GetNames, AboutIs DEF TemplatesLoaded
<1>2. Data(g, "templates") \in Loads(Statuses)
  BY <1>1, AnswerIs DEF Values
<1>3. /\ IsStore(st) /\ st.server = store.server /\ st.scope = store.scope
      /\ st.rules = store.rules /\ st.tokens = store.tokens /\ st.templates = Data(g, "templates")
  BY <1>2 DEF TypeOK, IsStore
<1> HIDE DEF st
<1>4. \A k \in Cells : Held(st, k) = IF k \in About(g) THEN Data(g, k) ELSE Held(store, k)
  BY <1>1, <1>3 DEF Held, Cells
<1>5. behind' \in [Collections -> BOOLEAN]
  BY <1>1, CaughtFacts
<1>6. About(g) # {"log"}
  BY <1>1
<1>7. QED
  BY <1>1, <1>3, <1>4, <1>5, <1>6, CellsLand

\* A page of the delivery log lands.
LEMMA PageFacts ==
  ASSUME TypeOK, NEW g \in {"latest", "older"}, Answered(g), Lands(g),
         NEW page, NEW before, Dispatch([store EXCEPT !.log = page, !.before = before]),
         NEW late, late \in BOOLEAN, behind' = [behind EXCEPT !["log"] = late]
  PROVE  TypeOK' /\ Dispatched /\ Landed(g)
<1> DEFINE st == [store EXCEPT !.log = page, !.before = before]
<1>1. g \in Gets /\ About(g) = {"log"}
  BY GetNames, AboutIs
<1>2. /\ IsStore(st) /\ st.server = store.server /\ st.scope = store.scope
      /\ st.rules = store.rules /\ st.tokens = store.tokens /\ st.templates = store.templates
  BY DEF TypeOK, IsStore
<1> HIDE DEF st
<1>3. \A k \in Cells : Held(st, k) = IF k \in About(g) THEN Data(g, k) ELSE Held(store, k)
  BY <1>1, <1>2 DEF Held, Cells
<1>4. behind' \in [Collections -> BOOLEAN] /\ \A k \in Cells : behind'[k] = behind[k]
  BY DEF TypeOK, TabTypes, Cells, Collections
<1>5. Dispatch(st)
  BY DEF st
<1>6. QED
  BY <1>1, <1>2, <1>3, <1>4, <1>5, CellsLand

\* All the landings.
LEMMA LandSteps ==
  ASSUME TypeOK, AnswerLands
  PROVE  TypeOK' /\ Dispatched /\ \E g \in Gets : Landed(g)
<1>1. CASE BootstrapLoaded
  BY <1>1, BootstrapFacts, GetNames
<1>2. CASE StateLoaded
  BY <1>2, StateFacts, GetNames
<1>3. CASE WipeReloaded
  BY <1>3, ReloadFacts, GetNames
<1>4. CASE TokensLoaded
  BY <1>4, TokensFacts, GetNames
<1>5. CASE TemplatesLoaded
  BY <1>5, TemplatesFacts, GetNames
<1>6. CASE LatestLoaded
  <2> DEFINE g == "latest"
             page == requests[g].data["log"]
             late == requests[g].old \/ \E i \in DOMAIN frames :
                       frames[i].type = "delivery" /\ frames[i].at <= requests[g].at
  <2>1. /\ Answered(g) /\ Lands(g)
        /\ Dispatch([store EXCEPT !.log = Loaded(page), !.before = Before(page)])
        /\ behind' = [behind EXCEPT !["log"] = late]
    BY <1>6 DEF LatestLoaded
  <2>2. late \in BOOLEAN
    BY <2>1, AnswerIs, GetNames
  <2> HIDE DEF page, late
  <2>3. QED
    BY <2>1, <2>2, PageFacts, GetNames
<1>7. CASE OlderLoaded
  <2> DEFINE g == "older"
             page == requests[g].data["log"]
             known == IF store.log.loaded THEN store.log.data ELSE <<>>
             all == Loaded(known \o Unknown(page, known))
             late == behind["log"] \/ requests[g].old \/ ~store.log.loaded \/ store.before # requests[g].arg
  <2>1. /\ Answered(g) /\ Lands(g)
        /\ Dispatch([store EXCEPT !.log = all, !.before = Before(page)])
        /\ behind' = [behind EXCEPT !["log"] = late]
    BY <1>7 DEF OlderLoaded
  <2>2. late \in BOOLEAN
    <3>1. behind["log"] \in BOOLEAN /\ requests[g].old \in BOOLEAN
      BY <2>1, AnswerIs, GetNames DEF TypeOK, TabTypes, Collections
    <3>2. QED
      BY <3>1, Zenon
  <2> HIDE DEF page, late, all
  <2>3. QED
    BY <2>1, <2>2, PageFacts, GetNames
<1>8. QED
  BY <1>1, <1>2, <1>3, <1>4, <1>5, <1>6, <1>7 DEF AnswerLands

-----------------------------------------------------------------------------
(* The router, action by action *)

Paths == [view : Views, scope : Scopes]

\* pathFor() makes a path.
LEMMA PathForIs ==
  ASSUME NEW view \in Views, NEW scope \in Scopes
  PROVE  LET p == PathFor(view, scope) IN
         /\ p \in Paths
         /\ view \in {"webhooks", "settings"} => p.view = view
         /\ view \in {"chats", "templates"} /\ scope.account = 0 => p = Landing
         /\ view = "chats" /\ scope.account # 0 => p = [view |-> view, scope |-> scope]
         /\ view = "templates" /\ scope.account # 0 =>
              p = [view |-> view, scope |-> Scope(scope.account, 0)]
<1>1. Landing \in Paths /\ NoScope \in Scopes
  BY DEF Landing, Paths, Views, Scopes, NoScope
<1>2. CASE view \in {"webhooks", "settings"}
  BY <1>1, <1>2 DEF PathFor, Paths
<1>3. CASE view = "chats"
  BY <1>1, <1>3 DEF PathFor, Paths, Views
<1>4. CASE view = "templates"
  <2>1. Scope(scope.account, 0) \in Scopes
    BY DEF Scope, Scopes
  <2>2. QED
    BY <1>1, <1>4, <2>1 DEF PathFor, Paths, Views
<1>5. QED
  BY <1>2, <1>3, <1>4 DEF Views

\* A navigation: another path, and the page to be rendered.
Navigated ==
  /\ path' \in Paths /\ UNCHANGED <<store, last>>
  /\ gate'.dirty = TRUE /\ gate'.hops = 0
  /\ gate'.gone = gate.gone /\ gate'.announced = gate.announced /\ gate'.effect = gate.effect
  /\ gate'.returned = gate.returned

\* Go.
LEMMA GoFacts ==
  ASSUME TypeOK, NEW p \in Paths, Go(p)
  PROVE  TypeOK' /\ Navigated /\ CellsStill
<1> DEFINE same == p.view = path.view
<1>1. /\ RequestTypes /\ gate \in Gates /\ path' = p
      /\ requests' = IF same THEN requests
                     ELSE [requests EXCEPT !["latest"] = Idle, !["tokens"] = Idle, !["templates"] = Idle]
      /\ gate' = [gate EXCEPT !.dirty = TRUE, !.hops = 0,
                              !.asked = IF same THEN gate.asked ELSE 0,
                              !.mounted = IF same THEN gate.mounted ELSE "none"]
      /\ UNCHANGED <<serverVars, connected, frames, drops, store, echo, last, behind>>
  BY DEF Go, TypeOK, TabTypes
<1>2. /\ gate' \in Gates /\ gate'.dirty = TRUE /\ gate'.hops = 0
      /\ gate'.gone = gate.gone /\ gate'.announced = gate.announced /\ gate'.effect = gate.effect
      /\ gate'.returned = gate.returned /\ gate'.asked = IF same THEN gate.asked ELSE 0
  BY <1>1 DEF Gates
<1>3. Navigated
  BY <1>1, <1>2 DEF Navigated
<1>4. ASSUME NEW g \in Gets
      PROVE  /\ IsRequest(g, requests'[g])
             /\ requests'[g] = requests[g] \/ requests'[g].stage \in {"idle", "sent"}
             /\ g \in {"bootstrap", "reload"} => requests'[g] = requests[g]
             /\ ~same /\ g = "templates" => requests'[g].stage = "idle"
             /\ same => requests'[g] = requests[g]
  <2>1. requests'[g] = requests[g] \/ (requests'[g] = Idle /\ g \in {"latest", "tokens", "templates"})
    BY <1>1 DEF RequestTypes
  <2>2. ~same /\ g = "templates" => requests'[g] = Idle
    BY <1>1 DEF RequestTypes
  <2>3. same => requests'[g] = requests[g]
    BY <1>1
  <2>4. IsRequest(g, requests[g])
    BY <1>1 DEF RequestTypes
  <2>5. QED
    BY <2>1, <2>2, <2>3, <2>4, IdleOrSent
<1>5. requests' = [g \in Gets |-> requests'[g]]
  BY <1>1 DEF RequestTypes
<1>6. TypeOK'
  <2>1. RequestTypes'
    BY <1>4, <1>5 DEF RequestTypes
  <2>2. ServerTypes' /\ WireTypes' /\ IsStore(store)'
    BY <1>1 DEF TypeOK, ServerTypes, WireTypes, serverVars, IsEcho, IsStore
  <2>3. TabTypes'
    BY <1>1, <1>2 DEF TypeOK, TabTypes, Paths
  <2>4. QED
    BY <2>1, <2>2, <2>3 DEF TypeOK
<1>7. CellsStill
  <2>1. \/ gate'.asked = gate.asked /\ requests'["templates"] = requests["templates"]
        \/ gate'.asked = 0 /\ requests'["templates"].stage = "idle"
    BY <1>2, <1>4, GetNames
  <2>2. \A g \in {"bootstrap", "reload"} : requests'[g] = requests[g]
    BY <1>4, GetNames
  <2>3. QED
    BY <1>1, <1>4, <2>1, <2>2 DEF CellsStill, serverVars
<1>8. QED
  BY <1>3, <1>6, <1>7

\* A GET is sent that no scope hangs on.
LEMMA AskFacts ==
  ASSUME TypeOK, NEW g \in Gets \ {"templates"}, NEW a, requests' = [requests EXCEPT ![g] = Sent(a)],
         UNCHANGED <<serverVars, connected, frames, store, echo, path, last, behind>>,
         gate' \in Gates, gate'.asked = gate.asked
  PROVE  TypeOK' /\ CellsStill
<1>1. IsRequest(g, Sent(a)) /\ Sent(a).stage = "sent" /\ RequestTypes
  BY IdleOrSent DEF TypeOK
<1>2. RequestTypes' /\ requests'[g] = Sent(a) /\ \A h \in Gets : h # g => requests'[h] = requests[h]
  BY <1>1, RequestSet
<1>3. TypeOK'
  BY <1>2 DEF TypeOK, ServerTypes, WireTypes, TabTypes, serverVars, IsEcho, IsStore
<1>4. \A h \in Gets : \/ requests'[h] = requests[h]
                      \/ requests'[h].stage = "sent"
  BY <1>1, <1>2
<1>5. requests'["templates"] = requests["templates"]
  BY <1>2, GetNames
<1>6. \A h \in {"bootstrap", "reload"} :
        requests[h].stage # "idle" => requests'[h].stage # "idle" \/ behind'["rules"]
  BY <1>4, GetNames
<1>7. CellsStill
  BY <1>4, <1>5, <1>6 DEF CellsStill, serverVars
<1>8. QED
  BY <1>3, <1>7

\* All the visits.
LEMMA VisitSteps ==
  ASSUME TypeOK, Visits
  PROVE  TypeOK' /\ CellsStill /\ (Navigated \/ GateStill)
<1>1. /\ path \in Paths /\ store.scope \in Scopes /\ NoScope \in Scopes
      /\ store.server.loaded => store.server.data \in Worlds
  BY StoreFields, LoadsFacts DEF TypeOK, TabTypes, Paths, NoScope, Scopes
<1>2. ASSUME NEW view \in Views, OpenTab(view)
      PROVE  TypeOK' /\ CellsStill /\ Navigated
  BY <1>1, <1>2, PathForIs, GoFacts DEF OpenTab
<1>3. ASSUME GoHome
      PROVE  TypeOK' /\ CellsStill /\ Navigated
  <2>1. Landing \in Paths
    BY <1>1 DEF Landing, Paths, Views
  <2>2. QED
    BY <1>3, <2>1, GoFacts DEF GoHome
<1>4. ASSUME NEW a \in Accounts, PickWaba(a)
      PROVE  TypeOK' /\ CellsStill /\ Navigated
  <2>1. store.server.loaded /\ Go(PathFor(path.view, ResolveScope(store.server.data, Scope(a, 0))))
    BY <1>4 DEF PickWaba
  <2>2. Scope(a, 0) \in Scopes /\ path.view \in Views
    BY <1>1 DEF Scope, Scopes, Paths
  <2>3. ResolveScope(store.server.data, Scope(a, 0)) \in Scopes
    BY <1>1, <2>1, <2>2, ResolveInScopes
  <2>4. QED
    BY <2>1, <2>2, <2>3, PathForIs, GoFacts
<1>5. ASSUME NEW n \in Numbers, PickNumber(n)
      PROVE  TypeOK' /\ CellsStill /\ Navigated
  <2>1. Go(PathFor("chats", Scope(store.scope.account, n))) /\ "chats" \in Views
    BY <1>5 DEF PickNumber, Views
  <2>2. Scope(store.scope.account, n) \in Scopes
    BY <1>1 DEF Scope, Scopes
  <2>3. QED
    BY <2>1, <2>2, PathForIs, GoFacts
<1>6. ASSUME LoadOlder PROVE TypeOK' /\ CellsStill /\ GateStill
  <2>1. /\ requests' = [requests EXCEPT !["older"] = Sent(store.before)]
        /\ UNCHANGED <<serverVars, connected, frames, store, echo, path, last, behind, gate>>
    BY <1>6 DEF LoadOlder, tabVars
  <2>2. gate' \in Gates /\ gate'.asked = gate.asked /\ GateStill
    BY <2>1 DEF GateStill, TypeOK, TabTypes
  <2>3. QED
    BY <2>1, <2>2, AskFacts, GetNames
<1>7. ASSUME Verify PROVE TypeOK' /\ CellsStill /\ GateStill
  <2>1. /\ requests' = [requests EXCEPT !["state"] = Sent(0)]
        /\ UNCHANGED <<serverVars, connected, frames, store, echo, path, last, behind, gate>>
    BY <1>7 DEF Verify, tabVars
  <2>2. gate' \in Gates /\ gate'.asked = gate.asked /\ GateStill
    BY <2>1 DEF GateStill, TypeOK, TabTypes
  <2>3. QED
    BY <2>1, <2>2, AskFacts, GetNames
<1>8. QED
  BY <1>2, <1>3, <1>4, <1>5, <1>6, <1>7 DEF Visits, Views

\* A render forgets what had gone, and notes what of it is back.
ReturnedNow == gate.returned \/ gate.gone \cap Things(store.server.data) # {}
\* What rendering does to the gate's memory.
LEMMA RenderedFacts ==
  ASSUME NEW g \in Gates, g.returned = gate.returned, Rendered(g), TypeOK
  PROVE  /\ gate' \in Gates /\ gate'.gone = {} /\ gate'.returned = ReturnedNow
         /\ gate'.dirty = g.dirty /\ gate'.hops = g.hops /\ gate'.announced = g.announced
         /\ gate'.effect = g.effect /\ gate'.asked = g.asked
<1>1. gate.returned \in BOOLEAN
  BY DEF TypeOK, TabTypes, Gates
<1>2. ReturnedNow \in BOOLEAN
  BY <1>1, Zenon DEF ReturnedNow
<1>3. gate' = [g EXCEPT !.gone = {}, !.returned = ReturnedNow]
  BY DEF Rendered, ReturnedNow
<1>4. QED
  BY <1>2, <1>3 DEF Gates

CanRenderIs == store.server.loaded /\ gate.dirty /\ gate.effect = NoScope
Snap == store.server.data

\* After a render the page is at rest, or the URL is another and there is one more render.
Showed ==
  /\ CanRenderIs /\ store' = store /\ gate'.gone = {} /\ gate'.returned = ReturnedNow
ShowedGlobal ==
  /\ Showed /\ ~Scoped /\ UNCHANGED <<path, last>>
  /\ gate'.dirty = FALSE /\ gate'.hops = 0 /\ gate'.announced = NoScope /\ gate'.effect = NoScope
ShowedNothing ==
  /\ Showed /\ Scoped /\ path.scope.account = 0 /\ Snap = <<>> /\ UNCHANGED <<path, last>>
  /\ gate'.dirty = FALSE /\ gate'.hops = 0 /\ gate'.announced = NoScope /\ gate'.effect = NoScope
Redirected ==
  /\ Showed /\ Scoped /\ path.scope.account = 0 /\ Snap # <<>>
  /\ path' = PathFor(path.view, ResolveScope(Snap, last)) /\ last' = last
  /\ gate'.dirty = TRUE /\ gate'.hops = gate.hops + 1 /\ gate'.announced = NoScope /\ gate'.effect = NoScope
Repaired ==
  /\ Showed /\ Scoped /\ path.scope.account # 0 /\ ~Honest
  /\ path' = PathFor(path.view, Resolved) /\ last' = last
  /\ gate'.dirty = TRUE /\ gate'.hops = gate.hops + 1 /\ gate'.announced = NoScope /\ gate'.effect = NoScope
ShowedView ==
  /\ Showed /\ Scoped /\ path.scope.account # 0 /\ Honest /\ UNCHANGED <<path, last>>
  /\ gate'.dirty = FALSE /\ gate'.hops = 0 /\ gate'.announced = Resolved
  /\ gate'.effect = IF gate.announced = Resolved THEN NoScope ELSE Resolved
Announced ==
  /\ gate.effect # NoScope
  /\ store'.server = store.server /\ store'.scope = gate.effect
  /\ path' = path /\ last' = gate.effect
  /\ gate'.effect = NoScope /\ gate'.returned = FALSE /\ gate'.announced = gate.announced
  /\ gate'.hops = gate.hops /\ gate'.gone = gate.gone
  /\ gate'.dirty <=> gate.dirty \/ store.scope # gate.effect

\* The snapshot that is rendered.
LEMMA SnapIs ==
  ASSUME TypeOK, store.server.loaded
  PROVE  Snap \in Worlds
BY StoreFields, LoadsFacts DEF TypeOK, Snap

\* The types of the gate's parts.
LEMMA GateIs ==
  ASSUME TypeOK
  PROVE  /\ gate \in Gates /\ gate.hops \in Nat /\ gate.announced \in Scopes /\ gate.effect \in Scopes
         /\ gate.dirty \in BOOLEAN /\ gate.returned \in BOOLEAN /\ NoScope \in Scopes
         /\ path \in Paths /\ path.scope \in Scopes /\ path.view \in Views /\ last \in Scopes
         /\ gate.asked \in Accounts \cup {0}
BY DEF TypeOK, TabTypes, Gates, NoScope, Scopes, Paths

\* RenderGlobal.
LEMMA RenderGlobalFacts ==
  ASSUME TypeOK, RenderGlobal
  PROVE  TypeOK' /\ CellsStill /\ ShowedGlobal
<1> DEFINE g == [gate EXCEPT !.dirty = FALSE, !.hops = 0, !.announced = NoScope, !.mounted = path.view]
<1>1. /\ CanRenderIs /\ ~Scoped /\ Rendered(g) /\ gate \in Gates /\ RequestTypes
      /\ requests' = IF gate.mounted = path.view THEN requests
                     ELSE [requests EXCEPT ![IF path.view = "webhooks" THEN "latest" ELSE "tokens"] = Sent(0)]
      /\ UNCHANGED <<serverVars, connected, frames, drops, store, echo, tabVars, behind>>
  BY DEF RenderGlobal, CanRender, CanRenderIs, TypeOK, TabTypes
<1>2. /\ g \in Gates /\ g.dirty = FALSE /\ g.hops = 0 /\ g.announced = NoScope
      /\ g.effect = gate.effect /\ g.asked = gate.asked /\ g.returned = gate.returned
  BY <1>1, GateIs DEF Gates, Paths
<1> HIDE DEF g
<1>3. /\ gate' \in Gates /\ gate'.gone = {} /\ gate'.returned = ReturnedNow
      /\ gate'.dirty = FALSE /\ gate'.hops = 0 /\ gate'.announced = NoScope
      /\ gate'.effect = gate.effect /\ gate'.asked = gate.asked
  BY <1>1, <1>2, RenderedFacts
<1>4. ShowedGlobal
  BY <1>1, <1>3 DEF ShowedGlobal, Showed, CanRenderIs, tabVars
<1>5. UNCHANGED <<serverVars, connected, frames, store, echo, path, last, behind>>
  BY <1>1 DEF tabVars
<1>6. CASE gate.mounted = path.view
  <2>1. requests' = requests
    BY <1>1, <1>6
  <2>2. TypeOK'
    BY <1>1, <1>3, <1>5, <2>1
       DEF TypeOK, ServerTypes, WireTypes, RequestTypes, TabTypes, serverVars, IsEcho, IsStore
  <2>3. CellsStill
    BY <1>3, <1>5, <2>1 DEF CellsStill, serverVars
  <2>4. QED
    BY <1>4, <2>2, <2>3
<1>7. CASE gate.mounted # path.view
  <2> DEFINE h == IF path.view = "webhooks" THEN "latest" ELSE "tokens"
  <2>1. requests' = [requests EXCEPT ![h] = Sent(0)]
    BY <1>1, <1>7
  <2>2. h \in Gets \ {"templates"}
    BY GetNames
  <2> HIDE DEF h
  <2>3. TypeOK' /\ CellsStill
    BY <1>3, <1>5, <2>1, <2>2, AskFacts
  <2>4. QED
    BY <1>4, <2>3
<1>8. QED
  BY <1>6, <1>7

\* A render that changes no request, or takes back the one for the templates.
LEMMA RenderTypes ==
  ASSUME TypeOK, gate' \in Gates, path' \in Paths, IsStore(store'), last' \in Scopes,
         UNCHANGED <<serverVars, connected, frames, echo, behind>>,
         store'.rules = store.rules, store'.tokens = store.tokens, store'.templates = store.templates,
         \/ requests' = requests /\ gate'.asked = gate.asked
         \/ requests' = [requests EXCEPT !["templates"] = Idle] /\ gate'.asked = 0
         \/ /\ requests' = [requests EXCEPT !["templates"] = Sent(gate'.asked)]
            /\ gate'.asked # 0
  PROVE  TypeOK' /\ CellsStill
<1>1. "templates" \in Gets /\ RequestTypes /\ \A a : IsRequest("templates", Sent(a)) /\ Sent(a).stage = "sent"
  BY GetNames, IdleOrSent DEF TypeOK
<1>2. IsRequest("templates", Idle) /\ Idle.stage = "idle"
  BY IdleOrSent
<1>3. /\ RequestTypes'
      /\ \A g \in Gets : g # "templates" => requests'[g] = requests[g]
      /\ requests'["templates"] = requests["templates"] \/ requests'["templates"].stage \in {"idle", "sent"}
      /\ \/ gate'.asked = gate.asked /\ requests'["templates"] = requests["templates"]
         \/ gate'.asked = 0 /\ requests'["templates"].stage = "idle"
         \/ gate'.asked # 0 /\ requests'["templates"] = Sent(gate'.asked)
  <2>1. CASE requests' = requests /\ gate'.asked = gate.asked
    BY <1>1, <2>1 DEF RequestTypes
  <2>2. CASE requests' = [requests EXCEPT !["templates"] = Idle] /\ gate'.asked = 0
    <3>1. RequestTypes' /\ requests'["templates"] = Idle
          /\ \A g \in Gets : g # "templates" => requests'[g] = requests[g]
      BY <1>1, <1>2, <2>2, RequestSet
    <3>2. QED
      BY <1>2, <2>2, <3>1
  <2>3. CASE requests' = [requests EXCEPT !["templates"] = Sent(gate'.asked)] /\ gate'.asked # 0
    <3>1. PICK v : v = Sent(gate'.asked)
      OBVIOUS
    <3>2. IsRequest("templates", v) /\ v.stage = "sent" /\ requests' = [requests EXCEPT !["templates"] = v]
      BY <1>1, <2>3, <3>1
    <3>3. RequestTypes' /\ requests'["templates"] = v
          /\ \A g \in Gets : g # "templates" => requests'[g] = requests[g]
      BY <1>1, <3>2, RequestSet
    <3>4. QED
      BY <2>3, <3>1, <3>2, <3>3
  <2>4. QED
    BY <2>1, <2>2, <2>3
<1>4. TypeOK'
  <2>1. ServerTypes' /\ WireTypes'
    BY DEF TypeOK, ServerTypes, WireTypes, serverVars, IsEcho
  <2>2. TabTypes'
    BY DEF TypeOK, TabTypes, Paths
  <2>3. QED
    BY <1>3, <2>1, <2>2 DEF TypeOK
<1>5. CellsStill
  <2>1. \A g \in {"bootstrap", "reload"} : requests'[g] = requests[g]
    BY <1>3, GetNames
  <2>2. \A g \in Gets : requests'[g] = requests[g] \/ requests'[g].stage \in {"idle", "sent"}
    BY <1>3
  <2>3. QED
    BY <1>3, <2>1, <2>2 DEF CellsStill, serverVars
<1>6. QED
  BY <1>4, <1>5

\* One more render of another path.
LEMMA HopFacts ==
  ASSUME TypeOK, NEW asked \in Accounts \cup {0}
  PROVE  LET g == [gate EXCEPT !.hops = gate.hops + 1, !.announced = NoScope, !.asked = asked] IN
         /\ g \in Gates /\ g.dirty = gate.dirty /\ g.hops = gate.hops + 1 /\ g.announced = NoScope
         /\ g.effect = gate.effect /\ g.asked = asked /\ g.returned = gate.returned
<1> DEFINE n == gate.hops + 1
<1>1. n \in Nat /\ gate \in Gates /\ NoScope \in Scopes
  BY GateIs
<1> HIDE DEF n
<1> DEFINE g == [gate EXCEPT !.hops = n, !.announced = NoScope, !.asked = asked]
<1>2. /\ g \in Gates /\ g.dirty = gate.dirty /\ g.hops = n /\ g.announced = NoScope
      /\ g.effect = gate.effect /\ g.asked = asked /\ g.returned = gate.returned
  BY <1>1 DEF Gates
<1>3. QED
  BY <1>2 DEF n

\* Redirect.
LEMMA RedirectFacts ==
  ASSUME TypeOK, Redirect
  PROVE  TypeOK' /\ CellsStill /\ (ShowedNothing \/ Redirected)
<1> DEFINE still == [gate EXCEPT !.dirty = FALSE, !.hops = 0, !.announced = NoScope]
           moved == [gate EXCEPT !.hops = gate.hops + 1, !.announced = NoScope, !.asked = gate.asked]
           to == PathFor(path.view, ResolveScope(Snap, last))
<1>1. /\ CanRenderIs /\ Scoped /\ path.scope.account = 0
      /\ IF Snap = <<>> THEN Rendered(still) /\ UNCHANGED path ELSE Rendered(moved) /\ path' = to
      /\ UNCHANGED <<serverVars, connected, frames, drops, store, requests, echo, last, visits, behind>>
  <2>1. moved = [gate EXCEPT !.hops = gate.hops + 1, !.announced = NoScope]
    BY GateIs DEF Gates
  <2>2. QED
    BY <2>1 DEF Redirect, CanRender, CanRenderIs, Snap
<1>2. gate \in Gates /\ path \in Paths /\ path.view \in Views /\ last \in Scopes /\ NoScope \in Scopes
  BY GateIs
<1>3. CASE Snap = <<>>
  <2>1. /\ still \in Gates /\ still.dirty = FALSE /\ still.hops = 0 /\ still.announced = NoScope
        /\ still.effect = gate.effect /\ still.asked = gate.asked /\ still.returned = gate.returned
    BY <1>2 DEF Gates
  <2>2. Rendered(still) /\ path' = path
    BY <1>1, <1>3
  <2> HIDE DEF still
  <2>3. /\ gate' \in Gates /\ gate'.gone = {} /\ gate'.returned = ReturnedNow
        /\ gate'.dirty = FALSE /\ gate'.hops = 0 /\ gate'.announced = NoScope
        /\ gate'.effect = gate.effect /\ gate'.asked = gate.asked
    BY <2>1, <2>2, RenderedFacts
  <2>4. ShowedNothing
    BY <1>1, <1>3, <2>2, <2>3 DEF ShowedNothing, Showed, CanRenderIs
  <2>5. IsStore(store') /\ store' = store
    BY <1>1 DEF TypeOK
  <2>6. TypeOK' /\ CellsStill
    BY <1>1, <1>2, <2>2, <2>3, <2>5, RenderTypes
  <2>7. QED
    BY <2>4, <2>6
<1>4. CASE Snap # <<>>
  <2>1. /\ moved \in Gates /\ moved.dirty = gate.dirty /\ moved.hops = gate.hops + 1
        /\ moved.announced = NoScope /\ moved.effect = gate.effect /\ moved.asked = gate.asked
        /\ moved.returned = gate.returned
    BY HopFacts, GateIs
  <2>2. Rendered(moved) /\ path' = to
    BY <1>1, <1>4
  <2>3. to \in Paths
    <3>1. Snap \in Worlds
      BY <1>1, SnapIs DEF CanRenderIs
    <3>2. ResolveScope(Snap, last) \in Scopes
      BY <1>2, <3>1, ResolveInScopes
    <3>3. QED
      BY <1>2, <3>2, PathForIs
  <2> HIDE DEF moved
  <2>4. /\ gate' \in Gates /\ gate'.gone = {} /\ gate'.returned = ReturnedNow
        /\ gate'.dirty = gate.dirty /\ gate'.hops = gate.hops + 1 /\ gate'.announced = NoScope
        /\ gate'.effect = gate.effect /\ gate'.asked = gate.asked
    BY <2>1, <2>2, RenderedFacts
  <2>5. Redirected
    BY <1>1, <1>4, <2>2, <2>4 DEF Redirected, Showed, CanRenderIs
  <2>6. IsStore(store') /\ store' = store
    BY <1>1 DEF TypeOK
  <2> HIDE DEF to
  <2>7. TypeOK' /\ CellsStill
    BY <1>1, <1>2, <2>2, <2>3, <2>4, <2>6, RenderTypes
  <2>8. QED
    BY <2>5, <2>7
<1>5. QED
  BY <1>3, <1>4

\* Repair.
LEMMA RepairFacts ==
  ASSUME TypeOK, Repair
  PROVE  TypeOK' /\ CellsStill /\ Repaired
<1> DEFINE g == [gate EXCEPT !.hops = gate.hops + 1, !.announced = NoScope, !.asked = 0]
<1>1. /\ CanRenderIs /\ Scoped /\ path.scope.account # 0 /\ ~Honest
      /\ path' = PathFor(path.view, Resolved) /\ Rendered(g)
      /\ requests' = [requests EXCEPT !["templates"] = Idle]
      /\ UNCHANGED <<serverVars, connected, frames, drops, store, echo, last, visits, behind>>
  BY DEF Repair, CanRender, CanRenderIs
<1>2. gate \in Gates /\ path \in Paths /\ path.view \in Views /\ path.scope \in Scopes /\ last \in Scopes
      /\ NoScope \in Scopes
  BY GateIs
<1>3. /\ g \in Gates /\ g.dirty = gate.dirty /\ g.hops = gate.hops + 1 /\ g.announced = NoScope
      /\ g.effect = gate.effect /\ g.asked = 0 /\ g.returned = gate.returned
  BY HopFacts
<1> HIDE DEF g
<1>4. /\ gate' \in Gates /\ gate'.gone = {} /\ gate'.returned = ReturnedNow
      /\ gate'.dirty = gate.dirty /\ gate'.hops = gate.hops + 1 /\ gate'.announced = NoScope
      /\ gate'.effect = gate.effect /\ gate'.asked = 0
  BY <1>1, <1>3, RenderedFacts
<1>5. path' \in Paths
  <2>1. Resolved \in Scopes
    BY <1>1, <1>2, SnapIs, ResolveInScopes DEF CanRenderIs, Snap, Resolved
  <2>2. QED
    BY <1>1, <1>2, <2>1, PathForIs
<1>6. Repaired
  BY <1>1, <1>4 DEF Repaired, Showed, CanRenderIs
<1>7. IsStore(store') /\ store' = store
  BY <1>1 DEF TypeOK
<1>8. TypeOK' /\ CellsStill
  BY <1>1, <1>2, <1>4, <1>5, <1>7, RenderTypes
<1>9. QED
  BY <1>6, <1>8

\* RenderView.
LEMMA RenderViewFacts ==
  ASSUME TypeOK, RenderView
  PROVE  TypeOK' /\ CellsStill /\ ShowedView
<1> DEFINE asks == path.view = "templates" /\ store.scope = Resolved /\ gate.asked # Resolved.account
           asked == IF asks THEN Resolved.account ELSE gate.asked
           effect == IF gate.announced = Resolved THEN NoScope ELSE Resolved
           g == [gate EXCEPT !.dirty = FALSE, !.hops = 0, !.announced = Resolved,
                             !.effect = effect, !.asked = asked]
<1>1. /\ CanRenderIs /\ Scoped /\ path.scope.account # 0 /\ Honest
      /\ Rendered(g)
      /\ requests' = IF asks THEN [requests EXCEPT !["templates"] = Sent(Resolved.account)] ELSE requests
      /\ UNCHANGED <<serverVars, connected, frames, drops, store, echo, tabVars, behind>>
  BY DEF RenderView, CanRender, CanRenderIs
<1>2. gate \in Gates /\ path \in Paths /\ path.view \in Views /\ path.scope \in Scopes /\ last \in Scopes
      /\ NoScope \in Scopes /\ gate.asked \in Accounts \cup {0}
  BY GateIs
<1>3. Resolved \in Scopes /\ Resolved.account \in Accounts \cup {0} /\ Resolved.account # 0
  <2>1. Resolved \in Scopes
    BY <1>1, <1>2, SnapIs, ResolveInScopes DEF CanRenderIs, Snap, Resolved
  <2>2. QED
    BY <1>1, <2>1 DEF Honest, Scopes
<1>4. asked \in Accounts \cup {0} /\ effect \in Scopes
  BY <1>2, <1>3
<1>5. effect = IF gate.announced = Resolved THEN NoScope ELSE Resolved
  OBVIOUS
<1>6. /\ asks => asked = Resolved.account /\ asked # 0
                 /\ requests' = [requests EXCEPT !["templates"] = Sent(asked)]
      /\ ~asks => asked = gate.asked /\ requests' = requests
  BY <1>1, <1>3
<1> HIDE DEF asks, asked, effect
<1>7. /\ g \in Gates /\ g.dirty = FALSE /\ g.hops = 0 /\ g.announced = Resolved
      /\ g.effect = effect /\ g.asked = asked /\ g.returned = gate.returned
  BY <1>2, <1>3, <1>4 DEF Gates
<1> HIDE DEF g
<1>8. /\ gate' \in Gates /\ gate'.gone = {} /\ gate'.returned = ReturnedNow
      /\ gate'.dirty = FALSE /\ gate'.hops = 0 /\ gate'.announced = Resolved
      /\ gate'.effect = effect /\ gate'.asked = asked
  BY <1>1, <1>7, RenderedFacts
<1>9. ShowedView
  BY <1>1, <1>5, <1>8 DEF ShowedView, Showed, CanRenderIs, tabVars
<1>10. IsStore(store') /\ store' = store /\ path' = path /\ last' = last
  BY <1>1 DEF TypeOK, tabVars
<1>11. \/ requests' = requests /\ gate'.asked = gate.asked
       \/ /\ requests' = [requests EXCEPT !["templates"] = Sent(gate'.asked)]
          /\ gate'.asked # 0
  BY <1>6, <1>8
<1>12. TypeOK' /\ CellsStill
  BY <1>1, <1>2, <1>8, <1>10, <1>11, RenderTypes
<1>13. QED
  BY <1>9, <1>12

\* Announce.
LEMMA AnnounceFacts ==
  ASSUME TypeOK, Announce
  PROVE  TypeOK' /\ CellsStill /\ Announced
<1>1. /\ gate.effect # NoScope /\ store' = [store EXCEPT !.scope = gate.effect] /\ last' = gate.effect
      /\ gate' = [gate EXCEPT !.effect = NoScope, !.returned = FALSE,
                              !.dirty = gate.dirty \/ store.scope # gate.effect]
      /\ UNCHANGED <<serverVars, connected, frames, drops, requests, echo, path, visits, behind>>
  BY DEF Announce
<1>2. gate \in Gates /\ gate.effect \in Scopes /\ path \in Paths /\ NoScope \in Scopes
      /\ gate.dirty \in BOOLEAN
  BY GateIs
<1> DEFINE dirty == gate.dirty \/ store.scope # gate.effect
<1>3. dirty \in BOOLEAN
  BY <1>2, Zenon
<1>4. gate' = [gate EXCEPT !.effect = NoScope, !.returned = FALSE, !.dirty = dirty]
  BY <1>1
<1>5. dirty <=> gate.dirty \/ store.scope # gate.effect
  OBVIOUS
<1> HIDE DEF dirty
<1>6. /\ gate' \in Gates /\ gate'.dirty = dirty /\ gate'.effect = NoScope /\ gate'.returned = FALSE
      /\ gate'.hops = gate.hops /\ gate'.announced = gate.announced /\ gate'.gone = gate.gone
      /\ gate'.asked = gate.asked
  BY <1>2, <1>3, <1>4 DEF Gates
<1>7. /\ IsStore(store') /\ store'.server = store.server /\ store'.scope = gate.effect
      /\ store'.rules = store.rules /\ store'.tokens = store.tokens /\ store'.templates = store.templates
  BY <1>1, <1>2 DEF TypeOK, IsStore
<1>8. Announced
  BY <1>1, <1>5, <1>6, <1>7 DEF Announced
<1>9. TypeOK' /\ CellsStill
  BY <1>1, <1>2, <1>6, <1>7, RenderTypes
<1>10. QED
  BY <1>8, <1>9

-----------------------------------------------------------------------------
(* What resolveScope() finds *)

\* The scope that resolveScope() finds is there, and it is found again.
Token(sc) == IF sc.number = 0 THEN <<"bare", sc.account>> ELSE <<"number", sc.number>>

\* Ids are not null.
LEMMA NobodyOwnsNull ==
  ASSUME NEW snap \in Worlds
  PROVE  /\ Owners(snap, 0) = {}
         /\ \A i \in DOMAIN snap : ~Known(snap[i].numbers, 0)
<1>1. ASSUME NEW i \in DOMAIN snap, NEW k \in DOMAIN snap[i].numbers PROVE snap[i].numbers[k].id # 0
  <2>1. snap[i].numbers[k] \in Phones
    BY WorldFacts
  <2>2. QED
    BY <2>1, ConsoleAssumption DEF Phones
<1>2. QED
  BY <1>1 DEF Owners, Known, Ids

\* A number that somebody has leads to its first owner.
LEMMA OwnedResolves ==
  ASSUME NEW snap \in Worlds, NEW w, Owners(snap, w.number) # {}
  PROVE  ResolveScope(snap, w) = Scope(snap[Least(Owners(snap, w.number))].id, w.number)
<1>1. snap # <<>>
  BY DEF Owners
<1>2. PICK i \in DOMAIN snap : Picked(snap, w, i)
  BY <1>1, ResolvePicks
<1>3. /\ i = Least(Owners(snap, w.number)) /\ Known(snap[i].numbers, w.number)
      /\ ResolveScope(snap, w) =
           Scope(snap[i].id, IF snap[i].numbers = <<>> THEN 0
                             ELSE IF Known(snap[i].numbers, w.number) THEN w.number
                             ELSE snap[i].numbers[1].id)
  BY <1>2 DEF Picked, Owners
<1>4. snap[i].numbers # <<>>
  BY <1>3 DEF Known, Ids
<1>5. QED
  BY <1>3, <1>4

\* An account without a number leads to itself.
LEMMA BareResolves ==
  ASSUME NEW snap \in Worlds, NEW a, Known(snap, a), snap[At(snap, a)].numbers = <<>>
  PROVE  ResolveScope(snap, Scope(a, 0)) = Scope(a, 0)
<1> DEFINE w == Scope(a, 0)
<1>1. snap # <<>> /\ w.account = a /\ w.number = 0
  BY DEF Known, Ids, Scope
<1> HIDE DEF w
<1>2. PICK i \in DOMAIN snap : Picked(snap, w, i)
  BY <1>1, ResolvePicks
<1>3. i = At(snap, a) /\ ResolveScope(snap, w) = Scope(snap[i].id, 0)
  BY <1>1, <1>2, NobodyOwnsNull DEF Picked
<1>4. snap[At(snap, a)].id = a
  BY KnownAt
<1>5. QED
  BY <1>3, <1>4 DEF w

\* An account that is there stays the account.
LEMMA AccountStays ==
  ASSUME NEW snap \in Worlds, NEW a, Known(snap, a)
  PROVE  ResolveScope(snap, Scope(a, 0)).account = a
<1> DEFINE w == Scope(a, 0)
<1>1. snap # <<>> /\ w.account = a /\ w.number = 0
  BY DEF Known, Ids, Scope
<1> HIDE DEF w
<1>2. PICK i \in DOMAIN snap : Picked(snap, w, i)
  BY <1>1, ResolvePicks
<1>3. i = At(snap, a) /\ ResolveScope(snap, w).account = snap[i].id
  BY <1>1, <1>2, NobodyOwnsNull DEF Picked, Scope
<1>4. QED
  BY <1>3, KnownAt DEF w

\* What resolveScope() finds without a number has none, whichever account of that id is meant.
LEMMA FoundBare ==
  ASSUME NEW snap \in Worlds, snap # <<>>, NEW w \in Scopes, ResolveScope(snap, w).number = 0
  PROVE  LET a == ResolveScope(snap, w).account IN
         Known(snap, a) /\ snap[At(snap, a)].numbers = <<>>
<1> DEFINE a == ResolveScope(snap, w).account
<1>1. PICK i \in DOMAIN snap : Picked(snap, w, i)
  BY ResolvePicks
<1>2. a = snap[i].id /\ snap[i].numbers = <<>> /\ Known(snap, a)
  BY <1>1, PickedScope
<1> HIDE DEF a
<1>3. Owners(snap, w.number) = {}
  BY <1>1, <1>2 DEF Picked, Owners, Known, Ids
<1>4. At(snap, a) \in DOMAIN snap
  BY <1>2, KnownAt
<1>5. CASE Known(snap, w.account)
  <2>1. i = At(snap, w.account) /\ snap[i].id = w.account
    BY <1>1, <1>3, <1>5, KnownAt DEF Picked
  <2>2. QED
    BY <1>2, <2>1 DEF a
<1>6. CASE ~Known(snap, w.account)
  BY <1>1, <1>2, <1>3, <1>4, <1>6 DEF Picked, a
<1>7. QED
  BY <1>5, <1>6

\* What resolveScope() finds is in the snapshot.
LEMMA FoundIsThere ==
  ASSUME NEW snap \in Worlds, snap # <<>>, NEW w \in Scopes
  PROVE  Token(ResolveScope(snap, w)) \in Things(snap)
<1> DEFINE r == ResolveScope(snap, w)
<1>1. CASE r.number = 0
  <2>1. Known(snap, r.account) /\ snap[At(snap, r.account)].numbers = <<>>
    BY <1>1, FoundBare
  <2> HIDE DEF r
  <2>2. <<"bare", r.account>> \in {<<"bare", a>> : a \in {b \in Ids(snap) : snap[At(snap, b)].numbers = <<>>}}
    BY <2>1 DEF Known
  <2>3. QED
    BY <1>1, <2>2 DEF Token, Things, r
<1>2. CASE r.number # 0
  <2>1. PICK i \in DOMAIN snap : Picked(snap, w, i)
    BY ResolvePicks
  <2>2. Known(snap[i].numbers, r.number)
    BY <1>2, <2>1, PickedScope
  <2> HIDE DEF r
  <2>3. <<"number", r.number>> \in {<<"number", n>> : n \in Ids(snap[i].numbers)}
    BY <2>2 DEF Known
  <2>4. QED
    BY <1>2, <2>1, <2>3 DEF Token, Things, r
<1>3. QED
  BY <1>1, <1>2

\* A number in a snapshot has an owner, an account named bare is bare.
LEMMA ThingsAre ==
  ASSUME NEW snap \in Worlds, NEW sc \in Scopes, Token(sc) \in Things(snap)
  PROVE  /\ sc.number # 0 => Owners(snap, sc.number) # {}
         /\ sc.number = 0 => Known(snap, sc.account) /\ snap[At(snap, sc.account)].numbers = <<>>
<1>1. CASE sc.number # 0
  <2>1. Token(sc) = <<"number", sc.number>>
    BY <1>1 DEF Token
  <2>2. PICK i \in DOMAIN snap : \E n \in Ids(snap[i].numbers) : <<"number", sc.number>> = <<"number", n>>
    BY <2>1 DEF Things
  <2>3. i \in Owners(snap, sc.number)
    BY <2>2 DEF Owners, Known
  <2>4. QED
    BY <1>1, <2>3
<1>2. CASE sc.number = 0
  <2>1. Token(sc) = <<"bare", sc.account>>
    BY <1>2 DEF Token
  <2>2. \E a \in Ids(snap) : snap[At(snap, a)].numbers = <<>> /\ <<"bare", sc.account>> = <<"bare", a>>
    BY <2>1 DEF Things
  <2>3. QED
    BY <1>2, <2>2 DEF Known
<1>3. QED
  BY <1>1, <1>2

\* The parts of a scope.
LEMMA ScopeIs ==
  ASSUME NEW sc \in Scopes
  PROVE  sc = Scope(sc.account, sc.number)
BY DEF Scopes, Scope

\* What was found once is found again; the second answer is the last.
LEMMA FoundAgain ==
  ASSUME NEW snap \in Worlds, snap # <<>>, NEW w \in Scopes
  PROVE  LET r == ResolveScope(snap, w)
             r2 == ResolveScope(snap, r)
         IN  /\ r \in Scopes /\ r2 \in Scopes /\ ResolveScope(snap, r2) = r2
             /\ (\A n \in Numbers : \A i, j \in Owners(snap, n) : i = j) => r2 = r
<1> DEFINE r == ResolveScope(snap, w)
           r2 == ResolveScope(snap, r)
<1>1. r \in Scopes /\ r2 \in Scopes
  BY ResolveInScopes
<1>2. CASE r.number = 0
  <2>1. Known(snap, r.account) /\ snap[At(snap, r.account)].numbers = <<>>
    BY <1>2, FoundBare
  <2>2. r = Scope(r.account, 0)
    BY <1>1, <1>2, ScopeIs
  <2>3. r2 = r
    BY <2>1, <2>2, BareResolves
  <2>4. QED
    BY <1>1, <2>3
<1>3. CASE r.number # 0
  <2>1. PICK i \in DOMAIN snap : Picked(snap, w, i)
    BY ResolvePicks
  <2>2. r.account = snap[i].id /\ Known(snap[i].numbers, r.number) /\ r.number \in Numbers
    BY <1>3, <2>1, PickedScope
  <2> HIDE DEF r
  <2>3. i \in Owners(snap, r.number)
    BY <2>1, <2>2 DEF Owners
  <2>4. r2 = Scope(snap[Least(Owners(snap, r.number))].id, r.number) /\ r2.number = r.number
    BY <2>3, OwnedResolves DEF Scope
  <2> HIDE DEF r2
  <2>5. ResolveScope(snap, r2) = r2
    BY <2>3, <2>4, OwnedResolves
  <2>6. ASSUME \A n \in Numbers : \A j, k \in Owners(snap, n) : j = k
        PROVE  r2 = r
    <3>1. Owners(snap, r.number) \subseteq Nat
      BY WorldFacts DEF Owners
    <3>2. Least(Owners(snap, r.number)) \in Owners(snap, r.number)
      BY <2>3, <3>1, LeastIsIn
    <3>3. Least(Owners(snap, r.number)) = i
      BY <2>2, <2>3, <2>6, <3>2
    <3>4. QED
      BY <1>1, <2>2, <2>4, <3>3, ScopeIs
  <2>7. QED
    BY <1>1, <2>5, <2>6 DEF r, r2
<1>4. QED
  BY <1>2, <1>3

\* What was announced and has stayed is what the healed scope comes back to.
LEMMA HealedScope ==
  ASSUME NEW snap \in Worlds, NEW snap2 \in Worlds, NEW sc \in Scopes,
         Token(sc) \in Things(snap), Token(sc) \in Things(snap2)
  PROVE  ResolveScope(snap2, ResolveScope(snap, sc)) = ResolveScope(snap2, sc)
<1>1. CASE sc.number = 0
  <2>1. sc = Scope(sc.account, 0)
    BY <1>1, ScopeIs
  <2>2. ResolveScope(snap, sc) = sc
    BY <1>1, <2>1, ThingsAre, BareResolves
  <2>3. QED
    BY <2>2
<1>2. CASE sc.number # 0
  <2>1. Owners(snap, sc.number) # {} /\ Owners(snap2, sc.number) # {}
    BY <1>2, ThingsAre
  <2> DEFINE r == ResolveScope(snap, sc)
  <2>2. r.number = sc.number
    BY <2>1, OwnedResolves DEF Scope
  <2> HIDE DEF r
  <2>3. ResolveScope(snap2, r) = ResolveScope(snap2, sc)
    BY <2>1, <2>2, OwnedResolves
  <2>4. QED
    BY <2>3 DEF r
<1>3. QED
  BY <1>1, <1>2

-----------------------------------------------------------------------------
(* All the steps keep the types *)

\* Rules that are read or held have different ids.
AnswersDistinct ==
  \A g \in Gets : requests[g].stage = "answered" /\ "rules" \in About(g) =>
    Distinct(requests[g].data["rules"])
Types == TypeOK /\ RuleIds /\ RulesDistinct(store) /\ AnswersDistinct

\* The steps, by what they do to the page.
LEMMA PageSteps ==
  ASSUME Types, Next
  PROVE  \/ GateStill \/ Dispatched \/ Navigated
         \/ ShowedGlobal \/ ShowedNothing \/ Redirected \/ Repaired \/ ShowedView \/ Announced
<1>1. CASE ServerChanges
  <2>1. ASSUME NEW fs, NEW mine \in BOOLEAN, ServerMoves(fs, mine) PROVE GateStill
    <3>1. Published(fs, mine)
      BY <2>1, PublishFacts DEF Types
    <3>2. QED
      BY <3>1 DEF Published, GateStill
  <2>2. QED
    BY <1>1, <2>1, ServerSteps, ImportFacts, FailFacts DEF Types, TypeOK
<1>2. ASSUME NEW g \in Gets, Answer(g) \/ Lose(g) PROVE GateStill
  BY <1>2, AnswerFacts, LoseFacts DEF Types
<1>3. CASE Connect
  BY <1>3, ConnectFacts DEF Types
<1>4. CASE Drop
  BY <1>4, DropFacts DEF Types
<1>5. CASE Receive
  <2> DEFINE f == Head(frames)
  <2>1. Dispatch(Apply(store, f)) /\ Applied(store, Apply(store, f), f)
    BY <1>5, ReceiveFacts DEF Types
  <2>2. QED
    BY <2>1 DEF Applied, Dispatched
<1>6. ASSUME NEW go \in BOOLEAN, ReceiveEcho(go) PROVE Dispatched
  <2> DEFINE f == echo.frame
  <2>1. Dispatch(Apply(store, f)) /\ Applied(store, Apply(store, f), f)
    BY <1>6, ReceiveEchoFacts DEF Types
  <2>2. QED
    BY <2>1 DEF Applied, Dispatched
<1>7. CASE AnswerLands
  BY <1>7, LandSteps DEF Types
<1>8. CASE Visits
  BY <1>8, VisitSteps DEF Types
<1>9. CASE Renders
  BY <1>9, RenderGlobalFacts, RedirectFacts, RepairFacts, RenderViewFacts, AnnounceFacts DEF Types, Renders
<1>10. QED
  BY <1>1, <1>2, <1>3, <1>4, <1>5, <1>6, <1>7, <1>8, <1>9 DEF Next

\* The steps, by what they do to the cells.
LEMMA CellSteps ==
  ASSUME Types, Next
  PROVE  TypeOK' /\ \/ \E fs : \E mine \in BOOLEAN : ServerMoves(fs, mine)
                    \/ Import
                    \/ \E g \in Gets : Answer(g)
                    \/ CellsStill
                    \/ Drop
                    \/ Receive
                    \/ \E go \in BOOLEAN : ReceiveEcho(go)
                    \/ \E g \in Gets : Landed(g) /\ gate'.asked = gate.asked
<1>1. CASE ServerChanges
  <2>1. ASSUME NEW fs, NEW mine \in BOOLEAN, ServerMoves(fs, mine) PROVE TypeOK'
    BY <2>1, PublishFacts DEF Types
  <2>2. QED
    BY <1>1, <2>1, ServerSteps, ImportFacts, FailFacts DEF Types, TypeOK
<1>2. ASSUME NEW g \in Gets, Answer(g) PROVE TypeOK'
  BY <1>2, AnswerFacts DEF Types
<1>3. ASSUME NEW g \in Gets, Lose(g) PROVE TypeOK' /\ CellsStill
  BY <1>3, LoseFacts DEF Types
<1>4. CASE Connect
  BY <1>4, ConnectFacts DEF Types
<1>5. CASE Drop
  BY <1>5, DropFacts DEF Types
<1>6. CASE Receive
  BY <1>6, ReceiveFacts DEF Types
<1>7. ASSUME NEW go \in BOOLEAN, ReceiveEcho(go) PROVE TypeOK'
  BY <1>7, ReceiveEchoFacts DEF Types
<1>8. CASE AnswerLands
  <2>1. TypeOK' /\ Dispatched /\ \E g \in Gets : Landed(g)
    BY <1>8, LandSteps DEF Types
  <2>2. gate'.asked = gate.asked
    BY <2>1, DispatchFacts DEF Dispatched, Types
  <2>3. QED
    BY <2>1, <2>2
<1>9. CASE Visits
  BY <1>9, VisitSteps DEF Types
<1>10. CASE Renders
  BY <1>10, RenderGlobalFacts, RedirectFacts, RepairFacts, RenderViewFacts, AnnounceFacts DEF Types, Renders
<1>11. QED
  BY <1>1, <1>2, <1>3, <1>4, <1>5, <1>6, <1>7, <1>8, <1>9, <1>10 DEF Next

\* An answer that was passed by brings what it brought.
LEMMA OlderAnswers ==
  ASSUME NEW r, NEW r2, Older(r, r2), r2.stage = "answered"
  PROVE  r.stage = "answered" /\ r2.data = r.data /\ r2.arg = r.arg /\ r2.at = r.at
         /\ (~r2.old => ~r.old /\ r2 = r)
BY DEF Older

\* And is at the stage it was at.
LEMMA OlderStages ==
  ASSUME NEW r, NEW r2, Older(r, r2)
  PROVE  r2.stage = r.stage
BY DEF Older

\* The steps keep the types, and the ids of rules distinct.
LEMMA TypesStep ==
  ASSUME Types, Next
  PROVE  Types'
<1> USE DEF Types
<1>1. TypeOK'
  BY CellSteps
<1>2. ASSUME \A g \in Gets : Older(requests[g], requests'[g]) \/ requests'[g].stage \in {"idle", "sent"}
      PROVE  AnswersDistinct'
  <2>1. SUFFICES ASSUME NEW g \in Gets, requests'[g].stage = "answered", "rules" \in About(g)
                 PROVE  Distinct(requests'[g].data["rules"])
    BY DEF AnswersDistinct
  <2>2. Older(requests[g], requests'[g])
    BY <1>2, <2>1
  <2>3. requests[g].stage = "answered" /\ requests'[g].data = requests[g].data
    BY <2>1, <2>2, OlderAnswers
  <2>4. QED
    BY <2>1, <2>3 DEF AnswersDistinct
<1>3. ASSUME NEW fs, NEW mine \in BOOLEAN, ServerMoves(fs, mine)
      PROVE  Types'
  <2>1. Published(fs, mine) /\ RuleIds'
    BY <1>3, PublishFacts DEF ServerMoves
  <2>2. RulesDistinct(store)'
    BY <2>1 DEF Published, RulesDistinct
  <2>3. \A g \in Gets : Older(requests[g], requests'[g])
    BY <2>1 DEF Published
  <2>4. QED
    BY <1>1, <1>2, <2>1, <2>2, <2>3
<1>4. ASSUME NEW g \in Gets, Answer(g)
      PROVE  Types'
  <2>1. /\ \A c \in About(g) : requests'[g].data[c] = Read(c, requests[g].arg)
        /\ \A h \in Gets : h # g => requests'[h] = requests[h]
        /\ UNCHANGED <<serverVars, store>>
    BY <1>4, AnswerFacts
  <2>2. RuleIds' /\ RulesDistinct(store)'
    BY <2>1 DEF RuleIds, RulesDistinct, serverVars
  <2>3. "rules" \in About(g) => Distinct(requests'[g].data["rules"])
    BY <2>1 DEF Read, RuleIds
  <2>4. AnswersDistinct'
    BY <2>1, <2>3 DEF AnswersDistinct
  <2>5. QED
    BY <1>1, <2>2, <2>4
<1>5. CASE CellsStill
  <2>1. RuleIds' /\ RulesDistinct(store)'
    BY <1>5 DEF CellsStill, RuleIds, RulesDistinct
  <2>2. \A g \in Gets : Older(requests[g], requests'[g]) \/ requests'[g].stage \in {"idle", "sent"}
    BY <1>5 DEF CellsStill, Older
  <2>3. QED
    BY <1>1, <1>2, <2>1, <2>2
<1>6. CASE Drop
  <2>1. UNCHANGED <<serverVars, store>> /\ \A g \in Gets : Older(requests[g], requests'[g])
    BY <1>6, DropFacts
  <2>2. RuleIds' /\ RulesDistinct(store)'
    BY <2>1 DEF RuleIds, RulesDistinct, serverVars
  <2>3. QED
    BY <1>1, <1>2, <2>1, <2>2
<1>7. CASE Receive
  <2> DEFINE f == Head(frames)
             st == Apply(store, f)
  <2>1. /\ Dispatch(st) /\ Applied(store, st, f) /\ UNCHANGED serverVars
        /\ \A g \in Gets : Older(requests[g], requests'[g]) \/ requests'[g] = Sent(0)
    BY <1>7, ReceiveFacts
  <2> HIDE DEF st
  <2>2. store' = st /\ RulesDistinct(st)
    BY <2>1 DEF Dispatch, Applied
  <2>3. RuleIds' /\ RulesDistinct(store)'
    BY <2>1, <2>2 DEF RuleIds, RulesDistinct, serverVars
  <2>4. Sent(0).stage = "sent"
    BY DEF Sent
  <2>5. QED
    BY <1>1, <1>2, <2>1, <2>3, <2>4
<1>8. ASSUME NEW go \in BOOLEAN, ReceiveEcho(go)
      PROVE  Types'
  <2> DEFINE f == echo.frame
             st == Apply(store, f)
  <2>1. /\ Dispatch(st) /\ Applied(store, st, f) /\ UNCHANGED <<serverVars, requests>>
    BY <1>8, ReceiveEchoFacts
  <2> HIDE DEF st
  <2>2. store' = st /\ RulesDistinct(st)
    BY <2>1 DEF Dispatch, Applied
  <2>3. RuleIds' /\ RulesDistinct(store)' /\ AnswersDistinct'
    BY <2>1, <2>2 DEF RuleIds, RulesDistinct, AnswersDistinct, serverVars
  <2>4. QED
    BY <1>1, <2>3
<1>9. ASSUME NEW g \in Gets, Landed(g)
      PROVE  Types'
  <2>1. /\ requests[g].stage = "answered" /\ requests'[g] = Idle
        /\ \A h \in Gets : h # g => requests'[h] = requests[h]
        /\ UNCHANGED serverVars
        /\ IF "rules" \in About(g) THEN store'.rules = Loaded(requests[g].data["rules"])
           ELSE store'.rules = store.rules
    BY <1>9 DEF Landed, Cells, Held
  <2>2. RulesDistinct(store)'
    BY <2>1 DEF RulesDistinct, AnswersDistinct, Loaded
  <2>3. RuleIds'
    BY <2>1 DEF RuleIds, serverVars
  <2>4. \A h \in Gets : Older(requests[h], requests'[h]) \/ requests'[h].stage = "idle"
    BY <2>1 DEF Older, Idle
  <2>5. QED
    BY <1>1, <1>2, <2>2, <2>3, <2>4
<1>10. CASE Import
  <2>1. RuleIds' /\ Swapped
    BY <1>10, ImportFacts
  <2>2. store' = store /\ \A g \in Gets : Older(requests[g], requests'[g])
    BY <2>1 DEF Swapped
  <2>3. RulesDistinct(store)'
    BY <2>2 DEF RulesDistinct
  <2>4. QED
    BY <1>1, <1>2, <2>1, <2>2, <2>3
<1>11. QED
  BY <1>3, <1>4, <1>5, <1>6, <1>7, <1>8, <1>9, <1>10, CellSteps

\* The tab opens well typed.
LEMMA TypesInit ==
  ASSUME Init
  PROVE  Types
<1>1. requests = [g \in Gets |-> IF g = "bootstrap" THEN Sent(0) ELSE Idle]
  BY DEF Init
<1>2. \A g \in Gets : IsRequest(g, requests[g]) /\ requests[g].stage # "answered"
  BY <1>1, IdleOrSent
<1>3. RequestTypes
  BY <1>1, <1>2 DEF RequestTypes
<1>4. IsStore(store)
  <2>1. \A S : NotLoaded \in Loads(S)
    BY DEF Loads
  <2>2. NoScope \in Scopes
    BY DEF NoScope, Scopes
  <2>3. QED
    BY <2>1, <2>2 DEF Init, IsStore
<1>5. ServerTypes /\ RuleIds
  <2>1. wabas = Seed /\ expired = FALSE /\ changes = 0 /\ rules = <<>>
    BY DEF Init
  <2>2. wabas \in Worlds
    BY <2>1, WorldsAre
  <2>3. expired \in BOOLEAN /\ changes \in Nat
    BY <2>1
  <2>4. rules \in Seq(Rules) /\ DOMAIN rules = {}
    BY <2>1
  <2>5. templates \in Statuses
    BY DEF Init, Statuses
  <2>6. RuleIds
    BY <2>4 DEF RuleIds, Distinct
  <2>7. clock = 1 /\ imports = [pending |-> 0, at |-> 0] /\ changes = 0
    BY DEF Init
  <2>8. clock \in Nat \ {0} /\ imports \in [pending : Nat, at : 0 .. changes]
    BY <2>7
  <2>9. QED
    BY <2>2, <2>3, <2>4, <2>5, <2>6, <2>8 DEF ServerTypes
<1>6. WireTypes
  <2>1. connected \in BOOLEAN /\ frames = <<>> /\ echo = NoEcho
    BY DEF Init
  <2>2. frames \in Seq(Frames)
    BY <2>1
  <2>3. QED
    BY <2>1, <2>2 DEF WireTypes, IsEcho
<1>7. TabTypes
  <2>1. NoScope \in Scopes /\ path \in [view : Views, scope : Scopes]
    BY ConsoleAssumption DEF NoScope, Scopes, Init
  <2>2. gate \in Gates
    BY <2>1 DEF Init, Gates
  <2>3. QED
    BY <2>1, <2>2 DEF Init, TabTypes
<1>8. RulesDistinct(store) /\ AnswersDistinct
  BY <1>2 DEF Init, RulesDistinct, NotLoaded, AnswersDistinct
<1>9. QED
  BY <1>3, <1>4, <1>5, <1>6, <1>7, <1>8 DEF Types, TypeOK

\* Nothing changes when nothing happens.
LEMMA TypesStutter ==
  ASSUME Types, UNCHANGED vars
  PROVE  Types'
<1>1. TypeOK'
  BY DEF Types, TypeOK, ServerTypes, WireTypes, RequestTypes, TabTypes, IsEcho, IsStore, vars
<1>2. QED
  BY <1>1 DEF Types, RuleIds, RulesDistinct, AnswersDistinct, vars

\* Whatever frames and answers cross, the reducer's state and the gate's stay well typed, and no
\* rule is twice in a list: an item that a frame replaces in place (reducer.ts) is the one of its id.
THEOREM TypesAlways == Spec => []Types
<1>1. Init => Types
  BY TypesInit
<1>2. Types /\ [Next]_vars => Types'
  BY TypesStep, TypesStutter
<1>3. QED
  BY <1>1, <1>2, PTL DEF Spec

-----------------------------------------------------------------------------
(* Redirects end *)

\* The path after one redirect leads to a scope that was found; after two it is honest, or
\* there is no account at all.
RepairsEnd ==
  /\ gate.hops \in 0 .. 2
  /\ gate.hops > 0 => store.server.loaded
  /\ gate.hops = 1 => \E w \in Scopes : path = PathFor(path.view, ResolveScope(Snap, w))
  /\ gate.hops = 2 => IF path.scope.account = 0 THEN Snap = <<>> ELSE Honest

\* A redirect renders the snapshot that is there.
LEMMA SnapStays ==
  ASSUME store'.server = store.server
  PROVE  store'.server.loaded = store.server.loaded /\ Snap' = Snap
         /\ (path' = path => Resolved' = Resolved /\ Honest' = Honest /\ Scoped' = Scoped)
BY DEF Snap, Resolved, Honest, Scoped

\* A path that leads to a found scope names an account, as long as there is one; for the
\* templates it is honest.
LEMMA FoundPath ==
  ASSUME NEW snap \in Worlds, NEW w \in Scopes, NEW p \in Paths, p.view \in {"chats", "templates"},
         p = PathFor(p.view, ResolveScope(snap, w))
  PROVE  /\ snap = <<>> => p.scope.account = 0
         /\ snap # <<>> =>
              /\ p.scope.account # 0
              /\ p.view = "chats" => p.scope = ResolveScope(snap, w)
              /\ p.view = "templates" => ResolveScope(snap, p.scope).account = p.scope.account
<1> DEFINE r == ResolveScope(snap, w)
<1>1. r \in Scopes /\ p.view \in Views
  BY ResolveInScopes DEF Paths
<1>2. CASE snap = <<>>
  <2>1. r = NoScope /\ NoScope.account = 0
    BY <1>2 DEF ResolveScope, NoScope
  <2> HIDE DEF r
  <2>2. p = Landing
    BY <1>1, <2>1, PathForIs DEF r
  <2>3. QED
    BY <1>2, <2>1, <2>2 DEF Landing
<1>3. CASE snap # <<>>
  <2>1. r.account \in Accounts /\ r.account # 0
    BY <1>3, ResolveInScopes, ConsoleAssumption
  <2>2. PICK i \in DOMAIN snap : Picked(snap, w, i)
    BY <1>3, ResolvePicks
  <2>3. Known(snap, r.account)
    BY <2>2, PickedScope
  <2> HIDE DEF r
  <2>4. p = PathFor(p.view, r)
    BY DEF r
  <2>5. CASE p.view = "chats"
    <3>1. p = [view |-> p.view, scope |-> r]
      BY <1>1, <2>1, <2>4, <2>5, PathForIs
    <3>2. p.scope = r
      BY <3>1
    <3>3. QED
      BY <1>3, <2>1, <2>5, <3>2 DEF r
  <2>6. CASE p.view = "templates"
    <3>1. p = [view |-> p.view, scope |-> Scope(r.account, 0)]
      BY <1>1, <2>1, <2>4, <2>6, PathForIs
    <3>2. p.scope = Scope(r.account, 0)
      BY <3>1
    <3>3. p.scope.account = r.account
      BY <3>2 DEF Scope
    <3>4. ResolveScope(snap, p.scope).account = r.account
      BY <2>3, <3>2, AccountStays
    <3>5. QED
      BY <1>3, <2>1, <2>6, <3>3, <3>4
  <2>7. QED
    BY <2>5, <2>6
<1>4. QED
  BY <1>2, <1>3

\* pathFor() keeps the view, or goes to the landing page.
LEMMA PathForView ==
  ASSUME NEW view \in {"chats", "templates"}, NEW sc \in Scopes
  PROVE  LET p == PathFor(view, sc) IN
         /\ p \in Paths /\ p.view \in {"chats", "templates"} /\ p = PathFor(p.view, sc)
         /\ sc.account # 0 => p.view = view
<1>1. view \in Views /\ "chats" \in Views /\ Landing.view = "chats"
  BY DEF Views, Landing
<1>2. CASE sc.account = 0
  BY <1>1, <1>2, PathForIs
<1>3. CASE sc.account # 0 /\ view = "chats"
  BY <1>1, <1>3, PathForIs
<1>4. CASE sc.account # 0 /\ view = "templates"
  BY <1>1, <1>4, PathForIs
<1>5. QED
  BY <1>2, <1>3, <1>4

\* Every step keeps it.
LEMMA RepairsStep ==
  ASSUME Types, RepairsEnd, Next
  PROVE  RepairsEnd'
<1>1. TypeOK /\ TypeOK' /\ gate.hops \in Nat /\ path \in Paths /\ path.scope \in Scopes /\ last \in Scopes
  BY CellSteps, GateIs DEF Types
<1>2. ASSUME gate'.hops = 0 PROVE RepairsEnd'
  BY <1>2 DEF RepairsEnd
<1>3. ASSUME store'.server = store.server, path' = path, gate'.hops = gate.hops PROVE RepairsEnd'
  BY <1>3, SnapStays DEF RepairsEnd
<1>4. CASE GateStill
  BY <1>3, <1>4 DEF GateStill
<1>5. CASE Dispatched
  BY <1>1, <1>2, <1>5, DispatchFacts DEF Dispatched
<1>6. CASE Navigated \/ ShowedGlobal \/ ShowedNothing \/ ShowedView
  BY <1>2, <1>6 DEF Navigated, ShowedGlobal, ShowedNothing, ShowedView
<1>7. CASE Announced
  BY <1>3, <1>7 DEF Announced
<1>8. CASE Redirected
  <2> DEFINE r == ResolveScope(Snap, last)
  <2>1. /\ store.server.loaded /\ store' = store /\ Snap # <<>> /\ path.view \in {"chats", "templates"}
        /\ path.scope.account = 0 /\ path' = PathFor(path.view, r) /\ gate'.hops = gate.hops + 1
    BY <1>8 DEF Redirected, Showed, CanRenderIs, Scoped
  <2>2. Snap \in Worlds /\ r \in Scopes
    BY <1>1, <2>1, SnapIs, ResolveInScopes
  <2>3. gate.hops # 2
    BY <2>1 DEF RepairsEnd
  <2>4. gate.hops # 1
    <3>1. SUFFICES ASSUME gate.hops = 1 PROVE FALSE
      OBVIOUS
    <3>2. PICK w \in Scopes : path = PathFor(path.view, ResolveScope(Snap, w))
      BY <3>1 DEF RepairsEnd
    <3>3. QED
      BY <1>1, <2>1, <2>2, <3>2, FoundPath
  <2>5. gate'.hops = 1
    BY <2>1, <2>3, <2>4 DEF RepairsEnd
  <2> HIDE DEF r
  <2>6. path' = PathFor(path'.view, r)
    BY <2>1, <2>2, PathForView
  <2>7. Snap' = Snap /\ store'.server.loaded
    BY <2>1, SnapStays
  <2>8. \E w \in Scopes : path' = PathFor(path'.view, ResolveScope(Snap', w))
    BY <1>1, <2>6, <2>7 DEF r
  <2>9. QED
    BY <2>5, <2>7, <2>8 DEF RepairsEnd
<1>9. CASE Repaired
  <2>1. /\ store.server.loaded /\ store' = store /\ path.view \in {"chats", "templates"}
        /\ path.scope.account # 0 /\ ~Honest
        /\ path' = PathFor(path.view, Resolved) /\ gate'.hops = gate.hops + 1
    BY <1>9 DEF Repaired, Showed, CanRenderIs, Scoped
  <2>2. Snap \in Worlds /\ Resolved \in Scopes /\ Resolved = ResolveScope(Snap, path.scope)
    BY <1>1, <2>1, SnapIs, ResolveInScopes DEF Resolved, Snap
  <2>3. Snap' = Snap /\ store'.server.loaded
    BY <2>1, SnapStays
  <2>4. path' = PathFor(path'.view, Resolved) /\ path' \in Paths /\ path'.view \in {"chats", "templates"}
    BY <2>1, <2>2, PathForView
  <2>5. gate.hops # 2
    BY <2>1 DEF RepairsEnd
  <2>6. CASE gate.hops = 0
    <3>1. \E w \in Scopes : path' = PathFor(path'.view, ResolveScope(Snap', w))
      BY <1>1, <2>2, <2>3, <2>4
    <3>2. gate'.hops = 1
      BY <2>1, <2>6
    <3>3. QED
      BY <2>3, <3>1, <3>2 DEF RepairsEnd
  <2>7. CASE gate.hops = 1
    <3>1. PICK w \in Scopes : path = PathFor(path.view, ResolveScope(Snap, w))
      BY <2>7 DEF RepairsEnd
    <3>2. /\ Snap # <<>>
          /\ path.view = "chats" => path.scope = ResolveScope(Snap, w)
          /\ path.view = "templates" => Resolved.account = path.scope.account
      BY <1>1, <2>1, <2>2, <3>1, FoundPath
    <3>3. path.view = "chats"
      BY <2>1, <3>2 DEF Honest
    <3>4. path.scope = ResolveScope(Snap, w) /\ Resolved = ResolveScope(Snap, path.scope)
      BY <2>2, <3>2, <3>3
    <3>5. ResolveScope(Snap, Resolved) = Resolved
      BY <2>2, <3>2, <3>4, FoundAgain
    <3>6. Resolved.account # 0
      BY <1>1, <2>2, <3>2, ResolveInScopes, ConsoleAssumption
    <3>7. path' = [view |-> "chats", scope |-> Resolved]
      BY <2>1, <2>2, <3>3, <3>6, PathForIs DEF Views
    <3>8. path'.scope = Resolved
      BY <3>7
    <3>9. Resolved' = Resolved
      <4>1. Resolved' = ResolveScope(Snap', path'.scope)
        BY DEF Resolved, Snap
      <4>2. QED
        BY <2>3, <3>5, <3>8, <4>1
    <3>10. Honest'
      BY <3>8, <3>9 DEF Honest
    <3>11. gate'.hops = 2
      BY <2>1, <2>7
    <3>12. path'.scope.account # 0
      BY <3>6, <3>8
    <3>13. QED
      BY <2>3, <3>10, <3>11, <3>12 DEF RepairsEnd
  <2>8. QED
    BY <2>5, <2>6, <2>7 DEF RepairsEnd
<1>10. QED
  BY <1>4, <1>5, <1>6, <1>7, <1>8, <1>9, PageSteps

\* app.tsx, scope-gate.tsx: redirects do not send each other back and forth.
THEOREM RedirectsStop == Spec => []RedirectsEnd
<1>1. Init => RepairsEnd
  BY DEF Init, RepairsEnd
<1>2. Types /\ RepairsEnd /\ [Next]_vars => RepairsEnd'
  <2>1. ASSUME RepairsEnd, UNCHANGED vars PROVE RepairsEnd'
    BY <2>1, SnapStays DEF RepairsEnd, vars
  <2>2. QED
    BY <2>1, RepairsStep
<1>3. RepairsEnd => RedirectsEnd
  BY DEF RepairsEnd, RedirectsEnd
<1>4. QED
  BY <1>1, <1>2, <1>3, TypesAlways, PTL DEF Spec

-----------------------------------------------------------------------------
(* The page is shown *)

\* What was announced last is in the snapshot, or it has gone since the last render; and if
\* nothing has gone meanwhile the store still has the scope, or the one it healed to.
Kept ==
  /\ gate.effect \in {NoScope, gate.announced}
  /\ gate.announced # NoScope =>
       /\ store.server.loaded
       /\ Token(gate.announced) \in gate.gone \cup Things(Snap)
       /\ gate.effect = NoScope /\ ~gate.returned /\ Token(gate.announced) \notin gate.gone =>
            store.scope \in {gate.announced, ResolveScope(Snap, gate.announced)}

\* What has been rendered is on the path.
Rest ==
  ~gate.dirty =>
    /\ store.server.loaded /\ gate.gone = {}
    /\ Scoped => IF path.scope.account = 0 THEN Snap = <<>>
                 ELSE Honest /\ gate.announced = Resolved

Page == Kept /\ Rest

\* A dispatch keeps it: what the new snapshot lost is gone, and the scope is healed.
LEMMA DispatchedPage ==
  ASSUME Types, Page, Dispatched
  PROVE  Page'
<1>1. PICK st : IsStore(st) /\ Dispatch(st) /\ Heals(store, st)
  BY DEF Dispatched
<1>2. TypeOK /\ IsStore(store)
  BY DEF Types, TypeOK
<1>3. /\ store' = st /\ gate'.dirty = TRUE /\ gate'.gone = gate.gone \cup Gone(st)
      /\ gate'.announced = gate.announced /\ gate'.effect = gate.effect /\ gate'.returned = gate.returned
  BY <1>1, <1>2, DispatchFacts
<1>4. Rest'
  BY <1>3 DEF Rest
<1>5. CASE gate.announced = NoScope
  BY <1>3, <1>4, <1>5 DEF Page, Kept
<1>6. CASE gate.announced # NoScope
  <2> DEFINE a == gate.announced
             snap2 == st.server.data
  <2>1. store.server.loaded /\ Snap \in Worlds /\ a \in Scopes /\ Token(a) \in gate.gone \cup Things(Snap)
    BY <1>2, <1>6, SnapIs, GateIs DEF Page, Kept
  <2>2. st.server.loaded /\ snap2 \in Worlds
    <3>1. st.server.loaded
      BY <1>1, <2>1, LoadedInLoads DEF Heals
    <3>2. QED
      BY <1>1, <3>1, StoreFields, LoadsFacts
  <2>3. Snap' = snap2
    BY <1>3 DEF Snap
  <2>4. gate'.gone = gate.gone \cup (Things(Snap) \ Things(snap2))
    BY <1>3, <2>1, <2>2 DEF Gone, Snap
  <2>5. Token(a) \in gate'.gone \cup Things(snap2)
    BY <2>1, <2>4
  <2>6. ASSUME gate'.effect = NoScope, ~gate'.returned, Token(a) \notin gate'.gone
        PROVE  st.scope \in {a, ResolveScope(snap2, a)}
    <3>1. Token(a) \in Things(Snap) /\ Token(a) \in Things(snap2) /\ Token(a) \notin gate.gone
      BY <2>1, <2>4, <2>6
    <3>2. store.scope \in {a, ResolveScope(Snap, a)}
      BY <1>3, <1>6, <2>6, <3>1 DEF Page, Kept
    <3>3. CASE st.server = store.server /\ st.scope = store.scope
      BY <3>2, <3>3 DEF Snap
    <3>4. CASE \E snap \in Worlds : st.server = Loaded(snap) /\ st.scope = ResolveScope(snap, store.scope)
      <4>1. PICK snap \in Worlds : st.server = Loaded(snap) /\ st.scope = ResolveScope(snap, store.scope)
        BY <3>4
      <4>2. snap2 = snap
        BY <4>1 DEF Loaded
      <4> HIDE DEF snap2
      <4>3. st.scope = ResolveScope(snap2, store.scope)
        BY <4>1, <4>2
      <4>4. ResolveScope(snap2, ResolveScope(Snap, a)) = ResolveScope(snap2, a)
        BY <2>1, <2>2, <3>1, HealedScope
      <4>5. QED
        BY <3>2, <4>3, <4>4
    <3>5. QED
      BY <1>1, <3>3, <3>4 DEF Heals
  <2> HIDE DEF snap2
  <2>7. Kept'
    BY <1>3, <2>2, <2>3, <2>5, <2>6 DEF Page, Kept
  <2>8. QED
    BY <1>4, <2>7 DEF Page
<1>7. QED
  BY <1>5, <1>6

\* Rendering the view of an honest path makes it so.
LEMMA ShowedViewPage ==
  ASSUME Types, Page, ShowedView
  PROVE  Page'
<1>1. /\ store.server.loaded /\ gate.effect = NoScope /\ store' = store /\ gate'.gone = {}
      /\ gate'.returned = ReturnedNow /\ Honest /\ path.scope.account # 0
      /\ path' = path /\ gate'.announced = Resolved
      /\ gate'.effect = IF gate.announced = Resolved THEN NoScope ELSE Resolved
  BY DEF ShowedView, Showed, CanRenderIs
<1>2. TypeOK /\ Snap \in Worlds /\ path.scope \in Scopes /\ Resolved = ResolveScope(Snap, path.scope)
  BY <1>1, SnapIs, GateIs DEF Types, Resolved, Snap
<1>3. Snap # <<>>
  <2>1. SUFFICES ASSUME Snap = <<>> PROVE FALSE
    OBVIOUS
  <2>2. Resolved.account = 0
    BY <1>2, <2>1 DEF ResolveScope, NoScope
  <2>3. QED
    BY <1>1, <2>2 DEF Honest
<1>4. Token(Resolved) \in Things(Snap)
  BY <1>2, <1>3, FoundIsThere
<1>5. Snap' = Snap /\ Resolved' = Resolved /\ Honest' = Honest /\ Scoped' = Scoped /\ store'.server.loaded
  BY <1>1, SnapStays
<1>6. Rest'
  BY <1>1, <1>5 DEF Rest
<1>7. ASSUME gate'.effect = NoScope, ~gate'.returned, Resolved # NoScope
      PROVE  store.scope \in {Resolved, ResolveScope(Snap, Resolved)}
  <2>1. gate.announced = Resolved
    BY <1>1, <1>7
  <2>2. ~gate.returned /\ gate.gone \cap Things(Snap) = {}
    BY <1>1, <1>7 DEF ReturnedNow, Snap
  <2>3. Token(Resolved) \notin gate.gone
    BY <1>4, <2>2
  <2>4. QED
    BY <1>1, <1>7, <2>1, <2>2, <2>3 DEF Page, Kept
<1>8. Kept'
  BY <1>1, <1>4, <1>5, <1>7 DEF Kept
<1>9. QED
  BY <1>6, <1>8 DEF Page

\* Every step keeps it.
LEMMA PageStep ==
  ASSUME Types, Page, Next
  PROVE  Page'
<1>1. CASE GateStill
  <2>1. Snap' = Snap /\ Resolved' = Resolved /\ Honest' = Honest /\ Scoped' = Scoped
        /\ store'.server.loaded = store.server.loaded
    BY <1>1, SnapStays DEF GateStill
  <2>2. QED
    BY <1>1, <2>1 DEF GateStill, Page, Kept, Rest
<1>2. CASE Dispatched
  BY <1>2, DispatchedPage
<1>3. CASE Navigated
  <2>1. Snap' = Snap /\ store'.server.loaded = store.server.loaded
    BY <1>3, SnapStays DEF Navigated
  <2>2. QED
    BY <1>3, <2>1 DEF Navigated, Page, Kept, Rest
<1>4. CASE ShowedGlobal
  <2>1. Scoped' = Scoped /\ store'.server.loaded
    BY <1>4, SnapStays DEF ShowedGlobal, Showed, CanRenderIs
  <2>2. QED
    BY <1>4, <2>1 DEF ShowedGlobal, Showed, Page, Kept, Rest
<1>5. CASE ShowedNothing
  <2>1. Snap' = Snap /\ store'.server.loaded
    BY <1>5, SnapStays DEF ShowedNothing, Showed, CanRenderIs
  <2>2. QED
    BY <1>5, <2>1 DEF ShowedNothing, Showed, Page, Kept, Rest
<1>6. CASE Redirected \/ Repaired
  BY <1>6 DEF Redirected, Repaired, Page, Kept, Rest
<1>7. CASE ShowedView
  BY <1>7, ShowedViewPage
<1>8. CASE Announced
  <2>1. Snap' = Snap /\ Resolved' = Resolved /\ Honest' = Honest /\ Scoped' = Scoped
        /\ store'.server.loaded = store.server.loaded
    BY <1>8, SnapStays DEF Announced
  <2>2. gate.effect = gate.announced /\ gate.announced # NoScope
    BY <1>8 DEF Announced, Page, Kept
  <2>3. Kept'
    BY <1>8, <2>1, <2>2 DEF Announced, Page, Kept
  <2>4. Rest'
    BY <1>8, <2>1 DEF Announced, Page, Rest
  <2>5. QED
    BY <2>3, <2>4 DEF Page
<1>9. QED
  BY <1>1, <1>2, <1>3, <1>4, <1>5, <1>6, <1>7, <1>8, PageSteps

\* At rest, the two parts say that the page is shown.
LEMMA PageShows ==
  ASSUME Types, Page
  PROVE  PageIsShown
<1>1. SUFFICES ASSUME AtRest, Scoped, ~gate.returned, NumbersHaveOneOwner
               PROVE  IF path.scope.account = 0 THEN Snap = <<>> ELSE Honest /\ store.scope = Resolved
  BY DEF PageIsShown, Snap
<1>2. /\ store.server.loaded /\ gate.effect = NoScope /\ gate.gone = {}
      /\ IF path.scope.account = 0 THEN Snap = <<>> ELSE Honest /\ gate.announced = Resolved
  BY <1>1 DEF AtRest, Page, Rest
<1>3. CASE path.scope.account = 0
  BY <1>2, <1>3
<1>4. CASE path.scope.account # 0
  <2>1. Honest /\ gate.announced = Resolved
    BY <1>2, <1>4
  <2>2. Resolved.account # 0
    BY <1>4, <2>1 DEF Honest
  <2>3. Resolved # NoScope
    BY <2>2 DEF NoScope
  <2>4. store.scope \in {Resolved, ResolveScope(Snap, Resolved)}
    BY <1>1, <1>2, <2>1, <2>3 DEF Page, Kept
  <2>5. Snap \in Worlds /\ path.scope \in Scopes /\ Resolved = ResolveScope(Snap, path.scope)
    BY <1>2, SnapIs, GateIs DEF Types, Resolved, Snap
  <2>6. Snap # <<>>
    BY <2>2, <2>5 DEF ResolveScope, NoScope
  <2>7. \A n \in Numbers : \A i, j \in Owners(Snap, n) : i = j
    BY <1>1 DEF NumbersHaveOneOwner, Snap
  <2>8. ResolveScope(Snap, Resolved) = Resolved
    BY <2>5, <2>6, <2>7, FoundAgain
  <2>9. QED
    BY <1>4, <2>1, <2>4, <2>8
<1>5. QED
  BY <1>3, <1>4

\* scope.ts (6-11): the reducer and the router "must not disagree".
THEOREM ScopeAndPathAgree == Spec => []PageIsShown
<1>1. Init => Page
  BY DEF Init, Page, Kept, Rest
<1>2. Types /\ Page /\ [Next]_vars => Page'
  <2>1. ASSUME Page, UNCHANGED vars PROVE Page'
    BY <2>1, SnapStays DEF Page, Kept, Rest, vars
  <2>2. QED
    BY <2>1, PageStep
<1>3. Types /\ Page => PageIsShown
  BY PageShows
<1>4. QED
  BY <1>1, <1>2, <1>3, TypesAlways, PTL DEF Spec

-----------------------------------------------------------------------------
(* The cells *)

\* A frame about the cell, stamped later than n, is under way.
Coming(fs, k, r, n) == \E i \in DOMAIN fs : Touches(fs[i], k, r) /\ fs[i].at > n

\* Of the templates only those of the account asked for count.
Watched(k, r) == k = "templates" => r = gate.asked /\ r # 0

\* The frames are in the order of their stamps, and nothing is stamped later than now.
WireOrder ==
  /\ \A i \in DOMAIN frames : frames[i].at \in 1 .. changes
  /\ \A i, j \in DOMAIN frames : i <= j => frames[i].at <= frames[j].at
  /\ ~connected => frames = <<>>
  /\ \A g \in Gets : requests[g].stage = "answered" => requests[g].at <= changes
  /\ echo.pending => echo.frame.at <= changes /\ echo.frame.type # "template"
  /\ echo.pending /\ ~echo.heard => \E i \in DOMAIN frames : frames[i] = echo.frame

\* The last frame under way about a cell says what it is, unless an import was swapped in
\* after it.
FramesTell ==
  \A k \in Cells, r \in Int : \A i \in DOMAIN frames :
    frames[i].at > imports.at /\ Touches(frames[i], k, r) /\ ~Coming(frames, k, r, frames[i].at) => Says(frames[i], k, Here(k, r))

\* An answer that nothing has passed by is right about the cells nothing is coming about.
AnswersHold ==
  \A g \in Gets : \A k \in About(g) \cap Cells : \A r \in Int :
    requests[g].stage = "answered" /\ ~requests[g].old /\ Watched(k, r)
      /\ ~Coming(frames, k, r, requests[g].at) =>
        ValueIn(requests[g].data[k], k, r) = Here(k, r)

\* So is the answer this tab waits for, about the cell it changes.
EchoTells ==
  \A k \in {"rules", "tokens"}, r \in Int :
    echo.pending /\ k \notin echo.old /\ Touches(echo.frame, k, r)
      /\ ~Coming(frames, k, r, echo.frame.at) =>
        Says(echo.frame, k, Here(k, r))

\* And so is the store, about the collections that nothing has passed by.
StoreHolds ==
  \A k \in Cells, r \in Int :
    Held(store, k).loaded /\ ~behind[k] /\ Watched(k, r)
      /\ (k = "templates" => requests["templates"].stage = "idle")
      /\ ~Coming(frames, k, r, 0) =>
        ValueIn(Held(store, k).data, k, r) = Here(k, r)

\* Rules that are not loaded are on their way.
RulesComing ==
  ~behind["rules"] /\ ~store.rules.loaded =>
    \/ requests["bootstrap"].stage # "idle" \/ requests["reload"].stage # "idle"
    \/ \E i \in DOMAIN frames : Wipes(frames[i])

AskedFor ==
  requests["templates"].stage # "idle" => requests["templates"].arg = gate.asked /\ gate.asked # 0

Current ==
  WireOrder /\ FramesTell /\ AnswersHold /\ EchoTells /\ StoreHolds /\ RulesComing /\ AskedFor

\* What is coming after a stamp is coming after an earlier one.
LEMMA ComingLater ==
  ASSUME NEW fs \in Seq(Frames), NEW k, NEW r, NEW m \in Nat, NEW n \in Nat, m <= n, Coming(fs, k, r, n)
  PROVE  Coming(fs, k, r, m)
<1>1. PICK i \in DOMAIN fs : Touches(fs[i], k, r) /\ fs[i].at > n
  BY DEF Coming
<1>2. fs[i] \in Frames
  OBVIOUS
<1>3. fs[i].at \in Nat
  BY <1>2, FrameIs
<1>4. fs[i].at > m
  BY <1>1, <1>3
<1>5. QED
  BY <1>1, <1>4 DEF Coming

\* The types of the frames under way.
LEMMA FramesTyped ==
  ASSUME TypeOK
  PROVE  /\ frames \in Seq(Frames) /\ DOMAIN frames = 1 .. Len(frames) /\ Len(frames) \in Nat
         /\ \A i \in DOMAIN frames : frames[i] \in Frames /\ frames[i].at \in Nat
         /\ changes \in Nat
<1>1. frames \in Seq(Frames) /\ changes \in Nat
  BY DEF TypeOK, WireTypes, ServerTypes
<1>2. \A i \in DOMAIN frames : frames[i] \in Frames
  BY <1>1
<1>3. \A i \in DOMAIN frames : frames[i].at \in Nat
  BY <1>2, FrameIs
<1>4. QED
  BY <1>1, <1>2, <1>3

-----------------------------------------------------------------------------
(* A change of the server *)

\* Of the frames of a change only the last is about a cell.
LEMMA NumbersTouchNothing ==
  ASSUME NEW fs, NEW mine, ServerMoves(fs, mine), NEW k, NEW r, NEW i \in DOMAIN fs, Touches(fs[i], k, r)
  PROVE  i = Len(fs) /\ fs[i] = Last(fs)
<1>1. i # Len(fs) => fs[i].type = "number"
  BY DEF ServerMoves
<1>2. fs[i].type # "number"
  BY DEF Touches, Wipes
<1>3. fs \in Seq(Frames) /\ fs # <<>>
  BY DEF ServerMoves
<1>4. QED
  BY <1>1, <1>2, <1>3, LastOf

\* The frames of a change go behind those under way.
LEMMA FramesGrow ==
  ASSUME TypeOK, NEW fs, NEW mine, ServerMoves(fs, mine), frames' = frames \o fs
  PROVE  LET n == Len(frames) IN
         /\ DOMAIN frames' = 1 .. n + Len(fs) /\ Len(fs) \in Nat \ {0}
         /\ \A i \in DOMAIN frames : i \in DOMAIN frames' /\ frames'[i] = frames[i]
         /\ \A j \in DOMAIN fs : n + j \in DOMAIN frames' /\ frames'[n + j] = fs[j]
         /\ \A i \in DOMAIN frames' : i \in DOMAIN frames \/ i - n \in DOMAIN fs
         /\ frames'[n + Len(fs)] = Last(fs) /\ n + Len(fs) \in DOMAIN frames'
<1>1. fs \in Seq(Frames) /\ fs # <<>> /\ frames \in Seq(Frames)
  BY FramesTyped DEF ServerMoves
<1>2. QED
  BY <1>1, LastOf

\* A cell that is not told about stays as it is.
LEMMA ServerHere ==
  ASSUME TypeOK, NEW fs, NEW mine \in BOOLEAN, ServerMoves(fs, mine), Published(fs, mine),
         NEW k \in Cells, NEW r \in Int, NEW n \in Nat, n <= changes,
         ~connected => k \notin Concerned(Last(fs)) /\ (k = "templates" => r = gate.asked),
         ~Coming(frames', k, r, n)
  PROVE  Here(k, r)' = Here(k, r) /\ ~Coming(frames, k, r, n)
<1> DEFINE f == Last(fs)
<1>1. fs \in Seq(Frames) /\ fs # <<>> /\ f \in Frames /\ f.at = changes + 1 /\ Told(f)
      /\ frames \in Seq(Frames) /\ changes \in Nat
  BY LastOf, FramesTyped DEF ServerMoves
<1>2. ~Touches(f, k, r) /\ ~Coming(frames, k, r, n)
  <2>1. CASE connected
    <3>1. frames' = frames \o fs
      BY <2>1 DEF Published
    <3>2. /\ \A i \in DOMAIN frames : i \in DOMAIN frames' /\ frames'[i] = frames[i]
          /\ frames'[Len(frames) + Len(fs)] = f /\ Len(frames) + Len(fs) \in DOMAIN frames'
      BY <3>1, FramesGrow
    <3>3. ~Coming(frames, k, r, n)
      BY <3>2 DEF Coming
    <3>4. f.at > n
      BY <1>1
    <3> HIDE DEF f
    <3>5. ~Touches(f, k, r)
      BY <3>2, <3>4 DEF Coming
    <3>6. QED
      BY <3>3, <3>5
  <2>2. CASE ~connected
    <3>1. frames' = frames
      BY <2>2 DEF Published
    <3>2. ~Touches(f, k, r)
      BY <1>1, <2>2, ConcernsWhatItTouches
    <3>3. QED
      BY <3>1, <3>2
  <2>3. QED
    BY <2>1, <2>2
<1>3. Here(k, r)' = Here(k, r)
  BY <1>1, <1>2 DEF Told
<1>4. QED
  BY <1>2, <1>3

\* A change keeps the wire in order.
LEMMA ServerWire ==
  ASSUME TypeOK, WireOrder, NEW fs, NEW mine \in BOOLEAN, ServerMoves(fs, mine), Published(fs, mine)
  PROVE  WireOrder'
<1> DEFINE f == Last(fs)
           n == Len(frames)
<1>1. /\ fs \in Seq(Frames) /\ fs # <<>> /\ f \in Frames /\ f.at = changes + 1
      /\ changes' = changes + 1 /\ connected' = connected
      /\ mine => f.type # "template"
      /\ \A j \in DOMAIN fs : fs[j].at = changes + 1
  BY LastOf DEF ServerMoves, Published
<1>2. /\ frames \in Seq(Frames) /\ changes \in Nat /\ IsEcho(echo)
      /\ \A i \in DOMAIN frames : frames[i].at \in Nat /\ frames[i].at <= changes /\ frames[i].at >= 1
      /\ \A i, j \in DOMAIN frames : i <= j => frames[i].at <= frames[j].at
      /\ DOMAIN frames = 1 .. n /\ n \in Nat
  BY FramesTyped DEF WireOrder, TypeOK, WireTypes
<1>3. CASE connected
  <2>1. frames' = frames \o fs
    BY <1>3 DEF Published
  <2>2. /\ DOMAIN frames' = 1 .. n + Len(fs) /\ Len(fs) \in Nat \ {0}
        /\ \A i \in DOMAIN frames : i \in DOMAIN frames' /\ frames'[i] = frames[i]
        /\ \A i \in DOMAIN frames' : i \in DOMAIN frames \/ i - n \in DOMAIN fs
        /\ \A j \in DOMAIN fs : n + j \in DOMAIN frames' /\ frames'[n + j] = fs[j]
        /\ frames'[n + Len(fs)] = f /\ n + Len(fs) \in DOMAIN frames'
    BY <2>1, FramesGrow
  <2>3. \A i \in DOMAIN frames' :
          \/ i \in DOMAIN frames /\ frames'[i] = frames[i]
          \/ i > n /\ frames'[i].at = changes + 1
    <3>1. TAKE i \in DOMAIN frames'
    <3>2. CASE i \in DOMAIN frames
      BY <2>2, <3>2
    <3>3. CASE i \notin DOMAIN frames
      <4>1. i - n \in DOMAIN fs /\ n + (i - n) = i /\ i > n
        BY <1>2, <2>2, <3>3
      <4>2. frames'[i] = fs[i - n]
        BY <2>2, <4>1
      <4>3. QED
        BY <1>1, <4>1, <4>2
    <3>4. QED
      BY <3>2, <3>3
  <2>4. \A i \in DOMAIN frames' : frames'[i].at \in 1 .. changes'
    <3>1. TAKE i \in DOMAIN frames'
    <3>2. CASE i \in DOMAIN frames /\ frames'[i] = frames[i]
      BY <1>1, <1>2, <3>2
    <3>3. CASE frames'[i].at = changes + 1
      BY <1>1, <1>2, <3>3
    <3>4. QED
      BY <2>3, <3>2, <3>3
  <2>5. \A i, j \in DOMAIN frames' : i <= j => frames'[i].at <= frames'[j].at
    <3>1. SUFFICES ASSUME NEW i \in DOMAIN frames', NEW j \in DOMAIN frames', i <= j
                   PROVE  frames'[i].at <= frames'[j].at
      OBVIOUS
    <3>2. CASE j \in DOMAIN frames /\ frames'[j] = frames[j]
      <4>1. i \in DOMAIN frames
        BY <1>2, <2>2, <3>1, <3>2
      <4>2. frames'[i] = frames[i]
        BY <2>2, <4>1
      <4>3. frames[i].at <= frames[j].at
        BY <1>2, <3>1, <3>2, <4>1
      <4>4. QED
        BY <3>2, <4>2, <4>3
    <3>3. CASE frames'[j].at = changes + 1
      BY <1>1, <1>2, <2>4, <3>3
    <3>4. QED
      BY <2>3, <3>2, <3>3
  <2>6. echo'.pending => echo'.frame.at <= changes' /\ echo'.frame.type # "template"
    <3>1. CASE mine
      BY <1>1, <1>2, <3>1 DEF Published
    <3>2. CASE ~mine
      <4>1. echo' = echo
        BY <1>3, <3>2 DEF Published
      <4>2. echo.pending => echo.frame.at \in Nat
        BY <1>2, EchoIs, FrameIs
      <4>3. QED
        BY <1>1, <1>2, <4>1, <4>2 DEF WireOrder
    <3>3. QED
      BY <3>1, <3>2
  <2>7. echo'.pending /\ ~echo'.heard => \E i \in DOMAIN frames' : frames'[i] = echo'.frame
    <3>1. CASE mine
      BY <2>2, <3>1 DEF Published
    <3>2. CASE ~mine
      <4>1. echo' = echo
        BY <1>3, <3>2 DEF Published
      <4>2. QED
        BY <2>2, <4>1 DEF WireOrder
    <3>3. QED
      BY <3>1, <3>2
  <2>8. requests' = requests
    BY <1>3 DEF Published
  <2>9. \A g \in Gets : requests'[g].stage = "answered" => requests'[g].at <= changes'
    <3>1. TAKE g \in Gets
    <3>2. HAVE requests'[g].stage = "answered"
    <3>3. requests[g].at \in Nat /\ requests[g].at <= changes
      BY <2>8, <3>2, AnswerIs DEF WireOrder, Answered
    <3>4. QED
      BY <1>1, <1>2, <2>8, <3>3
  <2>10. QED
    BY <1>1, <1>3, <2>4, <2>5, <2>6, <2>7, <2>9 DEF WireOrder
<1>4. CASE ~connected
  <2>1. frames' = <<>> /\ DOMAIN frames' = {}
    BY <1>4 DEF Published, WireOrder
  <2>2. /\ echo'.pending => echo'.frame.at <= changes' /\ echo'.frame.type # "template"
        /\ echo'.pending => echo'.heard
    <3>1. CASE mine
      <4>1. echo'.frame = f /\ (echo'.heard <=> ~connected)
        BY <3>1 DEF Published
      <4>2. echo'.heard
        BY <1>4, <4>1
      <4>3. f.at = changes' /\ f.type # "template" /\ changes' \in Nat
        BY <1>1, <1>2, <3>1
      <4> HIDE DEF f
      <4>4. echo'.frame.at <= changes' /\ echo'.frame.type # "template"
        BY <4>1, <4>3
      <4>5. QED
        BY <4>2, <4>4
    <3>2. CASE ~mine
      <4>1. echo' = EchoPassedBy(f)
        BY <1>4, <3>2 DEF Published
      <4>2. Concerned(f) \subseteq Collections
        BY <1>1, ConcernedIn
      <4> HIDE DEF f
      <4>3. /\ echo'.pending = echo.pending
            /\ echo.pending => /\ echo'.frame = echo.frame
                               /\ echo'.heard <=> echo.heard \/ f.at >= echo.frame.at
        BY <1>2, <4>1, <4>2, EchoPassed
      <4>4. echo.pending => echo.frame.at \in Nat
        BY <1>2, EchoIs, FrameIs
      <4>5. QED
        BY <1>1, <1>2, <4>3, <4>4 DEF WireOrder
    <3>3. QED
      BY <3>1, <3>2
  <2>3. \A g \in Gets : requests'[g].stage = "answered" => requests'[g].at <= changes'
    <3>1. TAKE g \in Gets
    <3>2. HAVE requests'[g].stage = "answered"
    <3>3. requests[g].stage = "answered" /\ requests'[g].at = requests[g].at
      BY <3>2, OlderAnswers DEF Published
    <3>4. requests[g].at \in Nat /\ requests[g].at <= changes
      BY <3>3, AnswerIs DEF WireOrder, Answered
    <3>5. QED
      BY <1>1, <1>2, <3>3, <3>4
  <2>4. QED
    BY <2>1, <2>2, <2>3 DEF WireOrder
<1>5. QED
  BY <1>3, <1>4

\* An answer that is not old now was not before.
LEMMA OlderAnswer ==
  ASSUME TypeOK, NEW g \in Gets, Older(requests[g], requests'[g]), requests'[g].stage = "answered",
         ~requests'[g].old
  PROVE  requests'[g] = requests[g] /\ requests[g].stage = "answered" /\ ~requests[g].old
         /\ requests[g].at \in Nat
<1>1. requests[g].stage = "answered" /\ requests'[g] = requests[g]
  BY OlderAnswers
<1>2. QED
  BY <1>1, AnswerIs DEF Answered

\* The frame of the awaited answer.
LEMMA EchoAt ==
  ASSUME TypeOK, echo.pending
  PROVE  echo.frame.at \in Nat /\ echo.frame \in Frames /\ IsEcho(echo)
BY EchoIs, FrameIs DEF TypeOK, WireTypes

\* Cells are of these collections.
LEMMA RulesAndTokens ==
  /\ "rules" \in Cells /\ "tokens" \in Cells /\ "templates" \in Cells /\ Cells \subseteq Collections
  /\ "rules" # "templates" /\ "tokens" # "templates" /\ "log" \notin Cells
BY DEF Cells, Collections

\* A change of the server keeps it.
LEMMA ServerCurrent ==
  ASSUME TypeOK, Current, NEW fs, NEW mine \in BOOLEAN, ServerMoves(fs, mine)
  PROVE  Current'
<1> DEFINE f == Last(fs)
<1>1. TypeOK' /\ Published(fs, mine)
  BY PublishFacts
<1>2. /\ fs \in Seq(Frames) /\ f \in Frames /\ f.at = changes + 1 /\ Told(f)
      /\ frames \in Seq(Frames) /\ changes \in Nat
      /\ store' = store /\ gate' = gate /\ imports'.at = imports.at
  BY <1>1, LastOf, FramesTyped DEF ServerMoves, Published
<1>3. WireOrder'
  BY <1>1, ServerWire DEF Current
<1>4. ~connected => frames = <<>>
  BY DEF Current, WireOrder
<1>5. ASSUME NEW k \in Cells, NEW r \in Int, NEW i \in DOMAIN frames',
             frames'[i].at > imports.at, Touches(frames'[i], k, r), ~Coming(frames', k, r, frames'[i].at)
      PROVE  Says(frames'[i], k, Here(k, r)')
  <2>1. connected /\ frames' = frames \o fs
    BY <1>1, <1>4 DEF Published
  <2>2. CASE i \in DOMAIN frames
    <3>1. frames'[i] = frames[i]
      BY <2>1, <2>2, FramesGrow
    <3>2. frames[i].at \in Nat /\ frames[i].at <= changes
      BY <2>2, FramesTyped DEF Current, WireOrder
    <3>3. Here(k, r)' = Here(k, r) /\ ~Coming(frames, k, r, frames[i].at)
      BY <1>1, <1>5, <2>1, <3>1, <3>2, ServerHere
    <3>4. Says(frames[i], k, Here(k, r))
      BY <1>5, <2>2, <3>1, <3>3 DEF Current, FramesTell
    <3>5. QED
      BY <3>1, <3>3, <3>4
  <2>3. CASE i \notin DOMAIN frames
    <3>1. i - Len(frames) \in DOMAIN fs /\ i \in 1 .. Len(frames) + Len(fs)
      BY <2>1, <2>3, FramesGrow
    <3>2. PICK j \in DOMAIN fs : j = i - Len(frames)
      BY <3>1
    <3>3. Len(frames) \in Nat /\ i = Len(frames) + j
      BY <1>2, <3>1, <3>2
    <3>4. frames'[i] = fs[j]
      BY <2>1, <3>3, FramesGrow
    <3>5. fs[j] = f
      BY <1>5, <3>4, NumbersTouchNothing
    <3>6. QED
      BY <1>2, <1>5, <3>4, <3>5 DEF Told
  <2>4. QED
    BY <2>2, <2>3
<1>6. FramesTell'
  BY <1>2, <1>5 DEF FramesTell
<1>7. ASSUME NEW g \in Gets, NEW k \in About(g) \cap Cells, NEW r \in Int,
             requests'[g].stage = "answered", ~requests'[g].old, Watched(k, r),
             ~Coming(frames', k, r, requests'[g].at)
      PROVE  ValueIn(requests'[g].data[k], k, r) = Here(k, r)'
  <2>1. Older(requests[g], requests'[g])
    BY <1>1 DEF Published
  <2>2. requests'[g] = requests[g] /\ requests[g].stage = "answered" /\ ~requests[g].old
        /\ requests[g].at \in Nat
    BY <1>7, <2>1, OlderAnswer
  <2>3. requests[g].at <= changes
    BY <2>2 DEF Current, WireOrder
  <2>4. ~connected => k \notin Concerned(f)
    <3>1. SUFFICES ASSUME ~connected, k \in Concerned(f) PROVE FALSE
      OBVIOUS
    <3>2. requests[g].at < f.at /\ g # "older"
      BY <1>2, <2>2, <2>3, AboutIs, RulesAndTokens
    <3>3. PassesBy(f, g)
      BY <2>2, <3>1, <3>2 DEF PassesBy
    <3>4. requests'[g].old = TRUE
      BY <1>1, <3>1, <3>3 DEF Published
    <3>5. QED
      BY <1>7, <3>4
  <2>5. Here(k, r)' = Here(k, r) /\ ~Coming(frames, k, r, requests[g].at)
    BY <1>1, <1>7, <2>2, <2>3, <2>4, ServerHere DEF Watched
  <2>6. ValueIn(requests[g].data[k], k, r) = Here(k, r)
    BY <1>7, <2>2, <2>5 DEF Current, AnswersHold
  <2>7. QED
    BY <2>2, <2>5, <2>6
<1>8. \A k, r : Watched(k, r)' <=> Watched(k, r)
  BY <1>2 DEF Watched
<1>9. AnswersHold'
  BY <1>7, <1>8 DEF AnswersHold
<1>10. ASSUME NEW k \in {"rules", "tokens"}, NEW r \in Int,
              echo'.pending, k \notin echo'.old, Touches(echo'.frame, k, r),
              ~Coming(frames', k, r, echo'.frame.at)
       PROVE  Says(echo'.frame, k, Here(k, r)')
  <2>1. k \in Cells /\ k # "templates"
    BY RulesAndTokens
  <2>2. CASE mine
    <3>1. echo'.frame = f
      BY <1>1, <2>2 DEF Published
    <3>2. QED
      BY <1>2, <1>10, <2>1, <3>1 DEF Told
  <2>3. CASE ~mine
    <3>1. /\ echo.pending /\ echo'.frame = echo.frame /\ k \notin echo.old
          /\ ~connected => k \notin Concerned(f)
      <4>1. CASE connected
        <5>1. echo' = echo
          BY <1>1, <2>3, <4>1 DEF Published
        <5>2. QED
          BY <1>10, <4>1, <5>1
      <4>2. CASE ~connected
        <5>1. echo' = EchoPassedBy(f) /\ Concerned(f) \subseteq Collections /\ IsEcho(echo)
          BY <1>1, <1>2, <2>3, <4>2, ConcernedIn DEF Published, TypeOK, WireTypes
        <5>2. echo'.pending = echo.pending
          BY <5>1, EchoPassed
        <5>3. echo.pending
          BY <1>10, <5>2
        <5>4. echo'.frame = echo.frame
              /\ echo'.old = IF f.at > echo.frame.at THEN echo.old \cup Concerned(f) ELSE echo.old
          BY <5>1, <5>3, EchoPassed
        <5>5. f.at > echo.frame.at
          BY <1>2, <5>3, EchoAt DEF Current, WireOrder
        <5>6. QED
          BY <1>10, <5>3, <5>4, <5>5
      <4>3. QED
        BY <4>1, <4>2
    <3>2. echo.frame.at \in Nat /\ echo.frame.at <= changes
      BY <3>1, EchoAt DEF Current, WireOrder
    <3>3. Here(k, r)' = Here(k, r) /\ ~Coming(frames, k, r, echo.frame.at)
      BY <1>1, <1>10, <2>1, <3>1, <3>2, ServerHere
    <3>4. Says(echo.frame, k, Here(k, r))
      BY <1>10, <3>1, <3>3 DEF Current, EchoTells
    <3>5. QED
      BY <3>1, <3>3, <3>4
  <2>4. QED
    BY <2>2, <2>3
<1>11. EchoTells'
  BY <1>10 DEF EchoTells
<1>12. ASSUME NEW k \in Cells, NEW r \in Int, Held(store, k).loaded, ~behind'[k], Watched(k, r),
              k = "templates" => requests'["templates"].stage = "idle", ~Coming(frames', k, r, 0)
       PROVE  ValueIn(Held(store, k).data, k, r) = Here(k, r)'
  <2>1. ~behind[k] /\ (~connected => k \notin Concerned(f))
    BY <1>1, <1>12, RulesAndTokens DEF Published
  <2>2. k = "templates" => requests["templates"].stage = "idle"
    BY <1>1, <1>12, GetNames, OlderStages DEF Published
  <2>3. Here(k, r)' = Here(k, r) /\ ~Coming(frames, k, r, 0)
    BY <1>1, <1>2, <1>12, <2>1, ServerHere DEF Watched
  <2>4. ValueIn(Held(store, k).data, k, r) = Here(k, r)
    BY <1>12, <2>1, <2>2, <2>3 DEF Current, StoreHolds
  <2>5. QED
    BY <2>3, <2>4
<1>13. StoreHolds'
  BY <1>2, <1>8, <1>12 DEF StoreHolds, Held
<1>14. \A g \in Gets : requests'[g].stage = requests[g].stage
  BY <1>1, OlderStages DEF Published
<1>15. RulesComing'
  <2>1. SUFFICES ASSUME ~behind'["rules"], ~store.rules.loaded,
                        requests'["bootstrap"].stage = "idle", requests'["reload"].stage = "idle"
                 PROVE  \E i \in DOMAIN frames' : Wipes(frames'[i])
    BY <1>2 DEF RulesComing
  <2>2. ~behind["rules"] /\ requests["bootstrap"].stage = "idle" /\ requests["reload"].stage = "idle"
    BY <1>1, <1>14, <2>1, GetNames, RulesAndTokens DEF Published
  <2>3. PICK i \in DOMAIN frames : Wipes(frames[i])
    BY <2>1, <2>2 DEF Current, RulesComing
  <2>4. connected
    BY <1>4, <2>3
  <2>5. frames' = frames \o fs
    BY <1>1, <2>4 DEF Published
  <2>6. QED
    BY <2>3, <2>5, FramesGrow
<1>16. AskedFor'
  <2>1. requests["templates"].stage # "idle" => requests'["templates"].arg = requests["templates"].arg
    BY <1>1, GetNames DEF Published, Older
  <2>2. QED
    BY <1>2, <1>14, <2>1, GetNames DEF AskedFor, Current
<1>17. QED
  BY <1>3, <1>6, <1>9, <1>11, <1>13, <1>15, <1>16 DEF Current

-----------------------------------------------------------------------------
(* The requests and the socket *)

\* A GET that is answered brings what is here.
LEMMA AnswerCurrent ==
  ASSUME TypeOK, Current, NEW g \in Gets, Answer(g)
  PROVE  Current'
<1>1. /\ requests[g].stage = "sent" /\ requests'[g].stage = "answered" /\ requests'[g].at = changes
      /\ requests'[g].arg = requests[g].arg /\ requests'[g].old = FALSE
      /\ \A c \in About(g) : requests'[g].data[c] = Read(c, requests[g].arg)
      /\ \A h \in Gets : h # g => requests'[h] = requests[h]
      /\ UNCHANGED <<rules, expired, templates, changes, connected, frames, store, echo, gate, behind,
                     imports>>
  BY AnswerFacts DEF serverVars
<1>2. changes \in Nat /\ gate.asked \in Accounts \cup {0}
  BY FramesTyped, GateIs
<1>3. /\ \A k, r : Here(k, r)' = Here(k, r)
      /\ \A k, r : Watched(k, r)' <=> Watched(k, r)
  BY <1>1 DEF Here, Watched
<1>4. WireOrder'
  BY <1>1, <1>2 DEF Current, WireOrder
<1>5. FramesTell' /\ EchoTells'
  BY <1>1, <1>3 DEF Current, FramesTell, EchoTells
<1>6. ASSUME NEW k \in About(g) \cap Cells, NEW r \in Int, Watched(k, r)
      PROVE  ValueIn(requests'[g].data[k], k, r) = Here(k, r)
  <2>1. requests'[g].data[k] = Read(k, requests[g].arg)
    BY <1>1
  <2>2. CASE k = "rules"
    BY <2>1, <2>2 DEF Read, ValueIn, Here
  <2>3. CASE k = "tokens"
    BY <2>1, <2>3 DEF Read, ValueIn, Here
  <2>4. CASE k = "templates"
    <3>1. g = "templates"
      BY <2>4 DEF About, Gets
    <3>2. requests[g].arg = gate.asked /\ r = gate.asked /\ r \in Accounts
      BY <1>1, <1>2, <1>6, <2>4, <3>1 DEF Current, AskedFor, Watched
    <3>3. requests'[g].data[k] = TemplatesOf(r)
      BY <2>1, <2>4, <3>2 DEF Read
    <3>4. TemplatesOf(r)[r] = templates[r]
      BY <3>2 DEF TemplatesOf
    <3>5. QED
      BY <2>4, <3>3, <3>4 DEF ValueIn, Here
  <2>5. QED
    BY <2>2, <2>3, <2>4 DEF Cells
<1>7. AnswersHold'
  <2>1. SUFFICES ASSUME NEW h \in Gets, NEW k \in About(h) \cap Cells, NEW r \in Int,
                        requests'[h].stage = "answered", ~requests'[h].old, Watched(k, r),
                        ~Coming(frames, k, r, requests'[h].at)
                 PROVE  ValueIn(requests'[h].data[k], k, r) = Here(k, r)
    BY <1>1, <1>3 DEF AnswersHold
  <2>2. CASE h = g
    BY <1>6, <2>1, <2>2
  <2>3. CASE h # g
    BY <1>1, <2>1, <2>3 DEF Current, AnswersHold
  <2>4. QED
    BY <2>2, <2>3
<1>8. \A h \in Gets : requests'[h].stage = "idle" <=> requests[h].stage = "idle"
  BY <1>1
<1>9. StoreHolds'
  <2>1. SUFFICES ASSUME NEW k \in Cells, NEW r \in Int, Held(store, k).loaded, ~behind[k], Watched(k, r),
                        k = "templates" => requests'["templates"].stage = "idle", ~Coming(frames, k, r, 0)
                 PROVE  ValueIn(Held(store, k).data, k, r) = Here(k, r)
    BY <1>1, <1>3 DEF StoreHolds, Held
  <2>2. k = "templates" => requests["templates"].stage = "idle"
    BY <1>8, <2>1, GetNames
  <2>3. QED
    BY <2>1, <2>2 DEF Current, StoreHolds
<1>10. RulesComing'
  BY <1>1, <1>8, GetNames DEF Current, RulesComing
<1>11. AskedFor'
  BY <1>1, <1>8, GetNames DEF Current, AskedFor
<1>12. QED
  BY <1>4, <1>5, <1>7, <1>9, <1>10, <1>11 DEF Current

\* Steps that leave the cells alone keep it.
LEMMA StillCurrent ==
  ASSUME TypeOK, Current, CellsStill
  PROVE  Current'
<1>1. /\ UNCHANGED <<rules, expired, templates, changes, frames, echo>> /\ imports'.at = imports.at
      /\ store'.rules = store.rules /\ store'.tokens = store.tokens /\ store'.templates = store.templates
      /\ connected => connected'
      /\ \A g \in Gets : requests'[g] = requests[g] \/ requests'[g].stage \in {"idle", "sent"}
      /\ \A c \in Collections : behind[c] => behind'[c]
  BY DEF CellsStill
<1>2. \/ gate'.asked = gate.asked /\ requests'["templates"] = requests["templates"]
      \/ gate'.asked = gate.asked /\ requests'["templates"].stage = "idle" /\ behind'["templates"]
      \/ gate'.asked = 0 /\ requests'["templates"].stage = "idle"
      \/ gate'.asked # 0 /\ requests'["templates"] = Sent(gate'.asked)
  BY DEF CellsStill
<1>3. \A a : Sent(a).stage = "sent" /\ Sent(a).arg = a
  BY DEF Sent
<1>4. \A k, r : Here(k, r)' = Here(k, r)
  BY <1>1 DEF Here
<1>5. WireOrder'
  <2>1. \A g \in Gets : requests'[g].stage = "answered" => requests'[g].at <= changes
    BY <1>1 DEF Current, WireOrder
  <2>2. QED
    BY <1>1, <2>1 DEF Current, WireOrder
<1>6. FramesTell' /\ EchoTells'
  BY <1>1, <1>4 DEF Current, FramesTell, EchoTells
<1>7. AnswersHold'
  <2>1. SUFFICES ASSUME NEW g \in Gets, NEW k \in About(g) \cap Cells, NEW r \in Int,
                        requests'[g].stage = "answered", ~requests'[g].old,
                        k = "templates" => r = gate'.asked /\ r # 0,
                        ~Coming(frames, k, r, requests'[g].at)
                 PROVE  ValueIn(requests'[g].data[k], k, r) = Here(k, r)
    BY <1>1, <1>4 DEF AnswersHold, Watched
  <2>2. requests'[g] = requests[g]
    BY <1>1, <2>1
  <2>3. k = "templates" => gate'.asked = gate.asked
    <3>1. SUFFICES ASSUME k = "templates" PROVE gate'.asked = gate.asked
      OBVIOUS
    <3>2. g = "templates"
      BY <3>1 DEF About, Gets
    <3>3. QED
      BY <1>2, <1>3, <2>1, <3>2
  <2>4. Watched(k, r)
    BY <2>1, <2>3 DEF Watched
  <2>5. QED
    BY <2>1, <2>2, <2>4 DEF Current, AnswersHold
<1>8. StoreHolds'
  <2>1. SUFFICES ASSUME NEW k \in Cells, NEW r \in Int, Held(store', k).loaded, ~behind'[k],
                        k = "templates" => r = gate'.asked /\ r # 0,
                        k = "templates" => requests'["templates"].stage = "idle", ~Coming(frames, k, r, 0)
                 PROVE  ValueIn(Held(store', k).data, k, r) = Here(k, r)
    BY <1>1, <1>4 DEF StoreHolds, Held, Watched
  <2>2. Held(store', k) = Held(store, k)
    BY <1>1 DEF Held, Cells
  <2>3. ~behind[k]
    BY <1>1, <2>1, RulesAndTokens
  <2>4. k = "templates" => r = gate.asked /\ requests["templates"].stage = "idle"
    BY <1>2, <1>3, <2>1
  <2>5. Watched(k, r)
    BY <2>1, <2>4 DEF Watched
  <2>6. QED
    BY <2>1, <2>2, <2>3, <2>4, <2>5 DEF Current, StoreHolds
<1>9. RulesComing'
  <2>1. SUFFICES ASSUME ~behind'["rules"], ~store'.rules.loaded,
                        requests'["bootstrap"].stage = "idle", requests'["reload"].stage = "idle"
                 PROVE  \E i \in DOMAIN frames' : Wipes(frames'[i])
    BY DEF RulesComing
  <2>2. requests["bootstrap"].stage = "idle" /\ requests["reload"].stage = "idle"
    BY <2>1 DEF CellsStill
  <2>3. ~behind["rules"] /\ ~store.rules.loaded
    BY <1>1, <2>1, RulesAndTokens
  <2>4. QED
    BY <1>1, <2>2, <2>3 DEF Current, RulesComing
<1>10. AskedFor'
  BY <1>2, <1>3 DEF Current, AskedFor
<1>11. QED
  BY <1>5, <1>6, <1>7, <1>8, <1>9, <1>10 DEF Current

\* A dropped socket leaves behind what its frames were about.
LEMMA DropCurrent ==
  ASSUME TypeOK, Current, Drop
  PROVE  Current'
<1>1. /\ frames' = <<>> /\ connected' = FALSE /\ UNCHANGED <<rules, expired, templates, changes, store, gate>>
      /\ \A g \in Gets :
           /\ Older(requests[g], requests'[g])
           /\ \A i \in DOMAIN frames : PassesBy(frames[i], g) => requests'[g].old = TRUE
      /\ \A c \in Collections :
           behind'[c] <=> behind[c] \/ \E i \in DOMAIN frames : c \in Concerned(frames[i])
      /\ frames = <<>> => echo' = echo
      /\ echo'.pending = echo.pending
      /\ frames # <<>> /\ echo.pending =>
           /\ echo'.frame = echo.frame
           /\ echo'.old = IF Last(frames).at > echo.frame.at THEN Collections ELSE echo.old
           /\ echo'.heard <=> echo.heard \/ Last(frames).at >= echo.frame.at
  BY DropFacts DEF serverVars
<1>2. /\ \A k, r : Here(k, r)' = Here(k, r)
      /\ \A k, r : Watched(k, r)' <=> Watched(k, r)
      /\ DOMAIN frames' = {}
  BY <1>1 DEF Here, Watched
<1>3. /\ frames \in Seq(Frames) /\ changes \in Nat
      /\ \A i \in DOMAIN frames : frames[i] \in Frames /\ frames[i].at \in Nat
      /\ DOMAIN frames = 1 .. Len(frames) /\ Len(frames) \in Nat
  BY FramesTyped
<1>4. \A g \in Gets : requests'[g].stage = requests[g].stage
  BY <1>1, OlderStages
\* The last frame has the latest stamp.
<1>5. ASSUME frames # <<>>
      PROVE  /\ Last(frames).at \in Nat
             /\ \A i \in DOMAIN frames : frames[i].at <= Last(frames).at
  <2>1. Len(frames) \in DOMAIN frames /\ Last(frames) = frames[Len(frames)]
    BY <1>3, <1>5, LastOf
  <2>2. \A i \in DOMAIN frames : i <= Len(frames)
    BY <1>3
  <2>3. QED
    BY <1>3, <2>1, <2>2 DEF Current, WireOrder
<1>6. echo'.pending => echo.pending /\ echo'.frame = echo.frame
  <2>1. CASE frames = <<>>
    BY <1>1, <2>1
  <2>2. CASE frames # <<>>
    BY <1>1, <2>2
  <2>3. QED
    BY <2>1, <2>2
<1>7. WireOrder'
  <2>1. \A g \in Gets : requests'[g].stage = "answered" => requests'[g].at <= changes
    BY <1>1, OlderAnswers DEF Current, WireOrder
  <2>2. ASSUME echo'.pending PROVE echo'.heard
    <3>1. SUFFICES ASSUME ~echo'.heard PROVE FALSE
      OBVIOUS
    <3>2. echo.pending /\ ~echo.heard
      <4>1. CASE frames = <<>>
        BY <1>1, <1>6, <2>2, <3>1, <4>1
      <4>2. CASE frames # <<>>
        BY <1>1, <1>6, <2>2, <3>1, <4>2
      <4>3. QED
        BY <4>1, <4>2
    <3>3. PICK i \in DOMAIN frames : frames[i] = echo.frame
      BY <3>2 DEF Current, WireOrder
    <3>4. frames # <<>> /\ echo.frame.at <= Last(frames).at /\ echo.frame.at \in Nat
      BY <1>3, <1>5, <3>3
    <3>5. Last(frames).at >= echo.frame.at
      BY <1>5, <3>4
    <3>6. QED
      BY <1>1, <3>1, <3>2, <3>4, <3>5
  <2>3. echo'.pending => echo'.frame.at <= changes /\ echo'.frame.type # "template"
    BY <1>6 DEF Current, WireOrder
  <2>4. QED
    BY <1>1, <1>2, <2>1, <2>2, <2>3 DEF WireOrder
<1>8. FramesTell'
  BY <1>2 DEF FramesTell
<1>9. AnswersHold'
  <2>1. SUFFICES ASSUME NEW g \in Gets, NEW k \in About(g) \cap Cells, NEW r \in Int,
                        requests'[g].stage = "answered", ~requests'[g].old, Watched(k, r)
                 PROVE  ValueIn(requests'[g].data[k], k, r) = Here(k, r)
    BY <1>2 DEF AnswersHold
  <2>2. requests'[g] = requests[g] /\ requests[g].stage = "answered" /\ ~requests[g].old
        /\ requests[g].at \in Nat
    BY <1>1, <2>1, OlderAnswer
  <2>3. ~Coming(frames, k, r, requests[g].at)
    <3>1. SUFFICES ASSUME NEW i \in DOMAIN frames, Touches(frames[i], k, r), frames[i].at > requests[g].at
                   PROVE  FALSE
      BY DEF Coming
    <3>2. k \in Concerned(frames[i])
      BY <1>3, <2>1, <3>1, ConcernsWhatItTouches DEF Watched
    <3>3. requests[g].at < frames[i].at /\ g # "older"
      BY <1>3, <2>1, <2>2, <3>1, AboutIs, RulesAndTokens
    <3>4. PassesBy(frames[i], g)
      BY <2>1, <2>2, <3>2, <3>3 DEF PassesBy
    <3>5. QED
      BY <1>1, <2>1, <3>4
  <2>4. QED
    BY <2>1, <2>2, <2>3 DEF Current, AnswersHold
<1>10. EchoTells'
  <2>1. SUFFICES ASSUME NEW k \in {"rules", "tokens"}, NEW r \in Int,
                        echo'.pending, k \notin echo'.old, Touches(echo'.frame, k, r)
                 PROVE  Says(echo'.frame, k, Here(k, r))
    BY <1>2 DEF EchoTells
  <2>2. k \in Collections
    BY RulesAndTokens
  <2>3. echo.pending /\ echo'.frame = echo.frame /\ echo.frame.at \in Nat
    BY <1>6, <2>1, EchoAt
  <2>4. CASE frames = <<>>
    <3>1. ~Coming(frames, k, r, echo.frame.at)
      BY <2>4 DEF Coming
    <3>2. QED
      BY <1>1, <2>1, <2>3, <2>4, <3>1 DEF Current, EchoTells
  <2>5. CASE frames # <<>>
    <3>1. ~(Last(frames).at > echo.frame.at) /\ k \notin echo.old
      BY <1>1, <2>1, <2>2, <2>3, <2>5
    <3>2. ~Coming(frames, k, r, echo.frame.at)
      BY <1>3, <1>5, <2>3, <2>5, <3>1 DEF Coming
    <3>3. QED
      BY <2>1, <2>3, <3>1, <3>2 DEF Current, EchoTells
  <2>6. QED
    BY <2>4, <2>5
<1>11. StoreHolds'
  <2>1. SUFFICES ASSUME NEW k \in Cells, NEW r \in Int, Held(store, k).loaded, ~behind'[k], Watched(k, r),
                        k = "templates" => requests'["templates"].stage = "idle"
                 PROVE  ValueIn(Held(store, k).data, k, r) = Here(k, r)
    BY <1>1, <1>2 DEF StoreHolds, Held
  <2>2. ~behind[k] /\ \A i \in DOMAIN frames : k \notin Concerned(frames[i])
    BY <1>1, <2>1, RulesAndTokens
  <2>3. ~Coming(frames, k, r, 0)
    <3>1. SUFFICES ASSUME NEW i \in DOMAIN frames, Touches(frames[i], k, r) PROVE FALSE
      BY DEF Coming
    <3>2. k \in Concerned(frames[i])
      BY <1>3, <2>1, <3>1, ConcernsWhatItTouches DEF Watched
    <3>3. QED
      BY <2>2, <3>2
  <2>4. k = "templates" => requests["templates"].stage = "idle"
    BY <1>4, <2>1, GetNames
  <2>5. QED
    BY <2>1, <2>2, <2>3, <2>4 DEF Current, StoreHolds
<1>12. RulesComing'
  <2>1. SUFFICES ASSUME ~behind'["rules"], ~store.rules.loaded,
                        requests'["bootstrap"].stage = "idle", requests'["reload"].stage = "idle"
                 PROVE  FALSE
    BY <1>1 DEF RulesComing
  <2>2. ~behind["rules"] /\ \A i \in DOMAIN frames : "rules" \notin Concerned(frames[i])
    BY <1>1, <2>1, RulesAndTokens
  <2>3. requests["bootstrap"].stage = "idle" /\ requests["reload"].stage = "idle"
    BY <1>4, <2>1, GetNames
  <2>4. PICK i \in DOMAIN frames : Wipes(frames[i])
    BY <2>1, <2>2, <2>3 DEF Current, RulesComing
  <2>5. "rules" \in Concerned(frames[i])
    BY <2>4 DEF Concerned, Wipes, Collections
  <2>6. QED
    BY <2>2, <2>5
<1>13. AskedFor'
  <2>1. requests["templates"].stage # "idle" => requests'["templates"].arg = requests["templates"].arg
    BY <1>1, GetNames DEF Older
  <2>2. QED
    BY <1>1, <1>4, <2>1, GetNames DEF AskedFor, Current
<1>14. QED
  BY <1>7, <1>8, <1>9, <1>10, <1>11, <1>12, <1>13 DEF Current

\* An answer that lands brings what it was right about.
LEMMA LandCurrent ==
  ASSUME TypeOK, Current, NEW g \in Gets, Landed(g), gate'.asked = gate.asked
  PROVE  Current'
<1>1. /\ requests[g].stage = "answered" /\ requests'[g] = Idle /\ Idle.stage = "idle"
      /\ \A h \in Gets : h # g => requests'[h] = requests[h]
      /\ UNCHANGED <<rules, expired, templates, changes, connected, frames, echo, imports>>
      /\ \A k \in Cells :
           IF k \in About(g)
           THEN Held(store', k) = Loaded(requests[g].data[k]) /\ behind'[k] = requests[g].old
           ELSE Held(store', k) = Held(store, k) /\ behind'[k] = behind[k]
  BY DEF Landed, serverVars, Idle
<1>2. /\ \A k, r : Here(k, r)' = Here(k, r)
      /\ \A k, r : Watched(k, r)' <=> Watched(k, r)
  BY <1>1 DEF Here, Watched
<1>3. WireOrder'
  BY <1>1 DEF Current, WireOrder
<1>4. FramesTell' /\ EchoTells'
  BY <1>1, <1>2 DEF Current, FramesTell, EchoTells
<1>5. AnswersHold'
  <2>1. SUFFICES ASSUME NEW h \in Gets, NEW k \in About(h) \cap Cells, NEW r \in Int,
                        requests'[h].stage = "answered", ~requests'[h].old, Watched(k, r),
                        ~Coming(frames, k, r, requests'[h].at)
                 PROVE  ValueIn(requests'[h].data[k], k, r) = Here(k, r)
    BY <1>1, <1>2 DEF AnswersHold
  <2>2. requests'[h] = requests[h]
    BY <1>1, <2>1
  <2>3. QED
    BY <2>1, <2>2 DEF Current, AnswersHold
<1>6. StoreHolds'
  <2>1. SUFFICES ASSUME NEW k \in Cells, NEW r \in Int, Held(store', k).loaded, ~behind'[k], Watched(k, r),
                        k = "templates" => requests'["templates"].stage = "idle", ~Coming(frames, k, r, 0)
                 PROVE  ValueIn(Held(store', k).data, k, r) = Here(k, r)
    BY <1>1, <1>2 DEF StoreHolds, Held
  <2>2. CASE k \in About(g)
    <3>1. Held(store', k) = Loaded(requests[g].data[k]) /\ ~requests[g].old
      BY <1>1, <2>1, <2>2
    <3>2. requests[g].at \in Nat /\ 0 <= requests[g].at
      BY <1>1, AnswerIs DEF Answered
    <3>3. ~Coming(frames, k, r, requests[g].at)
      BY <2>1, <3>2, ComingLater, FramesTyped
    <3>4. ValueIn(requests[g].data[k], k, r) = Here(k, r)
      BY <1>1, <2>1, <2>2, <3>1, <3>3 DEF Current, AnswersHold
    <3>5. QED
      BY <3>1, <3>4 DEF Loaded
  <2>3. CASE k \notin About(g)
    <3>1. Held(store', k) = Held(store, k) /\ ~behind[k]
      BY <1>1, <2>1, <2>3
    <3>2. k = "templates" => g # "templates"
      BY <2>3, AboutIs
    <3>3. k = "templates" => requests["templates"].stage = "idle"
      BY <1>1, <2>1, <3>2, GetNames
    <3>4. QED
      BY <2>1, <3>1, <3>3 DEF Current, StoreHolds
  <2>4. QED
    BY <2>2, <2>3
<1>7. RulesComing'
  <2>1. SUFFICES ASSUME ~behind'["rules"], ~store'.rules.loaded,
                        requests'["bootstrap"].stage = "idle", requests'["reload"].stage = "idle"
                 PROVE  \E i \in DOMAIN frames : Wipes(frames[i])
    BY <1>1 DEF RulesComing
  <2>2. "rules" \notin About(g)
    <3>1. SUFFICES ASSUME "rules" \in About(g) PROVE FALSE
      OBVIOUS
    <3>2. store'.rules = Loaded(requests[g].data["rules"])
      BY <1>1, <3>1, RulesAndTokens DEF Held
    <3>3. QED
      BY <2>1, <3>2 DEF Loaded
  <2>3. g \notin {"bootstrap", "reload"}
    BY <2>2, AboutIs
  <2>4. ~behind["rules"] /\ ~store.rules.loaded
    BY <1>1, <2>1, <2>2, RulesAndTokens DEF Held
  <2>5. requests["bootstrap"].stage = "idle" /\ requests["reload"].stage = "idle"
    BY <1>1, <2>1, <2>3, GetNames
  <2>6. QED
    BY <2>4, <2>5 DEF Current, RulesComing
<1>8. AskedFor'
  <2>1. CASE g = "templates"
    BY <1>1, <2>1 DEF AskedFor
  <2>2. CASE g # "templates"
    <3>1. requests'["templates"] = requests["templates"]
      BY <1>1, <2>2, GetNames
    <3>2. QED
      BY <3>1 DEF Current, AskedFor
  <2>3. QED
    BY <2>1, <2>2
<1>9. QED
  BY <1>3, <1>4, <1>5, <1>6, <1>7, <1>8 DEF Current

-----------------------------------------------------------------------------
(* Frames arrive *)

\* The frame says what the cell is after it.
Explicit(f, k) ==
  /\ f.type \notin {"waba", "state.imported"}
  /\ f.type = "state.reset" => k # "templates"

\* A frame that says what a cell is says one thing.
LEMMA SaysOne ==
  ASSUME NEW f, NEW k \in Cells, NEW r, Touches(f, k, r), Explicit(f, k),
         NEW v, NEW w, Says(f, k, v), Says(f, k, w)
  PROVE  v = w
<1>1. CASE f.type = "rule"
  BY <1>1 DEF Says
<1>2. CASE f.type = "token"
  BY <1>2 DEF Says
<1>3. CASE f.type = "template"
  BY <1>3 DEF Says
<1>4. CASE f.type = "state.reset"
  BY <1>4 DEF Says, Explicit, Cells
<1>5. QED
  BY <1>1, <1>2, <1>3, <1>4 DEF Touches, Explicit, Wipes

\* A cell that is loaded after a frame about it is what the frame says, or it is the
\* template of an account that was deleted.
LEMMA ApplySays ==
  ASSUME NEW st, IsStore(st), NEW f \in Frames, NEW k \in Cells, NEW r, Touches(f, k, r),
         Held(Apply(st, f), k).loaded
  PROVE  \/ Explicit(f, k)
         \/ /\ f.type = "waba" /\ f.body.change = "deleted" /\ f.body.id = r /\ k = "templates"
            /\ Held(Apply(st, f), k) = Held(st, k)
<1>1. CASE f.type = "waba"
  <2>1. f.body \in WabaBodies /\ Apply(st, f) = ApplyWabaChange(st, f.body)
    BY <1>1, FrameIs, Bodies DEF Apply
  <2>2. Apply(st, f).templates = st.templates
    BY <2>1, ApplyWabaFacts
  <2>3. k = "templates" /\ f.body.change = "deleted" /\ f.body.id = r
    BY <1>1 DEF Touches, Wipes
  <2>4. QED
    BY <1>1, <2>2, <2>3 DEF Held
<1>2. CASE Wipes(f)
  <2>1. Apply(st, f) = ApplyWipe(st, f.type, f.body)
    BY <1>2 DEF Apply, Wipes
  <2>2. /\ NotLoaded.loaded = FALSE /\ Apply(st, f).templates = NotLoaded
        /\ f.type # "state.reset" => Apply(st, f).rules = NotLoaded
        /\ f.type # "state.reset" => Apply(st, f).tokens = NotLoaded
    <3> DEFINE w == ApplyWipe(st, f.type, f.body)
    <3>1. /\ w.rules = IF f.type = "state.reset" THEN Loaded(<<>>) ELSE NotLoaded
          /\ w.tokens = IF f.type = "state.reset" /\ st.tokens.loaded THEN Loaded(FALSE) ELSE NotLoaded
          /\ w.templates = NotLoaded /\ NotLoaded.loaded = FALSE
      BY <1>2, WipedCells
    <3> HIDE DEF w
    <3>2. w = Apply(st, f)
      BY <2>1 DEF w
    <3>3. QED
      BY <3>1, <3>2
  <2>3. k # "templates" /\ f.type = "state.reset"
    BY <2>2 DEF Held, Cells
  <2>4. QED
    BY <2>3 DEF Explicit
<1>3. CASE f.type # "waba" /\ ~Wipes(f)
  BY <1>3 DEF Explicit, Wipes
<1>4. QED
  BY <1>1, <1>2, <1>3

\* A frame that arrives brings what was coming.
LEMMA ReceiveCurrent ==
  ASSUME TypeOK, RulesDistinct(store), Current, Receive
  PROVE  Current'
<1> DEFINE f == Head(frames)
           st == Apply(store, f)
<1>1. /\ frames # <<>> /\ f \in Frames
      /\ Dispatch(st) /\ Applied(store, st, f)
      /\ frames' = Tail(frames) /\ echo' = EchoPassedBy(f)
      /\ UNCHANGED <<rules, expired, templates, changes, connected, imports>>
      /\ \A g \in Gets :
           IF Wipes(f) /\ g = "reload" THEN requests'[g] = Sent(0)
           ELSE /\ Older(requests[g], requests'[g])
                /\ PassesBy(f, g) => requests'[g].old = TRUE
      /\ \A c \in Collections : behind'[c] <=> Behind(f, c)
  BY ReceiveFacts DEF serverVars
<1>2. /\ frames \in Seq(Frames) /\ Len(frames) \in Nat \ {0} /\ DOMAIN frames = 1 .. Len(frames)
      /\ \A i \in DOMAIN frames : frames[i] \in Frames /\ frames[i].at \in Nat
      /\ frames[1] = f /\ 1 \in DOMAIN frames /\ changes \in Nat /\ f.at \in Nat
      /\ IsEcho(echo) /\ Concerned(f) \subseteq Collections
  <2>1. IsEcho(echo) /\ Concerned(f) \subseteq Collections
    BY <1>1, ConcernedIn DEF TypeOK, WireTypes
  <2>2. Len(frames) \in Nat \ {0} /\ frames[1] = f
    BY <1>1, FramesTyped
  <2>3. QED
    BY <2>1, <2>2, FramesTyped
<1>3. /\ \A i \in DOMAIN frames' : i + 1 \in DOMAIN frames /\ frames'[i] = frames[i + 1]
      /\ \A i \in DOMAIN frames : i # 1 => i - 1 \in DOMAIN frames' /\ frames'[i - 1] = frames[i]
      /\ \A i \in DOMAIN frames' : i \in Nat
  BY <1>1, <1>2
<1>4. store' = st /\ gate'.asked = gate.asked
  BY <1>1, DispatchFacts DEF Applied
<1> HIDE DEF st, f
<1>5. /\ \A k, r : Here(k, r)' = Here(k, r)
      /\ \A k, r : Watched(k, r)' <=> Watched(k, r)
  BY <1>1, <1>4 DEF Here, Watched
<1>6. \A i \in DOMAIN frames : f.at <= frames[i].at
  BY <1>2 DEF Current, WireOrder
<1>7. ASSUME NEW k, NEW r, NEW n \in Nat, ~Coming(frames', k, r, n), Touches(f, k, r) => f.at <= n
      PROVE  ~Coming(frames, k, r, n)
  <2>1. SUFFICES ASSUME NEW i \in DOMAIN frames, Touches(frames[i], k, r), frames[i].at > n
                 PROVE  FALSE
    BY DEF Coming
  <2>2. i # 1
    BY <1>2, <1>7, <2>1
  <2>3. QED
    BY <1>3, <1>7, <2>1, <2>2 DEF Coming
<1>8. /\ echo'.pending = echo.pending
      /\ echo.pending =>
           /\ echo'.frame = echo.frame
           /\ echo'.old = IF f.at > echo.frame.at THEN echo.old \cup Concerned(f) ELSE echo.old
           /\ echo'.heard <=> echo.heard \/ f.at >= echo.frame.at
  BY <1>1, <1>2, EchoPassed
<1>9. WireOrder'
  <2>1. connected
    BY <1>1 DEF Current, WireOrder
  <2>2. \A i \in DOMAIN frames' : frames'[i].at \in 1 .. changes
    BY <1>3 DEF Current, WireOrder
  <2>3. \A i, j \in DOMAIN frames' : i <= j => frames'[i].at <= frames'[j].at
    BY <1>3 DEF Current, WireOrder
  <2>4. \A g \in Gets : requests'[g].stage = "answered" => requests'[g].at <= changes
    <3>1. TAKE g \in Gets
    <3>2. HAVE requests'[g].stage = "answered"
    <3>3. Older(requests[g], requests'[g])
      BY <1>1, <3>2, IdleOrSent
    <3>4. QED
      BY <3>2, <3>3, OlderAnswers DEF Current, WireOrder
  <2>5. echo'.pending => echo'.frame.at <= changes /\ echo'.frame.type # "template"
    BY <1>8 DEF Current, WireOrder
  <2>6. ASSUME echo'.pending, ~echo'.heard
        PROVE  \E i \in DOMAIN frames' : frames'[i] = echo'.frame
    <3>1. echo.pending /\ ~echo.heard /\ ~(f.at >= echo.frame.at)
      BY <1>8, <2>6
    <3>2. PICK i \in DOMAIN frames : frames[i] = echo.frame
      BY <3>1 DEF Current, WireOrder
    <3>3. i # 1
      BY <1>2, <3>1, <3>2
    <3>4. QED
      BY <1>3, <1>8, <3>1, <3>2, <3>3
  <2>7. QED
    BY <1>1, <2>1, <2>2, <2>3, <2>4, <2>5, <2>6 DEF WireOrder
<1>10. FramesTell'
  <2>1. SUFFICES ASSUME NEW k \in Cells, NEW r \in Int, NEW i \in DOMAIN frames',
                        frames'[i].at > imports.at, Touches(frames'[i], k, r),
                        ~Coming(frames', k, r, frames'[i].at)
                 PROVE  Says(frames'[i], k, Here(k, r))
    BY <1>1, <1>5 DEF FramesTell
  <2>2. PICK j \in DOMAIN frames : frames[j] = frames'[i]
    BY <1>3
  <2>3. ~Coming(frames, k, r, frames[j].at)
    BY <1>2, <1>6, <1>7, <2>1, <2>2
  <2>4. QED
    BY <2>1, <2>2, <2>3 DEF Current, FramesTell
<1>11. AnswersHold'
  <2>1. SUFFICES ASSUME NEW g \in Gets, NEW k \in About(g) \cap Cells, NEW r \in Int,
                        requests'[g].stage = "answered", ~requests'[g].old, Watched(k, r),
                        ~Coming(frames', k, r, requests'[g].at)
                 PROVE  ValueIn(requests'[g].data[k], k, r) = Here(k, r)
    BY <1>5 DEF AnswersHold
  <2>2. ~(Wipes(f) /\ g = "reload")
    BY <1>1, <2>1, IdleOrSent
  <2>3. requests'[g] = requests[g] /\ requests[g].stage = "answered" /\ ~requests[g].old
        /\ requests[g].at \in Nat
    BY <1>1, <2>1, <2>2, OlderAnswer
  <2>4. Touches(f, k, r) => f.at <= requests[g].at
    <3>1. SUFFICES ASSUME Touches(f, k, r), ~(f.at <= requests[g].at) PROVE FALSE
      OBVIOUS
    <3>2. k \in Concerned(f)
      BY <1>1, <2>1, <3>1, ConcernsWhatItTouches DEF Watched
    <3>3. requests[g].at < f.at /\ g # "older"
      BY <1>2, <2>1, <2>3, <3>1, AboutIs, RulesAndTokens
    <3>4. PassesBy(f, g)
      BY <2>1, <2>3, <3>2, <3>3 DEF PassesBy
    <3>5. QED
      BY <1>1, <2>1, <2>2, <3>4
  <2>5. ~Coming(frames, k, r, requests[g].at)
    BY <1>7, <2>1, <2>3, <2>4
  <2>6. QED
    BY <2>1, <2>3, <2>5 DEF Current, AnswersHold
<1>12. EchoTells'
  <2>1. SUFFICES ASSUME NEW k \in {"rules", "tokens"}, NEW r \in Int,
                        echo'.pending, k \notin echo'.old, Touches(echo'.frame, k, r),
                        ~Coming(frames', k, r, echo'.frame.at)
                 PROVE  Says(echo'.frame, k, Here(k, r))
    BY <1>5 DEF EchoTells
  <2>2. k \in Cells /\ k # "templates"
    BY RulesAndTokens
  <2>3. echo.pending /\ echo'.frame = echo.frame /\ echo.frame.at \in Nat /\ k \notin echo.old
    BY <1>8, <2>1, EchoAt
  <2>4. Touches(f, k, r) => f.at <= echo.frame.at
    <3>1. SUFFICES ASSUME Touches(f, k, r), ~(f.at <= echo.frame.at) PROVE FALSE
      OBVIOUS
    <3>2. k \in Concerned(f)
      BY <1>1, <2>2, <3>1, ConcernsWhatItTouches
    <3>3. f.at > echo.frame.at
      BY <1>2, <2>3, <3>1
    <3>4. QED
      BY <1>8, <2>1, <2>3, <3>2, <3>3
  <2>5. ~Coming(frames, k, r, echo.frame.at)
    BY <1>7, <2>1, <2>3, <2>4
  <2>6. QED
    BY <2>1, <2>3, <2>5 DEF Current, EchoTells
<1>13. requests'["templates"].stage = requests["templates"].stage
       /\ (requests["templates"].stage # "idle" => requests'["templates"].arg = requests["templates"].arg)
  <2>1. Older(requests["templates"], requests'["templates"])
    BY <1>1, GetNames
  <2>2. QED
    BY <2>1 DEF Older
<1>14. StoreHolds'
  <2>1. SUFFICES ASSUME NEW k \in Cells, NEW r \in Int, Held(st, k).loaded, ~behind'[k], Watched(k, r),
                        k = "templates" => requests'["templates"].stage = "idle",
                        ~Coming(frames', k, r, 0)
                 PROVE  ValueIn(Held(st, k).data, k, r) = Here(k, r)
    BY <1>4, <1>5 DEF StoreHolds, Held
  <2>2. CASE ~Touches(f, k, r)
    <3>1. Held(store, k).loaded /\ ValueIn(Held(st, k).data, k, r) = ValueIn(Held(store, k).data, k, r)
      BY <1>1, <2>1, <2>2 DEF Applied
    <3>2. ~Wipes(f)
      BY <2>2 DEF Touches
    <3>3. ~behind[k]
      BY <1>1, <2>1, <3>2, RulesAndTokens DEF Behind
    <3>4. ~Coming(frames, k, r, 0)
      BY <1>7, <2>1, <2>2
    <3>5. QED
      BY <1>13, <2>1, <3>1, <3>3, <3>4 DEF Current, StoreHolds
  <2>3. CASE Touches(f, k, r)
    <3>1. Explicit(f, k)
      <4>1. SUFFICES ASSUME ~Explicit(f, k) PROVE FALSE
        OBVIOUS
      <4>2. f.type = "waba" /\ f.body.change = "deleted" /\ f.body.id = r /\ k = "templates"
        BY <1>1, <2>1, <2>3, <4>1, ApplySays DEF TypeOK, st
      <4>3. TakesTemplates(f) /\ ~Wipes(f)
        BY <2>1, <4>2 DEF TakesTemplates, Wipes, Watched
      <4>4. behind'[k]
        BY <1>1, <4>2, <4>3, RulesAndTokens DEF Behind
      <4>5. QED
        BY <2>1, <4>4
    <3>2. Says(f, k, ValueIn(Held(st, k).data, k, r))
      BY <1>1, <2>1, <2>3 DEF Applied
    <3>3. ~Coming(frames, k, r, f.at)
      <4>1. frames' \in Seq(Frames)
        BY <1>1, <1>2
      <4>2. ~Coming(frames', k, r, f.at)
        BY <1>2, <2>1, <4>1, ComingLater
      <4>3. QED
        BY <1>2, <1>7, <4>2
    <3>4. f.at > imports.at
      <4>1. k \in Concerned(f) /\ k \in Collections
        BY <1>1, <2>1, <2>3, ConcernsWhatItTouches DEF Watched
      <4>2. ~(f.at <= imports.at)
        BY <1>1, <2>1, <4>1 DEF Behind
      <4>3. QED
        BY <1>2, <4>2 DEF TypeOK, ServerTypes
    <3>5. Says(f, k, Here(k, r))
      BY <1>2, <2>3, <3>3, <3>4 DEF Current, FramesTell
    <3>6. QED
      BY <2>3, <3>1, <3>2, <3>5, SaysOne
  <2>4. QED
    BY <2>2, <2>3
<1>15. RulesComing'
  <2>1. SUFFICES ASSUME ~behind'["rules"], ~st.rules.loaded,
                        requests'["bootstrap"].stage = "idle", requests'["reload"].stage = "idle"
                 PROVE  \E i \in DOMAIN frames' : Wipes(frames'[i])
    BY <1>4 DEF RulesComing
  <2>2. ~Wipes(f)
    BY <1>1, <2>1, IdleOrSent, GetNames
  <2>3. ~behind["rules"] /\ ~store.rules.loaded
    BY <1>1, <2>1, <2>2, RulesAndTokens DEF Applied, Wipes, Behind
  <2>4. requests["bootstrap"].stage = "idle" /\ requests["reload"].stage = "idle"
    BY <1>1, <2>1, <2>2, GetNames, OlderStages
  <2>5. PICK i \in DOMAIN frames : Wipes(frames[i])
    BY <2>3, <2>4 DEF Current, RulesComing
  <2>6. i # 1
    BY <1>2, <2>2, <2>5
  <2>7. QED
    BY <1>3, <2>5, <2>6
<1>16. AskedFor'
  BY <1>4, <1>13 DEF Current, AskedFor
<1>17. QED
  BY <1>9, <1>10, <1>11, <1>12, <1>14, <1>15, <1>16 DEF Current

\* The awaited answer, too, if nothing about the cell has gone by.
LEMMA EchoCurrent ==
  ASSUME TypeOK, RulesDistinct(store), Current, NEW go \in BOOLEAN, ReceiveEcho(go)
  PROVE  Current'
<1> DEFINE f == echo.frame
           st == Apply(store, f)
<1>1. /\ echo.pending /\ f \in Frames
      /\ Dispatch(st) /\ Applied(store, st, f)
      /\ echo' = NoEcho
      /\ UNCHANGED <<rules, expired, templates, changes, connected, frames, requests, imports>>
      /\ \A c \in Collections :
           /\ c \in echo.old /\ c \in Concerned(f) => behind'[c]
           /\ ~Wipes(f) /\ ~(c \in echo.old /\ c \in Concerned(f)) => behind'[c] = behind[c]
           /\ Wipes(f) /\ c = "rules" /\ c \notin echo.old =>
                (behind'[c] <=> f.type = "state.imported" /\ echo.heard
                                /\ requests["reload"].stage = "idle")
  BY ReceiveEchoFacts DEF serverVars
<1>2. store' = st /\ gate'.asked = gate.asked
  BY <1>1, DispatchFacts DEF Applied
<1>3. ~echo'.pending
  BY <1>1 DEF NoEcho
<1>4. frames \in Seq(Frames) /\ f.at \in Nat
  BY <1>1, FramesTyped, EchoAt
<1>5. f.type = "state.reset" => st.rules.loaded
  BY <1>1, WipedCells DEF Apply, Wipes, TypeOK
<1>6. /\ f.type # "template"
      /\ ~echo.heard => \E i \in DOMAIN frames : frames[i] = f
  BY <1>1 DEF Current, WireOrder
<1>7. \A k \in {"rules", "tokens"}, r \in Int :
        k \notin echo.old /\ Touches(f, k, r) /\ ~Coming(frames, k, r, f.at) => Says(f, k, Here(k, r))
  BY <1>1 DEF Current, EchoTells
<1> HIDE DEF f, st
<1>8. /\ \A k, r : Here(k, r)' = Here(k, r)
      /\ \A k, r : Watched(k, r)' <=> Watched(k, r)
  BY <1>1, <1>2 DEF Here, Watched
<1>9. WireOrder'
  BY <1>1, <1>3 DEF Current, WireOrder
<1>10. FramesTell' /\ AnswersHold'
  BY <1>1, <1>8 DEF Current, FramesTell, AnswersHold
<1>11. EchoTells'
  BY <1>3 DEF EchoTells
<1>12. StoreHolds'
  <2>1. SUFFICES ASSUME NEW k \in Cells, NEW r \in Int, Held(st, k).loaded, ~behind'[k], Watched(k, r),
                        k = "templates" => requests["templates"].stage = "idle",
                        ~Coming(frames, k, r, 0)
                 PROVE  ValueIn(Held(st, k).data, k, r) = Here(k, r)
    BY <1>1, <1>2, <1>8 DEF StoreHolds, Held
  <2>2. k \in Collections /\ ~(k \in echo.old /\ k \in Concerned(f))
    BY <1>1, <2>1, RulesAndTokens
  <2>3. ~Wipes(f) => ~behind[k]
    BY <1>1, <2>1, <2>2
  <2>4. CASE ~Touches(f, k, r)
    <3>1. Held(store, k).loaded /\ ValueIn(Held(st, k).data, k, r) = ValueIn(Held(store, k).data, k, r)
      BY <1>1, <2>1, <2>4 DEF Applied
    <3>2. ~behind[k]
      BY <2>3, <2>4 DEF Touches
    <3>3. QED
      BY <2>1, <3>1, <3>2 DEF Current, StoreHolds
  <2>5. CASE Touches(f, k, r)
    <3>1. CASE Explicit(f, k)
      <4>1. k # "templates"
        BY <1>6, <2>5, <3>1 DEF Touches, Explicit, Wipes
      <4>2. k \in {"rules", "tokens"}
        BY <4>1 DEF Cells
      <4>3. k \notin echo.old
        BY <1>1, <2>2, <2>5, <4>1, ConcernsWhatItTouches
      <4>4. ~Coming(frames, k, r, f.at)
        BY <1>4, <2>1, ComingLater
      <4>5. Says(f, k, Here(k, r))
        BY <1>7, <2>5, <4>2, <4>3, <4>4
      <4>6. Says(f, k, ValueIn(Held(st, k).data, k, r))
        BY <1>1, <2>1, <2>5 DEF Applied
      <4>7. QED
        BY <2>5, <3>1, <4>5, <4>6, SaysOne
    <3>2. CASE ~Explicit(f, k)
      <4>1. f.type = "waba" /\ Held(st, k) = Held(store, k)
        BY <1>1, <2>1, <2>5, <3>2, ApplySays DEF TypeOK, st
      <4>2. ~behind[k]
        BY <2>3, <4>1 DEF Wipes
      <4>3. QED
        BY <2>1, <4>1, <4>2 DEF Current, StoreHolds
    <3>3. QED
      BY <3>1, <3>2
  <2>6. QED
    BY <2>4, <2>5
<1>13. RulesComing'
  <2>1. SUFFICES ASSUME ~behind'["rules"], ~st.rules.loaded,
                        requests["bootstrap"].stage = "idle", requests["reload"].stage = "idle"
                 PROVE  \E i \in DOMAIN frames : Wipes(frames[i])
    BY <1>1, <1>2 DEF RulesComing
  <2>2. "rules" \in Collections
    BY RulesAndTokens
  <2>3. CASE Wipes(f)
    <3>1. f.type = "state.imported" /\ "rules" \in Concerned(f)
      BY <1>5, <2>1, <2>2, <2>3 DEF Wipes, Concerned
    <3>2. "rules" \notin echo.old
      BY <1>1, <2>1, <2>2, <3>1
    <3>3. ~echo.heard
      BY <1>1, <2>1, <2>2, <2>3, <3>1, <3>2
    <3>4. QED
      BY <1>6, <2>3, <3>3
  <2>4. CASE ~Wipes(f)
    <3>1. ~behind["rules"]
      BY <1>1, <2>1, <2>2, <2>4
    <3>2. ~store.rules.loaded
      BY <1>1, <2>1, <2>4 DEF Applied, Wipes
    <3>3. QED
      BY <2>1, <3>1, <3>2 DEF Current, RulesComing
  <2>5. QED
    BY <2>3, <2>4
<1>14. AskedFor'
  BY <1>1, <1>2 DEF Current, AskedFor
<1>15. QED
  BY <1>9, <1>10, <1>11, <1>12, <1>13, <1>14 DEF Current

-----------------------------------------------------------------------------
(* The proof *)

\* An import that is swapped in leaves nothing to be right about.
LEMMA SwapCurrent ==
  ASSUME TypeOK, Current, Import
  PROVE  Current'
<1>1. Swapped
  BY ImportFacts
<1>2. /\ imports'.at = changes /\ changes \in Nat
      /\ UNCHANGED <<changes, connected, frames, store, gate>>
      /\ \A g \in Gets : Older(requests[g], requests'[g])
      /\ \A c \in Collections : behind'[c] = TRUE
  BY <1>1, FramesTyped DEF Swapped
<1>3. \A g \in Gets : requests'[g].stage = "answered" => requests'[g].at <= changes /\ requests'[g].old = TRUE
  <2>1. TAKE g \in Gets
  <2>2. HAVE requests'[g].stage = "answered"
  <2>3. requests[g].stage = "answered" /\ requests'[g].at = requests[g].at
    BY <1>2, <2>2, OlderAnswers
  <2>4. requests[g].at <= changes
    BY <2>3 DEF Current, WireOrder
  <2>5. QED
    BY <1>1, <2>2, <2>3, <2>4 DEF Swapped
<1>4. echo'.pending => /\ echo.pending /\ echo'.frame = echo.frame
                       /\ echo'.heard /\ echo'.old = Collections
  BY <1>1 DEF Swapped, Current, WireOrder
<1>5. WireOrder'
  BY <1>2, <1>3, <1>4 DEF Current, WireOrder
<1>6. FramesTell'
  <2>1. \A i \in DOMAIN frames : frames[i].at <= changes /\ frames[i].at \in Nat
    BY FramesTyped DEF Current, WireOrder
  <2>2. \A i \in DOMAIN frames : ~(frames[i].at > imports'.at)
    BY <1>2, <2>1
  <2>3. QED
    BY <1>2, <2>2 DEF FramesTell
<1>7. AnswersHold'
  BY <1>3 DEF AnswersHold
<1>8. EchoTells'
  BY <1>4, RulesAndTokens DEF EchoTells
<1>9. StoreHolds'
  BY <1>2, RulesAndTokens DEF StoreHolds
<1>10. RulesComing'
  BY <1>2, RulesAndTokens DEF RulesComing
<1>11. AskedFor'
  <2>1. Older(requests["templates"], requests'["templates"])
    BY <1>2, GetNames
  <2>2. QED
    BY <1>2, <2>1 DEF Older, Current, AskedFor
<1>12. QED
  BY <1>5, <1>6, <1>7, <1>8, <1>9, <1>10, <1>11 DEF Current

\* The tab opens with nothing loaded and the bootstrap sent.
LEMMA CurrentInit ==
  ASSUME Init
  PROVE  Current
<1>1. /\ frames = <<>> /\ DOMAIN frames = {} /\ echo = NoEcho /\ ~echo.pending
      /\ \A g \in Gets : requests[g].stage = IF g = "bootstrap" THEN "sent" ELSE "idle"
  <2>1. \A g \in Gets : requests[g] = IF g = "bootstrap" THEN Sent(0) ELSE Idle
    BY DEF Init
  <2>2. \A g \in Gets : requests[g].stage = IF g = "bootstrap" THEN "sent" ELSE "idle"
    BY <2>1, IdleOrSent
  <2>3. QED
    BY <2>2 DEF Init, NoEcho
<1>2. ~store.rules.loaded /\ ~store.tokens.loaded /\ ~store.templates.loaded
  BY DEF Init, NotLoaded
<1>3. WireOrder /\ FramesTell /\ EchoTells
  BY <1>1 DEF WireOrder, FramesTell, EchoTells
<1>4. AnswersHold
  BY <1>1 DEF AnswersHold
<1>5. StoreHolds
  BY <1>2 DEF StoreHolds, Held, Cells
<1>6. RulesComing /\ AskedFor
  BY <1>1, GetNames DEF RulesComing, AskedFor
<1>7. QED
  BY <1>3, <1>4, <1>5, <1>6 DEF Current

\* All the steps.
LEMMA CurrentStep ==
  ASSUME Types, Current, Next
  PROVE  Current'
<1>1. TypeOK /\ RulesDistinct(store)
  BY DEF Types
<1>2. ASSUME NEW fs, NEW mine \in BOOLEAN, ServerMoves(fs, mine) PROVE Current'
  BY <1>1, <1>2, ServerCurrent
<1>3. ASSUME NEW g \in Gets, Answer(g) PROVE Current'
  BY <1>1, <1>3, AnswerCurrent
<1>4. CASE CellsStill
  BY <1>1, <1>4, StillCurrent
<1>5. CASE Drop
  BY <1>1, <1>5, DropCurrent
<1>6. CASE Receive
  BY <1>1, <1>6, ReceiveCurrent
<1>7. ASSUME NEW go \in BOOLEAN, ReceiveEcho(go) PROVE Current'
  BY <1>1, <1>7, EchoCurrent
<1>8. ASSUME NEW g \in Gets, Landed(g), gate'.asked = gate.asked PROVE Current'
  BY <1>1, <1>8, LandCurrent
<1>9. CASE Import
  BY <1>1, <1>9, SwapCurrent
<1>10. QED
  BY <1>2, <1>3, <1>4, <1>5, <1>6, <1>7, <1>8, <1>9, CellSteps

\* Nothing changes when nothing happens.
LEMMA CurrentStutter ==
  ASSUME Current, UNCHANGED vars
  PROVE  Current'
<1>1. /\ \A k, r : Here(k, r)' = Here(k, r)
      /\ \A k, r : Watched(k, r)' <=> Watched(k, r)
  BY DEF Here, Watched, vars
<1>2. WireOrder' /\ FramesTell' /\ AnswersHold' /\ EchoTells' /\ StoreHolds' /\ RulesComing' /\ AskedFor'
  BY <1>1 DEF Current, WireOrder, FramesTell, AnswersHold, EchoTells, StoreHolds, RulesComing, AskedFor, vars
<1>3. QED
  BY <1>2 DEF Current

\* When nothing is coming any more the store holds what is here.
LEMMA CurrentIsTrue ==
  ASSUME Types, Current
  PROVE  BadgeIsTrue
<1>1. SUFFICES ASSUME Quiet
               PROVE  /\ ~behind["rules"] => store.rules.loaded /\ ToSet(store.rules.data) = ToSet(rules)
                      /\ store.tokens.loaded /\ ~behind["tokens"] => store.tokens.data = expired
                      /\ store.templates.loaded /\ ~behind["templates"] /\ gate.asked # 0 =>
                           store.templates.data[gate.asked] = templates[gate.asked]
  BY DEF BadgeIsTrue
<1>2. DOMAIN frames = {} /\ \A k, r : ~Coming(frames, k, r, 0)
  BY <1>1 DEF Quiet, Coming
<1>3. \A k \in Cells, r \in Int :
        Held(store, k).loaded /\ ~behind[k] /\ Watched(k, r) =>
          ValueIn(Held(store, k).data, k, r) = Here(k, r)
  BY <1>1, <1>2, GetNames DEF Quiet, Current, StoreHolds
<1>4. ASSUME ~behind["rules"]
      PROVE  store.rules.loaded /\ ToSet(store.rules.data) = ToSet(rules)
  <2>1. store.rules.loaded
    BY <1>1, <1>2, <1>4, GetNames DEF Quiet, Current, RulesComing
  <2>2. store.rules.data \in Seq(Rules) /\ rules \in Seq(Rules)
    BY <2>1, StoreFields, LoadsFacts DEF Types, TypeOK, ServerTypes
  <2>3. \A r \in Int : Status(store.rules.data, r) = Status(rules, r)
    BY <1>3, <1>4, <2>1 DEF Cells, Held, Watched, ValueIn, Here
  <2>4. ASSUME NEW x, x \in ToSet(store.rules.data) \/ x \in ToSet(rules) PROVE x.id \in Int
    <3>1. x \in Rules
      BY <2>2, <2>4 DEF ToSet
    <3>2. QED
      BY <3>1 DEF Rules
  <2>5. \A x : x \in ToSet(store.rules.data) <=> x \in ToSet(rules)
    BY <2>3, <2>4 DEF Status
  <2>6. QED
    BY <2>1, <2>5
<1>5. store.tokens.loaded /\ ~behind["tokens"] => store.tokens.data = expired
  <2>1. 0 \in Int
    OBVIOUS
  <2>2. QED
    BY <1>3, <2>1 DEF Cells, Held, Watched, ValueIn, Here
<1>6. store.templates.loaded /\ ~behind["templates"] /\ gate.asked # 0 =>
        store.templates.data[gate.asked] = templates[gate.asked]
  <2>1. gate.asked # 0 => gate.asked \in Int
    <3>1. PICK a : a = gate.asked
      OBVIOUS
    <3>2. a \in Accounts \cup {0} /\ Accounts \subseteq Nat
      BY <3>1, GateIs, ConsoleAssumption DEF Types
    <3>3. a # 0 => a \in Int
      BY <3>2
    <3>4. QED
      BY <3>1, <3>3
  <2>2. QED
    BY <1>3, <2>1 DEF Cells, Held, Watched, ValueIn, Here
<1>7. QED
  BY <1>4, <1>5, <1>6

\* injection-badge.tsx (5-15): no armed rule "can quietly confuse a developer".  The badge,
\* the token card and the template on screen say what the server has.
THEOREM BadgeTellsTheTruth == Spec => []BadgeIsTrue
<1>1. Init => Types /\ Current
  BY TypesInit, CurrentInit
<1>2. Types /\ Current /\ [Next]_vars => (Types /\ Current)'
  BY TypesStep, TypesStutter, CurrentStep, CurrentStutter
<1>3. Types /\ Current => BadgeIsTrue
  BY CurrentIsTrue
<1>4. QED
  BY <1>1, <1>2, <1>3, PTL DEF Spec

-----------------------------------------------------------------------------
(* The delivery log *)

\* The attempts there can have been.
Stamps == {d \in Attempts : d.id <= changes /\ d.time <= clock /\ d.time # 0}
Cursors == {t \in Int : t <= clock}

\* On their way to the log: the attempts announced after the change n, and a wipe after it.
Deliveries(fs, n) ==
  {d \in Attempts : \E i \in DOMAIN fs : fs[i].type = "delivery" /\ fs[i].body = d /\ fs[i].at > n}
Wiping(fs, n) == \E i \in DOMAIN fs : Wipes(fs[i]) /\ fs[i].at > n

\* Of the attempts S those down to a cursor.
Due(S, before) == {d \in S : before # 0 => d.time >= before}

\* The latest ones of the attempts S, down to the page's cursor, where some may be missing.
IsPage(page, S) ==
  /\ NewestFirst(page)
  /\ ToSet(page) \subseteq Due(S, Before(page))
  /\ {d \in S : Before(page) # 0 => d.time > Before(page)} \subseteq ToSet(page)

\* The log is sorted by time, an id is there once, and later ids are not earlier.
LogOrder ==
  /\ log \in Seq(Stamps)
  /\ \A i, j \in DOMAIN log : i < j => log[i].time <= log[j].time /\ log[i].id # log[j].id
  /\ \A i, j \in DOMAIN log :
       log[i].id < log[j].id /\ log[j].id > 0 => log[i].time <= log[j].time

\* The frame of an attempt comes alone and names it.
DeliveriesApart ==
  /\ \A i, j \in DOMAIN frames :
       frames[i].type = "delivery" /\ frames[j].type = "delivery" /\ i < j =>
         frames[i].at < frames[j].at /\ frames[i].body.time <= frames[j].body.time
  /\ \A i \in DOMAIN frames :
       frames[i].type = "delivery" => frames[i].body \in Stamps /\ frames[i].body.id = frames[i].at
  /\ echo.pending => echo.frame.type # "delivery"

PagesTyped ==
  /\ store.log = NotLoaded \/ (store.log = Loaded(store.log.data) /\ store.log.data \in Seq(Stamps))
  /\ store.before \in Cursors
  /\ \A g \in {"latest", "older"} : requests[g].stage = "answered" =>
       requests[g].data["log"] \in Seq(Stamps)
  /\ requests["latest"].stage # "idle" => requests["latest"].arg = 0
  /\ requests["older"].stage # "idle" => requests["older"].arg \in Cursors \ {0}

\* The first page, unless something has passed it by, or a wipe will: what is later than it
\* is on its way.
LatestHolds ==
  LET get == requests["latest"] IN
  get.stage = "answered" /\ ~get.old /\ ~Wiping(frames, get.at) =>
    /\ IsPage(get.data["log"], {d \in ToSet(log) : d.id <= get.at})
    /\ {d \in ToSet(log) : d.id > get.at} = Deliveries(frames, get.at)

\* An older page likewise: what is new lies above it.
OlderHolds ==
  LET get == requests["older"] IN
  get.stage = "answered" /\ ~get.old /\ ~Wiping(frames, get.at) =>
    IsPage(get.data["log"], {d \in ToSet(log) : d.time < get.arg})

\* A list and what is on its way to it are the log down to a cursor, but for the seams.
Shows(list, coming, before, seams) ==
  /\ NewestFirst(list)
  /\ ToSet(list) \cup coming \subseteq Due(ToSet(log), before)
  /\ {d \in Due(ToSet(log), before) : d.time \notin seams} \subseteq ToSet(list) \cup coming
  /\ \A d \in ToSet(list), e \in coming : d.time <= e.time /\ d.id # e.id

LogHolds ==
  store.log.loaded /\ ~behind["log"] /\ ~Wiping(frames, 0) =>
    Shows(store.log.data, Deliveries(frames, 0), store.before, cuts)

LogInv == LogOrder /\ DeliveriesApart /\ PagesTyped /\ LatestHolds /\ OlderHolds /\ LogHolds

-----------------------------------------------------------------------------
(* Pages *)

\* The length of a prefix.
LEMMA PrefixSize ==
  ASSUME NEW n \in Nat
  PROVE  Cardinality(1 .. n) = n
BY FS_Interval

\* What an attempt of the log is.
LEMMA StampIs ==
  ASSUME NEW d \in Stamps
  PROVE  d.id \in Int /\ d.time \in Int /\ d.id <= changes /\ d.time <= clock /\ d.time # 0
         /\ d \in Attempts
BY DEF Stamps, Attempts

\* The log's rows.
LEMMA LogRows ==
  ASSUME LogOrder
  PROVE  /\ log \in Seq(Stamps) /\ DOMAIN log = 1 .. Len(log) /\ Len(log) \in Nat
         /\ \A i \in DOMAIN log : log[i] \in Stamps /\ log[i].time \in Int /\ log[i].id \in Int
                                  /\ log[i].time # 0
         /\ ToSet(log) \subseteq Stamps
<1>1. log \in Seq(Stamps) /\ DOMAIN log = 1 .. Len(log) /\ Len(log) \in Nat
  BY DEF LogOrder
<1>2. \A i \in DOMAIN log : log[i] \in Stamps
  BY <1>1
<1>3. ToSet(log) \subseteq Stamps
  BY <1>2 DEF ToSet
<1>4. QED
  BY <1>1, <1>2, <1>3, StampIs

\* The attempts below a cursor come first in the log.
LEMMA PrefixBelow ==
  ASSUME LogOrder, NEW below \in Int
  PROVE  LET above == {i \in DOMAIN log : below # 0 /\ log[i].time >= below}
             end == IF above = {} THEN Len(log) ELSE Least(above) - 1
         IN  /\ end \in 0 .. Len(log)
             /\ \A i \in DOMAIN log : i <= end <=> (below = 0 \/ log[i].time < below)
<1> DEFINE above == {i \in DOMAIN log : below # 0 /\ log[i].time >= below}
           end == IF above = {} THEN Len(log) ELSE Least(above) - 1
<1>1. /\ DOMAIN log = 1 .. Len(log) /\ Len(log) \in Nat
      /\ \A i \in DOMAIN log : log[i].time \in Int
      /\ \A i, j \in DOMAIN log : i < j => log[i].time <= log[j].time
  BY LogRows DEF LogOrder
<1>2. CASE above = {}
  BY <1>1, <1>2
<1>3. CASE above # {}
  <2> DEFINE m == Least(above)
  <2>1. m \in above /\ \A i \in above : m <= i
    <3>1. above \subseteq Nat
      BY <1>1
    <3> HIDE DEF above
    <3>2. Least(above) \in above /\ \A i \in above : Least(above) <= i
      BY <1>3, <3>1, LeastIsIn
    <3>3. QED
      BY <3>2
  <2> HIDE DEF m
  <2>2. m \in DOMAIN log /\ below # 0 /\ log[m].time >= below /\ m \in 1 .. Len(log)
    BY <1>1, <2>1
  <2>3. end = m - 1
    BY <1>3 DEF m
  <2>4. \A i \in DOMAIN log : i < m <=> log[i].time < below
    <3>1. TAKE i \in DOMAIN log
    <3>2. CASE i < m
      BY <1>1, <2>1, <2>2, <3>2
    <3>3. CASE ~(i < m)
      <4>1. i = m \/ m < i
        BY <1>1, <2>2, <3>3
      <4>2. log[m].time <= log[i].time
        BY <1>1, <2>2, <4>1
      <4>3. QED
        BY <1>1, <2>2, <3>3, <4>2
    <3>4. QED
      BY <3>2, <3>3
  <2>5. \A i \in DOMAIN log : i <= end <=> i < m
    BY <1>1, <2>2, <2>3
  <2>6. end \in 0 .. Len(log)
    BY <1>1, <2>2, <2>3
  <2>7. QED
    BY <2>2, <2>4, <2>5, <2>6
<1>4. QED
  BY <1>2, <1>3

\* What the server answers is a page of what is below the cursor.
LEMMA NewestIsPage ==
  ASSUME LogOrder, NEW below \in Int
  PROVE  LET page == Newest(below) IN
         /\ page \in Seq(Stamps)
         /\ IsPage(page, {d \in ToSet(log) : below = 0 \/ d.time < below})
<1> DEFINE above == {i \in DOMAIN log : below # 0 /\ log[i].time >= below}
           end == IF above = {} THEN Len(log) ELSE Least(above) - 1
           n == IF end < PageSize THEN end ELSE PageSize
           page == Newest(below)
           S == {d \in ToSet(log) : below = 0 \/ d.time < below}
<1>1. /\ end \in 0 .. Len(log)
      /\ \A i \in DOMAIN log : i <= end <=> (below = 0 \/ log[i].time < below)
  BY PrefixBelow
<1>2. page = [i \in 1 .. n |-> log[end + 1 - i]]
  BY DEF Newest
<1> HIDE DEF above, end, page
<1>3. /\ DOMAIN log = 1 .. Len(log) /\ Len(log) \in Nat
      /\ \A i \in DOMAIN log : log[i] \in Stamps /\ log[i].time \in Int /\ log[i].time # 0
      /\ \A i, j \in DOMAIN log : i < j => log[i].time <= log[j].time /\ log[i].id # log[j].id
      /\ PageSize \in Nat \ {0} /\ n \in Nat /\ n <= end
  BY <1>1, LogRows, ConsoleAssumption DEF LogOrder
<1>4. \A i \in 1 .. n : end + 1 - i \in DOMAIN log /\ page[i] = log[end + 1 - i]
  BY <1>1, <1>2, <1>3
<1>5. page \in Seq(Stamps) /\ Len(page) = n /\ DOMAIN page = 1 .. n
  <2>1. \A i \in 1 .. n : log[end + 1 - i] \in Stamps
    BY <1>3, <1>4
  <2>2. page \in [1 .. n -> Stamps]
    BY <1>2, <2>1
  <2>3. QED
    BY <1>3, <2>2
<1>6. NewestFirst(page)
  <2>1. SUFFICES ASSUME NEW i \in 1 .. n, NEW j \in 1 .. n, i < j
                 PROVE  page[i].time >= page[j].time /\ page[i].id # page[j].id
    BY <1>5 DEF NewestFirst
  <2>2. end + 1 - j < end + 1 - i
    BY <1>1, <2>1
  <2>3. log[end + 1 - j].time <= log[end + 1 - i].time /\ log[end + 1 - j].id # log[end + 1 - i].id
    BY <1>3, <1>4, <2>2
  <2>4. QED
    BY <1>3, <1>4, <2>3
<1>7. \A d : d \in S <=> \E j \in DOMAIN log : j <= end /\ log[j] = d
  BY <1>1 DEF ToSet
<1>8. \A d : d \in ToSet(page) <=> \E j \in DOMAIN log : j <= end /\ j > end - n /\ log[j] = d
  <2>1. TAKE d
  <2>2. ASSUME d \in ToSet(page) PROVE \E j \in DOMAIN log : j <= end /\ j > end - n /\ log[j] = d
    <3>1. PICK i \in 1 .. n : page[i] = d
      BY <1>5, <2>2 DEF ToSet
    <3>2. end + 1 - i \in DOMAIN log /\ log[end + 1 - i] = d /\ end + 1 - i <= end /\ end + 1 - i > end - n
      BY <1>1, <1>3, <1>4, <3>1
    <3>3. QED
      BY <3>2
  <2>3. ASSUME NEW j \in DOMAIN log, j <= end, j > end - n, log[j] = d PROVE d \in ToSet(page)
    <3>1. end + 1 - j \in 1 .. n /\ end + 1 - (end + 1 - j) = j
      BY <1>1, <1>3, <2>3
    <3>2. page[end + 1 - j] = d
      BY <1>4, <2>3, <3>1
    <3>3. QED
      BY <1>5, <3>1, <3>2 DEF ToSet
  <2>4. QED
    BY <2>2, <2>3
<1>9. /\ ToSet(page) \subseteq Due(S, Before(page))
      /\ {d \in S : Before(page) # 0 => d.time > Before(page)} \subseteq ToSet(page)
  <2>1. CASE n < PageSize
    <3>1. n = end /\ Before(page) = 0
      BY <1>1, <1>3, <1>5, <2>1 DEF Before
    <3>2. \A d : d \in ToSet(page) <=> d \in S
      BY <1>1, <1>3, <1>7, <1>8, <3>1
    <3>3. QED
      BY <3>1, <3>2 DEF Due
  <2>2. CASE ~(n < PageSize)
    <3> DEFINE f == end + 1 - n
    <3>1. n = PageSize /\ n \in 1 .. n /\ f \in DOMAIN log /\ f <= end
      BY <1>1, <1>3, <1>4, <2>2
    <3>2. Before(page) = log[f].time
      BY <1>3, <1>4, <1>5, <2>2, <3>1 DEF Before, Last
    <3>3. \A j \in DOMAIN log : /\ j > end - n => log[j].time >= log[f].time
                                /\ log[j].time > log[f].time => j > end - n
      <4>1. TAKE j \in DOMAIN log
      <4>2. CASE j < f
        BY <1>1, <1>3, <3>1, <4>2
      <4>3. CASE j = f
        BY <1>1, <1>3, <3>1, <4>3
      <4>4. CASE j > f
        BY <1>1, <1>3, <3>1, <4>4
      <4>5. QED
        BY <1>1, <1>3, <3>1, <4>2, <4>3, <4>4
    <3>4. log[f].time # 0
      BY <1>3, <3>1
    <3>5. \A d \in ToSet(page) : d \in S /\ d.time >= log[f].time
      BY <1>7, <1>8, <3>3
    <3>6. \A d \in S : d.time > log[f].time => d \in ToSet(page)
      BY <1>7, <1>8, <3>3
    <3>7. QED
      BY <3>2, <3>4, <3>5, <3>6 DEF Due
  <2>3. QED
    BY <2>1, <2>2
<1>10. IsPage(page, S)
  BY <1>6, <1>9 DEF IsPage
<1>11. QED
  BY <1>5, <1>10 DEF page

\* What is unknown of a page is of the page.
LEMMA UnknownIsPart ==
  ASSUME NEW S, NEW page \in Seq(S), NEW known
  PROVE  Unknown(page, known) \in Seq(S)
<1> DEFINE fresh == {i \in DOMAIN page : ~Known(known, page[i].id)}
           Upto(i) == {j \in fresh : j <= i}
           n == Len(page)
<1>1. /\ n \in Nat /\ DOMAIN page = 1 .. n /\ fresh \subseteq 1 .. n
      /\ \A i \in fresh : page[i] \in S /\ i \in Nat /\ 1 <= i /\ i <= n
  OBVIOUS
<1>2. Unknown(page, known) = [k \in 1 .. Cardinality(fresh) |->
         page[CHOOSE i \in fresh : Cardinality(Upto(i)) = k]]
  BY DEF Unknown
<1> HIDE DEF fresh, n
<1>3. IsFiniteSet(fresh) /\ Cardinality(fresh) \in Nat
  <2>1. IsFiniteSet(1 .. n)
    BY <1>1, FS_Interval
  <2>2. QED
    BY <1>1, <2>1, FS_Subset, FS_CardinalityType
<1>4. \A i \in Nat : IsFiniteSet(Upto(i)) /\ Cardinality(Upto(i)) \in Nat
  <2>1. TAKE i \in Nat
  <2>2. Upto(i) \subseteq fresh
    OBVIOUS
  <2>3. QED
    BY <1>3, <2>2, FS_Subset, FS_CardinalityType
<1> HIDE DEF Upto
<1>5. \A k \in 1 .. Cardinality(fresh) : \E i \in fresh : Cardinality(Upto(i)) = k
  <2>1. TAKE k \in 1 .. Cardinality(fresh)
  <2>2. \A i, j : j \in Upto(i) <=> j \in fresh /\ j <= i
    BY DEF Upto
  <2> DEFINE enough == {i \in Nat : Cardinality(Upto(i)) >= k}
             m == Least(enough)
  <2>3. n \in enough
    <3>1. \A j : j \in Upto(n) <=> j \in fresh
      BY <1>1, <2>2
    <3>2. Upto(n) = fresh
      BY <3>1
    <3>3. Cardinality(Upto(n)) >= k
      BY <1>3, <3>2
    <3>4. QED
      BY <1>1, <3>3
  <2>4. m \in enough /\ \A i \in enough : m <= i
    <3>1. enough \subseteq Nat /\ enough # {}
      BY <2>3
    <3> HIDE DEF enough
    <3>2. QED
      BY <3>1, LeastIsIn
  <2> HIDE DEF m
  <2>5. m \in Nat /\ Cardinality(Upto(m)) >= k
    BY <2>4
  <2>6. m # 0
    <3>1. \A j \in fresh : ~(j <= 0)
      BY <1>1
    <3>2. Upto(0) = {}
      BY <2>2, <3>1
    <3>3. Cardinality(Upto(0)) = 0
      BY <3>2, FS_EmptySet
    <3>4. QED
      BY <2>5, <3>3
  <2>7. m - 1 \in Nat /\ Cardinality(Upto(m - 1)) < k
    <3>1. m - 1 \in Nat /\ m - 1 \notin enough
      BY <2>4, <2>5, <2>6
    <3>2. QED
      BY <1>4, <3>1
  <2>8. m \in fresh
    <3>1. SUFFICES ASSUME m \notin fresh PROVE FALSE
      OBVIOUS
    <3>2. \A j \in fresh : j <= m <=> j <= m - 1
      BY <1>1, <2>5, <2>7, <3>1
    <3>3. \A j : j \in Upto(m) <=> j \in Upto(m - 1)
      BY <2>2, <3>2
    <3>4. Upto(m) = Upto(m - 1)
      BY <3>3
    <3>5. QED
      BY <1>4, <2>5, <2>7, <3>4
  <2>9. Upto(m) = Upto(m - 1) \cup {m} /\ m \notin Upto(m - 1)
    <3>1. \A j \in fresh : j <= m <=> j <= m - 1 \/ j = m
      BY <1>1, <2>5, <2>7
    <3>2. \A j : j \in Upto(m) <=> j \in Upto(m - 1) \/ j = m
      BY <2>2, <2>5, <2>8, <3>1
    <3>3. m \notin Upto(m - 1)
      BY <2>2, <2>5
    <3>4. QED
      BY <3>2, <3>3
  <2>10. Cardinality(Upto(m)) = Cardinality(Upto(m - 1)) + 1
    <3> DEFINE T == Upto(m - 1)
               U == Upto(m)
    <3>1. IsFiniteSet(T) /\ U = T \cup {m} /\ m \notin T
      BY <1>4, <2>7, <2>9
    <3> HIDE DEF T, U
    <3>2. Cardinality(U) = Cardinality(T) + 1
      BY <3>1, FS_AddElement
    <3>3. QED
      BY <3>2 DEF T, U
  <2>11. Cardinality(Upto(m)) = k
    BY <1>4, <2>5, <2>7, <2>10
  <2>12. QED
    BY <2>8, <2>11
<1>6. \A k \in 1 .. Cardinality(fresh) : (CHOOSE i \in fresh : Cardinality(Upto(i)) = k) \in fresh
  BY <1>5
<1>7. \A k \in 1 .. Cardinality(fresh) : page[CHOOSE i \in fresh : Cardinality(Upto(i)) = k] \in S
  BY <1>1, <1>6
<1>8. Unknown(page, known) \in [1 .. Cardinality(fresh) -> S]
  BY <1>2, <1>7
<1>9. QED
  BY <1>3, <1>8

\* Of a page with nothing known in it all is unknown.
LEMMA UnknownIsAll ==
  ASSUME NEW S, NEW page \in Seq(S), NEW known,
         \A i \in DOMAIN page : ~Known(known, page[i].id)
  PROVE  Unknown(page, known) = page
<1> DEFINE fresh == {i \in DOMAIN page : ~Known(known, page[i].id)}
<1>1. fresh = 1 .. Len(page) /\ Len(page) \in Nat /\ DOMAIN page = 1 .. Len(page)
  OBVIOUS
<1>2. \A i \in fresh : {j \in fresh : j <= i} = 1 .. i
  BY <1>1
<1>3. \A i \in fresh : Cardinality({j \in fresh : j <= i}) = i
  <2>1. TAKE i \in fresh
  <2>2. i \in Nat /\ {j \in fresh : j <= i} = 1 .. i
    BY <1>1, <1>2
  <2>3. QED
    BY <2>2, PrefixSize
<1>4. Cardinality(fresh) = Len(page)
  BY <1>1, PrefixSize
<1>5. Unknown(page, known) = [k \in 1 .. Cardinality(fresh) |->
         page[CHOOSE i \in fresh : Cardinality({j \in fresh : j <= i}) = k]]
  BY DEF Unknown
<1> HIDE DEF fresh
<1>6. \A k \in 1 .. Len(page) : (CHOOSE i \in fresh : Cardinality({j \in fresh : j <= i}) = k) = k
  <2>1. TAKE k \in 1 .. Len(page)
  <2>2. k \in fresh /\ Cardinality({j \in fresh : j <= k}) = k
    BY <1>1, <1>3
  <2>3. \A i \in fresh : Cardinality({j \in fresh : j <= i}) = k => i = k
    BY <1>3
  <2>4. QED
    BY <2>2, <2>3
<1>7. Unknown(page, known) = [k \in 1 .. Len(page) |-> page[k]]
  BY <1>4, <1>5, <1>6
<1>8. QED
  BY <1>1, <1>7

-----------------------------------------------------------------------------
(* The steps, by what they do to the log *)

\* Nothing that the log hangs on changes, but requests are sent or given up.
LogStill ==
  /\ UNCHANGED <<log, clock, changes, frames, cuts>> /\ (echo' = echo \/ ~echo'.pending)
  /\ store'.log = store.log /\ store'.before = store.before /\ behind'["log"] = behind["log"]
  /\ requests'["latest"] \in {requests["latest"], Idle, Sent(0)}
  /\ \/ requests'["older"] \in {requests["older"], Idle}
     \/ requests'["older"] = Sent(store.before) /\ store.before # 0

\* What a page's landing does to the log.
PageLands(g, shown, before, late, seams) ==
  /\ Answered(g) /\ requests'[g] = Idle /\ \A h \in Gets : h # g => requests'[h] = requests[h]
  /\ UNCHANGED <<log, clock, changes, frames, echo>> /\ cuts' = seams
  /\ store'.log = shown /\ store'.before = before /\ behind'["log"] = late

\* A request fails.
LEMMA LoseLog ==
  ASSUME TypeOK, NEW g \in Gets, Lose(g)
  PROVE  LogStill
<1>1. /\ requests' = [requests EXCEPT ![g] = Idle] /\ RequestTypes
      /\ behind' = [c \in Collections |-> behind[c] \/ (g \in {"reload", "templates"} /\ c \in About(g))]
      /\ behind \in [Collections -> BOOLEAN]
      /\ UNCHANGED <<log, clock, changes, frames, store, echo, cuts>>
  BY DEF Lose, serverVars, TypeOK, TabTypes
<1>2. \A h \in Gets : requests'[h] \in {requests[h], Idle}
  BY <1>1 DEF RequestTypes
<1>3. behind'["log"] = behind["log"]
  BY <1>1, AboutIs DEF Collections
<1>4. QED
  BY <1>1, <1>2, <1>3, GetNames DEF LogStill

\* The socket opens.
LEMMA ConnectLog ==
  ASSUME TypeOK, Connect
  PROVE  LogStill
<1>1. /\ requests' = IF gate.connectedBefore THEN [requests EXCEPT !["state"] = Sent(0)] ELSE requests
      /\ UNCHANGED <<log, clock, changes, frames, store, echo, behind, cuts>>
  BY DEF Connect, serverVars
<1>2. requests'["latest"] = requests["latest"] /\ requests'["older"] = requests["older"]
  BY <1>1 DEF TypeOK, RequestTypes
<1>3. QED
  BY <1>1, <1>2 DEF LogStill

\* What an answer about something else leaves alone.
LEMMA OthersLand ==
  ASSUME TypeOK, NEW g \in Gets \ {"latest", "older"}, Lands(g), Caught(g), NEW st, Dispatch(st),
         st.log = store.log, st.before = store.before
  PROVE  LogStill
<1>1. /\ requests' = [requests EXCEPT ![g] = Idle] /\ UNCHANGED <<log, clock, changes, frames, echo, cuts>>
      /\ store' = st
  BY DEF Lands, Caught, Dispatch, serverVars
<1>2. requests'["latest"] = requests["latest"] /\ requests'["older"] = requests["older"]
  BY <1>1 DEF TypeOK, RequestTypes
<1>3. "log" \notin About(g) /\ "log" \in Collections
  BY AboutIs DEF Gets, Collections
<1>4. behind'["log"] = behind["log"]
  BY <1>3 DEF Caught
<1>5. QED
  BY <1>1, <1>2, <1>4 DEF LogStill

\* Healing the scope leaves the log alone.
LEMMA WithServerLog ==
  ASSUME NEW st, IsStore(st), NEW snap
  PROVE  WithServer(st, snap).log = st.log /\ WithServer(st, snap).before = st.before
BY DEF WithServer, IsStore

\* The answers land.
LEMMA LandLog ==
  ASSUME TypeOK, AnswerLands
  PROVE  \/ LogStill
         \/ LET get == requests["latest"]
                page == get.data["log"]
            IN  PageLands("latest", Loaded(page), Before(page),
                  get.old \/ \E i \in DOMAIN frames : frames[i].type = "delivery" /\ frames[i].at <= get.at,
                  {Before(page)})
         \/ LET page == requests["older"].data["log"]
                known == IF store.log.loaded THEN store.log.data ELSE <<>>
            IN  PageLands("older", Loaded(known \o Unknown(page, known)), Before(page),
                  behind["log"] \/ requests["older"].old \/ ~store.log.loaded
                    \/ store.before # requests["older"].arg,
                  cuts \cup {Before(page)})
<1>1. IsStore(store)
  BY DEF TypeOK
<1>2. CASE BootstrapLoaded
  <2> DEFINE g == "bootstrap"
             st1 == [store EXCEPT !.rules = Data(g, "rules")]
             snap == requests[g].data["server"]
             st == WithServer(st1, snap)
  <2>1. g \in Gets \ {"latest", "older"} /\ Lands(g) /\ Caught(g) /\ Dispatch(st) /\ Answered(g)
    BY <1>2, GetNames DEF BootstrapLoaded
  <2>2. st1.log = store.log /\ st1.before = store.before
    BY <1>1 DEF IsStore
  <2>3. st.log = st1.log /\ st.before = st1.before
    BY <1>1 DEF IsStore, WithServer
  <2> HIDE DEF st, st1
  <2>4. LogStill
    BY <2>1, <2>2, <2>3, OthersLand
  <2>5. QED
    BY <2>4
<1>3. CASE StateLoaded
  <2> DEFINE g == "state"
             st == WithServer(store, requests[g].data["server"])
  <2>1. g \in Gets \ {"latest", "older"} /\ Lands(g) /\ Caught(g) /\ Dispatch(st)
    BY <1>3, GetNames DEF StateLoaded
  <2>2. st.log = store.log /\ st.before = store.before
    BY <1>1, WithServerLog
  <2> HIDE DEF st
  <2>3. LogStill
    BY <2>1, <2>2, OthersLand
  <2>4. QED
    BY <2>3
<1>4. CASE WipeReloaded
  <2> DEFINE g == "reload"
             st == [store EXCEPT !.rules = Data(g, "rules"), !.tokens = Data(g, "tokens")]
  <2>1. g \in Gets \ {"latest", "older"} /\ Lands(g) /\ Caught(g) /\ Dispatch(st)
    BY <1>4, GetNames DEF WipeReloaded
  <2>2. st.log = store.log /\ st.before = store.before
    BY <1>1 DEF IsStore
  <2> HIDE DEF st
  <2>3. LogStill
    BY <2>1, <2>2, OthersLand
  <2>4. QED
    BY <2>3
<1>5. CASE TokensLoaded
  <2> DEFINE g == "tokens"
             st == [store EXCEPT !.tokens = Data(g, "tokens")]
  <2>1. g \in Gets \ {"latest", "older"} /\ Lands(g) /\ Caught(g) /\ Dispatch(st)
    BY <1>5, GetNames DEF TokensLoaded
  <2>2. st.log = store.log /\ st.before = store.before
    BY <1>1 DEF IsStore
  <2> HIDE DEF st
  <2>3. LogStill
    BY <2>1, <2>2, OthersLand
  <2>4. QED
    BY <2>3
<1>6. CASE TemplatesLoaded
  <2> DEFINE g == "templates"
             st == [store EXCEPT !.templates = Data(g, "templates")]
  <2>1. g \in Gets \ {"latest", "older"} /\ Lands(g) /\ Caught(g) /\ Dispatch(st)
    BY <1>6, GetNames DEF TemplatesLoaded
  <2>2. st.log = store.log /\ st.before = store.before
    BY <1>1 DEF IsStore
  <2> HIDE DEF st
  <2>3. LogStill
    BY <2>1, <2>2, OthersLand
  <2>4. QED
    BY <2>3
<1>7. ASSUME NEW g \in Gets, Answered(g), Lands(g), NEW shown, NEW before, NEW late, NEW seams,
             cuts' = seams, Dispatch([store EXCEPT !.log = shown, !.before = before]),
             behind' = [behind EXCEPT !["log"] = late]
      PROVE  PageLands(g, shown, before, late, seams)
  <2>1. /\ requests' = [requests EXCEPT ![g] = Idle] /\ UNCHANGED <<log, clock, changes, frames, echo>>
        /\ store' = [store EXCEPT !.log = shown, !.before = before]
    BY <1>7 DEF Lands, Dispatch, serverVars
  <2>2. store'.log = shown /\ store'.before = before
    BY <1>1, <2>1 DEF IsStore
  <2>3. requests'[g] = Idle /\ \A h \in Gets : h # g => requests'[h] = requests[h]
    BY <2>1 DEF TypeOK, RequestTypes
  <2>4. behind'["log"] = late
    BY <1>7 DEF TypeOK, TabTypes, Collections
  <2>5. QED
    BY <1>7, <2>1, <2>2, <2>3, <2>4 DEF PageLands
<1>8. CASE LatestLoaded
  <2> DEFINE get == requests["latest"]
             page == get.data["log"]
             late == get.old \/ \E i \in DOMAIN frames : frames[i].type = "delivery" /\ frames[i].at <= get.at
  <2>1. /\ Answered("latest") /\ Lands("latest")
        /\ Dispatch([store EXCEPT !.log = Loaded(page), !.before = Before(page)])
        /\ behind' = [behind EXCEPT !["log"] = late] /\ cuts' = {Before(page)}
    BY <1>8 DEF LatestLoaded
  <2> HIDE DEF page, late
  <2>2. PageLands("latest", Loaded(page), Before(page), late, {Before(page)})
    BY <1>7, <2>1, GetNames
  <2>3. QED
    BY <2>2 DEF page, late
<1>9. CASE OlderLoaded
  <2> DEFINE page == requests["older"].data["log"]
             known == IF store.log.loaded THEN store.log.data ELSE <<>>
             shown == Loaded(known \o Unknown(page, known))
             late == behind["log"] \/ requests["older"].old \/ ~store.log.loaded \/ store.before # requests["older"].arg
  <2>1. /\ Answered("older") /\ Lands("older")
        /\ Dispatch([store EXCEPT !.log = shown, !.before = Before(page)])
        /\ behind' = [behind EXCEPT !["log"] = late] /\ cuts' = cuts \cup {Before(page)}
    BY <1>9 DEF OlderLoaded
  <2> HIDE DEF page, shown, late
  <2>2. PageLands("older", shown, Before(page), late, cuts \cup {Before(page)})
    BY <1>7, <2>1, GetNames
  <2>3. QED
    BY <2>2 DEF page, shown, late
<1>10. QED
  BY <1>2, <1>3, <1>4, <1>5, <1>6, <1>8, <1>9 DEF AnswerLands

\* The router: a page that is left gives up its request, one that is mounted sends it.
LEMMA GoLog ==
  ASSUME TypeOK, NEW p, Go(p)
  PROVE  LogStill
<1>1. /\ requests' = requests \/ requests' = [requests EXCEPT !["latest"] = Idle, !["tokens"] = Idle,
                                                              !["templates"] = Idle]
      /\ UNCHANGED <<log, clock, changes, frames, store, echo, behind, cuts>>
  BY DEF Go, serverVars
<1>2. requests'["latest"] \in {requests["latest"], Idle} /\ requests'["older"] = requests["older"]
  BY <1>1 DEF TypeOK, RequestTypes, Gets
<1>3. QED
  BY <1>1, <1>2 DEF LogStill

\* A visit touches no more than the log's requests.
LEMMA VisitLog ==
  ASSUME TypeOK, Visits
  PROVE  LogStill
<1>1. ASSUME LoadOlder PROVE LogStill
  <2>1. /\ requests' = [requests EXCEPT !["older"] = Sent(store.before)] /\ store.before # 0
        /\ UNCHANGED <<log, clock, changes, frames, store, echo, behind, cuts>>
    BY <1>1 DEF LoadOlder, serverVars
  <2>2. requests'["latest"] = requests["latest"] /\ requests'["older"] = Sent(store.before)
    BY <2>1, GetNames DEF TypeOK, RequestTypes
  <2>3. QED
    BY <2>1, <2>2 DEF LogStill
<1>2. ASSUME Verify PROVE LogStill
  <2>1. /\ requests' = [requests EXCEPT !["state"] = Sent(0)]
        /\ UNCHANGED <<log, clock, changes, frames, store, echo, behind, cuts>>
    BY <1>2 DEF Verify, serverVars
  <2>2. requests'["latest"] = requests["latest"] /\ requests'["older"] = requests["older"]
    BY <2>1 DEF TypeOK, RequestTypes
  <2>3. QED
    BY <2>1, <2>2 DEF LogStill
<1>3. (\E p : Go(p)) \/ LoadOlder \/ Verify
  BY DEF Visits, OpenTab, GoHome, PickWaba, PickNumber
<1>4. QED
  BY <1>1, <1>2, <1>3, GoLog

\* A render touches no more than the log's requests.
LEMMA RenderLog ==
  ASSUME TypeOK, Renders
  PROVE  LogStill
<1>1. ASSUME RenderGlobal PROVE LogStill
  <2>1. /\ requests' = IF gate.mounted = path.view THEN requests
                       ELSE [requests EXCEPT ![IF path.view = "webhooks" THEN "latest" ELSE "tokens"] = Sent(0)]
        /\ UNCHANGED <<log, clock, changes, frames, store, echo, behind, cuts>>
    BY <1>1 DEF RenderGlobal, serverVars
  <2>2. requests'["latest"] \in {requests["latest"], Sent(0)} /\ requests'["older"] = requests["older"]
    BY <2>1, GetNames DEF TypeOK, RequestTypes
  <2>3. QED
    BY <2>1, <2>2 DEF LogStill
<1>2. ASSUME Redirect PROVE LogStill
  <2>1. UNCHANGED <<log, clock, changes, frames, store, echo, behind, requests, cuts>>
    BY <1>2 DEF Redirect, serverVars
  <2>2. QED
    BY <2>1 DEF LogStill
<1>3. ASSUME Repair PROVE LogStill
  <2>1. /\ requests' = [requests EXCEPT !["templates"] = Idle]
        /\ UNCHANGED <<log, clock, changes, frames, store, echo, behind, cuts>>
    BY <1>3 DEF Repair, serverVars
  <2>2. requests'["latest"] = requests["latest"] /\ requests'["older"] = requests["older"]
    BY <2>1 DEF TypeOK, RequestTypes
  <2>3. QED
    BY <2>1, <2>2 DEF LogStill
<1>4. ASSUME RenderView PROVE LogStill
  <2>1. /\ requests' = requests \/ \E a : requests' = [requests EXCEPT !["templates"] = Sent(a)]
        /\ UNCHANGED <<log, clock, changes, frames, store, echo, behind, cuts>>
    BY <1>4 DEF RenderView, serverVars
  <2>2. requests' = requests \/ \A g \in Gets \ {"templates"} : requests'[g] = requests[g]
    BY <2>1 DEF TypeOK, RequestTypes
  <2>3. requests'["latest"] = requests["latest"] /\ requests'["older"] = requests["older"]
    BY <2>2 DEF Gets
  <2>4. QED
    BY <2>1, <2>3 DEF LogStill
<1>5. ASSUME Announce PROVE LogStill
  <2>1. store' = [store EXCEPT !.scope = gate.effect]
        /\ UNCHANGED <<log, clock, changes, frames, echo, behind, requests, cuts>>
    BY <1>5 DEF Announce, serverVars
  <2>2. store'.log = store.log /\ store'.before = store.before
    BY <2>1 DEF TypeOK, IsStore
  <2>3. QED
    BY <2>1, <2>2 DEF LogStill
<1>6. QED
  BY <1>1, <1>2, <1>3, <1>4, <1>5 DEF Renders

\* What dispatching a frame does to the log.
LEMMA ApplyLog ==
  ASSUME NEW st, IsStore(st), NEW f \in Frames
  PROVE  LET st2 == Apply(st, f) IN
         /\ Wipes(f) => st2.log = NotLoaded /\ st2.before = 0
         /\ f.type = "delivery" /\ st.log.loaded => st2.log = Loaded(<<f.body>> \o st.log.data)
         /\ ~Wipes(f) /\ (f.type # "delivery" \/ ~st.log.loaded) => st2.log = st.log
         /\ ~Wipes(f) => st2.before = st.before
<1>1. f.type \in FrameTypes
  BY FrameIs
<1>2. CASE f.type = "waba"
  <2>1. Apply(st, f) = ApplyWabaChange(st, f.body)
    BY <1>2 DEF Apply
  <2>2. Apply(st, f) = st \/ \E snap : Apply(st, f) = WithServer(st, snap)
    BY <2>1 DEF ApplyWabaChange
  <2>3. QED
    BY <1>2, <2>2, WithServerLog DEF Wipes
<1>3. CASE f.type = "number"
  <2>1. Apply(st, f) = ApplyPhoneNumberChange(st, f.body)
    BY <1>3 DEF Apply
  <2>2. Apply(st, f) = st \/ \E snap : Apply(st, f) = WithServer(st, snap)
    BY <2>1 DEF ApplyPhoneNumberChange
  <2>3. QED
    BY <1>3, <2>2, WithServerLog DEF Wipes
<1>4. CASE f.type = "rule"
  <2>1. Apply(st, f) = ApplyRuleChange(st, f.body)
    BY <1>4 DEF Apply
  <2>2. Apply(st, f) = st \/ \E x : Apply(st, f) = [st EXCEPT !.rules = x]
    BY <2>1 DEF ApplyRuleChange
  <2>3. QED
    BY <1>4, <2>2 DEF Wipes, IsStore
<1>5. CASE f.type = "token"
  <2>1. Apply(st, f) = ApplyTokenChange(st, f.body)
    BY <1>5 DEF Apply
  <2>2. Apply(st, f) = st \/ \E x : Apply(st, f) = [st EXCEPT !.tokens = x]
    BY <2>1 DEF ApplyTokenChange
  <2>3. QED
    BY <1>5, <2>2 DEF Wipes, IsStore
<1>6. CASE f.type = "template"
  <2>1. Apply(st, f) = ApplyTemplateChange(st, f.body)
    BY <1>6 DEF Apply
  <2>2. Apply(st, f) = st \/ \E x : Apply(st, f) = [st EXCEPT !.templates = x]
    BY <2>1 DEF ApplyTemplateChange
  <2>3. QED
    BY <1>6, <2>2 DEF Wipes, IsStore
<1>7. CASE f.type = "delivery"
  <2>1. Apply(st, f) = ApplyDelivery(st, f.body)
    BY <1>7 DEF Apply
  <2>2. CASE st.log.loaded
    <3>1. Apply(st, f) = [st EXCEPT !.log = Loaded(<<f.body>> \o st.log.data)]
      BY <2>1, <2>2 DEF ApplyDelivery
    <3>2. QED
      BY <1>7, <2>2, <3>1 DEF Wipes, IsStore
  <2>3. CASE ~st.log.loaded
    BY <1>7, <2>1, <2>3 DEF Wipes, ApplyDelivery
  <2>4. QED
    BY <2>2, <2>3
<1>8. CASE Wipes(f)
  <2> DEFINE st1 == [st EXCEPT !.rules = RulesAfter(st, f.type),
                               !.tokens = IF f.type = "state.reset" /\ st.tokens.loaded
                                          THEN Loaded(FALSE) ELSE NotLoaded,
                               !.templates = NotLoaded, !.log = NotLoaded, !.before = 0]
  <2>1. Apply(st, f) = WithServer(st1, f.body)
    BY <1>8 DEF Apply, ApplyWipe, Wipes
  <2>2. st1.log = NotLoaded /\ st1.before = 0 /\ WithServer(st1, f.body).log = st1.log
        /\ WithServer(st1, f.body).before = st1.before
    BY DEF IsStore, WithServer
  <2>3. QED
    BY <1>8, <2>1, <2>2 DEF Wipes
<1>9. QED
  BY <1>1, <1>2, <1>3, <1>4, <1>5, <1>6, <1>7, <1>8 DEF FrameTypes, Wipes

-----------------------------------------------------------------------------
(* The wire *)

\* What a change of the server puts on its way to the log.
LEMMA PublishedLog ==
  ASSUME TypeOK, NEW fs, NEW mine, ServerMoves(fs, mine), frames' = frames \o fs,
         NEW n \in Nat, n <= changes
  PROVE  /\ Deliveries(frames', n) =
              Deliveries(frames, n) \cup (IF Last(fs).type = "delivery" THEN {Last(fs).body} ELSE {})
         /\ Wiping(frames', n) <=> Wiping(frames, n) \/ Wipes(Last(fs))
<1> DEFINE f == Last(fs)
           l == Len(frames)
<1>1. /\ fs \in Seq(Frames) /\ fs # <<>> /\ f.at = changes + 1 /\ changes \in Nat
      /\ \A j \in DOMAIN fs : fs[j].type = "delivery" \/ Wipes(fs[j]) => j = Len(fs) /\ fs[j] = f
      /\ \A i \in DOMAIN frames : frames[i].at \in Nat
      /\ f.type = "delivery" => f.body \in Attempts
  <2>1. fs \in Seq(Frames) /\ fs # <<>> /\ f = fs[Len(fs)] /\ Len(fs) \in DOMAIN fs
    BY LastOf DEF ServerMoves
  <2>2. \A j \in DOMAIN fs : fs[j].type = "delivery" \/ Wipes(fs[j]) => j = Len(fs)
    BY DEF ServerMoves, Wipes
  <2>3. f \in Frames /\ (f.type = "delivery" => f.body \in Attempts)
    BY <2>1, FrameIs, Bodies
  <2>4. QED
    BY <2>1, <2>2, <2>3, FramesTyped DEF ServerMoves
<1>2. /\ \A i \in DOMAIN frames : i \in DOMAIN frames' /\ frames'[i] = frames[i]
      /\ \A i \in DOMAIN frames' : i \in DOMAIN frames \/ i - l \in DOMAIN fs
      /\ \A j \in DOMAIN fs : l + j \in DOMAIN frames' /\ frames'[l + j] = fs[j]
      /\ frames'[l + Len(fs)] = f /\ l + Len(fs) \in DOMAIN frames'
      /\ DOMAIN frames' \subseteq Int /\ l \in Int
  BY FramesGrow, FramesTyped
<1> HIDE DEF f, l
<1>3. ASSUME NEW i \in DOMAIN frames', frames'[i].type = "delivery" \/ Wipes(frames'[i])
      PROVE  (i \in DOMAIN frames /\ frames'[i] = frames[i]) \/ frames'[i] = f
  <2>1. CASE i \in DOMAIN frames
    BY <1>2, <2>1
  <2>2. CASE i - l \in DOMAIN fs
    <3>1. l + (i - l) = i
      BY <1>2
    <3>2. frames'[i] = fs[i - l]
      BY <1>2, <2>2, <3>1
    <3>3. QED
      BY <1>1, <1>3, <2>2, <3>2
  <2>3. QED
    BY <1>2, <2>1, <2>2
<1>4. \A d : d \in Deliveries(frames', n) <=>
               d \in Deliveries(frames, n) \/ (f.type = "delivery" /\ d = f.body)
  <2>1. TAKE d
  <2>2. ASSUME d \in Deliveries(frames', n)
        PROVE  d \in Deliveries(frames, n) \/ (f.type = "delivery" /\ d = f.body)
    <3>1. PICK i \in DOMAIN frames' :
            frames'[i].type = "delivery" /\ frames'[i].body = d /\ frames'[i].at > n
      BY <2>2 DEF Deliveries
    <3>2. d \in Attempts
      BY <2>2 DEF Deliveries
    <3>3. (i \in DOMAIN frames /\ frames'[i] = frames[i]) \/ frames'[i] = f
      BY <1>3, <3>1
    <3>4. QED
      BY <1>1, <3>1, <3>2, <3>3 DEF Deliveries
  <2>3. ASSUME d \in Deliveries(frames, n) PROVE d \in Deliveries(frames', n)
    BY <1>2, <2>3 DEF Deliveries
  <2>4. ASSUME f.type = "delivery", d = f.body PROVE d \in Deliveries(frames', n)
    <3>1. d \in Attempts /\ f.at > n
      BY <1>1, <2>4
    <3>2. QED
      BY <1>1, <1>2, <2>4, <3>1 DEF Deliveries
  <2>5. QED
    BY <2>2, <2>3, <2>4
<1>5. Wiping(frames', n) <=> Wiping(frames, n) \/ Wipes(f)
  <2>1. ASSUME Wiping(frames', n) PROVE Wiping(frames, n) \/ Wipes(f)
    <3>1. PICK i \in DOMAIN frames' : Wipes(frames'[i]) /\ frames'[i].at > n
      BY <2>1 DEF Wiping
    <3>2. (i \in DOMAIN frames /\ frames'[i] = frames[i]) \/ frames'[i] = f
      BY <1>3, <3>1
    <3>3. QED
      BY <3>1, <3>2 DEF Wiping
  <2>2. ASSUME Wiping(frames, n) PROVE Wiping(frames', n)
    BY <1>2, <2>2 DEF Wiping
  <2>3. ASSUME Wipes(f) PROVE Wiping(frames', n)
    <3>1. f.at > n
      BY <1>1
    <3>2. QED
      BY <1>2, <2>3, <3>1 DEF Wiping
  <2>4. QED
    BY <2>1, <2>2, <2>3
<1>6. QED
  BY <1>4, <1>5 DEF f

\* Nothing is on its way on a closed socket.
LEMMA NothingComing ==
  ASSUME frames = <<>>, NEW n
  PROVE  Deliveries(frames, n) = {} /\ ~Wiping(frames, n)
BY DEF Deliveries, Wiping

\* What the first frame was.
LEMMA HeadComing ==
  ASSUME TypeOK, WireOrder, DeliveriesApart, frames # <<>>, frames' = Tail(frames), NEW n \in Nat
  PROVE  LET f == Head(frames) IN
         /\ f \in Frames /\ f.at \in Nat
         /\ Deliveries(frames, n) =
              Deliveries(frames', n) \cup (IF f.type = "delivery" /\ f.at > n THEN {f.body} ELSE {})
         /\ f.type = "delivery" =>
              /\ f.body \in Stamps /\ f.body.id = f.at
              /\ \A e \in Deliveries(frames', n) : f.body.time <= e.time /\ f.body.id # e.id
         /\ Wiping(frames, n) <=> Wiping(frames', n) \/ (Wipes(f) /\ f.at > n)
<1> DEFINE f == Head(frames)
<1>1. /\ frames \in Seq(Frames) /\ f = frames[1] /\ 1 \in DOMAIN frames
      /\ \A i \in DOMAIN frames : frames[i] \in Frames /\ frames[i].at \in Nat
      /\ \A i \in DOMAIN frames' : i + 1 \in DOMAIN frames /\ frames'[i] = frames[i + 1] /\ 1 < i + 1
      /\ \A i \in DOMAIN frames : i # 1 => i - 1 \in DOMAIN frames' /\ frames'[i - 1] = frames[i]
  BY FramesTyped
<1> HIDE DEF f
<1>2. f.type = "delivery" =>
        /\ f.body \in Stamps /\ f.body \in Attempts /\ f.body.id = f.at
        /\ \A e \in Deliveries(frames', n) : f.body.time <= e.time /\ f.body.id # e.id
  <2>1. SUFFICES ASSUME f.type = "delivery"
                 PROVE  /\ f.body \in Stamps /\ f.body \in Attempts /\ f.body.id = f.at
                        /\ \A e \in Deliveries(frames', n) : f.body.time <= e.time /\ f.body.id # e.id
    OBVIOUS
  <2>2. f.body \in Stamps /\ f.body.id = f.at
    BY <1>1, <2>1 DEF DeliveriesApart
  <2>3. \A e \in Deliveries(frames', n) : f.body.time <= e.time /\ f.body.id # e.id
    <3>1. TAKE e \in Deliveries(frames', n)
    <3>2. PICK i \in DOMAIN frames' : frames'[i].type = "delivery" /\ frames'[i].body = e
      BY DEF Deliveries
    <3>3. frames[1].at < frames[i + 1].at /\ frames[1].body.time <= frames[i + 1].body.time
          /\ frames[i + 1].body.id = frames[i + 1].at
      BY <1>1, <2>1, <3>2 DEF DeliveriesApart
    <3>4. QED
      BY <1>1, <2>2, <3>2, <3>3
  <2>4. f.body \in Attempts
    BY <2>2, StampIs
  <2>5. QED
    BY <2>2, <2>3, <2>4
<1>3. \A d : d \in Deliveries(frames, n) <=>
               d \in Deliveries(frames', n) \/ (f.type = "delivery" /\ d = f.body /\ f.at > n)
  <2>1. TAKE d
  <2>2. ASSUME d \in Deliveries(frames, n)
        PROVE  d \in Deliveries(frames', n) \/ (f.type = "delivery" /\ d = f.body /\ f.at > n)
    <3>1. PICK i \in DOMAIN frames : frames[i].type = "delivery" /\ frames[i].body = d /\ frames[i].at > n
      BY <2>2 DEF Deliveries
    <3>2. d \in Attempts
      BY <2>2 DEF Deliveries
    <3>3. CASE i = 1
      BY <1>1, <3>1, <3>3
    <3>4. CASE i # 1
      <4>1. i - 1 \in DOMAIN frames' /\ frames'[i - 1] = frames[i]
        BY <1>1, <3>4
      <4>2. QED
        BY <3>1, <3>2, <4>1 DEF Deliveries
    <3>5. QED
      BY <3>3, <3>4
  <2>3. ASSUME d \in Deliveries(frames', n) PROVE d \in Deliveries(frames, n)
    <3>1. PICK i \in DOMAIN frames' : frames'[i].type = "delivery" /\ frames'[i].body = d /\ frames'[i].at > n
      BY <2>3 DEF Deliveries
    <3>2. d \in Attempts /\ i + 1 \in DOMAIN frames /\ frames'[i] = frames[i + 1]
      BY <1>1, <2>3 DEF Deliveries
    <3>3. QED
      BY <3>1, <3>2 DEF Deliveries
  <2>4. ASSUME f.type = "delivery", d = f.body, f.at > n PROVE d \in Deliveries(frames, n)
    BY <1>1, <1>2, <2>4 DEF Deliveries
  <2>5. QED
    BY <2>2, <2>3, <2>4
<1>4. Wiping(frames, n) <=> Wiping(frames', n) \/ (Wipes(f) /\ f.at > n)
  <2>1. ASSUME Wiping(frames, n) PROVE Wiping(frames', n) \/ (Wipes(f) /\ f.at > n)
    BY <1>1, <2>1 DEF Wiping
  <2>2. ASSUME Wiping(frames', n) PROVE Wiping(frames, n)
    BY <1>1, <2>2 DEF Wiping
  <2>3. ASSUME Wipes(f), f.at > n PROVE Wiping(frames, n)
    BY <1>1, <2>3 DEF Wiping
  <2>4. QED
    BY <2>1, <2>2, <2>3
<1>5. QED
  BY <1>1, <1>2, <1>3, <1>4 DEF f

\* Frames that the log is concerned by.
LEMMA LogConcerned ==
  ASSUME NEW f \in Frames
  PROVE  "log" \in Concerned(f) <=> f.type = "delivery" \/ Wipes(f)
<1>1. f.type \in FrameTypes
  BY FrameIs
<1>2. QED
  BY <1>1 DEF Concerned, FrameTypes, Wipes, Collections

\* One more attempt, where it belongs.
LEMMA LogInserted ==
  ASSUME NEW S, NEW s \in Seq(S), NEW d \in S, NEW k \in 1 .. Len(s) + 1
  PROVE  LET t == InsertAt(s, k, d) IN
         /\ t \in Seq(S) /\ Len(t) = Len(s) + 1 /\ t[k] = d
         /\ \A i \in DOMAIN t : i < k => i \in DOMAIN s /\ t[i] = s[i]
         /\ \A i \in DOMAIN t : i > k => i - 1 \in DOMAIN s /\ t[i] = s[i - 1]
         /\ ToSet(t) = ToSet(s) \cup {d}
<1> DEFINE t == InsertAt(s, k, d)
           n == Len(s)
           a == SubSeq(s, 1, k - 1)
           b == SubSeq(s, k, n)
<1>1. /\ n \in Nat /\ DOMAIN s = 1 .. n /\ k \in 1 .. n + 1
      /\ a \in Seq(S) /\ Len(a) = k - 1 /\ \A i \in 1 .. k - 1 : a[i] = s[i]
      /\ b \in Seq(S) /\ Len(b) = n + 1 - k /\ \A i \in 1 .. n + 1 - k : b[i] = s[k + i - 1]
      /\ <<d>> \in Seq(S) /\ Len(<<d>>) = 1
  OBVIOUS
<1>2. t = (a \o <<d>>) \o b
  BY DEF InsertAt
<1> HIDE DEF t, n, a, b
<1> DEFINE c == a \o <<d>>
<1>3. /\ c \in Seq(S) /\ Len(c) = k /\ c[k] = d
      /\ \A i \in 1 .. k - 1 : c[i] = s[i]
  <2>1. c \in Seq(S) /\ Len(c) = (k - 1) + 1
    BY <1>1
  <2>2. (k - 1) + 1 = k /\ Len(a) + 1 = k /\ k \in Nat \ {0}
    BY <1>1
  <2>3. c[Len(a) + 1] = d /\ \A i \in 1 .. Len(a) : c[i] = a[i]
    BY <1>1
  <2>4. QED
    BY <1>1, <2>1, <2>2, <2>3
<1>4. t = c \o b
  BY <1>2
<1> HIDE DEF c
<1>5. /\ t \in Seq(S) /\ Len(t) = n + 1 /\ DOMAIN t = 1 .. n + 1
      /\ \A i \in 1 .. k : t[i] = c[i]
      /\ \A i \in 1 .. n + 1 : i > k => t[i] = b[i - k]
  BY <1>1, <1>3, <1>4
<1>6. t[k] = d /\ \A i \in DOMAIN t : i < k => i \in DOMAIN s /\ t[i] = s[i]
  BY <1>1, <1>3, <1>5
<1>7. \A i \in DOMAIN t : i > k => i - 1 \in DOMAIN s /\ t[i] = s[i - 1]
  <2>1. SUFFICES ASSUME NEW i \in 1 .. n + 1, i > k PROVE i - 1 \in DOMAIN s /\ t[i] = s[i - 1]
    BY <1>5
  <2>2. i - k \in 1 .. n + 1 - k /\ k + (i - k) - 1 = i - 1 /\ i - 1 \in 1 .. n
    BY <1>1, <2>1
  <2>3. b[i - k] = s[k + (i - k) - 1]
    BY <1>1, <2>2
  <2>4. QED
    BY <1>1, <1>5, <2>1, <2>2, <2>3
<1>8. \A x : x \in ToSet(t) <=> x \in ToSet(s) \/ x = d
  <2>1. TAKE x
  <2>2. ASSUME NEW i \in DOMAIN t, t[i] = x PROVE x \in ToSet(s) \/ x = d
    <3>1. i < k \/ i = k \/ i > k
      BY <1>1, <1>5
    <3>2. QED
      BY <1>6, <1>7, <2>2, <3>1 DEF ToSet
  <2>3. ASSUME NEW i \in DOMAIN s, s[i] = x PROVE x \in ToSet(t)
    <3>1. CASE i < k
      <4>1. i \in DOMAIN t /\ t[i] = s[i]
        BY <1>1, <1>5, <1>6, <3>1
      <4>2. QED
        BY <2>3, <4>1 DEF ToSet
    <3>2. CASE ~(i < k)
      <4>1. i + 1 \in DOMAIN t /\ i + 1 > k /\ (i + 1) - 1 = i
        BY <1>1, <1>5, <3>2
      <4>2. t[i + 1] = s[i]
        BY <1>7, <4>1
      <4>3. QED
        BY <2>3, <4>1, <4>2 DEF ToSet
    <3>3. QED
      BY <3>1, <3>2
  <2>4. d \in ToSet(t)
    <3>1. k \in DOMAIN t
      BY <1>1, <1>5
    <3>2. QED
      BY <1>6, <3>1 DEF ToSet
  <2>5. QED
    BY <2>2, <2>3, <2>4 DEF ToSet
<1>9. QED
  BY <1>5, <1>6, <1>7, <1>8 DEF t, n

\* A list of some is a list of more.
LEMMA SeqWider ==
  ASSUME NEW S, NEW T, S \subseteq T, NEW s \in Seq(S)
  PROVE  s \in Seq(T)
<1>1. \A i \in 1 .. Len(s) : s[i] \in T
  OBVIOUS
<1>2. QED
  BY <1>1

\* The types of the log's parts.
LEMMA LogTyped ==
  ASSUME LogOrder, PagesTyped
  PROVE  /\ ToSet(log) \subseteq Stamps /\ store.before \in Int /\ store.before <= clock
         /\ store.log.loaded => /\ store.log.data \in Seq(Stamps) /\ ToSet(store.log.data) \subseteq Stamps
                                /\ store.log = Loaded(store.log.data)
         /\ NotLoaded.loaded = FALSE /\ \A d : Loaded(d).loaded = TRUE /\ Loaded(d).data = d
<1>1. NotLoaded.loaded = FALSE /\ \A d : Loaded(d).loaded = TRUE /\ Loaded(d).data = d
  BY DEF NotLoaded, Loaded
<1>2. ToSet(log) \subseteq Stamps
  BY LogRows
<1>3. store.log.loaded => store.log.data \in Seq(Stamps) /\ store.log = Loaded(store.log.data)
  BY <1>1 DEF PagesTyped
<1>4. store.log.loaded => ToSet(store.log.data) \subseteq Stamps
  BY <1>3 DEF ToSet
<1>5. store.before \in Int /\ store.before <= clock
  BY DEF PagesTyped, Cursors
<1>6. QED
  BY <1>1, <1>2, <1>3, <1>4, <1>5

\* In time there are only more attempts and cursors.
LEMMA StampsGrow ==
  ASSUME TypeOK, TypeOK', changes <= changes', clock <= clock'
  PROVE  /\ Stamps \subseteq Stamps' /\ Cursors \subseteq Cursors'
         /\ \A s : s \in Seq(Stamps) => s \in Seq(Stamps')
<1>1. changes \in Int /\ changes' \in Int /\ clock \in Int /\ clock' \in Int
  BY DEF TypeOK, ServerTypes
<1>2. Stamps \subseteq Stamps'
  <2>1. SUFFICES ASSUME NEW d \in Stamps PROVE d \in Stamps'
    OBVIOUS
  <2>2. d.id <= changes' /\ d.time <= clock'
    BY <1>1, StampIs
  <2>3. QED
    BY <2>2, StampIs DEF Stamps
<1>3. Cursors \subseteq Cursors'
  BY <1>1 DEF Cursors
<1>4. QED
  BY <1>2, <1>3, SeqWider

-----------------------------------------------------------------------------
(* The log, step by step *)

\* Pages that are not replaced stay pages when more has happened.
LEMMA PagesStay ==
  ASSUME TypeOK, TypeOK', PagesTyped, changes <= changes', clock <= clock',
         store'.log = store.log, store'.before = store.before,
         \A g \in {"latest", "older"} : Older(requests[g], requests'[g])
  PROVE  PagesTyped'
<1>1. Cursors \subseteq Cursors' /\ \A s : s \in Seq(Stamps) => s \in Seq(Stamps')
  BY StampsGrow
<1>2. store'.log = NotLoaded \/ (store'.log = Loaded(store'.log.data) /\ store'.log.data \in Seq(Stamps'))
  BY <1>1 DEF PagesTyped
<1>3. \A g \in {"latest", "older"} :
        /\ requests'[g].stage = requests[g].stage
        /\ requests[g].stage # "idle" => requests'[g].arg = requests[g].arg
        /\ requests'[g].stage = "answered" => requests'[g].data = requests[g].data
  BY OlderStages, OlderAnswers DEF Older
<1>4. \A g \in {"latest", "older"} : requests'[g].stage = "answered" =>
        requests'[g].data["log"] \in Seq(Stamps')
  BY <1>1, <1>3 DEF PagesTyped
<1>5. /\ requests'["latest"].stage # "idle" => requests'["latest"].arg = 0
      /\ requests'["older"].stage # "idle" => requests'["older"].arg \in Cursors' \ {0}
      /\ store'.before \in Cursors'
  BY <1>1, <1>3 DEF PagesTyped
<1>6. QED
  BY <1>2, <1>4, <1>5 DEF PagesTyped

\* The attempt that a frame tells about is the latest one.
LEMMA DeliveryIs ==
  ASSUME TypeOK, TypeOK', NEW f, f.at = changes + 1, changes' = changes + 1, Logged(f)
  PROVE  /\ clock <= clock' /\ clock \in Int /\ clock' \in Int /\ changes \in Nat
         /\ f.type = "delivery" =>
              f.body \in Stamps' /\ f.body.id = f.at /\ f.body.time = clock'
<1>1. clock \in Nat \ {0} /\ clock' \in Nat \ {0} /\ changes \in Nat
  BY DEF TypeOK, ServerTypes
<1>2. CASE f.type = "delivery"
  <2>1. PICK tick \in {0, 1} : f.body = [id |-> f.at, time |-> clock + tick] /\ clock' = clock + tick
    BY <1>2 DEF Logged
  <2>2. f.body.id = f.at /\ f.body.time = clock' /\ f.body \in Attempts
    BY <1>1, <2>1 DEF Attempts
  <2>3. QED
    BY <1>1, <2>1, <2>2 DEF Stamps
<1>3. CASE f.type # "delivery"
  BY <1>1, <1>3 DEF Logged
<1>4. QED
  BY <1>2, <1>3

\* A change of the server keeps the frames of attempts apart.
LEMMA ServerApart ==
  ASSUME TypeOK, TypeOK', WireOrder, DeliveriesApart, NEW fs, NEW mine \in BOOLEAN,
         ServerMoves(fs, mine), Published(fs, mine)
  PROVE  DeliveriesApart'
<1> DEFINE f == Last(fs)
           l == Len(frames)
<1>1. /\ fs \in Seq(Frames) /\ fs # <<>> /\ f \in Frames /\ f.at = changes + 1 /\ changes \in Nat
      /\ \A j \in DOMAIN fs : fs[j].at = changes + 1
      /\ \A j \in DOMAIN fs : fs[j].type = "delivery" => j = Len(fs) /\ fs[j] = f
      /\ f.type = "delivery" => f.body \in Stamps' /\ f.body.id = f.at /\ f.body.time = clock'
      /\ mine => f.type # "delivery"
      /\ \A i \in DOMAIN frames : frames[i].at \in Nat /\ frames[i].at <= changes
      /\ DOMAIN frames = 1 .. l /\ l \in Nat
      /\ Stamps \subseteq Stamps' /\ clock \in Int /\ clock' \in Int /\ clock <= clock'
  <2>1. fs \in Seq(Frames) /\ fs # <<>> /\ f \in Frames /\ f = fs[Len(fs)] /\ Len(fs) \in DOMAIN fs
    BY LastOf DEF ServerMoves
  <2>2. \A j \in DOMAIN fs : fs[j].type = "delivery" => j = Len(fs)
    BY DEF ServerMoves
  <2>3. \A i \in DOMAIN frames : frames[i].at \in Nat /\ frames[i].at <= changes
    BY DEF WireOrder
  <2>4. /\ mine => f.type # "delivery"
        /\ f.at = changes + 1 /\ \A j \in DOMAIN fs : fs[j].at = changes + 1
        /\ Logged(f) /\ changes' = changes + 1
    BY <2>1 DEF ServerMoves, Published
  <2>5. /\ f.type = "delivery" => f.body \in Stamps' /\ f.body.id = f.at /\ f.body.time = clock'
        /\ clock \in Int /\ clock' \in Int /\ clock <= clock' /\ changes \in Nat
    BY <2>4, DeliveryIs
  <2>6. Stamps \subseteq Stamps'
    BY <2>4, <2>5, StampsGrow
  <2>7. QED
    BY <2>1, <2>2, <2>3, <2>4, <2>5, <2>6, FramesTyped
<1> HIDE DEF f
<1>2. echo'.pending => echo'.frame.type # "delivery"
  <2>1. CASE mine
    BY <1>1, <2>1 DEF Published, f
  <2>2. CASE ~mine
    <3>1. echo' = echo \/ echo' = EchoPassedBy(f)
      BY <2>2 DEF Published, f
    <3>2. echo'.pending = echo.pending /\ (echo.pending => echo'.frame = echo.frame)
      BY <1>1, <3>1, EchoPassed, ConcernedIn DEF TypeOK, WireTypes
    <3>3. QED
      BY <3>2 DEF DeliveriesApart
  <2>3. QED
    BY <2>1, <2>2
<1>3. \A i \in DOMAIN frames : frames[i].type = "delivery" =>
        /\ frames[i].body \in Stamps' /\ frames[i].body.id = frames[i].at
        /\ frames[i].body.time \in Int /\ frames[i].body.time <= clock'
  <2>1. SUFFICES ASSUME NEW i \in DOMAIN frames, frames[i].type = "delivery"
                 PROVE  /\ frames[i].body \in Stamps' /\ frames[i].body.id = frames[i].at
                        /\ frames[i].body.time \in Int /\ frames[i].body.time <= clock'
    OBVIOUS
  <2>2. frames[i].body \in Stamps /\ frames[i].body.id = frames[i].at
    BY <2>1 DEF DeliveriesApart
  <2>3. frames[i].body.time \in Int /\ frames[i].body.time <= clock
    BY <2>2, StampIs
  <2>4. QED
    BY <1>1, <2>2, <2>3
<1>4. CASE ~connected
  <2>1. frames' = frames
    BY <1>4 DEF Published
  <2>2. QED
    BY <1>2, <1>3, <2>1 DEF DeliveriesApart
<1>5. CASE connected
  <2>1. frames' = frames \o fs
    BY <1>5 DEF Published
  <2>2. /\ DOMAIN frames' = 1 .. l + Len(fs) /\ Len(fs) \in Nat \ {0}
        /\ \A i \in DOMAIN frames : i \in DOMAIN frames' /\ frames'[i] = frames[i]
        /\ \A i \in DOMAIN frames' : i \in DOMAIN frames \/ i - l \in DOMAIN fs
        /\ \A j \in DOMAIN fs : l + j \in DOMAIN frames' /\ frames'[l + j] = fs[j]
    BY <2>1, FramesGrow
  <2> HIDE DEF l
  <2>3. ASSUME NEW i \in DOMAIN frames', i \notin DOMAIN frames
        PROVE  /\ frames'[i].at = changes + 1
               /\ frames'[i].type = "delivery" => frames'[i] = f /\ i = l + Len(fs)
    <3>1. i - l \in DOMAIN fs /\ l + (i - l) = i
      BY <1>1, <2>2, <2>3
    <3>2. frames'[i] = fs[i - l]
      BY <2>2, <3>1
    <3>3. QED
      BY <1>1, <3>1, <3>2
  <2>4. ASSUME NEW i \in DOMAIN frames', NEW j \in DOMAIN frames', i < j,
               frames'[i].type = "delivery", frames'[j].type = "delivery"
        PROVE  frames'[i].at < frames'[j].at /\ frames'[i].body.time <= frames'[j].body.time
    <3>1. CASE i \in DOMAIN frames /\ j \in DOMAIN frames
      BY <2>2, <2>4, <3>1 DEF DeliveriesApart
    <3>2. CASE i \in DOMAIN frames /\ j \notin DOMAIN frames
      <4>1. frames'[j] = f /\ frames'[i] = frames[i]
        BY <2>2, <2>3, <2>4, <3>2
      <4>2. f.at = changes + 1 /\ f.body.time = clock'
        BY <1>1, <2>4, <4>1
      <4>3. frames[i].at <= changes /\ frames[i].at \in Nat /\ frames[i].body.time <= clock'
        BY <1>1, <1>3, <2>4, <3>2, <4>1
      <4>4. QED
        BY <1>1, <4>1, <4>2, <4>3
    <3>3. CASE i \notin DOMAIN frames
      BY <1>1, <2>2, <2>3, <2>4, <3>3
    <3>4. QED
      BY <3>1, <3>2, <3>3
  <2>5. ASSUME NEW i \in DOMAIN frames', frames'[i].type = "delivery"
        PROVE  frames'[i].body \in Stamps' /\ frames'[i].body.id = frames'[i].at
    BY <1>1, <1>3, <2>2, <2>3, <2>5
  <2>6. QED
    BY <1>2, <2>4, <2>5 DEF DeliveriesApart
<1>6. QED
  BY <1>4, <1>5

\* A delivery leaves the log in order.
LEMMA DeliveredOrder ==
  ASSUME TypeOK, TypeOK', LogOrder, NEW f, f.type = "delivery", f.at = changes + 1,
         changes' = changes + 1, Logged(f)
  PROVE  LogOrder' /\ ToSet(log') = ToSet(log) \cup {f.body}
<1>1. PICK k \in 1 .. Len(log) + 1 :
        (\A i \in k .. Len(log) : log[i].time = clock') /\ log' = InsertAt(log, k, f.body)
  BY DEF Logged
<1>2. /\ clock <= clock' /\ clock \in Int /\ clock' \in Int /\ changes \in Nat
      /\ f.body \in Stamps' /\ f.body.id = changes + 1 /\ f.body.time = clock'
  BY DeliveryIs
<1>3. /\ DOMAIN log = 1 .. Len(log) /\ Len(log) \in Nat
      /\ \A i \in DOMAIN log : log[i].time \in Int /\ log[i].id \in Int
                               /\ log[i].time <= clock /\ log[i].id <= changes
  BY LogRows, StampIs
<1>4. log \in Seq(Stamps')
  BY <1>2, StampsGrow DEF LogOrder
<1>5. /\ log' \in Seq(Stamps') /\ Len(log') = Len(log) + 1 /\ log'[k] = f.body
      /\ \A i \in DOMAIN log' : i < k => i \in DOMAIN log /\ log'[i] = log[i]
      /\ \A i \in DOMAIN log' : i > k => i - 1 \in DOMAIN log /\ log'[i] = log[i - 1]
      /\ ToSet(log') = ToSet(log) \cup {f.body}
  BY <1>1, <1>2, <1>4, LogInserted
<1> DEFINE was(i) == IF i < k THEN i ELSE i - 1
<1>6. /\ DOMAIN log' = 1 .. Len(log) + 1
      /\ \A i \in DOMAIN log' : i # k => was(i) \in DOMAIN log /\ log'[i] = log[was(i)]
  BY <1>3, <1>5
<1>7. ASSUME NEW i \in DOMAIN log', NEW j \in DOMAIN log', i < j
      PROVE  log'[i].time <= log'[j].time /\ log'[i].id # log'[j].id
  <2>1. CASE i # k /\ j # k
    <3>1. was(i) < was(j) /\ was(i) \in DOMAIN log /\ was(j) \in DOMAIN log
      BY <1>3, <1>6, <1>7, <2>1
    <3>2. log'[i] = log[was(i)] /\ log'[j] = log[was(j)]
      BY <1>6, <2>1
    <3> HIDE DEF was
    <3>3. QED
      BY <3>1, <3>2 DEF LogOrder
  <2>2. CASE j = k
    BY <1>2, <1>3, <1>5, <1>7, <2>2
  <2>3. CASE i = k
    <3>1. j - 1 \in k .. Len(log) /\ log'[j] = log[j - 1] /\ j - 1 \in DOMAIN log
      BY <1>3, <1>5, <1>6, <1>7, <2>3
    <3>2. log[j - 1].time = clock' /\ log[j - 1].id <= changes /\ log[j - 1].id \in Int
      BY <1>1, <1>3, <3>1
    <3>3. QED
      BY <1>2, <1>5, <2>3, <3>1, <3>2
  <2>4. QED
    BY <2>1, <2>2, <2>3
<1>8. ASSUME NEW i \in DOMAIN log', NEW j \in DOMAIN log',
             log'[i].id < log'[j].id, log'[j].id > 0
      PROVE  log'[i].time <= log'[j].time
  <2>1. CASE i # k /\ j # k
    <3>1. was(i) \in DOMAIN log /\ was(j) \in DOMAIN log /\ log'[i] = log[was(i)] /\ log'[j] = log[was(j)]
      BY <1>6, <2>1
    <3> HIDE DEF was
    <3>2. QED
      BY <1>8, <3>1 DEF LogOrder
  <2>2. CASE i = k
    <3>1. j = k \/ log'[j].id <= changes
      BY <1>3, <1>6
    <3>2. QED
      BY <1>2, <1>3, <1>5, <1>6, <1>8, <2>2, <3>1
  <2>3. CASE i # k /\ j = k
    <3>1. log'[i].time <= clock /\ log'[i].time \in Int
      BY <1>3, <1>6, <2>3
    <3>2. QED
      BY <1>2, <1>5, <2>3, <3>1
  <2>4. QED
    BY <2>1, <2>2, <2>3
<1>9. LogOrder'
  BY <1>5, <1>7, <1>8 DEF LogOrder
<1>10. QED
  BY <1>5, <1>9

\* A change of the server keeps it.
LEMMA ServerLog ==
  ASSUME TypeOK, WireOrder, LogInv, NEW fs, NEW mine \in BOOLEAN, ServerMoves(fs, mine)
  PROVE  LogInv'
<1> DEFINE f == Last(fs)
           new == IF f.type = "delivery" THEN {f.body} ELSE {}
<1>1. TypeOK' /\ Published(fs, mine)
  BY PublishFacts
<1>2. /\ f \in Frames /\ f.at = changes + 1 /\ Logged(f) /\ changes \in Nat /\ changes' = changes + 1
      /\ store' = store /\ connected' = connected /\ cuts' = cuts
  BY <1>1, LastOf, FramesTyped DEF ServerMoves, Published
<1>3. /\ ToSet(log) \subseteq Stamps /\ store.before \in Int /\ store.before <= clock
      /\ store.log.loaded => ToSet(store.log.data) \subseteq Stamps
  BY LogTyped DEF LogInv
<1>4. /\ f.type = "delivery" => ~Wipes(f)
      /\ "log" \in Concerned(f) <=> f.type = "delivery" \/ Wipes(f)
      /\ f.type # "delivery" => log' = <<>> \/ log' = log
      /\ f.type # "delivery" /\ ~Wipes(f) => log' = log
  <2>1. "log" \in Concerned(f) <=> f.type = "delivery" \/ Wipes(f)
    BY <1>2, LogConcerned
  <2>2. f.type = "delivery" => ~Wipes(f)
    BY DEF Wipes
  <2>3. QED
    BY <1>2, <2>1, <2>2 DEF Logged, Wipes
<1>5. /\ clock <= clock' /\ clock \in Int /\ clock' \in Int
      /\ f.type = "delivery" => f.body \in Stamps' /\ f.body.id = changes + 1 /\ f.body.time = clock'
  BY <1>1, <1>2, DeliveryIs
<1>6. ASSUME NEW n \in Nat, n <= changes, connected
      PROVE  /\ Deliveries(frames', n) = Deliveries(frames, n) \cup new
             /\ Wiping(frames', n) <=> Wiping(frames, n) \/ Wipes(f)
  <2>1. frames' = frames \o fs
    BY <1>1, <1>6 DEF Published
  <2>2. QED
    BY <1>6, <2>1, PublishedLog
<1>7. ~connected => frames = <<>> /\ frames' = frames
  BY <1>1 DEF WireOrder, Published
<1>8. \A g \in {"latest", "older"} : g \in Gets /\ About(g) = {"log"} /\ Older(requests[g], requests'[g])
  BY <1>1, GetNames, AboutIs DEF Published
<1>9. LogOrder' /\ (~Wipes(f) => ToSet(log') = ToSet(log) \cup new)
  <2>1. CASE f.type = "delivery"
    BY <1>1, <1>2, <2>1, DeliveredOrder DEF LogInv
  <2>2. CASE f.type # "delivery"
    <3>1. \A s : s \in Seq(Stamps) => s \in Seq(Stamps')
      BY <1>1, <1>2, <1>5, StampsGrow
    <3>2. LogOrder'
      <4>1. CASE log' = <<>>
        BY <4>1 DEF LogOrder
      <4>2. CASE log' = log
        BY <3>1, <4>2 DEF LogInv, LogOrder
      <4>3. QED
        BY <1>4, <2>2, <4>1, <4>2
    <3>3. ~Wipes(f) => log' = log /\ new = {}
      BY <1>4, <2>2
    <3>4. QED
      BY <3>2, <3>3
  <2>3. QED
    BY <2>1, <2>2
<1>10. \A d \in new : d \in Attempts /\ d.id = changes + 1 /\ d.time = clock' /\ d.id \in Int /\ d.time \in Int
  <2>1. \A d \in Stamps' : d \in Attempts /\ d.id \in Int /\ d.time \in Int
    BY DEF Stamps, Attempts
  <2>2. QED
    BY <1>5, <2>1
<1> HIDE DEF f, new
<1>11. DeliveriesApart'
  BY <1>1, ServerApart DEF LogInv
<1>12. PagesTyped'
  <2>1. changes <= changes'
    BY <1>2
  <2>2. QED
    BY <1>1, <1>2, <1>5, <1>8, <2>1, PagesStay DEF LogInv
<1>13. ASSUME NEW g \in {"latest", "older"}, requests'[g].stage = "answered", ~requests'[g].old,
              ~Wiping(frames', requests'[g].at)
       PROVE  /\ requests'[g] = requests[g] /\ requests[g].stage = "answered" /\ ~requests[g].old
              /\ requests[g].at \in Nat /\ requests[g].at <= changes
              /\ ~Wipes(f) /\ ~Wiping(frames, requests[g].at)
              /\ g = "latest" => Deliveries(frames', requests[g].at) =
                                   Deliveries(frames, requests[g].at) \cup new
  <2> DEFINE get == requests[g]
  <2>1. requests'[g] = get /\ get.stage = "answered" /\ ~get.old /\ get.at \in Nat
    BY <1>8, <1>13, OlderAnswer
  <2>2. get.at <= changes
    BY <1>8, <2>1 DEF WireOrder
  <2>3. ~connected => ~Wipes(f) /\ (g = "latest" => f.type # "delivery")
    <3>1. SUFFICES ASSUME ~connected PROVE ~Wipes(f) /\ (g = "latest" => f.type # "delivery")
      OBVIOUS
    <3>2. get.at < f.at /\ g \in Gets /\ About(g) = {"log"}
      BY <1>2, <1>8, <2>1, <2>2
    <3>3. ~PassesBy(f, g)
      BY <1>1, <1>13, <2>1, <3>1, <3>2 DEF Published, f
    <3>4. ~("log" \in Concerned(f) /\ (g = "older" => Wipes(f)))
      BY <2>1, <3>2, <3>3 DEF PassesBy
    <3>5. QED
      BY <1>4, <3>4
  <2>4. CASE connected
    BY <1>6, <1>13, <2>1, <2>2, <2>4
  <2>5. CASE ~connected
    <3>1. g = "latest" => new = {}
      BY <2>3, <2>5 DEF new
    <3>2. QED
      BY <1>7, <1>13, <2>1, <2>2, <2>3, <2>5, <3>1
  <2>6. QED
    BY <2>4, <2>5
<1>14. LatestHolds'
  <2> DEFINE get == requests["latest"]
  <2>1. SUFFICES ASSUME requests'["latest"].stage = "answered", ~requests'["latest"].old,
                        ~Wiping(frames', requests'["latest"].at)
                 PROVE  /\ IsPage(requests'["latest"].data["log"],
                                  {d \in ToSet(log') : d.id <= requests'["latest"].at})
                        /\ {d \in ToSet(log') : d.id > requests'["latest"].at} =
                             Deliveries(frames', requests'["latest"].at)
    BY DEF LatestHolds
  <2>2. /\ requests'["latest"] = get /\ get.stage = "answered" /\ ~get.old
        /\ get.at \in Nat /\ get.at <= changes
        /\ ~Wipes(f) /\ ~Wiping(frames, get.at)
        /\ Deliveries(frames', get.at) = Deliveries(frames, get.at) \cup new
    BY <1>13, <2>1
  <2>3. /\ IsPage(get.data["log"], {d \in ToSet(log) : d.id <= get.at})
        /\ {d \in ToSet(log) : d.id > get.at} = Deliveries(frames, get.at)
    BY <2>2 DEF LogInv, LatestHolds
  <2>4. ToSet(log') = ToSet(log) \cup new
    BY <1>9, <2>2
  <2> HIDE DEF get
  <2>5. \A d \in new : d.id > get.at /\ ~(d.id <= get.at)
    BY <1>2, <1>10, <2>2
  <2>6. {d \in ToSet(log') : d.id <= get.at} = {d \in ToSet(log) : d.id <= get.at}
    BY <2>4, <2>5
  <2>7. {d \in ToSet(log') : d.id > get.at} = Deliveries(frames', get.at)
    BY <2>2, <2>3, <2>4, <2>5
  <2>8. QED
    BY <2>2, <2>3, <2>6, <2>7
<1>15. OlderHolds'
  <2> DEFINE get == requests["older"]
  <2>1. SUFFICES ASSUME requests'["older"].stage = "answered", ~requests'["older"].old,
                        ~Wiping(frames', requests'["older"].at)
                 PROVE  IsPage(requests'["older"].data["log"],
                               {d \in ToSet(log') : d.time < requests'["older"].arg})
    BY DEF OlderHolds
  <2>2. /\ requests'["older"] = get /\ get.stage = "answered" /\ ~get.old
        /\ ~Wipes(f) /\ ~Wiping(frames, get.at)
    BY <1>13, <2>1
  <2>3. get.arg \in Int /\ get.arg <= clock
    BY <2>2 DEF LogInv, PagesTyped, Cursors
  <2>4. IsPage(get.data["log"], {d \in ToSet(log) : d.time < get.arg})
    BY <2>2 DEF LogInv, OlderHolds
  <2> HIDE DEF get
  <2>5. ToSet(log') = ToSet(log) \cup new
    BY <1>9, <2>2
  <2>6. \A d \in new : ~(d.time < get.arg)
    BY <1>5, <1>10, <2>3
  <2>7. {d \in ToSet(log') : d.time < get.arg} = {d \in ToSet(log) : d.time < get.arg}
    BY <2>5, <2>6
  <2>8. QED
    BY <2>2, <2>4, <2>7
<1>16. LogHolds'
  <2> DEFINE list == store.log.data
             coming == Deliveries(frames, 0)
             b == store.before
  <2>1. SUFFICES ASSUME store.log.loaded, ~behind'["log"], ~Wiping(frames', 0)
                 PROVE  Shows(list, Deliveries(frames, 0), b, cuts)'
    BY <1>2 DEF LogHolds
  <2>2. ~behind["log"] /\ (~connected => f.type # "delivery" /\ ~Wipes(f))
    <3>1. "log" \in Collections
      BY DEF Collections
    <3>2. CASE connected
      BY <1>1, <2>1, <3>2 DEF Published
    <3>3. CASE ~connected
      BY <1>1, <1>4, <2>1, <3>1, <3>3 DEF Published, f
    <3>4. QED
      BY <3>2, <3>3
  <2>3. ~Wipes(f) /\ ~Wiping(frames, 0) /\ Deliveries(frames', 0) = coming \cup new
    <3>1. CASE connected
      BY <1>2, <1>6, <2>1, <3>1
    <3>2. CASE ~connected
      BY <1>7, <2>1, <2>2, <3>2 DEF new
    <3>3. QED
      BY <3>1, <3>2
  <2>4. Shows(list, coming, b, cuts)
    BY <2>1, <2>2, <2>3 DEF LogInv, LogHolds
  <2>5. ToSet(log') = ToSet(log) \cup new
    BY <1>9, <2>3
  <2>6. Due(ToSet(log'), b) = Due(ToSet(log), b) \cup new
    <3>1. \A d \in new : d.time >= b
      BY <1>3, <1>5, <1>10
    <3>2. QED
      BY <2>5, <3>1 DEF Due
  <2>7. \A d \in ToSet(list), e \in new : d.time <= e.time /\ d.id # e.id
    <3>1. \A d \in ToSet(list) : d.id \in Int /\ d.time \in Int /\ d.id <= changes /\ d.time <= clock
      BY <1>3, <2>1, StampIs
    <3>2. QED
      BY <1>2, <1>5, <1>10, <3>1
  <2>8. /\ NewestFirst(list)
        /\ ToSet(list) \cup coming \subseteq Due(ToSet(log), b)
        /\ {d \in Due(ToSet(log), b) : d.time \notin cuts} \subseteq ToSet(list) \cup coming
        /\ \A d \in ToSet(list), e \in coming : d.time <= e.time /\ d.id # e.id
    BY <2>4 DEF Shows
  <2> HIDE DEF list, coming, b
  <2>9. /\ ToSet(list) \cup (coming \cup new) \subseteq Due(ToSet(log'), b)
        /\ {d \in Due(ToSet(log'), b) : d.time \notin cuts} \subseteq ToSet(list) \cup (coming \cup new)
        /\ \A d \in ToSet(list), e \in coming \cup new : d.time <= e.time /\ d.id # e.id
    BY <2>6, <2>7, <2>8
  <2>10. list' = list /\ b' = b /\ cuts' = cuts
    BY <1>2 DEF list, b
  <2>11. QED
    BY <2>3, <2>8, <2>9, <2>10 DEF Shows
<1>17. QED
  BY <1>9, <1>11, <1>12, <1>14, <1>15, <1>16 DEF LogInv

\* An import is swapped in: what is under way is old, and the list is behind.
LEMMA SwapLog ==
  ASSUME TypeOK, WireOrder, LogInv, Import
  PROVE  LogInv'
<1>1. TypeOK' /\ Swapped /\ log' = SnapshotLog /\ clock' = clock /\ changes' = changes /\ cuts' = cuts
      /\ changes \in Nat /\ clock \in Nat \ {0}
  BY ImportFacts DEF Swapped, Import, Refill, TypeOK, ServerTypes
<1>2. /\ UNCHANGED <<frames, store>> /\ echo'.pending = echo.pending
      /\ echo.pending => echo'.frame = echo.frame
      /\ behind'["log"] = TRUE
      /\ \A g \in {"latest", "older"} :
           /\ Older(requests[g], requests'[g])
           /\ requests'[g].stage = "answered" /\ requests[g].at <= changes => requests'[g].old = TRUE
  BY <1>1, GetNames DEF Swapped, Collections
<1>3. Stamps' = Stamps /\ changes <= changes' /\ clock <= clock'
  BY <1>1 DEF Stamps
<1>4. LogOrder'
  <2>1. /\ SnapshotLog \in Seq(Attempts) /\ Distinct(SnapshotLog)
        /\ \A i \in DOMAIN SnapshotLog : SnapshotLog[i].id <= 0 /\ SnapshotLog[i].time < 0
        /\ \A i, j \in DOMAIN SnapshotLog : i < j => SnapshotLog[i].time <= SnapshotLog[j].time
    BY ConsoleAssumption
  <2>2. \A i \in DOMAIN SnapshotLog : SnapshotLog[i] \in Attempts
    BY <2>1
  <2>3. \A i \in DOMAIN SnapshotLog : SnapshotLog[i].id \in Int /\ SnapshotLog[i].time \in Int
    BY <2>2 DEF Attempts
  <2>4. \A i \in DOMAIN SnapshotLog : SnapshotLog[i] \in Stamps
    BY <1>1, <2>1, <2>2, <2>3 DEF Stamps
  <2>5. SnapshotLog \in Seq(Stamps)
    BY <2>1, <2>4
  <2>6. \A i, j \in DOMAIN SnapshotLog : i < j => SnapshotLog[i].id # SnapshotLog[j].id
    BY <2>1 DEF Distinct
  <2>7. QED
    BY <1>1, <1>3, <2>1, <2>3, <2>5, <2>6 DEF LogOrder
<1>5. DeliveriesApart'
  BY <1>2, <1>3 DEF LogInv, DeliveriesApart
<1>6. PagesTyped'
  BY <1>1, <1>2, <1>3, PagesStay DEF LogInv
<1>7. \A g \in {"latest", "older"} : requests'[g].stage = "answered" => requests'[g].old
  <2>1. SUFFICES ASSUME NEW g \in {"latest", "older"}, requests'[g].stage = "answered"
                 PROVE  requests'[g].old
    OBVIOUS
  <2>2. requests[g].stage = "answered"
    BY <1>2, <2>1, OlderAnswers
  <2>3. requests[g].at <= changes
    BY <2>2, GetNames DEF WireOrder
  <2>4. QED
    BY <1>2, <2>1, <2>3
<1>8. LatestHolds' /\ OlderHolds' /\ LogHolds'
  BY <1>2, <1>7 DEF LatestHolds, OlderHolds, LogHolds
<1>9. QED
  BY <1>4, <1>5, <1>6, <1>8 DEF LogInv

\* An import that fails leaves the log alone.
LEMMA FailLog ==
  ASSUME FailImport
  PROVE  LogStill
BY DEF FailImport, LogStill

\* An answer is read.
LEMMA AnswerLog ==
  ASSUME TypeOK, WireOrder, LogInv, NEW g \in Gets, Answer(g)
  PROVE  LogInv'
<1>1. /\ requests[g].stage = "sent" /\ requests'[g].stage = "answered" /\ requests'[g].at = changes
      /\ requests'[g].arg = requests[g].arg /\ requests'[g].old = FALSE
      /\ \A c \in About(g) : requests'[g].data[c] = Read(c, requests[g].arg)
      /\ \A h \in Gets : h # g => requests'[h] = requests[h]
      /\ UNCHANGED <<log, clock, changes, frames, store, echo, behind, cuts>>
      /\ changes \in Nat
  BY AnswerFacts DEF serverVars, TypeOK, ServerTypes, Answer
<1>2. /\ g \in {"latest", "older"} => requests'[g].data["log"] = Newest(requests[g].arg)
      /\ g = "latest" => requests[g].arg = 0
      /\ g = "older" => requests[g].arg \in Cursors \ {0}
  <2>1. g \in {"latest", "older"} => "log" \in About(g)
    BY AboutIs
  <2>2. g \in {"latest", "older"} => requests'[g].data["log"] = Newest(requests[g].arg)
    BY <1>1, <2>1 DEF Read
  <2>3. QED
    BY <1>1, <2>2 DEF LogInv, PagesTyped
<1>3. g \in {"latest", "older"} =>
        /\ requests'[g].data["log"] \in Seq(Stamps)
        /\ IsPage(requests'[g].data["log"],
                  {d \in ToSet(log) : requests[g].arg = 0 \/ d.time < requests[g].arg})
  <2>1. SUFFICES ASSUME g \in {"latest", "older"}
                 PROVE  /\ requests'[g].data["log"] \in Seq(Stamps)
                        /\ IsPage(requests'[g].data["log"],
                                  {d \in ToSet(log) : requests[g].arg = 0 \/ d.time < requests[g].arg})
    OBVIOUS
  <2>2. requests[g].arg \in Int
    BY <1>2, <2>1 DEF Cursors
  <2>3. QED
    BY <1>2, <2>1, <2>2, NewestIsPage DEF LogInv
<1>4. "latest" \in Gets /\ "older" \in Gets
  BY GetNames
<1>5. LogOrder' /\ DeliveriesApart' /\ LogHolds'
  BY <1>1 DEF LogInv, LogOrder, DeliveriesApart, LogHolds, Shows, Stamps
<1>6. PagesTyped'
  <2>1. Stamps' = Stamps /\ Cursors' = Cursors
    BY <1>1 DEF Stamps, Cursors
  <2>2. \A h \in {"latest", "older"} : requests'[h].stage = "answered" =>
          requests'[h].data["log"] \in Seq(Stamps)
    BY <1>1, <1>3, <1>4 DEF LogInv, PagesTyped
  <2>3. /\ requests'["latest"].stage # "idle" => requests'["latest"].arg = 0
        /\ requests'["older"].stage # "idle" => requests'["older"].arg \in Cursors \ {0}
    BY <1>1, <1>2, <1>4 DEF LogInv, PagesTyped
  <2>4. QED
    BY <1>1, <2>1, <2>2, <2>3 DEF LogInv, PagesTyped
<1>7. LatestHolds'
  <2>1. CASE g = "latest"
    <3> DEFINE page == requests'[g].data["log"]
    <3>1. \A d \in ToSet(log) : d.id <= changes /\ ~(d.id > changes)
      BY <1>1, LogTyped, StampIs DEF LogInv
    <3>2. {d \in ToSet(log) : d.id <= changes} = {d \in ToSet(log) : requests[g].arg = 0 \/ d.time < requests[g].arg}
      BY <1>2, <2>1, <3>1
    <3>3. {d \in ToSet(log) : d.id > changes} = {}
      BY <3>1
    <3>4. Deliveries(frames, changes) = {}
      BY <1>1 DEF Deliveries, WireOrder
    <3>5. IsPage(page, {d \in ToSet(log) : d.id <= changes})
      BY <1>3, <2>1, <3>2
    <3>6. QED
      BY <1>1, <2>1, <3>3, <3>4, <3>5 DEF LatestHolds
  <2>2. CASE g # "latest"
    BY <1>1, <1>4, <2>2 DEF LogInv, LatestHolds
  <2>3. QED
    BY <2>1, <2>2
<1>8. OlderHolds'
  <2>1. CASE g = "older"
    <3> DEFINE page == requests'[g].data["log"]
               arg == requests[g].arg
    <3>1. arg # 0
      BY <1>1, <1>2, <2>1
    <3>2. {d \in ToSet(log) : d.time < arg} = {d \in ToSet(log) : arg = 0 \/ d.time < arg}
      BY <3>1
    <3>3. IsPage(page, {d \in ToSet(log) : d.time < arg})
      BY <1>3, <2>1, <3>2
    <3>4. QED
      BY <1>1, <2>1, <3>3 DEF OlderHolds
  <2>2. CASE g # "older"
    BY <1>1, <1>4, <2>2 DEF LogInv, OlderHolds
  <2>3. QED
    BY <2>1, <2>2
<1>9. QED
  BY <1>5, <1>6, <1>7, <1>8 DEF LogInv

\* What the log does not hang on.
LEMMA StillLog ==
  ASSUME TypeOK, LogInv, LogStill
  PROVE  LogInv'
<1>1. /\ UNCHANGED <<log, clock, changes, frames, cuts>> /\ (echo' = echo \/ ~echo'.pending)
      /\ store'.log = store.log /\ store'.before = store.before /\ behind'["log"] = behind["log"]
      /\ requests'["latest"] \in {requests["latest"], Idle, Sent(0)}
      /\ \/ requests'["older"] \in {requests["older"], Idle}
         \/ requests'["older"] = Sent(store.before) /\ store.before # 0
  BY DEF LogStill
<1>2. Idle.stage = "idle" /\ \A a : Sent(a).stage = "sent" /\ Sent(a).arg = a
  BY DEF Idle, Sent
<1>3. LogOrder' /\ DeliveriesApart' /\ LogHolds' /\ Stamps' = Stamps /\ Cursors' = Cursors
  BY <1>1 DEF LogInv, LogOrder, DeliveriesApart, LogHolds, Shows, Stamps, Cursors
<1>4. \A g \in {"latest", "older"} : requests'[g].stage = "answered" => requests'[g] = requests[g]
  BY <1>1, <1>2
<1>5. LatestHolds' /\ OlderHolds'
  BY <1>1, <1>4 DEF LogInv, LatestHolds, OlderHolds
<1>6. PagesTyped'
  <2>1. store.before # 0 => store.before \in Cursors \ {0}
    BY DEF LogInv, PagesTyped
  <2>2. /\ requests'["latest"].stage # "idle" => requests'["latest"].arg = 0
        /\ requests'["older"].stage # "idle" => requests'["older"].arg \in Cursors \ {0}
    BY <1>1, <1>2, <2>1 DEF LogInv, PagesTyped
  <2>3. QED
    BY <1>1, <1>3, <1>4, <2>2 DEF LogInv, PagesTyped
<1>7. QED
  BY <1>3, <1>5, <1>6 DEF LogInv

\* The socket drops.
LEMMA DropLog ==
  ASSUME TypeOK, LogInv, Drop
  PROVE  LogInv'
<1>1. /\ frames' = <<>> /\ UNCHANGED <<log, clock, changes, store, cuts>>
      /\ changes \in Nat /\ clock \in Nat \ {0} /\ TypeOK'
      /\ \A g \in Gets :
           /\ Older(requests[g], requests'[g])
           /\ \A i \in DOMAIN frames : PassesBy(frames[i], g) => requests'[g].old = TRUE
      /\ \A c \in Collections :
           behind'[c] <=> behind[c] \/ \E i \in DOMAIN frames : c \in Concerned(frames[i])
      /\ echo'.pending = echo.pending
      /\ echo.pending => echo'.frame = echo.frame
  BY DropFacts DEF serverVars, TypeOK, ServerTypes, Drop
<1>2. \A g \in {"latest", "older"} : g \in Gets /\ About(g) = {"log"} /\ Older(requests[g], requests'[g])
  BY <1>1, GetNames, AboutIs
<1>3. \A i \in DOMAIN frames :
        frames[i].at \in Nat /\ ("log" \in Concerned(frames[i]) <=> frames[i].type = "delivery" \/ Wipes(frames[i]))
  BY FramesTyped, LogConcerned
<1>4. \A n : Deliveries(frames', n) = {} /\ ~Wiping(frames', n)
  BY <1>1 DEF Deliveries, Wiping
<1>5. LogOrder' /\ PagesTyped'
  <2>1. LogOrder'
    BY <1>1 DEF LogInv, LogOrder, Stamps
  <2>2. changes <= changes' /\ clock <= clock'
    BY <1>1
  <2>3. PagesTyped'
    BY <1>1, <1>2, <2>2, PagesStay DEF LogInv
  <2>4. QED
    BY <2>1, <2>3
<1>6. DeliveriesApart'
  BY <1>1 DEF LogInv, DeliveriesApart
<1>7. ASSUME NEW g \in {"latest", "older"}, requests'[g].stage = "answered", ~requests'[g].old
      PROVE  /\ requests'[g] = requests[g] /\ requests[g].stage = "answered" /\ ~requests[g].old
             /\ ~Wiping(frames, requests[g].at)
             /\ g = "latest" => Deliveries(frames, requests[g].at) = {}
  <2> DEFINE get == requests[g]
  <2>1. requests'[g] = get /\ get.stage = "answered" /\ ~get.old /\ get.at \in Nat
    BY <1>2, <1>7, OlderAnswer
  <2>2. \A i \in DOMAIN frames : ~PassesBy(frames[i], g)
    BY <1>1, <1>2, <1>7, <2>1
  <2>3. ASSUME NEW i \in DOMAIN frames, Wipes(frames[i]) \/ (g = "latest" /\ frames[i].type = "delivery")
        PROVE  ~(get.at < frames[i].at)
    <3>1. "log" \in Concerned(frames[i]) /\ (g = "older" => Wipes(frames[i]))
      BY <1>3, <2>3
    <3>2. About(g) \cap Concerned(frames[i]) # {}
      BY <1>2, <3>1
    <3>3. QED
      BY <2>1, <2>2, <3>1, <3>2 DEF PassesBy
  <2> HIDE DEF get
  <2>4. ~Wiping(frames, get.at) /\ (g = "latest" => Deliveries(frames, get.at) = {})
    BY <1>3, <2>1, <2>3 DEF Wiping, Deliveries
  <2>5. QED
    BY <2>1, <2>4 DEF get
<1>8. LatestHolds'
  BY <1>1, <1>4, <1>7 DEF LogInv, LatestHolds
<1>9. OlderHolds'
  BY <1>1, <1>7 DEF LogInv, OlderHolds
<1>10. LogHolds'
  <2>1. SUFFICES ASSUME store.log.loaded, ~behind'["log"]
                 PROVE  Shows(store.log.data, {}, store.before, cuts)
    BY <1>1, <1>4 DEF LogHolds, Shows
  <2>2. "log" \in Collections
    BY DEF Collections
  <2>3. ~behind["log"] /\ \A i \in DOMAIN frames : frames[i].type # "delivery" /\ ~Wipes(frames[i])
    BY <1>1, <1>3, <2>1, <2>2
  <2>4. ~Wiping(frames, 0) /\ Deliveries(frames, 0) = {}
    BY <2>3 DEF Wiping, Deliveries
  <2>5. QED
    BY <2>1, <2>3, <2>4 DEF LogInv, LogHolds
<1>11. QED
  BY <1>5, <1>6, <1>8, <1>9, <1>10 DEF LogInv

\* One more on top of the list.
LEMMA OnTop ==
  ASSUME NEW S, NEW d \in S, NEW old \in Seq(S)
  PROVE  LET data == <<d>> \o old IN
         /\ data \in Seq(S) /\ data[1] = d /\ ToSet(data) = {d} \cup ToSet(old)
         /\ DOMAIN data \subseteq Nat \ {0}
         /\ \A i \in DOMAIN data : i # 1 => i - 1 \in DOMAIN old /\ data[i] = old[i - 1]
<1> DEFINE data == <<d>> \o old
<1>1. <<d>> \in Seq(S) /\ data \in Seq(S)
  OBVIOUS
<1>2. /\ data[1] = d /\ 1 \in DOMAIN data /\ DOMAIN data \subseteq Nat \ {0}
      /\ \A i \in DOMAIN old : i + 1 \in DOMAIN data /\ data[i + 1] = old[i]
      /\ \A i \in DOMAIN data : i # 1 => i - 1 \in DOMAIN old /\ data[i] = old[i - 1]
  BY <1>1
<1> HIDE DEF data
<1>3. \A x : x \in ToSet(data) <=> x = d \/ x \in ToSet(old)
  BY <1>2 DEF ToSet
<1>4. QED
  BY <1>1, <1>2, <1>3 DEF data

\* A frame is received.
LEMMA ReceiveLog ==
  ASSUME TypeOK, RulesDistinct(store), WireOrder, LogInv, Receive
  PROVE  LogInv'
<1> DEFINE f == Head(frames)
           st == Apply(store, f)
<1>1. /\ frames # <<>> /\ f \in Frames /\ frames' = Tail(frames) /\ store' = st /\ echo' = EchoPassedBy(f)
      /\ UNCHANGED <<log, clock, changes, cuts>> /\ changes \in Nat /\ clock \in Int /\ TypeOK'
      /\ ~Wipes(f) /\ behind["log"] => behind'["log"]
      /\ Stamps' = Stamps
  <2>1. "log" \in Collections /\ "log" # "templates"
    BY DEF Collections
  <2>2. \A c \in Collections : behind'[c] <=> Behind(f, c)
    BY ReceiveFacts
  <2>3. ~Wipes(f) /\ behind["log"] => behind'["log"]
    BY <2>1, <2>2 DEF Behind
  <2>4. frames # <<>> /\ f \in Frames /\ frames' = Tail(frames) /\ store' = st /\ echo' = EchoPassedBy(f) /\ TypeOK'
    BY ReceiveFacts DEF Dispatch
  <2>5. UNCHANGED <<log, clock, changes, cuts>> /\ changes \in Nat /\ clock \in Int
    BY DEF Receive, serverVars, TypeOK, ServerTypes
  <2>6. QED
    BY <2>3, <2>4, <2>5 DEF Stamps
<1>2. \A g \in {"latest", "older"} :
        /\ g \in Gets /\ About(g) = {"log"} /\ Older(requests[g], requests'[g])
        /\ PassesBy(f, g) => requests'[g].old = TRUE
  <2>1. TAKE g \in {"latest", "older"}
  <2>2. g \in Gets /\ About(g) = {"log"} /\ g # "reload"
    BY GetNames, AboutIs
  <2>3. /\ Older(requests[g], requests'[g])
        /\ PassesBy(f, g) => requests'[g].old = TRUE
    BY <2>2, ReceiveFacts
  <2>4. QED
    BY <2>2, <2>3
<1>3. /\ f.at \in Nat
      /\ \A n \in Nat : Deliveries(frames, n) =
            Deliveries(frames', n) \cup (IF f.type = "delivery" /\ f.at > n THEN {f.body} ELSE {})
      /\ f.type = "delivery" =>
           /\ f.body \in Stamps /\ f.body.id = f.at
           /\ \A n \in Nat : \A e \in Deliveries(frames', n) : f.body.time <= e.time /\ f.body.id # e.id
      /\ \A n \in Nat : Wiping(frames, n) <=> Wiping(frames', n) \/ (Wipes(f) /\ f.at > n)
  <2>1. ASSUME NEW n \in Nat
        PROVE  /\ f.at \in Nat
               /\ Deliveries(frames, n) =
                    Deliveries(frames', n) \cup (IF f.type = "delivery" /\ f.at > n THEN {f.body} ELSE {})
               /\ f.type = "delivery" =>
                    /\ f.body \in Stamps /\ f.body.id = f.at
                    /\ \A e \in Deliveries(frames', n) : f.body.time <= e.time /\ f.body.id # e.id
               /\ Wiping(frames, n) <=> Wiping(frames', n) \/ (Wipes(f) /\ f.at > n)
    BY <1>1, HeadComing DEF LogInv
  <2>2. 0 \in Nat
    OBVIOUS
  <2>3. QED
    BY <2>1, <2>2
<1>4. /\ Wipes(f) => store'.log = NotLoaded /\ store'.before = 0
      /\ f.type = "delivery" /\ store.log.loaded => store'.log = Loaded(<<f.body>> \o store.log.data)
      /\ ~Wipes(f) /\ (f.type # "delivery" \/ ~store.log.loaded) => store'.log = store.log
      /\ ~Wipes(f) => store'.before = store.before
  BY <1>1, ApplyLog DEF TypeOK
<1>5. /\ "log" \in Concerned(f) <=> f.type = "delivery" \/ Wipes(f)
      /\ f.type = "delivery" => ~Wipes(f)
      /\ f.at > 0
  <2>1. f = frames[1] /\ 1 \in DOMAIN frames
    BY <1>1, FramesTyped
  <2>2. f.at > 0
    BY <1>1, <2>1 DEF WireOrder
  <2>3. QED
    BY <1>1, <2>2, LogConcerned DEF Wipes
<1>6. /\ NotLoaded.loaded = FALSE /\ \A d : Loaded(d).loaded = TRUE /\ Loaded(d).data = d
      /\ store.log.loaded => store.log.data \in Seq(Stamps) /\ ToSet(store.log.data) \subseteq Stamps
                             /\ store.log = Loaded(store.log.data)
  BY LogTyped DEF LogInv
<1>7. echo'.pending = echo.pending /\ (echo.pending => echo'.frame = echo.frame)
  BY <1>1, EchoPassed, ConcernedIn DEF TypeOK, WireTypes
<1> HIDE DEF f, st
<1>8. LogOrder'
  BY <1>1 DEF LogInv, LogOrder
<1>9. DeliveriesApart'
  <2>1. \A i \in DOMAIN frames' : i + 1 \in DOMAIN frames /\ frames'[i] = frames[i + 1] /\ i \in Int
    BY <1>1, FramesTyped
  <2>2. QED
    BY <1>1, <1>7, <2>1 DEF LogInv, DeliveriesApart
<1>10. PagesTyped'
  <2>1. Cursors' = Cursors /\ 0 \in Cursors
    BY <1>1 DEF Cursors, TypeOK, ServerTypes
  <2>2. store'.before \in Cursors
    BY <1>4, <2>1 DEF LogInv, PagesTyped
  <2>3. store'.log = NotLoaded \/ (store'.log = Loaded(store'.log.data) /\ store'.log.data \in Seq(Stamps))
    <3>1. CASE Wipes(f)
      BY <1>4, <3>1
    <3>2. CASE f.type = "delivery" /\ store.log.loaded
      <4>1. store'.log = Loaded(<<f.body>> \o store.log.data)
        BY <1>4, <3>2
      <4>2. <<f.body>> \o store.log.data \in Seq(Stamps)
        BY <1>3, <1>6, <3>2, OnTop
      <4>3. QED
        BY <1>6, <4>1, <4>2
    <3>3. CASE ~Wipes(f) /\ (f.type # "delivery" \/ ~store.log.loaded)
      BY <1>4, <3>3 DEF LogInv, PagesTyped
    <3>4. QED
      BY <3>1, <3>2, <3>3
  <2>4. \A g \in {"latest", "older"} :
          /\ requests'[g].stage = requests[g].stage
          /\ requests[g].stage # "idle" => requests'[g].arg = requests[g].arg
          /\ requests'[g].stage = "answered" => requests'[g].data = requests[g].data
    BY <1>2, OlderStages, OlderAnswers DEF Older
  <2>5. QED
    BY <1>1, <2>1, <2>2, <2>3, <2>4 DEF LogInv, PagesTyped
<1>11. ASSUME NEW g \in {"latest", "older"}, requests'[g].stage = "answered", ~requests'[g].old,
              ~Wiping(frames', requests'[g].at)
       PROVE  /\ requests'[g] = requests[g] /\ requests[g].stage = "answered" /\ ~requests[g].old
              /\ ~Wiping(frames, requests[g].at)
              /\ g = "latest" => Deliveries(frames', requests[g].at) = Deliveries(frames, requests[g].at)
  <2> DEFINE get == requests[g]
  <2>1. requests'[g] = get /\ get.stage = "answered" /\ ~get.old /\ get.at \in Nat
    BY <1>2, <1>11, OlderAnswer
  <2>2. ~PassesBy(f, g)
    BY <1>2, <1>11, <2>1
  <2>3. Wipes(f) \/ (g = "latest" /\ f.type = "delivery") => ~(get.at < f.at)
    <3>1. SUFFICES ASSUME Wipes(f) \/ (g = "latest" /\ f.type = "delivery") PROVE ~(get.at < f.at)
      OBVIOUS
    <3>2. "log" \in Concerned(f) /\ (g = "older" => Wipes(f))
      BY <1>5, <3>1
    <3>3. About(g) \cap Concerned(f) # {}
      BY <1>2, <3>2
    <3>4. QED
      BY <2>1, <2>2, <3>2, <3>3 DEF PassesBy
  <2> HIDE DEF get
  <2>4. Wipes(f) \/ (g = "latest" /\ f.type = "delivery") => ~(f.at > get.at)
    BY <1>3, <2>1, <2>3
  <2>5. ~Wiping(frames, get.at)
    BY <1>3, <1>11, <2>1, <2>4
  <2>6. g = "latest" => Deliveries(frames', get.at) = Deliveries(frames, get.at)
    BY <1>3, <2>1, <2>4
  <2>7. QED
    BY <2>1, <2>5, <2>6 DEF get
<1>12. LatestHolds'
  BY <1>1, <1>11 DEF LogInv, LatestHolds
<1>13. OlderHolds'
  BY <1>1, <1>11 DEF LogInv, OlderHolds
<1>14. LogHolds'
  <2>1. CASE Wipes(f)
    BY <1>4, <1>6, <2>1 DEF LogHolds
  <2>2. CASE ~Wipes(f) /\ f.type = "delivery"
    <3> DEFINE coming == Deliveries(frames', 0)
    <3>1. SUFFICES ASSUME store'.log.loaded, ~behind'["log"], ~Wiping(frames', 0)
                   PROVE  Shows(store'.log.data, coming, store'.before, cuts)
      BY <1>1 DEF LogHolds, Shows
    <3>2. ~behind["log"] /\ ~Wiping(frames, 0) /\ store.log.loaded
      BY <1>1, <1>3, <1>4, <2>2, <3>1
    <3> DEFINE old == store.log.data
               data == store'.log.data
    <3>3. Shows(old, Deliveries(frames, 0), store.before, cuts)
      BY <3>2 DEF LogInv, LogHolds
    <3>4. /\ data \in Seq(Stamps) /\ data[1] = f.body /\ ToSet(data) = {f.body} \cup ToSet(old)
          /\ DOMAIN data \subseteq Nat \ {0}
          /\ \A i \in DOMAIN data : i # 1 => i - 1 \in DOMAIN old /\ data[i] = old[i - 1]
      <4>1. data = <<f.body>> \o old
        BY <1>4, <1>6, <2>2, <3>2
      <4>2. QED
        BY <1>3, <1>6, <2>2, <3>2, <4>1, OnTop
    <3>5. Deliveries(frames, 0) = coming \cup {f.body}
      BY <1>3, <1>5, <2>2
    <3>6. f.body \in Deliveries(frames, 0) /\ store'.before = store.before
      BY <1>4, <2>2, <3>5
    <3> HIDE DEF old, data, coming
    <3>7. /\ NewestFirst(old)
          /\ ToSet(old) \cup Deliveries(frames, 0) \subseteq Due(ToSet(log), store.before)
          /\ {d \in Due(ToSet(log), store.before) : d.time \notin cuts} \subseteq ToSet(old) \cup Deliveries(frames, 0)
          /\ \A d \in ToSet(old), e \in Deliveries(frames, 0) : d.time <= e.time /\ d.id # e.id
      BY <3>3 DEF Shows
    <3>8. \A d \in Stamps : d.time \in Int
      BY StampIs
    <3>9. NewestFirst(data)
      <4>1. SUFFICES ASSUME NEW i \in DOMAIN data, NEW j \in DOMAIN data, i < j
                     PROVE  data[i].time >= data[j].time /\ data[i].id # data[j].id
        BY DEF NewestFirst
      <4>2. j # 1 /\ j - 1 \in DOMAIN old /\ data[j] = old[j - 1]
        BY <3>4, <4>1
      <4>3. data[i] \in Stamps /\ data[j] \in Stamps
        BY <3>4
      <4>4. CASE i = 1
        <5>1. old[j - 1] \in ToSet(old)
          BY <4>2 DEF ToSet
        <5>2. old[j - 1].time <= f.body.time /\ old[j - 1].id # f.body.id
          BY <3>6, <3>7, <5>1
        <5>3. QED
          BY <3>4, <3>8, <4>2, <4>3, <4>4, <5>2
      <4>5. CASE i # 1
        <5>1. i - 1 \in DOMAIN old /\ data[i] = old[i - 1] /\ i - 1 < j - 1
          BY <3>4, <4>1, <4>5
        <5>2. old[i - 1].time >= old[j - 1].time /\ old[i - 1].id # old[j - 1].id
          BY <3>7, <4>2, <5>1 DEF NewestFirst
        <5>3. QED
          BY <4>2, <5>1, <5>2
      <4>6. QED
        BY <4>4, <4>5
    <3>10. ToSet(data) \cup coming = ToSet(old) \cup Deliveries(frames, 0)
      BY <3>4, <3>5
    <3>11. \A d \in ToSet(data), e \in coming : d.time <= e.time /\ d.id # e.id
      <4>1. \A e \in coming : f.body.time <= e.time /\ f.body.id # e.id /\ e \in Deliveries(frames, 0)
        BY <1>3, <2>2, <3>5 DEF coming
      <4>2. QED
        BY <3>4, <3>7, <4>1
    <3>12. QED
      BY <3>6, <3>7, <3>9, <3>10, <3>11 DEF Shows, data
  <2>3. CASE ~Wipes(f) /\ f.type # "delivery"
    <3>1. store'.log = store.log /\ store'.before = store.before
      BY <1>4, <2>3
    <3>2. ~behind'["log"] => ~behind["log"]
      BY <1>1, <2>3
    <3>3. Deliveries(frames', 0) = Deliveries(frames, 0) /\ (Wiping(frames', 0) <=> Wiping(frames, 0))
      BY <1>3, <2>3
    <3>4. QED
      BY <1>1, <3>1, <3>2, <3>3 DEF LogInv, LogHolds, Shows
  <2>4. QED
    BY <2>1, <2>2, <2>3
<1>15. QED
  BY <1>8, <1>9, <1>10, <1>12, <1>13, <1>14 DEF LogInv

\* The answer to this tab's own change: what it wipes is not loaded any more.
LEMMA EchoLog ==
  ASSUME TypeOK, RulesDistinct(store), LogInv, NEW go \in BOOLEAN, ReceiveEcho(go)
  PROVE  LogInv'
<1> DEFINE f == echo.frame
           st == Apply(store, f)
<1>1. /\ echo.pending /\ f \in Frames /\ store' = st /\ echo' = NoEcho
      /\ UNCHANGED <<log, clock, changes, frames, requests, cuts>>
      /\ ~Wipes(f) /\ ~("log" \in echo.old /\ "log" \in Concerned(f)) => behind'["log"] = behind["log"]
  <2>1. "log" \in Collections
    BY DEF Collections
  <2>2. cuts' = cuts
    BY DEF ReceiveEcho
  <2>3. QED
    BY <2>1, <2>2, ReceiveEchoFacts DEF serverVars, Dispatch
<1>2. f.type # "delivery" /\ ("log" \in Concerned(f) => Wipes(f))
  BY <1>1, LogConcerned DEF LogInv, DeliveriesApart
<1>3. /\ Wipes(f) => store'.log = NotLoaded /\ store'.before = 0
      /\ ~Wipes(f) => store'.log = store.log /\ store'.before = store.before
  BY <1>1, <1>2, ApplyLog DEF TypeOK
<1>4. NotLoaded.loaded = FALSE /\ NoEcho.pending = FALSE
  BY DEF NotLoaded, NoEcho
<1> HIDE DEF f, st
<1>5. CASE ~Wipes(f)
  <2>1. requests'["latest"] = requests["latest"] /\ requests'["older"] = requests["older"]
    BY <1>1
  <2>2. behind'["log"] = behind["log"]
    BY <1>1, <1>2, <1>5
  <2>3. LogStill
    BY <1>1, <1>3, <1>4, <1>5, <2>1, <2>2 DEF LogStill
  <2>4. QED
    BY <2>3, StillLog
<1>6. CASE Wipes(f)
  <2>1. LogOrder' /\ DeliveriesApart' /\ LatestHolds' /\ OlderHolds' /\ Stamps' = Stamps /\ Cursors' = Cursors
    BY <1>1, <1>4 DEF LogInv, LogOrder, DeliveriesApart, LatestHolds, OlderHolds, Stamps, Cursors
  <2>2. LogHolds'
    BY <1>3, <1>4, <1>6 DEF LogHolds
  <2>3. 0 \in Cursors
    BY DEF TypeOK, ServerTypes, Cursors
  <2>4. PagesTyped'
    BY <1>1, <1>3, <1>6, <2>1, <2>3 DEF LogInv, PagesTyped
  <2>5. QED
    BY <2>1, <2>2, <2>4 DEF LogInv
<1>7. QED
  BY <1>5, <1>6

\* A page's cursor is 0 or the time of its last.
LEMMA BeforeIn ==
  ASSUME TypeOK, NEW page \in Seq(Stamps)
  PROVE  Before(page) \in Cursors
<1>1. CASE Len(page) < PageSize
  BY <1>1 DEF Before, Cursors, TypeOK, ServerTypes
<1>2. CASE ~(Len(page) < PageSize)
  <2>1. Len(page) \in Nat /\ Len(page) \in DOMAIN page /\ Before(page) = page[Len(page)].time
    BY <1>2, ConsoleAssumption DEF Before, Last
  <2>2. page[Len(page)] \in Stamps
    BY <2>1
  <2>3. QED
    BY <2>1, <2>2, StampIs DEF Cursors
<1>3. QED
  BY <1>1, <1>2

\* What a landing leaves alone.
LEMMA LandedRest ==
  ASSUME TypeOK, LogInv, NEW g \in {"latest", "older"}, NEW data \in Seq(Stamps), NEW before \in Cursors,
         NEW late, NEW seams, PageLands(g, Loaded(data), before, late, seams)
  PROVE  LogOrder' /\ DeliveriesApart' /\ LatestHolds' /\ OlderHolds' /\ PagesTyped'
         /\ (LogHolds' <=> (~late /\ ~Wiping(frames, 0) => Shows(data, Deliveries(frames, 0), before, seams)))
<1>1. /\ requests'[g] = Idle /\ \A h \in Gets : h # g => requests'[h] = requests[h]
      /\ UNCHANGED <<log, clock, changes, frames, echo>> /\ cuts' = seams
      /\ store'.log = Loaded(data) /\ store'.before = before /\ behind'["log"] = late
  BY DEF PageLands
<1>2. Idle.stage = "idle" /\ store'.log.loaded /\ store'.log.data = data
  BY <1>1 DEF Idle, Loaded
<1>3. \A h \in {"latest", "older"} : requests'[h] = Idle \/ requests'[h] = requests[h]
  BY <1>1, GetNames
<1>4. LogOrder' /\ DeliveriesApart' /\ LatestHolds' /\ OlderHolds' /\ Stamps' = Stamps /\ Cursors' = Cursors
  BY <1>1, <1>2, <1>3 DEF LogInv, LogOrder, DeliveriesApart, LatestHolds, OlderHolds, Stamps, Cursors
<1>5. PagesTyped'
  BY <1>1, <1>2, <1>3, <1>4 DEF LogInv, PagesTyped
<1>6. LogHolds' <=> (~late /\ ~Wiping(frames, 0) => Shows(data, Deliveries(frames, 0), before, seams))
  BY <1>1, <1>2 DEF LogHolds, Shows
<1>7. QED
  BY <1>4, <1>5, <1>6

\* The first page lands.
LEMMA LatestLog ==
  ASSUME TypeOK, WireOrder, LogInv,
         LET get == requests["latest"]
             page == get.data["log"]
         IN  PageLands("latest", Loaded(page), Before(page),
               get.old \/ \E i \in DOMAIN frames : frames[i].type = "delivery" /\ frames[i].at <= get.at,
               {Before(page)})
  PROVE  LogInv'
<1> DEFINE get == requests["latest"]
           page == get.data["log"]
           b == Before(page)
           late == get.old \/ \E i \in DOMAIN frames : frames[i].type = "delivery" /\ frames[i].at <= get.at
           coming == Deliveries(frames, 0)
<1>1. PageLands("latest", Loaded(page), b, late, {b})
  OBVIOUS
<1>2. get.stage = "answered" /\ get.at \in Nat
  BY <1>1, AnswerIs, GetNames DEF PageLands, Answered
<1>3. page \in Seq(Stamps)
  BY <1>2 DEF LogInv, PagesTyped
<1> HIDE DEF page, late
<1>4. b \in Cursors /\ b \in Int
  BY <1>3, BeforeIn DEF Cursors
<1>5. /\ LogOrder' /\ DeliveriesApart' /\ LatestHolds' /\ OlderHolds' /\ PagesTyped'
      /\ LogHolds' <=> (~late /\ ~Wiping(frames, 0) => Shows(page, coming, b, {b}))
  BY <1>1, <1>3, <1>4, LandedRest
<1>6. ASSUME ~late, ~Wiping(frames, 0) PROVE Shows(page, coming, b, {b})
  <2>1. /\ ~get.old
        /\ \A i \in DOMAIN frames : frames[i].at \in Nat
        /\ \A i \in DOMAIN frames : frames[i].type = "delivery" => ~(frames[i].at <= get.at)
    BY <1>6, FramesTyped DEF late
  <2>2. ~Wiping(frames, get.at)
    BY <1>2, <1>6, <2>1 DEF Wiping
  <2>3. Deliveries(frames, get.at) = coming
    BY <1>2, <2>1 DEF Deliveries
  <2>4. IsPage(page, {d \in ToSet(log) : d.id <= get.at}) /\ {d \in ToSet(log) : d.id > get.at} = coming
    BY <1>2, <2>1, <2>2, <2>3 DEF LogInv, LatestHolds, page
  <2>5. \A d \in ToSet(log) : d.id \in Int /\ d.time \in Int
    BY LogTyped, StampIs DEF LogInv
  <2> HIDE DEF get, coming, b
  <2>6. /\ NewestFirst(page)
        /\ \A d \in ToSet(page) : d \in ToSet(log) /\ d.id <= get.at /\ (b # 0 => d.time >= b)
        /\ \A d \in ToSet(log) : d.id <= get.at /\ (b # 0 => d.time > b) => d \in ToSet(page)
    BY <2>4 DEF IsPage, Due, b
  <2>7. \A d \in ToSet(page), e \in coming : d.time <= e.time /\ d.id # e.id
    <3>1. TAKE d \in ToSet(page), e \in coming
    <3>2. d \in ToSet(log) /\ d.id <= get.at /\ e \in ToSet(log) /\ e.id > get.at
      BY <2>4, <2>6
    <3>3. d.id < e.id /\ e.id > 0
      BY <1>2, <2>5, <3>2
    <3>4. PICK i \in DOMAIN log, j \in DOMAIN log : log[i] = d /\ log[j] = e
      BY <3>2 DEF ToSet
    <3>5. d.time <= e.time
      BY <3>3, <3>4 DEF LogInv, LogOrder
    <3>6. QED
      BY <2>5, <3>2, <3>3, <3>5
  <2>8. \A e \in coming : e \in ToSet(log) /\ (b # 0 => e.time >= b)
    <3>1. SUFFICES ASSUME NEW e \in coming, b # 0 PROVE e.time >= b
      BY <2>4
    <3>2. PICK d \in ToSet(page) : d.time = b
      <4>1. Len(page) \in DOMAIN page /\ b = page[Len(page)].time
        BY <1>3, <3>1, ConsoleAssumption DEF Before, Last, b
      <4>2. QED
        BY <4>1 DEF ToSet
    <3>3. d.time <= e.time /\ d.time \in Int /\ e.time \in Int
      BY <2>4, <2>5, <2>6, <2>7
    <3>4. QED
      BY <3>2, <3>3
  <2>9. ToSet(page) \cup coming \subseteq Due(ToSet(log), b)
    BY <2>6, <2>8 DEF Due
  <2>10. {d \in Due(ToSet(log), b) : d.time \notin {b}} \subseteq ToSet(page) \cup coming
    <3>1. SUFFICES ASSUME NEW d \in ToSet(log), b # 0 => d.time >= b, d.time # b
                   PROVE  d \in ToSet(page) \cup coming
      BY DEF Due
    <3>2. CASE d.id > get.at
      BY <2>4, <3>2
    <3>3. CASE ~(d.id > get.at)
      <4>1. d.id <= get.at /\ (b # 0 => d.time > b)
        BY <1>2, <1>4, <2>5, <3>1, <3>3
      <4>2. QED
        BY <2>6, <4>1
    <3>4. QED
      BY <3>2, <3>3
  <2>11. QED
    BY <2>6, <2>7, <2>9, <2>10 DEF Shows
<1>7. QED
  BY <1>5, <1>6 DEF LogInv

\* Lists that follow each other, the later ones first.
LEMMA Joined ==
  ASSUME NEW s \in Seq(Stamps), NEW t \in Seq(Stamps), NewestFirst(s), NewestFirst(t),
         \A x \in ToSet(s), y \in ToSet(t) : x.time >= y.time /\ x.id # y.id
  PROVE  NewestFirst(s \o t) /\ ToSet(s \o t) = ToSet(s) \cup ToSet(t)
<1> DEFINE u == s \o t
           n == Len(s)
<1>1. /\ DOMAIN s = 1 .. n /\ n \in Nat /\ DOMAIN u \subseteq Nat
      /\ \A i \in DOMAIN s : i \in DOMAIN u /\ u[i] = s[i]
      /\ \A i \in DOMAIN t : n + i \in DOMAIN u /\ u[n + i] = t[i]
      /\ \A i \in DOMAIN u : i \notin DOMAIN s => i - n \in DOMAIN t /\ u[i] = t[i - n]
  OBVIOUS
<1> HIDE DEF u, n
<1>2. NewestFirst(u)
  <2>1. SUFFICES ASSUME NEW i \in DOMAIN u, NEW j \in DOMAIN u, i < j
                 PROVE  u[i].time >= u[j].time /\ u[i].id # u[j].id
    BY DEF NewestFirst
  <2>2. CASE j \in DOMAIN s
    <3>1. i \in DOMAIN s
      BY <1>1, <2>1, <2>2
    <3>2. QED
      BY <1>1, <2>1, <2>2, <3>1 DEF NewestFirst
  <2>3. CASE i \in DOMAIN s /\ j \notin DOMAIN s
    <3>1. u[i] \in ToSet(s) /\ u[j] \in ToSet(t)
      BY <1>1, <2>3 DEF ToSet
    <3>2. QED
      BY <3>1
  <2>4. CASE i \notin DOMAIN s /\ j \notin DOMAIN s
    <3>1. i - n \in DOMAIN t /\ j - n \in DOMAIN t /\ i - n < j - n /\ u[i] = t[i - n] /\ u[j] = t[j - n]
      BY <1>1, <2>1, <2>4
    <3>2. QED
      BY <3>1 DEF NewestFirst
  <2>5. QED
    BY <2>2, <2>3, <2>4
<1>3. \A x : x \in ToSet(u) <=> x \in ToSet(s) \/ x \in ToSet(t)
  <2>1. TAKE x
  <2>2. ASSUME NEW i \in DOMAIN u, u[i] = x PROVE x \in ToSet(s) \/ x \in ToSet(t)
    BY <1>1, <2>2 DEF ToSet
  <2>3. ASSUME NEW i \in DOMAIN s, s[i] = x PROVE x \in ToSet(u)
    BY <1>1, <2>3 DEF ToSet
  <2>4. ASSUME NEW i \in DOMAIN t, t[i] = x PROVE x \in ToSet(u)
    BY <1>1, <2>4 DEF ToSet
  <2>5. QED
    BY <2>2, <2>3, <2>4 DEF ToSet
<1>4. QED
  BY <1>2, <1>3 DEF u

\* An older page lands.
LEMMA OlderLog ==
  ASSUME TypeOK, LogInv,
         LET page == requests["older"].data["log"]
             known == IF store.log.loaded THEN store.log.data ELSE <<>>
         IN  PageLands("older", Loaded(known \o Unknown(page, known)), Before(page),
               behind["log"] \/ requests["older"].old \/ ~store.log.loaded
                 \/ store.before # requests["older"].arg,
               cuts \cup {Before(page)})
  PROVE  LogInv'
<1> DEFINE get == requests["older"]
           page == get.data["log"]
           known == IF store.log.loaded THEN store.log.data ELSE <<>>
           data == known \o Unknown(page, known)
           b == Before(page)
           late == behind["log"] \/ get.old \/ ~store.log.loaded \/ store.before # get.arg
           coming == Deliveries(frames, 0)
<1>1. PageLands("older", Loaded(data), b, late, cuts \cup {b})
  OBVIOUS
<1>2. get.stage = "answered" /\ get.at \in Nat
  BY <1>1, AnswerIs, GetNames DEF PageLands, Answered
<1>3. page \in Seq(Stamps) /\ get.arg \in Int /\ get.arg # 0
  BY <1>2 DEF LogInv, PagesTyped, Cursors
<1>4. known \in Seq(Stamps)
  BY LogTyped DEF LogInv
<1> HIDE DEF page, known, late
<1>5. Unknown(page, known) \in Seq(Stamps)
  BY <1>3, UnknownIsPart
<1>6. data \in Seq(Stamps)
  BY <1>4, <1>5
<1>7. b \in Cursors /\ b \in Int
  BY <1>3, BeforeIn DEF Cursors
<1> HIDE DEF data
<1>8. /\ LogOrder' /\ DeliveriesApart' /\ LatestHolds' /\ OlderHolds' /\ PagesTyped'
      /\ LogHolds' <=> (~late /\ ~Wiping(frames, 0) => Shows(data, coming, b, cuts \cup {b}))
  BY <1>1, <1>6, <1>7, LandedRest
<1>9. ASSUME ~late, ~Wiping(frames, 0) PROVE Shows(data, coming, b, cuts \cup {b})
  <2>1. ~behind["log"] /\ ~get.old /\ store.log.loaded /\ store.before = get.arg /\ known = store.log.data
    BY <1>9 DEF late, known
  <2>2. Shows(known, coming, get.arg, cuts)
    BY <1>9, <2>1 DEF LogInv, LogHolds
  <2>3. \A i \in DOMAIN frames : frames[i].at \in Nat
    BY FramesTyped
  <2>4. ~Wiping(frames, get.at)
    BY <1>2, <1>9, <2>3 DEF Wiping
  <2>5. IsPage(page, {d \in ToSet(log) : d.time < get.arg})
    BY <1>2, <2>1, <2>4 DEF LogInv, OlderHolds, page
  <2>6. \A d \in ToSet(log) : d.id \in Int /\ d.time \in Int
    BY LogTyped, StampIs DEF LogInv
  <2>7. \A d, e \in ToSet(log) : d.id = e.id => d.time = e.time
    <3>1. TAKE d, e \in ToSet(log)
    <3>2. PICK i \in DOMAIN log, j \in DOMAIN log : log[i] = d /\ log[j] = e
      BY DEF ToSet
    <3>3. i = j \/ i < j \/ j < i
      BY LogRows DEF LogInv
    <3>4. QED
      BY <3>2, <3>3 DEF LogInv, LogOrder
  <2> HIDE DEF get, coming, b
  <2>8. /\ NewestFirst(known) /\ NewestFirst(page)
        /\ \A d \in ToSet(known) \cup coming : d \in ToSet(log) /\ d.time >= get.arg
        /\ \A d \in ToSet(log) : d.time >= get.arg /\ d.time \notin cuts => d \in ToSet(known) \cup coming
        /\ \A d \in ToSet(known), e \in coming : d.time <= e.time /\ d.id # e.id
        /\ \A d \in ToSet(page) : d \in ToSet(log) /\ d.time < get.arg /\ (b # 0 => d.time >= b)
        /\ \A d \in ToSet(log) : d.time < get.arg /\ (b # 0 => d.time > b) => d \in ToSet(page)
    BY <1>3, <2>2, <2>5 DEF Shows, IsPage, Due, b
  <2>9. \A x \in ToSet(known) \cup coming, y \in ToSet(page) : x.time >= y.time /\ y.time <= x.time /\ x.id # y.id
    <3>1. TAKE x \in ToSet(known) \cup coming, y \in ToSet(page)
    <3>2. x.time >= get.arg /\ y.time < get.arg /\ x.time \in Int /\ y.time \in Int
          /\ x \in ToSet(log) /\ y \in ToSet(log)
      BY <2>6, <2>8
    <3>3. x.time > y.time
      BY <1>3, <3>2
    <3>4. QED
      BY <2>7, <3>2, <3>3
  <2>10. \A i \in DOMAIN page : ~Known(known, page[i].id)
    <3>1. SUFFICES ASSUME NEW i \in DOMAIN page, NEW j \in DOMAIN known, known[j].id = page[i].id
                   PROVE  FALSE
      BY DEF Known, Ids
    <3>2. page[i] \in ToSet(page) /\ known[j] \in ToSet(known)
      BY DEF ToSet
    <3>3. QED
      BY <2>9, <3>1, <3>2
  <2>11. Unknown(page, known) = page
    BY <1>3, <2>10, UnknownIsAll
  <2>12. NewestFirst(data) /\ ToSet(data) = ToSet(known) \cup ToSet(page)
    BY <1>3, <1>4, <2>8, <2>9, <2>11, Joined DEF data
  <2>13. b # 0 => b < get.arg
    <3>1. SUFFICES ASSUME b # 0 PROVE b < get.arg
      OBVIOUS
    <3>2. Len(page) \in DOMAIN page /\ b = page[Len(page)].time
      BY <1>3, <3>1, ConsoleAssumption DEF Before, Last, b
    <3>3. page[Len(page)] \in ToSet(page)
      BY <3>2 DEF ToSet
    <3>4. QED
      BY <2>8, <3>2, <3>3
  <2>14. ToSet(data) \cup coming \subseteq Due(ToSet(log), b)
    <3>1. \A d \in ToSet(known) \cup coming : b # 0 => d.time >= b
      BY <1>3, <1>7, <2>6, <2>8, <2>13 DEF b
    <3>2. QED
      BY <2>8, <2>12, <3>1 DEF Due
  <2>15. {d \in Due(ToSet(log), b) : d.time \notin cuts \cup {b}} \subseteq ToSet(data) \cup coming
    <3>1. SUFFICES ASSUME NEW d \in ToSet(log), b # 0 => d.time >= b, d.time \notin cuts, d.time # b
                   PROVE  d \in ToSet(data) \cup coming
      BY DEF Due
    <3>2. CASE d.time >= get.arg
      BY <2>8, <2>12, <3>1, <3>2
    <3>3. CASE ~(d.time >= get.arg)
      <4>1. d.time < get.arg /\ (b # 0 => d.time > b)
        BY <1>3, <1>7, <2>6, <3>1, <3>3 DEF b
      <4>2. QED
        BY <2>8, <2>12, <4>1
    <3>4. QED
      BY <3>2, <3>3
  <2>16. \A d \in ToSet(data), e \in coming : d.time <= e.time /\ d.id # e.id
    BY <2>8, <2>9, <2>12
  <2>17. QED
    BY <2>12, <2>14, <2>15, <2>16 DEF Shows
<1>10. QED
  BY <1>8, <1>9 DEF LogInv

\* The tab opens with nothing of the log.
LEMMA LogInit ==
  ASSUME Init
  PROVE  LogInv
<1>1. /\ log = <<>> /\ frames = <<>> /\ echo = NoEcho /\ changes = 0 /\ clock = 1
      /\ store.log = NotLoaded /\ store.before = 0
      /\ requests["latest"] = Idle /\ requests["older"] = Idle
  BY GetNames DEF Init
<1>2. NotLoaded.loaded = FALSE /\ NoEcho.pending = FALSE /\ Idle.stage = "idle" /\ 0 \in Cursors
  BY <1>1 DEF NotLoaded, NoEcho, Idle, Cursors
<1>3. LogOrder /\ DeliveriesApart
  BY <1>1, <1>2 DEF LogOrder, DeliveriesApart
<1>4. PagesTyped /\ LatestHolds /\ OlderHolds /\ LogHolds
  BY <1>1, <1>2 DEF PagesTyped, LatestHolds, OlderHolds, LogHolds
<1>5. QED
  BY <1>3, <1>4 DEF LogInv

\* Every step keeps it.
LEMMA LogStep ==
  ASSUME Types, WireOrder, LogInv, Next
  PROVE  LogInv'
<1>1. CASE ServerChanges
  <2>1. (\E fs : \E mine \in BOOLEAN : ServerMoves(fs, mine)) \/ Import \/ FailImport
    BY <1>1, ServerSteps DEF Types, TypeOK
  <2>2. ASSUME NEW fs, NEW mine \in BOOLEAN, ServerMoves(fs, mine) PROVE LogInv'
    BY <2>2, ServerLog DEF Types
  <2>3. CASE Import
    BY <2>3, SwapLog DEF Types
  <2>4. CASE FailImport
    BY <2>4, FailLog, StillLog DEF Types
  <2>5. QED
    BY <2>1, <2>2, <2>3, <2>4
<1>2. ASSUME NEW g \in Gets, Answer(g) PROVE LogInv'
  BY <1>2, AnswerLog DEF Types
<1>3. ASSUME NEW g \in Gets, Lose(g) PROVE LogInv'
  BY <1>3, LoseLog, StillLog DEF Types
<1>4. CASE Connect
  BY <1>4, ConnectLog, StillLog DEF Types
<1>5. CASE Drop
  BY <1>5, DropLog DEF Types
<1>6. CASE Receive
  BY <1>6, ReceiveLog DEF Types
<1>7. ASSUME NEW go \in BOOLEAN, ReceiveEcho(go) PROVE LogInv'
  BY <1>7, EchoLog DEF Types
<1>8. CASE AnswerLands
  BY <1>8, LandLog, StillLog, LatestLog, OlderLog DEF Types
<1>9. CASE Visits
  BY <1>9, VisitLog, StillLog DEF Types
<1>10. CASE Renders
  BY <1>10, RenderLog, StillLog DEF Types
<1>11. QED
  BY <1>1, <1>2, <1>3, <1>4, <1>5, <1>6, <1>7, <1>8, <1>9, <1>10 DEF Next

\* A step that changes nothing does.
LEMMA LogStutter ==
  ASSUME LogInv, UNCHANGED vars
  PROVE  LogInv'
BY DEF LogInv, LogOrder, DeliveriesApart, PagesTyped, LatestHolds, OlderHolds, LogHolds, Shows,
       Stamps, Cursors, vars

\* The delivery log on screen shows attempts of the server's log, each once and newest first,
\* and all of them down to its cursor but those of the millisecond a page ended in, when
\* nothing is on its way and nothing has passed the list by: frames are dispatched once, a
\* page that overtakes them is known for it, and older pages continue where the list ends.
THEOREM LogIsExactAlways == Spec => []LogIsExact
<1>1. Init => Types /\ Current /\ LogInv
  BY TypesInit, CurrentInit, LogInit
<1>2. Types /\ Current /\ LogInv /\ [Next]_vars => (Types /\ Current /\ LogInv)'
  <2>1. ASSUME Types, Current, Next PROVE Types' /\ Current'
    BY <2>1, TypesStep, CurrentStep
  <2>2. ASSUME Types, Current, LogInv, Next PROVE LogInv'
    BY <2>2, LogStep DEF Current
  <2>3. QED
    BY <2>1, <2>2, TypesStutter, CurrentStutter, LogStutter
<1>3. Types /\ Current /\ LogInv => LogIsExact
  <2>1. SUFFICES ASSUME LogInv, Quiet, store.log.loaded, ~behind["log"]
                 PROVE  /\ NewestFirst(store.log.data)
                        /\ ToSet(store.log.data) \subseteq Due(ToSet(log), store.before)
                        /\ {d \in Due(ToSet(log), store.before) : d.time \notin cuts}
                             \subseteq ToSet(store.log.data)
    BY DEF LogIsExact, Due
  <2>2. Deliveries(frames, 0) = {} /\ ~Wiping(frames, 0)
    BY <2>1, NothingComing DEF Quiet
  <2>3. QED
    BY <2>1, <2>2 DEF LogInv, LogHolds, Shows
<1>4. QED
  BY <1>1, <1>2, <1>3, PTL DEF Spec

=============================================================================
