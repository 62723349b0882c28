--------------------------- MODULE SnapshotProofs ---------------------------
(***************************************************************************)
(* The accounts and numbers on the console's screen are what the server    *)
(* has.                                                                    *)
(*                                                                         *)
(* An account is its facets, that it is there, its name, each of its       *)
(* numbers.  The last frame under way about a facet says what it is        *)
(* (FacetsTold), but the reducer appends an account that a rename finds    *)
(* missing and drops a number whose account it misses.  An account that a  *)
(* frame holds for known is there or its end follows (Presumed), and       *)
(* nothing brings it again before that (Afresh), for the awaited answer    *)
(* too (EchoPresumed, EchoAfresh).  So answers and the store are right     *)
(* about what no frame is coming for (AnswersRight, StoreRight), and       *)
(* facets that agree are accounts that agree as long as no snapshot has an *)
(* id twice (AllApart).                                                    *)
(*                                                                         *)
(* What an action does to the rest of the tab, and what a frame makes of a *)
(* facet (Follows), is ConsoleProofs.                                      *)
(***************************************************************************)
EXTENDS ConsoleProofs

(* The accounts: what is under way about a facet *)

\* A number of the account, or 0 where the facet is the account's own.
Slots == Numbers \cup {0}

Afoot(fs, k, a, n, t) == \E i \in DOMAIN fs : Changes(fs[i], k, a, n) /\ fs[i].at > t

\* The GETs of the snapshot.
Snaps == {"bootstrap", "state"}

\* The last frame under way about a facet says what it is, unless an import was swapped in
\* after it.
FacetsTold ==
  \A k \in Facets, a \in Accounts, n \in Slots : \A i \in DOMAIN frames :
    frames[i].at > imports.at /\ Changes(frames[i], k, a, n) /\ ~Afoot(frames, k, a, n, frames[i].at) =>
      Becomes(frames[i], k, a, n) = Facet(wabas, k, a, n)

\* A snapshot that nothing has passed by is right about what no frame is coming for.
AnswersRight ==
  \A k \in Facets, a \in Accounts, n \in Slots : \A g \in Snaps :
    requests[g].stage = "answered" /\ ~requests[g].old /\ ~Afoot(frames, k, a, n, requests[g].at) =>
      Facet(requests[g].data["server"], k, a, n) = Facet(wabas, k, a, n)

\* So is the awaited answer, about what it changes.
EchoOpen == echo.pending /\ "server" \notin echo.old
EchoRight ==
  \A k \in Facets, a \in Accounts, n \in Slots :
    EchoOpen /\ Changes(echo.frame, k, a, n) /\ ~Afoot(frames, k, a, n, echo.frame.at) =>
      Becomes(echo.frame, k, a, n) = Facet(wabas, k, a, n)

\* And so is the store, unless it is behind.
StoreRight ==
  \A k \in Facets, a \in Accounts, n \in Slots :
    store.server.loaded /\ ~behind["server"] /\ ~Afoot(frames, k, a, n, 0) =>
      Facet(store.server.data, k, a, n) = Facet(wabas, k, a, n)

\* An account that a frame holds for known is there, or its end follows.
Presumed ==
  \A a \in Accounts : \A i \in DOMAIN frames :
    frames[i].at > imports.at /\ Presumes(frames[i], a) =>
      Known(wabas, a) \/ \E j \in DOMAIN frames : i < j /\ Ends(frames[j], a)
EchoPresumed ==
  \A a \in Accounts :
    EchoOpen /\ Presumes(echo.frame, a) =>
      Known(wabas, a) \/ \E j \in DOMAIN frames : Ends(frames[j], a) /\ frames[j].at > echo.frame.at

\* An account is brought again only after its end.
Afresh ==
  \A a \in Accounts : \A i, j \in DOMAIN frames :
    i < j /\ frames[i].at > imports.at /\ Presumes(frames[i], a) /\ Creates(frames[j], a) =>
      \E m \in DOMAIN frames : i < m /\ m < j /\ Ends(frames[m], a)
EchoAfresh ==
  \A a \in Accounts : \A j \in DOMAIN frames :
    EchoOpen /\ OfNumber(echo.frame, a) /\ Creates(frames[j], a) /\ frames[j].at >= echo.frame.at =>
      \E m \in DOMAIN frames : Ends(frames[m], a) /\ frames[m].at > echo.frame.at

\* Once its own frame has gone by, what is under way is not older than the awaited answer.
HeardOrder ==
  EchoOpen /\ echo.heard => \A i \in DOMAIN frames : frames[i].at >= echo.frame.at

\* No snapshot has two accounts, or an account two numbers, of one id.
AllApart ==
  /\ Apart(wabas)
  /\ store.server.loaded => Apart(store.server.data)
  /\ \A g \in Snaps : requests[g].stage = "answered" => Apart(requests[g].data["server"])
  /\ \A i \in DOMAIN frames : Wipes(frames[i]) => Apart(frames[i].body)
  /\ echo.pending /\ Wipes(echo.frame) => Apart(echo.frame.body)

\* The first snapshot is on its way or there.
BootComing == requests["bootstrap"].stage = "idle" => store.server.loaded

WorldInv ==
  /\ FacetsTold /\ AnswersRight /\ EchoRight /\ StoreRight
  /\ Presumed /\ EchoPresumed /\ Afresh /\ EchoAfresh
  /\ HeardOrder /\ AllApart /\ BootComing

\* What is coming after a stamp is coming after an earlier one.
LEMMA AfootLater ==
  ASSUME NEW fs \in Seq(Frames), NEW k, NEW a, NEW n, NEW t \in Nat, NEW u \in Nat, t <= u,
         Afoot(fs, k, a, n, u)
  PROVE  Afoot(fs, k, a, n, t)
<1>1. PICK i \in DOMAIN fs : Changes(fs[i], k, a, n) /\ fs[i].at > u
  BY DEF Afoot
<1>2. fs[i] \in Frames
  OBVIOUS
<1>3. fs[i].at \in Nat
  BY <1>2, FrameIs
<1>4. fs[i].at > t
  BY <1>1, <1>3
<1>5. QED
  BY <1>1, <1>4 DEF Afoot

\* A frame that may change a facet concerns the snapshot, and so does one about an account.
LEMMA ConcernsServer ==
  ASSUME NEW f, NEW a
  PROVE  /\ "server" \in Collections
         /\ Ends(f, a) \/ Creates(f, a) \/ Presumes(f, a) => "server" \in Concerned(f)
         /\ \A k, n : Changes(f, k, a, n) => "server" \in Concerned(f)
<1>1. "server" \in Collections
  BY DEF Collections
<1>2. f.type \in {"waba", "number"} \/ Wipes(f) => "server" \in Concerned(f)
  BY <1>1 DEF Concerned, Wipes
<1>3. Ends(f, a) \/ Creates(f, a) \/ Presumes(f, a) => f.type \in {"waba", "number"} \/ Wipes(f)
  BY DEF Ends, Creates, Presumes, OfNumber
<1>4. \A k, n : Changes(f, k, a, n) => f.type \in {"waba", "number"} \/ Wipes(f)
  BY DEF Changes, Ends, Creates, OfNumber
<1>5. QED
  BY <1>1, <1>2, <1>3, <1>4

\* The GETs of the snapshot are about it.
LEMMA SnapsAre ==
  /\ Snaps \subseteq Gets /\ \A g \in Snaps : "server" \in About(g)
BY AboutIs DEF Snaps, Gets

-----------------------------------------------------------------------------
(* A change of the server *)

\* What a change of the server does to the accounts, and what its frames say of them.
Moved(fs) ==
  LET f == Last(fs) IN
  /\ wabas' \in Worlds /\ Apart(wabas')
  /\ \A k \in Facets, a \in Accounts, n \in Slots :
       Facet(wabas', k, a, n) =
         IF Changes(f, k, a, n) THEN Becomes(f, k, a, n) ELSE Facet(wabas, k, a, n)
  /\ \A a \in Accounts :
       /\ Presumes(f, a) => Known(wabas', a)
       /\ Known(wabas, a) => Known(wabas', a) \/ Ends(f, a)
  /\ \A i \in DOMAIN fs : \A a \in Accounts :
       /\ \A k \in Facets, n \in Slots :
            Changes(fs[i], k, a, n) => Changes(f, k, a, n) /\ Becomes(fs[i], k, a, n) = Becomes(f, k, a, n)
       /\ Presumes(fs[i], a) => Known(wabas', a) \/ (i < Len(fs) /\ Ends(f, a))
       /\ Creates(fs[i], a) => ~Known(wabas, a) /\ fs = <<f>>

\* The accounts after a change are what its frames say.
LEMMA ServerMoved ==
  ASSUME TypeOK, Apart(wabas), NEW fs, NEW mine, ServerMoves(fs, mine)
  PROVE  Moved(fs)
<1> DEFINE f == Last(fs)
           t == After(wabas, f)
<1>1. /\ fs \in Seq(Frames) /\ fs # <<>> /\ Housed(fs) /\ f \in Frames
      /\ Len(fs) \in Nat /\ DOMAIN fs = 1 .. Len(fs) /\ fs[Len(fs)] = f
      /\ \A i \in DOMAIN fs : i # Len(fs) => fs[i].type = "number"
  BY LastOf DEF ServerMoves
<1>2. wabas \in Worlds
  BY DEF TypeOK, ServerTypes
<1>3. /\ wabas' = t /\ (Wipes(f) => Apart(f.body))
      /\ \A a : Creates(f, a) => ~Known(wabas, a)
      /\ \A a : Presumes(f, a) /\ ~Creates(f, a) => Known(wabas, a)
      /\ \A i \in DOMAIN fs :
           i # Len(fs) => /\ f.type = "waba" /\ f.body.change = "deleted"
                          /\ fs[i].body.change = "deleted" /\ fs[i].body.account = f.body.id
  BY <1>1 DEF Housed
<1>4. PICK s \in Worlds : s = wabas
  BY <1>2
<1>5. \A k \in Facets : \A a, n : t \in Worlds /\ Apart(t) /\ Follows(s, t, f, k, a, n)
  BY <1>1, <1>3, <1>4, AfterFacets
<1> HIDE DEF t, f
<1>6. t \in Worlds /\ Apart(t)
  BY <1>5 DEF Facets
<1>7. ASSUME NEW k \in Facets, NEW a, NEW n
      PROVE  Facet(t, k, a, n) =
               IF Changes(f, k, a, n) THEN Becomes(f, k, a, n) ELSE Facet(wabas, k, a, n)
  <2>1. Follows(s, t, f, k, a, n)
    BY <1>5
  <2>2. ~(Changes(f, k, a, n) /\ k = "number" /\ OfNumber(f, a) /\ ~Known(s, a))
    <3>1. OfNumber(f, a) => Presumes(f, a) /\ ~Creates(f, a)
      BY DEF OfNumber, Presumes, Creates
    <3>2. QED
      BY <1>3, <1>4, <3>1
  <2>3. ASSUME ~Changes(f, k, a, n), k = "there", Presumes(f, a) PROVE Facet(wabas, k, a, n) = {a}
    <3>1. ~Creates(f, a)
      BY <2>3 DEF Changes
    <3>2. Known(wabas, a)
      BY <1>3, <2>3, <3>1
    <3>3. QED
      BY <2>3, <3>2, ThereIs
  <2>4. QED
    BY <1>4, <2>1, <2>2, <2>3 DEF Follows
<1>8. ASSUME NEW a PROVE Known(t, a) <=> Facet(t, "there", a, 0) # {}
  BY ThereIs
<1>9. ASSUME NEW a, Presumes(f, a) PROVE Known(t, a)
  <2>1. ~Ends(f, a)
    BY <1>9 DEF Ends, Presumes, OfNumber, Wipes
  <2>2. CASE Creates(f, a)
    <3>1. Changes(f, "there", a, 0) /\ Becomes(f, "there", a, 0) = {a}
      BY <2>2 DEF Changes, Becomes, Creates, Wipes
    <3>2. QED
      BY <1>7, <1>8, <3>1 DEF Facets
  <2>3. CASE ~Creates(f, a)
    <3>1. ~Changes(f, "there", a, 0)
      BY <2>1, <2>3 DEF Changes
    <3>2. Known(wabas, a)
      BY <1>3, <1>9, <2>3
    <3>3. Facet(wabas, "there", a, 0) = {a}
      BY <3>2, ThereIs
    <3>4. QED
      BY <1>7, <1>8, <3>1, <3>3 DEF Facets
  <2>4. QED
    BY <2>2, <2>3
<1>10. ASSUME NEW a, Known(wabas, a), ~Ends(f, a) PROVE Known(t, a)
  <2>1. ~Changes(f, "there", a, 0)
    BY <1>3, <1>10 DEF Changes
  <2>2. Facet(wabas, "there", a, 0) = {a}
    BY <1>10, ThereIs
  <2>3. QED
    BY <1>7, <1>8, <2>1, <2>2 DEF Facets
<1>11. ASSUME NEW i \in DOMAIN fs, i # Len(fs), NEW a
       PROVE  /\ ~Wipes(fs[i]) /\ ~Creates(fs[i], a)
              /\ Presumes(fs[i], a) => Ends(f, a)
              /\ \A k, n : Changes(fs[i], k, a, n) =>
                   Changes(f, k, a, n) /\ Becomes(fs[i], k, a, n) = Becomes(f, k, a, n)
  <2>1. /\ f.type = "waba" /\ f.body.change = "deleted" /\ fs[i].type = "number"
        /\ fs[i].body.change = "deleted" /\ fs[i].body.account = f.body.id
    BY <1>1, <1>3, <1>11
  <2>2. ~Wipes(fs[i]) /\ ~Creates(fs[i], a)
    BY <2>1 DEF Wipes, Creates
  <2>3. Presumes(fs[i], a) => Ends(f, a)
    BY <2>1 DEF Presumes, OfNumber, Ends
  <2>4. \A k, n : Changes(fs[i], k, a, n) => Changes(f, k, a, n)
    BY <2>1, <2>2 DEF Changes, OfNumber, Ends
  <2>5. \A k, n : Becomes(fs[i], k, a, n) = {} /\ Becomes(f, k, a, n) = {}
    BY <2>1 DEF Becomes, Wipes
  <2>6. QED
    BY <2>2, <2>3, <2>4, <2>5
<1>12. ASSUME NEW a, Creates(f, a) PROVE fs = <<f>>
  <2>1. ~(f.type = "waba" /\ f.body.change = "deleted")
    BY <1>12 DEF Creates
  <2>2. \A i \in DOMAIN fs : i = Len(fs)
    BY <1>3, <2>1
  <2>3. Len(fs) = 1
    BY <1>1, <2>2
  <2>4. QED
    BY <1>1, <2>3
<1>13. ASSUME NEW i \in DOMAIN fs, NEW a \in Accounts
       PROVE  /\ \A k \in Facets, n \in Slots :
                   Changes(fs[i], k, a, n) =>
                     Changes(f, k, a, n) /\ Becomes(fs[i], k, a, n) = Becomes(f, k, a, n)
              /\ Presumes(fs[i], a) => Known(t, a) \/ (i < Len(fs) /\ Ends(f, a))
              /\ Creates(fs[i], a) => ~Known(wabas, a) /\ fs = <<f>>
  <2>1. CASE i = Len(fs)
    BY <1>1, <1>3, <1>9, <1>12, <2>1
  <2>2. CASE i # Len(fs)
    <3>1. i < Len(fs)
      BY <1>1, <2>2
    <3>2. QED
      BY <1>11, <2>2, <3>1
  <2>3. QED
    BY <2>1, <2>2
<1>14. QED
  BY <1>3, <1>6, <1>7, <1>9, <1>10, <1>13 DEF Moved, f

\* The frames under way after a change: those that were, and behind them its own.
LEMMA ServerFrames ==
  ASSUME TypeOK, WireOrder, NEW fs, NEW mine \in BOOLEAN, ServerMoves(fs, mine), Published(fs, mine)
  PROVE  /\ Last(fs) \in Frames /\ Last(fs).at = changes + 1 /\ Len(fs) \in Nat /\ changes \in Nat
         /\ Len(frames) \in Nat /\ DOMAIN fs = 1 .. Len(fs) /\ DOMAIN frames = 1 .. Len(frames)
         /\ \A i \in DOMAIN frames' :
              \/ i \in DOMAIN frames /\ frames'[i] = frames[i]
              \/ connected /\ \E j \in DOMAIN fs :
                   i = Len(frames) + j /\ frames'[i] = fs[j] /\ fs[j].at = changes + 1
         /\ \A i \in DOMAIN frames : /\ i \in DOMAIN frames' /\ frames'[i] = frames[i]
                                     /\ frames[i].at \in Nat /\ frames[i].at <= changes
         /\ connected => /\ Len(frames) + Len(fs) \in DOMAIN frames'
                         /\ frames'[Len(frames) + Len(fs)] = Last(fs)
         /\ ~connected => DOMAIN frames = {} /\ DOMAIN frames' = {}
<1>1. /\ fs \in Seq(Frames) /\ fs # <<>> /\ Last(fs) \in Frames /\ Last(fs).at = changes + 1
      /\ \A j \in DOMAIN fs : fs[j].at = changes + 1
  BY LastOf DEF ServerMoves
<1>2. /\ Len(frames) \in Nat /\ DOMAIN frames = 1 .. Len(frames) /\ changes \in Nat
      /\ \A i \in DOMAIN frames : frames[i].at \in Nat /\ frames[i].at <= changes
  BY FramesTyped DEF WireOrder
<1>3. CASE connected
  <2>1. frames' = frames \o fs
    BY <1>3 DEF Published
  <2>2. /\ DOMAIN frames' = 1 .. Len(frames) + Len(fs) /\ Len(fs) \in Nat \ {0}
        /\ \A i \in DOMAIN frames : i \in DOMAIN frames' /\ frames'[i] = frames[i]
        /\ \A j \in DOMAIN fs : Len(frames) + j \in DOMAIN frames' /\ frames'[Len(frames) + j] = fs[j]
        /\ \A i \in DOMAIN frames' : i \in DOMAIN frames \/ i - Len(frames) \in DOMAIN fs
        /\ frames'[Len(frames) + Len(fs)] = Last(fs) /\ Len(frames) + Len(fs) \in DOMAIN frames'
    BY <2>1, FramesGrow
  <2>3. ASSUME NEW i \in DOMAIN frames', i \notin DOMAIN frames
        PROVE  \E j \in DOMAIN fs : i = Len(frames) + j /\ frames'[i] = fs[j] /\ fs[j].at = changes + 1
    <3>1. i - Len(frames) \in DOMAIN fs /\ i = Len(frames) + (i - Len(frames))
      BY <1>2, <2>2, <2>3
    <3>2. QED
      BY <1>1, <2>2, <3>1
  <2>4. DOMAIN fs = 1 .. Len(fs)
    BY <1>1
  <2>5. QED
    BY <1>1, <1>2, <1>3, <2>2, <2>3, <2>4
<1>4. CASE ~connected
  <2>1. frames' = frames /\ DOMAIN frames = {}
    BY <1>4 DEF Published, WireOrder
  <2>2. DOMAIN fs = 1 .. Len(fs) /\ Len(fs) \in Nat
    BY <1>1
  <2>3. QED
    BY <1>1, <1>2, <1>4, <2>1, <2>2
<1>5. QED
  BY <1>3, <1>4

\* The awaited answer after a change that is not its own.
LEMMA ServerEcho ==
  ASSUME TypeOK, WireOrder, NEW fs, NEW mine \in BOOLEAN, ServerMoves(fs, mine), Published(fs, mine)
  PROVE  /\ mine => echo'.pending /\ echo'.frame = Last(fs) /\ (echo'.heard <=> ~connected)
         /\ ~mine /\ echo'.pending =>
              /\ echo.pending /\ echo'.frame = echo.frame
              /\ echo.frame.at \in Nat /\ echo.frame.at <= changes
              /\ connected => echo' = echo
         /\ ~mine /\ EchoOpen' => EchoOpen /\ (connected \/ "server" \notin Concerned(Last(fs)))
<1> DEFINE f == Last(fs)
<1>1. f \in Frames /\ f.at = changes + 1 /\ changes \in Nat
  BY ServerFrames
<1>2. mine => echo'.pending /\ echo'.frame = f /\ (echo'.heard <=> ~connected)
  BY DEF Published
<1>3. ~mine /\ connected => echo' = echo
  BY DEF Published
<1>4. echo.pending => echo.frame.at \in Nat /\ echo.frame.at <= changes
  BY EchoAt DEF WireOrder
<1>5. ASSUME ~mine, ~connected
      PROVE  /\ echo'.pending = echo.pending
             /\ echo.pending => /\ echo'.frame = echo.frame
                                /\ echo'.old = echo.old \cup Concerned(f)
  <2>1. echo' = EchoPassedBy(f)
    BY <1>5 DEF Published
  <2>2. Concerned(f) \subseteq Collections /\ IsEcho(echo)
    BY <1>1, ConcernedIn DEF TypeOK, WireTypes
  <2> HIDE DEF f
  <2>3. /\ echo'.pending = echo.pending
        /\ echo.pending =>
             /\ echo'.frame = echo.frame
             /\ echo'.old = IF f.at > echo.frame.at THEN echo.old \cup Concerned(f) ELSE echo.old
    BY <2>1, <2>2, EchoPassed
  <2>4. QED
    BY <1>1, <1>4, <2>3
<1> HIDE DEF f
<1>6. ~mine /\ EchoOpen' => EchoOpen /\ (connected \/ "server" \notin Concerned(f))
  BY <1>3, <1>5 DEF EchoOpen
<1>7. QED
  BY <1>2, <1>3, <1>4, <1>5, <1>6 DEF f

\* What was right about a facet that no new frame is about is right still.
LEMMA ServerFacet ==
  ASSUME TypeOK, WireOrder, NEW fs, NEW mine \in BOOLEAN, ServerMoves(fs, mine), Published(fs, mine),
         Moved(fs), NEW k \in Facets, NEW a \in Accounts, NEW n \in Slots, NEW t \in Nat, t <= changes,
         ~Afoot(frames, k, a, n, t)', connected \/ ~Changes(Last(fs), k, a, n)
  PROVE  Facet(wabas', k, a, n) = Facet(wabas, k, a, n) /\ ~Afoot(frames, k, a, n, t)
<1> DEFINE f == Last(fs)
<1>1. \A i \in DOMAIN frames' : ~(Changes(frames'[i], k, a, n) /\ frames'[i].at > t)
  BY DEF Afoot
<1>2. ~Afoot(frames, k, a, n, t)
  <2>1. \A i \in DOMAIN frames : i \in DOMAIN frames' /\ frames'[i] = frames[i]
    BY ServerFrames
  <2>2. QED
    BY <1>1, <2>1 DEF Afoot
<1>3. ~Changes(f, k, a, n)
  <2>1. CASE connected
    <3>1. /\ Len(frames) + Len(fs) \in DOMAIN frames' /\ frames'[Len(frames) + Len(fs)] = f
          /\ f.at = changes + 1 /\ changes \in Nat
      BY <2>1, ServerFrames
    <3> HIDE DEF f
    <3>2. f.at > t
      BY <3>1
    <3>3. QED
      BY <1>1, <3>1, <3>2
  <2>2. QED
    BY <2>1
<1>4. QED
  BY <1>2, <1>3 DEF Moved

\* The facets after a change: what the frames, the answers and the store are right about.
LEMMA ServerRight ==
  ASSUME TypeOK, WireOrder, WorldInv, NEW fs, NEW mine \in BOOLEAN, ServerMoves(fs, mine),
         Published(fs, mine), Moved(fs)
  PROVE  FacetsTold' /\ AnswersRight' /\ EchoRight' /\ StoreRight'
<1> DEFINE f == Last(fs)
<1>1. /\ f \in Frames /\ f.at = changes + 1 /\ changes \in Nat /\ imports'.at = imports.at
      /\ \A i \in DOMAIN frames' :
           \/ i \in DOMAIN frames /\ frames'[i] = frames[i]
           \/ connected /\ \E j \in DOMAIN fs :
                i = Len(frames) + j /\ frames'[i] = fs[j] /\ fs[j].at = changes + 1
      /\ \A i \in DOMAIN frames : frames[i].at \in Nat /\ frames[i].at <= changes
  BY ServerFrames DEF ServerMoves
<1>2. \A a \in Accounts : \A k, n : "server" \notin Concerned(f) => ~Changes(f, k, a, n)
  BY ConcernsServer
<1>3. \A k \in Facets, a \in Accounts, n \in Slots :
        Changes(f, k, a, n) => Facet(wabas', k, a, n) = Becomes(f, k, a, n)
  BY DEF Moved
<1> HIDE DEF f
<1>4. FacetsTold'
  <2>1. SUFFICES ASSUME NEW k \in Facets, NEW a \in Accounts, NEW n \in Slots, NEW i \in DOMAIN frames',
                        frames'[i].at > imports.at, Changes(frames'[i], k, a, n),
                        ~Afoot(frames, k, a, n, frames[i].at)'
                 PROVE  Becomes(frames'[i], k, a, n) = Facet(wabas', k, a, n)
    BY <1>1 DEF FacetsTold
  <2>2. CASE i \in DOMAIN frames /\ frames'[i] = frames[i]
    <3>1. PICK t \in Nat : t = frames[i].at /\ t <= changes
      BY <1>1, <2>2
    <3>2. ~Afoot(frames, k, a, n, t)'
      BY <2>1, <2>2, <3>1 DEF Afoot
    <3>3. connected
      BY <2>2 DEF WireOrder
    <3>4. Facet(wabas', k, a, n) = Facet(wabas, k, a, n) /\ ~Afoot(frames, k, a, n, t)
      BY <3>1, <3>2, <3>3, ServerFacet
    <3>5. QED
      BY <2>1, <2>2, <3>1, <3>4 DEF WorldInv, FacetsTold
  <2>3. CASE \E j \in DOMAIN fs : frames'[i] = fs[j]
    <3>1. PICK j \in DOMAIN fs : frames'[i] = fs[j]
      BY <2>3
    <3>2. Changes(f, k, a, n) /\ Becomes(fs[j], k, a, n) = Becomes(f, k, a, n)
      BY <2>1, <3>1 DEF Moved, f
    <3>3. QED
      BY <1>3, <3>1, <3>2
  <2>4. QED
    BY <1>1, <2>2, <2>3
<1>5. AnswersRight'
  <2>1. SUFFICES ASSUME NEW k \in Facets, NEW a \in Accounts, NEW n \in Slots, NEW g \in Snaps,
                        requests'[g].stage = "answered", ~requests'[g].old,
                        ~Afoot(frames, k, a, n, requests[g].at)'
                 PROVE  Facet(requests'[g].data["server"], k, a, n) = Facet(wabas', k, a, n)
    BY DEF AnswersRight
  <2>2. g \in Gets /\ "server" \in About(g)
    BY SnapsAre
  <2>3. /\ requests'[g] = requests[g] /\ requests[g].stage = "answered" /\ ~requests[g].old
        /\ requests[g].at \in Nat
    BY <2>1, <2>2, OlderAnswer DEF Published
  <2>4. PICK t \in Nat : t = requests[g].at /\ t <= changes
    BY <2>2, <2>3 DEF WireOrder
  <2>5. ~Afoot(frames, k, a, n, t)'
    BY <2>1, <2>3, <2>4 DEF Afoot
  <2>6. connected \/ "server" \notin Concerned(f)
    <3>1. SUFFICES ASSUME ~connected, "server" \in Concerned(f) PROVE FALSE
      OBVIOUS
    <3>2. g # "older" /\ requests[g].at < f.at /\ About(g) \cap Concerned(f) # {}
      BY <1>1, <2>2, <2>4, <3>1 DEF Snaps
    <3>3. PassesBy(f, g)
      BY <2>3, <3>2 DEF PassesBy
    <3>4. QED
      BY <2>1, <2>2, <3>1, <3>3 DEF Published, f
  <2>7. connected \/ ~Changes(f, k, a, n)
    BY <1>2, <2>6
  <2>8. Facet(wabas', k, a, n) = Facet(wabas, k, a, n) /\ ~Afoot(frames, k, a, n, t)
    BY <2>4, <2>5, <2>7, ServerFacet DEF f
  <2>9. QED
    BY <2>3, <2>4, <2>8 DEF WorldInv, AnswersRight
<1>6. EchoRight'
  <2>1. SUFFICES ASSUME NEW k \in Facets, NEW a \in Accounts, NEW n \in Slots, EchoOpen',
                        Changes(echo'.frame, k, a, n), ~Afoot(frames, k, a, n, echo.frame.at)'
                 PROVE  Becomes(echo'.frame, k, a, n) = Facet(wabas', k, a, n)
    BY DEF EchoRight
  <2>2. CASE mine
    <3>1. echo'.frame = f
      BY <2>2, ServerEcho DEF f
    <3>2. QED
      BY <1>3, <2>1, <3>1
  <2>3. CASE ~mine
    <3>1. /\ EchoOpen /\ echo'.frame = echo.frame /\ echo.frame.at \in Nat /\ echo.frame.at <= changes
          /\ connected \/ "server" \notin Concerned(f)
      BY <2>1, <2>3, ServerEcho DEF EchoOpen, f
    <3>2. PICK t \in Nat : t = echo.frame.at /\ t <= changes
      BY <3>1
    <3>3. ~Afoot(frames, k, a, n, t)'
      BY <2>1, <3>1, <3>2 DEF Afoot
    <3>4. connected \/ ~Changes(f, k, a, n)
      BY <1>2, <3>1
    <3>5. Facet(wabas', k, a, n) = Facet(wabas, k, a, n) /\ ~Afoot(frames, k, a, n, t)
      BY <3>2, <3>3, <3>4, ServerFacet DEF f
    <3>6. QED
      BY <2>1, <3>1, <3>2, <3>5 DEF WorldInv, EchoRight
  <2>4. QED
    BY <2>2, <2>3
<1>7. StoreRight'
  <2>1. SUFFICES ASSUME NEW k \in Facets, NEW a \in Accounts, NEW n \in Slots,
                        store'.server.loaded, ~behind'["server"], ~Afoot(frames, k, a, n, 0)'
                 PROVE  Facet(store'.server.data, k, a, n) = Facet(wabas', k, a, n)
    BY DEF StoreRight
  <2>2. "server" \in Collections
    BY ConcernsServer
  <2>3. /\ store' = store /\ ~behind["server"]
        /\ connected \/ "server" \notin Concerned(f)
    BY <2>1, <2>2 DEF Published, f
  <2>4. connected \/ ~Changes(f, k, a, n)
    BY <1>2, <2>3
  <2>5. 0 \in Nat /\ 0 <= changes
    BY <1>1
  <2>6. Facet(wabas', k, a, n) = Facet(wabas, k, a, n) /\ ~Afoot(frames, k, a, n, 0)
    BY <2>1, <2>4, <2>5, ServerFacet DEF f
  <2>7. QED
    BY <2>1, <2>3, <2>6 DEF WorldInv, StoreRight
<1>8. QED
  BY <1>4, <1>5, <1>6, <1>7

\* The frames of a change hold no account for known that is not there, and bring back none
\* whose end has not been told.
LEMMA ServerPresumed ==
  ASSUME TypeOK, WireOrder, WorldInv, NEW fs, NEW mine \in BOOLEAN, ServerMoves(fs, mine),
         Published(fs, mine), Moved(fs)
  PROVE  Presumed' /\ Afresh'
<1> DEFINE f == Last(fs)
           n == Len(frames)
           e == Len(frames) + Len(fs)
<1>1. /\ f \in Frames /\ n \in Nat /\ Len(fs) \in Nat /\ DOMAIN frames = 1 .. n /\ DOMAIN fs = 1 .. Len(fs)
      /\ \A i \in DOMAIN frames' :
           \/ i \in DOMAIN frames /\ frames'[i] = frames[i]
           \/ connected /\ \E j \in DOMAIN fs : i = n + j /\ frames'[i] = fs[j]
      /\ imports'.at = imports.at
      /\ \A i \in DOMAIN frames : i \in DOMAIN frames' /\ frames'[i] = frames[i]
      /\ connected => e \in DOMAIN frames' /\ frames'[e] = f
      /\ ~connected => DOMAIN frames' = {}
  BY ServerFrames DEF ServerMoves
<1>2. /\ \A a \in Accounts : Known(wabas, a) => Known(wabas', a) \/ Ends(f, a)
      /\ \A i \in DOMAIN fs : \A a \in Accounts :
           /\ Presumes(fs[i], a) => Known(wabas', a) \/ (i < Len(fs) /\ Ends(f, a))
           /\ Creates(fs[i], a) => ~Known(wabas, a) /\ fs = <<f>>
  BY DEF Moved
<1>3. Presumed /\ Afresh
  BY DEF WorldInv
<1> HIDE DEF f, n
<1>4. Presumed'
  <2>1. SUFFICES ASSUME NEW a \in Accounts, NEW i \in DOMAIN frames',
                        frames'[i].at > imports.at, Presumes(frames'[i], a)
                 PROVE  Known(wabas', a) \/ \E j \in DOMAIN frames' : i < j /\ Ends(frames'[j], a)
    BY <1>1 DEF Presumed
  <2>2. connected
    BY <1>1, <2>1
  <2>3. CASE i \in DOMAIN frames /\ frames'[i] = frames[i]
    <3>1. CASE Known(wabas, a)
      <4>1. Known(wabas', a) \/ Ends(f, a)
        BY <1>2, <3>1
      <4>2. CASE Ends(f, a)
        <5>1. i < e
          <6>1. i \in 1 .. n /\ e = n + Len(fs) /\ e \in DOMAIN frames' /\ Len(fs) # 0
            BY <1>1, <2>2, <2>3, LastOf DEF ServerMoves, n
          <6>2. QED
            BY <1>1, <6>1
        <5>2. QED
          BY <1>1, <2>2, <4>2, <5>1
      <4>3. QED
        BY <4>1, <4>2
    <3>2. CASE \E j \in DOMAIN frames : i < j /\ Ends(frames[j], a)
      <4>1. PICK j \in DOMAIN frames : i < j /\ Ends(frames[j], a)
        BY <3>2
      <4>2. j \in DOMAIN frames' /\ frames'[j] = frames[j]
        BY <1>1
      <4>3. QED
        BY <4>1, <4>2
    <3>3. QED
      BY <1>3, <2>1, <2>3, <3>1, <3>2 DEF Presumed
  <2>4. CASE \E j \in DOMAIN fs : i = n + j /\ frames'[i] = fs[j]
    <3>1. PICK j \in DOMAIN fs : i = n + j /\ frames'[i] = fs[j]
      BY <2>4
    <3>2. Known(wabas', a) \/ (j < Len(fs) /\ Ends(f, a))
      BY <1>2, <2>1, <3>1
    <3>3. CASE j < Len(fs) /\ Ends(f, a)
      <4>1. i < e
        BY <1>1, <3>1, <3>3 DEF n
      <4>2. QED
        BY <1>1, <2>2, <3>3, <4>1
    <3>4. QED
      BY <3>2, <3>3
  <2>5. QED
    BY <1>1, <2>3, <2>4
<1>5. Afresh'
  <2>1. SUFFICES ASSUME NEW a \in Accounts, NEW i \in DOMAIN frames', NEW j \in DOMAIN frames', i < j,
                        frames'[i].at > imports.at, Presumes(frames'[i], a), Creates(frames'[j], a)
                 PROVE  \E m \in DOMAIN frames' : i < m /\ m < j /\ Ends(frames'[m], a)
    BY <1>1 DEF Afresh
  <2>2. CASE j \in DOMAIN frames /\ frames'[j] = frames[j]
    <3>1. i \in DOMAIN frames /\ frames'[i] = frames[i]
      <4>1. ~ \E b \in DOMAIN fs : i = n + b
        BY <1>1, <2>1, <2>2
      <4>2. QED
        BY <1>1, <4>1
    <3>2. PICK m \in DOMAIN frames : i < m /\ m < j /\ Ends(frames[m], a)
      BY <1>3, <2>1, <2>2, <3>1 DEF Afresh
    <3>3. m \in DOMAIN frames' /\ frames'[m] = frames[m]
      BY <1>1
    <3>4. QED
      BY <3>2, <3>3
  <2>3. CASE \E b \in DOMAIN fs : j = n + b /\ frames'[j] = fs[b]
    <3>1. PICK b \in DOMAIN fs : j = n + b /\ frames'[j] = fs[b]
      BY <2>3
    <3>2. ~Known(wabas, a) /\ fs = <<f>>
      BY <1>2, <2>1, <3>1
    <3>3. Len(fs) = 1
      BY <3>2
    <3>4. j = n + 1
      BY <1>1, <3>1, <3>3
    <3>5. i \in DOMAIN frames /\ frames'[i] = frames[i]
      <4>1. ~ \E c \in DOMAIN fs : i = n + c
        BY <1>1, <2>1, <3>3, <3>4
      <4>2. QED
        BY <1>1, <4>1
    <3>6. PICK m \in DOMAIN frames : i < m /\ Ends(frames[m], a)
      BY <1>3, <2>1, <3>2, <3>5 DEF Presumed
    <3>7. m \in DOMAIN frames' /\ frames'[m] = frames[m] /\ m < j
      BY <1>1, <3>4
    <3>8. QED
      BY <3>6, <3>7
  <2>4. QED
    BY <1>1, <2>2, <2>3
<1>6. QED
  BY <1>4, <1>5

\* And so for the awaited answer.
LEMMA ServerEchoes ==
  ASSUME TypeOK, WireOrder, WorldInv, NEW fs, NEW mine \in BOOLEAN, ServerMoves(fs, mine),
         Published(fs, mine), Moved(fs)
  PROVE  EchoPresumed' /\ EchoAfresh' /\ HeardOrder'
<1> DEFINE f == Last(fs)
           e == Len(frames) + Len(fs)
<1>1. /\ f \in Frames /\ f.at = changes + 1 /\ changes \in Nat
      /\ \A i \in DOMAIN frames' :
           \/ i \in DOMAIN frames /\ frames'[i] = frames[i]
           \/ connected /\ \E j \in DOMAIN fs : frames'[i] = fs[j] /\ fs[j].at = changes + 1
      /\ \A i \in DOMAIN frames : /\ i \in DOMAIN frames' /\ frames'[i] = frames[i]
                                  /\ frames[i].at \in Nat /\ frames[i].at <= changes
      /\ connected => e \in DOMAIN frames' /\ frames'[e] = f
      /\ ~connected => DOMAIN frames' = {}
  BY ServerFrames
<1>2. /\ \A a \in Accounts : /\ Presumes(f, a) => Known(wabas', a)
                             /\ Known(wabas, a) => Known(wabas', a) \/ Ends(f, a)
      /\ \A i \in DOMAIN fs : \A a \in Accounts :
           Creates(fs[i], a) => ~Known(wabas, a) /\ fs = <<f>>
  BY DEF Moved
<1>3. /\ mine => echo'.frame = f /\ (echo'.heard <=> ~connected)
      /\ ~mine /\ echo'.pending =>
           /\ echo.pending /\ echo'.frame = echo.frame
           /\ echo.frame.at \in Nat /\ echo.frame.at <= changes
           /\ connected => echo' = echo
      /\ ~mine /\ EchoOpen' => EchoOpen /\ (connected \/ "server" \notin Concerned(f))
  BY ServerEcho
<1>4. EchoPresumed /\ EchoAfresh /\ HeardOrder
  BY DEF WorldInv
<1> HIDE DEF f, e
<1>5. EchoPresumed'
  <2>1. SUFFICES ASSUME NEW a \in Accounts, EchoOpen', Presumes(echo'.frame, a)
                 PROVE  \/ Known(wabas', a)
                        \/ \E j \in DOMAIN frames' : Ends(frames'[j], a) /\ frames'[j].at > echo'.frame.at
    BY DEF EchoPresumed
  <2>2. CASE mine
    BY <1>2, <1>3, <2>1, <2>2
  <2>3. CASE ~mine
    <3>1. /\ EchoOpen /\ echo'.frame = echo.frame /\ echo.frame.at \in Nat /\ echo.frame.at <= changes
          /\ connected \/ "server" \notin Concerned(f)
      BY <1>3, <2>1, <2>3 DEF EchoOpen
    <3>2. CASE Known(wabas, a)
      <4>1. Known(wabas', a) \/ Ends(f, a)
        BY <1>2, <3>2
      <4>2. ASSUME Ends(f, a)
            PROVE  \E j \in DOMAIN frames' : Ends(frames'[j], a) /\ frames'[j].at > echo'.frame.at
        <5>1. connected
          BY <3>1, <4>2, ConcernsServer
        <5>2. f.at > echo'.frame.at
          BY <1>1, <3>1
        <5>3. QED
          BY <1>1, <4>2, <5>1, <5>2
      <4>3. QED
        BY <4>1, <4>2
    <3>3. CASE \E j \in DOMAIN frames : Ends(frames[j], a) /\ frames[j].at > echo.frame.at
      <4>1. PICK j \in DOMAIN frames : Ends(frames[j], a) /\ frames[j].at > echo.frame.at
        BY <3>3
      <4>2. j \in DOMAIN frames' /\ frames'[j] = frames[j]
        BY <1>1
      <4>3. QED
        BY <3>1, <4>1, <4>2
    <3>4. QED
      BY <1>4, <2>1, <3>1, <3>2, <3>3 DEF EchoPresumed
  <2>4. QED
    BY <2>2, <2>3
<1>6. EchoAfresh'
  <2>1. SUFFICES ASSUME NEW a \in Accounts, NEW j \in DOMAIN frames', EchoOpen', OfNumber(echo'.frame, a),
                        Creates(frames'[j], a), frames'[j].at >= echo'.frame.at
                 PROVE  \E m \in DOMAIN frames' : Ends(frames'[m], a) /\ frames'[m].at > echo'.frame.at
    BY DEF EchoAfresh
  <2>2. CASE mine
    <3>1. echo'.frame = f
      BY <1>3, <2>2
    <3>2. frames'[j].at > changes
      BY <1>1, <2>1, <3>1
    <3>3. ~(j \in DOMAIN frames /\ frames'[j] = frames[j])
      BY <1>1, <3>2
    <3>4. PICK b \in DOMAIN fs : frames'[j] = fs[b]
      BY <1>1, <3>3
    <3>5. fs = <<f>>
      BY <1>2, <2>1, <3>4
    <3>6. fs[b] = f
      BY <3>5
    <3>7. Creates(f, a) /\ OfNumber(f, a)
      BY <2>1, <3>1, <3>4, <3>6
    <3>8. QED
      BY <3>7 DEF Creates, OfNumber
  <2>3. CASE ~mine
    <3>1. EchoOpen /\ echo'.frame = echo.frame /\ echo.frame.at \in Nat /\ echo.frame.at <= changes
      BY <1>3, <2>1, <2>3 DEF EchoOpen
    <3>2. \E m \in DOMAIN frames : Ends(frames[m], a) /\ frames[m].at > echo.frame.at
      <4>1. CASE j \in DOMAIN frames /\ frames'[j] = frames[j]
        BY <1>4, <2>1, <3>1, <4>1 DEF EchoAfresh
      <4>2. CASE \E b \in DOMAIN fs : frames'[j] = fs[b]
        <5>1. ~Known(wabas, a)
          BY <1>2, <2>1, <4>2
        <5>2. Presumes(echo.frame, a)
          BY <2>1, <3>1 DEF Presumes
        <5>3. QED
          BY <1>4, <3>1, <5>1, <5>2 DEF EchoPresumed
      <4>3. QED
        BY <1>1, <4>1, <4>2
    <3>3. PICK m \in DOMAIN frames : Ends(frames[m], a) /\ frames[m].at > echo.frame.at
      BY <3>2
    <3>4. m \in DOMAIN frames' /\ frames'[m] = frames[m]
      BY <1>1
    <3>5. QED
      BY <3>1, <3>3, <3>4
  <2>4. QED
    BY <2>2, <2>3
<1>7. HeardOrder'
  <2>1. SUFFICES ASSUME EchoOpen', echo'.heard, NEW i \in DOMAIN frames'
                 PROVE  frames'[i].at >= echo'.frame.at
    BY DEF HeardOrder
  <2>2. connected
    BY <1>1, <2>1
  <2>3. echo' = echo /\ echo.frame.at \in Nat /\ echo.frame.at <= changes
    BY <1>3, <2>1, <2>2 DEF EchoOpen
  <2>4. CASE i \in DOMAIN frames /\ frames'[i] = frames[i]
    BY <1>4, <2>1, <2>3, <2>4 DEF HeardOrder, EchoOpen
  <2>5. CASE frames'[i].at = changes + 1
    BY <1>1, <2>3, <2>5
  <2>6. QED
    BY <1>1, <2>4, <2>5
<1>8. QED
  BY <1>5, <1>6, <1>7

\* A change of the server keeps all of it.
LEMMA ServerWorld ==
  ASSUME TypeOK, WireOrder, WorldInv, NEW fs, NEW mine \in BOOLEAN, ServerMoves(fs, mine)
  PROVE  WorldInv'
<1>1. TypeOK' /\ Published(fs, mine) /\ AllApart /\ BootComing
  BY PublishFacts DEF WorldInv
<1>2. Moved(fs)
  BY <1>1, ServerMoved DEF AllApart
<1>3. FacetsTold' /\ AnswersRight' /\ EchoRight' /\ StoreRight'
  BY <1>1, <1>2, ServerRight
<1>4. Presumed' /\ Afresh'
  BY <1>1, <1>2, ServerPresumed
<1>5. EchoPresumed' /\ EchoAfresh' /\ HeardOrder'
  BY <1>1, <1>2, ServerEchoes
<1>6. \A g \in Snaps :
        /\ requests'[g].stage = requests[g].stage
        /\ requests'[g].stage = "answered" => requests'[g].data = requests[g].data
  BY <1>1, SnapsAre DEF Published, Older
<1>7. \A i \in DOMAIN fs : Wipes(fs[i]) => Apart(fs[i].body)
  <2>1. TAKE i \in DOMAIN fs
  <2>2. HAVE Wipes(fs[i])
  <2>3. i = Len(fs) /\ fs[i] = Last(fs)
    <3>1. i # Len(fs) => fs[i].type = "number"
      BY DEF ServerMoves
    <3>2. fs \in Seq(Frames) /\ fs # <<>>
      BY DEF ServerMoves
    <3>3. QED
      BY <2>2, <3>1, <3>2, LastOf DEF Wipes
  <2>4. Housed(fs)
    BY <1>1 DEF ServerMoves, AllApart
  <2>5. QED
    BY <2>2, <2>3, <2>4 DEF Housed
<1>8. AllApart'
  <2>1. Apart(wabas')
    BY <1>2 DEF Moved
  <2>2. \A i \in DOMAIN frames' : Wipes(frames'[i]) => Apart(frames'[i].body)
    <3>1. TAKE i \in DOMAIN frames'
    <3>2. (i \in DOMAIN frames /\ frames'[i] = frames[i]) \/ \E j \in DOMAIN fs : frames'[i] = fs[j]
      BY <1>1, ServerFrames
    <3>3. QED
      BY <1>1, <1>7, <3>2 DEF AllApart
  <2>3. echo'.pending /\ Wipes(echo'.frame) => Apart(echo'.frame.body)
    <3>1. CASE mine
      <4>1. echo'.frame = Last(fs)
        BY <1>1, <3>1, ServerEcho
      <4>2. \E i \in DOMAIN fs : fs[i] = Last(fs)
        BY LastOf DEF ServerMoves
      <4>3. QED
        BY <1>7, <4>1, <4>2
    <3>2. CASE ~mine
      BY <1>1, <3>2, ServerEcho DEF AllApart
    <3>3. QED
      BY <3>1, <3>2
  <2>4. store' = store
    BY <1>1 DEF Published
  <2>5. QED
    BY <1>1, <1>6, <2>1, <2>2, <2>3, <2>4 DEF AllApart
<1>9. BootComing'
  BY <1>1, <1>6 DEF BootComing, Published, Snaps
<1>10. QED
  BY <1>3, <1>4, <1>5, <1>8, <1>9 DEF WorldInv

-----------------------------------------------------------------------------
(* The other steps, by what they do to the snapshot *)

\* Nothing the snapshot hangs on changes, but its GET is sent or given up.
WorldStill ==
  /\ UNCHANGED <<wabas, frames, echo>> /\ imports'.at = imports.at
  /\ store'.server = store.server /\ (behind'["server"] <=> behind["server"])
  /\ requests'["bootstrap"] = requests["bootstrap"]
  /\ requests'["state"] = requests["state"] \/ requests'["state"].stage \in {"idle", "sent"}

\* A snapshot lands.
SnapLands(g) ==
  /\ Answered(g) /\ requests'[g] = Idle /\ \A h \in Gets : h # g => requests'[h] = requests[h]
  /\ UNCHANGED <<wabas, frames, echo, imports>>
  /\ store'.server = Loaded(requests[g].data["server"]) /\ (behind'["server"] <=> requests[g].old)

\* A request fails, and it is not the bootstrap.
LEMMA LoseWorld ==
  ASSUME TypeOK, NEW g \in Gets, Lose(g)
  PROVE  WorldStill
<1>1. /\ requests' = [requests EXCEPT ![g] = Idle] /\ RequestTypes /\ g # "bootstrap"
      /\ behind' = [c \in Collections |-> behind[c] \/ (g \in {"reload", "templates"} /\ c \in About(g))]
      /\ behind \in [Collections -> BOOLEAN]
      /\ UNCHANGED <<wabas, frames, store, echo, imports>>
  BY DEF Lose, serverVars, TypeOK, TabTypes
<1>2. \A h \in Gets : requests'[h] = IF h = g THEN Idle ELSE requests[h]
  BY <1>1 DEF RequestTypes
<1>3. behind'["server"] <=> behind["server"]
  BY <1>1, AboutIs DEF Collections
<1>4. QED
  BY <1>1, <1>2, <1>3, GetNames, IdleOrSent DEF WorldStill

\* The socket opens.
LEMMA ConnectWorld ==
  ASSUME TypeOK, Connect
  PROVE  WorldStill
<1>1. /\ requests' = IF gate.connectedBefore THEN [requests EXCEPT !["state"] = Sent(0)] ELSE requests
      /\ UNCHANGED <<wabas, frames, store, echo, behind, imports>>
  BY DEF Connect, serverVars
<1>2. /\ requests'["bootstrap"] = requests["bootstrap"]
      /\ requests'["state"] = requests["state"] \/ requests'["state"] = Sent(0)
  BY <1>1, GetNames DEF TypeOK, RequestTypes
<1>3. QED
  BY <1>1, <1>2, IdleOrSent DEF WorldStill

\* What an answer about something else leaves alone.
LEMMA OthersLandWorld ==
  ASSUME TypeOK, NEW g \in Gets \ Snaps, Lands(g), NEW st, Dispatch(st), st.server = store.server,
         behind'["server"] <=> behind["server"]
  PROVE  WorldStill
<1>1. /\ requests' = [requests EXCEPT ![g] = Idle] /\ UNCHANGED <<wabas, frames, echo, imports>>
      /\ store' = st
  BY DEF Lands, Dispatch, serverVars
<1>2. requests'["bootstrap"] = requests["bootstrap"] /\ requests'["state"] = requests["state"]
  BY <1>1 DEF TypeOK, RequestTypes, Snaps
<1>3. QED
  BY <1>1, <1>2 DEF WorldStill

\* What a snapshot's landing does.
LEMMA SnapLandsWorld ==
  ASSUME TypeOK, NEW g \in Snaps, Answered(g), Lands(g), Caught(g), NEW st, Dispatch(st),
         st.server = Loaded(requests[g].data["server"])
  PROVE  SnapLands(g)
<1>1. /\ requests' = [requests EXCEPT ![g] = Idle] /\ UNCHANGED <<wabas, frames, echo, imports>>
      /\ store' = st
  BY DEF Lands, Dispatch, serverVars
<1>2. g \in Gets /\ "server" \in About(g) /\ "server" \in Collections
  BY SnapsAre DEF Collections
<1>3. requests'[g] = Idle /\ \A h \in Gets : h # g => requests'[h] = requests[h]
  BY <1>1, <1>2 DEF TypeOK, RequestTypes
<1>4. behind'["server"] <=> requests[g].old
  BY <1>2 DEF Caught
<1>5. QED
  BY <1>1, <1>3, <1>4 DEF SnapLands

\* The answers land.
LEMMA LandWorldSteps ==
  ASSUME TypeOK, AnswerLands
  PROVE  WorldStill \/ \E g \in Snaps : SnapLands(g)
<1>1. IsStore(store) /\ "bootstrap" \in Snaps /\ "state" \in Snaps
  BY DEF TypeOK, Snaps
<1>2. ASSUME NEW g \in Gets \ Snaps, Caught(g) PROVE behind'["server"] <=> behind["server"]
  BY <1>2, AboutIs DEF Caught, Gets, Snaps, Collections
<1>3. CASE BootstrapLoaded
  <2> DEFINE g == "bootstrap"
             st1 == [store EXCEPT !.rules = Data(g, "rules")]
             snap == requests[g].data["server"]
             st == WithServer(st1, snap)
  <2>1. Lands(g) /\ Caught(g) /\ Dispatch(st) /\ Answered(g)
    BY <1>3 DEF BootstrapLoaded
  <2>2. st.server = Loaded(snap)
    BY <1>1 DEF IsStore, WithServer
  <2> HIDE DEF st, st1
  <2>3. SnapLands(g)
    BY <1>1, <2>1, <2>2, SnapLandsWorld
  <2>4. QED
    BY <1>1, <2>3
<1>4. CASE StateLoaded
  <2> DEFINE g == "state"
             snap == requests[g].data["server"]
             st == WithServer(store, snap)
  <2>1. Lands(g) /\ Caught(g) /\ Dispatch(st) /\ Answered(g)
    BY <1>4 DEF StateLoaded
  <2>2. st.server = Loaded(snap)
    BY <1>1 DEF IsStore, WithServer
  <2> HIDE DEF st
  <2>3. SnapLands(g)
    BY <1>1, <2>1, <2>2, SnapLandsWorld
  <2>4. QED
    BY <1>1, <2>3
<1>5. CASE WipeReloaded
  <2> DEFINE g == "reload"
             st == [store EXCEPT !.rules = Data(g, "rules"), !.tokens = Data(g, "tokens")]
  <2>1. g \in Gets \ Snaps /\ Lands(g) /\ Caught(g) /\ Dispatch(st)
    BY <1>5, GetNames DEF WipeReloaded, Snaps
  <2>2. st.server = store.server
    BY <1>1 DEF IsStore
  <2> HIDE DEF st, g
  <2>3. WorldStill
    BY <1>2, <2>1, <2>2, OthersLandWorld
  <2>4. QED
    BY <2>3
<1>6. CASE TokensLoaded
  <2> DEFINE g == "tokens"
             st == [store EXCEPT !.tokens = Data(g, "tokens")]
  <2>1. g \in Gets \ Snaps /\ Lands(g) /\ Caught(g) /\ Dispatch(st)
    BY <1>6, GetNames DEF TokensLoaded, Snaps
  <2>2. st.server = store.server
    BY <1>1 DEF IsStore
  <2> HIDE DEF st, g
  <2>3. WorldStill
    BY <1>2, <2>1, <2>2, OthersLandWorld
  <2>4. QED
    BY <2>3
<1>7. CASE TemplatesLoaded
  <2> DEFINE g == "templates"
             st == [store EXCEPT !.templates = Data(g, "templates")]
  <2>1. g \in Gets \ Snaps /\ Lands(g) /\ Caught(g) /\ Dispatch(st)
    BY <1>7, GetNames DEF TemplatesLoaded, Snaps
  <2>2. st.server = store.server
    BY <1>1 DEF IsStore
  <2> HIDE DEF st, g
  <2>3. WorldStill
    BY <1>2, <2>1, <2>2, OthersLandWorld
  <2>4. QED
    BY <2>3
<1>8. ASSUME NEW g \in {"latest", "older"}, Lands(g), NEW shown, NEW before, NEW late,
             Dispatch([store EXCEPT !.log = shown, !.before = before]),
             behind' = [behind EXCEPT !["log"] = late]
      PROVE  WorldStill
  <2> DEFINE st == [store EXCEPT !.log = shown, !.before = before]
  <2>1. g \in Gets \ Snaps /\ Dispatch(st)
    BY <1>8, GetNames DEF Snaps
  <2>2. st.server = store.server
    BY <1>1 DEF IsStore
  <2>3. behind'["server"] <=> behind["server"]
    BY <1>8 DEF TypeOK, TabTypes, Collections
  <2> HIDE DEF st
  <2>4. QED
    BY <1>8, <2>1, <2>2, <2>3, OthersLandWorld
<1>9. CASE LatestLoaded
  <2> DEFINE get == requests["latest"]
             page == get.data["log"]
             late == get.old \/ \E i \in DOMAIN frames : frames[i].type = "delivery" /\ frames[i].at <= get.at
  <2>1. /\ Lands("latest") /\ Dispatch([store EXCEPT !.log = Loaded(page), !.before = Before(page)])
        /\ behind' = [behind EXCEPT !["log"] = late]
    BY <1>9 DEF LatestLoaded
  <2> HIDE DEF page, late
  <2>2. QED
    BY <1>8, <2>1
<1>10. CASE OlderLoaded
  <2> DEFINE page == requests["older"].data["log"]
             known == IF store.log.loaded THEN store.log.data ELSE <<>>
             shown == Loaded(known \o Unknown(page, known))
             late == behind["log"] \/ requests["older"].old \/ ~store.log.loaded
                       \/ store.before # requests["older"].arg
  <2>1. /\ Lands("older") /\ Dispatch([store EXCEPT !.log = shown, !.before = Before(page)])
        /\ behind' = [behind EXCEPT !["log"] = late]
    BY <1>10 DEF OlderLoaded
  <2> HIDE DEF page, shown, late
  <2>2. QED
    BY <1>8, <2>1
<1>11. QED
  BY <1>3, <1>4, <1>5, <1>6, <1>7, <1>9, <1>10 DEF AnswerLands

\* A page that is left gives up no GET of the snapshot.
LEMMA GoWorld ==
  ASSUME TypeOK, NEW p, Go(p)
  PROVE  WorldStill
<1>1. /\ requests' = requests \/ requests' = [requests EXCEPT !["latest"] = Idle, !["tokens"] = Idle,
                                                              !["templates"] = Idle]
      /\ UNCHANGED <<wabas, frames, store, echo, behind, imports>>
  BY DEF Go, serverVars
<1>2. requests'["bootstrap"] = requests["bootstrap"] /\ requests'["state"] = requests["state"]
  BY <1>1 DEF TypeOK, RequestTypes, Gets
<1>3. QED
  BY <1>1, <1>2 DEF WorldStill

\* A visit at most sends one.
LEMMA VisitWorld ==
  ASSUME TypeOK, Visits
  PROVE  WorldStill
<1>1. ASSUME LoadOlder PROVE WorldStill
  <2>1. /\ requests' = [requests EXCEPT !["older"] = Sent(store.before)]
        /\ UNCHANGED <<wabas, frames, store, echo, behind, imports>>
    BY <1>1 DEF LoadOlder, serverVars
  <2>2. requests'["bootstrap"] = requests["bootstrap"] /\ requests'["state"] = requests["state"]
    BY <2>1 DEF TypeOK, RequestTypes
  <2>3. QED
    BY <2>1, <2>2 DEF WorldStill
<1>2. ASSUME Verify PROVE WorldStill
  <2>1. /\ requests' = [requests EXCEPT !["state"] = Sent(0)]
        /\ UNCHANGED <<wabas, frames, store, echo, behind, imports>>
    BY <1>2 DEF Verify, serverVars
  <2>2. requests'["bootstrap"] = requests["bootstrap"] /\ requests'["state"] = Sent(0)
    BY <2>1, GetNames DEF TypeOK, RequestTypes
  <2>3. QED
    BY <2>1, <2>2, IdleOrSent DEF WorldStill
<1>3. (\E p : Go(p)) \/ LoadOlder \/ Verify
  BY DEF Visits, OpenTab, GoHome, PickWaba, PickNumber
<1>4. QED
  BY <1>1, <1>2, <1>3, GoWorld

\* A render leaves the snapshot alone.
LEMMA RenderWorld ==
  ASSUME TypeOK, Renders
  PROVE  WorldStill
<1>1. ASSUME NEW g \in Gets \ Snaps, NEW a, requests' = [requests EXCEPT ![g] = a]
      PROVE  requests'["bootstrap"] = requests["bootstrap"] /\ requests'["state"] = requests["state"]
  BY <1>1 DEF TypeOK, RequestTypes, Snaps
<1>2. {"latest", "tokens", "templates"} \subseteq Gets \ Snaps
  BY DEF Gets, Snaps
<1>3. ASSUME RenderGlobal \/ Redirect \/ Repair \/ RenderView PROVE WorldStill
  <2>1. /\ requests' = requests
             \/ \E g \in {"latest", "tokens", "templates"} : \E a : requests' = [requests EXCEPT ![g] = a]
        /\ UNCHANGED <<wabas, frames, store, echo, behind, imports>>
    BY <1>3 DEF RenderGlobal, Redirect, Repair, RenderView, serverVars
  <2>2. requests'["bootstrap"] = requests["bootstrap"] /\ requests'["state"] = requests["state"]
    BY <1>1, <1>2, <2>1
  <2>3. QED
    BY <2>1, <2>2 DEF WorldStill
<1>4. ASSUME Announce PROVE WorldStill
  <2>1. store' = [store EXCEPT !.scope = gate.effect]
        /\ UNCHANGED <<wabas, frames, echo, behind, requests, imports>>
    BY <1>4 DEF Announce, serverVars
  <2>2. store'.server = store.server
    BY <2>1 DEF TypeOK, IsStore
  <2>3. QED
    BY <2>1, <2>2 DEF WorldStill
<1>5. QED
  BY <1>3, <1>4 DEF Renders

-----------------------------------------------------------------------------
(* The requests and the socket *)

\* What hangs on the accounts, the frames and the awaited answer alone.
LEMMA WireWorldStays ==
  ASSUME WorldInv, UNCHANGED <<wabas, frames, echo>>, imports'.at = imports.at
  PROVE  /\ FacetsTold' /\ EchoRight' /\ Presumed' /\ EchoPresumed' /\ Afresh' /\ EchoAfresh' /\ HeardOrder'
         /\ Apart(wabas') /\ (\A i \in DOMAIN frames' : Wipes(frames'[i]) => Apart(frames'[i].body))
         /\ echo'.pending /\ Wipes(echo'.frame) => Apart(echo'.frame.body)
<1>1. FacetsTold' /\ Presumed' /\ Afresh'
  BY DEF WorldInv, FacetsTold, Presumed, Afresh, Afoot
<1>2. EchoRight' /\ EchoPresumed' /\ EchoAfresh' /\ HeardOrder'
  BY DEF WorldInv, EchoRight, EchoPresumed, EchoAfresh, HeardOrder, EchoOpen, Afoot
<1>3. QED
  BY <1>1, <1>2 DEF WorldInv, AllApart

\* Steps that leave the snapshot alone keep it.
LEMMA StillWorld ==
  ASSUME TypeOK, WorldInv, WorldStill
  PROVE  WorldInv'
<1>1. /\ UNCHANGED <<wabas, frames, echo>> /\ imports'.at = imports.at
      /\ store'.server = store.server /\ (behind'["server"] <=> behind["server"])
      /\ requests'["bootstrap"] = requests["bootstrap"]
  BY DEF WorldStill
<1>2. \A g \in Snaps : requests'[g].stage = "answered" => requests'[g] = requests[g]
  BY DEF WorldStill, Snaps
<1>3. AnswersRight'
  BY <1>1, <1>2 DEF WorldInv, AnswersRight, Afoot
<1>4. StoreRight'
  BY <1>1 DEF WorldInv, StoreRight, Afoot
<1>5. AllApart'
  BY <1>1, <1>2, WireWorldStays DEF WorldInv, AllApart
<1>6. BootComing'
  BY <1>1 DEF WorldInv, BootComing
<1>7. QED
  BY <1>1, <1>3, <1>4, <1>5, <1>6, WireWorldStays DEF WorldInv

\* A GET of the snapshot that is answered brings the accounts.
LEMMA AnswerWorld ==
  ASSUME TypeOK, WorldInv, NEW g \in Gets, Answer(g)
  PROVE  WorldInv'
<1>1. /\ requests[g].stage = "sent" /\ requests'[g].stage = "answered"
      /\ \A c \in About(g) : requests'[g].data[c] = Read(c, requests[g].arg)
      /\ \A h \in Gets : h # g => requests'[h] = requests[h]
      /\ UNCHANGED <<wabas, frames, store, echo, behind, imports>>
  BY AnswerFacts DEF serverVars
<1>2. g \in Snaps => requests'[g].data["server"] = wabas
  BY <1>1, SnapsAre DEF Read
<1>3. \A h \in Snaps : h # g => requests'[h] = requests[h]
  BY <1>1, SnapsAre
<1>4. AnswersRight'
  <2>1. SUFFICES ASSUME NEW k \in Facets, NEW a \in Accounts, NEW n \in Slots, NEW h \in Snaps,
                        requests'[h].stage = "answered", ~requests'[h].old,
                        ~Afoot(frames, k, a, n, requests[h].at)'
                 PROVE  Facet(requests'[h].data["server"], k, a, n) = Facet(wabas, k, a, n)
    BY <1>1 DEF AnswersRight
  <2>2. CASE h = g
    BY <1>2, <2>2
  <2>3. CASE h # g
    <3>1. requests'[h] = requests[h] /\ ~Afoot(frames, k, a, n, requests[h].at)
      BY <1>1, <1>3, <2>1, <2>3 DEF Afoot
    <3>2. QED
      BY <2>1, <3>1 DEF WorldInv, AnswersRight
  <2>4. QED
    BY <2>2, <2>3
<1>5. StoreRight'
  BY <1>1 DEF WorldInv, StoreRight, Afoot
<1>6. AllApart'
  BY <1>1, <1>2, <1>3, WireWorldStays DEF WorldInv, AllApart
<1>7. BootComing'
  <2>1. requests'["bootstrap"].stage = "idle" => requests["bootstrap"].stage = "idle"
    BY <1>1, <1>3 DEF Snaps
  <2>2. QED
    BY <1>1, <2>1 DEF WorldInv, BootComing
<1>8. QED
  BY <1>1, <1>4, <1>5, <1>6, <1>7, WireWorldStays DEF WorldInv

\* A snapshot that lands brings what it is right about.
LEMMA LandWorld ==
  ASSUME TypeOK, WorldInv, NEW g \in Snaps, SnapLands(g)
  PROVE  WorldInv'
<1>1. /\ requests[g].stage = "answered" /\ requests'[g] = Idle /\ Idle.stage = "idle"
      /\ \A h \in Snaps : h # g => requests'[h] = requests[h]
      /\ UNCHANGED <<wabas, frames, echo, imports>>
      /\ store'.server.loaded /\ store'.server.data = requests[g].data["server"]
      /\ behind'["server"] <=> requests[g].old
  BY SnapsAre DEF SnapLands, Answered, Idle, Loaded
<1>2. requests[g].at \in Nat /\ 0 <= requests[g].at
  BY <1>1, AnswerIs, SnapsAre DEF Answered
<1>3. AnswersRight'
  <2>1. SUFFICES ASSUME NEW k \in Facets, NEW a \in Accounts, NEW n \in Slots, NEW h \in Snaps,
                        requests'[h].stage = "answered", ~requests'[h].old,
                        ~Afoot(frames, k, a, n, requests[h].at)'
                 PROVE  Facet(requests'[h].data["server"], k, a, n) = Facet(wabas, k, a, n)
    BY <1>1 DEF AnswersRight
  <2>2. requests'[h] = requests[h] /\ ~Afoot(frames, k, a, n, requests[h].at)
    BY <1>1, <2>1 DEF Afoot
  <2>3. QED
    BY <2>1, <2>2 DEF WorldInv, AnswersRight
<1>4. StoreRight'
  <2>1. SUFFICES ASSUME NEW k \in Facets, NEW a \in Accounts, NEW n \in Slots, ~requests[g].old,
                        ~Afoot(frames, k, a, n, 0)
                 PROVE  Facet(requests[g].data["server"], k, a, n) = Facet(wabas, k, a, n)
    BY <1>1 DEF StoreRight, Afoot
  <2>2. PICK t \in Nat : t = requests[g].at /\ 0 <= t
    BY <1>2
  <2>3. ~Afoot(frames, k, a, n, t)
    BY <2>1, <2>2, AfootLater, FramesTyped
  <2>4. QED
    BY <1>1, <2>1, <2>2, <2>3 DEF WorldInv, AnswersRight
<1>5. AllApart'
  BY <1>1, WireWorldStays DEF WorldInv, AllApart
<1>6. BootComing'
  BY <1>1 DEF BootComing
<1>7. QED
  BY <1>1, <1>3, <1>4, <1>5, <1>6, WireWorldStays DEF WorldInv

\* A dropped socket leaves behind what its frames were about.
LEMMA DropWorld ==
  ASSUME TypeOK, WireOrder, WorldInv, Drop
  PROVE  WorldInv'
<1>1. /\ frames' = <<>> /\ UNCHANGED <<wabas, store>>
      /\ \A g \in Gets :
           /\ Older(requests[g], requests'[g])
           /\ \A i \in DOMAIN frames : PassesBy(frames[i], g) => requests'[g].old = TRUE
      /\ \A c \in Collections :
           behind'[c] <=> behind[c] \/ \E i \in DOMAIN frames : c \in Concerned(frames[i])
      /\ frames = <<>> => echo' = echo
      /\ echo'.pending = echo.pending
      /\ frames # <<>> /\ echo.pending =>
           /\ echo'.frame = echo.frame
           /\ echo'.old = IF Last(frames).at > echo.frame.at THEN Collections ELSE echo.old
  BY DropFacts DEF serverVars
<1>2. /\ frames \in Seq(Frames) /\ DOMAIN frames = 1 .. Len(frames) /\ Len(frames) \in Nat
      /\ \A i \in DOMAIN frames : frames[i].at \in Nat
      /\ "server" \in Collections
  BY FramesTyped, ConcernsServer
<1>3. ASSUME frames # <<>>
      PROVE  /\ Last(frames).at \in Nat
             /\ \A i \in DOMAIN frames : frames[i].at <= Last(frames).at
  <2>1. Len(frames) \in DOMAIN frames /\ Last(frames) = frames[Len(frames)]
    BY <1>2, <1>3, LastOf
  <2>2. QED
    BY <1>2, <2>1 DEF WireOrder
<1>4. ASSUME echo'.pending PROVE echo.pending /\ echo'.frame = echo.frame
  <2>1. CASE frames = <<>>
    BY <1>1, <1>4, <2>1
  <2>2. CASE frames # <<>>
    BY <1>1, <1>4, <2>2
  <2>3. QED
    BY <2>1, <2>2
\* No frame that the open echo did not answer has been lost.
<1>5. ASSUME EchoOpen'
      PROVE  /\ EchoOpen /\ echo'.frame = echo.frame /\ echo.frame.at \in Nat
             /\ \A i \in DOMAIN frames : ~(frames[i].at > echo.frame.at)
  <2>1. echo.pending /\ echo'.frame = echo.frame /\ echo.frame.at \in Nat
    BY <1>4, <1>5, EchoAt DEF EchoOpen
  <2>2. CASE frames = <<>>
    BY <1>1, <1>5, <2>1, <2>2 DEF EchoOpen
  <2>3. CASE frames # <<>>
    <3>1. ~(Last(frames).at > echo.frame.at) /\ "server" \notin echo.old
      BY <1>1, <1>2, <1>5, <2>1, <2>3 DEF EchoOpen
    <3>2. QED
      BY <1>2, <1>3, <2>1, <2>3, <3>1 DEF EchoOpen
  <2>4. QED
    BY <2>2, <2>3
<1> DOMAIN frames' = {}
  BY <1>1
<1>6. FacetsTold' /\ Presumed' /\ Afresh' /\ EchoAfresh' /\ HeardOrder'
  BY <1>1 DEF FacetsTold, Presumed, Afresh, EchoAfresh, HeardOrder
<1>7. AnswersRight'
  <2>1. SUFFICES ASSUME NEW k \in Facets, NEW a \in Accounts, NEW n \in Slots, NEW g \in Snaps,
                        requests'[g].stage = "answered", ~requests'[g].old
                 PROVE  Facet(requests'[g].data["server"], k, a, n) = Facet(wabas, k, a, n)
    BY <1>1 DEF AnswersRight
  <2>2. g \in Gets /\ "server" \in About(g)
    BY SnapsAre
  <2>3. requests'[g] = requests[g] /\ requests[g].stage = "answered" /\ ~requests[g].old
        /\ requests[g].at \in Nat
    BY <1>1, <2>1, <2>2, OlderAnswer
  <2>4. ~Afoot(frames, k, a, n, requests[g].at)
    <3>1. SUFFICES ASSUME NEW i \in DOMAIN frames, Changes(frames[i], k, a, n), frames[i].at > requests[g].at
                   PROVE  FALSE
      BY DEF Afoot
    <3>2. "server" \in Concerned(frames[i])
      BY <3>1, ConcernsServer
    <3>3. requests[g].at < frames[i].at /\ g # "older"
      BY <1>2, <2>3, <3>1 DEF Snaps
    <3>4. PassesBy(frames[i], g)
      BY <2>2, <2>3, <3>2, <3>3 DEF PassesBy
    <3>5. QED
      BY <1>1, <2>1, <2>2, <3>4
  <2>5. QED
    BY <2>3, <2>4 DEF WorldInv, AnswersRight
<1>8. EchoRight'
  <2>1. SUFFICES ASSUME NEW k \in Facets, NEW a \in Accounts, NEW n \in Slots, EchoOpen',
                        Changes(echo'.frame, k, a, n)
                 PROVE  Becomes(echo'.frame, k, a, n) = Facet(wabas, k, a, n)
    BY <1>1 DEF EchoRight
  <2>2. EchoOpen /\ echo'.frame = echo.frame /\ ~Afoot(frames, k, a, n, echo.frame.at)
    BY <1>5, <2>1 DEF Afoot
  <2>3. QED
    BY <2>1, <2>2 DEF WorldInv, EchoRight
<1>9. EchoPresumed'
  <2>1. SUFFICES ASSUME NEW a \in Accounts, EchoOpen', Presumes(echo'.frame, a)
                 PROVE  Known(wabas, a)
    BY <1>1 DEF EchoPresumed
  <2>2. QED
    BY <1>5, <2>1 DEF WorldInv, EchoPresumed
<1>10. StoreRight'
  <2>1. SUFFICES ASSUME NEW k \in Facets, NEW a \in Accounts, NEW n \in Slots, store.server.loaded,
                        ~behind'["server"]
                 PROVE  Facet(store.server.data, k, a, n) = Facet(wabas, k, a, n)
    BY <1>1 DEF StoreRight
  <2>2. ~behind["server"] /\ \A i \in DOMAIN frames : "server" \notin Concerned(frames[i])
    BY <1>1, <1>2, <2>1
  <2>3. ~Afoot(frames, k, a, n, 0)
    BY <2>2, ConcernsServer DEF Afoot
  <2>4. QED
    BY <2>1, <2>2, <2>3 DEF WorldInv, StoreRight
<1>11. \A g \in Snaps : /\ requests'[g].stage = requests[g].stage
                        /\ requests'[g].stage = "answered" => requests'[g].data = requests[g].data
  BY <1>1, SnapsAre, OlderStages, OlderAnswers
<1>12. AllApart'
  BY <1>1, <1>4, <1>11 DEF WorldInv, AllApart
<1>13. BootComing'
  BY <1>1, <1>11 DEF WorldInv, BootComing, Snaps
<1>14. QED
  BY <1>6, <1>7, <1>8, <1>9, <1>10, <1>12, <1>13 DEF WorldInv

-----------------------------------------------------------------------------
(* Frames arrive *)

\* The store's snapshot after a frame.
LEMMA ApplyWorld ==
  ASSUME TypeOK, AllApart, NEW f \in Frames, Wipes(f) => Apart(f.body), store' = Apply(store, f)
  PROVE  /\ store.server.loaded => store'.server.loaded
         /\ store'.server.loaded =>
              /\ store.server.loaded \/ Wipes(f)
              /\ Apart(store'.server.data)
              /\ \A k \in Facets : \A a, n :
                   IF Wipes(f)
                   THEN Changes(f, k, a, n) /\ Facet(store'.server.data, k, a, n) = Becomes(f, k, a, n)
                   ELSE Follows(store.server.data, store'.server.data, f, k, a, n)
<1> DEFINE t == After(store.server.data, f)
<1>1. store'.server = IF store.server.loaded \/ Wipes(f) THEN Loaded(t) ELSE store.server
  BY ApplyServer DEF TypeOK
<1>2. \A d : Loaded(d).loaded /\ Loaded(d).data = d
  BY DEF Loaded
<1>3. Wipes(f) => t = f.body
  BY DEF After, Wipes
<1>4. ASSUME store.server.loaded, NEW k \in Facets, NEW a, NEW n
      PROVE  Apart(t) /\ Follows(store.server.data, t, f, k, a, n)
  <2>1. PICK s \in Worlds : s = store.server.data
    BY <1>4, StoreFields, LoadsFacts DEF TypeOK
  <2>2. Apart(s)
    BY <1>4, <2>1 DEF AllApart
  <2>3. Apart(After(s, f)) /\ Follows(s, After(s, f), f, k, a, n)
    BY <2>2, AfterFacets
  <2>4. QED
    BY <2>1, <2>3
<1>5. ASSUME store.server.loaded \/ Wipes(f) PROVE Apart(t)
  <2>1. CASE Wipes(f)
    BY <1>3, <2>1
  <2>2. CASE store.server.loaded
    BY <1>4, <2>2 DEF Facets
  <2>3. QED
    BY <1>5, <2>1, <2>2
<1>6. ASSUME Wipes(f), NEW k \in Facets, NEW a, NEW n
      PROVE  Changes(f, k, a, n) /\ Facet(t, k, a, n) = Becomes(f, k, a, n)
  <2>1. Ends(f, a)
    BY <1>6 DEF Ends
  <2>2. Changes(f, k, a, n)
    BY <2>1 DEF Changes
  <2>3. Becomes(f, k, a, n) = Facet(f.body, k, a, n)
    BY <1>6 DEF Becomes, Wipes
  <2>4. QED
    BY <1>3, <1>6, <2>2, <2>3
<1> HIDE DEF t
<1>7. QED
  BY <1>1, <1>2, <1>4, <1>5, <1>6

\* A frame that arrives brings what was coming.
LEMMA ReceiveWorld ==
  ASSUME TypeOK, RulesDistinct(store), WireOrder, WorldInv, Receive
  PROVE  WorldInv'
<1> DEFINE f == Head(frames)
<1>1. /\ frames # <<>> /\ f \in Frames /\ store' = Apply(store, f)
      /\ frames' = Tail(frames) /\ echo' = EchoPassedBy(f) /\ UNCHANGED <<wabas, imports>>
      /\ \A g \in Snaps :
           /\ Older(requests[g], requests'[g])
           /\ requests[g].stage = "answered" /\ "server" \in Concerned(f)
                /\ requests[g].at < f.at => requests'[g].old = TRUE
      /\ "server" \in Concerned(f) /\ f.at <= imports.at => behind'["server"]
      /\ ~Wipes(f) /\ behind["server"] => behind'["server"]
  <2>1. /\ frames # <<>> /\ f \in Frames /\ Dispatch(Apply(store, f))
        /\ frames' = Tail(frames) /\ echo' = EchoPassedBy(f) /\ UNCHANGED <<wabas, imports>>
        /\ \A g \in Gets :
             IF Wipes(f) /\ g = "reload" THEN requests'[g] = Sent(0)
             ELSE /\ Older(requests[g], requests'[g])
                  /\ PassesBy(f, g) => requests'[g].old = TRUE
        /\ \A c \in Collections : behind'[c] <=> Behind(f, c)
    BY ReceiveFacts DEF serverVars
  <2>2. \A g \in Snaps : /\ g \in Gets /\ g # "reload"
                         /\ requests[g].stage = "answered" /\ "server" \in Concerned(f)
                              /\ requests[g].at < f.at => PassesBy(f, g)
    BY SnapsAre DEF Snaps, PassesBy
  <2>3. "server" \in Collections
    BY DEF Collections
  <2> HIDE DEF f
  <2>4. /\ "server" \in Concerned(f) /\ f.at <= imports.at => behind'["server"]
        /\ ~Wipes(f) /\ behind["server"] => behind'["server"]
    BY <2>1, <2>3 DEF Behind
  <2>5. QED
    BY <2>1, <2>2, <2>4 DEF Dispatch
<1>2. /\ frames \in Seq(Frames) /\ Len(frames) \in Nat \ {0} /\ DOMAIN frames = 1 .. Len(frames)
      /\ \A i \in DOMAIN frames : frames[i] \in Frames /\ frames[i].at \in Nat
      /\ frames[1] = f /\ 1 \in DOMAIN frames /\ f.at \in Nat /\ imports.at \in Nat
      /\ IsEcho(echo) /\ Concerned(f) \subseteq Collections
  <2>1. IsEcho(echo) /\ Concerned(f) \subseteq Collections
    BY <1>1, ConcernedIn DEF TypeOK, WireTypes
  <2>2. Len(frames) \in Nat \ {0} /\ frames[1] = f
    BY <1>1, FramesTyped
  <2>3. imports.at \in Nat
    BY DEF TypeOK, ServerTypes
  <2>4. QED
    BY <2>1, <2>2, <2>3, FramesTyped
<1>3. /\ \A i \in DOMAIN frames' : i + 1 \in DOMAIN frames /\ frames'[i] = frames[i + 1]
      /\ \A i \in DOMAIN frames : i # 1 => i - 1 \in DOMAIN frames' /\ frames'[i - 1] = frames[i]
      /\ \A i \in DOMAIN frames' : i \in Nat
      /\ frames' \in Seq(Frames)
  BY <1>1, <1>2
<1> HIDE DEF f
<1>4. \A i \in DOMAIN frames : f.at <= frames[i].at /\ frames[i].at > 0
  BY <1>2 DEF WireOrder
\* What is not coming any more was not coming before, unless it is the frame.
<1>5. ASSUME NEW k, NEW a, NEW n, NEW t \in Nat, ~Afoot(frames', k, a, n, t),
             Changes(f, k, a, n) => f.at <= t
      PROVE  ~Afoot(frames, k, a, n, t)
  <2>1. SUFFICES ASSUME NEW i \in DOMAIN frames, Changes(frames[i], k, a, n), frames[i].at > t
                 PROVE  FALSE
    BY DEF Afoot
  <2>2. i # 1
    BY <1>2, <1>5, <2>1
  <2>3. QED
    BY <1>3, <1>5, <2>1, <2>2 DEF Afoot
<1>6. /\ echo'.pending = echo.pending
      /\ echo.pending =>
           /\ echo'.frame = echo.frame /\ echo.frame.at \in Nat
           /\ echo'.old = IF f.at > echo.frame.at THEN echo.old \cup Concerned(f) ELSE echo.old
           /\ echo'.heard <=> echo.heard \/ f.at >= echo.frame.at
  BY <1>1, <1>2, EchoPassed, EchoAt
<1>7. ASSUME EchoOpen'
      PROVE  /\ EchoOpen /\ echo'.frame = echo.frame /\ echo.frame.at \in Nat
             /\ "server" \in Concerned(f) => f.at <= echo.frame.at
  <2>1. /\ echo.pending /\ echo'.frame = echo.frame /\ echo.frame.at \in Nat
        /\ "server" \notin (IF f.at > echo.frame.at THEN echo.old \cup Concerned(f) ELSE echo.old)
    BY <1>6, <1>7 DEF EchoOpen
  <2>2. QED
    BY <1>2, <2>1 DEF EchoOpen
<1>8. FacetsTold'
  <2>1. SUFFICES ASSUME NEW k \in Facets, NEW a \in Accounts, NEW n \in Slots, NEW i \in DOMAIN frames',
                        frames'[i].at > imports.at, Changes(frames'[i], k, a, n),
                        ~Afoot(frames', k, a, n, frames'[i].at)
                 PROVE  Becomes(frames'[i], k, a, n) = Facet(wabas, k, a, n)
    BY <1>1 DEF FacetsTold
  <2>2. PICK j \in DOMAIN frames : frames[j] = frames'[i]
    BY <1>3
  <2>3. PICK t \in Nat : t = frames[j].at /\ f.at <= t
    BY <1>2, <1>4
  <2>4. ~Afoot(frames, k, a, n, t)
    BY <1>5, <2>1, <2>2, <2>3
  <2>5. QED
    BY <2>1, <2>2, <2>3, <2>4 DEF WorldInv, FacetsTold
<1>9. Presumed'
  <2>1. SUFFICES ASSUME NEW a \in Accounts, NEW i \in DOMAIN frames',
                        frames'[i].at > imports.at, Presumes(frames'[i], a)
                 PROVE  Known(wabas, a) \/ \E j \in DOMAIN frames' : i < j /\ Ends(frames'[j], a)
    BY <1>1 DEF Presumed
  <2>2. i + 1 \in DOMAIN frames /\ frames'[i] = frames[i + 1] /\ i \in Nat
    BY <1>3
  <2>3. SUFFICES ASSUME NEW j \in DOMAIN frames, i + 1 < j, Ends(frames[j], a)
                 PROVE  \E m \in DOMAIN frames' : i < m /\ Ends(frames'[m], a)
    BY <2>1, <2>2 DEF WorldInv, Presumed
  <2>4. j - 1 \in DOMAIN frames' /\ frames'[j - 1] = frames[j] /\ i < j - 1
    BY <1>2, <1>3, <2>2, <2>3
  <2>5. QED
    BY <2>3, <2>4
<1>10. Afresh'
  <2>1. SUFFICES ASSUME NEW a \in Accounts, NEW i \in DOMAIN frames', NEW j \in DOMAIN frames', i < j,
                        frames'[i].at > imports.at, Presumes(frames'[i], a), Creates(frames'[j], a)
                 PROVE  \E m \in DOMAIN frames' : i < m /\ m < j /\ Ends(frames'[m], a)
    BY <1>1 DEF Afresh
  <2>2. /\ i + 1 \in DOMAIN frames /\ frames'[i] = frames[i + 1] /\ i \in Nat
        /\ j + 1 \in DOMAIN frames /\ frames'[j] = frames[j + 1] /\ j \in Nat /\ i + 1 < j + 1
    BY <1>3, <2>1
  <2>3. PICK m \in DOMAIN frames : i + 1 < m /\ m < j + 1 /\ Ends(frames[m], a)
    BY <2>1, <2>2 DEF WorldInv, Afresh
  <2>4. m - 1 \in DOMAIN frames' /\ frames'[m - 1] = frames[m] /\ i < m - 1 /\ m - 1 < j
    BY <1>2, <1>3, <2>2, <2>3
  <2>5. QED
    BY <2>3, <2>4
<1>11. AnswersRight'
  <2>1. SUFFICES ASSUME NEW k \in Facets, NEW a \in Accounts, NEW n \in Slots, NEW g \in Snaps,
                        requests'[g].stage = "answered", ~requests'[g].old,
                        ~Afoot(frames', k, a, n, requests'[g].at)
                 PROVE  Facet(requests'[g].data["server"], k, a, n) = Facet(wabas, k, a, n)
    BY <1>1 DEF AnswersRight
  <2>2. requests'[g] = requests[g] /\ requests[g].stage = "answered" /\ ~requests[g].old
        /\ requests[g].at \in Nat
    BY <1>1, <2>1, OlderAnswer, SnapsAre
  <2>3. PICK t \in Nat : t = requests[g].at
    BY <2>2
  <2>4. "server" \in Concerned(f) => f.at <= t
    BY <1>1, <1>2, <2>1, <2>2, <2>3
  <2>5. Changes(f, k, a, n) => f.at <= t
    BY <2>4, ConcernsServer
  <2>6. ~Afoot(frames, k, a, n, t)
    BY <1>5, <2>1, <2>2, <2>3, <2>5
  <2>7. QED
    BY <2>2, <2>3, <2>6 DEF WorldInv, AnswersRight
<1>12. EchoRight'
  <2>1. SUFFICES ASSUME NEW k \in Facets, NEW a \in Accounts, NEW n \in Slots, EchoOpen',
                        Changes(echo'.frame, k, a, n), ~Afoot(frames', k, a, n, echo'.frame.at)
                 PROVE  Becomes(echo'.frame, k, a, n) = Facet(wabas, k, a, n)
    BY <1>1 DEF EchoRight
  <2>2. /\ EchoOpen /\ echo'.frame = echo.frame /\ echo.frame.at \in Nat
        /\ "server" \in Concerned(f) => f.at <= echo.frame.at
    BY <1>7, <2>1
  <2>3. PICK t \in Nat : t = echo.frame.at
    BY <2>2
  <2>4. Changes(f, k, a, n) => f.at <= t
    BY <2>2, <2>3, ConcernsServer
  <2>5. ~Afoot(frames, k, a, n, t)
    BY <1>5, <2>1, <2>2, <2>3, <2>4
  <2>6. QED
    BY <2>1, <2>2, <2>3, <2>5 DEF WorldInv, EchoRight
\* The end of an account that the awaited answer waits for is not the frame.
<1>13. ASSUME EchoOpen', NEW a \in Accounts, NEW j \in DOMAIN frames, Ends(frames[j], a),
              frames[j].at > echo.frame.at
       PROVE  \E m \in DOMAIN frames' : Ends(frames'[m], a) /\ frames'[m].at > echo'.frame.at
  <2>1. /\ echo'.frame = echo.frame /\ echo.frame.at \in Nat
        /\ "server" \in Concerned(f) => f.at <= echo.frame.at
    BY <1>7, <1>13
  <2>2. j # 1
    <3>1. SUFFICES ASSUME j = 1 PROVE FALSE
      OBVIOUS
    <3>2. frames[j] = f
      BY <1>2, <3>1
    <3>3. "server" \in Concerned(f)
      BY <1>13, <3>2, ConcernsServer
    <3>4. QED
      BY <1>2, <1>13, <2>1, <3>2, <3>3
  <2>3. j - 1 \in DOMAIN frames' /\ frames'[j - 1] = frames[j]
    BY <1>3, <2>2
  <2>4. QED
    BY <1>13, <2>1, <2>3
<1>14. EchoPresumed'
  <2>1. SUFFICES ASSUME NEW a \in Accounts, EchoOpen', Presumes(echo'.frame, a)
                 PROVE  \/ Known(wabas, a)
                        \/ \E j \in DOMAIN frames' : Ends(frames'[j], a) /\ frames'[j].at > echo'.frame.at
    BY <1>1 DEF EchoPresumed
  <2>2. EchoOpen /\ echo'.frame = echo.frame
    BY <1>7, <2>1
  <2>3. QED
    BY <1>13, <2>1, <2>2 DEF WorldInv, EchoPresumed
<1>15. EchoAfresh'
  <2>1. SUFFICES ASSUME NEW a \in Accounts, NEW j \in DOMAIN frames', EchoOpen', OfNumber(echo'.frame, a),
                        Creates(frames'[j], a), frames'[j].at >= echo'.frame.at
                 PROVE  \E m \in DOMAIN frames' : Ends(frames'[m], a) /\ frames'[m].at > echo'.frame.at
    BY DEF EchoAfresh
  <2>2. EchoOpen /\ echo'.frame = echo.frame
    BY <1>7, <2>1
  <2>3. PICK i \in DOMAIN frames : frames[i] = frames'[j]
    BY <1>3
  <2>4. PICK m \in DOMAIN frames : Ends(frames[m], a) /\ frames[m].at > echo.frame.at
    BY <2>1, <2>2, <2>3 DEF WorldInv, EchoAfresh
  <2>5. QED
    BY <1>13, <2>1, <2>4
<1>16. HeardOrder'
  <2>1. SUFFICES ASSUME EchoOpen', echo'.heard, NEW j \in DOMAIN frames'
                 PROVE  frames'[j].at >= echo'.frame.at
    BY DEF HeardOrder
  <2>2. /\ EchoOpen /\ echo'.frame = echo.frame /\ echo.frame.at \in Nat
        /\ echo.heard \/ f.at >= echo.frame.at
    BY <1>6, <1>7, <2>1 DEF EchoOpen
  <2>3. PICK i \in DOMAIN frames : frames[i] = frames'[j]
    BY <1>3
  <2>4. CASE echo.heard
    BY <2>2, <2>3, <2>4 DEF WorldInv, HeardOrder
  <2>5. CASE f.at >= echo.frame.at
    BY <1>2, <1>4, <2>2, <2>3, <2>5
  <2>6. QED
    BY <2>2, <2>4, <2>5
<1>17. AllApart /\ (Wipes(f) => Apart(f.body))
  BY <1>2 DEF WorldInv, AllApart
<1>18. /\ store.server.loaded => store'.server.loaded
       /\ store'.server.loaded =>
            /\ store.server.loaded \/ Wipes(f)
            /\ Apart(store'.server.data)
            /\ \A k \in Facets : \A a, n :
                 IF Wipes(f)
                 THEN Changes(f, k, a, n) /\ Facet(store'.server.data, k, a, n) = Becomes(f, k, a, n)
                 ELSE Follows(store.server.data, store'.server.data, f, k, a, n)
  BY <1>1, <1>17, ApplyWorld
<1>19. \A g \in Snaps : /\ requests'[g].stage = requests[g].stage
                        /\ requests'[g].stage = "answered" => requests'[g].data = requests[g].data
  BY <1>1, OlderStages, OlderAnswers
<1>20. AllApart'
  <2>1. \A i \in DOMAIN frames' : Wipes(frames'[i]) => Apart(frames'[i].body)
    BY <1>3, <1>17 DEF AllApart
  <2>2. echo'.pending /\ Wipes(echo'.frame) => Apart(echo'.frame.body)
    BY <1>6, <1>17 DEF AllApart
  <2>3. QED
    BY <1>1, <1>17, <1>18, <1>19, <2>1, <2>2 DEF AllApart
<1>21. BootComing'
  BY <1>18, <1>19 DEF WorldInv, BootComing, Snaps
<1>22. StoreRight'
  <2>1. SUFFICES ASSUME NEW k \in Facets, NEW a \in Accounts, NEW n \in Slots,
                        store'.server.loaded, ~behind'["server"], ~Afoot(frames', k, a, n, 0)
                 PROVE  Facet(store'.server.data, k, a, n) = Facet(wabas, k, a, n)
    BY <1>1 DEF StoreRight
  \* No import was swapped in after the frame.
  <2>6. "server" \in Concerned(f) => frames[1].at > imports.at
    BY <1>1, <1>2, <2>1
  <2>2. ASSUME Changes(f, k, a, n) PROVE Becomes(f, k, a, n) = Facet(wabas, k, a, n)
    <3>1. PICK t \in Nat : t = f.at /\ 0 <= t
      BY <1>2
    <3>2. ~Afoot(frames', k, a, n, t)
      BY <1>3, <2>1, <3>1, AfootLater
    <3>3. ~Afoot(frames, k, a, n, t)
      BY <1>5, <3>1, <3>2
    <3>4. frames[1].at > imports.at
      BY <2>2, <2>6, ConcernsServer
    <3>5. QED
      BY <1>2, <2>2, <3>1, <3>3, <3>4 DEF WorldInv, FacetsTold
  <2>3. CASE Wipes(f)
    BY <1>18, <2>1, <2>2, <2>3
  <2>4. CASE ~Wipes(f)
    <3> DEFINE s == store.server.data
               t == store'.server.data
    <3>1. Follows(s, t, f, k, a, n) /\ store.server.loaded /\ ~behind["server"]
      BY <1>1, <1>18, <2>1, <2>4
    <3> HIDE DEF s, t
    <3>2. \A q \in Facets, m \in Slots : ~Afoot(frames, q, a, m, 0) => Facet(s, q, a, m) = Facet(wabas, q, a, m)
      BY <3>1 DEF WorldInv, StoreRight, s
    \* No end of the account is coming.
    <3>3. \A i \in DOMAIN frames : 1 < i => ~Ends(frames[i], a)
      <4>1. SUFFICES ASSUME NEW i \in DOMAIN frames, 1 < i, Ends(frames[i], a) PROVE FALSE
        OBVIOUS
      <4>2. i - 1 \in DOMAIN frames' /\ frames'[i - 1] = frames[i] /\ frames[i].at > 0
        BY <1>3, <1>4, <4>1
      <4>3. QED
        BY <2>1, <4>1, <4>2 DEF Afoot, Changes
    <3>4. CASE ~Changes(f, k, a, n) /\ Facet(t, k, a, n) = Facet(s, k, a, n)
      <4>1. ~Afoot(frames, k, a, n, 0)
        BY <1>5, <2>1, <3>4
      <4>2. QED
        BY <3>2, <3>4, <4>1 DEF t
    <3>5. CASE k = "there" /\ Presumes(f, a) /\ Facet(t, k, a, n) = {a}
      <4>0. frames[1].at > imports.at
        BY <2>6, <3>5, ConcernsServer
      <4>1. Known(wabas, a)
        BY <1>2, <3>3, <3>5, <4>0 DEF WorldInv, Presumed
      <4>2. QED
        BY <3>5, <4>1, ThereIs DEF t
    <3>6. CASE Changes(f, k, a, n) /\ Facet(t, k, a, n) = Becomes(f, k, a, n)
      BY <2>2, <3>6 DEF t
    <3>7. CASE k = "number" /\ OfNumber(f, a) /\ ~Known(s, a) /\ Facet(t, k, a, n) = {}
      <4>1. ASSUME Known(wabas, a) PROVE FALSE
        <5>1. "there" \in Facets /\ 0 \in Slots
          BY DEF Facets, Slots
        <5>2. Facet(s, "there", a, 0) = {} /\ Facet(wabas, "there", a, 0) = {a}
          BY <3>7, <4>1, ThereIs
        <5>3. Afoot(frames, "there", a, 0, 0)
          BY <3>2, <5>1, <5>2
        <5>4. PICK i \in DOMAIN frames : Changes(frames[i], "there", a, 0)
          BY <5>3 DEF Afoot
        <5>5. Presumes(f, a) /\ ~Changes(f, "there", a, 0)
          BY <2>4, <3>7 DEF Presumes, Changes, OfNumber, Ends, Creates
        <5>6. 1 < i
          BY <1>2, <5>4, <5>5
        <5>7. Creates(frames[i], a)
          BY <3>3, <5>4, <5>6 DEF Changes
        <5>8. \E m \in DOMAIN frames : 1 < m /\ Ends(frames[m], a)
          <6>1. frames[1].at > imports.at
            BY <2>6, <5>5, ConcernsServer
          <6>2. QED
            BY <1>2, <5>5, <5>6, <5>7, <6>1 DEF WorldInv, Afresh
        <5>9. QED
          BY <3>3, <5>8
      <4>2. Status(wabas, a) = {}
        <5>1. \A x : x \notin Status(wabas, a)
          BY <4>1, InStatus DEF Known, Ids
        <5>2. QED
          BY <5>1
      <4>3. Facet(wabas, k, a, n) = {}
        BY <4>2, FacetNone
      <4>4. QED
        BY <3>7, <4>3 DEF t
    <3>8. QED
      BY <3>1, <3>4, <3>5, <3>6, <3>7 DEF Follows
  <2>5. QED
    BY <2>3, <2>4
<1>23. QED
  BY <1>8, <1>9, <1>10, <1>11, <1>12, <1>14, <1>15, <1>16, <1>20, <1>21, <1>22 DEF WorldInv

\* The awaited answer, too, if nothing has gone by.
LEMMA EchoWorld ==
  ASSUME TypeOK, RulesDistinct(store), WireOrder, WorldInv, NEW go \in BOOLEAN, ReceiveEcho(go)
  PROVE  WorldInv'
<1> DEFINE f == echo.frame
<1>1. /\ echo.pending /\ f \in Frames /\ store' = Apply(store, f) /\ ~echo'.pending
      /\ UNCHANGED <<wabas, frames, requests, imports>>
      /\ "server" \in echo.old /\ "server" \in Concerned(f) => behind'["server"]
      /\ ~Wipes(f) /\ ~("server" \in echo.old /\ "server" \in Concerned(f)) =>
           behind'["server"] = behind["server"]
  <2>1. /\ echo.pending /\ f \in Frames /\ Dispatch(Apply(store, f)) /\ echo' = NoEcho
        /\ UNCHANGED <<wabas, frames, requests, imports>>
        /\ \A c \in Collections :
             /\ c \in echo.old /\ c \in Concerned(f) => behind'[c]
             /\ ~Wipes(f) /\ ~(c \in echo.old /\ c \in Concerned(f)) => behind'[c] = behind[c]
    BY ReceiveEchoFacts DEF serverVars
  <2>2. "server" \in Collections
    BY DEF Collections
  <2> HIDE DEF f
  <2>3. QED
    BY <2>1, <2>2 DEF Dispatch, NoEcho
<1>2. f.at \in Nat /\ frames \in Seq(Frames) /\ \A i \in DOMAIN frames : frames[i].at > 0
  BY <1>1, FramesTyped, EchoAt DEF WireOrder
<1>3. /\ ~echo.heard => \E i \in DOMAIN frames : frames[i] = f
      /\ "server" \notin echo.old /\ echo.heard => \A i \in DOMAIN frames : frames[i].at >= f.at
  BY <1>1 DEF WireOrder, WorldInv, HeardOrder, EchoOpen
<1>4. ASSUME "server" \notin echo.old
      PROVE  /\ \A k \in Facets, a \in Accounts, n \in Slots :
                  Changes(f, k, a, n) /\ ~Afoot(frames, k, a, n, f.at) =>
                    Becomes(f, k, a, n) = Facet(wabas, k, a, n)
             /\ \A a \in Accounts :
                  /\ Presumes(f, a) => Known(wabas, a) \/ \E j \in DOMAIN frames : Ends(frames[j], a)
                  /\ \A j \in DOMAIN frames :
                       OfNumber(f, a) /\ Creates(frames[j], a) /\ frames[j].at >= f.at =>
                         \E m \in DOMAIN frames : Ends(frames[m], a)
  <2>1. EchoOpen
    BY <1>1, <1>4 DEF EchoOpen
  <2>2. QED
    BY <2>1 DEF WorldInv, EchoRight, EchoPresumed, EchoAfresh
<1>5. AllApart /\ (Wipes(f) => Apart(f.body))
  BY <1>1 DEF WorldInv, AllApart
<1> HIDE DEF f
<1>6. /\ store.server.loaded => store'.server.loaded
      /\ store'.server.loaded =>
           /\ store.server.loaded \/ Wipes(f)
           /\ Apart(store'.server.data)
           /\ \A k \in Facets : \A a, n :
                IF Wipes(f)
                THEN Changes(f, k, a, n) /\ Facet(store'.server.data, k, a, n) = Becomes(f, k, a, n)
                ELSE Follows(store.server.data, store'.server.data, f, k, a, n)
  BY <1>1, <1>5, ApplyWorld
<1>7. FacetsTold' /\ Presumed' /\ Afresh' /\ AnswersRight'
  BY <1>1 DEF WorldInv, FacetsTold, Presumed, Afresh, AnswersRight, Afoot
<1>8. EchoRight' /\ EchoPresumed' /\ EchoAfresh' /\ HeardOrder'
  BY <1>1 DEF EchoRight, EchoPresumed, EchoAfresh, HeardOrder, EchoOpen
<1>9. AllApart' /\ BootComing'
  BY <1>1, <1>5, <1>6 DEF WorldInv, AllApart, BootComing
<1>10. StoreRight'
  <2>1. SUFFICES ASSUME NEW k \in Facets, NEW a \in Accounts, NEW n \in Slots,
                        store'.server.loaded, ~behind'["server"], ~Afoot(frames, k, a, n, 0)
                 PROVE  Facet(store'.server.data, k, a, n) = Facet(wabas, k, a, n)
    BY <1>1 DEF StoreRight, Afoot
  <2>2. "server" \in Concerned(f) => "server" \notin echo.old
    BY <1>1, <2>1
  <2>3. ASSUME Changes(f, k, a, n) PROVE Becomes(f, k, a, n) = Facet(wabas, k, a, n)
    <3>1. PICK t \in Nat : t = f.at /\ 0 <= t
      BY <1>2
    <3>2. ~Afoot(frames, k, a, n, t)
      BY <1>2, <2>1, <3>1, AfootLater
    <3>3. "server" \notin echo.old
      BY <2>2, <2>3, ConcernsServer
    <3>4. QED
      BY <1>4, <2>3, <3>1, <3>2, <3>3
  <2>4. CASE Wipes(f)
    BY <1>6, <2>1, <2>3, <2>4
  <2>5. CASE ~Wipes(f)
    <3> DEFINE s == store.server.data
               t == store'.server.data
    <3>1. Follows(s, t, f, k, a, n) /\ store.server.loaded /\ ~behind["server"]
      BY <1>1, <1>6, <2>1, <2>2, <2>5
    <3> HIDE DEF s, t
    <3>2. \A q \in Facets, m \in Slots : ~Afoot(frames, q, a, m, 0) => Facet(s, q, a, m) = Facet(wabas, q, a, m)
      BY <3>1 DEF WorldInv, StoreRight, s
    \* No end of the account is coming.
    <3>3. \A i \in DOMAIN frames : ~Ends(frames[i], a)
      BY <1>2, <2>1 DEF Afoot, Changes
    <3>4. CASE ~Changes(f, k, a, n) /\ Facet(t, k, a, n) = Facet(s, k, a, n)
      BY <2>1, <3>2, <3>4 DEF t
    <3>5. CASE k = "there" /\ Presumes(f, a) /\ Facet(t, k, a, n) = {a}
      <4>1. "server" \notin echo.old
        BY <2>2, <3>5, ConcernsServer
      <4>2. Known(wabas, a)
        BY <1>4, <3>3, <3>5, <4>1
      <4>3. QED
        BY <3>5, <4>2, ThereIs DEF t
    <3>6. CASE Changes(f, k, a, n) /\ Facet(t, k, a, n) = Becomes(f, k, a, n)
      BY <2>3, <3>6 DEF t
    <3>7. CASE Changes(f, k, a, n) /\ k = "number" /\ OfNumber(f, a) /\ ~Known(s, a) /\ Facet(t, k, a, n) = {}
      <4>1. ASSUME Known(wabas, a) PROVE FALSE
        <5>1. "there" \in Facets /\ 0 \in Slots
          BY DEF Facets, Slots
        <5>2. Facet(s, "there", a, 0) = {} /\ Facet(wabas, "there", a, 0) = {a}
          BY <3>7, <4>1, ThereIs
        <5>3. Afoot(frames, "there", a, 0, 0)
          BY <3>2, <5>1, <5>2
        <5>4. PICK i \in DOMAIN frames : Changes(frames[i], "there", a, 0)
          BY <5>3 DEF Afoot
        <5>5. Creates(frames[i], a)
          BY <3>3, <5>4 DEF Changes
        \* Its own frame would be about the number.
        <5>6. echo.heard
          BY <1>2, <1>3, <2>1, <3>7 DEF Afoot
        <5>7. "server" \notin echo.old
          BY <2>2, <3>7, ConcernsServer
        <5>8. \E m \in DOMAIN frames : Ends(frames[m], a)
          BY <1>3, <1>4, <3>7, <5>5, <5>6, <5>7
        <5>9. QED
          BY <3>3, <5>8
      <4>2. Status(wabas, a) = {}
        <5>1. \A x : x \notin Status(wabas, a)
          BY <4>1, InStatus DEF Known, Ids
        <5>2. QED
          BY <5>1
      <4>3. Facet(wabas, k, a, n) = {}
        BY <4>2, FacetNone
      <4>4. QED
        BY <3>7, <4>3 DEF t
    <3>8. QED
      BY <3>1, <3>4, <3>5, <3>6, <3>7 DEF Follows
  <2>6. QED
    BY <2>4, <2>5
<1>11. QED
  BY <1>7, <1>8, <1>9, <1>10 DEF WorldInv

-----------------------------------------------------------------------------
(* The accounts are current *)

\* The tab opens with nothing loaded and the bootstrap sent.
LEMMA WorldInit ==
  ASSUME Init
  PROVE  WorldInv
<1>1. /\ wabas = Seed /\ frames = <<>> /\ echo = NoEcho /\ store.server = NotLoaded
      /\ requests["bootstrap"] = Sent(0) /\ requests["state"] = Idle
  BY GetNames DEF Init
<1>2. /\ NotLoaded.loaded = FALSE /\ NoEcho.pending = FALSE
      /\ \A g \in Snaps : requests[g].stage # "answered"
      /\ requests["bootstrap"].stage # "idle"
  BY <1>1, IdleOrSent DEF NotLoaded, NoEcho, Snaps
<1>3. DOMAIN frames = {}
  BY <1>1
<1>4. FacetsTold /\ Presumed /\ Afresh /\ EchoAfresh /\ HeardOrder
  BY <1>3 DEF FacetsTold, Presumed, Afresh, EchoAfresh, HeardOrder
<1>5. AnswersRight /\ EchoRight /\ EchoPresumed /\ StoreRight
  BY <1>1, <1>2 DEF AnswersRight, EchoRight, EchoPresumed, StoreRight, EchoOpen
<1>6. AllApart
  BY <1>1, <1>2, <1>3, ConsoleAssumption DEF AllApart
<1>7. BootComing
  BY <1>2 DEF BootComing
<1>8. QED
  BY <1>4, <1>5, <1>6, <1>7 DEF WorldInv

\* An import that is swapped in leaves nothing to be right about.
LEMMA SwapWorld ==
  ASSUME TypeOK, WireOrder, WorldInv, Import
  PROVE  WorldInv'
<1>1. Swapped
  BY ImportFacts
<1>2. /\ imports'.at = changes /\ changes \in Nat /\ wabas' = Snapshot
      /\ UNCHANGED <<frames, store>>
      /\ \A g \in Gets : Older(requests[g], requests'[g])
      /\ behind'["server"] = TRUE
  <2>1. wabas' = Snapshot
    BY DEF Import, Refill
  <2>2. "server" \in Collections
    BY DEF Collections
  <2>3. QED
    BY <1>1, <2>1, <2>2, FramesTyped DEF Swapped
<1>3. \A i \in DOMAIN frames' : ~(frames'[i].at > imports'.at)
  BY <1>2, FramesTyped DEF WireOrder
<1>4. FacetsTold' /\ Presumed' /\ Afresh'
  BY <1>3 DEF FacetsTold, Presumed, Afresh
<1>5. \A g \in Snaps : /\ requests'[g].stage = requests[g].stage
                       /\ requests'[g].stage = "answered" =>
                            requests'[g].data = requests[g].data /\ requests'[g].old = TRUE
  <2>1. TAKE g \in Snaps
  <2>2. g \in Gets
    BY SnapsAre
  <2>3. requests'[g].stage = requests[g].stage
    BY <1>2, <2>2, OlderStages
  <2>4. ASSUME requests'[g].stage = "answered"
        PROVE  requests'[g].data = requests[g].data /\ requests'[g].old = TRUE
    <3>1. requests[g].at <= changes /\ requests'[g].data = requests[g].data
      BY <1>2, <2>2, <2>3, <2>4, OlderAnswers DEF WireOrder
    <3>2. QED
      BY <1>1, <2>2, <2>4, <3>1 DEF Swapped
  <2>5. QED
    BY <2>3, <2>4
<1>6. AnswersRight' /\ StoreRight'
  BY <1>2, <1>5 DEF AnswersRight, StoreRight
<1>7. ~EchoOpen' /\ (echo'.pending => echo.pending /\ echo'.frame = echo.frame)
  <2>1. echo'.pending => echo.pending /\ echo'.frame = echo.frame /\ echo'.old = Collections
    BY <1>1 DEF Swapped, WireOrder
  <2>2. QED
    BY <2>1 DEF EchoOpen, Collections
<1>8. EchoRight' /\ EchoPresumed' /\ EchoAfresh' /\ HeardOrder'
  BY <1>7 DEF EchoRight, EchoPresumed, EchoAfresh, HeardOrder
<1>9. AllApart'
  BY <1>2, <1>5, <1>7, ConsoleAssumption DEF WorldInv, AllApart
<1>10. BootComing'
  BY <1>2, <1>5 DEF WorldInv, BootComing, Snaps
<1>11. QED
  BY <1>4, <1>6, <1>8, <1>9, <1>10 DEF WorldInv

\* Every step keeps it.
LEMMA WorldStep ==
  ASSUME Types, WireOrder, WorldInv, Next
  PROVE  WorldInv'
<1>1. CASE ServerChanges
  <2>1. ASSUME NEW fs, NEW mine \in BOOLEAN, ServerMoves(fs, mine) PROVE WorldInv'
    BY <2>1, ServerWorld DEF Types
  <2>2. ASSUME FailImport PROVE WorldInv'
    <3>1. CellsStill /\ UNCHANGED <<wabas, requests, store, behind>>
      BY <2>2, FailFacts DEF Types
    <3>2. WorldStill
      BY <3>1 DEF CellsStill, WorldStill
    <3>3. QED
      BY <3>2, StillWorld DEF Types
  <2>3. QED
    BY <1>1, <2>1, <2>2, ServerSteps, SwapWorld DEF Types, TypeOK
<1>2. ASSUME NEW g \in Gets, Answer(g) PROVE WorldInv'
  BY <1>2, AnswerWorld DEF Types
<1>3. ASSUME NEW g \in Gets, Lose(g) PROVE WorldInv'
  BY <1>3, LoseWorld, StillWorld DEF Types
<1>4. CASE Connect
  BY <1>4, ConnectWorld, StillWorld DEF Types
<1>5. CASE Drop
  BY <1>5, DropWorld DEF Types
<1>6. CASE Receive
  BY <1>6, ReceiveWorld DEF Types
<1>7. ASSUME NEW go \in BOOLEAN, ReceiveEcho(go) PROVE WorldInv'
  BY <1>7, EchoWorld DEF Types
<1>8. CASE AnswerLands
  BY <1>8, LandWorldSteps, StillWorld, LandWorld DEF Types
<1>9. CASE Visits
  BY <1>9, VisitWorld, StillWorld DEF Types
<1>10. CASE Renders
  BY <1>10, RenderWorld, StillWorld DEF Types
<1>11. QED
  BY <1>1, <1>2, <1>3, <1>4, <1>5, <1>6, <1>7, <1>8, <1>9, <1>10 DEF Next

\* A step that changes nothing does.
LEMMA WorldStutter ==
  ASSUME WorldInv, UNCHANGED vars
  PROVE  WorldInv'
BY DEF WorldInv, FacetsTold, AnswersRight, EchoRight, StoreRight, Presumed, EchoPresumed, Afresh,
       EchoAfresh, HeardOrder, AllApart, BootComing, EchoOpen, Afoot, vars

\* What the facets say of the accounts, whatever their order.
LEMMA FacetsAreAll ==
  ASSUME NEW s \in Worlds, NEW t \in Worlds, Apart(s), Apart(t),
         \A k \in Facets, a \in Accounts, n \in Slots : Facet(s, k, a, n) = Facet(t, k, a, n)
  PROVE  Unordered(s) \subseteq Unordered(t)
<1>1. SUFFICES ASSUME NEW i \in DOMAIN s
               PROVE  \E j \in DOMAIN t :
                        [s[i] EXCEPT !.numbers = ToSet(@)] = [t[j] EXCEPT !.numbers = ToSet(@)]
  BY DEF Unordered
<1>2. Worlds = Seq(Waba) /\ Distinct(s) /\ Distinct(t)
  BY DEF Worlds, Waba, Apart
<1>3. PICK v \in Waba : v = s[i]
  BY <1>2
<1>4. PICK a \in Accounts : a = v.id
  BY DEF Waba
<1>5. Known(s, a) /\ v \in Status(s, a)
  BY <1>3, <1>4, InStatus DEF Known, Ids
<1>6. Status(s, a) = {v}
  <2>1. Status(s, a) = {s[At(s, a)]}
    BY <1>2, <1>5, StatusOf
  <2>2. QED
    BY <1>5, <2>1
<1>7. "there" \in Facets /\ "name" \in Facets /\ "number" \in Facets /\ 0 \in Slots
  BY DEF Facets, Slots
<1>8. Known(t, a)
  <2>1. Facet(s, "there", a, 0) = {a}
    BY <1>5, ThereIs
  <2>2. Facet(t, "there", a, 0) = {a}
    BY <1>7, <2>1
  <2>3. QED
    BY <2>2, ThereIs
<1>9. PICK j \in DOMAIN t : Status(t, a) = {t[j]} /\ t[j].id = a
  BY <1>2, <1>8, StatusOf, KnownAt
<1>10. PICK w \in Waba : w = t[j]
  BY <1>2, <1>9
<1>11. v.name = w.name
  <2>1. Facet(s, "name", a, 0) = {v.name} /\ Facet(t, "name", a, 0) = {w.name}
    BY <1>6, <1>9, <1>10, FacetOne
  <2>2. QED
    BY <1>7, <2>1
<1>12. ToSet(v.numbers) = ToSet(w.numbers)
  <2>1. \A n \in Slots : Status(v.numbers, n) = Status(w.numbers, n)
    <3>1. TAKE n \in Slots
    <3>2. Facet(s, "number", a, n) = Status(v.numbers, n) /\ Facet(t, "number", a, n) = Status(w.numbers, n)
      BY <1>6, <1>9, <1>10, FacetOne
    <3>3. QED
      BY <1>7, <3>2
  <2>2. \A x : x \in ToSet(v.numbers) \/ x \in ToSet(w.numbers) => x.id \in Slots
    <3>1. v.numbers \in Seq(Phones) /\ w.numbers \in Seq(Phones)
      BY DEF Waba
    <3>2. \A x : x \in ToSet(v.numbers) \/ x \in ToSet(w.numbers) => x \in Phones
      BY <3>1 DEF ToSet
    <3>3. QED
      BY <3>2 DEF Phones, Slots
  <2>3. \A x : x \in ToSet(v.numbers) <=> x \in ToSet(w.numbers)
    BY <2>1, <2>2 DEF Status
  <2>4. QED
    BY <2>3
<1>13. \A x \in Waba :
         [x EXCEPT !.numbers = ToSet(x.numbers)] = [id |-> x.id, name |-> x.name, numbers |-> ToSet(x.numbers)]
  BY DEF Waba
<1>14. v.id = w.id
  BY <1>4, <1>9, <1>10
<1>15. [v EXCEPT !.numbers = ToSet(v.numbers)] = [w EXCEPT !.numbers = ToSet(w.numbers)]
  BY <1>11, <1>12, <1>13, <1>14
<1>16. QED
  BY <1>3, <1>10, <1>15

\* When nothing is coming any more the store holds the server's accounts.
LEMMA WorldIsCurrent ==
  ASSUME Types, WorldInv
  PROVE  SnapshotIsCurrent
<1>1. SUFFICES ASSUME Quiet, ~behind["server"]
               PROVE  store.server.loaded /\ Unordered(store.server.data) = Unordered(wabas)
  BY DEF SnapshotIsCurrent
<1>2. store.server.loaded
  BY <1>1, GetNames DEF Quiet, WorldInv, BootComing
<1>3. \A k, a, n : ~Afoot(frames, k, a, n, 0)
  BY <1>1 DEF Quiet, Afoot
<1>4. PICK s \in Worlds : s = store.server.data
  BY <1>2, StoreFields, LoadsFacts DEF Types, TypeOK
<1>5. PICK t \in Worlds : t = wabas
  BY DEF Types, TypeOK, ServerTypes
<1>6. Apart(s) /\ Apart(t)
  BY <1>2, <1>4, <1>5 DEF WorldInv, AllApart
<1>7. \A k \in Facets, a \in Accounts, n \in Slots : Facet(s, k, a, n) = Facet(t, k, a, n)
  BY <1>1, <1>2, <1>3, <1>4, <1>5 DEF WorldInv, StoreRight
<1>8. Unordered(s) \subseteq Unordered(t) /\ Unordered(t) \subseteq Unordered(s)
  BY <1>6, <1>7, FacetsAreAll
<1>9. QED
  BY <1>2, <1>4, <1>5, <1>8

\* store.tsx (127-129): re-reading the snapshot is "the cheapest way to be right again".  The
\* accounts and numbers on screen are the server's when nothing is on its way and nothing has
\* passed them by: what a frame changes, the last of them says, and an account that a frame
\* finds missing is one that has ended or ends before it comes again.
THEOREM SnapshotStaysCurrent == Spec => []SnapshotIsCurrent
<1>1. Init => Types /\ Current /\ WorldInv
  BY TypesInit, CurrentInit, WorldInit
<1>2. Types /\ Current /\ WorldInv /\ [Next]_vars => (Types /\ Current /\ WorldInv)'
  <2>1. ASSUME Types, Current, Next PROVE Types' /\ Current'
    BY <2>1, TypesStep, CurrentStep
  <2>2. ASSUME Types, Current, WorldInv, Next PROVE WorldInv'
    BY <2>2, WorldStep DEF Current
  <2>3. QED
    BY <2>1, <2>2, TypesStutter, CurrentStutter, WorldStutter
<1>3. Types /\ Current /\ WorldInv => SnapshotIsCurrent
  BY WorldIsCurrent
<1>4. QED
  BY <1>1, <1>2, <1>3, PTL DEF Spec

=============================================================================
