----------------------------- MODULE MediaProofs -----------------------------
(***************************************************************************)
(* The proofs about bytes in the media directory: an upload session, and   *)
(* after it the media store.                                               *)
(*                                                                         *)
(* First, one upload session, for any length of the file, any number of    *)
(* requests, failures, resets and restarts.  The invariant follows an      *)
(* append through its waits.  As long as nothing overlapped there is one   *)
(* append at a time, of an open session without a handle (OneAtATime), and *)
(* as long as nothing was torn either it carries the bytes in front of its *)
(* chunk and meets an object nobody else touches (AppendsInPlace), so that *)
(* the object and the row agree when it is done.                           *)
(***************************************************************************)
EXTENDS UploadSession, MediaStore, SequenceTheorems, TLAPS

\* A session that is not open has nothing; one without a key has no bytes, and gets a key
\* with the first put.
ClosedIsEmpty ==
  /\ session # "open" => received = 0 /\ key = 0 /\ handle = 0
  /\ key = 0 => received = 0
  /\ \A h \in Handlers : request[h].stage \in {"writing", "written"} => request[h].key # 0

\* The n bytes of the file behind its first m.
After(m, n) == [i \in 1 .. n |-> m + i]

\* Unless appends overlapped, the one in flight has the session for itself.
OneAtATime ==
  ~overlapped =>
    \A h \in Busy : /\ \A g \in Busy : g = h
                    /\ session = "open" /\ handle = 0 /\ reset = "idle"

\* Where an append is, its key is the row's (or a new one, once it writes), its base what
\* the row counts, and its file empty, or complete.
InPlace(r) ==
  /\ r.chunk = After(received, Len(r.chunk))
  /\ key # 0 => r.key = key
  /\ r.stage = "reading" => key # 0
  /\ r.stage # "reading" => r.base = Prefix(received)
  /\ r.stage = "putting" => r.key = key
  /\ r.stage = "writing" => r.key \in DOMAIN objects /\ objects[r.key] = <<>>
  /\ r.stage = "written" =>
       r.key \in DOMAIN objects /\ objects[r.key] = Prefix(received + Len(r.chunk))

AppendsInPlace ==
  ~overlapped /\ ~torn => \A h \in Busy : InPlace(request[h])

\* A reset has listed the one object there may be, and deleted it.
ResetTakesAll ==
  ~overlapped /\ ~torn =>
    /\ reset = "deleting" => doomed = (IF key = 0 THEN {} ELSE {key})
    /\ reset = "deleted" => DOMAIN objects = {}

IInv ==
  /\ TypeOK
  /\ ClosedIsEmpty
  /\ OneAtATime
  /\ HandleMeansComplete
  /\ AppendsInPlace
  /\ ResetTakesAll
  /\ OffsetTruthful
  /\ NoBytesLeftBehind

-----------------------------------------------------------------------------
(* Bytes *)

\* A session is opened for a file of at least one byte.
LEMMA FileNonEmpty == FileLength \in Nat /\ FileLength > 0
BY UploadAssumption

\* A prefix is as long as it says, and holds the bytes in order.
LEMMA PrefixFacts ==
  ASSUME NEW n \in Nat
  PROVE  /\ Prefix(n) \in Seq(Nat)
         /\ Len(Prefix(n)) = n
         /\ \A i \in 1 .. n : Prefix(n)[i] = i
<1>1. Prefix(n) \in [1 .. n -> Nat]
  BY DEF Prefix
<1>2. Prefix(n) \in Seq(Nat)
  BY <1>1, SeqDef
<1>3. DOMAIN Prefix(n) = 1 .. n
  BY DEF Prefix
<1>4. Len(Prefix(n)) \in Nat /\ DOMAIN Prefix(n) = 1 .. Len(Prefix(n))
  BY <1>2, LenProperties
<1>5. Len(Prefix(n)) = n
  BY <1>3, <1>4
<1>6. QED
  BY <1>2, <1>5 DEF Prefix

\* The prefix of no bytes is the empty object.
LEMMA NoBytesYet == Prefix(0) = <<>>
BY PrefixFacts, EmptySeq

\* A chunk is as long as it says, and its bytes are the file's if it ends within the file.
LEMMA AfterFacts ==
  ASSUME NEW m \in Nat, NEW n \in Nat
  PROVE  /\ After(m, n) \in Seq(Nat)
         /\ Len(After(m, n)) = n
         /\ \A i \in 1 .. n : After(m, n)[i] = m + i
         /\ m + n <= FileLength => After(m, n) \in Seq(1 .. FileLength)
<1>1. After(m, n) \in [1 .. n -> Nat]
  BY DEF After
<1>2. After(m, n) \in Seq(Nat)
  BY <1>1, SeqDef
<1>3. DOMAIN After(m, n) = 1 .. n
  BY DEF After
<1>4. Len(After(m, n)) \in Nat /\ DOMAIN After(m, n) = 1 .. Len(After(m, n))
  BY <1>2, LenProperties
<1>5. Len(After(m, n)) = n
  BY <1>3, <1>4
<1>6. ASSUME m + n <= FileLength
      PROVE  After(m, n) \in Seq(1 .. FileLength)
  <2>1. After(m, n) \in [1 .. n -> 1 .. FileLength]
    BY <1>6, FileNonEmpty DEF After
  <2>2. QED
    BY <2>1, SeqDef
<1>7. QED
  BY <1>2, <1>5, <1>6 DEF After

\* The next chunk continues a prefix.
LEMMA PrefixGrows ==
  ASSUME NEW m \in Nat, NEW n \in Nat
  PROVE  Prefix(m) \o After(m, n) = Prefix(m + n)
<1> DEFINE s == Prefix(m) \o After(m, n)
           t == Prefix(m + n)
<1>1. /\ s \in Seq(Nat) /\ Len(s) = m + n
      /\ \A i \in 1 .. m + n :
           s[i] = IF i <= m THEN Prefix(m)[i] ELSE After(m, n)[i - m]
  <2>1. Prefix(m) \in Seq(Nat) /\ Len(Prefix(m)) = m
    BY PrefixFacts
  <2>2. After(m, n) \in Seq(Nat) /\ Len(After(m, n)) = n
    BY AfterFacts
  <2> DEFINE a == Prefix(m)
             b == After(m, n)
  <2> HIDE DEF a, b
  <2>3. a \in Seq(Nat) /\ b \in Seq(Nat) /\ Len(a) = m /\ Len(b) = n
    BY <2>1, <2>2 DEF a, b
  <2>4. /\ a \o b \in Seq(Nat) /\ Len(a \o b) = Len(a) + Len(b)
        /\ \A i \in 1 .. Len(a) + Len(b) : (a \o b)[i] = IF i <= Len(a) THEN a[i] ELSE b[i - Len(a)]
    BY <2>3, ConcatProperties, Zenon
  <2>5. QED
    BY <2>3, <2>4 DEF a, b
<1>2. t \in Seq(Nat) /\ Len(t) = m + n /\ \A i \in 1 .. m + n : t[i] = i
  BY PrefixFacts
<1> HIDE DEF s, t
<1>3. ASSUME NEW i \in 1 .. m + n
      PROVE  s[i] = t[i]
  <2>1. CASE i <= m
    <3>1. s[i] = Prefix(m)[i]
      BY <1>1, <2>1
    <3>2. Prefix(m)[i] = i
      BY <2>1, PrefixFacts
    <3>3. QED
      BY <1>2, <3>1, <3>2
  <2>2. CASE i > m
    <3>1. s[i] = After(m, n)[i - m]
      BY <1>1, <2>2
    <3>2. i - m \in 1 .. n
      BY <2>2
    <3>3. After(m, n)[i - m] = m + (i - m)
      BY <3>2, AfterFacts
    <3>4. QED
      BY <1>2, <3>1, <3>3
  <2>3. QED
    BY <2>1, <2>2
<1>4. s = t
  BY <1>1, <1>2, <1>3, SeqEqual
<1>5. QED
  BY <1>4 DEF s, t

\* What a writer leaves are bytes, its own alone if the object was empty.
LEMMA OverlayFacts ==
  ASSUME NEW S, NEW bytes \in Seq(S), NEW below \in Seq(S)
  PROVE  /\ Overlay(bytes, below) \in Seq(S)
         /\ below = <<>> => Overlay(bytes, below) = bytes
<1>1. Len(bytes) \in Nat /\ Len(below) \in Nat
  BY LenProperties
<1>2. below = <<>> => Len(below) = 0
  BY EmptySeq
<1>3. CASE Len(bytes) >= Len(below)
  BY <1>3 DEF Overlay
<1>4. CASE ~(Len(bytes) >= Len(below))
  <2> DEFINE rest == SubSeq(below, Len(bytes) + 1, Len(below))
  <2>1. \A i \in Len(bytes) + 1 .. Len(below) : below[i] \in S
    BY <1>1, ElementOfSeq
  <2>2. rest \in Seq(S)
    BY <1>1, <2>1, SubSeqProperties
  <2> HIDE DEF rest
  <2>3. bytes \o rest \in Seq(S)
    BY <2>2, ConcatProperties
  <2>4. Overlay(bytes, below) = bytes \o rest
    BY <1>4 DEF Overlay, rest
  <2>5. below # <<>>
    BY <1>1, <1>2, <1>4
  <2>6. QED
    BY <2>3, <2>4, <2>5
<1>5. QED
  BY <1>3, <1>4

-----------------------------------------------------------------------------
(* Requests *)

Bytes == Seq(1 .. FileLength)
RequestsUpTo(n) == [stage : Stage, key : 0 .. n, base : Bytes, chunk : Bytes]

\* What the type invariant says of a request, and of what it is going to put.
LEMMA RequestFacts ==
  ASSUME TypeOK
  PROVE  /\ minted \in Nat /\ received \in Nat
         /\ request \in [Handlers -> RequestsUpTo(minted)]
         /\ Idle \in RequestsUpTo(minted)
         /\ \A h \in Handlers :
              /\ request[h].stage \in Stage /\ request[h].key \in 0 .. minted
              /\ request[h].base \in Bytes /\ request[h].chunk \in Bytes
              /\ Len(request[h].chunk) \in Nat
              /\ Combined(h) \in Bytes
              /\ Len(Combined(h)) = Len(request[h].base) + Len(request[h].chunk)
              /\ Len(Combined(h)) \in Nat
<1>1. /\ minted \in Nat /\ received \in Nat
      /\ request \in [Handlers -> RequestsUpTo(minted)]
  BY DEF TypeOK, RequestsUpTo, Bytes
<1>2. Idle \in RequestsUpTo(minted)
  BY <1>1, EmptySeq DEF Idle, RequestsUpTo, Stage, Bytes
<1>3. ASSUME NEW h \in Handlers
      PROVE  /\ request[h].stage \in Stage /\ request[h].key \in 0 .. minted
             /\ request[h].base \in Bytes /\ request[h].chunk \in Bytes
  BY <1>1 DEF RequestsUpTo
<1>4. ASSUME NEW h \in Handlers
      PROVE  /\ Len(request[h].chunk) \in Nat /\ Len(request[h].base) \in Nat
             /\ Combined(h) \in Bytes
             /\ Len(Combined(h)) = Len(request[h].base) + Len(request[h].chunk)
  BY <1>3, LenProperties, ConcatProperties DEF Combined, Bytes
<1>5. ASSUME NEW h \in Handlers
      PROVE  Len(Combined(h)) \in Nat
  BY <1>4
<1>6. QED
  BY <1>1, <1>2, <1>3, <1>4, <1>5

\* A request keeps its type when more keys are minted.
LEMMA RequestsMonotonic ==
  ASSUME NEW m \in Nat, NEW n \in Nat, m <= n
  PROVE  RequestsUpTo(m) \subseteq RequestsUpTo(n)
BY DEF RequestsUpTo

\* While nothing overlapped, the others are free.
LEMMA Alone ==
  ASSUME OneAtATime, ~overlapped, NEW h \in Handlers, request[h].stage # "free"
  PROVE  /\ \A g \in Handlers : g # h => request[g].stage = "free"
         /\ session = "open" /\ handle = 0 /\ reset = "idle"
BY DEF OneAtATime, Busy

\* What the solver needs to know of a request that moves alone: who is busy afterwards.
LEMMA BusyAfter ==
  ASSUME OneAtATime, ~overlapped, NEW h \in Handlers, request[h].stage # "free",
         \A g \in Handlers : g # h => request'[g] = request[g]
  PROVE  Busy' \subseteq {h}
BY Alone DEF Busy

-----------------------------------------------------------------------------
(* The initial state *)

\* The invariant holds before the session is opened.
LEMMA InitInv == Init => IInv
<1> SUFFICES ASSUME Init
             PROVE  IInv
  OBVIOUS
<1>1. Busy = {}
  BY DEF Init, Busy, Idle
<1>2. Idle \in RequestsUpTo(0)
  BY EmptySeq DEF Idle, RequestsUpTo, Stage, Bytes
<1>3. DOMAIN objects = {}
  BY DEF Init
<1>4. TypeOK
  <2>1. request \in [Handlers -> RequestsUpTo(minted)]
    BY <1>2 DEF Init
  <2>2. /\ DOMAIN objects \subseteq 1 .. minted
        /\ \A k \in DOMAIN objects : objects[k] \in Seq(1 .. FileLength)
    BY <1>3
  <2>3. /\ session = "unopened" /\ received = 0 /\ minted = 0 /\ key = 0 /\ handle = 0
        /\ reset = "idle" /\ doomed = {}
        /\ overlapped = FALSE /\ torn = FALSE /\ mishaps = 0 /\ disruptions = 0
    BY DEF Init
  <2>4. overlapped \in BOOLEAN /\ torn \in BOOLEAN
    BY <2>3
  <2>5. mishaps \in 0 .. MaxMishaps /\ disruptions \in 0 .. MaxDisruptions
    BY <2>3, UploadAssumption
  <2>6. QED
    BY <2>1, <2>2, <2>3, <2>4, <2>5 DEF TypeOK, RequestsUpTo, Bytes
<1>5. ClosedIsEmpty
  BY DEF Init, ClosedIsEmpty, Idle
<1>6. HandleMeansComplete
  BY DEF Init, HandleMeansComplete
<1>7. OneAtATime /\ AppendsInPlace
  BY <1>1 DEF OneAtATime, AppendsInPlace
<1>8. ResetTakesAll /\ OffsetTruthful /\ NoBytesLeftBehind
  BY <1>3 DEF Init, ResetTakesAll, OffsetTruthful, NoBytesLeftBehind
<1>9. QED
  BY <1>4, <1>5, <1>6, <1>7, <1>8 DEF IInv

-----------------------------------------------------------------------------
(* Opening a session, and the steps of an append *)

\* A new session has nothing, and so has its storage.
LEMMA CreateStep ==
  ASSUME IInv, CreateSession
  PROVE  IInv'
<1> USE DEF IInv, CreateSession, resetVars, bounds
<1>1. TypeOK'
  BY DEF TypeOK
<1>2. received = 0 /\ key = 0 /\ handle = 0
  BY DEF ClosedIsEmpty
<1>3. ~overlapped => Busy = {}
  BY DEF OneAtATime
<1>4. Busy' = Busy
  BY DEF Busy
<1>5. ClosedIsEmpty'
  BY <1>2 DEF ClosedIsEmpty
<1>6. OneAtATime' /\ AppendsInPlace'
  BY <1>3, <1>4 DEF OneAtATime, AppendsInPlace
<1>7. HandleMeansComplete'
  BY <1>2, FileNonEmpty DEF HandleMeansComplete
<1>8. ResetTakesAll' /\ OffsetTruthful'
  BY <1>2 DEF ResetTakesAll, OffsetTruthful
<1>9. NoBytesLeftBehind'
  BY <1>3, <1>4 DEF NoBytesLeftBehind
<1>10. QED
  BY <1>1, <1>5, <1>6, <1>7, <1>8, <1>9

\* The checks of an append: alone if nothing overlaps, with the chunk that comes next.
LEMMA BeginAppendStep ==
  ASSUME IInv, NEW h \in Handlers, NEW n \in 0 .. FileLength, BeginAppend(h, n)
  PROVE  IInv'
<1> USE DEF IInv
<1> DEFINE r == [stage |-> FirstStage, key |-> key, base |-> <<>>, chunk |-> Chunk(n)]
<1>1. n \in Nat /\ received \in Nat /\ received + n <= FileLength
  BY FileNonEmpty DEF BeginAppend, TypeOK
<1>2. /\ request' = [request EXCEPT ![h] = r]
      /\ overlapped' = (overlapped \/ Busy # {} \/ reset # "idle")
      /\ session = "open" /\ handle = 0
      /\ UNCHANGED <<session, received, key, handle, objects, minted, reset, doomed, torn, disruptions>>
      /\ mishaps' \in 0 .. MaxMishaps
  BY UploadAssumption DEF BeginAppend, row, resetVars, Counted, TypeOK
<1>3. Chunk(n) = After(received, n)
  BY DEF Chunk, After
<1>4. /\ r.stage \in {"reading", "putting"} /\ r.key = key /\ r.base = <<>>
      /\ r.stage = "reading" => key # 0
      /\ r.stage = "putting" => received = 0
      /\ r.chunk = After(received, n) /\ Len(r.chunk) = n /\ r.chunk \in Bytes
  BY <1>1, <1>3, AfterFacts DEF FirstStage, Bytes, ClosedIsEmpty
<1>5. r \in RequestsUpTo(minted)
  BY <1>4, EmptySeq DEF RequestsUpTo, Stage, Bytes, TypeOK
<1> HIDE DEF r
<1>6. /\ request'[h] = r
      /\ \A g \in Handlers : g # h => request'[g] = request[g]
      /\ request' \in [Handlers -> RequestsUpTo(minted)]
  BY <1>2, <1>5, RequestFacts
<1>7. ~overlapped' => ~overlapped /\ Busy' = {h} /\ reset = "idle"
  BY <1>2, <1>4, <1>6 DEF Busy
<1>8. TypeOK'
  BY <1>2, <1>6 DEF TypeOK, RequestsUpTo, Bytes
<1>9. ClosedIsEmpty'
  BY <1>2, <1>4, <1>6 DEF ClosedIsEmpty
<1>10. OneAtATime'
  BY <1>2, <1>7 DEF OneAtATime
<1>11. HandleMeansComplete'
  BY <1>2, <1>7 DEF HandleMeansComplete
<1>12. AppendsInPlace'
  BY <1>2, <1>4, <1>6, <1>7, NoBytesYet DEF AppendsInPlace, InPlace
<1>13. ResetTakesAll'
  BY <1>2, <1>7 DEF ResetTakesAll
<1>14. OffsetTruthful'
  <2>1. ~overlapped => Rewriting' = Rewriting \/ overlapped'
    BY <1>2, <1>4, <1>6 DEF Rewriting, Busy
  <2>2. ~overlapped' => ~Rewriting
    BY <1>2 DEF Rewriting, Busy
  <2>3. QED
    BY <1>2, <1>7, <2>1, <2>2 DEF OffsetTruthful
<1>15. NoBytesLeftBehind'
  <2>1. ~overlapped' => Busy = {}
    BY <1>2
  <2>2. QED
    BY <1>2, <1>7, <2>1 DEF NoBytesLeftBehind
<1>16. QED
  BY <1>8, <1>9, <1>10, <1>11, <1>12, <1>13, <1>14, <1>15

\* The object is read as it is: what the row counts.
LEMMA ReadObjectStep ==
  ASSUME IInv, NEW h \in Handlers, ReadObject(h)
  PROVE  IInv'
<1> USE DEF IInv
<1> DEFINE b == IF request[h].key \in DOMAIN objects THEN objects[request[h].key] ELSE <<>>
<1>1. /\ request[h].stage = "reading"
      /\ request' = [request EXCEPT ![h].stage = "putting", ![h].base = b]
      /\ UNCHANGED <<session, received, key, handle, objects, minted, reset, doomed, overlapped,
                     torn, mishaps, disruptions>>
  BY DEF ReadObject, row, resetVars, bounds
<1>2. b \in Bytes
  BY EmptySeq DEF TypeOK, Bytes
<1>3. ~overlapped /\ ~torn => request[h].key = key /\ b = Prefix(received)
  <2> SUFFICES ASSUME ~overlapped, ~torn
               PROVE  request[h].key = key /\ b = Prefix(received)
    OBVIOUS
  <2>1. h \in Busy
    BY <1>1 DEF Busy
  <2>2. key # 0 /\ request[h].key = key
    BY <1>1, <2>1 DEF AppendsInPlace, InPlace
  <2>3. session = "open" /\ reset = "idle" /\ ~Rewriting
    BY <1>1, Alone DEF Rewriting
  <2>4. QED
    BY <2>2, <2>3 DEF OffsetTruthful
<1> HIDE DEF b
<1>4. /\ request'[h] = [request[h] EXCEPT !.stage = "putting", !.base = b]
      /\ \A g \in Handlers : g # h => request'[g] = request[g]
  BY <1>1, RequestFacts
<1>5. /\ request'[h].stage = "putting" /\ request'[h].base = b
      /\ request'[h].key = request[h].key /\ request'[h].chunk = request[h].chunk
      /\ request'[h] \in RequestsUpTo(minted)
  BY <1>2, <1>4, RequestFacts DEF RequestsUpTo, Stage
<1>6. request' \in [Handlers -> RequestsUpTo(minted)]
  BY <1>1, <1>5, <1>4, RequestFacts
<1>7. Busy' = Busy /\ Rewriting' = Rewriting
  BY <1>1, <1>4, <1>5 DEF Busy, Rewriting
<1>8. TypeOK'
  BY <1>1, <1>6 DEF TypeOK, RequestsUpTo, Bytes
<1>9. ClosedIsEmpty'
  BY <1>1, <1>4, <1>5 DEF ClosedIsEmpty
<1>10. OneAtATime' /\ HandleMeansComplete' /\ ResetTakesAll'
  BY <1>1, <1>7 DEF OneAtATime, HandleMeansComplete, ResetTakesAll
<1>11. AppendsInPlace'
  <2>1. ~overlapped => Busy' \subseteq {h}
    BY <1>1, <1>4, BusyAfter
  <2>2. ~overlapped /\ ~torn => InPlace(request[h])
    BY <1>1 DEF AppendsInPlace, Busy
  <2>3. QED
    BY <1>1, <1>3, <1>5, <2>1, <2>2 DEF AppendsInPlace, InPlace
<1>12. OffsetTruthful'
  BY <1>1, <1>7 DEF OffsetTruthful
<1>13. NoBytesLeftBehind'
  <2>1. \A g \in Handlers : request'[g].key = request[g].key
    BY <1>4, <1>5
  <2>2. Busy \subseteq Handlers
    BY DEF Busy
  <2>3. {request'[g].key : g \in Busy'} = {request[g].key : g \in Busy}
    BY <1>7, <2>1, <2>2
  <2>4. QED
    BY <1>1, <2>3 DEF NoBytesLeftBehind
<1>14. QED
  BY <1>8, <1>9, <1>10, <1>11, <1>12, <1>13

\* The file is opened, and empty: the row's, or a new one.
LEMMA OpenForWritingStep ==
  ASSUME IInv, NEW h \in Handlers, OpenForWriting(h)
  PROVE  IInv'
<1> USE DEF IInv
<1> DEFINE k == IF request[h].key = 0 THEN minted + 1 ELSE request[h].key
<1>1. /\ request[h].stage = "putting"
      /\ minted' = (IF request[h].key = 0 THEN minted + 1 ELSE minted)
      /\ request' = [request EXCEPT ![h].stage = "writing", ![h].key = k]
      /\ objects' = [j \in DOMAIN objects \cup {k} |-> IF j = k THEN <<>> ELSE objects[j]]
      /\ UNCHANGED <<session, received, key, handle, reset, doomed, overlapped, torn, mishaps,
                     disruptions>>
  BY DEF OpenForWriting, row, resetVars, bounds
<1>2. k \in 1 .. minted' /\ minted' \in Nat /\ minted <= minted'
  <2>1. request[h].key \in 0 .. minted /\ minted \in Nat
    BY RequestFacts
  <2>2. CASE request[h].key = 0
    BY <1>1, <2>1, <2>2
  <2>3. CASE request[h].key # 0
    BY <1>1, <2>1, <2>3
  <2>4. QED
    BY <2>2, <2>3
<1>3. ~overlapped /\ ~torn => request[h].key = key /\ (key # 0 => k = key)
  BY <1>1 DEF AppendsInPlace, InPlace, Busy
<1> HIDE DEF k
<1>4. /\ request'[h] = [request[h] EXCEPT !.stage = "writing", !.key = k]
      /\ \A g \in Handlers : g # h => request'[g] = request[g]
  BY <1>1, RequestFacts
<1>5. /\ request'[h].stage = "writing" /\ request'[h].key = k
      /\ request'[h].base = request[h].base /\ request'[h].chunk = request[h].chunk
      /\ request'[h] \in RequestsUpTo(minted')
  <2>1. request[h] \in RequestsUpTo(minted)
    BY RequestFacts
  <2>2. k \in 0 .. minted'
    BY <1>2
  <2> HIDE DEF IInv
  <2>3. QED
    BY <1>4, <2>1, <2>2 DEF RequestsUpTo, Stage
<1>6. request' \in [Handlers -> RequestsUpTo(minted')]
  <2>1. \A g \in Handlers : request'[g] \in RequestsUpTo(minted')
    BY <1>2, <1>4, <1>5, RequestFacts, RequestsMonotonic
  <2>2. QED
    BY <1>1, <2>1, RequestFacts
<1>7. /\ DOMAIN objects' = DOMAIN objects \cup {k}
      /\ objects'[k] = <<>>
      /\ \A j \in DOMAIN objects' : objects'[j] \in Bytes
  BY <1>1, EmptySeq DEF TypeOK, Bytes
<1>8. Busy' = Busy /\ Rewriting'
  BY <1>1, <1>4, <1>5 DEF Busy, Rewriting
<1>9. TypeOK'
  <2>1. /\ DOMAIN objects' \subseteq 1 .. minted'
        /\ key \in 0 .. minted' /\ handle \in 0 .. minted' /\ doomed \subseteq 1 .. minted'
    BY <1>2, <1>7, RequestFacts DEF TypeOK
  <2>2. QED
    BY <1>1, <1>2, <1>6, <1>7, <2>1 DEF TypeOK, RequestsUpTo, Bytes
<1>10. ClosedIsEmpty'
  <2>1. k # 0
    BY <1>2
  <2>2. QED
    BY <1>1, <1>4, <1>5, <2>1 DEF ClosedIsEmpty
<1>11. OneAtATime' /\ HandleMeansComplete'
  BY <1>1, <1>8 DEF OneAtATime, HandleMeansComplete
<1>12. ResetTakesAll'
  BY <1>1, Alone DEF ResetTakesAll
<1>13. AppendsInPlace'
  <2>1. ~overlapped => Busy' \subseteq {h}
    BY <1>1, <1>4, BusyAfter
  <2>2. ~overlapped /\ ~torn => InPlace(request[h])
    BY <1>1 DEF AppendsInPlace, Busy
  <2>3. QED
    BY <1>1, <1>3, <1>5, <1>7, <2>1, <2>2 DEF AppendsInPlace, InPlace
<1>14. OffsetTruthful'
  BY <1>8 DEF OffsetTruthful
<1>15. NoBytesLeftBehind'
  <2> SUFFICES ASSUME ~overlapped, ~torn
               PROVE  DOMAIN objects \cup {k} \subseteq {key, k}
    <3>1. ~overlapped => session = "open"
      BY <1>1, Alone
    <3>2. h \in Busy' /\ request'[h].key = k
      BY <1>5 DEF Busy
    <3>3. QED
      BY <1>1, <1>7, <3>1, <3>2 DEF NoBytesLeftBehind
  <2>1. Busy \subseteq {h}
    BY <1>1, Alone DEF Busy
  <2>2. DOMAIN objects \subseteq {key} \cup {request[h].key}
    BY <2>1 DEF NoBytesLeftBehind
  <2>3. QED
    BY <1>3, <2>2
<1>16. QED
  BY <1>9, <1>10, <1>11, <1>12, <1>13, <1>14, <1>15

\* The bytes are there: alone, they are the base and the chunk.
LEMMA WrittenStep ==
  ASSUME IInv, NEW h \in Handlers, Written(h)
  PROVE  IInv'
<1> USE DEF IInv
<1>1. /\ request[h].stage = "writing"
      /\ request' = [request EXCEPT ![h].stage = "written"]
      /\ objects' = [k \in DOMAIN objects |->
                       IF k = request[h].key THEN Overlay(Combined(h), objects[k]) ELSE objects[k]]
      /\ UNCHANGED <<session, received, key, handle, minted, reset, doomed, overlapped, torn,
                     mishaps, disruptions>>
  BY DEF Written, row, resetVars, bounds
<1>2. /\ request'[h] = [request[h] EXCEPT !.stage = "written"]
      /\ \A g \in Handlers : g # h => request'[g] = request[g]
  BY <1>1, RequestFacts
<1>3. /\ request'[h].stage = "written" /\ request'[h].key = request[h].key
      /\ request'[h].base = request[h].base /\ request'[h].chunk = request[h].chunk
      /\ request'[h] \in RequestsUpTo(minted)
  BY <1>2, RequestFacts DEF RequestsUpTo, Stage
<1>4. request' \in [Handlers -> RequestsUpTo(minted)]
  BY <1>1, <1>2, <1>3, RequestFacts
<1>5. DOMAIN objects' = DOMAIN objects /\ \A k \in DOMAIN objects' : objects'[k] \in Bytes
  <2>1. \A k \in DOMAIN objects : Overlay(Combined(h), objects[k]) \in Bytes
    BY RequestFacts, OverlayFacts DEF TypeOK, Bytes
  <2>2. QED
    BY <1>1, <2>1 DEF TypeOK, Bytes
<1>6. Busy' = Busy /\ Rewriting' = Rewriting
  BY <1>1, <1>2, <1>3 DEF Busy, Rewriting
<1>7. TypeOK'
  BY <1>1, <1>4, <1>5 DEF TypeOK, RequestsUpTo, Bytes
<1>8. ClosedIsEmpty'
  BY <1>1, <1>2, <1>3 DEF ClosedIsEmpty
<1>9. OneAtATime' /\ HandleMeansComplete'
  BY <1>1, <1>6 DEF OneAtATime, HandleMeansComplete
<1>10. ResetTakesAll'
  BY <1>1, Alone DEF ResetTakesAll
<1>11. AppendsInPlace'
  <2> SUFFICES ASSUME ~overlapped, ~torn
               PROVE  InPlace(request[h])'
    <3>1. ~overlapped => Busy' \subseteq {h}
      BY <1>1, <1>2, BusyAfter
    <3>2. QED
      BY <1>1, <3>1 DEF AppendsInPlace
  <2>1. InPlace(request[h])
    BY <1>1 DEF AppendsInPlace, Busy
  <2>2. objects[request[h].key] = <<>> /\ request[h].key \in DOMAIN objects
    BY <1>1, <2>1 DEF InPlace
  <2>3. Overlay(Combined(h), <<>>) = Combined(h)
    BY RequestFacts, EmptySeq, OverlayFacts DEF Bytes
  <2>4. Combined(h) = Prefix(received + Len(request[h].chunk))
    <3>1. Combined(h) = Prefix(received) \o After(received, Len(request[h].chunk))
      BY <1>1, <2>1 DEF InPlace, Combined
    <3>2. QED
      BY <3>1, RequestFacts, PrefixGrows
  <2>5. objects'[request[h].key] = Prefix(received + Len(request[h].chunk))
    BY <1>1, <2>2, <2>3, <2>4
  <2>6. QED
    BY <1>1, <1>3, <1>5, <2>1, <2>2, <2>5 DEF InPlace
<1>12. OffsetTruthful'
  <2>1. Rewriting
    BY <1>1 DEF Rewriting
  <2>2. QED
    BY <1>6, <2>1 DEF OffsetTruthful
<1>13. NoBytesLeftBehind'
  <2>1. Busy \subseteq Handlers /\ \A g \in Handlers : request'[g].key = request[g].key
    BY <1>2, <1>3 DEF Busy
  <2>2. {request'[g].key : g \in Busy'} = {request[g].key : g \in Busy}
    BY <1>6, <2>1
  <2>3. QED
    BY <1>1, <1>5, <2>2 DEF NoBytesLeftBehind
<1>14. QED
  BY <1>7, <1>8, <1>9, <1>10, <1>11, <1>12, <1>13

\* The row takes over what was put; alone, the object is the prefix it now counts.
LEMMA CommitStep ==
  ASSUME IInv, NEW h \in Handlers, Commit(h)
  PROVE  IInv'
<1> USE DEF IInv
<1> DEFINE n == Len(Combined(h))
<1>1. /\ request[h].stage = "written"
      /\ request' = [request EXCEPT ![h] = Idle]
      /\ session = "open" =>
           /\ received' = n
           /\ key' = request[h].key
           /\ handle' = IF n >= FileLength THEN minted + 1 ELSE handle
           /\ minted' = IF n >= FileLength THEN minted + 1 ELSE minted
      /\ session # "open" => UNCHANGED <<received, key, handle, minted>>
      /\ UNCHANGED <<session, objects, reset, doomed, overlapped, torn, mishaps, disruptions>>
  BY DEF Commit, resetVars, bounds
<1>2. /\ n \in Nat /\ n = Len(request[h].base) + Len(request[h].chunk)
      /\ request[h].key \in 0 .. minted /\ minted \in Nat /\ received \in Nat
      /\ Len(request[h].chunk) \in Nat
  BY RequestFacts
<1> HIDE DEF n
<1>3. /\ minted' \in Nat /\ minted <= minted'
      /\ handle \in 0 .. minted => handle' \in 0 .. minted'
  <2>1. CASE session = "open" /\ n >= FileLength
    <3>1. minted' = minted + 1 /\ handle' = minted + 1
      BY <1>1, <2>1
    <3>2. QED
      BY <3>1, <1>2
  <2>2. CASE session = "open" /\ ~(n >= FileLength)
    <3>1. minted' = minted /\ handle' = handle
      BY <1>1, <2>2
    <3>2. QED
      BY <3>1, <1>2
  <2>3. CASE session # "open"
    <3>1. minted' = minted /\ handle' = handle
      BY <1>1, <2>3
    <3>2. QED
      BY <3>1, <1>2
  <2>4. QED
    BY <2>1, <2>2, <2>3
<1>4. /\ request'[h] = Idle
      /\ \A g \in Handlers : g # h => request'[g] = request[g]
  BY <1>1, RequestFacts
<1>5. request' \in [Handlers -> RequestsUpTo(minted')]
  <2>1. RequestsUpTo(minted) \subseteq RequestsUpTo(minted')
    BY <1>2, <1>3, RequestsMonotonic
  <2>2. QED
    BY <1>1, <2>1, RequestFacts
<1>6. request'[h].stage = "free" /\ Busy' \subseteq Busy
  BY <1>4 DEF Busy, Idle
<1>7. ~overlapped =>
        /\ Busy' = {} /\ Busy = {h}
        /\ session = "open" /\ handle = 0 /\ reset = "idle"
  BY <1>1, <1>4, <1>6, Alone DEF Busy
<1>8. ~overlapped /\ ~torn => n = received + Len(request[h].chunk) /\ InPlace(request[h])
  <2> SUFFICES ASSUME ~overlapped, ~torn
               PROVE  n = received + Len(request[h].chunk) /\ InPlace(request[h])
    OBVIOUS
  <2>1. InPlace(request[h])
    BY <1>1 DEF AppendsInPlace, Busy
  <2>2. request[h].base = Prefix(received)
    BY <1>1, <2>1 DEF InPlace
  <2>3. Len(request[h].base) = received
    BY <1>2, <2>2, PrefixFacts
  <2>4. QED
    BY <1>2, <2>1, <2>3
<1>9. TypeOK'
  <2>1. /\ received' \in Nat /\ key' \in 0 .. minted' /\ handle' \in 0 .. minted'
        /\ DOMAIN objects \subseteq 1 .. minted' /\ doomed \subseteq 1 .. minted'
    <3>1. handle' \in 0 .. minted'
      BY <1>3 DEF TypeOK
    <3>2. DOMAIN objects \subseteq 1 .. minted' /\ doomed \subseteq 1 .. minted'
      <4>1. 1 .. minted \subseteq 1 .. minted'
        BY <1>2, <1>3
      <4>2. QED
        BY <4>1 DEF TypeOK
    <3>3. CASE session = "open"
      <4>1. received' = n /\ key' = request[h].key
        BY <1>1, <3>3
      <4>2. QED
        <5>1. request[h].key \in 0 .. minted'
          BY <1>2, <1>3
        <5>2. received' \in Nat /\ key' \in 0 .. minted'
          BY <1>2, <4>1, <5>1
        <5>3. QED
          BY <3>1, <3>2, <5>2
    <3>4. CASE session # "open"
      <4>1. received' = received /\ key' = key
        BY <1>1, <3>4
      <4>2. key \in 0 .. minted
        BY DEF TypeOK
      <4>3. QED
        BY <1>2, <1>3, <3>1, <3>2, <4>1, <4>2
    <3>5. QED
      BY <3>3, <3>4
  <2>2. QED
    BY <1>1, <1>3, <1>5, <2>1 DEF TypeOK, RequestsUpTo, Bytes
<1>10. ClosedIsEmpty'
  <2>1. request[h].key # 0
    BY <1>1 DEF ClosedIsEmpty
  <2>2. \A g \in Handlers : request'[g].stage \in {"writing", "written"} => request'[g].key # 0
    BY <1>4, <1>6 DEF ClosedIsEmpty
  <2>3. CASE session = "open"
    BY <1>1, <2>1, <2>2, <2>3 DEF ClosedIsEmpty
  <2>4. CASE session # "open"
    BY <1>1, <2>2, <2>4 DEF ClosedIsEmpty
  <2>5. QED
    BY <2>3, <2>4
<1>11. OneAtATime' /\ AppendsInPlace'
  BY <1>1, <1>7 DEF OneAtATime, AppendsInPlace
<1>12. HandleMeansComplete'
  <2> SUFFICES ASSUME ~overlapped
               PROVE  handle' # 0 <=> received' >= FileLength
    BY <1>1, <1>7 DEF HandleMeansComplete
  <2>1. /\ handle = 0 /\ received' = n
        /\ handle' = IF n >= FileLength THEN minted + 1 ELSE handle
    BY <1>1, <1>7
  <2>2. minted + 1 # 0
    BY <1>2
  <2>3. QED
    BY <2>1, <2>2
<1>13. ResetTakesAll'
  BY <1>1, <1>7 DEF ResetTakesAll
<1>14. OffsetTruthful'
  <2> SUFFICES ASSUME ~overlapped, ~torn
               PROVE  key' \in DOMAIN objects' /\ objects'[key'] = Prefix(received')
    BY <1>1 DEF OffsetTruthful
  <2>1. /\ request[h].key \in DOMAIN objects
        /\ objects[request[h].key] = Prefix(received + Len(request[h].chunk))
    BY <1>1, <1>8 DEF InPlace
  <2>2. key' = request[h].key /\ received' = received + Len(request[h].chunk) /\ objects' = objects
    BY <1>1, <1>7, <1>8
  <2>3. QED
    BY <2>1, <2>2
<1>15. NoBytesLeftBehind'
  <2> SUFFICES ASSUME ~overlapped, ~torn
               PROVE  DOMAIN objects \subseteq {request[h].key}
    BY <1>1, <1>7 DEF NoBytesLeftBehind
  <2>1. DOMAIN objects \subseteq {key} \cup {request[h].key}
    BY <1>7 DEF NoBytesLeftBehind
  <2>2. 0 \notin DOMAIN objects
    BY DEF TypeOK
  <2>3. key # 0 => request[h].key = key
    BY <1>8 DEF InPlace
  <2>4. QED
    BY <2>1, <2>2, <2>3
<1>16. QED
  BY <1>9, <1>10, <1>11, <1>12, <1>13, <1>14, <1>15

\* A failed put takes the file; nothing is claimed of the bytes any more.
LEMMA PutFailsStep ==
  ASSUME IInv, NEW h \in Handlers, PutFails(h)
  PROVE  IInv'
<1> USE DEF IInv
<1>1. /\ request' = [request EXCEPT ![h] = Idle]
      /\ objects' = [k \in DOMAIN objects \ {request[h].key} |-> objects[k]]
      /\ torn' = TRUE
      /\ UNCHANGED <<session, received, key, handle, minted, reset, doomed, overlapped, disruptions>>
      /\ mishaps' \in 0 .. MaxMishaps
  BY UploadAssumption DEF PutFails, Counted, row, resetVars, TypeOK
<1>2. /\ request'[h] = Idle
      /\ \A g \in Handlers : g # h => request'[g] = request[g]
      /\ request' \in [Handlers -> RequestsUpTo(minted)]
  BY <1>1, RequestFacts
<1>3. request'[h].stage = "free" /\ Busy' \subseteq Busy
  BY <1>2 DEF Busy, Idle
<1>4. TypeOK'
  <2>1. DOMAIN objects' \subseteq DOMAIN objects /\ \A k \in DOMAIN objects' : objects'[k] = objects[k]
    BY <1>1
  <2>2. QED
    BY <1>1, <1>2, <2>1 DEF TypeOK, RequestsUpTo, Bytes
<1>5. ClosedIsEmpty'
  BY <1>1, <1>2, <1>3 DEF ClosedIsEmpty
<1>6. OneAtATime'
  BY <1>1, <1>3 DEF OneAtATime
<1>7. HandleMeansComplete' /\ AppendsInPlace' /\ ResetTakesAll' /\ OffsetTruthful' /\ NoBytesLeftBehind'
  BY <1>1 DEF HandleMeansComplete, AppendsInPlace, ResetTakesAll, OffsetTruthful, NoBytesLeftBehind
<1>8. QED
  BY <1>4, <1>5, <1>6, <1>7

-----------------------------------------------------------------------------
(* Resets and restarts *)

\* A reset or a restart uses up its bound only.
LEMMA DisruptFacts ==
  ASSUME TypeOK, Disrupt
  PROVE  mishaps' = mishaps /\ disruptions' \in 0 .. MaxDisruptions
BY UploadAssumption DEF Disrupt, TypeOK

\* A reset that meets no append lists the row's object.
LEMMA ResetListsStep ==
  ASSUME IInv, ResetLists
  PROVE  IInv'
<1> USE DEF IInv
<1>1. /\ reset = "idle" /\ reset' = "deleting"
      /\ doomed' = (IF session = "open" /\ key # 0 THEN {key} ELSE {})
      /\ overlapped' = (overlapped \/ Busy # {})
      /\ UNCHANGED <<session, received, key, handle, objects, minted, request, torn>>
      /\ mishaps' = mishaps /\ disruptions' \in 0 .. MaxDisruptions
  BY DisruptFacts DEF ResetLists, row
<1>2. Busy' = Busy /\ Rewriting' = Rewriting
  BY <1>1 DEF Busy, Rewriting
<1>3. TypeOK'
  BY <1>1 DEF TypeOK
<1>4. ClosedIsEmpty' /\ HandleMeansComplete'
  BY <1>1 DEF ClosedIsEmpty, HandleMeansComplete
<1>5. OneAtATime' /\ AppendsInPlace'
  BY <1>1, <1>2 DEF OneAtATime, AppendsInPlace
<1>6. ResetTakesAll'
  BY <1>1 DEF ResetTakesAll, ClosedIsEmpty
<1>7. OffsetTruthful'
  BY <1>1, <1>2 DEF OffsetTruthful
<1>8. NoBytesLeftBehind'
  BY <1>1, <1>2 DEF NoBytesLeftBehind
<1>9. QED
  BY <1>3, <1>4, <1>5, <1>6, <1>7, <1>8

\* The objects a reset listed go, and with them all there are.
LEMMA ResetDeletesStep ==
  ASSUME IInv, ResetDeletes
  PROVE  IInv'
<1> USE DEF IInv
<1>1. /\ reset = "deleting" /\ reset' = "deleted"
      /\ objects' = [k \in DOMAIN objects \ doomed |-> objects[k]]
      /\ UNCHANGED <<session, received, key, handle, minted, request, doomed, overlapped, torn,
                     mishaps, disruptions>>
  BY DEF ResetDeletes, row, bounds
<1>2. /\ DOMAIN objects' = DOMAIN objects \ doomed
      /\ \A k \in DOMAIN objects' : objects'[k] = objects[k]
  BY <1>1
<1>3. Busy' = Busy /\ (~overlapped => Busy = {})
  BY <1>1 DEF Busy, OneAtATime
<1>4. TypeOK'
  BY <1>1, <1>2 DEF TypeOK
<1>5. ClosedIsEmpty' /\ HandleMeansComplete'
  BY <1>1 DEF ClosedIsEmpty, HandleMeansComplete
<1>6. OneAtATime' /\ AppendsInPlace'
  BY <1>1, <1>3 DEF OneAtATime, AppendsInPlace
<1>7. ~overlapped /\ ~torn => DOMAIN objects' = {}
  <2> SUFFICES ASSUME ~overlapped, ~torn
               PROVE  DOMAIN objects \ doomed = {}
    BY <1>2
  <2>1. DOMAIN objects \subseteq {key} /\ 0 \notin DOMAIN objects
    BY <1>3 DEF NoBytesLeftBehind, TypeOK
  <2>2. doomed = (IF key = 0 THEN {} ELSE {key})
    BY <1>1 DEF ResetTakesAll
  <2>3. QED
    BY <2>1, <2>2
<1>8. ResetTakesAll' /\ NoBytesLeftBehind'
  BY <1>1, <1>7 DEF ResetTakesAll, NoBytesLeftBehind
<1>9. OffsetTruthful'
  BY <1>1 DEF OffsetTruthful
<1>10. QED
  BY <1>4, <1>5, <1>6, <1>8, <1>9

\* The rows follow, and the session is closed and empty.
LEMMA ResetFinishesStep ==
  ASSUME IInv, ResetFinishes
  PROVE  IInv'
<1> USE DEF IInv
<1>1. /\ reset = "deleted" /\ reset' = "idle" /\ doomed' = {}
      /\ session' = (IF session = "open" THEN "gone" ELSE session)
      /\ received' = 0 /\ key' = 0 /\ handle' = 0
      /\ UNCHANGED <<objects, minted, request, overlapped, torn, mishaps, disruptions>>
  BY DEF ResetFinishes, bounds
<1>2. session' # "open" /\ session' \in {"unopened", "open", "gone"}
  BY <1>1 DEF TypeOK
<1>3. Busy' = Busy /\ (~overlapped => Busy = {})
  BY <1>1 DEF Busy, OneAtATime
<1>4. TypeOK'
  BY <1>1, <1>2, RequestFacts DEF TypeOK
<1>5. ClosedIsEmpty'
  BY <1>1 DEF ClosedIsEmpty
<1>6. OneAtATime' /\ AppendsInPlace'
  BY <1>1, <1>3 DEF OneAtATime, AppendsInPlace
<1>7. HandleMeansComplete' /\ OffsetTruthful' /\ ResetTakesAll'
  BY <1>1, <1>2 DEF HandleMeansComplete, OffsetTruthful, ResetTakesAll
<1>8. NoBytesLeftBehind'
  BY <1>1 DEF NoBytesLeftBehind, ResetTakesAll
<1>9. QED
  BY <1>4, <1>5, <1>6, <1>7, <1>8

\* A restart forgets the appends; it tears nothing unless one was writing.
LEMMA RestartStep ==
  ASSUME IInv, Restart
  PROVE  IInv'
<1> USE DEF IInv
<1>1. /\ request' = [h \in Handlers |-> Idle]
      /\ reset' = "idle" /\ doomed' = {}
      /\ torn' = (torn \/ Rewriting \/ reset = "deleted")
      /\ UNCHANGED <<session, received, key, handle, objects, minted, overlapped>>
      /\ mishaps' = mishaps /\ disruptions' \in 0 .. MaxDisruptions
  BY DisruptFacts DEF Restart, row
<1>2. Busy' = {} /\ \A h \in Handlers : request'[h].stage = "free"
  BY <1>1 DEF Busy, Idle
<1>3. TypeOK'
  <2>1. request' \in [Handlers -> RequestsUpTo(minted)]
    BY <1>1, RequestFacts
  <2>2. torn' \in BOOLEAN
    BY <1>1
  <2>3. QED
    BY <1>1, <2>1, <2>2 DEF TypeOK, RequestsUpTo, Bytes
<1>4. ClosedIsEmpty'
  BY <1>1, <1>2 DEF ClosedIsEmpty
<1>5. OneAtATime' /\ AppendsInPlace'
  BY <1>2 DEF OneAtATime, AppendsInPlace
<1>6. HandleMeansComplete' /\ ResetTakesAll'
  BY <1>1 DEF HandleMeansComplete, ResetTakesAll
<1>7. OffsetTruthful'
  BY <1>1 DEF OffsetTruthful
<1>8. NoBytesLeftBehind'
  <2> SUFFICES ASSUME ~overlapped, ~torn, ~Rewriting
               PROVE  DOMAIN objects \subseteq IF session = "open" THEN {key} ELSE {}
    BY <1>1, <1>2 DEF NoBytesLeftBehind
  <2>1. \A h \in Busy : request[h].key = key /\ session = "open"
    <3> SUFFICES ASSUME NEW h \in Busy
                 PROVE  request[h].key = key /\ session = "open"
      OBVIOUS
    <3>1. h \in Handlers /\ request[h].stage \in {"reading", "putting"}
      BY RequestFacts DEF Busy, Rewriting, Stage
    <3>2. InPlace(request[h])
      BY DEF AppendsInPlace
    <3>3. QED
      BY <3>1, <3>2, Alone DEF InPlace
  <2>2. QED
    BY <2>1 DEF NoBytesLeftBehind
<1>9. QED
  BY <1>3, <1>4, <1>5, <1>6, <1>7, <1>8

\* Nothing changes, so nothing breaks.
LEMMA StutterStep ==
  ASSUME IInv, UNCHANGED vars
  PROVE  IInv'
BY DEF IInv, vars, TypeOK, ClosedIsEmpty, OneAtATime, HandleMeansComplete, AppendsInPlace, InPlace,
       ResetTakesAll, OffsetTruthful, NoBytesLeftBehind, Busy, Rewriting

\* Every step keeps the invariant, action by action.
LEMMA StepInv == IInv /\ [Next]_vars => IInv'
<1> SUFFICES ASSUME IInv, [Next]_vars
             PROVE  IInv'
  OBVIOUS
<1>1. ASSUME NEW h \in Handlers, NEW n \in 0 .. FileLength, BeginAppend(h, n)
      PROVE  IInv'
  BY <1>1, BeginAppendStep
<1>2. ASSUME NEW h \in Handlers,
             ReadObject(h) \/ OpenForWriting(h) \/ Written(h) \/ Commit(h) \/ PutFails(h)
      PROVE  IInv'
  BY <1>2, ReadObjectStep, OpenForWritingStep, WrittenStep, CommitStep, PutFailsStep
<1>3. CASE CreateSession
  BY <1>3, CreateStep
<1>4. CASE ResetLists \/ ResetDeletes \/ ResetFinishes \/ Restart
  BY <1>4, ResetListsStep, ResetDeletesStep, ResetFinishesStep, RestartStep
<1>5. CASE UNCHANGED vars
  BY <1>5, StutterStep
<1>6. QED
  BY <1>1, <1>2, <1>3, <1>4, <1>5 DEF Next

-----------------------------------------------------------------------------
(* The theorems *)

\* The invariant holds of every behaviour.
LEMMA Invariance == Spec => []IInv
BY InitInv, StepInv, PTL DEF Spec

\* Every variable keeps its type, for any file and any number of requests.
THEOREM TypeCorrect == Spec => []TypeOK
<1>1. IInv => TypeOK
  BY DEF IInv
<1>2. QED
  BY <1>1, Invariance, PTL

\* "The offset is truthful": received_bytes tells what the object holds.
THEOREM OffsetTruthfulHolds == Spec => []OffsetTruthful
<1>1. IInv => OffsetTruthful
  BY DEF IInv
<1>2. QED
  BY <1>1, Invariance, PTL

\* append() mints the handle when the file is complete, and not before.
THEOREM HandleMeansCompleteHolds == Spec => []HandleMeansComplete
<1>1. IInv => HandleMeansComplete
  BY DEF IInv
<1>2. QED
  BY <1>1, Invariance, PTL

\* Resets and appends leave no bytes that no row and no append knows.
THEOREM NoBytesLeftBehindHolds == Spec => []NoBytesLeftBehind
<1>1. IInv => NoBytesLeftBehind
  BY DEF IInv
<1>2. QED
  BY <1>1, Invariance, PTL

\* With a handle there is no append in flight, so only a reset or an overlap can take
\* its bytes.
LEMMA HandleStep ==
  ASSUME IInv, [Next]_vars, ~overlapped', handle # 0, session' = "open", reset' = "idle"
  PROVE  handle' = handle /\ key' = key /\ objects' = objects
<1>1. CASE overlapped
  <2>1. overlapped'
    BY <1>1 DEF Next, vars, CreateSession, BeginAppend, ReadObject, OpenForWriting, Written, Commit,
                PutFails, ResetLists, ResetDeletes, ResetFinishes, Restart
  <2>2. QED
    BY <2>1
<1>2. CASE ~overlapped
  <2>1. \A h \in Handlers : request[h].stage = "free"
    BY <1>2 DEF IInv, OneAtATime, Busy
  <2>2. session # "unopened"
    BY DEF IInv, ClosedIsEmpty
  <2>3. \A h \in Handlers : ~ReadObject(h) /\ ~OpenForWriting(h) /\ ~Written(h) /\ ~Commit(h) /\ ~PutFails(h)
    BY <2>1 DEF ReadObject, OpenForWriting, Written, Commit, PutFails
  <2>4. \A h \in Handlers, n \in 0 .. FileLength : ~BeginAppend(h, n)
    BY DEF BeginAppend
  <2>5. ~CreateSession /\ ~ResetLists /\ ~ResetDeletes /\ ~ResetFinishes
    BY <2>2 DEF CreateSession, ResetLists, ResetDeletes, ResetFinishes
  <2>6. Restart \/ UNCHANGED vars
    BY <2>3, <2>4, <2>5 DEF Next
  <2>7. QED
    BY <2>6 DEF Restart, row, vars
<1>3. QED
  BY <1>1, <1>2

\* A handle keeps naming the same bytes until a reset.
THEOREM HandleKeepsItsBytesHolds == Spec => HandleKeepsItsBytes
<1>1. IInv /\ [Next]_vars =>
        [~overlapped' /\ handle # 0 /\ session' = "open" /\ reset' = "idle" =>
           handle' = handle /\ key' = key /\ objects' = objects]_vars
  BY HandleStep
<1>2. QED
  BY <1>1, Invariance, PTL DEF Spec, HandleKeepsItsBytes

-----------------------------------------------------------------------------
(***************************************************************************)
(* The media store, for any number of objects, numbers and requests.       *)
(*                                                                         *)
(* An invariant for each promise: every file has a row or somebody who     *)
(* waits for it (FilesInOrder), every row a file or somebody who takes     *)
(* care of it (RowsInOrder).  Both need to know which jobs can overlap     *)
(* while the promise stands (Unspoiled), that an upload in flight is       *)
(* nobody else's (Fresh), and that a row never changes its number, be it   *)
(* exported, deleted and imported again in between (OneHome): the walk     *)
(* over an account deletes the files it listed per number.                 *)
(***************************************************************************)
\* What an operation is, and the records it keeps.
MediaOps == {"idle", "upload", "export"} \cup Removing
Database == [account : BOOLEAN, phones : SUBSET Phones, owner : [Objects -> Phones \cup {"none"}]]
File == [db : Database, bytes : SUBSET Objects]
Jobs == [op : MediaOps, target : Phones \cup {"none"}, keys : SUBSET Objects,
         later : SUBSET (Objects \cup Phones), file : File]

\* What an operation keeps in its job.
WellFormed(j) ==
  /\ j.op = "deleteAccount" => j.later \subseteq Phones
  /\ j.op # "deleteAccount" => j.later \subseteq Objects
  /\ j.op \in {"upload", "deleteNumber", "deleteAccount"} => j.target \in Phones
  /\ j.op = "deleteMedia" => \E o \in Objects : j.later = {o} /\ j.keys \subseteq {o}

\* The types of the variables, the jobs well formed.
MediaTypes ==
  /\ db \in Database /\ exported \in File
  /\ disk \subseteq Objects /\ uploaded \subseteq Objects
  /\ job \in [Requests -> Jobs]
  /\ \A w \in Requests : WellFormed(job[w])

\* No row without its number, no number without the account; a file has bytes of its rows only.
ConsistentRows(d) ==
  /\ \A o \in Rows(d) : d.owner[o] \in d.phones
  /\ d.phones # {} => d.account
ConsistentFile(f) == ConsistentRows(f.db) /\ f.bytes \subseteq Rows(f.db)

\* The database, the last snapshot file, and those that are being written.
Consistent ==
  /\ ConsistentRows(db) /\ ConsistentFile(exported)
  /\ \A w \in Requests :
       /\ ConsistentFile(job[w].file)
       /\ job[w].op = "export" => job[w].keys \subseteq Rows(job[w].file.db)

\* The objects a job names: those it works on, and those of the snapshot it holds.
Touched(j) ==
  j.keys \cup Rows(j.file.db) \cup (IF j.op = "deleteAccount" THEN {} ELSE j.later)

\* Nothing names an object that was not uploaded.
AllUploaded ==
  /\ disk \cup Rows(db) \cup Rows(exported.db) \subseteq uploaded
  /\ \A w \in Requests : Touched(job[w]) \subseteq uploaded

\* An object that is being uploaded is nobody else's yet.
Fresh ==
  \A w \in Requests : job[w].op = "upload" =>
    \A o \in job[w].keys :
      /\ o \in disk
      /\ o \notin Rows(db) \cup Rows(exported.db)
      /\ \A v \in Requests \ {w} : o \notin Touched(job[v])

\* Jobs i and j may overlap without more being spoiled than s says.
Compatible(i, j, s) ==
  /\ "files" \notin s =>
       /\ i.op = "upload" => ~ Covers(j, i.target)
       /\ j.op = "upload" => ~ Covers(i, j.target)
       /\ i.op = "import" => j.op \notin Removing \cup {"upload"}
       /\ j.op = "import" => i.op \notin Removing \cup {"upload"}
  /\ "rows" \notin s =>
       /\ i.op = "import" => j.op # "import"
       /\ i.op = "export" => j.op \notin Removing
       /\ j.op = "export" => i.op \notin Removing

\* "spoiled" knows of every overlap there is.
Unspoiled == \A v, w \in Requests : v # w => Compatible(job[v], job[w], spoiled)

\* An object belongs to one number for good: wherever its row is found, its owner is the same.
Agrees(d, home) == \A o \in Rows(d) : d.owner[o] = home[o]
Homed(j, home) ==
  /\ Agrees(j.file.db, home)
  /\ j.op \in {"upload", "deleteNumber", "deleteAccount"} => \A o \in j.keys : j.target = home[o]
Home(home) ==
  /\ Agrees(db, home) /\ Agrees(exported.db, home)
  /\ \A w \in Requests : Homed(job[w], home)
OneHome == \E home \in [Objects -> Phones \cup {"none"}] : Home(home)

\* The objects whose row job j takes away from rows d.
Doomed(j, d) ==
  {o \in Objects :
     \/ j.op \in {"deleteNumber", "deleteAccount"} /\ d.owner[o] = j.target
     \/ j.op = "reset" /\ d.owner[o] # "none"
     \/ j.op = "deleteMedia" /\ o \in j.later}

\* A job has the files of the rows it takes away on its list, and knows where the others stand.
InOrder(j, d, files) ==
  /\ Doomed(j, d) \cap files \subseteq j.keys
  /\ j.op = "upload" => j.target \in d.phones
  /\ j.op = "deleteAccount" => \A o \in Rows(d) : d.owner[o] \in j.later \cup {j.target}
  /\ j.op = "import" => j.later \subseteq Rows(d)

\* Job j will give object o a row, or delete its file.
Awaits(j, o) == j.op \in {"upload", "import"} /\ o \in j.keys

\* Every file has a row or is awaited: with the jobs in order this is NoFileLeftBehind, inductively.
FilesInOrder ==
  "files" \notin spoiled =>
    /\ \A o \in disk : o \in Rows(db) \/ \E w \in Requests : Awaits(job[w], o)
    /\ \A w \in Requests : InOrder(job[w], db, disk)

\* Job j will take the row of object o away, or write its file back.
Takes(j, o, d) ==
  \/ j.op = "deleteMedia" /\ o \in j.later /\ j.keys = {}
  \/ j.op \in {"deleteNumber", "deleteAccount"} /\ j.target = d.owner[o]
  \/ j.op = "reset"
  \/ j.op = "import" /\ o \in j.later

\* A snapshot has, or will have, the bytes of all its rows; an import deletes no file of a row.
Restorable(j, d, files) ==
  /\ j.op = "export" => Rows(j.file.db) \subseteq j.file.bytes \cup j.keys /\ j.keys \subseteq files
  /\ j.op = "import" => j.keys \cap Rows(d) = {}

\* Every row has a file or is taken care of, the same for snapshots: RowCanBeDownloaded, inductively.
RowsInOrder ==
  "rows" \notin spoiled =>
    /\ \A o \in Rows(db) : o \in disk \/ \E w \in Requests : Takes(job[w], o, db)
    /\ Rows(exported.db) \subseteq exported.bytes
    /\ \A w \in Requests : Restorable(job[w], db, disk)

\* The inductive invariant.
MediaInv ==
  /\ MediaTypes
  /\ Consistent
  /\ AllUploaded
  /\ Fresh
  /\ Unspoiled
  /\ OneHome
  /\ FilesInOrder
  /\ RowsInOrder
-----------------------------------------------------------------------------
\* The empty database, the empty snapshot file, and no job at all.
LEMMA EmptyFacts ==
  /\ EmptyDb \in Database /\ NoFile \in File /\ NoJob \in Jobs
  /\ Rows(EmptyDb) = {} /\ EmptyDb.phones = {}
  /\ ConsistentRows(EmptyDb) /\ ConsistentFile(NoFile)
  /\ NoFile.db = EmptyDb /\ NoFile.bytes = {}
  /\ NoJob.op = "idle" /\ NoJob.keys = {} /\ NoJob.later = {} /\ NoJob.file = NoFile
  /\ WellFormed(NoJob) /\ Touched(NoJob) = {}
<1>1. EmptyDb \in Database /\ Rows(EmptyDb) = {} /\ EmptyDb.phones = {}
  BY DEF EmptyDb, Database, Rows
<1>2. NoFile \in File /\ NoFile.db = EmptyDb /\ NoFile.bytes = {}
  BY <1>1 DEF NoFile, File
<1>3. /\ NoJob \in Jobs
      /\ NoJob.op = "idle" /\ NoJob.keys = {} /\ NoJob.later = {} /\ NoJob.file = NoFile
  BY <1>2 DEF NoJob, Job, Jobs, MediaOps
<1>4. ConsistentRows(EmptyDb) /\ ConsistentFile(NoFile)
  BY <1>1, <1>2 DEF ConsistentRows, ConsistentFile
<1>5. WellFormed(NoJob) /\ Touched(NoJob) = {}
  BY <1>1, <1>2, <1>3 DEF WellFormed, Touched
<1> QED BY <1>1, <1>2, <1>3, <1>4, <1>5

\* The fields of a job.
LEMMA JobFacts ==
  ASSUME NEW op, NEW target, NEW keys, NEW later, NEW file
  PROVE  LET j == Job(op, target, keys, later, file) IN
         /\ j.op = op /\ j.target = target /\ j.keys = keys /\ j.later = later /\ j.file = file
         /\ op \in MediaOps /\ target \in Phones \cup {"none"} /\ keys \subseteq Objects
            /\ later \subseteq Objects \cup Phones /\ file \in File => j \in Jobs
BY DEF Job, Jobs

\* The seed adds, and never takes away.
LEMMA SeededFacts ==
  ASSUME NEW d \in Database
  PROVE  /\ Seeded(d) \in Database
         /\ Seeded(d).account = TRUE /\ Seeded(d).phones = d.phones \cup SeededPhones
         /\ Seeded(d).owner = d.owner
BY MediaAssumption DEF Seeded, Database

\* What is left of rows d without the numbers P, and their media.
LEMMA WithoutFacts ==
  ASSUME NEW d \in Database, NEW P
  PROVE  /\ WithoutNumbers(d, P) \in Database
         /\ WithoutNumbers(d, P).account = d.account
         /\ WithoutNumbers(d, P).phones = d.phones \ P
         /\ \A o \in Objects :
              WithoutNumbers(d, P).owner[o] = IF d.owner[o] \in P THEN "none" ELSE d.owner[o]
BY DEF WithoutNumbers, Database

\* Becomes changes the job of one request.
LEMMA BecomesFacts ==
  ASSUME job \in [Requests -> Jobs], NEW w \in Requests, NEW j \in Jobs, Becomes(w, j)
  PROVE  /\ job' \in [Requests -> Jobs]
         /\ job'[w] = j
         /\ \A v \in Requests \ {w} : job'[v] = job[v]
BY DEF Becomes

\* Risks says all that Compatible asks.
LEMMA RisksCompatible ==
  ASSUME NEW i, NEW j, NEW s, Risks(i, j) \subseteq s
  PROVE  Compatible(i, j, s) /\ Compatible(j, i, s)
<1>1. "files" \notin s => Compatible(i, j, {"rows"}) /\ Compatible(j, i, {"rows"})
  BY DEF Risks, Compatible
<1>2. "rows" \notin s => Compatible(i, j, {"files"}) /\ Compatible(j, i, {"files"})
  BY DEF Risks, Compatible
<1> QED BY <1>1, <1>2 DEF Compatible
-----------------------------------------------------------------------------
\* A step of request w leaves the jobs of the others alone.
Only(w) == \A v \in Requests \ {w} : job'[v] = job[v]

\* What a job that starts may assume of the others.
LEMMA StartFacts ==
  ASSUME NEW w \in Requests, NEW j, Starts(w, j)
  PROVE  /\ job[w] = NoJob /\ spoiled \subseteq spoiled'
         /\ \A v \in Requests \ {w} :
              Compatible(j, job[v], spoiled') /\ Compatible(job[v], j, spoiled')
<1>1. \A v \in Requests \ {w} : Risks(j, job[v]) \subseteq spoiled'
  BY DEF Starts
<1>2. job[w] = NoJob /\ spoiled \subseteq spoiled'
  BY DEF Starts
<1> QED BY <1>1, <1>2, RisksCompatible

\* The same operation of the same request, or its end.
SameRisk(i, j) ==
  i.op = "idle" \/ (i.op = j.op /\ (i.target = j.target \/ i.op \notin {"upload", "deleteNumber"}))

\* It overlaps with no more than before.
LEMMA SameRiskFacts ==
  ASSUME NEW i, NEW j, NEW k, NEW s, NEW t, SameRisk(i, j), s \subseteq t
  PROVE  /\ Compatible(j, k, s) => Compatible(i, k, t)
         /\ Compatible(k, j, s) => Compatible(k, i, t)
BY DEF SameRisk, Compatible, Covers, Removing, Wiping

\* "spoiled" still knows every overlap when a job goes on, or ends.
LEMMA UnspoiledKept ==
  ASSUME Unspoiled, spoiled \subseteq spoiled', NEW w \in Requests, Only(w), SameRisk(job'[w], job[w])
  PROVE  Unspoiled'
<1>1. \A v \in Requests : SameRisk(job'[v], job[v])
  BY DEF Only, SameRisk
<1> SUFFICES ASSUME NEW u \in Requests, NEW v \in Requests, u # v
             PROVE  Compatible(job'[u], job'[v], spoiled')
  BY DEF Unspoiled
<1>2. Compatible(job[u], job[v], spoiled)
  BY DEF Unspoiled
<1>3. Compatible(job'[u], job[v], spoiled')
  BY <1>1, <1>2, SameRiskFacts
<1> QED BY <1>1, <1>3, SameRiskFacts

\* And when one starts.
LEMMA UnspoiledStart ==
  ASSUME Unspoiled, NEW w \in Requests, NEW j, Starts(w, j), Only(w), SameRisk(job'[w], j)
  PROVE  Unspoiled'
<1> SUFFICES ASSUME NEW u \in Requests, NEW v \in Requests, u # v
             PROVE  Compatible(job'[u], job'[v], spoiled')
  BY DEF Unspoiled
<1>1. spoiled' \subseteq spoiled'
  OBVIOUS
<1>2. CASE u # w /\ v # w
  <2>1. Compatible(job[u], job[v], spoiled) /\ job'[u] = job[u] /\ job'[v] = job[v]
    BY <1>2 DEF Unspoiled, Only
  <2>2. SameRisk(job[u], job[u])
    BY DEF SameRisk
  <2> QED BY <2>1, <2>2, StartFacts, SameRiskFacts
<1>3. CASE u = w
  <2>1. job'[v] = job[v] /\ Compatible(j, job[v], spoiled')
    BY <1>3, StartFacts DEF Only
  <2> QED BY <1>1, <1>3, <2>1, SameRiskFacts
<1>4. CASE v = w
  <2>1. job'[u] = job[u] /\ Compatible(job[u], j, spoiled')
    BY <1>4, StartFacts DEF Only
  <2> QED BY <1>1, <1>4, <2>1, SameRiskFacts
<1> QED BY <1>2, <1>3, <1>4

\* Everything w touches now was there, or its own, before.
LEMMA TouchedKept ==
  ASSUME AllUploaded, Fresh, NEW w \in Requests, Only(w), job'[w].op # "upload",
         Touched(job'[w]) \cup Rows(db') \cup Rows(exported'.db)
           \subseteq Rows(db) \cup Rows(exported.db) \cup Touched(job[w]),
         disk \ Touched(job[w]) \subseteq disk', disk' \subseteq disk \cup Touched(job[w]),
         uploaded' = uploaded
  PROVE  AllUploaded' /\ Fresh'
<1>1. AllUploaded'
  BY DEF AllUploaded, Only
<1>2. Fresh'
  BY DEF Fresh, Only, Touched
<1> QED BY <1>1, <1>2

\* A job that goes on names no new objects.
LEMMA Shrinks ==
  ASSUME NEW j, NEW k, k.op = j.op, k.keys \subseteq j.keys, k.later \subseteq j.later,
         k.file.db = j.file.db
  PROVE  Touched(k) \subseteq Touched(j)
BY DEF Touched

\* Homes stay as long as what w holds, and the database, agree with them.
LEMMA HomeKept ==
  ASSUME OneHome, NEW w \in Requests, Only(w),
         \A home : Home(home) =>
           Agrees(db', home) /\ Agrees(exported'.db, home) /\ Homed(job'[w], home)
  PROVE  OneHome'
<1>1. PICK home \in [Objects -> Phones \cup {"none"}] : Home(home)
  BY DEF OneHome
<1>2. Home(home)'
  BY <1>1 DEF Home, Only
<1> QED BY <1>2 DEF OneHome

\* Rows of d, with their owners.
Within(e, d) == \A o \in Rows(e) : o \in Rows(d) /\ e.owner[o] = d.owner[o]

\* Fewer rows agree with the same homes.
LEMMA AgreesWithin ==
  ASSUME NEW d, NEW e, NEW home, Agrees(d, home), Within(e, d)
  PROVE  Agrees(e, home)
BY DEF Agrees, Within

\* A job stays in order while others take rows and files away.
LEMMA InOrderShrinks ==
  ASSUME NEW j, NEW d, NEW e, NEW f, NEW g, InOrder(j, d, f),
         e \in Database, d \in Database, WellFormed(j),
         Within(e, d), g \subseteq f,
         j.op = "upload" /\ j.target \in d.phones => j.target \in e.phones,
         j.op = "import" => Rows(d) \subseteq Rows(e)
  PROVE  InOrder(j, e, g)
<1>1. Doomed(j, e) \subseteq Doomed(j, d)
  BY MediaAssumption DEF Doomed, Within, Rows, WellFormed
<1> QED BY <1>1 DEF InOrder, Within

\* A step that adds neither rows nor files keeps the files in order.
LEMMA FilesStep ==
  ASSUME FilesInOrder, spoiled \subseteq spoiled', NEW w \in Requests, Only(w),
         MediaTypes, db' \in Database, Within(db', db), disk' \subseteq disk,
         "files" \notin spoiled' =>
           /\ \A o \in disk' \cap Rows(db) : o \in Rows(db')
           /\ \A o \in disk' : Awaits(job[w], o) => o \in Rows(db') \/ Awaits(job'[w], o)
           /\ \A v \in Requests \ {w} : job[v].op = "upload" /\ job[v].target \in db.phones
                                          => job[v].target \in db'.phones
           /\ \A v \in Requests \ {w} : job[v].op = "import" => Rows(db) \subseteq Rows(db')
           /\ InOrder(job'[w], db', disk')
  PROVE  FilesInOrder'
<1> SUFFICES ASSUME "files" \notin spoiled'
             PROVE  /\ \A o \in disk' : o \in Rows(db') \/ \E v \in Requests : Awaits(job'[v], o)
                    /\ \A v \in Requests : InOrder(job'[v], db', disk')
  BY DEF FilesInOrder
<1>1. ASSUME NEW o \in disk' PROVE o \in Rows(db') \/ \E v \in Requests : Awaits(job'[v], o)
  BY <1>1 DEF FilesInOrder, Only
<1>2. ASSUME NEW v \in Requests PROVE InOrder(job'[v], db', disk')
  <2>1. CASE v = w
    BY <2>1
  <2>2. CASE v # w
    <3>1. job'[v] = job[v] /\ WellFormed(job[v]) /\ InOrder(job[v], db, disk)
      BY <2>2 DEF Only, MediaTypes, FilesInOrder
    <3> QED BY <2>2, <3>1, InOrderShrinks DEF MediaTypes
  <2> QED BY <2>1, <2>2
<1> QED BY <1>1, <1>2

\* A step keeps the rows in order when each row keeps its file, or its job.
LEMMA RowsStep ==
  ASSUME RowsInOrder, spoiled \subseteq spoiled', NEW w \in Requests, Only(w),
         "rows" \notin spoiled' =>
           /\ \A o \in Rows(db') :
                \/ o \in disk' \/ Takes(job'[w], o, db')
                \/ /\ o \in Rows(db) \ disk /\ db'.owner[o] = db.owner[o]
                   /\ ~ Takes(job[w], o, db)
           /\ Rows(exported'.db) \subseteq exported'.bytes
           /\ \A v \in Requests \ {w} :
                /\ job[v].op = "export" => job[v].keys \cap disk \subseteq disk'
                /\ job[v].op = "import" => job[v].keys \cap Rows(db') \subseteq Rows(db)
           /\ Restorable(job'[w], db', disk')
  PROVE  RowsInOrder'
<1> SUFFICES ASSUME "rows" \notin spoiled'
             PROVE  /\ \A o \in Rows(db') : o \in disk' \/ \E v \in Requests : Takes(job'[v], o, db')
                    /\ Rows(exported'.db) \subseteq exported'.bytes
                    /\ \A v \in Requests : Restorable(job'[v], db', disk')
  BY DEF RowsInOrder
<1>1. ASSUME NEW o \in Rows(db') PROVE o \in disk' \/ \E v \in Requests : Takes(job'[v], o, db')
  <2>1. CASE o \in disk' \/ Takes(job'[w], o, db')
    BY <2>1
  <2>2. CASE o \in Rows(db) \ disk /\ db'.owner[o] = db.owner[o] /\ ~ Takes(job[w], o, db)
    <3>1. PICK v \in Requests : Takes(job[v], o, db)
      BY <2>2 DEF RowsInOrder
    <3>2. v # w /\ job'[v] = job[v]
      BY <2>2, <3>1 DEF Only
    <3>3. Takes(job[v], o, db')
      BY <2>2, <3>1 DEF Takes
    <3> QED BY <3>2, <3>3
  <2> QED BY <2>1, <2>2
<1>2. ASSUME NEW v \in Requests PROVE Restorable(job'[v], db', disk')
  <2>1. CASE v = w
    BY <2>1
  <2>2. CASE v # w
    <3>1. job'[v] = job[v] /\ Restorable(job[v], db, disk)
      BY <2>2 DEF Only, RowsInOrder
    <3> QED BY <2>2, <3>1 DEF Restorable
  <2> QED BY <2>1, <2>2
<1> QED BY <1>1, <1>2

\* A free request disturbs nothing.
LEMMA NoJobFacts ==
  /\ NoJob \in Jobs /\ WellFormed(NoJob) /\ Touched(NoJob) = {} /\ NoJob.op = "idle"
  /\ NoJob.keys = {} /\ ConsistentFile(NoJob.file) /\ Rows(NoJob.file.db) = {}
  /\ \A j : SameRisk(NoJob, j)
  /\ \A home : Homed(NoJob, home)
  /\ \A d, files : InOrder(NoJob, d, files) /\ Restorable(NoJob, d, files)
  /\ \A o : ~ Awaits(NoJob, o)
  /\ \A o, d : ~ Takes(NoJob, o, d)
<1>1. \A d, files : InOrder(NoJob, d, files) /\ Restorable(NoJob, d, files)
  BY EmptyFacts DEF InOrder, Doomed, Restorable
<1>2. \A home : Homed(NoJob, home)
  BY EmptyFacts DEF Homed, Agrees
<1> QED BY <1>1, <1>2, EmptyFacts DEF SameRisk, Awaits, Takes

\* The two parts of the invariant that only look at each job by itself.
LEMMA TypesKept ==
  ASSUME MediaTypes, NEW w \in Requests, Only(w), job' \in [Requests -> Jobs], WellFormed(job'[w]),
         db' \in Database, exported' \in File, disk' \subseteq Objects, uploaded' \subseteq Objects
  PROVE  MediaTypes'
BY DEF MediaTypes, Only

LEMMA ConsistentKept ==
  ASSUME Consistent, NEW w \in Requests, Only(w),
         ConsistentRows(db'), ConsistentFile(exported'), ConsistentFile(job'[w].file),
         job'[w].op = "export" => job'[w].keys \subseteq Rows(job'[w].file.db)
  PROVE  Consistent'
BY DEF Consistent, Only

\* Each action keeps the invariant.
LEMMA BeginUploadStep ==
  ASSUME MediaInv, NEW w \in Requests, NEW o \in Objects, NEW p \in Phones, BeginUpload(w, o, p)
  PROVE  MediaInv'
<1> USE DEF MediaInv
<1> DEFINE j == Job("upload", p, {o}, {}, NoFile)
<1>1. /\ j \in Jobs /\ WellFormed(j) /\ Touched(j) = {o}
      /\ j.op = "upload" /\ j.target = p /\ j.keys = {o} /\ j.file = NoFile
  BY JobFacts, EmptyFacts DEF MediaOps, WellFormed, Touched
<1>2. Starts(w, j) /\ Becomes(w, j)
  BY <1>1, JobFacts DEF BeginUpload, Waits
<1> HIDE DEF j
<1>3. job' \in [Requests -> Jobs] /\ job'[w] = j /\ Only(w)
  BY <1>1, <1>2, BecomesFacts DEF MediaTypes, Only
<1>4. /\ UNCHANGED <<db, exported>> /\ p \in db.phones
      /\ o \notin uploaded /\ uploaded' = uploaded \cup {o} /\ disk' = disk \cup {o}
  BY DEF BeginUpload
<1>5. MediaTypes'
  BY <1>1, <1>3, <1>4, TypesKept DEF MediaTypes
<1>6. Consistent'
  BY <1>1, <1>3, <1>4, EmptyFacts, ConsistentKept DEF Consistent
<1>7. AllUploaded'
  BY <1>1, <1>3, <1>4 DEF AllUploaded, Only
<1>8. Fresh'
  <2> SUFFICES ASSUME NEW v \in Requests, job'[v].op = "upload", NEW x \in job'[v].keys
               PROVE  /\ x \in disk' /\ x \notin Rows(db') \cup Rows(exported'.db)
                      /\ \A u \in Requests \ {v} : x \notin Touched(job'[u])
    BY DEF Fresh
  <2>1. CASE v = w
    BY <1>1, <1>3, <1>4, <2>1 DEF AllUploaded, Only
  <2>2. CASE v # w
    <3>1. job'[v] = job[v] /\ x \in uploaded /\ x # o
      BY <1>3, <1>4, <2>2 DEF Only, AllUploaded, Touched
    <3> QED BY <1>1, <1>3, <1>4, <2>2, <3>1 DEF Fresh, Only
  <2> QED BY <2>1, <2>2
<1>9. Unspoiled'
  <2>1. SameRisk(job'[w], j)
    BY <1>3 DEF SameRisk
  <2> QED BY <1>2, <1>3, <2>1, UnspoiledStart
<1>10. OneHome'
  <2>1. PICK home \in [Objects -> Phones \cup {"none"}] : Home(home)
    BY DEF OneHome
  <2> DEFINE more == [home EXCEPT ![o] = p]
  <2>2. \A x \in Objects : x \in uploaded => more[x] = home[x]
    BY <1>4
  <2>3. more[o] = p /\ more \in [Objects -> Phones \cup {"none"}]
    OBVIOUS
  <2> HIDE DEF more
  <2>4. Agrees(db, more) /\ Agrees(exported.db, more)
    BY <2>1, <2>2 DEF Home, Agrees, AllUploaded, Rows
  <2>5. \A v \in Requests \ {w} : Homed(job[v], more)
    <3> SUFFICES ASSUME NEW v \in Requests \ {w} PROVE Homed(job[v], more)
      OBVIOUS
    <3>1. Touched(job[v]) \subseteq uploaded /\ Homed(job[v], home) /\ job[v].keys \subseteq Objects
      BY <2>1 DEF AllUploaded, Home, MediaTypes, Jobs
    <3> QED BY <2>2, <3>1 DEF Homed, Agrees, Touched, Rows
  <2>6. Homed(j, more)
    BY <1>1, <2>3, EmptyFacts DEF Homed, Agrees
  <2>7. Home(more)'
    BY <1>3, <1>4, <2>4, <2>5, <2>6 DEF Home, Only
  <2> QED BY <2>3, <2>7 DEF OneHome
<1>11. FilesInOrder'
  <2> SUFFICES ASSUME "files" \notin spoiled'
               PROVE  /\ \A x \in disk' : x \in Rows(db) \/ \E v \in Requests : Awaits(job'[v], x)
                      /\ \A v \in Requests : InOrder(job'[v], db, disk')
    BY <1>4 DEF FilesInOrder
  <2>1. "files" \notin spoiled
    BY <1>2, StartFacts
  <2>2. ASSUME NEW x \in disk' PROVE x \in Rows(db) \/ \E v \in Requests : Awaits(job'[v], x)
    <3>1. CASE x = o
      BY <1>1, <1>3, <3>1 DEF Awaits
    <3>2. CASE x # o
      <4>1. x \in Rows(db) \/ \E v \in Requests : Awaits(job[v], x)
        BY <1>4, <2>1, <2>2, <3>2 DEF FilesInOrder
      <4>2. ~ Awaits(job[w], x)
        BY <1>2, StartFacts, NoJobFacts
      <4> QED BY <1>3, <4>1, <4>2 DEF Only
    <3> QED BY <3>1, <3>2
  <2>3. ASSUME NEW v \in Requests PROVE InOrder(job'[v], db, disk')
    <3>1. CASE v = w
      BY <1>1, <1>3, <1>4, <3>1 DEF InOrder, Doomed
    <3>2. CASE v # w
      <4>1. job'[v] = job[v] /\ InOrder(job[v], db, disk) /\ Touched(job[v]) \subseteq uploaded
            /\ Rows(db) \subseteq uploaded /\ WellFormed(job[v])
        BY <1>3, <2>1, <3>2 DEF Only, FilesInOrder, AllUploaded, MediaTypes
      <4>2. o \notin Doomed(job[v], db)
        BY <1>4, <4>1, MediaAssumption DEF Doomed, Rows, Touched, WellFormed
      <4> QED BY <1>4, <4>1, <4>2 DEF InOrder
    <3> QED BY <3>1, <3>2
  <2> QED BY <2>2, <2>3
<1>12. RowsInOrder'
  <2>1. spoiled \subseteq spoiled' /\ job[w] = NoJob
    BY <1>2, StartFacts
  <2>2. "rows" \notin spoiled' => Rows(exported.db) \subseteq exported.bytes
    BY <2>1 DEF RowsInOrder
  <2>3. Restorable(job'[w], db', disk')
    BY <1>1, <1>3 DEF Restorable
  <2> QED BY <1>3, <1>4, <2>1, <2>2, <2>3, NoJobFacts, RowsStep
<1> QED BY <1>5, <1>6, <1>7, <1>8, <1>9, <1>10, <1>11, <1>12

LEMMA EndUploadStep ==
  ASSUME MediaInv, NEW w \in Requests, EndUpload(w)
  PROVE  MediaInv'
<1> USE DEF MediaInv
<1> DEFINE j == job[w]
           p == j.target
<1>1. j \in Jobs /\ WellFormed(j) /\ j.op = "upload" /\ p \in Phones /\ j.keys \subseteq Objects
  BY DEF EndUpload, MediaTypes, WellFormed, Jobs
<1>2. job' \in [Requests -> Jobs] /\ job'[w] = NoJob /\ Only(w)
  BY NoJobFacts, BecomesFacts DEF EndUpload, MediaTypes, Only
<1>3. UNCHANGED <<disk, uploaded, exported, spoiled>>
  BY DEF EndUpload
<1>4. db \in Database
  BY DEF MediaTypes
<1>5. /\ db' \in Database /\ db'.account = db.account /\ db'.phones = db.phones
      /\ \A o \in Objects :
           db'.owner[o] = IF p \in db.phones /\ o \in j.keys THEN p ELSE db.owner[o]
  BY <1>1, <1>4 DEF EndUpload, Database
<1>6. /\ Rows(db) \subseteq Rows(db') /\ Rows(db') \subseteq Rows(db) \cup j.keys
      /\ p \in db.phones => j.keys \subseteq Rows(db')
  BY <1>1, <1>5, MediaAssumption DEF Rows
<1>7. \A o \in j.keys : o \in disk /\ o \notin Rows(db)
  BY <1>1 DEF Fresh
<1> HIDE DEF j
<1>8. MediaTypes'
  BY <1>2, <1>3, <1>5, NoJobFacts, TypesKept DEF MediaTypes
<1>9. Consistent'
  <2>1. ConsistentRows(db')
    BY <1>5 DEF Consistent, ConsistentRows, Rows
  <2> QED BY <1>2, <1>3, <2>1, NoJobFacts, ConsistentKept DEF Consistent
<1>10. AllUploaded' /\ Fresh'
  BY <1>2, <1>3, <1>6, NoJobFacts, TouchedKept DEF Touched, j
<1>11. Unspoiled'
  BY <1>2, <1>3, NoJobFacts, UnspoiledKept
<1>12. OneHome'
  <2>1. ASSUME NEW home, Home(home) PROVE Agrees(db', home)
    <3>1. Agrees(db, home) /\ \A o \in j.keys : p = home[o]
      BY <1>1, <2>1 DEF Home, Homed, j
    <3> QED BY <1>5, <3>1 DEF Agrees, Rows
  <2> QED BY <1>2, <1>3, <2>1, NoJobFacts, HomeKept DEF Home
<1>13. FilesInOrder'
  <2> SUFFICES ASSUME "files" \notin spoiled
               PROVE  /\ \A x \in disk : x \in Rows(db') \/ \E v \in Requests : Awaits(job'[v], x)
                      /\ \A v \in Requests : InOrder(job'[v], db', disk)
    BY <1>3 DEF FilesInOrder
  <2>1. p \in db.phones
    BY <1>1 DEF FilesInOrder, InOrder, j
  <2>2. ASSUME NEW x \in disk PROVE x \in Rows(db') \/ \E v \in Requests : Awaits(job'[v], x)
    <3>1. x \in Rows(db) \/ \E v \in Requests : Awaits(job[v], x)
      BY <2>2 DEF FilesInOrder
    <3>2. Awaits(job[w], x) => x \in Rows(db')
      BY <1>6, <2>1 DEF Awaits, j
    <3> QED BY <1>2, <1>6, <3>1, <3>2 DEF Only
  <2>3. ASSUME NEW v \in Requests PROVE InOrder(job'[v], db', disk)
    <3>1. CASE v = w
      BY <1>2, <3>1, NoJobFacts
    <3>2. CASE v # w
      <4>1. job'[v] = job[v] /\ InOrder(job[v], db, disk)
        BY <1>2, <3>2 DEF Only, FilesInOrder
      <4>2. Compatible(j, job[v], spoiled)
        BY <3>2 DEF Unspoiled, j
      <4>3. ~ Covers(job[v], p) /\ job[v].op # "import"
        BY <1>1, <4>2 DEF Compatible
      <4>4. Doomed(job[v], db') \subseteq Doomed(job[v], db)
        BY <1>5, <4>3 DEF Doomed, Covers
      <4> QED BY <1>5, <4>1, <4>3, <4>4 DEF InOrder, Covers
    <3> QED BY <3>1, <3>2
  <2> QED BY <2>2, <2>3
<1>14. RowsInOrder'
  <2>1. ASSUME NEW o \in Rows(db')
        PROVE  \/ o \in disk'
               \/ o \in Rows(db) \ disk /\ db'.owner[o] = db.owner[o] /\ ~ Takes(job[w], o, db)
    BY <1>1, <1>3, <1>5, <1>6, <1>7 DEF Takes, Rows, j
  <2>2. ASSUME NEW v \in Requests \ {w} PROVE job[v].keys \cap Rows(db') \subseteq Rows(db)
    BY <1>1, <1>6 DEF Fresh, Touched, j
  <2>3. "rows" \notin spoiled => Rows(exported.db) \subseteq exported.bytes
    BY DEF RowsInOrder
  <2> QED BY <1>2, <1>3, <2>1, <2>2, <2>3, NoJobFacts, RowsStep
<1> QED BY <1>8, <1>9, <1>10, <1>11, <1>12, <1>13, <1>14

LEMMA UploadFailsStep ==
  ASSUME MediaInv, NEW w \in Requests, UploadFails(w)
  PROVE  MediaInv'
<1> USE DEF MediaInv
<1>1. job[w] \in Jobs /\ job[w].op = "upload"
  BY DEF UploadFails, MediaTypes
<1>2. job' \in [Requests -> Jobs] /\ job'[w] = NoJob /\ Only(w)
  BY NoJobFacts, BecomesFacts DEF UploadFails, MediaTypes, Only
<1>3. UNCHANGED <<db, uploaded, exported, spoiled>> /\ disk' = disk \ job[w].keys
  BY DEF UploadFails, Mishap
<1>4. /\ \A o \in job[w].keys : o \notin Rows(db)
      /\ \A v \in Requests \ {w} : job[v].keys \cap job[w].keys = {}
  BY <1>1 DEF Fresh, Touched
<1>5. MediaTypes'
  BY <1>2, <1>3, NoJobFacts, TypesKept DEF MediaTypes
<1>6. Consistent'
  BY <1>2, <1>3, NoJobFacts, ConsistentKept DEF Consistent
<1>7. AllUploaded' /\ Fresh'
  BY <1>2, <1>3, NoJobFacts, TouchedKept DEF Touched
<1>8. Unspoiled'
  BY <1>2, <1>3, NoJobFacts, UnspoiledKept
<1>9. OneHome'
  BY <1>2, <1>3, NoJobFacts, HomeKept DEF Home
<1>10. FilesInOrder'
  <2>1. Within(db', db) /\ db' \in Database
    BY <1>3 DEF Within, MediaTypes
  <2>2. \A o \in disk' : ~ Awaits(job[w], o)
    BY <1>3 DEF Awaits
  <2> QED BY <1>2, <1>3, <2>1, <2>2, NoJobFacts, FilesStep
<1>11. RowsInOrder'
  <2>1. \A o : ~ Takes(job[w], o, db)
    BY <1>1 DEF Takes
  <2>2. "rows" \notin spoiled => Rows(exported.db) \subseteq exported.bytes
    BY DEF RowsInOrder
  <2> QED BY <1>2, <1>3, <1>4, <2>1, <2>2, NoJobFacts, RowsStep
<1> QED BY <1>5, <1>6, <1>7, <1>8, <1>9, <1>10, <1>11

LEMMA BeginDeleteMediaStep ==
  ASSUME MediaInv, NEW w \in Requests, NEW o \in Objects, BeginDeleteMedia(w, o)
  PROVE  MediaInv'
<1> USE DEF MediaInv
<1> DEFINE j == Job("deleteMedia", "none", {o}, {o}, NoFile)
<1>1. /\ j \in Jobs /\ WellFormed(j) /\ Touched(j) = {o}
      /\ j.op = "deleteMedia" /\ j.keys = {o} /\ j.later = {o} /\ j.file = NoFile
  BY JobFacts, EmptyFacts DEF MediaOps, Removing, WellFormed, Touched
<1>2. Starts(w, j) /\ Becomes(w, j) /\ o \in Rows(db)
  BY <1>1, JobFacts DEF BeginDeleteMedia, Waits
<1> HIDE DEF j
<1>3. job' \in [Requests -> Jobs] /\ job'[w] = j /\ Only(w)
  BY <1>1, <1>2, BecomesFacts DEF MediaTypes, Only
<1>4. UNCHANGED <<db, disk, uploaded, exported>> /\ spoiled \subseteq spoiled' /\ job[w] = NoJob
  BY <1>2, StartFacts DEF BeginDeleteMedia
<1>5. MediaTypes'
  BY <1>1, <1>3, <1>4, TypesKept DEF MediaTypes
<1>6. Consistent'
  BY <1>1, <1>3, <1>4, EmptyFacts, ConsistentKept DEF Consistent
<1>7. AllUploaded' /\ Fresh'
  BY <1>1, <1>2, <1>3, <1>4, TouchedKept
<1>8. Unspoiled'
  <2>1. SameRisk(job'[w], j)
    BY <1>3 DEF SameRisk
  <2> QED BY <1>2, <1>3, <2>1, UnspoiledStart
<1>9. OneHome'
  <2>1. \A home : Homed(j, home)
    BY <1>1, EmptyFacts DEF Homed, Agrees
  <2> QED BY <1>3, <1>4, <2>1, HomeKept DEF Home
<1>10. FilesInOrder'
  <2>1. Within(db', db) /\ db' \in Database
    BY <1>4 DEF Within, MediaTypes
  <2>2. InOrder(j, db, disk)
    BY <1>1 DEF InOrder, Doomed
  <2> QED BY <1>3, <1>4, <2>1, <2>2, NoJobFacts, FilesStep
<1>11. RowsInOrder'
  <2>1. Restorable(j, db, disk)
    BY <1>1 DEF Restorable
  <2>2. "rows" \notin spoiled' => Rows(exported.db) \subseteq exported.bytes
    BY <1>4 DEF RowsInOrder
  <2> QED BY <1>3, <1>4, <2>1, <2>2, NoJobFacts, RowsStep
<1> QED BY <1>5, <1>6, <1>7, <1>8, <1>9, <1>10, <1>11

LEMMA EndDeleteMediaStep ==
  ASSUME MediaInv, NEW w \in Requests, EndDeleteMedia(w)
  PROVE  MediaInv'
<1> USE DEF MediaInv
<1>1. job[w] \in Jobs /\ WellFormed(job[w]) /\ job[w].op = "deleteMedia" /\ job[w].keys = {}
  BY DEF EndDeleteMedia, MediaTypes
<1>2. job' \in [Requests -> Jobs] /\ job'[w] = NoJob /\ Only(w)
  BY NoJobFacts, BecomesFacts DEF EndDeleteMedia, MediaTypes, Only
<1>3. UNCHANGED <<disk, uploaded, exported, spoiled>>
  BY DEF EndDeleteMedia
<1>4. /\ db' \in Database /\ db'.account = db.account /\ db'.phones = db.phones
      /\ \A o \in Objects : db'.owner[o] = IF o \in job[w].later THEN "none" ELSE db.owner[o]
  BY DEF EndDeleteMedia, MediaTypes, Database
<1>5. Within(db', db) /\ Rows(db') = Rows(db) \ job[w].later
  BY <1>4 DEF Within, Rows
<1>6. MediaTypes'
  BY <1>2, <1>3, <1>4, NoJobFacts, TypesKept DEF MediaTypes
<1>7. Consistent'
  <2>1. ConsistentRows(db')
    BY <1>4, <1>5 DEF Consistent, ConsistentRows, Within
  <2> QED BY <1>2, <1>3, <2>1, NoJobFacts, ConsistentKept DEF Consistent
<1>8. AllUploaded' /\ Fresh'
  BY <1>2, <1>3, <1>5, NoJobFacts, TouchedKept
<1>9. Unspoiled'
  BY <1>2, <1>3, NoJobFacts, UnspoiledKept
<1>10. OneHome'
  BY <1>2, <1>3, <1>5, NoJobFacts, AgreesWithin, HomeKept DEF Home
<1>11. FilesInOrder'
  <2> SUFFICES ASSUME "files" \notin spoiled PROVE FilesInOrder'
    BY <1>3 DEF FilesInOrder
  <2>1. \A o \in disk : o \notin job[w].later
    BY <1>1 DEF FilesInOrder, InOrder, Doomed, WellFormed
  <2>2. \A v \in Requests \ {w} : job[v].op # "import"
    BY <1>1 DEF Unspoiled, Compatible, Removing
  <2> QED BY <1>1, <1>2, <1>3, <1>4, <1>5, <2>1, <2>2, NoJobFacts, FilesStep DEF Awaits
<1>12. RowsInOrder'
  <2>1. \A o \in Rows(db') : o \in Rows(db) /\ db'.owner[o] = db.owner[o] /\ ~ Takes(job[w], o, db)
    BY <1>1, <1>5 DEF Within, Takes
  <2>2. "rows" \notin spoiled => Rows(exported.db) \subseteq exported.bytes
    BY DEF RowsInOrder
  <2> QED BY <1>2, <1>3, <1>5, <2>1, <2>2, NoJobFacts, RowsStep
<1> QED BY <1>6, <1>7, <1>8, <1>9, <1>10, <1>11, <1>12

\* Rows for the account or a number touch no media.
LEMMA NewNumberStep ==
  ASSUME MediaInv, db' \in Database, db'.owner = db.owner, db.phones \subseteq db'.phones,
         db'.account, UNCHANGED <<disk, uploaded, job, exported, spoiled>>
  PROVE  MediaInv'
<1> USE DEF MediaInv
<1>1. Rows(db') = Rows(db)
  BY DEF Rows
<1>2. MediaTypes'
  BY DEF MediaTypes
<1>3. Consistent'
  BY <1>1 DEF Consistent, ConsistentRows
<1>4. AllUploaded' /\ Fresh' /\ Unspoiled'
  BY <1>1 DEF AllUploaded, Fresh, Unspoiled
<1>5. OneHome'
  <2>1. PICK home \in [Objects -> Phones \cup {"none"}] : Home(home)
    BY DEF OneHome
  <2>2. Home(home)'
    BY <1>1, <2>1 DEF Home, Agrees
  <2> QED BY <2>2 DEF OneHome
<1>6. FilesInOrder'
  <2>1. \A v \in Requests : InOrder(job[v], db, disk) => InOrder(job[v], db', disk)
    BY <1>1 DEF InOrder, Doomed
  <2> QED BY <1>1, <2>1 DEF FilesInOrder
<1>7. RowsInOrder'
  BY <1>1 DEF RowsInOrder, Takes, Restorable
<1> QED BY <1>2, <1>3, <1>4, <1>5, <1>6, <1>7

LEMMA CreateAccountStep ==
  ASSUME MediaInv, CreateAccount
  PROVE  MediaInv'
<1>1. /\ db' \in Database /\ db'.owner = db.owner /\ db.phones \subseteq db'.phones /\ db'.account
  BY DEF CreateAccount, MediaInv, MediaTypes, Database
<1> QED BY <1>1, NewNumberStep DEF CreateAccount

LEMMA CreateNumberStep ==
  ASSUME MediaInv, NEW p \in Phones, CreateNumber(p)
  PROVE  MediaInv'
<1>1. /\ db' \in Database /\ db'.owner = db.owner /\ db.phones \subseteq db'.phones /\ db'.account
  BY DEF CreateNumber, MediaInv, MediaTypes, Database
<1> QED BY <1>1, NewNumberStep DEF CreateNumber

\* A wipe begins: it goes on, or had nothing to delete; the rows it takes at once have no media.
LEMMA WipingStep ==
  ASSUME MediaInv, NEW w \in Requests, NEW j, Starts(w, j), j.op \in Wiping,
         Only(w), job' \in [Requests -> Jobs], UNCHANGED <<disk, uploaded, exported>>,
         db' \in Database, ConsistentRows(db'), Within(db', db), Rows(db) \subseteq Rows(db'),
         \A p \in db.phones : ~ Covers(j, p) => p \in db'.phones,
         \/ job'[w] = NoJob
         \/ /\ job'[w].op = j.op /\ SameRisk(job'[w], j) /\ WellFormed(job'[w])
            /\ job'[w].file = NoFile /\ job'[w].keys \subseteq Rows(db)
            /\ job'[w].later = {} \/ job'[w].op = "deleteAccount"
            /\ job'[w].op # "reset" => \A o \in job'[w].keys : job'[w].target = db.owner[o]
            /\ InOrder(job'[w], db', disk)
  PROVE  MediaInv'
<1> USE DEF MediaInv
<1>1. spoiled \subseteq spoiled' /\ job[w] = NoJob
  BY StartFacts
<1>2. MediaTypes'
  BY NoJobFacts, TypesKept DEF MediaTypes
<1>3. job'[w].op \notin {"upload", "export", "import", "deleteMedia"}
  BY NoJobFacts DEF Wiping
<1>4. Touched(job'[w]) \subseteq Rows(db)
  BY NoJobFacts, EmptyFacts DEF Touched
<1>5. Consistent'
  BY <1>3, NoJobFacts, EmptyFacts, ConsistentKept DEF Consistent
<1>6. AllUploaded' /\ Fresh'
  <2>1. Rows(db') \subseteq Rows(db)
    BY DEF Within
  <2> QED BY <1>1, <1>3, <1>4, <2>1, TouchedKept
<1>7. Unspoiled'
  BY NoJobFacts, UnspoiledStart
<1>8. OneHome'
  <2>1. ASSUME NEW home, Home(home)
        PROVE  Agrees(db', home) /\ Agrees(exported'.db, home) /\ Homed(job'[w], home)
    <3>1. Agrees(db', home)
      BY <2>1, AgreesWithin DEF Home
    <3>2. Homed(job'[w], home)
      BY <1>3, <2>1, NoJobFacts, EmptyFacts DEF Home, Homed, Agrees, Wiping
    <3> QED BY <2>1, <3>1, <3>2 DEF Home
  <2> QED BY <2>1, HomeKept
<1>9. FilesInOrder'
  <2>1. "files" \notin spoiled' =>
           /\ \A v \in Requests \ {w} : job[v].op = "upload" => ~ Covers(j, job[v].target)
           /\ \A v \in Requests \ {w} : job[v].op # "import"
    BY StartFacts DEF Compatible, Removing
  <2>2. \A o : ~ Awaits(job[w], o)
    BY <1>1, NoJobFacts
  <2>3. InOrder(job'[w], db', disk')
    BY NoJobFacts
  <2> QED BY <1>1, <2>1, <2>2, <2>3, FilesStep
<1>10. RowsInOrder'
  <2>1. \A o \in Rows(db') : o \in Rows(db) /\ db'.owner[o] = db.owner[o] /\ ~ Takes(job[w], o, db)
    BY <1>1, NoJobFacts DEF Within
  <2>2. "rows" \notin spoiled' => Rows(exported.db) \subseteq exported.bytes
    BY <1>1 DEF RowsInOrder
  <2>3. Restorable(job'[w], db', disk')
    BY <1>3 DEF Restorable
  <2> QED BY <1>1, <2>1, <2>2, <2>3, RowsStep
<1> QED BY <1>2, <1>5, <1>6, <1>7, <1>8, <1>9, <1>10

\* A wipe has deleted the files of the rows it takes now, and is done or goes on to a number.
LEMMA WipedStep ==
  ASSUME MediaInv, NEW w \in Requests, job[w].op \in Wiping, job[w].keys = {},
         Only(w), job' \in [Requests -> Jobs], UNCHANGED <<disk, uploaded, exported, spoiled>>,
         db' \in Database, ConsistentRows(db'), Within(db', db),
         "files" \notin spoiled => \A o \in disk \cap Rows(db) : o \in Rows(db'),
         \A p \in db.phones : ~ Covers(job[w], p) => p \in db'.phones,
         \A o \in Rows(db') : ~ Takes(job[w], o, db),
         \/ job'[w] = NoJob
         \/ /\ job[w].op = "deleteAccount" /\ job'[w].op = "deleteAccount"
            /\ WellFormed(job'[w]) /\ job'[w].file = NoFile
            /\ job'[w].keys = RowsOf(db', job'[w].target)
            /\ "files" \notin spoiled =>
                 \A o \in Rows(db') : db'.owner[o] \in job'[w].later \cup {job'[w].target}
  PROVE  MediaInv'
<1> USE DEF MediaInv
<1>1. MediaTypes'
  BY NoJobFacts, TypesKept DEF MediaTypes
<1>2. job'[w].op \in {"idle", "deleteAccount"}
  BY NoJobFacts
<1>3. job'[w].keys \subseteq Rows(db')
  BY NoJobFacts, MediaAssumption DEF RowsOf, Rows, WellFormed
<1>4. Touched(job'[w]) \subseteq Rows(db')
  BY <1>3, NoJobFacts, EmptyFacts DEF Touched
<1>5. Consistent'
  BY <1>2, NoJobFacts, EmptyFacts, ConsistentKept DEF Consistent
<1>6. AllUploaded' /\ Fresh'
  <2>1. Rows(db') \subseteq Rows(db)
    BY DEF Within
  <2> QED BY <1>2, <1>4, <2>1, TouchedKept
<1>7. Unspoiled'
  <2>1. SameRisk(job'[w], job[w])
    BY NoJobFacts DEF SameRisk
  <2> QED BY <2>1, UnspoiledKept
<1>8. OneHome'
  <2>1. ASSUME NEW home, Home(home)
        PROVE  Agrees(db', home) /\ Agrees(exported'.db, home) /\ Homed(job'[w], home)
    <3>1. Agrees(db', home)
      BY <2>1, AgreesWithin DEF Home
    <3>2. Homed(job'[w], home)
      BY <1>3, <3>1, NoJobFacts, EmptyFacts DEF Homed, Agrees, RowsOf
    <3> QED BY <2>1, <3>1, <3>2 DEF Home
  <2> QED BY <2>1, HomeKept
<1>9. FilesInOrder'
  <2>1. "files" \notin spoiled =>
           /\ \A v \in Requests \ {w} : job[v].op = "upload" => ~ Covers(job[w], job[v].target)
           /\ \A v \in Requests \ {w} : job[v].op # "import"
    BY DEF Unspoiled, Compatible, Removing
  <2>2. \A o : ~ Awaits(job[w], o)
    BY DEF Awaits, Wiping
  <2>3. "files" \notin spoiled => InOrder(job'[w], db', disk')
    BY <1>2, NoJobFacts DEF InOrder, Doomed, RowsOf
  <2> QED BY <2>1, <2>2, <2>3, FilesStep
<1>10. RowsInOrder'
  <2>1. \A o \in Rows(db') : o \in Rows(db) /\ db'.owner[o] = db.owner[o]
    BY DEF Within
  <2>2. "rows" \notin spoiled => Rows(exported.db) \subseteq exported.bytes
    BY DEF RowsInOrder
  <2>3. Restorable(job'[w], db', disk')
    BY <1>2 DEF Restorable
  <2> QED BY <2>1, <2>2, <2>3, RowsStep
<1> QED BY <1>1, <1>5, <1>6, <1>7, <1>8, <1>9, <1>10

\* The rows that are left when numbers go.
LEMMA WithoutRows ==
  ASSUME NEW d \in Database, NEW P
  PROVE  LET e == WithoutNumbers(d, P) IN
         /\ e \in Database /\ Within(e, d)
         /\ Rows(e) = {o \in Rows(d) : d.owner[o] \notin P}
         /\ e.phones = d.phones \ P
         /\ ConsistentRows(d) => ConsistentRows(e)
<1> DEFINE e == WithoutNumbers(d, P)
<1>1. /\ e \in Database /\ e.account = d.account /\ e.phones = d.phones \ P
      /\ \A o \in Objects : e.owner[o] = IF d.owner[o] \in P THEN "none" ELSE d.owner[o]
  BY WithoutFacts
<1> HIDE DEF e
<1>2. Rows(e) = {o \in Rows(d) : d.owner[o] \notin P}
  BY <1>1 DEF Rows
<1>3. Within(e, d)
  BY <1>1, <1>2 DEF Within, Rows
<1>4. ConsistentRows(d) => ConsistentRows(e)
  BY <1>1, <1>2 DEF ConsistentRows, Rows
<1> QED BY <1>1, <1>2, <1>3, <1>4 DEF e

LEMMA BeginDeleteNumberStep ==
  ASSUME MediaInv, NEW w \in Requests, NEW p \in Phones, BeginDeleteNumber(w, p)
  PROVE  MediaInv'
<1> DEFINE j == Job("deleteNumber", p, RowsOf(db, p), {}, NoFile)
<1>1. db \in Database /\ ConsistentRows(db) /\ job \in [Requests -> Jobs]
  BY DEF MediaInv, MediaTypes, Consistent
<1>2. RowsOf(db, p) \subseteq Rows(db) /\ \A o \in RowsOf(db, p) : db.owner[o] = p
  BY MediaAssumption DEF RowsOf, Rows
<1>3. /\ j.op = "deleteNumber" /\ j.target = p /\ j.keys = RowsOf(db, p) /\ j.later = {}
      /\ j.file = NoFile /\ j \in Jobs
  BY <1>1, <1>2, JobFacts, EmptyFacts DEF MediaOps, Removing, Wiping, Rows
<1>4. Starts(w, j) /\ Waits(w, j) /\ UNCHANGED <<disk, uploaded, exported>>
      /\ db' = IF j.keys = {} THEN WithoutNumbers(db, {p}) ELSE db
  BY DEF BeginDeleteNumber
<1> HIDE DEF j
<1>5. /\ job' \in [Requests -> Jobs] /\ Only(w)
      /\ job'[w] = NoJob \/ (job'[w] = j /\ j.keys # {})
  BY <1>1, <1>3, <1>4, EmptyFacts, BecomesFacts DEF Waits, Only
<1>6. CASE j.keys = {}
  <2>1. db' = WithoutNumbers(db, {p}) /\ RowsOf(db, p) = {}
    BY <1>3, <1>4, <1>6
  <2>2. /\ db' \in Database /\ ConsistentRows(db') /\ Within(db', db)
        /\ Rows(db') = {o \in Rows(db) : db.owner[o] \notin {p}} /\ db'.phones = db.phones \ {p}
    BY <1>1, <2>1, WithoutRows
  <2>3. Rows(db) \subseteq Rows(db')
    BY <2>1, <2>2 DEF Rows, RowsOf
  <2>4. \A q \in db.phones : ~ Covers(j, q) => q \in db'.phones
    BY <1>3, <2>2 DEF Covers
  <2>5. j.op \in Wiping /\ job'[w] = NoJob
    BY <1>3, <1>5, <1>6 DEF Wiping
  <2> QED BY <1>4, <1>5, <2>2, <2>3, <2>4, <2>5, WipingStep
<1>7. CASE j.keys # {}
  <2>1. db' = db /\ Within(db', db) /\ j.op \in Wiping
    BY <1>3, <1>4, <1>7 DEF Within, Wiping
  <2>2. SameRisk(j, j) /\ WellFormed(j)
    BY <1>3 DEF SameRisk, WellFormed
  <2>3. InOrder(j, db, disk)
    BY <1>3 DEF InOrder, Doomed, RowsOf
  <2>4. j.keys \subseteq Rows(db) /\ \A o \in j.keys : j.target = db.owner[o]
    BY <1>2, <1>3
  <2> QED BY <1>1, <1>3, <1>4, <1>5, <2>1, <2>2, <2>3, <2>4, WipingStep
<1> QED BY <1>6, <1>7

LEMMA EndDeleteNumberStep ==
  ASSUME MediaInv, NEW w \in Requests, EndDeleteNumber(w)
  PROVE  MediaInv'
<1> DEFINE j == job[w]
           p == j.target
<1>1. db \in Database /\ ConsistentRows(db) /\ job \in [Requests -> Jobs]
  BY DEF MediaInv, MediaTypes, Consistent
<1>2. /\ j.op = "deleteNumber" /\ j.keys = {} /\ p \in Phones
      /\ db' = WithoutNumbers(db, {p}) /\ UNCHANGED <<disk, uploaded, exported, spoiled>>
  BY DEF EndDeleteNumber, MediaInv, MediaTypes, WellFormed
<1>3. job' \in [Requests -> Jobs] /\ Only(w) /\ job'[w] = NoJob
  BY <1>1, EmptyFacts, BecomesFacts DEF EndDeleteNumber, Only
<1>4. /\ db' \in Database /\ ConsistentRows(db') /\ Within(db', db)
      /\ Rows(db') = {o \in Rows(db) : db.owner[o] \notin {p}} /\ db'.phones = db.phones \ {p}
  BY <1>1, <1>2, WithoutRows
<1>5. "files" \notin spoiled => \A o \in disk \cap Rows(db) : o \in Rows(db')
  <2>1. "files" \notin spoiled => Doomed(j, db) \cap disk = {}
    BY <1>2 DEF MediaInv, FilesInOrder, InOrder
  <2> QED BY <1>2, <1>4, <2>1 DEF Doomed, Rows
<1>6. \A q \in db.phones : ~ Covers(j, q) => q \in db'.phones
  BY <1>2, <1>4 DEF Covers
<1>7. \A o \in Rows(db') : ~ Takes(j, o, db)
  BY <1>2, <1>4 DEF Takes
<1>8. j.op \in Wiping
  BY <1>2 DEF Wiping
<1> QED BY <1>2, <1>3, <1>4, <1>5, <1>6, <1>7, <1>8, WipedStep

\* What a reset leaves.
LEMMA SeededEmptyFacts ==
  LET e == Seeded(EmptyDb) IN
  e \in Database /\ Rows(e) = {} /\ ConsistentRows(e) /\ \A d : Within(e, d)
<1> DEFINE e == Seeded(EmptyDb)
<1>1. e \in Database /\ e.account = TRUE /\ e.owner = EmptyDb.owner
  BY EmptyFacts, SeededFacts
<1>2. Rows(e) = {}
  BY <1>1, EmptyFacts DEF Rows
<1>3. ConsistentRows(e) /\ \A d : Within(e, d)
  BY <1>1, <1>2 DEF ConsistentRows, Within
<1> QED BY <1>1, <1>2, <1>3

LEMMA BeginResetStep ==
  ASSUME MediaInv, NEW w \in Requests, BeginReset(w)
  PROVE  MediaInv'
<1> DEFINE j == Job("reset", "none", Rows(db), {}, NoFile)
<1>1. db \in Database /\ ConsistentRows(db) /\ job \in [Requests -> Jobs]
  BY DEF MediaInv, MediaTypes, Consistent
<1>2. /\ j.op = "reset" /\ j.target = "none" /\ j.keys = Rows(db) /\ j.later = {}
      /\ j.file = NoFile /\ j \in Jobs
  BY JobFacts, EmptyFacts DEF MediaOps, Removing, Wiping, Rows
<1>3. Starts(w, j) /\ Waits(w, j) /\ UNCHANGED <<disk, uploaded, exported>>
      /\ db' = IF j.keys = {} THEN Seeded(EmptyDb) ELSE db
  BY DEF BeginReset
<1> HIDE DEF j
<1>4. /\ job' \in [Requests -> Jobs] /\ Only(w)
      /\ job'[w] = NoJob \/ (job'[w] = j /\ j.keys # {})
  BY <1>1, <1>2, <1>3, EmptyFacts, BecomesFacts DEF Waits, Only
<1>5. j.op \in Wiping /\ \A q : Covers(j, q)
  BY <1>2 DEF Wiping, Covers
<1>6. CASE j.keys = {}
  <2>1. db' = Seeded(EmptyDb) /\ Rows(db) = {} /\ job'[w] = NoJob
    BY <1>2, <1>3, <1>4, <1>6
  <2>2. db' \in Database /\ ConsistentRows(db') /\ Within(db', db) /\ Rows(db) \subseteq Rows(db')
    BY <2>1, SeededEmptyFacts
  <2> QED BY <1>3, <1>4, <1>5, <2>1, <2>2, WipingStep
<1>7. CASE j.keys # {}
  <2>1. db' = db /\ Within(db', db)
    BY <1>3, <1>7 DEF Within
  <2>2. SameRisk(j, j) /\ WellFormed(j)
    BY <1>2 DEF SameRisk, WellFormed
  <2>3. InOrder(j, db, disk)
    BY <1>2 DEF InOrder, Doomed, Rows
  <2>4. j.keys \subseteq Rows(db)
    BY <1>2
  <2> QED BY <1>1, <1>2, <1>3, <1>4, <1>5, <2>1, <2>2, <2>3, <2>4, WipingStep
<1> QED BY <1>6, <1>7

LEMMA EndResetStep ==
  ASSUME MediaInv, NEW w \in Requests, EndReset(w)
  PROVE  MediaInv'
<1>1. db \in Database /\ job \in [Requests -> Jobs]
  BY DEF MediaInv, MediaTypes
<1>2. /\ job[w].op = "reset" /\ job[w].keys = {}
      /\ db' = Seeded(EmptyDb) /\ UNCHANGED <<disk, uploaded, exported, spoiled>>
  BY DEF EndReset
<1>3. job' \in [Requests -> Jobs] /\ Only(w) /\ job'[w] = NoJob
  BY <1>1, EmptyFacts, BecomesFacts DEF EndReset, Only
<1>4. db' \in Database /\ ConsistentRows(db') /\ Within(db', db) /\ Rows(db') = {}
  BY <1>2, SeededEmptyFacts
<1>5. "files" \notin spoiled => \A o \in disk \cap Rows(db) : o \in Rows(db')
  <2>1. "files" \notin spoiled => Doomed(job[w], db) \cap disk = {}
    BY <1>2 DEF MediaInv, FilesInOrder, InOrder
  <2> QED BY <1>2, <2>1 DEF Doomed, Rows
<1>6. job[w].op \in Wiping /\ \A q : Covers(job[w], q)
  BY <1>2 DEF Wiping, Covers
<1> QED BY <1>2, <1>3, <1>4, <1>5, <1>6, WipedStep

\* Where a walk over the numbers "left" in rows d, those of db without numbers G, takes the request.
LEMMA WalkFacts ==
  ASSUME NEW w \in Requests, NEW d \in Database, ConsistentRows(d), job \in [Requests -> Jobs],
         NEW left \in SUBSET Phones, Walk(w, d, left)
  PROVE  /\ job' \in [Requests -> Jobs] /\ Only(w)
         /\ db' \in Database /\ ConsistentRows(db') /\ Within(db', d)
         /\ \A o \in Rows(d) : d.owner[o] \in left => o \in Rows(db')
         /\ \/ job'[w] = NoJob
            \/ /\ job'[w].op = "deleteAccount" /\ job'[w].target \in left
               /\ job'[w].later \subseteq left /\ job'[w].file = NoFile
               /\ job'[w].keys = RowsOf(db', job'[w].target)
               /\ \A o \in Rows(db') :
                    d.owner[o] \in left => db'.owner[o] \in job'[w].later \cup {job'[w].target}
<1> DEFINE Bare == {q \in left \cap d.phones : RowsOf(d, q) = {}}
<1> USE DEF Walk
<1>1. \/ \E p \in left \ Bare, D \in SUBSET Bare :
           /\ db' = WithoutNumbers(d, D)
           /\ Becomes(w, IF p \in d.phones
                         THEN Job("deleteAccount", p, RowsOf(d, p), left \ (D \cup {p}), NoFile)
                         ELSE NoJob)
      \/ left \subseteq Bare /\ db' = EmptyDb /\ Becomes(w, NoJob)
  OBVIOUS
<1>2. \A o \in Rows(d) : d.owner[o] \notin Bare
  BY DEF Rows, RowsOf
<1>3. CASE left \subseteq Bare /\ db' = EmptyDb /\ Becomes(w, NoJob)
  <2>1. job' \in [Requests -> Jobs] /\ Only(w) /\ job'[w] = NoJob
    BY <1>3, EmptyFacts, BecomesFacts DEF Only
  <2>2. db' \in Database /\ ConsistentRows(db') /\ Within(db', d)
    BY <1>3, EmptyFacts DEF Within
  <2>3. \A o \in Rows(d) : d.owner[o] \notin left
    BY <1>2, <1>3
  <2> QED BY <2>1, <2>2, <2>3
<1>4. ASSUME NEW p \in left \ Bare, NEW D \in SUBSET Bare, db' = WithoutNumbers(d, D),
             Becomes(w, IF p \in d.phones
                        THEN Job("deleteAccount", p, RowsOf(d, p), left \ (D \cup {p}), NoFile)
                        ELSE NoJob)
      PROVE  /\ job' \in [Requests -> Jobs] /\ Only(w)
             /\ db' \in Database /\ ConsistentRows(db') /\ Within(db', d)
             /\ \A o \in Rows(d) : d.owner[o] \in left => o \in Rows(db')
             /\ \/ job'[w] = NoJob
                \/ /\ job'[w].op = "deleteAccount" /\ job'[w].target \in left
                   /\ job'[w].later \subseteq left /\ job'[w].file = NoFile
                   /\ job'[w].keys = RowsOf(db', job'[w].target)
                   /\ \A o \in Rows(db') :
                        d.owner[o] \in left => db'.owner[o] \in job'[w].later \cup {job'[w].target}
  <2>1. /\ db' \in Database /\ Within(db', d) /\ ConsistentRows(db')
        /\ Rows(db') = {o \in Rows(d) : d.owner[o] \notin D}
    BY <1>4, WithoutRows
  <2>2. Rows(db') = Rows(d) /\ \A o \in Rows(d) : db'.owner[o] = d.owner[o]
    BY <1>2, <2>1 DEF Within
  <2> DEFINE j == Job("deleteAccount", p, RowsOf(d, p), left \ (D \cup {p}), NoFile)
  <2>3. /\ j.op = "deleteAccount" /\ j.target = p /\ j.keys = RowsOf(d, p)
        /\ j.later = left \ (D \cup {p}) /\ j.file = NoFile /\ j \in Jobs
    BY JobFacts, EmptyFacts DEF MediaOps, Removing, Wiping, RowsOf
  <2> HIDE DEF j, Bare
  <2>4. CASE p \notin d.phones
    <3>1. Becomes(w, NoJob)
      BY <1>4, <2>4
    <3>2. job' \in [Requests -> Jobs] /\ Only(w) /\ job'[w] = NoJob
      BY <3>1, EmptyFacts, BecomesFacts DEF Only
    <3> QED BY <2>1, <2>2, <3>2
  <2>5. CASE p \in d.phones
    <3>1. Becomes(w, j)
      BY <1>4, <2>5 DEF j
    <3>2. job' \in [Requests -> Jobs] /\ Only(w) /\ job'[w] = j
      BY <2>3, <3>1, BecomesFacts DEF Only
    <3>3. RowsOf(db', p) = RowsOf(d, p)
      BY <2>1, <2>2, MediaAssumption DEF Rows, RowsOf, Database
    <3>4. \A o \in Rows(db') : d.owner[o] \in left => db'.owner[o] \in j.later \cup {j.target}
      BY <1>2, <2>2, <2>3
    <3> QED BY <2>1, <2>2, <2>3, <3>2, <3>3, <3>4
  <2> QED BY <2>4, <2>5
<1> HIDE DEF Bare
<1> QED BY <1>1, <1>3, <1>4

LEMMA BeginDeleteAccountStep ==
  ASSUME MediaInv, NEW w \in Requests, BeginDeleteAccount(w)
  PROVE  MediaInv'
<1> DEFINE j == Job("deleteAccount", "none", {}, db.phones, NoFile)
<1>1. db \in Database /\ ConsistentRows(db) /\ job \in [Requests -> Jobs] /\ db.phones \in SUBSET Phones
  BY DEF MediaInv, MediaTypes, Consistent, Database
<1>2. Starts(w, j) /\ Walk(w, db, db.phones) /\ UNCHANGED <<disk, uploaded, exported>>
  BY DEF BeginDeleteAccount
<1>3. j.op = "deleteAccount" /\ j.op \in Wiping /\ \A q : Covers(j, q)
  BY JobFacts DEF Wiping, Covers
<1> HIDE DEF j
<1>4. /\ job' \in [Requests -> Jobs] /\ Only(w)
      /\ db' \in Database /\ ConsistentRows(db') /\ Within(db', db)
      /\ \A o \in Rows(db) : db.owner[o] \in db.phones => o \in Rows(db')
      /\ \/ job'[w] = NoJob
         \/ /\ job'[w].op = "deleteAccount" /\ job'[w].target \in db.phones
            /\ job'[w].later \subseteq db.phones /\ job'[w].file = NoFile
            /\ job'[w].keys = RowsOf(db', job'[w].target)
            /\ \A o \in Rows(db') :
                 db.owner[o] \in db.phones => db'.owner[o] \in job'[w].later \cup {job'[w].target}
  BY <1>1, <1>2, WalkFacts
<1>5. Rows(db) \subseteq Rows(db')
  BY <1>1, <1>4 DEF ConsistentRows
<1>6. CASE job'[w] = NoJob
  BY <1>2, <1>3, <1>4, <1>5, <1>6, WipingStep
<1>7. CASE job'[w].op = "deleteAccount"
  <2>1. /\ job'[w].target \in db.phones /\ job'[w].later \subseteq db.phones /\ job'[w].file = NoFile
        /\ job'[w].keys = RowsOf(db', job'[w].target)
    BY <1>4, <1>7, NoJobFacts
  <2>2. \A o \in Rows(db') : db'.owner[o] \in job'[w].later \cup {job'[w].target}
    BY <1>1, <1>4, <1>7, NoJobFacts DEF ConsistentRows, Within
  <2>3. SameRisk(job'[w], j) /\ WellFormed(job'[w])
    BY <1>1, <1>3, <1>7, <2>1 DEF SameRisk, WellFormed
  <2>4. InOrder(job'[w], db', disk)
    BY <1>7, <2>1, <2>2 DEF InOrder, Doomed, RowsOf
  <2>5. job'[w].keys \subseteq Rows(db) /\ \A o \in job'[w].keys : job'[w].target = db.owner[o]
    <3>1. job'[w].keys \subseteq Rows(db')
      BY <1>1, <2>1, MediaAssumption DEF RowsOf, Rows
    <3> QED BY <1>4, <2>1, <3>1 DEF RowsOf, Within
  <2> QED BY <1>2, <1>3, <1>4, <1>5, <1>7, <2>1, <2>3, <2>4, <2>5, WipingStep
<1> QED BY <1>4, <1>6, <1>7

LEMMA NextInAccountStep ==
  ASSUME MediaInv, NEW w \in Requests, NextInAccount(w)
  PROVE  MediaInv'
<1> DEFINE j == job[w]
           d == WithoutNumbers(db, {j.target})
<1>1. db \in Database /\ ConsistentRows(db) /\ job \in [Requests -> Jobs]
  BY DEF MediaInv, MediaTypes, Consistent
<1>2. /\ j.op = "deleteAccount" /\ j.keys = {} /\ j.later \in SUBSET Phones
      /\ Walk(w, d, j.later) /\ UNCHANGED <<disk, uploaded, exported, spoiled>>
  BY DEF NextInAccount, MediaInv, MediaTypes, WellFormed
<1>3. /\ d \in Database /\ ConsistentRows(d) /\ Within(d, db)
      /\ Rows(d) = {o \in Rows(db) : db.owner[o] \notin {j.target}}
  BY <1>1, WithoutRows
<1> HIDE DEF d
<1>4. /\ job' \in [Requests -> Jobs] /\ Only(w)
      /\ db' \in Database /\ ConsistentRows(db') /\ Within(db', d)
      /\ \A o \in Rows(d) : d.owner[o] \in j.later => o \in Rows(db')
      /\ \/ job'[w] = NoJob
         \/ /\ job'[w].op = "deleteAccount" /\ job'[w].target \in j.later
            /\ job'[w].later \subseteq j.later /\ job'[w].file = NoFile
            /\ job'[w].keys = RowsOf(db', job'[w].target)
            /\ \A o \in Rows(db') :
                 d.owner[o] \in j.later => db'.owner[o] \in job'[w].later \cup {job'[w].target}
  BY <1>1, <1>2, <1>3, WalkFacts
<1>5. Within(db', db)
  BY <1>3, <1>4 DEF Within
<1>6. "files" \notin spoiled => \A o \in Rows(db) : db.owner[o] \in j.later \cup {j.target}
  BY <1>2 DEF MediaInv, FilesInOrder, InOrder
<1>7. "files" \notin spoiled => Doomed(j, db) \cap disk = {}
  BY <1>2 DEF MediaInv, FilesInOrder, InOrder
<1>8. "files" \notin spoiled => \A o \in disk \cap Rows(db) : o \in Rows(db')
  <2>1. "files" \notin spoiled => \A o \in disk \cap Rows(db) : db.owner[o] # j.target
    BY <1>2, <1>7 DEF Doomed, Rows
  <2>2. "files" \notin spoiled => \A o \in disk \cap Rows(db) : o \in Rows(d) /\ d.owner[o] \in j.later
    BY <1>3, <1>6, <2>1 DEF Within
  <2> QED BY <1>4, <2>2
<1>9. \A o \in Rows(db') : ~ Takes(j, o, db)
  BY <1>2, <1>3, <1>4 DEF Takes, Within
<1>10. j.op \in Wiping /\ \A q : Covers(j, q)
  BY <1>2 DEF Wiping, Covers
<1>11. CASE job'[w] = NoJob
  BY <1>2, <1>4, <1>5, <1>8, <1>9, <1>10, <1>11, WipedStep
<1>12. CASE job'[w].op = "deleteAccount"
  <2>1. /\ job'[w].target \in j.later /\ job'[w].later \subseteq j.later /\ job'[w].file = NoFile
        /\ job'[w].keys = RowsOf(db', job'[w].target)
    BY <1>4, <1>12, NoJobFacts
  <2>2. "files" \notin spoiled => \A o \in Rows(db') : db'.owner[o] \in job'[w].later \cup {job'[w].target}
    <3>1. \A o \in Rows(db') : o \in Rows(d) /\ o \in Rows(db) /\ d.owner[o] = db.owner[o]
      BY <1>3, <1>4 DEF Within
    <3>2. \A o \in Rows(db') : db.owner[o] # j.target
      BY <1>3, <3>1
    <3> QED BY <1>4, <1>6, <1>12, <3>1, <3>2, NoJobFacts
  <2>3. WellFormed(job'[w])
    BY <1>2, <1>12, <2>1 DEF WellFormed
  <2> QED BY <1>2, <1>4, <1>5, <1>8, <1>9, <1>10, <1>12, <2>1, <2>2, <2>3, WipedStep
<1> QED BY <1>4, <1>11, <1>12

\* A job with another list of keys.
LEMMA KeysFacts ==
  ASSUME NEW j \in Jobs, NEW K \in SUBSET Objects
  PROVE  LET k == [j EXCEPT !.keys = K] IN
         /\ k \in Jobs /\ k.op = j.op /\ k.target = j.target /\ k.keys = K
         /\ k.later = j.later /\ k.file = j.file
BY DEF Jobs

\* Without the key o in its list, the job is still in order.
LEMMA DeletedOneFacts ==
  ASSUME MediaInv, NEW w \in Requests, job[w].op \in Removing, NEW o \in job[w].keys,
         NEW k, k = [job[w] EXCEPT !.keys = @ \ {o}]
  PROVE  /\ k \in Jobs /\ k.op = job[w].op /\ k.target = job[w].target
         /\ k.keys = job[w].keys \ {o} /\ k.later = job[w].later /\ k.file = job[w].file
         /\ WellFormed(k) /\ SameRisk(k, job[w]) /\ Touched(k) \subseteq Touched(job[w])
         /\ o \in Touched(job[w])
         /\ \A home : Homed(job[w], home) => Homed(k, home)
         /\ k.op \notin {"upload", "export"}
<1> DEFINE j == job[w]
<1>1. j \in Jobs /\ WellFormed(j) /\ j.keys \in SUBSET Objects
  BY DEF MediaInv, MediaTypes, Jobs
<1>2. k = [j EXCEPT !.keys = j.keys \ {o}]
  OBVIOUS
<1>3. /\ k \in Jobs /\ k.op = j.op /\ k.target = j.target /\ k.keys = j.keys \ {o}
      /\ k.later = j.later /\ k.file = j.file
  BY <1>1, <1>2, KeysFacts
<1> HIDE DEF j
<1>4. WellFormed(k)
  BY <1>1, <1>3 DEF WellFormed
<1>5. SameRisk(k, j) /\ Touched(k) \subseteq Touched(j)
  BY <1>3, Shrinks DEF SameRisk
<1>6. \A home : Homed(j, home) => Homed(k, home)
  BY <1>3 DEF Homed
<1>7. o \in Touched(j) /\ j.op \in Removing
  BY DEF Touched, j
<1>8. k.op \notin {"upload", "export"}
  BY <1>3, <1>7 DEF Removing, Wiping
<1> QED BY <1>3, <1>4, <1>5, <1>6, <1>7, <1>8 DEF j

LEMMA DeleteFileStep ==
  ASSUME MediaInv, NEW w \in Requests, DeleteFile(w)
  PROVE  MediaInv'
<1> USE DEF MediaInv
<1> DEFINE j == job[w]
<1>1. PICK o \in j.keys : disk' = disk \ {o} /\ Becomes(w, [j EXCEPT !.keys = @ \ {o}])
  BY DEF DeleteFile
<1>2. j.op \in Removing /\ UNCHANGED <<db, uploaded, exported, spoiled>>
  BY DEF DeleteFile
<1> DEFINE k == [j EXCEPT !.keys = @ \ {o}]
<1>3. /\ k \in Jobs /\ k.op = j.op /\ k.target = j.target
      /\ k.keys = j.keys \ {o} /\ k.later = j.later /\ k.file = j.file
      /\ WellFormed(k) /\ SameRisk(k, j) /\ Touched(k) \subseteq Touched(j) /\ o \in Touched(j)
      /\ \A home : Homed(j, home) => Homed(k, home)
      /\ k.op \notin {"upload", "export"}
  BY <1>2, DeletedOneFacts
<1> HIDE DEF k
<1>4. job' \in [Requests -> Jobs] /\ Only(w) /\ job'[w] = k
  BY <1>1, <1>3, BecomesFacts DEF Only, MediaTypes, k
<1>5. MediaTypes'
  BY <1>1, <1>2, <1>3, <1>4, TypesKept DEF MediaTypes
<1>6. Consistent'
  BY <1>2, <1>3, <1>4, ConsistentKept DEF Consistent
<1>7. AllUploaded' /\ Fresh'
  BY <1>1, <1>2, <1>3, <1>4, TouchedKept
<1>8. Unspoiled'
  BY <1>2, <1>3, <1>4, UnspoiledKept
<1>9. OneHome'
  BY <1>2, <1>3, <1>4, HomeKept DEF Home
<1>10. FilesInOrder'
  <2>1. Within(db', db) /\ db' \in Database /\ disk' \subseteq disk
    BY <1>1, <1>2 DEF Within, MediaTypes
  <2>2. \A x \in disk' : Awaits(j, x) => Awaits(k, x)
    BY <1>1, <1>3 DEF Awaits
  <2>3. "files" \notin spoiled => InOrder(k, db, disk')
    <3>1. "files" \notin spoiled => InOrder(j, db, disk)
      BY DEF FilesInOrder
    <3>2. Doomed(k, db) = Doomed(j, db)
      BY <1>3 DEF Doomed
    <3> HIDE DEF j
    <3> QED BY <1>1, <1>3, <3>1, <3>2 DEF InOrder
  <2> QED BY <1>2, <1>4, <2>1, <2>2, <2>3, FilesStep
<1>11. RowsInOrder'
  <2>1. ASSUME "rows" \notin spoiled, NEW x \in Rows(db)
        PROVE  \/ x \in disk' \/ Takes(k, x, db)
               \/ x \notin disk /\ ~ Takes(j, x, db)
    <3>1. CASE x = o
      <4>1. PICK home \in [Objects -> Phones \cup {"none"}] : Home(home)
        BY DEF OneHome
      <4>2. j.op \in {"deleteNumber", "deleteAccount"} => j.target = db.owner[o]
        BY <3>1, <4>1 DEF Home, Homed, Agrees
      <4>3. j.op # "import"
        BY <2>1, <3>1 DEF RowsInOrder, Restorable
      <4>4. j.op = "deleteMedia" => k.keys = {} /\ o \in k.later
        BY <1>3 DEF MediaTypes, WellFormed
      <4> QED BY <1>2, <1>3, <3>1, <4>2, <4>3, <4>4 DEF Takes, Removing, Wiping
    <3>2. CASE x # o
      BY <1>1, <1>3, <3>2 DEF Takes
    <3> QED BY <3>1, <3>2
  <2>2. "rows" \notin spoiled => \A v \in Requests \ {w} : job[v].op # "export"
    BY <1>2 DEF Unspoiled, Compatible
  <2>3. "rows" \notin spoiled => Rows(exported.db) \subseteq exported.bytes /\ Restorable(j, db, disk)
    BY DEF RowsInOrder
  <2>4. "rows" \notin spoiled => Restorable(k, db, disk')
    BY <1>3, <2>3 DEF Restorable
  <2>5. \A x : db'.owner[x] = db.owner[x]
    BY <1>2
  <2> QED BY <1>2, <1>4, <2>1, <2>2, <2>3, <2>4, RowsStep
<1> QED BY <1>5, <1>6, <1>7, <1>8, <1>9, <1>10, <1>11

LEMMA DeleteFileFailsStep ==
  ASSUME MediaInv, NEW w \in Requests, DeleteFileFails(w)
  PROVE  MediaInv'
<1> USE DEF MediaInv
<1> DEFINE j == job[w]
<1>1. PICK o \in j.keys :
        Becomes(w, IF j.op = "deleteMedia" THEN NoJob ELSE [j EXCEPT !.keys = @ \ {o}])
  BY DEF DeleteFileFails
<1>2. /\ j.op \in Removing /\ UNCHANGED <<db, disk, uploaded, exported>>
      /\ spoiled \subseteq spoiled'
      /\ j.op # "deleteMedia" => "files" \in spoiled'
  BY DEF DeleteFileFails, Mishap
<1> DEFINE k == [j EXCEPT !.keys = @ \ {o}]
<1>3. /\ k \in Jobs /\ k.op = j.op /\ k.target = j.target
      /\ k.keys = j.keys \ {o} /\ k.later = j.later /\ k.file = j.file
      /\ WellFormed(k) /\ SameRisk(k, j) /\ Touched(k) \subseteq Touched(j) /\ o \in Touched(j)
      /\ \A home : Homed(j, home) => Homed(k, home)
      /\ k.op \notin {"upload", "export"}
  BY <1>2, DeletedOneFacts
<1>4. job \in [Requests -> Jobs]
  BY DEF MediaTypes
<1>5. Becomes(w, IF j.op = "deleteMedia" THEN NoJob ELSE k)
  BY <1>1
<1> HIDE DEF k
<1>6. job' \in [Requests -> Jobs] /\ Only(w)
      /\ job'[w] = IF j.op = "deleteMedia" THEN NoJob ELSE k
  BY <1>3, <1>4, <1>5, NoJobFacts, BecomesFacts DEF Only
<1>7. MediaTypes'
  BY <1>2, <1>3, <1>6, NoJobFacts, TypesKept DEF MediaTypes
<1>8. Consistent'
  BY <1>2, <1>3, <1>6, NoJobFacts, ConsistentKept DEF Consistent
<1>9. AllUploaded' /\ Fresh'
  BY <1>2, <1>3, <1>6, NoJobFacts, TouchedKept
<1>10. Unspoiled'
  BY <1>2, <1>3, <1>6, NoJobFacts, UnspoiledKept
<1>11. OneHome'
  BY <1>2, <1>3, <1>6, NoJobFacts, HomeKept DEF Home
<1>12. FilesInOrder'
  <2>1. Within(db', db) /\ db' \in Database /\ disk' \subseteq disk
    BY <1>2 DEF Within, MediaTypes
  <2>2. "files" \notin spoiled' => j.op = "deleteMedia" /\ job'[w] = NoJob
    BY <1>2, <1>6
  <2>3. "files" \notin spoiled' => InOrder(job'[w], db', disk')
    BY <2>2, NoJobFacts
  <2>4. "files" \notin spoiled' => \A x : ~ Awaits(j, x)
    BY <2>2 DEF Awaits
  <2> QED BY <1>2, <1>6, <2>1, <2>2, <2>3, <2>4, FilesStep
<1>13. RowsInOrder'
  <2>1. ASSUME NEW x \in Rows(db)
        PROVE  x \in disk' \/ Takes(job'[w], x, db) \/ (x \notin disk /\ ~ Takes(j, x, db))
    <3>1. CASE j.op = "deleteMedia"
      BY <1>1, <1>2, <3>1 DEF Takes
    <3>2. CASE j.op # "deleteMedia"
      BY <1>2, <1>3, <1>6, <3>2 DEF Takes
    <3> QED BY <3>1, <3>2
  <2>2. "rows" \notin spoiled' => Rows(exported.db) \subseteq exported.bytes /\ Restorable(j, db, disk)
    BY <1>2 DEF RowsInOrder
  <2>3. "rows" \notin spoiled' => Restorable(job'[w], db', disk')
    BY <1>2, <1>3, <1>6, <2>2, NoJobFacts DEF Restorable
  <2> QED BY <1>2, <1>6, <2>1, <2>2, <2>3, RowsStep
<1> QED BY <1>7, <1>8, <1>9, <1>10, <1>11, <1>12, <1>13

LEMMA BeginExportStep ==
  ASSUME MediaInv, NEW w \in Requests, BeginExport(w)
  PROVE  MediaInv'
<1> USE DEF MediaInv
<1> DEFINE f == [db |-> db, bytes |-> {}]
           j == Job("export", "none", Rows(db), {}, f)
<1>1. /\ db \in Database /\ ConsistentRows(db) /\ job \in [Requests -> Jobs]
      /\ f \in File /\ f.db = db /\ f.bytes = {} /\ ConsistentFile(f)
  BY DEF MediaTypes, Consistent, ConsistentFile, File
<1>2. /\ j.op = "export" /\ j.keys = Rows(db) /\ j.later = {} /\ j.file = f /\ j \in Jobs
  BY <1>1, JobFacts DEF MediaOps, Rows
<1>3. /\ Starts(w, j) /\ Waits(w, j) /\ UNCHANGED <<db, disk, uploaded>>
      /\ exported' = IF j.keys = {} THEN j.file ELSE exported
  BY DEF BeginExport
<1> HIDE DEF j, f
<1>4. /\ job' \in [Requests -> Jobs] /\ Only(w)
      /\ (job'[w] = NoJob /\ Rows(db) = {} /\ exported' = f)
           \/ (job'[w] = j /\ exported' = exported)
  BY <1>1, <1>2, <1>3, EmptyFacts, BecomesFacts DEF Waits, Only
<1>5. spoiled \subseteq spoiled' /\ job[w] = NoJob
  BY <1>3, StartFacts
<1>6. MediaTypes'
  BY <1>1, <1>2, <1>3, <1>4, NoJobFacts, TypesKept DEF MediaTypes, WellFormed
<1>7. Consistent'
  BY <1>1, <1>2, <1>3, <1>4, NoJobFacts, ConsistentKept DEF Consistent
<1>8. AllUploaded' /\ Fresh'
  <2>1. Touched(j) = Rows(db)
    BY <1>1, <1>2 DEF Touched
  <2> QED BY <1>1, <1>2, <1>3, <1>4, <1>5, <2>1, NoJobFacts, TouchedKept
       DEF BeginExport
<1>9. Unspoiled'
  BY <1>3, <1>4, NoJobFacts, UnspoiledStart DEF SameRisk
<1>10. OneHome'
  BY <1>1, <1>2, <1>3, <1>4, NoJobFacts, HomeKept DEF Home, Homed
<1>11. FilesInOrder'
  <2>1. InOrder(j, db, disk)
    BY <1>2 DEF InOrder, Doomed
  <2>2. Within(db', db)
    BY <1>3 DEF Within
  <2> QED BY <1>1, <1>3, <1>4, <1>5, <2>1, <2>2, NoJobFacts, FilesStep
<1>12. RowsInOrder'
  <2>1. ASSUME "rows" \notin spoiled' PROVE Rows(db) \subseteq disk
    <3>1. \A v \in Requests \ {w} : job[v].op \notin Removing
      BY <1>2, <1>3, <2>1, StartFacts DEF Compatible
    <3>2. \A v \in Requests : \A o : ~ Takes(job[v], o, db)
      BY <1>5, <3>1, NoJobFacts DEF Takes, Removing, Wiping
    <3> QED BY <1>5, <2>1, <3>2 DEF RowsInOrder
  <2>2. "rows" \notin spoiled' => Restorable(j, db, disk)
    BY <1>1, <1>2, <2>1 DEF Restorable
  <2>3. "rows" \notin spoiled' => Rows(exported'.db) \subseteq exported'.bytes
    BY <1>1, <1>4, <1>5 DEF RowsInOrder
  <2> QED BY <1>3, <1>4, <1>5, <2>1, <2>2, <2>3, NoJobFacts, RowsStep
<1> QED BY <1>6, <1>7, <1>8, <1>9, <1>10, <1>11, <1>12

LEMMA ReadFileStep ==
  ASSUME MediaInv, NEW w \in Requests, ReadFile(w)
  PROVE  MediaInv'
<1> USE DEF MediaInv
<1> DEFINE j == job[w]
<1>1. PICK o \in j.keys :
        Becomes(w, [j EXCEPT !.keys = @ \ {o}, !.file.bytes = @ \cup ({o} \cap disk)])
  BY DEF ReadFile
<1>2. j.op = "export" /\ UNCHANGED <<db, disk, uploaded, exported, spoiled>>
  BY DEF ReadFile
<1>3. /\ j \in Jobs /\ ConsistentFile(j.file) /\ j.keys \subseteq Rows(j.file.db)
      /\ WellFormed(j) /\ job \in [Requests -> Jobs]
  BY <1>2 DEF MediaTypes, Consistent
<1> DEFINE k == [j EXCEPT !.keys = @ \ {o}, !.file.bytes = @ \cup ({o} \cap disk)]
<1>4. /\ k \in Jobs /\ k.op = j.op /\ k.target = j.target /\ k.keys = j.keys \ {o}
      /\ k.later = j.later /\ k.file.db = j.file.db
      /\ k.file.bytes = j.file.bytes \cup ({o} \cap disk)
  <2> DEFINE K == j.keys \ {o}
             B == j.file.bytes \cup ({o} \cap disk)
  <2>1. K \in SUBSET Objects /\ B \in SUBSET Objects
    BY <1>3 DEF Jobs, File, MediaTypes
  <2>2. k = [j EXCEPT !.keys = K, !.file.bytes = B]
    BY <1>3 DEF Jobs, File
  <2> HIDE DEF K, B, k, j
  <2>3. /\ k \in Jobs /\ k.op = j.op /\ k.target = j.target /\ k.keys = K
        /\ k.later = j.later /\ k.file.db = j.file.db /\ k.file.bytes = B
    BY <1>3, <2>1, <2>2 DEF Jobs, File
  <2> QED BY <2>3 DEF K, B
<1> HIDE DEF k, j
<1>5. job' \in [Requests -> Jobs] /\ Only(w) /\ job'[w] = k
  BY <1>1, <1>3, <1>4, BecomesFacts DEF Only, k
<1>6. ConsistentFile(k.file) /\ WellFormed(k) /\ SameRisk(k, j) /\ Touched(k) \subseteq Touched(j)
  BY <1>1, <1>3, <1>4, Shrinks DEF ConsistentFile, WellFormed, SameRisk
<1>7. MediaTypes'
  BY <1>2, <1>5, <1>6, TypesKept DEF MediaTypes
<1>8. Consistent'
  BY <1>2, <1>3, <1>4, <1>5, <1>6, ConsistentKept DEF Consistent
<1>9. AllUploaded' /\ Fresh'
  BY <1>2, <1>4, <1>5, <1>6, TouchedKept DEF j
<1>10. Unspoiled'
  BY <1>2, <1>5, <1>6, UnspoiledKept DEF j
<1>11. OneHome'
  BY <1>2, <1>4, <1>5, HomeKept DEF Home, Homed, j
<1>12. FilesInOrder'
  <2>1. InOrder(k, db, disk)
    BY <1>2, <1>4 DEF InOrder, Doomed
  <2>2. Within(db', db) /\ db' \in Database
    BY <1>2 DEF Within, MediaTypes
  <2>3. \A x : ~ Awaits(job[w], x)
    BY <1>2 DEF Awaits, j
  <2> QED BY <1>2, <1>5, <2>1, <2>2, <2>3, FilesStep
<1>13. RowsInOrder'
  <2>1. "rows" \notin spoiled =>
          Rows(exported.db) \subseteq exported.bytes /\ Restorable(j, db, disk)
    BY DEF RowsInOrder, j
  <2>2. "rows" \notin spoiled => Restorable(k, db, disk)
    BY <1>1, <1>2, <1>4, <2>1 DEF Restorable
  <2>3. \A x : ~ Takes(job[w], x, db)
    BY <1>2 DEF Takes, j
  <2> QED BY <1>2, <1>5, <2>1, <2>2, <2>3, RowsStep
<1> QED BY <1>7, <1>8, <1>9, <1>10, <1>11, <1>12, <1>13

LEMMA EndExportStep ==
  ASSUME MediaInv, NEW w \in Requests, EndExport(w)
  PROVE  MediaInv'
<1> USE DEF MediaInv
<1> DEFINE j == job[w]
<1>1. /\ j.op = "export" /\ j.keys = {} /\ exported' = j.file
      /\ Becomes(w, NoJob) /\ UNCHANGED <<db, disk, uploaded, spoiled>>
  BY DEF EndExport
<1>2. /\ j \in Jobs /\ ConsistentFile(j.file) /\ job \in [Requests -> Jobs] /\ j.file \in File
  BY DEF MediaTypes, Consistent, Jobs
<1> HIDE DEF j
<1>3. job' \in [Requests -> Jobs] /\ Only(w) /\ job'[w] = NoJob
  BY <1>1, <1>2, NoJobFacts, BecomesFacts DEF Only
<1>4. MediaTypes'
  BY <1>1, <1>2, <1>3, NoJobFacts, TypesKept DEF MediaTypes
<1>5. Consistent'
  BY <1>1, <1>2, <1>3, NoJobFacts, ConsistentKept DEF Consistent
<1>6. AllUploaded' /\ Fresh'
  <2>1. Rows(j.file.db) \subseteq Touched(j)
    BY DEF Touched
  <2> QED BY <1>1, <1>3, <2>1, NoJobFacts, TouchedKept DEF j
<1>7. Unspoiled'
  BY <1>1, <1>3, NoJobFacts, UnspoiledKept
<1>8. OneHome'
  BY <1>1, <1>3, NoJobFacts, HomeKept DEF Home, Homed, j
<1>9. FilesInOrder'
  <2>1. Within(db', db) /\ db' \in Database
    BY <1>1 DEF Within, MediaTypes
  <2>2. \A x : ~ Awaits(job[w], x)
    BY <1>1 DEF Awaits, j
  <2> QED BY <1>1, <1>3, <2>1, <2>2, NoJobFacts, FilesStep
<1>10. RowsInOrder'
  <2>1. "rows" \notin spoiled => Restorable(j, db, disk)
    BY DEF RowsInOrder, j
  <2>2. "rows" \notin spoiled => Rows(exported'.db) \subseteq exported'.bytes
    BY <1>1, <2>1 DEF Restorable
  <2>3. \A x : ~ Takes(job[w], x, db)
    BY <1>1 DEF Takes, j
  <2> QED BY <1>1, <1>3, <2>2, <2>3, NoJobFacts, RowsStep
<1> QED BY <1>4, <1>5, <1>6, <1>7, <1>8, <1>9, <1>10

LEMMA BeginImportStep ==
  ASSUME MediaInv, NEW w \in Requests, BeginImport(w)
  PROVE  MediaInv'
<1> USE DEF MediaInv
<1>1. PICK file \in {exported, NoFile} :
        /\ LET j == Job("import", "none", Rows(db) \ Rows(file.db), file.bytes, NoFile) IN
             Starts(w, j) /\ Waits(w, j)
        /\ db' = file.db
  BY DEF BeginImport
<1> DEFINE j == Job("import", "none", Rows(db) \ Rows(file.db), file.bytes, NoFile)
<1>2. /\ job \in [Requests -> Jobs] /\ file \in File /\ ConsistentFile(file)
      /\ Rows(file.db) \subseteq Rows(exported.db)
      /\ file.db \in Database /\ file.bytes \subseteq Objects /\ file.bytes \subseteq Rows(file.db)
  BY EmptyFacts DEF MediaTypes, Consistent, ConsistentFile, File
<1>3. /\ j.op = "import" /\ j.keys = Rows(db) \ Rows(file.db) /\ j.later = file.bytes
      /\ j.file = NoFile /\ j \in Jobs
  BY <1>2, JobFacts, EmptyFacts DEF MediaOps, Removing, Rows
<1>4. Starts(w, j) /\ Waits(w, j) /\ db' = file.db /\ UNCHANGED <<disk, uploaded, exported>>
  BY <1>1 DEF BeginImport
<1> HIDE DEF j
<1>5. /\ job' \in [Requests -> Jobs] /\ Only(w)
      /\ job'[w] = IF j.keys \cup j.later = {} THEN NoJob ELSE j
  BY <1>2, <1>3, <1>4, EmptyFacts, BecomesFacts DEF Waits, Only
<1>6. spoiled \subseteq spoiled' /\ job[w] = NoJob
  BY <1>4, StartFacts
<1>7. MediaTypes'
  <2>1. WellFormed(j)
    BY <1>2, <1>3 DEF WellFormed
  <2> QED BY <1>2, <1>4, <1>5, <2>1, NoJobFacts, TypesKept DEF MediaTypes
<1>8. Consistent'
  <2>1. ConsistentFile(job'[w].file) /\ job'[w].op # "export"
    BY <1>3, <1>5, EmptyFacts
  <2> QED BY <1>2, <1>4, <1>5, <2>1, ConsistentKept DEF Consistent, ConsistentFile
<1>9. AllUploaded' /\ Fresh'
  <2>1. Touched(j) \subseteq Rows(db) \cup Rows(exported.db)
    BY <1>2, <1>3, EmptyFacts DEF Touched
  <2> QED BY <1>2, <1>3, <1>4, <1>5, <1>6, <2>1, NoJobFacts, TouchedKept
<1>10. Unspoiled'
  BY <1>4, <1>5, NoJobFacts, UnspoiledStart DEF SameRisk
<1>11. OneHome'
  <2>1. ASSUME NEW home, Home(home)
        PROVE  Agrees(db', home) /\ Agrees(exported'.db, home) /\ Homed(job'[w], home)
    <3>1. Agrees(NoFile.db, home)
      BY EmptyFacts DEF Agrees
    <3>2. Homed(j, home)
      BY <1>3, <3>1 DEF Homed
    <3> QED BY <1>1, <1>4, <1>5, <2>1, <3>1, <3>2, NoJobFacts DEF Home
  <2> QED BY <1>5, <2>1, HomeKept
<1>12. FilesInOrder'
  <2> SUFFICES ASSUME "files" \notin spoiled'
               PROVE  /\ \A o \in disk : o \in Rows(db') \/ \E v \in Requests : Awaits(job'[v], o)
                      /\ \A v \in Requests : InOrder(job'[v], db', disk)
    BY <1>4 DEF FilesInOrder
  <2>1. \A v \in Requests \ {w} : job[v].op \notin Removing \cup {"upload"}
    BY <1>3, <1>4, StartFacts DEF Compatible
  <2>2. \A v \in Requests : \A o : ~ Awaits(job[v], o)
    BY <1>6, <2>1, NoJobFacts DEF Awaits, Removing
  <2>3. disk \subseteq Rows(db)
    BY <1>6, <2>2 DEF FilesInOrder
  <2>4. ASSUME NEW o \in disk PROVE o \in Rows(db') \/ Awaits(job'[w], o)
    BY <1>3, <1>4, <1>5, <2>3, <2>4 DEF Awaits
  <2>5. InOrder(j, db', disk)
    BY <1>2, <1>3, <1>4 DEF InOrder, Doomed
  <2>6. ASSUME NEW v \in Requests \ {w} PROVE InOrder(job'[v], db', disk)
    BY <1>5, <2>1 DEF InOrder, Doomed, Removing, Wiping, Only
  <2> QED BY <1>5, <2>4, <2>5, <2>6, NoJobFacts
<1>13. RowsInOrder'
  <2>1. "rows" \notin spoiled' => Rows(exported.db) \subseteq exported.bytes
    BY <1>6 DEF RowsInOrder
  <2>2. "rows" \notin spoiled' => Rows(file.db) \subseteq file.bytes
    BY <1>1, <2>1, EmptyFacts
  <2>3. ASSUME "rows" \notin spoiled', NEW o \in Rows(db') PROVE Takes(job'[w], o, db')
    BY <1>3, <1>4, <1>5, <2>2, <2>3 DEF Takes
  <2>4. "rows" \notin spoiled' => \A v \in Requests \ {w} : job[v].op # "import"
    BY <1>3, <1>4, StartFacts DEF Compatible
  <2>5. Restorable(j, db', disk)
    BY <1>3, <1>4 DEF Restorable
  <2> QED BY <1>4, <1>5, <1>6, <2>1, <2>3, <2>4, <2>5, NoJobFacts, RowsStep
<1> QED BY <1>7, <1>8, <1>9, <1>10, <1>11, <1>12, <1>13

LEMMA RestoreFileStep ==
  ASSUME MediaInv, NEW w \in Requests, RestoreFile(w)
  PROVE  MediaInv'
<1> USE DEF MediaInv
<1> DEFINE j == job[w]
<1>1. PICK o \in j.later : disk' = disk \cup {o} /\ Becomes(w, [j EXCEPT !.later = @ \ {o}])
  BY DEF RestoreFile
<1>2. /\ j.op = "import" /\ j.keys = {} /\ UNCHANGED <<db, uploaded, exported, spoiled>>
  BY DEF RestoreFile
<1>3. /\ j \in Jobs /\ WellFormed(j) /\ job \in [Requests -> Jobs] /\ ConsistentFile(j.file)
      /\ j.later \subseteq Objects
  BY <1>2 DEF MediaTypes, WellFormed, Consistent
<1> DEFINE k == [j EXCEPT !.later = @ \ {o}]
<1>4. /\ k \in Jobs /\ k.op = j.op /\ k.target = j.target /\ k.keys = j.keys
      /\ k.later = j.later \ {o} /\ k.file = j.file
  BY <1>3 DEF Jobs
<1> HIDE DEF k, j
<1>5. job' \in [Requests -> Jobs] /\ Only(w) /\ job'[w] = k
  BY <1>1, <1>3, <1>4, BecomesFacts DEF Only, k
<1>6. /\ WellFormed(k) /\ SameRisk(k, j) /\ Touched(k) \subseteq Touched(j) /\ o \in Touched(j)
  BY <1>1, <1>2, <1>3, <1>4, Shrinks DEF WellFormed, SameRisk, Touched
<1>7. MediaTypes'
  BY <1>1, <1>2, <1>3, <1>5, <1>6, TypesKept DEF MediaTypes
<1>8. Consistent'
  BY <1>2, <1>3, <1>4, <1>5, ConsistentKept DEF Consistent
<1>9. AllUploaded' /\ Fresh'
  BY <1>1, <1>2, <1>4, <1>5, <1>6, TouchedKept DEF j
<1>10. Unspoiled'
  BY <1>2, <1>5, <1>6, UnspoiledKept DEF j
<1>11. OneHome'
  BY <1>2, <1>4, <1>5, HomeKept DEF Home, Homed, j
<1>12. FilesInOrder'
  <2> SUFFICES ASSUME "files" \notin spoiled
               PROVE  /\ \A x \in disk' : x \in Rows(db) \/ \E v \in Requests : Awaits(job'[v], x)
                      /\ \A v \in Requests : InOrder(job'[v], db, disk')
    BY <1>2 DEF FilesInOrder
  <2>1. InOrder(j, db, disk)
    BY DEF FilesInOrder, j
  <2>2. o \in Rows(db)
    BY <1>1, <1>2, <2>1 DEF InOrder
  <2>3. ASSUME NEW x \in disk' PROVE x \in Rows(db) \/ \E v \in Requests : Awaits(job'[v], x)
    <3>1. x \in Rows(db) \/ \E v \in Requests : Awaits(job[v], x)
      BY <1>1, <2>2, <2>3 DEF FilesInOrder
    <3>2. ~ Awaits(job[w], x)
      BY <1>2 DEF Awaits, j
    <3> QED BY <1>5, <3>1, <3>2 DEF Only
  <2>4. InOrder(k, db, disk')
    BY <1>2, <1>4, <2>1 DEF InOrder, Doomed
  <2>5. ASSUME NEW v \in Requests \ {w} PROVE InOrder(job[v], db, disk')
    <3>1. Compatible(j, job[v], spoiled) /\ InOrder(job[v], db, disk)
      BY <2>5 DEF Unspoiled, FilesInOrder, j
    <3>2. job[v].op \notin Removing \cup {"upload"}
      BY <1>2, <3>1 DEF Compatible
    <3> QED BY <3>2 DEF InOrder, Doomed, Removing, Wiping
  <2> QED BY <1>5, <2>3, <2>4, <2>5 DEF Only
<1>13. RowsInOrder'
  <2>1. \A x \in Rows(db) : x \in disk' \/ Takes(k, x, db) \/ (x \notin disk /\ ~ Takes(j, x, db))
    BY <1>1, <1>2, <1>4 DEF Takes
  <2>2. "rows" \notin spoiled =>
          Rows(exported.db) \subseteq exported.bytes /\ Restorable(j, db, disk)
    BY DEF RowsInOrder, j
  <2>3. "rows" \notin spoiled => Restorable(k, db, disk')
    BY <1>2, <1>4, <2>2 DEF Restorable
  <2> QED BY <1>1, <1>2, <1>5, <2>1, <2>2, <2>3, RowsStep DEF j
<1> QED BY <1>7, <1>8, <1>9, <1>10, <1>11, <1>12, <1>13

LEMMA RestoreFailsStep ==
  ASSUME MediaInv, NEW w \in Requests, RestoreFails(w)
  PROVE  MediaInv'
<1> USE DEF MediaInv
<1> DEFINE j == job[w]
<1>1. PICK o \in j.later : disk' = disk \ {o}
  BY DEF RestoreFails
<1>2. /\ j.op = "import" /\ j.keys = {} /\ Becomes(w, NoJob) /\ UNCHANGED <<db, uploaded, exported>>
      /\ spoiled \subseteq spoiled' /\ "rows" \in spoiled'
  BY DEF RestoreFails, Mishap
<1>3. /\ job \in [Requests -> Jobs] /\ o \in Touched(j)
  BY <1>2 DEF MediaTypes, Touched
<1> HIDE DEF j
<1>4. job' \in [Requests -> Jobs] /\ Only(w) /\ job'[w] = NoJob
  BY <1>2, <1>3, NoJobFacts, BecomesFacts DEF Only
<1>5. MediaTypes'
  BY <1>1, <1>2, <1>4, NoJobFacts, TypesKept DEF MediaTypes
<1>6. Consistent'
  BY <1>2, <1>4, NoJobFacts, ConsistentKept DEF Consistent
<1>7. AllUploaded' /\ Fresh'
  BY <1>1, <1>2, <1>3, <1>4, NoJobFacts, TouchedKept DEF j
<1>8. Unspoiled'
  BY <1>2, <1>4, NoJobFacts, UnspoiledKept
<1>9. OneHome'
  BY <1>2, <1>4, NoJobFacts, HomeKept DEF Home
<1>10. FilesInOrder'
  <2>1. Within(db', db) /\ db' \in Database
    BY <1>2 DEF Within, MediaTypes
  <2>2. \A x : ~ Awaits(job[w], x)
    BY <1>2 DEF Awaits, j
  <2> QED BY <1>1, <1>2, <1>4, <2>1, <2>2, NoJobFacts, FilesStep
<1>11. RowsInOrder'
  BY <1>2 DEF RowsInOrder
<1> QED BY <1>5, <1>6, <1>7, <1>8, <1>9, <1>10, <1>11

LEMMA EndImportStep ==
  ASSUME MediaInv, NEW w \in Requests, EndImport(w)
  PROVE  MediaInv'
<1> USE DEF MediaInv
<1> DEFINE j == job[w]
<1>1. /\ j.op = "import" /\ j.keys = {} /\ j.later = {} /\ Becomes(w, NoJob)
      /\ UNCHANGED <<db, disk, uploaded, exported, spoiled>>
  BY DEF EndImport
<1> HIDE DEF j
<1>2. job' \in [Requests -> Jobs] /\ Only(w) /\ job'[w] = NoJob
  BY <1>1, NoJobFacts, BecomesFacts DEF Only, MediaTypes
<1>3. MediaTypes'
  BY <1>1, <1>2, NoJobFacts, TypesKept DEF MediaTypes
<1>4. Consistent'
  BY <1>1, <1>2, NoJobFacts, ConsistentKept DEF Consistent
<1>5. AllUploaded' /\ Fresh'
  BY <1>1, <1>2, NoJobFacts, TouchedKept
<1>6. Unspoiled'
  BY <1>1, <1>2, NoJobFacts, UnspoiledKept
<1>7. OneHome'
  BY <1>1, <1>2, NoJobFacts, HomeKept DEF Home
<1>8. FilesInOrder'
  <2>1. Within(db', db) /\ db' \in Database
    BY <1>1 DEF Within, MediaTypes
  <2>2. \A x : ~ Awaits(job[w], x)
    BY <1>1 DEF Awaits, j
  <2> QED BY <1>1, <1>2, <2>1, <2>2, NoJobFacts, FilesStep
<1>9. RowsInOrder'
  <2>1. \A x : ~ Takes(job[w], x, db)
    BY <1>1 DEF Takes, j
  <2>2. "rows" \notin spoiled => Rows(exported.db) \subseteq exported.bytes
    BY DEF RowsInOrder
  <2> QED BY <1>1, <1>2, <2>1, <2>2, NoJobFacts, RowsStep
<1> QED BY <1>3, <1>4, <1>5, <1>6, <1>7, <1>8, <1>9

LEMMA RestartOverStep ==
  ASSUME MediaInv, RestartOver
  PROVE  MediaInv'
<1> USE DEF MediaInv
<1>1. /\ db' = Seeded(db) /\ \A w \in Requests : job'[w] = NoJob
      /\ job' \in [Requests -> Jobs] /\ UNCHANGED <<disk, uploaded, exported>>
  BY NoJobFacts DEF RestartOver
<1>2. /\ spoiled \subseteq spoiled'
      /\ \A w \in Requests : job[w].op \in {"upload", "import"} => "files" \in spoiled'
      /\ \A w \in Requests : job[w].op \in Removing => "rows" \in spoiled'
  BY DEF RestartOver, Mishap
<1>3. /\ db' \in Database /\ db'.owner = db.owner /\ db.phones \subseteq db'.phones /\ db'.account = TRUE
      /\ Rows(db') = Rows(db)
  BY <1>1, SeededFacts DEF MediaTypes, Rows
<1>4. MediaTypes'
  BY <1>1, <1>3, NoJobFacts DEF MediaTypes
<1>5. Consistent'
  <2>1. ConsistentRows(db')
    BY <1>3 DEF Consistent, ConsistentRows
  <2> QED BY <1>1, <2>1, NoJobFacts DEF Consistent
<1>6. AllUploaded' /\ Fresh'
  BY <1>1, <1>3, NoJobFacts DEF AllUploaded, Fresh
<1>7. Unspoiled'
  BY <1>1, NoJobFacts DEF Unspoiled, Compatible, Covers
<1>8. OneHome'
  <2>1. PICK home \in [Objects -> Phones \cup {"none"}] : Home(home)
    BY DEF OneHome
  <2>2. Home(home)'
    BY <1>1, <1>3, <2>1, NoJobFacts DEF Home, Agrees
  <2> QED BY <2>2 DEF OneHome
<1>9. FilesInOrder'
  BY <1>1, <1>2, <1>3, NoJobFacts DEF FilesInOrder, Awaits
<1>10. RowsInOrder'
  <2>1. "rows" \notin spoiled' => \A w \in Requests : \A o : ~ Takes(job[w], o, db)
    BY <1>2 DEF Takes, Removing, Wiping
  <2> QED BY <1>1, <1>2, <1>3, <2>1, NoJobFacts DEF RowsInOrder
<1> QED BY <1>4, <1>5, <1>6, <1>7, <1>8, <1>9, <1>10

-----------------------------------------------------------------------------
LEMMA MediaInitInv == MediaInit => MediaInv
<1> SUFFICES ASSUME MediaInit PROVE MediaInv
  OBVIOUS
<1>1. /\ db = Seeded(EmptyDb) /\ disk = {} /\ uploaded = {} /\ exported = NoFile /\ spoiled = {}
      /\ \A w \in Requests : job[w] = NoJob
      /\ job \in [Requests -> Jobs]
  BY NoJobFacts DEF MediaInit
<1>2. db \in Database /\ Rows(db) = {} /\ ConsistentRows(db)
  BY <1>1, SeededEmptyFacts
<1>3. Rows(exported.db) = {} /\ ConsistentFile(exported) /\ exported \in File
  BY <1>1, EmptyFacts
<1>4. MediaTypes /\ Consistent /\ AllUploaded /\ Fresh
  BY <1>1, <1>2, <1>3, NoJobFacts DEF MediaTypes, Consistent, AllUploaded, Fresh
<1>5. Unspoiled
  BY <1>1, NoJobFacts DEF Unspoiled, Compatible, Covers
<1>6. OneHome
  <2>1. \A home : Home(home)
    BY <1>1, <1>2, <1>3, NoJobFacts DEF Home, Agrees
  <2>2. [o \in Objects |-> "none"] \in [Objects -> Phones \cup {"none"}]
    OBVIOUS
  <2> QED BY <2>1, <2>2 DEF OneHome
<1>7. FilesInOrder /\ RowsInOrder
  BY <1>1, <1>2, <1>3, NoJobFacts DEF FilesInOrder, RowsInOrder
<1> QED BY <1>4, <1>5, <1>6, <1>7 DEF MediaInv

LEMMA MediaStutterInv ==
  ASSUME MediaInv, UNCHANGED mediaVars
  PROVE  MediaInv'
BY DEF mediaVars, MediaInv, MediaTypes, Consistent, AllUploaded, Fresh, Unspoiled, OneHome, Home,
       FilesInOrder, RowsInOrder

LEMMA MediaStepInv == MediaInv /\ [MediaNext]_mediaVars => MediaInv'
<1> SUFFICES ASSUME MediaInv, [MediaNext]_mediaVars PROVE MediaInv'
  OBVIOUS
<1>1. CASE UNCHANGED mediaVars
  BY <1>1, MediaStutterInv
<1>2. CASE CreateAccount \/ (\E p \in Phones : CreateNumber(p)) \/ RestartOver
  BY <1>2, CreateAccountStep, CreateNumberStep, RestartOverStep
<1>3. ASSUME NEW w \in Requests,
             \/ \E o \in Objects, p \in Phones : BeginUpload(w, o, p)
             \/ EndUpload(w) \/ UploadFails(w)
             \/ \E o \in Objects : BeginDeleteMedia(w, o)
             \/ EndDeleteMedia(w)
      PROVE  MediaInv'
  BY <1>3, BeginUploadStep, EndUploadStep, UploadFailsStep, BeginDeleteMediaStep, EndDeleteMediaStep
<1>4. ASSUME NEW w \in Requests,
             \/ \E p \in Phones : BeginDeleteNumber(w, p)
             \/ EndDeleteNumber(w)
             \/ BeginDeleteAccount(w) \/ NextInAccount(w)
             \/ BeginReset(w) \/ EndReset(w)
             \/ DeleteFile(w) \/ DeleteFileFails(w)
      PROVE  MediaInv'
  BY <1>4, BeginDeleteNumberStep, EndDeleteNumberStep, BeginDeleteAccountStep, NextInAccountStep,
     BeginResetStep, EndResetStep, DeleteFileStep, DeleteFileFailsStep
<1>5. ASSUME NEW w \in Requests,
             \/ BeginExport(w) \/ ReadFile(w) \/ EndExport(w)
             \/ BeginImport(w) \/ RestoreFile(w) \/ RestoreFails(w) \/ EndImport(w)
      PROVE  MediaInv'
  BY <1>5, BeginExportStep, ReadFileStep, EndExportStep, BeginImportStep, RestoreFileStep,
     RestoreFailsStep, EndImportStep
<1> QED BY <1>1, <1>2, <1>3, <1>4, <1>5 DEF MediaNext

\* MediaInv is an invariant of the media store.
LEMMA MediaInvariance == MediaSpec => []MediaInv
BY MediaInitInv, MediaStepInv, PTL DEF MediaSpec

\* No file is left behind, for any number of objects, numbers and requests: an upload writes
\* its row, a delete takes the file before the row, and an import deletes what it replaced.
THEOREM NoFileIsLeftBehind == MediaSpec => []NoFileLeftBehind
<1>1. MediaInv => NoFileLeftBehind
  BY DEF MediaInv, FilesInOrder, NoFileLeftBehind, Awaits, InHand, Removing
<1> QED BY <1>1, MediaInvariance, PTL

\* A row that is there to stay can be downloaded.
THEOREM RowsCanBeDownloaded == MediaSpec => []RowCanBeDownloaded
<1>1. MediaInv => RowCanBeDownloaded
  <2> SUFFICES ASSUME MediaInv, "rows" \notin spoiled, NEW o \in Rows(db), o \notin disk
               PROVE  Pending(o)
    BY DEF RowCanBeDownloaded
  <2>1. PICK w \in Requests : Takes(job[w], o, db)
    BY DEF MediaInv, RowsInOrder
  <2> QED BY <2>1 DEF Takes, Pending, Covers, Wiping
<1> QED BY <1>1, MediaInvariance, PTL

\* A snapshot file is a database, whatever is deleted while it is being written.
THEOREM ExportsAreConsistent == MediaSpec => []ExportIsConsistent
<1>1. MediaInv => ExportIsConsistent
  BY DEF MediaInv, Consistent, ConsistentFile, ConsistentRows, ExportIsConsistent
<1> QED BY <1>1, MediaInvariance, PTL
=============================================================================
