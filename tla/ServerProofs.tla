----------------------------- MODULE ServerProofs -----------------------------
(***************************************************************************)
(* The proofs about the server's requests, those it answers on the Graph   *)
(* surface and those it makes itself, its webhook deliveries.              *)
(*                                                                         *)
(* Ids, MSISDNs and registration rungs stay consistent for any number of   *)
(* accounts, requests in flight, restarts and resets.  What the walks of   *)
(* the registration ladder may disturb is a row's own fields, so one lemma *)
(* covers every patch; what creations and seeds may disturb is the id      *)
(* spaces, and there the invariant has to be stronger: minted accounts for *)
(* every id a store holds, and no media object ever has a template's id,   *)
(* not even under an id the seed put back.                                 *)
(*                                                                         *)
(* Then the emitter's log and its contract, for any number of events,      *)
(* attempts, re-deliveries, wipes and restarts.  The log's completeness    *)
(* needs facts the properties do not state: a delivery under way has an    *)
(* attempt left, one that was never started has ended none, and a wipe     *)
(* never counts an attempt that has not ended.  The contract needs one     *)
(* more: no delivery goes on after an answer.                              *)
(***************************************************************************)
EXTENDS GraphApi, WebhookEmitter, Integers, FiniteSetTheorems, WellFoundedInduction, TLAPS

\* What RungsAgree says of one row.
Rung(r) ==
  /\ r.status = "CONNECTED" => r.verified /\ r.approved
  /\ r.verified => r.proof # "none"
  /\ r.status = "UNVERIFIED" => ~ r.verified
  /\ r.status = "PENDING" => r.verified

\* Every id in use was minted, or named and noted as such.
Accounted == \A id \in Ids : IdIsFree(id) \/ id \in minted

\* Random ids never meet.
Apart == \A id \in Ids : media[id] = NoId \/ templates[id] = NoId

\* What OneIdOneObject says of one id, without counting.
Alone(id) ==
  /\ id \in wabas => numbers[id] = NoNumber /\ media[id] = NoId /\ templates[id] = NoId
  /\ numbers[id] # NoNumber => media[id] = NoId /\ templates[id] = NoId

OneStore == \A id \in Ids \ reseeded : Alone(id)

AInv ==
  /\ AccountsTypeOK
  /\ \A n \in Phones : Rung(numbers[n])
  /\ OneNumberPerMsisdn
  /\ Accounted /\ Apart /\ OneStore

-----------------------------------------------------------------------------
(* Rows *)

\* The absent row is not a row.
LEMMA NoNumberIsNone == NoNumber \notin Number
BY DEF NoNumber, Number, NumberStatus

\* An onboarded row is a row on the top rung, if something vouches for it.
LEMMA Onboarded ==
  ASSUME NEW waba \in Ids, NEW display \in Displays, NEW proof \in Proof \ {"none"}
  PROVE  LET r == OnboardedNumber(waba, display, proof)
         IN r \in Number /\ Rung(r) /\ r.display = display
BY DEF OnboardedNumber, Number, NumberStatus, Rung

\* A handler that rewrites a row and keeps its spelling and its rung in order.
LEMMA PatchStep ==
  ASSUME AInv, NEW n \in Phones, NEW number \in Number,
         Rung(number), number.display = numbers[n].display, Patch(n, number)
  PROVE  AInv'
<1>1. /\ numbers \in [Ids -> Number \cup {NoNumber}] /\ n \in Ids
      /\ numbers[n] # NoNumber /\ number # NoNumber
      /\ numbers' = [numbers EXCEPT ![n] = number]
      /\ UNCHANGED <<wabas, subscribed, media, templates, minted, reseeded>>
  BY NoNumberIsNone DEF AInv, AccountsTypeOK, Phones, Patch
<1>2. /\ numbers' \in [Ids -> Number \cup {NoNumber}]
      /\ numbers'[n] = number
      /\ \A id \in Ids \ {n} : numbers'[id] = numbers[id]
  BY <1>1
<1>3. Phones' = Phones
  BY <1>1, <1>2 DEF Phones
<1>4. AccountsTypeOK'
  BY <1>1, <1>2 DEF AInv, AccountsTypeOK
<1>5. \A m \in Phones' : Rung(numbers'[m])
  BY <1>2, <1>3 DEF AInv, Phones
<1>6. OneNumberPerMsisdn'
  <2>1. \A m \in Phones : numbers'[m].display = numbers[m].display
    BY <1>2 DEF Phones
  <2>2. QED
    BY <1>1, <1>3, <2>1 DEF AInv, OneNumberPerMsisdn
<1>7. \A id \in Ids : numbers'[id] = NoNumber <=> numbers[id] = NoNumber
  BY <1>1, <1>2
<1>8. Accounted' /\ Apart' /\ OneStore'
  BY <1>1, <1>7 DEF AInv, Accounted, IdIsFree, Apart, OneStore, Alone
<1>9. QED
  BY <1>4, <1>5, <1>6, <1>8 DEF AInv

\* A new row under an id that is free, for an MSISDN nobody has.
LEMMA InsertStep ==
  ASSUME AInv, NEW n \in Ids, IdIsFree(n), NEW number \in Number,
         Rung(number), DigitsAreFree(number.display, NoId), Insert(n, number)
  PROVE  AInv'
<1>1. /\ numbers \in [Ids -> Number \cup {NoNumber}]
      /\ number # NoNumber /\ NoId \notin Ids
      /\ numbers' = [numbers EXCEPT ![n] = number]
      /\ minted' = minted \cup {n} /\ reseeded' = reseeded \ {n}
      /\ UNCHANGED <<wabas, subscribed, media, templates>>
  BY NoNumberIsNone, AccountsAssumption DEF AInv, AccountsTypeOK, Insert
<1>2. /\ numbers' \in [Ids -> Number \cup {NoNumber}]
      /\ numbers'[n] = number
      /\ \A id \in Ids \ {n} : numbers'[id] = numbers[id]
  BY <1>1
<1>3. Phones' = Phones \cup {n} /\ n \notin Phones
  BY <1>1, <1>2 DEF Phones, IdIsFree
<1>4. AccountsTypeOK'
  BY <1>1, <1>2 DEF AInv, AccountsTypeOK
<1>5. \A m \in Phones' : Rung(numbers'[m])
  BY <1>2, <1>3 DEF AInv, Phones
<1>6. OneNumberPerMsisdn'
  <2>1. \A m \in Phones : numbers'[m] = numbers[m] /\ m # n
    BY <1>2, <1>3 DEF Phones
  <2>2. \A m \in Phones : DigitsOf[numbers[m].display] # DigitsOf[number.display]
    BY <1>1 DEF DigitsAreFree, Phones
  <2>3. QED
    BY <1>1, <1>2, <1>3, <2>1, <2>2 DEF AInv, OneNumberPerMsisdn
<1>7. Accounted' /\ Apart'
  BY <1>1, <1>2 DEF AInv, Accounted, IdIsFree, Apart
<1>8. OneStore'
  <2>1. ASSUME NEW id \in Ids \ reseeded, id # n PROVE Alone(id)'
    BY <1>1, <1>2, <2>1 DEF AInv, OneStore, Alone
  <2>2. Alone(n)'
    BY <1>1, <1>2 DEF IdIsFree, Alone
  <2>3. QED
    BY <1>1, <2>1, <2>2 DEF OneStore
<1>9. QED
  BY <1>4, <1>5, <1>6, <1>7, <1>8 DEF AInv

\* An id the generator hands out is no object's.
LEMMA FreshIsFree ==
  ASSUME AInv, NEW id \in Ids, Fresh(id)
  PROVE  IdIsFree(id)
BY DEF AInv, Accounted, Fresh

-----------------------------------------------------------------------------
(* The handlers of the Graph surface *)

LEMMA AddStep ==
  ASSUME AInv, NEW waba \in Ids, NEW display \in Displays, NEW preverified \in BOOLEAN,
         CanAdd(waba, display), AddToWaba(waba, display, preverified)
  PROVE  AInv'
<1> DEFINE row == [OnboardedNumber(waba, display, IF preverified THEN "preverified" ELSE "none")
                     EXCEPT !.status = IF preverified THEN "PENDING" ELSE "UNVERIFIED",
                            !.verified = preverified,
                            !.approved = FALSE]
<1>1. row \in Number /\ row.display = display /\ Rung(row)
  <2>1. CASE preverified = TRUE
    BY <2>1 DEF OnboardedNumber, Number, NumberStatus, Proof, Rung
  <2>2. CASE preverified = FALSE
    BY <2>2 DEF OnboardedNumber, Number, NumberStatus, Proof, Rung
  <2>3. QED
    BY <2>1, <2>2
<1>2. PICK n \in Ids : Fresh(n) /\ Insert(n, row)
  BY DEF AddToWaba
<1> HIDE DEF row
<1>3. DigitsAreFree(row.display, NoId)
  BY <1>1 DEF CanAdd
<1>4. QED
  BY <1>1, <1>2, <1>3, FreshIsFree, InsertStep

\* The rungs a row climbs, and the picture it is given.
LEMMA ClimbStep ==
  ASSUME AInv, NEW n \in Phones,
         \/ RequestCode(n)
         \/ CanVerify(n, TRUE) /\ VerifyCode(n, TRUE)
         \/ CanRegister(n) /\ Register(n)
         \/ Deregister(n)
         \/ \E handle \in Ids \cup {NoId, UploadHandle} : UpdateProfile(n, handle)
  PROVE  AInv'
<1> DEFINE r == numbers[n]
<1>1. r \in Number /\ Rung(r)
  BY DEF AInv, AccountsTypeOK, Phones
<1>2. CASE RequestCode(n)
  <2> DEFINE s == [r EXCEPT !.pending = TRUE]
  <2>1. s \in Number /\ Rung(s) /\ s.display = r.display
    BY <1>1 DEF Number, Rung
  <2>2. Patch(n, s)
    BY <1>2 DEF RequestCode
  <2>3. QED
    BY <2>1, <2>2, PatchStep
<1>3. CASE VerifyCode(n, TRUE)
  <2> DEFINE s == [r EXCEPT !.verified = TRUE, !.pending = FALSE, !.proof = "code",
                            !.status = IF @ = "UNVERIFIED" THEN "PENDING" ELSE @]
  <2>1. s \in Number /\ Rung(s) /\ s.display = r.display
    BY <1>1 DEF Number, NumberStatus, Proof, Rung
  <2>2. Patch(n, s)
    BY <1>3 DEF VerifyCode
  <2>3. QED
    BY <2>1, <2>2, PatchStep
<1>4. CASE CanRegister(n) /\ Register(n)
  <2> DEFINE s == [r EXCEPT !.status = "CONNECTED", !.approved = TRUE]
  <2>1. s \in Number /\ Rung(s) /\ s.display = r.display
    BY <1>1, <1>4 DEF Number, NumberStatus, Rung, CanRegister
  <2>2. Patch(n, s)
    BY <1>4 DEF Register
  <2>3. QED
    BY <2>1, <2>2, PatchStep
<1>5. CASE Deregister(n)
  <2> DEFINE s == [r EXCEPT !.status = "DISCONNECTED"]
  <2>1. s \in Number /\ Rung(s) /\ s.display = r.display
    BY <1>1 DEF Number, NumberStatus, Rung
  <2>2. Patch(n, s)
    BY <1>5 DEF Deregister
  <2>3. QED
    BY <2>1, <2>2, PatchStep
<1>6. ASSUME NEW handle \in Ids \cup {NoId, UploadHandle}, UpdateProfile(n, handle)
      PROVE  AInv'
  <2> DEFINE s == [r EXCEPT !.picture = handle]
  <2>1. s \in Number /\ Rung(s) /\ s.display = r.display
    BY <1>1 DEF Number, Rung
  <2>2. Patch(n, s)
    BY <1>6 DEF UpdateProfile
  <2>3. QED
    BY <2>1, <2>2, PatchStep
<1>7. QED
  BY <1>2, <1>3, <1>4, <1>5, <1>6

LEMMA UploadStep ==
  ASSUME AInv, NEW n \in Phones, UploadMedia(n)
  PROVE  AInv'
<1>1. PICK m \in Ids : /\ Fresh(m)
                       /\ media' = [media EXCEPT ![m] = n]
                       /\ minted' = minted \cup {m}
                       /\ UNCHANGED <<wabas, subscribed, numbers, templates, reseeded>>
  BY DEF UploadMedia
<1>2. IdIsFree(m) /\ n \in Ids /\ media \in [Ids -> Ids \cup {NoId}]
  BY <1>1, FreshIsFree DEF Phones, AInv, AccountsTypeOK
<1>3. AccountsTypeOK'
  BY <1>1, <1>2 DEF AInv, AccountsTypeOK
<1>4. Phones' = Phones /\ UNCHANGED numbers
  BY <1>1 DEF Phones
<1>5. (\A id \in Phones : Rung(numbers[id]))' /\ OneNumberPerMsisdn'
  BY <1>1, <1>4 DEF AInv, OneNumberPerMsisdn
<1>6. Accounted' /\ Apart' /\ OneStore'
  BY <1>1, <1>2 DEF AInv, Accounted, IdIsFree, Apart, OneStore, Alone
<1>7. QED
  BY <1>3, <1>5, <1>6 DEF AInv

LEMMA CreateTemplateStep ==
  ASSUME AInv, NEW waba \in wabas, CreateTemplate(waba)
  PROVE  AInv'
<1>1. PICK t \in Ids : /\ Fresh(t)
                       /\ templates' = [templates EXCEPT ![t] = waba]
                       /\ minted' = minted \cup {t}
                       /\ UNCHANGED <<wabas, subscribed, numbers, media, reseeded>>
  BY DEF CreateTemplate
<1>2. IdIsFree(t) /\ waba \in Ids /\ templates \in [Ids -> Ids \cup {NoId}]
  BY <1>1, FreshIsFree DEF AInv, AccountsTypeOK
<1>3. AccountsTypeOK'
  BY <1>1, <1>2 DEF AInv, AccountsTypeOK
<1>4. Phones' = Phones /\ UNCHANGED numbers
  BY <1>1 DEF Phones
<1>5. (\A id \in Phones : Rung(numbers[id]))' /\ OneNumberPerMsisdn'
  BY <1>1, <1>4 DEF AInv, OneNumberPerMsisdn
<1>6. Accounted' /\ Apart' /\ OneStore'
  BY <1>1, <1>2 DEF AInv, Accounted, IdIsFree, Apart, OneStore, Alone
<1>7. QED
  BY <1>3, <1>5, <1>6 DEF AInv

LEMMA SubscribeStep ==
  ASSUME AInv, NEW waba \in wabas, NEW on \in BOOLEAN, SetSubscribed(waba, on)
  PROVE  AInv'
<1>1. /\ subscribed' \subseteq subscribed \cup {waba}
      /\ UNCHANGED <<wabas, numbers, media, templates, minted, reseeded>>
  BY DEF SetSubscribed
<1>2. AccountsTypeOK'
  BY <1>1 DEF AInv, AccountsTypeOK
<1>3. Phones' = Phones /\ UNCHANGED numbers
  BY <1>1 DEF Phones
<1>4. (\A id \in Phones : Rung(numbers[id]))' /\ OneNumberPerMsisdn'
  BY <1>1, <1>3 DEF AInv, OneNumberPerMsisdn
<1>5. Accounted' /\ Apart' /\ OneStore'
  BY <1>1 DEF AInv, Accounted, IdIsFree, Apart, OneStore, Alone
<1>6. QED
  BY <1>2, <1>4, <1>5 DEF AInv

LEMMA SameAccounts ==
  ASSUME AInv, AccountsUnchanged
  PROVE  AInv'
<1>1. UNCHANGED <<wabas, subscribed, numbers, media, templates, minted, reseeded>>
  BY DEF AccountsUnchanged, accountVars
<1>2. Phones' = Phones
  BY <1>1 DEF Phones
<1>3. QED
  BY <1>1, <1>2 DEF AInv, AccountsTypeOK, OneNumberPerMsisdn, Accounted, IdIsFree, Apart, OneStore, Alone

\* A request that gets to its handler, refused or not.
LEMMA HandleStep ==
  ASSUME AInv, NEW r \in Request, Handle(r)
  PROVE  AInv'
<1>1. CASE Refusal(r) # {}
  BY <1>1, SameAccounts DEF Handle
<1>2. CASE Refusal(r) = {}
  <2>1. r.endpoint # "malformed" /\ ~ Unknown(r) /\ ~ Refused(r)
    <3>1. r.endpoint # "malformed" /\ ~ Unknown(r)
      BY <1>2, Zenon DEF Refusal
    <3>2. ASSUME Refused(r) PROVE FALSE
      <4>1. (CASE r.endpoint = "addNumber" -> {NumberExists}
               [] r.endpoint = "register" -> {NotVerified}
               [] r.endpoint = "send" -> {NotRegistered}
               [] OTHER -> {InvalidParameter}) = {}
        BY <1>2, <3>1, <3>2 DEF Refusal
      <4>2. QED
        BY <4>1
    <3>3. QED
      BY <3>1, <3>2
  <2>2. r.id \in Ids
    BY DEF Request
  <2>3. Effect(r)
    BY <1>2 DEF Handle
  <2>4. CASE r.endpoint = "addNumber" /\ AddToWaba(r.id, r.display, r.preverified)
    <3>1. CanAdd(r.id, r.display)
      BY <2>1, <2>4 DEF Refused
    <3>2. r.display \in Displays /\ r.preverified \in BOOLEAN
      BY <2>4 DEF Request, BodyOnly, NoBody
    <3>3. QED
      BY <2>2, <2>4, <3>1, <3>2, AddStep
  <2>5. CASE r.endpoint = "verifyCode" /\ VerifyCode(r.id, r.right)
    <3>1. r.id \in Phones /\ CanVerify(r.id, r.right)
      BY <2>1, <2>5 DEF Unknown, Refused
    <3>2. r.right = TRUE
      BY <2>5, <3>1 DEF Request, BodyOnly, NoBody, CanVerify
    <3>3. QED
      BY <2>5, <3>1, <3>2, ClimbStep
  <2>6. CASE \/ r.endpoint = "requestCode" /\ RequestCode(r.id)
             \/ r.endpoint = "register" /\ Register(r.id)
             \/ r.endpoint = "deregister" /\ Deregister(r.id)
             \/ r.endpoint = "profile" /\ UpdateProfile(r.id, r.handle)
    <3>1. r.id \in Phones
      BY <2>1, <2>6 DEF Unknown
    <3>2. r.endpoint = "register" => CanRegister(r.id)
      BY <2>1 DEF Refused
    <3>3. r.endpoint = "profile" => r.handle \in Ids \cup {NoId, UploadHandle}
      BY DEF Request, BodyOnly, NoBody
    <3>4. QED
      BY <2>6, <3>1, <3>2, <3>3, ClimbStep
  <2>7. CASE r.endpoint = "uploadMedia" /\ UploadMedia(r.id)
    <3>1. r.id \in Phones
      BY <2>1, <2>7 DEF Unknown
    <3>2. QED
      BY <2>7, <3>1, UploadStep
  <2>8. CASE r.endpoint = "createTemplate" /\ CreateTemplate(r.id)
    <3>1. r.id \in wabas
      BY <2>1, <2>8 DEF Unknown
    <3>2. QED
      BY <2>8, <3>1, CreateTemplateStep
  <2>9. CASE \/ r.endpoint = "subscribe" /\ SetSubscribed(r.id, TRUE)
             \/ r.endpoint = "unsubscribe" /\ SetSubscribed(r.id, FALSE)
    <3>1. r.id \in wabas
      BY <2>1, <2>9 DEF Unknown
    <3>2. QED
      BY <2>9, <3>1, SubscribeStep
  <2>10. CASE AccountsUnchanged
    BY <2>10, SameAccounts
  <2>11. QED
    BY <2>3, <2>4, <2>5, <2>6, <2>7, <2>8, <2>9, <2>10 DEF Effect
<1>3. QED
  BY <1>1, <1>2

-----------------------------------------------------------------------------
(* The control plane *)

LEMMA CreateWabaStep ==
  ASSUME AInv, NEW id \in Ids, CreateWaba(id)
  PROVE  AInv'
<1>1. /\ IdIsFree(id)
      /\ wabas' = wabas \cup {id} /\ minted' = minted \cup {id} /\ reseeded' = reseeded \ {id}
      /\ UNCHANGED <<subscribed, numbers, media, templates>>
  BY DEF CreateWaba
<1>2. AccountsTypeOK'
  BY <1>1 DEF AInv, AccountsTypeOK
<1>3. Phones' = Phones /\ id \notin Phones
  BY <1>1 DEF Phones, IdIsFree
<1>4. (\A n \in Phones : Rung(numbers[n]))'
  BY <1>1, <1>3 DEF AInv
<1>5. OneNumberPerMsisdn'
  BY <1>1, <1>3 DEF AInv, OneNumberPerMsisdn
<1>6. Accounted' /\ Apart'
  BY <1>1 DEF AInv, Accounted, IdIsFree, Apart
<1>7. OneStore'
  BY <1>1 DEF AInv, IdIsFree, OneStore, Alone
<1>8. QED
  BY <1>2, <1>4, <1>5, <1>6, <1>7 DEF AInv

LEMMA CreateNumberStep ==
  ASSUME AInv, NEW waba \in Ids, NEW display \in Displays, NEW id \in Ids,
         CreateNumber(waba, display, id)
  PROVE  AInv'
<1> DEFINE row == OnboardedNumber(waba, display, "control")
<1>1. row \in Number /\ Rung(row) /\ row.display = display
  BY Onboarded DEF Proof
<1>2. DigitsAreFree(display, NoId) /\ IdIsFree(id) /\ Insert(id, row)
  BY DEF CreateNumber
<1> HIDE DEF row
<1>3. QED
  BY <1>1, <1>2, InsertStep

LEMMA UpdateDisplayStep ==
  ASSUME AInv, NEW n \in Ids, NEW display \in Displays, UpdateDisplay(n, display)
  PROVE  AInv'
<1> DEFINE row == [numbers[n] EXCEPT !.display = display]
<1>1. n \in Phones /\ DigitsAreFree(display, n) /\ Patch(n, row)
  BY DEF UpdateDisplay
<1>2. numbers[n] \in Number /\ Rung(numbers[n])
  BY <1>1 DEF AInv, AccountsTypeOK, Phones
<1>3. row \in Number /\ Rung(row) /\ row.display = display
  BY <1>2 DEF Number, Rung
<1> HIDE DEF row
<1>4. /\ numbers \in [Ids -> Number \cup {NoNumber}] /\ row # NoNumber
      /\ numbers' = [numbers EXCEPT ![n] = row]
      /\ UNCHANGED <<wabas, subscribed, media, templates, minted, reseeded>>
  BY <1>1, <1>3, NoNumberIsNone DEF AInv, AccountsTypeOK, Patch
<1>5. /\ numbers' \in [Ids -> Number \cup {NoNumber}]
      /\ numbers'[n] = row
      /\ \A id \in Ids \ {n} : numbers'[id] = numbers[id]
  BY <1>3, <1>4
<1>6. Phones' = Phones
  BY <1>1, <1>4, <1>5 DEF Phones
<1>7. AccountsTypeOK'
  BY <1>4, <1>5 DEF AInv, AccountsTypeOK
<1>8. \A m \in Phones' : Rung(numbers'[m])
  BY <1>3, <1>5, <1>6 DEF AInv, Phones
<1>9. OneNumberPerMsisdn'
  <2>1. \A m \in Phones \ {n} :
          numbers'[m] = numbers[m] /\ DigitsOf[numbers[m].display] # DigitsOf[row.display]
    BY <1>1, <1>3, <1>5 DEF DigitsAreFree, Phones
  <2>2. QED
    BY <1>4, <1>5, <1>6, <2>1 DEF AInv, OneNumberPerMsisdn
<1>10. \A id \in Ids : numbers'[id] = NoNumber <=> numbers[id] = NoNumber
  BY <1>1, <1>4, <1>5 DEF Phones
<1>11. Accounted' /\ Apart' /\ OneStore'
  BY <1>4, <1>10 DEF AInv, Accounted, IdIsFree, Apart, OneStore, Alone
<1>12. QED
  BY <1>7, <1>8, <1>9, <1>11 DEF AInv

\* Rows go, and nothing that stays is marked or unmarked wrongly.
LEMMA RemovalStep ==
  ASSUME AInv, NEW gone \in SUBSET Phones, NEW closed \in SUBSET Ids,
         Without(gone),
         templates' \in [Ids -> Ids \cup {NoId}],
         \A t \in Ids : templates'[t] \in {templates[t], NoId},
         wabas' = wabas \ closed, subscribed' = subscribed \ closed,
         UNCHANGED minted, StillMarked
  PROVE  AInv'
<1>1. /\ numbers \in [Ids -> Number \cup {NoNumber}] /\ media \in [Ids -> Ids \cup {NoId}]
      /\ numbers' = [n \in Ids |-> IF n \in gone THEN NoNumber ELSE numbers[n]]
      /\ media' = [m \in Ids |-> IF media[m] \in gone THEN NoId ELSE media[m]]
      /\ reseeded' = {id \in reseeded : id \in wabas' \/ numbers'[id] # NoNumber}
      /\ reseeded \subseteq Ids
  BY DEF AInv, AccountsTypeOK, Without, StillMarked
<1>2. \A id \in Ids : /\ numbers'[id] \in {numbers[id], NoNumber}
                      /\ media'[id] \in {media[id], NoId}
  BY <1>1
<1>3. AccountsTypeOK'
  BY <1>1 DEF AInv, AccountsTypeOK
<1>4. Phones' \subseteq Phones /\ \A n \in Phones' : numbers'[n] = numbers[n]
  BY <1>1, <1>2 DEF Phones
<1>5. \A n \in Phones' : Rung(numbers'[n])
  BY <1>4 DEF AInv
<1>6. OneNumberPerMsisdn'
  <2>1. \A n \in Phones' : n \in reseeded => n \in reseeded'
    BY <1>1 DEF Phones
  <2>2. QED
    BY <1>4, <2>1 DEF AInv, OneNumberPerMsisdn
<1>7. Accounted' /\ Apart'
  BY <1>2 DEF AInv, Accounted, IdIsFree, Apart
<1>8. OneStore'
  <2>1. ASSUME NEW id \in Ids, id \notin reseeded' PROVE Alone(id)'
    <3>1. CASE id \notin reseeded
      BY <1>2, <2>1, <3>1 DEF AInv, OneStore, Alone
    <3>2. CASE id \in reseeded
      BY <1>1, <2>1, <3>2 DEF Alone
    <3>3. QED
      BY <3>1, <3>2
  <2>2. QED
    BY <2>1 DEF OneStore
<1>9. QED
  BY <1>3, <1>5, <1>6, <1>7, <1>8 DEF AInv

LEMMA DeleteStep ==
  ASSUME AInv, NEW id \in Ids, DeleteNumber(id) \/ DeleteWaba(id)
  PROVE  AInv'
<1>1. templates \in [Ids -> Ids \cup {NoId}] /\ wabas \subseteq Ids
  BY DEF AInv, AccountsTypeOK
<1>2. CASE DeleteNumber(id)
  <2>1. /\ {id} \in SUBSET Phones /\ Without({id}) /\ StillMarked
        /\ wabas' = wabas \ {} /\ subscribed' = subscribed \ {}
        /\ UNCHANGED <<templates, minted>>
    BY <1>2 DEF DeleteNumber
  <2>2. {} \in SUBSET Ids
    OBVIOUS
  <2>3. QED
    BY <1>1, <2>1, <2>2, RemovalStep
<1>3. CASE DeleteWaba(id)
  <2> DEFINE gone == {n \in Phones : numbers[n].waba = id}
  <2>1. /\ gone \in SUBSET Phones /\ Without(gone) /\ StillMarked
        /\ wabas' = wabas \ {id} /\ subscribed' = subscribed \ {id}
        /\ templates' = [t \in Ids |-> IF templates[t] = id THEN NoId ELSE templates[t]]
        /\ UNCHANGED minted
    BY <1>3 DEF DeleteWaba
  <2>2. /\ templates' \in [Ids -> Ids \cup {NoId}]
        /\ \A t \in Ids : templates'[t] \in {templates[t], NoId}
    BY <1>1, <2>1
  <2>3. {id} \in SUBSET Ids
    OBVIOUS
  <2> HIDE DEF gone
  <2>4. QED
    BY <2>1, <2>2, <2>3, RemovalStep
<1>4. QED
  BY <1>2, <1>3

-----------------------------------------------------------------------------
(* Boots *)

\* The first boot and a reset find no row: what the seed describes is consistent in itself.
LEMMA SeededFacts ==
  /\ Seeded(NoNumbers) \in [Ids -> Number \cup {NoNumber}]
  /\ \A n \in Ids : Seeded(NoNumbers)[n] # NoNumber <=> n \in SeedPhones
  /\ \A n \in SeedPhones : /\ Rung(Seeded(NoNumbers)[n])
                           /\ Seeded(NoNumbers)[n].display = SeedDisplay[n]
<1>1. SeedMissing(NoNumbers) = SeedPhones
  <2>1. \A n \in Ids : NoNumbers[n] = NoNumber /\ NoNumbers[n].waba = NoId
    BY DEF NoNumbers, NoNumber
  <2>2. \A s \in SeedPhones : s \in Ids /\ SeedOwner[s] \in Ids /\ SeedOwner[s] # NoId
    BY AccountsAssumption
  <2>3. QED
    BY <2>1, <2>2 DEF SeedMissing
<1>2. ASSUME NEW n \in SeedPhones
      PROVE  LET r == OnboardedNumber(SeedOwner[n], SeedDisplay[n], "seed")
             IN r \in Number /\ Rung(r) /\ r.display = SeedDisplay[n] /\ r # NoNumber
  <2>1. SeedOwner[n] \in Ids /\ SeedDisplay[n] \in Displays /\ "seed" \in Proof \ {"none"}
    BY AccountsAssumption DEF Proof
  <2>2. QED
    BY <2>1, Onboarded, NoNumberIsNone
<1>3. \A n \in Ids : NoNumbers[n] = NoNumber
  BY DEF NoNumbers
<1>4. \A n \in Ids : Seeded(NoNumbers)[n] =
        IF n \in SeedPhones THEN OnboardedNumber(SeedOwner[n], SeedDisplay[n], "seed") ELSE NoNumber
  BY <1>1, <1>3 DEF Seeded
<1>5. SeedPhones \subseteq Ids
  BY AccountsAssumption
<1>6. Seeded(NoNumbers) \in [Ids -> Number \cup {NoNumber}]
  <2>1. \A n \in Ids : Seeded(NoNumbers)[n] \in Number \cup {NoNumber}
    BY <1>2, <1>4
  <2>2. Seeded(NoNumbers) = [n \in Ids |-> Seeded(NoNumbers)[n]]
    BY DEF Seeded
  <2>3. QED
    BY <2>1, <2>2
<1>7. QED
  BY <1>2, <1>4, <1>5, <1>6

LEMMA BootInv ==
  ASSUME AccountsInit
  PROVE  AInv
<1> USE DEF AccountsInit
<1>1. Phones = SeedPhones
  BY SeededFacts, AccountsAssumption DEF Phones
<1>2. AccountsTypeOK
  BY SeededFacts, AccountsAssumption DEF AccountsTypeOK
<1>3. \A n \in Phones : Rung(numbers[n])
  BY <1>1, SeededFacts
<1>4. OneNumberPerMsisdn
  BY <1>1, SeededFacts, AccountsAssumption DEF OneNumberPerMsisdn
<1>5. \A id \in Ids : numbers[id] # NoNumber => id \in SeedPhones
  BY SeededFacts
<1>6. Accounted /\ Apart
  BY <1>5 DEF Accounted, IdIsFree, Apart
<1>7. OneStore
  BY <1>5, AccountsAssumption DEF OneStore, Alone
<1>8. QED
  BY <1>2, <1>3, <1>4, <1>6, <1>7 DEF AInv

LEMMA ResetStep ==
  ASSUME AInv, Reset
  PROVE  AInv'
<1>1. minted' \subseteq Ids
  BY AccountsAssumption DEF AInv, AccountsTypeOK, Reset
<1>2. /\ wabas' = SeedWabas /\ numbers' = Seeded(NoNumbers)
      /\ media' = [m \in Ids |-> NoId] /\ templates' = [t \in Ids |-> NoId]
      /\ SeedWabas \cup SeedPhones \subseteq minted'
      /\ reseeded' = {} /\ subscribed' = {}
  BY DEF Reset
<1>3. Phones' = SeedPhones
  BY <1>2, SeededFacts, AccountsAssumption DEF Phones
<1>4. AccountsTypeOK'
  BY <1>1, <1>2, SeededFacts, AccountsAssumption DEF AccountsTypeOK
<1>5. \A n \in Phones' : Rung(numbers'[n])
  BY <1>2, <1>3, SeededFacts
<1>6. OneNumberPerMsisdn'
  BY <1>2, <1>3, SeededFacts, AccountsAssumption DEF OneNumberPerMsisdn
<1>7. \A id \in Ids : numbers'[id] # NoNumber => id \in SeedPhones
  BY <1>2, SeededFacts
<1>8. Accounted' /\ Apart'
  BY <1>2, <1>7 DEF Accounted, IdIsFree, Apart
<1>9. OneStore'
  BY <1>2, <1>7, AccountsAssumption DEF OneStore, Alone
<1>10. QED
  BY <1>4, <1>5, <1>6, <1>8, <1>9 DEF AInv

\* A boot over a database with rows: what it puts back is marked, and changes nothing else.
LEMMA RestartStep ==
  ASSUME AInv, Restart
  PROVE  AInv'
<1> DEFINE back == SeedMissing(numbers)
<1>1. /\ reseeded' = reseeded \cup back \cup (SeedWabas \ wabas)
      /\ wabas' = wabas \cup SeedWabas
      /\ numbers' = Seeded(numbers)
      /\ minted' = minted \cup SeedWabas \cup SeedPhones
      /\ UNCHANGED <<subscribed, media, templates>>
  BY DEF Restart
<1>2. /\ numbers \in [Ids -> Number \cup {NoNumber}]
      /\ back \subseteq SeedPhones /\ SeedPhones \subseteq Ids /\ SeedWabas \subseteq Ids
      /\ \A n \in back : numbers[n] = NoNumber
  BY AccountsAssumption DEF AInv, AccountsTypeOK, SeedMissing
<1>3. \A n \in Ids : numbers'[n] =
        IF n \in back THEN OnboardedNumber(SeedOwner[n], SeedDisplay[n], "seed") ELSE numbers[n]
  BY <1>1 DEF Seeded
<1> HIDE DEF back
<1>4. ASSUME NEW n \in back PROVE numbers'[n] \in Number /\ Rung(numbers'[n])
  <2>1. SeedOwner[n] \in Ids /\ SeedDisplay[n] \in Displays /\ "seed" \in Proof \ {"none"}
    BY <1>2, AccountsAssumption DEF Proof
  <2>2. numbers'[n] = OnboardedNumber(SeedOwner[n], SeedDisplay[n], "seed")
    BY <1>2, <1>3
  <2>3. QED
    BY <2>1, <2>2, Onboarded
<1>5. numbers' \in [Ids -> Number \cup {NoNumber}]
  <2>1. \A n \in Ids : numbers'[n] \in Number \cup {NoNumber}
    BY <1>2, <1>3, <1>4
  <2>2. numbers' = [n \in Ids |-> numbers'[n]]
    BY <1>1 DEF Seeded
  <2>3. QED
    BY <2>1, <2>2
<1>6. AccountsTypeOK'
  BY <1>1, <1>2, <1>5 DEF AInv, AccountsTypeOK
<1>7. Phones' = Phones \cup back
  BY <1>2, <1>3, <1>4, NoNumberIsNone DEF Phones
<1>8. \A n \in Phones' : Rung(numbers'[n])
  BY <1>3, <1>4, <1>7 DEF AInv, Phones
<1>9. OneNumberPerMsisdn'
  BY <1>1, <1>3, <1>7 DEF AInv, OneNumberPerMsisdn, Phones
<1>10. Accounted' /\ Apart'
  BY <1>1, <1>2, <1>3 DEF AInv, Accounted, IdIsFree, Apart
<1>11. OneStore'
  BY <1>1, <1>3 DEF AInv, OneStore, Alone
<1>12. QED
  BY <1>6, <1>8, <1>9, <1>10, <1>11 DEF AInv

-----------------------------------------------------------------------------
(* Rules: arithmetic *)

LEMMA LeastOfSome ==
  ASSUME NEW T \in SUBSET Nat, T # {}
  PROVE  \E i \in T : \A j \in T : i <= j
<1>1. PICK i \in T : \A j \in T : ~ (<<j, i>> \in OpToRel(<, Nat))
  BY NatLessThanWellFounded, WFMin
<1>2. ASSUME NEW j \in T PROVE i <= j
  <2>1. i \in Nat /\ j \in Nat
    OBVIOUS
  <2>2. ~ (j < i)
    BY <1>1, <2>1 DEF OpToRel
  <2>3. QED
    BY <2>1, <2>2
<1>3. QED
  BY <1>2

\* How many n-th requests there are among s + 1, from how many there are among s.
LEMMA Division ==
  ASSUME NEW s \in Nat, NEW n \in Nat \ {0}
  PROVE  /\ s \div n \in Nat
         /\ (s + 1) % n = 0 => (s + 1) \div n = (s \div n) + 1
         /\ (s + 1) % n # 0 => (s + 1) \div n = s \div n
<1>1. s = n * (s \div n) + (s % n) /\ s % n \in 0 .. n - 1 /\ s \div n \in Nat
  OBVIOUS
<1>2. /\ s + 1 = n * ((s + 1) \div n) + ((s + 1) % n)
      /\ (s + 1) % n \in 0 .. n - 1 /\ (s + 1) \div n \in Nat
  OBVIOUS
<1> DEFINE q == s \div n
           r == s % n
           p == (s + 1) \div n
           t == (s + 1) % n
<1>3. /\ q \in Nat /\ p \in Nat /\ r \in 0 .. n - 1 /\ t \in 0 .. n - 1
      /\ n * q + r + 1 = n * p + t
  BY <1>1, <1>2
<1> HIDE DEF q, r, p, t
<1>4. n * (p - q) = r + 1 - t
  BY <1>3
<1>5. p - q \in Int /\ r + 1 - t \in 2 - n .. n
  BY <1>3
<1>6. p - q < 2
  <2>1. SUFFICES ASSUME p - q >= 2 PROVE FALSE
    BY <1>5
  <2>2. n * (p - q) >= 2 * n
    BY <2>1, <1>5
  <2>3. QED
    BY <1>4, <1>5, <2>2
<1>7. p - q >= 0
  <2>1. SUFFICES ASSUME p - q <= -1 PROVE FALSE
    BY <1>5
  <2>2. n * (p - q) <= -n
    BY <2>1, <1>5
  <2>3. QED
    BY <1>4, <1>5, <2>2
<1>8. p = q \/ p = q + 1
  BY <1>3, <1>6, <1>7
<1>9. t = 0 => p = q + 1
  BY <1>3, <1>4, <1>8
<1>10. t # 0 => p = q
  BY <1>3, <1>4, <1>8
<1>11. QED
  BY <1>1, <1>9, <1>10 DEF p, q, t

-----------------------------------------------------------------------------
(* Rules: the promise *)

\* An id names one rule.
OneRulePerId == \A i, j \in DOMAIN rules : rules[i].id = rules[j].id => i = j

GInv ==
  /\ GateTypeOK
  /\ OneRulePerId
  /\ RulesKeepTheirPromise

\* What RulesKeepTheirPromise says of one rule, given its two counts.
Keeps(r, answered, reached) ==
  /\ r.matches = answered
  /\ r.kind = "next" => /\ r.remaining + answered = r.n
                        /\ reached > 0 => r.remaining = 0
  /\ r.kind = "always" => reached = 0
  /\ r.kind = "every" => /\ answered <= r.seen \div r.n
                         /\ reached <= r.seen - (r.seen \div r.n)

LEMMA PromiseOfEach ==
  RulesKeepTheirPromise <=>
    \A i \in DOMAIN rules : Keeps(rules[i], told[rules[i].id], passed[rules[i].id])
BY DEF RulesKeepTheirPromise, Keeps

\* At most one rule answers, and one does when one is armed.
LEMMA FiringFacts ==
  ASSUME rules \in Seq(Rule), NEW class
  PROVE  /\ Firing(class) \subseteq DOMAIN rules
         /\ \A i \in Firing(class) : Matches(rules[i], class) /\ Armed(rules[i])
         /\ \A i, j \in Firing(class) : i = j
         /\ Firing(class) = {} =>
              \A i \in DOMAIN rules : ~ (Matches(rules[i], class) /\ Armed(rules[i]))
<1> DEFINE armed == {i \in DOMAIN rules : Matches(rules[i], class) /\ Armed(rules[i])}
<1>1. Firing(class) = {i \in armed : \A j \in armed : i <= j}
  BY DEF Firing
<1>2. armed \in SUBSET Nat /\ armed \subseteq DOMAIN rules
  OBVIOUS
<1>3. \A i \in armed : Matches(rules[i], class) /\ Armed(rules[i])
  OBVIOUS
<1>4. armed = {} => \A i \in DOMAIN rules : ~ (Matches(rules[i], class) /\ Armed(rules[i]))
  OBVIOUS
<1> HIDE DEF armed
<1>5. Firing(class) = {} => armed = {}
  BY <1>1, <1>2, LeastOfSome
<1>6. \A i, j \in Firing(class) : i = j
  <2>1. SUFFICES ASSUME NEW i \in Firing(class), NEW j \in Firing(class) PROVE i = j
    OBVIOUS
  <2>2. i \in Nat /\ j \in Nat /\ i <= j /\ j <= i
    BY <1>1, <1>2
  <2>3. QED
    BY <2>2
<1>7. QED
  BY <1>1, <1>2, <1>3, <1>4, <1>5, <1>6

\* A rule that has seen one more request.
Judged(r, fires) ==
  [r EXCEPT !.seen = @ + 1,
            !.matches = IF fires THEN @ + 1 ELSE @,
            !.remaining = IF fires /\ r.kind = "next" THEN @ - 1 ELSE @]

\* A rule that has seen one more request keeps its promise.  It answered the request, or
\* another did, or none.
LEMMA OneMoreRequest ==
  ASSUME NEW r \in Rule, NEW answered \in Nat, NEW reached \in Nat,
         Keeps(r, answered, reached),
         NEW fires \in BOOLEAN, NEW through \in BOOLEAN,
         fires => Armed(r) /\ ~ through,
         through => ~ Armed(r)
  PROVE  /\ Judged(r, fires) \in Rule /\ Judged(r, fires).id = r.id
         /\ Keeps(Judged(r, fires),
                  answered + (IF fires THEN 1 ELSE 0), reached + (IF through THEN 1 ELSE 0))
<1> DEFINE s == Judged(r, fires)
           a == answered + (IF fires THEN 1 ELSE 0)
           p == reached + (IF through THEN 1 ELSE 0)
<1>1. /\ r.seen \in Nat /\ r.matches \in Nat /\ r.remaining \in Nat /\ r.n \in Nat \ {0}
      /\ r.kind \in {"always", "next", "every"}
  BY GateAssumption DEF Rule, Trigger
<1>2. /\ s.id = r.id /\ s.target = r.target /\ s.kind = r.kind /\ s.n = r.n
      /\ s.seen = r.seen + 1
      /\ s.matches = IF fires THEN r.matches + 1 ELSE r.matches
      /\ s.remaining = IF fires /\ r.kind = "next" THEN r.remaining - 1 ELSE r.remaining
  BY DEF Rule, Judged
<1>3. fires /\ r.kind = "next" => r.remaining > 0
  BY DEF Armed
<1>4. s \in Rule
  <2>1. (IF fires THEN r.matches + 1 ELSE r.matches) \in Nat
    BY <1>1
  <2>2. (IF fires /\ r.kind = "next" THEN r.remaining - 1 ELSE r.remaining) \in Nat
    BY <1>1, <1>3
  <2>3. PICK m \in Nat : m = IF fires THEN r.matches + 1 ELSE r.matches
    BY <2>1
  <2>4. PICK d \in Nat : d = IF fires /\ r.kind = "next" THEN r.remaining - 1 ELSE r.remaining
    BY <2>2
  <2>5. PICK n \in Nat : n = r.seen + 1
    BY <1>1
  <2>6. s = [r EXCEPT !.seen = n, !.matches = m, !.remaining = d]
    BY <2>3, <2>4, <2>5 DEF Judged, Rule
  <2>7. [r EXCEPT !.seen = n, !.matches = m, !.remaining = d] \in Rule
    BY DEF Rule
  <2>8. QED
    BY <2>6, <2>7
<1> HIDE DEF s, a, p
<1>5. s.matches = a
  BY <1>1, <1>2 DEF Keeps, a
<1>6. ASSUME r.kind = "next" PROVE Keeps(s, a, p)
  <2>1. s.remaining + a = s.n
    BY <1>1, <1>2, <1>6 DEF Keeps, a
  <2>2. through => r.remaining = 0
    BY <1>1, <1>6 DEF Armed
  <2>3. fires => reached = 0
    BY <1>1, <1>3, <1>6 DEF Keeps
  <2>4. p > 0 => s.remaining = 0
    BY <1>1, <1>2, <1>6, <2>2, <2>3 DEF Keeps, p
  <2>5. QED
    BY <1>2, <1>4, <1>5, <1>6, <2>1, <2>4 DEF Keeps
<1>7. ASSUME r.kind = "always" PROVE Keeps(s, a, p)
  <2>1. Armed(r)
    BY <1>7 DEF Armed
  <2>2. p = 0
    BY <1>7, <2>1 DEF Keeps, p
  <2>3. QED
    BY <1>2, <1>4, <1>5, <1>7, <2>2 DEF Keeps
<1>8. ASSUME r.kind = "every" PROVE Keeps(s, a, p)
  <2>1. Armed(r) <=> (r.seen + 1) % r.n = 0
    BY <1>8 DEF Armed
  <2>2. answered <= r.seen \div r.n /\ reached <= r.seen - (r.seen \div r.n)
    BY <1>8 DEF Keeps
  <2> DEFINE was == r.seen \div r.n
             is == (r.seen + 1) \div r.n
  <2>3. /\ was \in Nat
        /\ is = IF Armed(r) THEN was + 1 ELSE was
    BY <1>1, <2>1, Division
  <2>4. answered <= was /\ reached <= r.seen - was
    BY <2>2
  <2> HIDE DEF was, is
  <2>5. a <= is /\ p <= (r.seen + 1) - is
    BY <1>1, <2>3, <2>4 DEF a, p
  <2>6. s.seen \div s.n = is
    BY <1>2 DEF is
  <2>7. a <= s.seen \div s.n /\ p <= s.seen - (s.seen \div s.n)
    BY <1>2, <2>5, <2>6
  <2>8. QED
    BY <1>2, <1>4, <1>5, <1>8, <2>7 DEF Keeps
<1>9. Keeps(s, a, p)
  BY <1>1, <1>6, <1>7, <1>8
<1>10. QED
  BY <1>2, <1>4, <1>9 DEF s, a, p

-----------------------------------------------------------------------------
(* Rules: the steps *)

LEMMA EvaluateStep ==
  ASSUME GInv, NEW class, Evaluate(class)
  PROVE  GInv'
<1> DEFINE F == Firing(class)
           Fires(i) == i \in F
           Through(i) == F = {} /\ Matches(rules[i], class)
<1>1. /\ rules \in Seq(Rule) /\ told \in [RuleIds -> Nat] /\ passed \in [RuleIds -> Nat]
      /\ \A i \in DOMAIN rules : rules[i] \in Rule
      /\ DOMAIN rules = 1 .. Len(rules) /\ Len(rules) \in Nat
  BY DEF GInv, GateTypeOK
<1>2. /\ rules' = [i \in DOMAIN rules |-> Counted(i, class)]
      /\ told' = [k \in RuleIds |-> told[k] + Cardinality({i \in F : rules[i].id = k})]
      /\ passed' = [k \in RuleIds |->
           passed[k] + IF F # {} THEN 0
                       ELSE Cardinality({i \in DOMAIN rules : rules[i].id = k /\ Matches(rules[i], class)})]
      /\ UNCHANGED expired
  BY DEF Evaluate
<1>3. /\ F \subseteq DOMAIN rules
      /\ \A i \in F : Matches(rules[i], class) /\ Armed(rules[i])
      /\ F = {} => \A i \in DOMAIN rules : ~ (Matches(rules[i], class) /\ Armed(rules[i]))
  BY <1>1, FiringFacts
<1> HIDE DEF F
\* Ids are unique, so the sets that are counted have one member or none.
<1>4. ASSUME NEW S \in SUBSET DOMAIN rules, NEW i \in DOMAIN rules
      PROVE  {j \in S : rules[j].id = rules[i].id} = IF i \in S THEN {i} ELSE {}
  BY DEF GInv, OneRulePerId
<1>5. ASSUME NEW i \in DOMAIN rules
      PROVE  /\ told'[rules[i].id] = told[rules[i].id] + (IF Fires(i) THEN 1 ELSE 0)
             /\ passed'[rules[i].id] = passed[rules[i].id] + (IF Through(i) THEN 1 ELSE 0)
  <2>1. rules[i].id \in RuleIds
    BY <1>1 DEF Rule
  <2>2. Cardinality({j \in F : rules[j].id = rules[i].id}) = IF Fires(i) THEN 1 ELSE 0
    <3>1. {j \in F : rules[j].id = rules[i].id} = IF i \in F THEN {i} ELSE {}
      BY <1>3, <1>4
    <3>2. QED
      BY <3>1, FS_EmptySet, FS_Singleton
  <2>3. F = {} => Cardinality({j \in DOMAIN rules : rules[j].id = rules[i].id /\ Matches(rules[j], class)})
                    = IF Through(i) THEN 1 ELSE 0
    <3> DEFINE M == {j \in DOMAIN rules : Matches(rules[j], class)}
    <3>1. {j \in M : rules[j].id = rules[i].id} = IF i \in M THEN {i} ELSE {}
      BY <1>4
    <3>2. {j \in DOMAIN rules : rules[j].id = rules[i].id /\ Matches(rules[j], class)}
            = {j \in M : rules[j].id = rules[i].id}
      OBVIOUS
    <3>3. QED
      BY <3>1, <3>2, FS_EmptySet, FS_Singleton
  <2>4. told'[rules[i].id] = told[rules[i].id] + (IF Fires(i) THEN 1 ELSE 0)
    BY <1>2, <2>1, <2>2
  <2>5. passed'[rules[i].id] = passed[rules[i].id] + (IF Through(i) THEN 1 ELSE 0)
    BY <1>2, <2>1, <2>3
  <2>6. QED
    BY <2>4, <2>5
<1>6. told' \in [RuleIds -> Nat] /\ passed' \in [RuleIds -> Nat]
  <2>1. \A S \in SUBSET DOMAIN rules : Cardinality(S) \in Nat
    <3>1. IsFiniteSet(DOMAIN rules)
      BY <1>1, FS_Interval
    <3>2. QED
      BY <3>1, FS_Subset, FS_CardinalityType
  <2>2. \A k \in RuleIds : /\ {i \in F : rules[i].id = k} \in SUBSET DOMAIN rules
                           /\ {i \in DOMAIN rules : rules[i].id = k /\ Matches(rules[i], class)}
                                \in SUBSET DOMAIN rules
    BY <1>3
  <2>3. \A k \in RuleIds :
          /\ Cardinality({i \in F : rules[i].id = k}) \in Nat
          /\ Cardinality({i \in DOMAIN rules : rules[i].id = k /\ Matches(rules[i], class)}) \in Nat
    BY <2>1, <2>2
  <2> DEFINE a(k) == Cardinality({i \in F : rules[i].id = k})
             p(k) == Cardinality({i \in DOMAIN rules : rules[i].id = k /\ Matches(rules[i], class)})
  <2>4. /\ told' = [k \in RuleIds |-> told[k] + a(k)]
        /\ passed' = [k \in RuleIds |-> passed[k] + IF F # {} THEN 0 ELSE p(k)]
        /\ \A k \in RuleIds : a(k) \in Nat /\ p(k) \in Nat
    BY <1>2, <2>3
  <2> HIDE DEF a, p
  <2>5. told' \in [RuleIds -> Nat]
    BY <1>1, <2>4
  <2>6. passed' \in [RuleIds -> Nat]
    BY <1>1, <2>4
  <2>7. QED
    BY <2>5, <2>6
<1>7. ASSUME NEW i \in DOMAIN rules
      PROVE  /\ rules'[i] \in Rule /\ rules'[i].id = rules[i].id
             /\ Keeps(rules'[i], told'[rules[i].id], passed'[rules[i].id])
  <2>1. /\ rules[i] \in Rule /\ told[rules[i].id] \in Nat /\ passed[rules[i].id] \in Nat
        /\ Keeps(rules[i], told[rules[i].id], passed[rules[i].id])
    <3>1. rules[i] \in Rule /\ rules[i].id \in RuleIds
      BY <1>1 DEF Rule
    <3>2. QED
      BY <1>1, <3>1, PromiseOfEach DEF GInv
  <2>2. CASE Matches(rules[i], class)
    <3>1. rules'[i] = Judged(rules[i], Fires(i))
      BY <1>2, <2>2 DEF Counted, Judged, F
    <3>2. Fires(i) \in BOOLEAN /\ Through(i) \in BOOLEAN
      BY DEF Matches
    <3>3. Fires(i) => Armed(rules[i]) /\ ~ Through(i)
      BY <1>3
    <3>4. Through(i) => ~ Armed(rules[i])
      BY <1>3
    <3> HIDE DEF Fires, Through
    <3>5. QED
      BY <1>5, <2>1, <3>1, <3>2, <3>3, <3>4, OneMoreRequest
  <2>3. CASE ~ Matches(rules[i], class)
    <3>1. rules'[i] = rules[i]
      BY <1>2, <2>3 DEF Counted
    <3>2. ~ Fires(i) /\ ~ Through(i)
      BY <1>3, <2>3
    <3> HIDE DEF Fires, Through
    <3>3. told'[rules[i].id] = told[rules[i].id] /\ passed'[rules[i].id] = passed[rules[i].id]
      BY <1>5, <2>1, <3>2
    <3>4. QED
      BY <2>1, <3>1, <3>3
  <2>4. QED
    BY <2>2, <2>3
<1>8. DOMAIN rules' = DOMAIN rules /\ rules' \in Seq(Rule)
  <2>1. rules' \in [1 .. Len(rules) -> Rule]
    BY <1>1, <1>2, <1>7
  <2>2. Len(rules) \in Nat /\ DOMAIN rules = 1 .. Len(rules)
    BY <1>1
  <2>3. rules' \in Seq(Rule)
    BY <2>1, <2>2
  <2>4. QED
    BY <2>1, <2>2, <2>3
<1>9. GateTypeOK'
  BY <1>2, <1>6, <1>8 DEF GInv, GateTypeOK
<1>10. OneRulePerId'
  BY <1>7, <1>8 DEF GInv, OneRulePerId
<1>11. RulesKeepTheirPromise'
  BY <1>7, <1>8 DEF RulesKeepTheirPromise, Keeps
<1>12. QED
  BY <1>9, <1>10, <1>11 DEF GInv

LEMMA CreateRuleStep ==
  ASSUME GInv, NEW id \in RuleIds, NEW target \in Targets, NEW kind \in Trigger, NEW n \in Counts,
         CreateRule(id, target, kind, n)
  PROVE  GInv'
<1> DEFINE r == [id |-> id, target |-> target, kind |-> kind, n |-> n,
                 seen |-> 0, matches |-> 0, remaining |-> IF kind = "next" THEN n ELSE 0]
<1>1. /\ rules \in Seq(Rule) /\ told[id] = 0 /\ passed[id] = 0
      /\ \A i \in DOMAIN rules : rules[i].id # id
      /\ rules' = Append(rules, r)
      /\ UNCHANGED <<expired, told, passed>>
  BY DEF GInv, GateTypeOK, CreateRule
<1>2. n \in Nat \ {0}
  BY GateAssumption
<1>3. r \in Rule /\ r.id = id
  BY <1>2 DEF Rule
<1>4. 0 \div n = 0
  BY <1>2
<1>5. Keeps(r, 0, 0)
  BY <1>2, <1>4 DEF Keeps
<1> HIDE DEF r
<1>6. /\ rules' \in Seq(Rule) /\ DOMAIN rules' = DOMAIN rules \cup {Len(rules) + 1}
      /\ \A i \in DOMAIN rules : rules'[i] = rules[i]
      /\ rules'[Len(rules) + 1] = r
  BY <1>1, <1>3
<1>7. GateTypeOK'
  BY <1>1, <1>6 DEF GInv, GateTypeOK
<1>8. OneRulePerId'
  BY <1>1, <1>3, <1>6 DEF GInv, OneRulePerId
<1>9. ASSUME NEW i \in DOMAIN rules' PROVE Keeps(rules'[i], told'[rules'[i].id], passed'[rules'[i].id])
  <2>1. CASE i \in DOMAIN rules
    BY <1>1, <1>6, <2>1, PromiseOfEach DEF GInv
  <2>2. CASE i = Len(rules) + 1
    BY <1>1, <1>3, <1>5, <1>6, <2>2
  <2>3. QED
    BY <1>6, <2>1, <2>2
<1>10. RulesKeepTheirPromise'
  BY <1>9 DEF RulesKeepTheirPromise, Keeps
<1>11. QED
  BY <1>7, <1>8, <1>10 DEF GInv

LEMMA DeleteRuleStep ==
  ASSUME GInv, NEW id \in RuleIds, DeleteRule(id)
  PROVE  GInv'
<1>1. rules \in Seq(Rule) /\ UNCHANGED <<expired, told, passed>>
  BY DEF GInv, GateTypeOK, DeleteRule
<1>2. PICK d \in DOMAIN rules : rules' = RemoveAt(rules, d)
  BY DEF DeleteRule
<1>3. rules' = SubSeq(rules, 1, d - 1) \o SubSeq(rules, d + 1, Len(rules))
  BY <1>2 DEF RemoveAt
\* Every rule that is left was there, at a place of its own.
<1> DEFINE Old(i) == IF i < d THEN i ELSE i + 1
<1>4. d \in 1 .. Len(rules) /\ Len(rules) \in Nat /\ DOMAIN rules = 1 .. Len(rules)
  BY <1>1
<1>5. /\ rules' \in Seq(Rule) /\ DOMAIN rules' = 1 .. (Len(rules) - 1)
      /\ \A i \in 1 .. (Len(rules) - 1) : rules'[i] = rules[Old(i)]
  <2> DEFINE front == SubSeq(rules, 1, d - 1)
             back == SubSeq(rules, d + 1, Len(rules))
  <2>1. /\ front \in Seq(Rule) /\ Len(front) = d - 1
        /\ \A i \in 1 .. d - 1 : front[i] = rules[i]
    BY <1>1, <1>4
  <2>2. /\ back \in Seq(Rule) /\ Len(back) = Len(rules) - d
        /\ \A i \in 1 .. Len(rules) - d : back[i] = rules[d + i]
    BY <1>1, <1>4
  <2>3. rules' = front \o back
    BY <1>3
  <2> HIDE DEF front, back
  <2>4. rules' \in Seq(Rule) /\ Len(rules') = Len(rules) - 1
    <3>1. front \o back \in Seq(Rule)
      BY <2>1, <2>2
    <3>2. \A u, v \in Seq(Rule) : Len(u \o v) = Len(u) + Len(v)
      OBVIOUS
    <3>3. Len(front \o back) = Len(front) + Len(back)
      BY <2>1, <2>2, <3>2
    <3>4. QED
      BY <1>4, <2>1, <2>2, <2>3, <3>1, <3>3
  <2>5. ASSUME NEW i \in 1 .. (Len(rules) - 1) PROVE rules'[i] = rules[Old(i)]
    <3>1. CASE i < d
      BY <1>4, <2>1, <2>2, <2>3, <3>1
    <3>2. CASE i >= d
      <4>1. rules'[i] = back[i - (d - 1)] /\ i - (d - 1) \in 1 .. Len(rules) - d
        BY <1>4, <2>1, <2>2, <2>3, <3>2
      <4>2. back[i - (d - 1)] = rules[d + (i - (d - 1))] /\ d + (i - (d - 1)) = i + 1
        BY <1>4, <2>2, <4>1
      <4>3. QED
        BY <1>4, <3>2, <4>1, <4>2
    <3>3. QED
      BY <1>4, <3>1, <3>2
  <2>6. QED
    BY <2>4, <2>5
<1>6. /\ \A i \in DOMAIN rules' : Old(i) \in DOMAIN rules /\ rules'[i] = rules[Old(i)]
      /\ \A i, j \in DOMAIN rules' : Old(i) = Old(j) => i = j
  BY <1>4, <1>5
<1> HIDE DEF Old
<1>7. GateTypeOK'
  BY <1>1, <1>5 DEF GInv, GateTypeOK
<1>8. OneRulePerId'
  BY <1>6 DEF GInv, OneRulePerId
<1>9. \A i \in DOMAIN rules' : Keeps(rules'[i], told'[rules'[i].id], passed'[rules'[i].id])
  BY <1>1, <1>6, PromiseOfEach DEF GInv
<1>10. RulesKeepTheirPromise'
  BY <1>9 DEF RulesKeepTheirPromise, Keeps
<1>11. QED
  BY <1>7, <1>8, <1>10 DEF GInv

\* What leaves the rules and their counts alone, or wipes the rules.
LEMMA OtherGateSteps ==
  ASSUME GInv,
         \/ GateReset
         \/ \E t \in Registered, e \in BOOLEAN : SetExpired(t, e)
         \/ UNCHANGED gateVars
  PROVE  GInv'
<1>1. CASE GateReset
  <2>1. rules' = <<>> /\ expired' = {} /\ UNCHANGED <<told, passed>>
    BY <1>1 DEF GateReset
  <2>2. QED
    BY <2>1 DEF GInv, GateTypeOK, OneRulePerId, RulesKeepTheirPromise
<1>2. CASE \/ \E t \in Registered, e \in BOOLEAN : SetExpired(t, e)
           \/ UNCHANGED gateVars
  <2>1. UNCHANGED <<rules, told, passed>> /\ (expired \subseteq Registered => expired' \subseteq Registered)
    BY <1>2 DEF SetExpired, gateVars
  <2>2. QED
    BY <2>1 DEF GInv, GateTypeOK, OneRulePerId, RulesKeepTheirPromise
<1>3. QED
  BY <1>1, <1>2

-----------------------------------------------------------------------------
(* The whole surface *)

BoundsOK ==
  /\ inFlight \subseteq Request
  /\ operations \in 0..MaxOperations /\ restarts \in 0..MaxRestarts

IInv == AInv /\ GInv /\ BoundsOK

LEMMA InitInv == Init => IInv
<1> SUFFICES ASSUME Init PROVE IInv
  OBVIOUS
<1>1. AInv
  BY BootInv DEF Init
<1>2. GInv
  BY DEF Init, GateInit, GInv, GateTypeOK, OneRulePerId, RulesKeepTheirPromise
<1>3. BoundsOK
  BY BoundsAssumption DEF Init, BoundsOK
<1>4. QED
  BY <1>1, <1>2, <1>3 DEF IInv

LEMMA StepInv == IInv /\ [Next]_vars => IInv'
<1> SUFFICES ASSUME IInv, [Next]_vars PROVE IInv'
  OBVIOUS
<1>1. AInv /\ GInv /\ BoundsOK
  BY DEF IInv
<1>2. UNCHANGED accountVars => AInv'
  BY <1>1, SameAccounts DEF AccountsUnchanged
<1>3. UNCHANGED gateVars => GInv'
  BY <1>1, OtherGateSteps
<1>4. ASSUME NEW t \in Tokens, Unauthenticated(t) PROVE IInv'
  <2>1. BoundsOK'
    BY <1>1, <1>4, BoundsAssumption DEF Unauthenticated, BoundsOK
  <2>2. QED
    BY <1>2, <1>3, <1>4, <2>1 DEF Unauthenticated, IInv
<1>5. ASSUME NEW t \in Tokens, NEW r \in Request, Injected(t, r) PROVE IInv'
  <2>1. GInv'
    BY <1>1, <1>5, EvaluateStep DEF Injected
  <2>2. BoundsOK'
    BY <1>1, <1>5, BoundsAssumption DEF Injected, BoundsOK
  <2>3. QED
    BY <1>2, <1>5, <2>1, <2>2 DEF Injected, IInv
<1>6. ASSUME NEW t \in Tokens, NEW r \in Request, Arrive(t, r) PROVE IInv'
  <2>1. GInv'
    BY <1>1, <1>6, EvaluateStep DEF Arrive
  <2>2. AInv'
    BY <1>1, <1>6, SameAccounts, HandleStep DEF Arrive
  <2>3. BoundsOK'
    BY <1>1, <1>6, BoundsAssumption DEF Arrive, BoundsOK
  <2>4. QED
    BY <2>1, <2>2, <2>3 DEF IInv
<1>7. ASSUME NEW r \in inFlight, BodyRead(r) PROVE IInv'
  <2>1. r \in Request
    BY <1>1 DEF BoundsOK
  <2>2. AInv'
    BY <1>1, <1>7, <2>1, HandleStep DEF BodyRead
  <2>3. BoundsOK'
    BY <1>1, <1>7 DEF BodyRead, BoundsOK
  <2>4. QED
    BY <1>3, <1>7, <2>2, <2>3 DEF BodyRead, IInv
<1>8. CASE ControlPlane
  <2>1. BoundsOK'
    BY <1>1, <1>8, BoundsAssumption DEF ControlPlane, BoundsOK
  <2>2. CASE AccountEdit /\ UNCHANGED gateVars
    <3>1. AInv'
      BY <1>1, <2>2, CreateWabaStep, CreateNumberStep, UpdateDisplayStep, DeleteStep DEF AccountEdit
    <3>2. QED
      BY <1>3, <2>1, <2>2, <3>1 DEF IInv
  <2>3. CASE GateEdit /\ AccountsUnchanged
    <3>1. GInv'
      BY <1>1, <2>3, CreateRuleStep, DeleteRuleStep, OtherGateSteps DEF GateEdit
    <3>2. QED
      BY <1>1, <2>1, <2>3, <3>1, SameAccounts DEF IInv
  <2>4. QED
    BY <1>8, <2>2, <2>3 DEF ControlPlane
<1>9. CASE RestartServer
  <2>1. AInv'
    BY <1>1, <1>9, RestartStep DEF RestartServer
  <2>2. BoundsOK'
    BY <1>1, <1>9, BoundsAssumption DEF RestartServer, BoundsOK
  <2>3. QED
    BY <1>3, <1>9, <2>1, <2>2 DEF RestartServer, IInv
<1>10. CASE ResetServer
  <2>1. AInv' /\ GInv'
    BY <1>1, <1>10, ResetStep, OtherGateSteps DEF ResetServer
  <2>2. BoundsOK'
    BY <1>1, <1>10, BoundsAssumption DEF ResetServer, BoundsOK
  <2>3. QED
    BY <2>1, <2>2 DEF IInv
<1>11. CASE UNCHANGED vars
  <2>1. BoundsOK'
    BY <1>1, <1>11 DEF vars, apiVars, BoundsOK
  <2>2. QED
    BY <1>2, <1>3, <1>11, <2>1 DEF vars, IInv
<1>12. QED
  BY <1>4, <1>5, <1>6, <1>7, <1>8, <1>9, <1>10, <1>11 DEF Next

LEMMA Invariance == Spec => []IInv
BY InitInv, StepInv, PTL DEF Spec

\* One object under an id, counted.
LEMMA AtMostOneHolder ==
  ASSUME NEW id \in Ids, Alone(id), media[id] = NoId \/ templates[id] = NoId
  PROVE  Cardinality(Holders(id)) <= 1
<1>1. \E x : Holders(id) \subseteq {x}
  <2>1. CASE id \in wabas
    BY <2>1 DEF Alone, Holders
  <2>2. CASE id \notin wabas /\ numbers[id] # NoNumber
    BY <2>2 DEF Alone, Holders
  <2>3. CASE id \notin wabas /\ numbers[id] = NoNumber /\ media[id] = NoId
    BY <2>3 DEF Holders
  <2>4. CASE id \notin wabas /\ numbers[id] = NoNumber /\ templates[id] = NoId
    BY <2>4 DEF Holders
  <2>5. QED
    BY <2>1, <2>2, <2>3, <2>4
<1>2. PICK x : Holders(id) \subseteq {x}
  BY <1>1
<1>3. IsFiniteSet({x}) /\ Cardinality({x}) = 1
  BY FS_Singleton
<1>4. QED
  BY <1>2, <1>3, FS_Subset

\* Rows, rules and requests are of their types in every reachable state, whatever a request
\* finds changed when its body is there.
THEOREM TypeCorrect == Spec => []TypeOK
<1>1. IInv => TypeOK
  BY DEF IInv, AInv, GInv, BoundsOK, TypeOK
<1>2. QED
  BY <1>1, Invariance, PTL

\* No order of the handlers of phone-number-service.ts, of requests in flight, edits,
\* restarts and resets leaves a number on a rung its verification does not support.
THEOREM RungsHold == Spec => []RungsAgree
<1>1. IInv => RungsAgree
  BY DEF IInv, AInv, RungsAgree, Rung
<1>2. QED
  BY <1>1, Invariance, PTL

\* #findByDigits() keeps one MSISDN to one number along every path but the seed's.
THEOREM OneNumberHolds == Spec => []OneNumberPerMsisdn
<1>1. IInv => OneNumberPerMsisdn
  BY DEF IInv, AInv
<1>2. QED
  BY <1>1, Invariance, PTL

\* findIdHolder() and the random ids keep the four stores apart: GET /{id} has one answer.
THEOREM OneObjectHolds == Spec => []OneIdOneObject
<1>1. IInv => \A id \in Ids \ reseeded :
                Alone(id) /\ (media[id] = NoId \/ templates[id] = NoId)
  BY DEF IInv, AInv, OneStore, Apart
<1>2. IInv => OneIdOneObject
  BY <1>1, AtMostOneHolder DEF OneIdOneObject
<1>3. QED
  BY <1>2, Invariance, PTL

\* injection-service.ts: every rule answers exactly the requests its trigger promises,
\* however many rules match them, in whatever order they come and go.
THEOREM PromisesKept == Spec => []RulesKeepTheirPromise
<1>1. IInv => RulesKeepTheirPromise
  BY DEF IInv, GInv
<1>2. QED
  BY <1>1, Invariance, PTL

-----------------------------------------------------------------------------
(* The webhook emitter *)

\* A delivery under way has an attempt left.
AttemptLeft == \A l \in Loops : phase[l] \in Running => ended[l] < MaxAttempts

\* A delivery that was not started has no attempts.
IdleUntouched == \A l \in Loops : phase[l] = "idle" => ended[l] = 0

WipedBehind == \A l \in Loops : wiped[l] <= ended[l]

\* Rows that an import brought back are of attempts that had ended by then.
RestoredOld == \A r \in restored : r.attempt <= wiped[r.loop]

\* The rows of a file are of ended attempts, one row each, and an attempt that
\* another one followed was transient.
FileTrue ==
  /\ OneRowEach(file)
  /\ \A r \in file :
       /\ r.attempt <= ended[r.loop]
       /\ r.attempt < ended[r.loop] \/ phase[r.loop] \in Running => r.outcome \in {"error", "network"}

\* A delivery that is not over has no answer yet.
Unanswered ==
  \A l \in Loops : phase[l] \in Running \cup {"idle"} => last[l] \in {"none", "error", "network"}

EmitterInv ==
  /\ EmitterTypes
  /\ AttemptLeft
  /\ IdleUntouched
  /\ WipedBehind
  /\ RestoredOld
  /\ FileTrue
  /\ Unanswered
  /\ EveryAttemptLogged
  /\ RetriesOnlyTransient

\* The two loops of a step: the one that moves, and any other.
LEMMA StartType ==
  ASSUME NEW l \in Loops, EmitterTypes, Start(l)
  PROVE  /\ phase' \in [Loops -> Running \cup {"idle", "done", "lost"}]
         /\ ended' \in [Loops -> 0 .. MaxAttempts]
         /\ last' \in [Loops -> Outcome \cup {"none", "skipped"}]
         /\ log' \subseteq Row
<1>1. 1 \in 1 .. MaxAttempts /\ 1 \in 0 .. MaxAttempts
  BY EmitterAssumption
<1>2. CASE configured
  BY <1>2 DEF Start, EmitterTypes, Running
<1>3. CASE ~configured
  <2>1. [loop |-> l, attempt |-> 1, outcome |-> "skipped"] \in Row
    BY <1>1 DEF Row
  <2>2. QED
    BY <1>1, <1>3, <2>1 DEF Start, Record, EmitterTypes, Running
<1>4. QED
  BY <1>2, <1>3

\* No operation leaves the types.
LEMMA TypeStep == EmitterTypes /\ AttemptLeft /\ [EmitterNext]_emitterVars => EmitterTypes'
<1> SUFFICES ASSUME EmitterTypes, AttemptLeft, [EmitterNext]_emitterVars
             PROVE  EmitterTypes'
  OBVIOUS
<1>1. ASSUME NEW e \in Events, Emit(e)
      PROVE  EmitterTypes'
  <2>1. <<e, 0>> \in Loops
    BY EmitterAssumption DEF Loops
  <2>2. QED
    BY <1>1, <2>1, StartType DEF Emit, EmitterTypes, tableVars
<1>2. ASSUME NEW row \in log, NEW k \in 1 .. MaxRedeliveries, Redeliver(row, k)
      PROVE  EmitterTypes'
  <2>1. <<row.loop[1], k>> \in Loops
    BY EmitterAssumption DEF EmitterTypes, Row, Loops
  <2>2. QED
    BY <1>2, <2>1, StartType DEF Redeliver, EmitterTypes, tableVars
<1>3. ASSUME NEW l \in Loops, NEW o \in Outcome, AttemptEnds(l, o)
      PROVE  EmitterTypes'
  <2>1. ended[l] + 1 \in 1 .. MaxAttempts
    BY <1>3, EmitterAssumption DEF AttemptEnds, AttemptLeft, EmitterTypes, Running
  <2>2. [loop |-> l, attempt |-> ended[l] + 1, outcome |-> o] \in Row
    BY <2>1 DEF Row
  <2>3. QED
    BY <1>3, <2>1, <2>2, EmitterAssumption DEF AttemptEnds, Record, EmitterTypes, Running, tableVars
<1>4. ASSUME NEW l \in Loops, Retry(l)
      PROVE  EmitterTypes'
  BY <1>4 DEF Retry, EmitterTypes, Running, tableVars
<1>5. ASSUME NEW rows \in {{}, file}, ReplaceLog(rows)
      PROVE  EmitterTypes'
  BY <1>5 DEF ReplaceLog, Disrupt, EmitterTypes, loopVars
<1>6. CASE EmitterRestart
  BY <1>6 DEF EmitterRestart, Disrupt, EmitterTypes, tableVars
<1>7. CASE Export
  BY <1>7 DEF Export, EmitterTypes, loopVars
<1>8. CASE UNCHANGED emitterVars
  BY <1>8 DEF emitterVars, EmitterTypes
<1>9. QED
  BY <1>1, <1>2, <1>3, <1>4, <1>5, <1>6, <1>7, <1>8 DEF EmitterNext, WipeLog, Import

-----------------------------------------------------------------------------
(* The step of one loop *)

\* A delivery that starts keeps the invariant.
LEMMA StartKeeps ==
  ASSUME EmitterInv, NEW l \in Loops, Start(l), UNCHANGED <<configured, tableVars, disruptions>>
  PROVE  /\ AttemptLeft' /\ IdleUntouched' /\ WipedBehind' /\ RestoredOld' /\ FileTrue'
         /\ Unanswered' /\ EveryAttemptLogged' /\ RetriesOnlyTransient'
<1> USE EmitterAssumption DEF EmitterInv, Running, tableVars
<1>1. /\ phase[l] = "idle" /\ ended[l] = 0 /\ wiped[l] = 0
      /\ \A r \in log \cup file : r.loop # l
  <2>1. phase[l] = "idle" /\ ended[l] = 0
    BY DEF Start, IdleUntouched
  <2>2. wiped[l] = 0
    BY <2>1 DEF WipedBehind, EmitterTypes
  <2>3. AttemptsLogged(l) = {}
    BY <2>1, <2>2 DEF EveryAttemptLogged
  <2>4. \A r \in log \ restored : r.loop # l
    BY <2>3 DEF AttemptsLogged
  <2>5. \A r \in restored : r.loop # l
    BY <2>2 DEF RestoredOld, EmitterTypes, Row
  <2>6. \A r \in file : r.loop # l
    BY <2>1 DEF FileTrue, EmitterTypes, Row
  <2>7. QED
    BY <2>1, <2>2, <2>4, <2>5, <2>6
<1>2. CASE configured
  <2>1. phase' = [phase EXCEPT ![l] = "posting"] /\ UNCHANGED <<ended, last, log, wiped, file, restored>>
    BY <1>2 DEF Start
  <2>2. AttemptLeft' /\ IdleUntouched' /\ WipedBehind' /\ Unanswered'
    BY <1>1, <2>1 DEF AttemptLeft, IdleUntouched, WipedBehind, Unanswered, EmitterTypes
  <2>3. EveryAttemptLogged' /\ RestoredOld'
    BY <2>1 DEF EveryAttemptLogged, AttemptsLogged, OneRowEach, RestoredOld
  <2>4. RetriesOnlyTransient' /\ FileTrue'
    BY <1>1, <2>1 DEF RetriesOnlyTransient, FileTrue, OneRowEach, EmitterTypes, Row
  <2>5. QED
    BY <2>2, <2>3, <2>4
<1>3. CASE ~configured
  <2> DEFINE new == [loop |-> l, attempt |-> 1, outcome |-> "skipped"]
  <2>1. /\ phase' = [phase EXCEPT ![l] = "done"]
        /\ ended' = [ended EXCEPT ![l] = 1]
        /\ last' = [last EXCEPT ![l] = "skipped"]
        /\ log' = log \cup {new}
        /\ UNCHANGED <<wiped, file, restored>>
    BY <1>3 DEF Start, Record
  <2>2. AttemptLeft' /\ IdleUntouched' /\ WipedBehind' /\ Unanswered'
    BY <1>1, <2>1 DEF AttemptLeft, IdleUntouched, WipedBehind, Unanswered, EmitterTypes
  <2>3. EveryAttemptLogged'
    <3>1. restored' \subseteq log' /\ OneRowEach(log')
      BY <1>1, <2>1 DEF EveryAttemptLogged, OneRowEach
    <3>2. new \notin restored
      BY <1>1 DEF EveryAttemptLogged
    <3>3. AttemptsLogged(l)' = wiped'[l] + 1 .. ended'[l]
      <4>1. {r \in log' \ restored' : r.loop = l} = {new}
        BY <1>1, <2>1, <3>2
      <4>2. AttemptsLogged(l)' = {row.attempt : row \in {new}}
        BY <4>1, Zenon DEF AttemptsLogged
      <4>3. {row.attempt : row \in {new}} = {1}
        OBVIOUS
      <4>4. wiped'[l] + 1 .. ended'[l] = {1}
        BY <1>1, <2>1 DEF EmitterTypes
      <4>5. QED
        BY <4>2, <4>3, <4>4
    <3>4. ASSUME NEW k \in Loops, k # l
          PROVE  AttemptsLogged(k)' = wiped'[k] + 1 .. ended'[k]
      <4>1. {r \in log' \ restored' : r.loop = k} = {r \in log \ restored : r.loop = k}
        BY <2>1, <3>4
      <4>2. ended'[k] = ended[k] /\ wiped'[k] = wiped[k]
        BY <2>1, <3>4 DEF EmitterTypes
      <4>3. QED
        BY <4>1, <4>2 DEF EveryAttemptLogged, AttemptsLogged
    <3>5. QED
      BY <3>1, <3>3, <3>4 DEF EveryAttemptLogged
  <2>4. RetriesOnlyTransient'
    <3> SUFFICES ASSUME NEW row \in log',
                        row.attempt < ended'[row.loop] \/ phase'[row.loop] \in Running
                 PROVE  row.outcome \in {"error", "network"}
      BY DEF RetriesOnlyTransient
    <3>1. row # new
      BY <1>1, <2>1 DEF EmitterTypes
    <3>2. row \in log /\ row.loop \in Loops /\ row.loop # l
      BY <1>1, <2>1, <3>1 DEF EmitterTypes, Row
    <3>3. QED
      BY <2>1, <3>2 DEF RetriesOnlyTransient, EmitterTypes
  <2>5. RestoredOld' /\ FileTrue'
    BY <1>1, <2>1 DEF RestoredOld, FileTrue, OneRowEach, EmitterTypes, Row
  <2>6. QED
    BY <2>2, <2>3, <2>4, <2>5
<1>4. QED
  BY <1>2, <1>3

\* An attempt that ends keeps the invariant.
LEMMA AttemptEndsKeeps ==
  ASSUME EmitterInv, NEW l \in Loops, NEW o \in Outcome, AttemptEnds(l, o)
  PROVE  /\ AttemptLeft' /\ IdleUntouched' /\ WipedBehind' /\ RestoredOld' /\ FileTrue'
         /\ Unanswered' /\ EveryAttemptLogged' /\ RetriesOnlyTransient'
<1> USE EmitterAssumption DEF EmitterInv, Running, tableVars
<1> DEFINE n == ended[l] + 1
           new == [loop |-> l, attempt |-> n, outcome |-> o]
           again == IsRetryable(o) /\ n < MaxAttempts
<1>1. /\ phase[l] = "posting"
      /\ ended' = [ended EXCEPT ![l] = n]
      /\ last' = [last EXCEPT ![l] = o]
      /\ log' = log \cup {new}
      /\ phase' = [phase EXCEPT ![l] = IF again THEN "sleeping" ELSE "done"]
      /\ UNCHANGED <<wiped, file, restored>>
  BY DEF AttemptEnds, Record
<1>2. ended[l] \in Nat /\ wiped[l] \in Nat /\ wiped[l] <= ended[l]
  BY DEF EmitterTypes, WipedBehind
<1>3. AttemptLeft' /\ IdleUntouched' /\ WipedBehind'
  BY <1>1, <1>2 DEF AttemptLeft, IdleUntouched, WipedBehind, EmitterTypes
<1>6. Unanswered'
  BY <1>1 DEF Unanswered, IsRetryable, EmitterTypes
<1>4. EveryAttemptLogged'
  <2>1. AttemptsLogged(l) = wiped[l] + 1 .. ended[l]
    BY DEF EveryAttemptLogged
  <2>2. \A r \in log : r.loop = l => r.attempt # n
    <3>1. \A r \in log \ restored : r.loop = l => r.attempt \in AttemptsLogged(l)
      BY DEF AttemptsLogged
    <3>2. n \notin wiped[l] + 1 .. ended[l]
      BY <1>2
    <3>3. \A r \in restored : r.loop = l => r.attempt # n
      BY <1>2 DEF RestoredOld, EmitterTypes, Row
    <3>4. QED
      BY <2>1, <3>1, <3>2, <3>3
  <2>3. restored' \subseteq log' /\ OneRowEach(log')
    BY <1>1, <2>2 DEF EveryAttemptLogged, OneRowEach
  <2>4. new \notin restored
    BY <2>2 DEF EveryAttemptLogged
  <2>5. AttemptsLogged(l)' = wiped'[l] + 1 .. ended'[l]
    <3>1. {r \in log' \ restored' : r.loop = l} = {r \in log \ restored : r.loop = l} \cup {new}
      BY <1>1, <2>4
    <3>2. AttemptsLogged(l)' = {row.attempt : row \in {r \in log \ restored : r.loop = l} \cup {new}}
      BY <3>1, Zenon DEF AttemptsLogged
    <3>3. new.attempt = n
      OBVIOUS
    <3>4. AttemptsLogged(l)' = AttemptsLogged(l) \cup {n}
      BY <3>2, <3>3 DEF AttemptsLogged
    <3>5. (wiped[l] + 1 .. ended[l]) \cup {n} = wiped[l] + 1 .. n
      BY <1>2
    <3>6. ended'[l] = n /\ wiped'[l] = wiped[l]
      BY <1>1 DEF EmitterTypes
    <3>7. QED
      BY <2>1, <3>4, <3>5, <3>6
  <2>6. ASSUME NEW k \in Loops, k # l
        PROVE  AttemptsLogged(k)' = wiped'[k] + 1 .. ended'[k]
    <3>1. {r \in log' \ restored' : r.loop = k} = {r \in log \ restored : r.loop = k}
      BY <1>1, <2>6
    <3>2. ended'[k] = ended[k] /\ wiped'[k] = wiped[k]
      BY <1>1, <2>6 DEF EmitterTypes
    <3>3. QED
      BY <3>1, <3>2 DEF EveryAttemptLogged, AttemptsLogged
  <2>7. QED
    BY <2>3, <2>5, <2>6 DEF EveryAttemptLogged
<1>5. RetriesOnlyTransient'
  <2> SUFFICES ASSUME NEW row \in log',
                      row.attempt < ended'[row.loop] \/ phase'[row.loop] \in Running
               PROVE  row.outcome \in {"error", "network"}
    BY DEF RetriesOnlyTransient
  <2>1. CASE row = new
    BY <1>1, <1>2, <2>1 DEF IsRetryable, EmitterTypes
  <2>2. CASE row \in log /\ row.loop = l
    BY <1>1, <2>2 DEF RetriesOnlyTransient
  <2>3. CASE row \in log /\ row.loop # l
    <3>1. row.loop \in Loops
      BY <2>3 DEF EmitterTypes, Row
    <3>2. QED
      BY <1>1, <2>3, <3>1 DEF RetriesOnlyTransient, EmitterTypes
  <2>4. QED
    BY <1>1, <2>1, <2>2, <2>3
<1>7. RestoredOld'
  BY <1>1 DEF RestoredOld
<1>8. FileTrue'
  <2>1. OneRowEach(file')
    BY <1>1 DEF FileTrue
  <2>2. ASSUME NEW r \in file
        PROVE  /\ r.attempt <= ended'[r.loop]
               /\ r.attempt < ended'[r.loop] \/ phase'[r.loop] \in Running => r.outcome \in {"error", "network"}
    <3>1. r.loop \in Loops /\ r.attempt \in Nat
      BY EmitterAssumption DEF EmitterTypes, Row
    <3>2. CASE r.loop = l
      BY <1>1, <1>2, <3>1, <3>2 DEF FileTrue, EmitterTypes
    <3>3. CASE r.loop # l
      BY <1>1, <3>1, <3>3 DEF FileTrue, EmitterTypes
    <3>4. QED
      BY <3>2, <3>3
  <2>3. QED
    BY <1>1, <2>1, <2>2 DEF FileTrue
<1>9. QED
  BY <1>3, <1>4, <1>5, <1>6, <1>7, <1>8

-----------------------------------------------------------------------------
(* The invariant *)

\* The invariant holds of an emitter that has sent nothing.
LEMMA InvariantInit == EmitterInit => EmitterInv
<1> SUFFICES ASSUME EmitterInit
             PROVE  EmitterInv
  OBVIOUS
<1>1. EmitterTypes
  BY EmitterAssumption DEF EmitterInit, EmitterTypes, Running
<1>2. AttemptLeft /\ IdleUntouched /\ WipedBehind /\ RestoredOld /\ FileTrue /\ Unanswered /\ RetriesOnlyTransient
  BY DEF EmitterInit, AttemptLeft, IdleUntouched, WipedBehind, RestoredOld, FileTrue, OneRowEach, Unanswered,
         RetriesOnlyTransient, Running
<1>3. EveryAttemptLogged
  <2>1. \A l \in Loops : {r \in log \ restored : r.loop = l} = {} /\ wiped[l] + 1 .. ended[l] = {}
    BY DEF EmitterInit
  <2>2. QED
    BY <2>1 DEF EmitterInit, EveryAttemptLogged, AttemptsLogged, OneRowEach
<1>4. QED
  BY <1>1, <1>2, <1>3 DEF EmitterInv

\* Every step keeps the invariant, action by action.
LEMMA InvariantStep == EmitterInv /\ [EmitterNext]_emitterVars => EmitterInv'
<1> SUFFICES ASSUME EmitterInv, [EmitterNext]_emitterVars
             PROVE  EmitterInv'
  OBVIOUS
<1> DEFINE Others == /\ AttemptLeft' /\ IdleUntouched' /\ WipedBehind' /\ RestoredOld' /\ FileTrue' /\ Unanswered'
                     /\ EveryAttemptLogged' /\ RetriesOnlyTransient'
<1>1. EmitterTypes'
  BY TypeStep DEF EmitterInv
<1>2. ASSUME NEW e \in Events, Emit(e)
      PROVE  Others
  <2>1. <<e, 0>> \in Loops
    BY EmitterAssumption DEF Loops
  <2>2. QED
    BY <1>2, <2>1, StartKeeps DEF Emit
<1>3. ASSUME NEW row \in log, NEW k \in 1 .. MaxRedeliveries, Redeliver(row, k)
      PROVE  Others
  <2>1. <<row.loop[1], k>> \in Loops
    BY EmitterAssumption DEF EmitterInv, EmitterTypes, Row, Loops
  <2>2. QED
    BY <1>3, <2>1, StartKeeps DEF Redeliver
<1>4. ASSUME NEW l \in Loops, NEW o \in Outcome, AttemptEnds(l, o)
      PROVE  Others
  BY <1>4, AttemptEndsKeeps
<1>5. ASSUME NEW l \in Loops, Retry(l)
      PROVE  Others
  <2>1. phase[l] = "sleeping" /\ phase' = [phase EXCEPT ![l] = "posting"]
    BY <1>5 DEF Retry
  <2>2. UNCHANGED <<ended, last, log, wiped, file, restored>>
    BY <1>5 DEF Retry, tableVars
  <2>3. AttemptLeft' /\ IdleUntouched' /\ WipedBehind' /\ RestoredOld' /\ Unanswered'
    BY <2>1, <2>2
       DEF EmitterInv, AttemptLeft, IdleUntouched, WipedBehind, RestoredOld, Unanswered, EmitterTypes, Running
  <2>4. EveryAttemptLogged'
    BY <2>2 DEF EmitterInv, EveryAttemptLogged, AttemptsLogged, OneRowEach
  <2>5. RetriesOnlyTransient' /\ FileTrue'
    BY <2>1, <2>2 DEF EmitterInv, RetriesOnlyTransient, FileTrue, OneRowEach, EmitterTypes, Row, Running
  <2>6. QED
    BY <2>3, <2>4, <2>5
<1>6. ASSUME NEW rows \in {{}, file}, ReplaceLog(rows)
      PROVE  Others
  <2>1. log' = rows /\ restored' = rows /\ wiped' = ended /\ UNCHANGED <<phase, ended, last, file>>
    BY <1>6 DEF ReplaceLog, loopVars
  <2>2. \A l \in Loops : ended[l] \in Nat /\ ended[l] <= ended[l] /\ ended[l] + 1 .. ended[l] = {}
    BY DEF EmitterInv, EmitterTypes
  <2>3. rows \subseteq file
    BY <1>6
  <2>4. AttemptLeft' /\ IdleUntouched' /\ WipedBehind' /\ RestoredOld' /\ FileTrue' /\ Unanswered' /\ RetriesOnlyTransient'
    BY <2>1, <2>2, <2>3 DEF EmitterInv, AttemptLeft, IdleUntouched, WipedBehind, RestoredOld, FileTrue, OneRowEach,
                            Unanswered, RetriesOnlyTransient
  <2>5. \A l \in Loops : {r \in log' \ restored' : r.loop = l} = {} /\ wiped'[l] + 1 .. ended'[l] = {}
    BY <2>1, <2>2
  <2>6. restored' \subseteq log' /\ OneRowEach(log')
    BY <2>1, <2>3 DEF EmitterInv, FileTrue, OneRowEach
  <2>7. EveryAttemptLogged'
    BY <2>1, <2>5, <2>6 DEF EveryAttemptLogged, AttemptsLogged
  <2>8. QED
    BY <2>4, <2>7
<1>7. ASSUME EmitterRestart
      PROVE  Others
  <2>1. /\ phase' = [l \in Loops |-> IF phase[l] \in Running THEN "lost" ELSE phase[l]]
        /\ UNCHANGED <<ended, last, log, wiped, file, restored>>
    BY <1>7 DEF EmitterRestart, tableVars
  <2>2. AttemptLeft' /\ IdleUntouched' /\ WipedBehind' /\ RestoredOld' /\ Unanswered'
    BY <2>1 DEF EmitterInv, AttemptLeft, IdleUntouched, WipedBehind, RestoredOld, Unanswered, Running
  <2>3. EveryAttemptLogged'
    BY <2>1 DEF EmitterInv, EveryAttemptLogged, AttemptsLogged, OneRowEach
  <2>4. RetriesOnlyTransient' /\ FileTrue'
    BY <2>1 DEF EmitterInv, RetriesOnlyTransient, FileTrue, OneRowEach, EmitterTypes, Row, Running
  <2>5. QED
    BY <2>2, <2>3, <2>4
<1>8. ASSUME Export
      PROVE  Others
  <2>1. file' = log /\ UNCHANGED <<phase, ended, last, log, wiped, restored>>
    BY <1>8 DEF Export, loopVars
  <2>2. AttemptLeft' /\ IdleUntouched' /\ WipedBehind' /\ RestoredOld' /\ Unanswered'
    BY <2>1 DEF EmitterInv, AttemptLeft, IdleUntouched, WipedBehind, RestoredOld, Unanswered
  <2>3. EveryAttemptLogged' /\ RetriesOnlyTransient'
    BY <2>1 DEF EmitterInv, EveryAttemptLogged, AttemptsLogged, OneRowEach, RetriesOnlyTransient
  <2>4. ASSUME NEW r \in log
        PROVE  r.attempt <= ended[r.loop]
    <3>1. r.loop \in Loops /\ ended[r.loop] \in Nat /\ wiped[r.loop] \in Nat /\ r.attempt \in Nat
      BY EmitterAssumption DEF EmitterInv, EmitterTypes, Row
    <3>2. CASE r \in restored
      BY <3>1, <3>2 DEF EmitterInv, RestoredOld, WipedBehind
    <3>3. CASE r \notin restored
      <4>1. r.attempt \in AttemptsLogged(r.loop)
        BY <3>3 DEF AttemptsLogged
      <4>2. QED
        BY <3>1, <4>1 DEF EmitterInv, EveryAttemptLogged
    <3>4. QED
      BY <3>2, <3>3
  <2>5. FileTrue'
    BY <2>1, <2>4 DEF EmitterInv, EveryAttemptLogged, RetriesOnlyTransient, FileTrue, OneRowEach
  <2>6. QED
    BY <2>2, <2>3, <2>5
<1>9. ASSUME UNCHANGED emitterVars
      PROVE  Others
  <2>1. AttemptLeft' /\ IdleUntouched' /\ WipedBehind' /\ RestoredOld' /\ FileTrue' /\ Unanswered'
    BY <1>9 DEF emitterVars, EmitterInv, AttemptLeft, IdleUntouched, WipedBehind, RestoredOld, FileTrue, OneRowEach,
                Unanswered
  <2>2. EveryAttemptLogged' /\ RetriesOnlyTransient'
    BY <1>9 DEF emitterVars, EmitterInv, EveryAttemptLogged, AttemptsLogged, OneRowEach, RetriesOnlyTransient
  <2>3. QED
    BY <2>1, <2>2
<1>10. QED
  BY <1>1, <1>2, <1>3, <1>4, <1>5, <1>6, <1>7, <1>8, <1>9 DEF EmitterNext, EmitterInv, WipeLog, Import

\* The invariant holds of every behaviour.
THEOREM InvariantHolds == EmitterSpec => []EmitterInv
BY InvariantInit, InvariantStep, PTL DEF EmitterSpec

\* Every variable of the emitter has its type.
THEOREM EmitterTypeCorrect == EmitterSpec => []EmitterTypes
<1>1. EmitterInv => EmitterTypes
  BY DEF EmitterInv
<1>2. QED
  BY <1>1, InvariantHolds, PTL

\* Besides the rows an import brought back, the rows of a delivery are exactly
\* its attempts that ended since the log was last wiped, one row each.
THEOREM EveryAttemptLoggedHolds == EmitterSpec => []EveryAttemptLogged
<1>1. EmitterInv => EveryAttemptLogged
  BY DEF EmitterInv
<1>2. QED
  BY <1>1, InvariantHolds, PTL

\* Only a transient failure is followed by another attempt.
THEOREM RetriesOnlyTransientHolds == EmitterSpec => []RetriesOnlyTransient
<1>1. EmitterInv => RetriesOnlyTransient
  BY DEF EmitterInv
<1>2. QED
  BY <1>1, InvariantHolds, PTL

-----------------------------------------------------------------------------
(* The contract *)

\* An emitter that has sent nothing is a contract that has promised nothing.
LEMMA ContractInitially == EmitterInit => Contract!ContractInit
BY DEF EmitterInit, Contract!ContractInit, Fate, Running

\* A delivery that starts is skipped, or begins.
LEMMA StartMaps ==
  ASSUME NEW l \in Loops, EmitterTypes, Unanswered, Start(l)
  PROVE  Contract!Skip(l) \/ Contract!Begin(l)
<1> USE DEF Fate, Running, Unanswered
<1>1. CASE configured
  <2>1. Fate[l] = "none" /\ Fate' = [Fate EXCEPT ![l] = "pending"]
    BY <1>1 DEF Start, EmitterTypes
  <2>2. QED
    BY <1>1, <2>1 DEF Start, Contract!Begin
<1>2. CASE ~configured
  <2>1. Fate[l] = "none" /\ Fate' = [Fate EXCEPT ![l] = "skipped"]
    BY <1>2 DEF Start, EmitterTypes
  <2>2. QED
    BY <1>2, <2>1 DEF Start, Contract!Skip
<1>3. QED
  BY <1>1, <1>2

\* An attempt that ends is an answer, another try, or the last one.
LEMMA AttemptEndsMaps ==
  ASSUME NEW l \in Loops, NEW o \in Outcome, EmitterTypes, AttemptLeft, Unanswered, AttemptEnds(l, o)
  PROVE  Contract!TryAgain(l) \/ Contract!Answer(l) \/ Contract!GiveUp(l)
<1> USE EmitterAssumption DEF Fate, Running, Unanswered
<1>1. /\ Fate[l] = "pending"
      /\ ended' = [ended EXCEPT ![l] = @ + 1]
      /\ ended[l] \in Nat /\ ended[l] + 1 <= MaxAttempts
  BY DEF AttemptEnds, EmitterTypes, AttemptLeft
<1>2. CASE o = "ok"
  <2>1. Fate' = [Fate EXCEPT ![l] = "acknowledged"]
    BY <1>2 DEF AttemptEnds, EmitterTypes, IsRetryable
  <2>2. QED
    BY <1>1, <2>1 DEF Contract!Answer
<1>3. CASE o = "refused"
  <2>1. Fate' = [Fate EXCEPT ![l] = "rejected"]
    BY <1>3 DEF AttemptEnds, EmitterTypes, IsRetryable
  <2>2. QED
    BY <1>1, <2>1 DEF Contract!Answer
<1>4. CASE o \in {"error", "network"} /\ ended[l] + 1 < MaxAttempts
  <2>1. Fate' = Fate
    BY <1>4 DEF AttemptEnds, EmitterTypes, IsRetryable
  <2>2. QED
    BY <1>1, <1>4, <2>1 DEF Contract!TryAgain
<1>5. CASE o \in {"error", "network"} /\ ~(ended[l] + 1 < MaxAttempts)
  <2>1. Fate' = [Fate EXCEPT ![l] = "abandoned"]
    BY <1>5 DEF AttemptEnds, EmitterTypes, IsRetryable
  <2>2. QED
    BY <1>1, <1>5, <2>1 DEF Contract!GiveUp
<1>6. QED
  BY <1>2, <1>3, <1>4, <1>5 DEF Outcome

\* Every step of the emitter is a step of the contract, or none.
LEMMA ContractStep ==
  EmitterTypes /\ AttemptLeft /\ Unanswered /\ [EmitterNext]_emitterVars => [Contract!ContractNext]_(Contract!contractVars)
<1> SUFFICES ASSUME EmitterTypes, AttemptLeft, Unanswered, [EmitterNext]_emitterVars
             PROVE  Contract!ContractNext \/ UNCHANGED Contract!contractVars
  OBVIOUS
<1>1. ASSUME NEW e \in Events, Emit(e)
      PROVE  Contract!ContractNext
  <2>1. <<e, 0>> \in Loops
    BY EmitterAssumption DEF Loops
  <2>2. QED
    BY <1>1, <2>1, StartMaps DEF Emit, Contract!ContractNext
<1>2. ASSUME NEW row \in log, NEW k \in 1 .. MaxRedeliveries, Redeliver(row, k)
      PROVE  Contract!ContractNext
  <2>1. <<row.loop[1], k>> \in Loops
    BY EmitterAssumption DEF EmitterTypes, Row, Loops
  <2>2. QED
    BY <1>2, <2>1, StartMaps DEF Redeliver, Contract!ContractNext
<1>3. ASSUME NEW l \in Loops, NEW o \in Outcome, AttemptEnds(l, o)
      PROVE  Contract!ContractNext
  BY <1>3, AttemptEndsMaps DEF Contract!ContractNext
<1>4. ASSUME NEW l \in Loops, Retry(l)
      PROVE  UNCHANGED Contract!contractVars
  BY <1>4 DEF Retry, Fate, Running, EmitterTypes, Contract!contractVars
<1>5. CASE WipeLog \/ Import \/ Export
  BY <1>5 DEF WipeLog, Import, ReplaceLog, Export, loopVars, Fate, Contract!contractVars
<1>6. CASE EmitterRestart
  <2>1. Fate' = [l \in Loops |-> IF Fate[l] = "pending" THEN "lost" ELSE Fate[l]]
    BY <1>6 DEF EmitterRestart, Fate, Running, EmitterTypes, Unanswered
  <2>2. QED
    BY <1>6, <2>1 DEF EmitterRestart, Contract!ProcessEnds, Contract!ContractNext
<1>7. CASE UNCHANGED emitterVars
  BY <1>7 DEF emitterVars, Fate, Contract!contractVars
<1>8. QED
  BY <1>1, <1>2, <1>3, <1>4, <1>5, <1>6, <1>7 DEF EmitterNext

\* The loop with its sleeps, its log and its restarts implements the contract.
THEOREM KeepsContractHolds == EmitterSpec => KeepsContract
<1>1. EmitterInv => EmitterTypes /\ AttemptLeft /\ Unanswered
  BY DEF EmitterInv
<1>2. QED
  BY <1>1, InvariantHolds, ContractInitially, ContractStep, PTL
     DEF EmitterSpec, KeepsContract, Contract!ContractSpec

=============================================================================
