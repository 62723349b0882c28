------------------------------ MODULE Accounts ------------------------------
(***************************************************************************)
(* Business accounts, their phone numbers and the ids everything on the    *)
(* Graph surface is named by.                                              *)
(*                                                                         *)
(* A number walks up a registration ladder (added, code requested, code    *)
(* verified, registered) or comes in at its top when the control plane or  *)
(* the seed creates it.  The control plane may name the ids it creates, an *)
(* MSISDN may be spelled in several ways, and every boot and every reset   *)
(* applies the seed again, over whatever the database holds by then.       *)
(*                                                                         *)
(* The actions below are the handlers; GraphApi puts the gates in front.   *)
(* Each is one step: its queries resume in microtasks.  The one wait a     *)
(* delete has, for the storage of its media, is MediaStore's subject.      *)
(***************************************************************************)
EXTENDS Naturals, FiniteSets

CONSTANTS
  Ids,           \* object ids: accounts, numbers, media and templates share them
  Displays,      \* spellings of phone numbers, as the control plane may write them
  DigitsOf,      \* the digits of a spelling
  SeedWabas,     \* the accounts WHALOC_SEED describes
  SeedPhones,    \* the numbers it describes, with their ids ...
  SeedOwner,     \* ... the account each belongs to ...
  SeedDisplay,   \* ... and how the seed spells it
  NoId,          \* not an id
  UploadHandle   \* the handle of a finished resumable upload: an app's, not a number's

ASSUME AccountsAssumption ==
  /\ NoId \notin Ids /\ UploadHandle \notin Ids \cup {NoId}
  /\ SeedWabas \subseteq Ids /\ SeedPhones \subseteq Ids
  /\ SeedWabas \cap SeedPhones = {}
  /\ SeedOwner \in [SeedPhones -> SeedWabas]
  /\ SeedDisplay \in [SeedPhones -> Displays]
  /\ \A m, n \in SeedPhones :
       DigitsOf[SeedDisplay[m]] = DigitsOf[SeedDisplay[n]] => m = n

NumberStatus == {"UNVERIFIED", "PENDING", "CONNECTED", "DISCONNECTED"}

VARIABLES
  wabas,       \* the ids of the rows of wabas ...
  subscribed,  \* ... and those the app is subscribed to
  numbers,     \* the rows of phone_numbers, NoNumber where an id names none
  media,       \* the number each media object belongs to, NoId where there is none
  templates,   \* the account each template belongs to, NoId where there is none
  minted,      \* every id a row has had: a random id is never one of them
  reseeded     \* rows a restart's seed put back, over the rows there were by then

accountVars == <<wabas, subscribed, numbers, media, templates, minted, reseeded>>

NoNumber == [waba |-> NoId, display |-> "none", status |-> "none", verified |-> FALSE,
             approved |-> FALSE, pending |-> FALSE, picture |-> NoId, proof |-> "none"]

\* "proof" is not a column: it remembers what vouches for the row's owner.
Proof == {"none", "code", "preverified", "control", "seed"}

Number ==
  [waba : Ids, display : Displays, status : NumberStatus, verified : BOOLEAN,
   approved : BOOLEAN, pending : BOOLEAN, picture : Ids \cup {NoId, UploadHandle}, proof : Proof]

Phones == {n \in Ids : numbers[n] # NoNumber}

\* The row the repository's defaults make: already on the Cloud API.
OnboardedNumber(waba, display, proof) ==
  [waba |-> waba, display |-> display, status |-> "CONNECTED", verified |-> TRUE,
   approved |-> TRUE, pending |-> FALSE, picture |-> NoId, proof |-> proof]

-----------------------------------------------------------------------------
(* One id, one object; one MSISDN, one number.                             *)

\* Mutant: only the account table is asked.
IdIsFreeOfAccounts(id) == id \notin wabas

\* findIdHolder() over the four stores.
IdIsFree(id) ==
  /\ id \notin wabas
  /\ numbers[id] = NoNumber
  /\ media[id] = NoId
  /\ templates[id] = NoId

\* An id from the random generator, which never hands out one a second time.
Fresh(id) == id \notin minted

\* Mutant: the spelling is compared, not the digits.
SpellingIsFree(display, except) ==
  \A n \in Phones \ {except} : numbers[n].display # display

\* #findByDigits(): over every account, whatever the punctuation.
DigitsAreFree(display, except) ==
  \A n \in Phones \ {except} : DigitsOf[numbers[n].display] # DigitsOf[display]

-----------------------------------------------------------------------------
(* The Graph handlers.  Each answers what the consumer hears.              *)

Patch(n, number) ==
  /\ numbers' = [numbers EXCEPT ![n] = number]
  /\ UNCHANGED <<wabas, subscribed, media, templates, minted, reseeded>>

Insert(n, number) ==
  /\ numbers' = [numbers EXCEPT ![n] = number]
  /\ minted' = minted \cup {n}
  /\ reseeded' = reseeded \ {n}
  /\ UNCHANGED <<wabas, subscribed, media, templates>>

CanAdd(waba, display) == waba \in wabas /\ DigitsAreFree(display, NoId)

\* A pre-verified number starts one rung up.
AddToWaba(waba, display, preverified) ==
  \E n \in Ids :
    /\ Fresh(n)
    /\ Insert(n, [OnboardedNumber(waba, display, IF preverified THEN "preverified" ELSE "none")
                    EXCEPT !.status = IF preverified THEN "PENDING" ELSE "UNVERIFIED",
                           !.verified = preverified,
                           !.approved = FALSE])

\* Any rung may ask for a code, a connected number included.
RequestCode(n) == Patch(n, [numbers[n] EXCEPT !.pending = TRUE])

\* Mutant: a code is enough, asked for or not, right or wrong.
CanVerifyAnyhow(n, right) == TRUE

\* The code is kept until it is confirmed; without one there is nothing to confirm.
CanVerify(n, right) == numbers[n].pending /\ right

\* A number that was deregistered keeps that status; one on its first rung moves up.
VerifyCode(n, right) ==
  Patch(n, [numbers[n] EXCEPT
              !.verified = TRUE, !.pending = FALSE,
              !.proof = IF right THEN "code" ELSE @,
              !.status = IF @ = "UNVERIFIED" THEN "PENDING" ELSE @])

CanRegister(n) == numbers[n].verified

Register(n) == Patch(n, [numbers[n] EXCEPT !.status = "CONNECTED", !.approved = TRUE])

\* Off the Cloud API from any rung; what was verified stays verified.
Deregister(n) == Patch(n, [numbers[n] EXCEPT !.status = "DISCONNECTED"])

\* The gate a send and a read receipt go through.
CanSend(n) == numbers[n].status = "CONNECTED"

\* The bytes are MediaStore's subject; here the object takes an id.
UploadMedia(n) ==
  \E m \in Ids :
    /\ Fresh(m)
    /\ media' = [media EXCEPT ![m] = n]
    /\ minted' = minted \cup {m}
    /\ UNCHANGED <<wabas, subscribed, numbers, templates, reseeded>>

CreateTemplate(waba) ==
  \E t \in Ids :
    /\ Fresh(t)
    /\ templates' = [templates EXCEPT ![t] = waba]
    /\ minted' = minted \cup {t}
    /\ UNCHANGED <<wabas, subscribed, numbers, media, reseeded>>

\* The handle of a profile picture: empty clears it, an upload's is anyone's, a media id must
\* be the number's own.
CanPublish(n, handle) == handle \in {NoId, UploadHandle} \/ media[handle] = n

\* A merge: the other fields of the profile stay as they are.
UpdateProfile(n, handle) == Patch(n, [numbers[n] EXCEPT !.picture = handle])

SetSubscribed(waba, on) ==
  /\ subscribed' = IF on THEN subscribed \cup {waba} ELSE subscribed \ {waba}
  /\ UNCHANGED <<wabas, numbers, media, templates, minted, reseeded>>

\* GET /{id}: the first store that holds the id answers for it.
Resolve(id) ==
  CASE numbers[id] # NoNumber -> "phoneNumber"
    [] numbers[id] = NoNumber /\ id \in wabas -> "waba"
    [] numbers[id] = NoNumber /\ id \notin wabas /\ media[id] # NoId -> "media"
    [] numbers[id] = NoNumber /\ id \notin wabas /\ media[id] = NoId /\ templates[id] # NoId
         -> "template"
    [] OTHER -> "missing"

-----------------------------------------------------------------------------
(* The control plane.  An id is named by the caller or minted.             *)

CreateWaba(id) ==
  /\ IdIsFree(id)
  /\ wabas' = wabas \cup {id}
  /\ minted' = minted \cup {id}
  /\ reseeded' = reseeded \ {id}
  /\ UNCHANGED <<subscribed, numbers, media, templates>>

CreateNumber(waba, display, id) ==
  /\ waba \in wabas
  /\ DigitsAreFree(display, NoId)
  /\ IdIsFree(id)
  /\ Insert(id, OnboardedNumber(waba, display, "control"))

UpdateDisplay(n, display) ==
  /\ n \in Phones
  /\ DigitsAreFree(display, n)
  /\ Patch(n, [numbers[n] EXCEPT !.display = display])

\* The rows a set of numbers takes with it.
Without(gone) ==
  /\ numbers' = [n \in Ids |-> IF n \in gone THEN NoNumber ELSE numbers[n]]
  /\ media' = [m \in Ids |-> IF media[m] \in gone THEN NoId ELSE media[m]]

\* A mark lasts as long as a row it can be about.
StillMarked ==
  reseeded' = {id \in reseeded : id \in wabas' \/ numbers'[id] # NoNumber}

DeleteNumber(n) ==
  /\ n \in Phones
  /\ Without({n})
  /\ UNCHANGED <<wabas, subscribed, templates, minted>>
  /\ StillMarked

DeleteWaba(w) ==
  LET gone == {n \in Phones : numbers[n].waba = w}
  IN /\ w \in wabas
     /\ Without(gone)
     /\ templates' = [t \in Ids |-> IF templates[t] = w THEN NoId ELSE templates[t]]
     /\ wabas' = wabas \ {w}
     /\ subscribed' = subscribed \ {w}
     /\ UNCHANGED minted
     /\ StillMarked

-----------------------------------------------------------------------------
(* The seed: rows are matched by id, or by spelling within the account.    *)

\* The numbers the seed does not find.
SeedMissing(old) ==
  {s \in SeedPhones :
     /\ old[s] = NoNumber
     /\ \A n \in Ids : ~ (old[n].waba = SeedOwner[s] /\ old[n].display = SeedDisplay[s])}

Seeded(old) ==
  [n \in Ids |-> IF n \in SeedMissing(old)
                 THEN OnboardedNumber(SeedOwner[n], SeedDisplay[n], "seed") ELSE old[n]]

NoNumbers == [n \in Ids |-> NoNumber]

\* A restart over a file database.  What the seed puts back is checked against nothing else.
Restart ==
  /\ reseeded' = reseeded \cup SeedMissing(numbers) \cup (SeedWabas \ wabas)
  /\ wabas' = wabas \cup SeedWabas
  /\ numbers' = Seeded(numbers)
  /\ minted' = minted \cup SeedWabas \cup SeedPhones
  /\ UNCHANGED <<subscribed, media, templates>>

\* POST /api/reset: every row goes, then the seed; waits are ResetService's, in MediaStore.
Reset ==
  /\ wabas' = SeedWabas
  /\ subscribed' = {}
  /\ numbers' = Seeded(NoNumbers)
  /\ media' = [m \in Ids |-> NoId]
  /\ templates' = [t \in Ids |-> NoId]
  /\ minted' = minted \cup SeedWabas \cup SeedPhones
  /\ reseeded' = {}

AccountsInit ==
  /\ wabas = SeedWabas
  /\ subscribed = {}
  /\ numbers = Seeded(NoNumbers)
  /\ media = [m \in Ids |-> NoId]
  /\ templates = [t \in Ids |-> NoId]
  /\ minted = SeedWabas \cup SeedPhones
  /\ reseeded = {}

-----------------------------------------------------------------------------
AccountsTypeOK ==
  /\ wabas \subseteq Ids /\ subscribed \subseteq wabas
  /\ numbers \in [Ids -> Number \cup {NoNumber}]
  /\ media \in [Ids -> Ids \cup {NoId}]
  /\ templates \in [Ids -> Ids \cup {NoId}]
  /\ minted \subseteq Ids
  /\ reseeded \subseteq Ids

\* Nobody sends from a number nothing vouches for: no order of adding, asking for codes,
\* verifying, registering, deregistering, deleting and creating again under the same id
\* leaves a row connected without a right code (or a creation that needs none) and an
\* approved name behind it, or waiting on a rung it has passed.
RungsAgree ==
  \A n \in Phones :
    LET r == numbers[n]
    IN /\ r.status = "CONNECTED" => r.verified /\ r.approved
       /\ r.verified => r.proof # "none"
       /\ r.status = "UNVERIFIED" => ~ r.verified
       /\ r.status = "PENDING" => r.verified

\* One MSISDN is one WhatsApp account, however it is spelled, in whatever account and along
\* whichever path it was entered.  Only a row that a restart's seed put back may share the
\* digits of another: the seed looks for its own row and not for theirs.
OneNumberPerMsisdn ==
  \A m, n \in Phones :
    DigitsOf[numbers[m].display] = DigitsOf[numbers[n].display] =>
      m = n \/ m \in reseeded \/ n \in reseeded

\* The stores an id is found in.
Holders(id) ==
  (IF id \in wabas THEN {"WABA"} ELSE {}) \cup
  (IF numbers[id] # NoNumber THEN {"phone number"} ELSE {}) \cup
  (IF media[id] # NoId THEN {"media object"} ELSE {}) \cup
  (IF templates[id] # NoId THEN {"template"} ELSE {})

\* One namespace: no object is shadowed in GET /{id} by another with its id, whichever of
\* the random and the explicit ids meet, again but for what a restart's seed put back.
OneIdOneObject == \A id \in Ids \ reseeded : Cardinality(Holders(id)) <= 1

=============================================================================
