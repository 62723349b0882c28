------------------------------ MODULE GraphApi ------------------------------
(***************************************************************************)
(* The Graph surface as one system: RequestGate in front of the handlers   *)
(* of Accounts, with the control plane, restarts and resets beside them.   *)
(*                                                                         *)
(* A request is authenticated and judged by the rules when it arrives.     *)
(* Reading its body lets other handlers in, so a handler that has one acts *)
(* on the state it finds when the body is there, not on the state the      *)
(* gates saw.                                                              *)
(***************************************************************************)
EXTENDS Accounts, RequestGate

CONSTANTS
  MaxOperations,  \* bound: requests and changes through the control plane, together
  MaxRestarts,    \* bound: restarts and resets
  MaxInFlight     \* bound: requests whose bodies are being read at once

ASSUME BoundsAssumption ==
  MaxOperations \in Nat /\ MaxRestarts \in Nat /\ MaxInFlight \in Nat

VARIABLES
  inFlight,  \* requests past the gates whose bodies are being read
  operations, restarts  \* how much of each bound is used

apiVars == <<inFlight, operations, restarts>>
vars == <<accountVars, gateVars, apiVars>>

\* The endpoints that read a body before they look at anything.
BodyOnly == {"requestCode", "register", "send", "uploadMedia", "createTemplate", "malformed"}
WithBody == BodyOnly \cup {"addNumber", "verifyCode", "profile"}
NoBody == {"deregister", "readObject", "resolveMedia", "subscribe", "unsubscribe"}

\* A request: the object it names, and of its body what the handlers tell apart.
Request ==
  [endpoint : BodyOnly \cup NoBody, id : Ids] \cup
  [endpoint : {"addNumber"}, id : Ids, display : Displays, preverified : BOOLEAN] \cup
  [endpoint : {"verifyCode"}, id : Ids, right : BOOLEAN] \cup
  [endpoint : {"profile"}, id : Ids, handle : Ids \cup {NoId, UploadHandle}]

AccountsUnchanged == UNCHANGED accountVars

\* What a handler answers a request it refuses with.
UnknownObject == Failure(400, 100, 33)
InvalidParameter == Failure(400, 100, 2494010)
NumberExists == Failure(409, 100, 0)
NotVerified == Failure(400, 133006, 0)
NotRegistered == Failure(400, 133010, 0)

\* A WABA or a number that is not there is a 400 with a subcode, never a 404.
Unknown(r) ==
  \/ r.endpoint \in {"addNumber", "createTemplate", "subscribe", "unsubscribe"} /\ r.id \notin wabas
  \/ r.endpoint \in {"requestCode", "verifyCode", "register", "deregister", "send", "uploadMedia",
                     "profile"} /\ r.id \notin Phones
  \/ r.endpoint = "readObject" /\ Resolve(r.id) = "missing"
  \/ r.endpoint = "resolveMedia" /\ Resolve(r.id) # "media"

\* The failure a request is refused with once its object is found, if any.
Refused(r) ==
  \/ r.endpoint = "addNumber" /\ ~ CanAdd(r.id, r.display)
  \/ r.endpoint = "verifyCode" /\ ~ CanVerify(r.id, r.right)
  \/ r.endpoint = "register" /\ ~ CanRegister(r.id)
  \/ r.endpoint = "send" /\ ~ CanSend(r.id)
  \/ r.endpoint = "profile" /\ ~ CanPublish(r.id, r.handle)

\* The checks in the code's order: the body's shape, the object, then what it allows.
Refusal(r) ==
  IF r.endpoint = "malformed" THEN {InvalidParameter}
  ELSE IF Unknown(r) THEN {UnknownObject}
  ELSE IF ~ Refused(r) THEN {}
  ELSE CASE r.endpoint = "addNumber" -> {NumberExists}
         [] r.endpoint = "register" -> {NotVerified}
         [] r.endpoint = "send" -> {NotRegistered}
         [] OTHER -> {InvalidParameter}

\* What an accepted request does.
Effect(r) ==
  \/ r.endpoint = "addNumber" /\ AddToWaba(r.id, r.display, r.preverified)
  \/ r.endpoint = "requestCode" /\ RequestCode(r.id)
  \/ r.endpoint = "verifyCode" /\ VerifyCode(r.id, r.right)
  \/ r.endpoint = "register" /\ Register(r.id)
  \/ r.endpoint = "deregister" /\ Deregister(r.id)
  \/ r.endpoint = "uploadMedia" /\ UploadMedia(r.id)
  \/ r.endpoint = "createTemplate" /\ CreateTemplate(r.id)
  \/ r.endpoint = "profile" /\ UpdateProfile(r.id, r.handle)
  \/ r.endpoint = "subscribe" /\ SetSubscribed(r.id, TRUE)
  \/ r.endpoint = "unsubscribe" /\ SetSubscribed(r.id, FALSE)
  \/ r.endpoint \in {"send", "readObject", "resolveMedia"} /\ AccountsUnchanged

Handle(r) == IF Refusal(r) = {} THEN Effect(r) ELSE AccountsUnchanged

\* A request whose credentials are refused: no rule counts it.
Unauthenticated(token) ==
  /\ operations < MaxOperations
  /\ Authenticate(token) # {}
  /\ operations' = operations + 1
  /\ UNCHANGED <<accountVars, gateVars, inFlight, restarts>>

\* One that a rule answers: its handler never runs.
Injected(token, r) ==
  LET class == EndpointClass(r.endpoint)
  IN /\ operations < MaxOperations
     /\ Authenticate(token) = {}
     /\ Firing(class) # {}
     /\ Evaluate(class)
     /\ operations' = operations + 1
     /\ UNCHANGED <<accountVars, inFlight, restarts>>

\* One that passes both gates: handled at once, or once its body is there.
Arrive(token, r) ==
  LET class == EndpointClass(r.endpoint)
  IN /\ operations < MaxOperations
     /\ Authenticate(token) = {}
     /\ Firing(class) = {}
     /\ Evaluate(class)
     /\ operations' = operations + 1
     /\ IF r.endpoint \in WithBody
        THEN /\ Cardinality(inFlight) < MaxInFlight
             /\ inFlight' = inFlight \cup {r}
             /\ AccountsUnchanged
        ELSE Handle(r) /\ UNCHANGED inFlight
     /\ UNCHANGED restarts

BodyRead(r) ==
  /\ r \in inFlight
  /\ inFlight' = inFlight \ {r}
  /\ Handle(r)
  /\ UNCHANGED <<gateVars, operations, restarts>>

-----------------------------------------------------------------------------
(* The control plane beside it.                                            *)

AccountEdit ==
  \/ \E id \in Ids : CreateWaba(id)
  \/ \E w, id \in Ids, d \in Displays : CreateNumber(w, d, id)
  \/ \E n \in Ids, d \in Displays : UpdateDisplay(n, d)
  \/ \E n \in Ids : DeleteNumber(n)
  \/ \E w \in Ids : DeleteWaba(w)

GateEdit ==
  \/ \E t \in Registered, e \in BOOLEAN : SetExpired(t, e)
  \/ \E k \in RuleIds, t \in Targets, kind \in Trigger, n \in Counts : CreateRule(k, t, kind, n)
  \/ \E k \in RuleIds : DeleteRule(k)

ControlPlane ==
  /\ operations < MaxOperations
  /\ operations' = operations + 1
  /\ \/ AccountEdit /\ UNCHANGED gateVars
     \/ GateEdit /\ AccountsUnchanged
  /\ UNCHANGED <<inFlight, restarts>>

\* The process ends: requests die with it, the rows stay, the seed is applied again.
RestartServer ==
  /\ restarts < MaxRestarts
  /\ restarts' = restarts + 1
  /\ Restart
  /\ inFlight' = {}
  /\ UNCHANGED <<gateVars, operations>>

ResetServer ==
  /\ restarts < MaxRestarts
  /\ restarts' = restarts + 1
  /\ Reset /\ GateReset
  /\ UNCHANGED <<inFlight, operations>>

Init ==
  /\ AccountsInit /\ GateInit
  /\ inFlight = {}
  /\ operations = 0 /\ restarts = 0

Next ==
  \/ \E t \in Tokens : Unauthenticated(t)
  \/ \E t \in Tokens, r \in Request : Injected(t, r)
  \/ \E t \in Tokens, r \in Request : Arrive(t, r)
  \/ \E r \in inFlight : BodyRead(r)
  \/ ControlPlane
  \/ RestartServer
  \/ ResetServer

Spec == Init /\ [][Next]_vars

-----------------------------------------------------------------------------
TypeOK ==
  /\ AccountsTypeOK /\ GateTypeOK
  /\ inFlight \subseteq Request
  /\ operations \in 0..MaxOperations /\ restarts \in 0..MaxRestarts

=============================================================================
