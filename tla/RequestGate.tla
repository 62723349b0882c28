---------------------------- MODULE RequestGate ----------------------------
(***************************************************************************)
(* The two gates in front of every Graph handler: the bearer token, then   *)
(* the error-injection rules.                                              *)
(*                                                                         *)
(* A rule answers the requests of its endpoint class with a configured     *)
(* failure: always, the next n of them, or every n-th.  All the rules a    *)
(* request matches count it; the first, in creation order, whose trigger   *)
(* is armed answers it.  Rules, their counters and the expired tokens are  *)
(* rows, so they outlive a restart; a reset wipes them.                    *)
(***************************************************************************)
EXTENDS Naturals, Sequences, FiniteSets, SequencesExt

CONSTANTS
  Registered,  \* the tokens WHALOC_TOKENS lists; none of them matters unless Strict
  Strangers,   \* tokens it does not list, and "none" for a request without credentials
  Strict,      \* is WHALOC_TOKENS set?
  Targets,     \* endpoint classes, "graph.all" among them
  Counts,      \* the n of "next n" and "every nth"
  RuleIds      \* ids of rules, one for each creation

ASSUME GateAssumption ==
  /\ Strict \in BOOLEAN
  /\ Registered \cap Strangers = {}
  /\ "none" \in Strangers
  /\ "graph.all" \in Targets
  /\ Counts \subseteq Nat \ {0}

Tokens == Registered \cup Strangers
Trigger == {"always", "next", "every"}

VARIABLES
  expired,  \* the rows of expired_tokens
  rules,    \* the rows of injection_rules in creation order
  told,     \* the failures consumers were answered with, by rule
  passed    \* the matching requests that reached their handler since a rule was created

gateVars == <<expired, rules, told, passed>>

Rule ==
  [id : RuleIds, target : Targets, kind : Trigger, n : Counts,
   seen : Nat, matches : Nat, remaining : Nat]

-----------------------------------------------------------------------------
(* Authentication.                                                         *)

\* A consumer tells failures apart by the status, the code and the subcode of the envelope.
Failure(status, code, subcode) == [status |-> status, code |-> code, subcode |-> subcode]

\* An unregistered token is answered like a missing one, on purpose.
MissingToken == Failure(401, 190, 0)
ExpiredToken == Failure(401, 190, 463)

\* What the bearer gate holds against a request, as a set of at most one failure.
Authenticate(token) ==
  IF token = "none" THEN {MissingToken}
  ELSE IF ~ Strict THEN {}
  ELSE IF token \notin Registered THEN {MissingToken}
  ELSE IF token \in expired THEN {ExpiredToken}
  ELSE {}

\* Both directions are idempotent; only a registered token has a row.
SetExpired(token, isExpired) ==
  /\ Strict /\ token \in Registered
  /\ expired' = IF isExpired THEN expired \cup {token} ELSE expired \ {token}
  /\ UNCHANGED <<rules, told, passed>>

-----------------------------------------------------------------------------
(* Injection.                                                              *)

\* The class of a request; most of the Graph surface is in none of its own.
EndpointClass(endpoint) ==
  CASE endpoint \in {"send", "malformed"} -> "messages.send"
    [] endpoint = "uploadMedia" -> "media.upload"
    [] endpoint = "createTemplate" -> "templates.create"
    [] endpoint = "resolveMedia" -> "media.resolve"
    [] OTHER -> "none"

Matches(rule, class) == rule.target \in {"graph.all", class}

\* Mutant: the request being judged is not counted yet.
ArmedBefore(rule) ==
  CASE rule.kind = "always" -> TRUE
    [] rule.kind = "next" -> rule.remaining > 0
    [] rule.kind = "every" -> rule.seen % rule.n = 0

\* Judged with the request already counted, so "every 3rd" fires on the 3rd.
Armed(rule) ==
  CASE rule.kind = "always" -> TRUE
    [] rule.kind = "next" -> rule.remaining > 0
    [] rule.kind = "every" -> (rule.seen + 1) % rule.n = 0

\* The rule that answers: the first in creation order that is armed, as a set of at most one.
Firing(class) ==
  LET armed == {i \in DOMAIN rules : Matches(rules[i], class) /\ Armed(rules[i])}
  IN {i \in armed : \A j \in armed : i <= j}

\* A row after the request: all that match count it, the one that fires counts down.
Counted(i, class) ==
  LET r == rules[i]
  IN IF ~ Matches(r, class) THEN r
     ELSE [r EXCEPT !.seen = @ + 1,
                    !.matches = IF i \in Firing(class) THEN @ + 1 ELSE @,
                    !.remaining = IF i \in Firing(class) /\ r.kind = "next" THEN @ - 1 ELSE @]

\* evaluate(): one stretch of queries, then the request goes on or is answered.
Evaluate(class) ==
  /\ rules' = [i \in DOMAIN rules |-> Counted(i, class)]
  /\ told' = [k \in RuleIds |->
                told[k] + Cardinality({i \in Firing(class) : rules[i].id = k})]
  /\ passed' = [k \in RuleIds |->
                  passed[k] + IF Firing(class) # {} THEN 0
                              ELSE Cardinality({i \in DOMAIN rules :
                                     rules[i].id = k /\ Matches(rules[i], class)})]
  /\ UNCHANGED expired

\* A "next" rule starts fully armed; the other kinds have nothing to count down.
CreateRule(id, target, kind, n) ==
  /\ told[id] = 0 /\ passed[id] = 0
  /\ \A i \in DOMAIN rules : rules[i].id # id
  /\ rules' = Append(rules,
       [id |-> id, target |-> target, kind |-> kind, n |-> n,
        seen |-> 0, matches |-> 0, remaining |-> IF kind = "next" THEN n ELSE 0])
  /\ UNCHANGED <<expired, told, passed>>

DeleteRule(id) ==
  /\ \E i \in DOMAIN rules : rules[i].id = id /\ rules' = RemoveAt(rules, i)
  /\ UNCHANGED <<expired, told, passed>>

\* What a reset does to both tables; a restart keeps them.
GateReset ==
  /\ rules' = <<>>
  /\ expired' = {}
  /\ UNCHANGED <<told, passed>>

GateInit ==
  /\ expired = {}
  /\ rules = <<>>
  /\ told = [k \in RuleIds |-> 0]
  /\ passed = [k \in RuleIds |-> 0]

-----------------------------------------------------------------------------
GateTypeOK ==
  /\ expired \subseteq Registered
  /\ rules \in Seq(Rule)
  /\ told \in [RuleIds -> Nat]
  /\ passed \in [RuleIds -> Nat]

\* Every rule keeps the promise of its trigger to the consumers, whatever other rules match
\* the same requests, come before it, or are created and deleted meanwhile: a countdown is
\* spent by failures it answered and by nothing else, and no matching request slips through
\* while it lasts; an "always" lets nothing through; an "every" answers its
\* n-th requests only, and no n-th request gets through.
RulesKeepTheirPromise ==
  \A i \in DOMAIN rules :
    LET r == rules[i]
    IN /\ r.matches = told[r.id]
       /\ r.kind = "next" => /\ r.remaining + told[r.id] = r.n
                             /\ passed[r.id] > 0 => r.remaining = 0
       /\ r.kind = "always" => passed[r.id] = 0
       /\ r.kind = "every" => /\ told[r.id] <= r.seen \div r.n
                              /\ passed[r.id] <= r.seen - (r.seen \div r.n)

=============================================================================
