-------------------------- MODULE DeliveryContract --------------------------
(***************************************************************************)
(* What the webhook emitter promises about one delivery, whatever the      *)
(* receiver and the network do: it is skipped because nobody is            *)
(* configured to receive it, or it is tried, a bounded number of times,    *)
(* until the receiver answers for good.  An answer is final.  The emitter  *)
(* gives up only after the last attempt, and a delivery that is under way  *)
(* is settled unless the process ends.                                     *)
(***************************************************************************)
EXTENDS Naturals

CONSTANTS
  Deliveries,    \* emissions and re-deliveries, each an independent one
  MaxAttempts    \* how often one delivery is tried

Settled == {"skipped", "acknowledged", "rejected", "abandoned"}

VARIABLES
  fate,    \* how a delivery stands
  tries    \* how many of its attempts are over

contractVars == <<fate, tries>>

ContractInit ==
  /\ fate = [d \in Deliveries |-> "none"]
  /\ tries = [d \in Deliveries |-> 0]

Skip(d) ==
  /\ fate[d] = "none"
  /\ fate' = [fate EXCEPT ![d] = "skipped"]
  /\ tries' = [tries EXCEPT ![d] = 1]

Begin(d) ==
  /\ fate[d] = "none"
  /\ fate' = [fate EXCEPT ![d] = "pending"]
  /\ UNCHANGED tries

\* An attempt that is worth another one.
TryAgain(d) ==
  /\ fate[d] = "pending"
  /\ tries[d] + 1 < MaxAttempts
  /\ tries' = [tries EXCEPT ![d] = @ + 1]
  /\ UNCHANGED fate

Answer(d) ==
  /\ fate[d] = "pending"
  /\ tries' = [tries EXCEPT ![d] = @ + 1]
  /\ \E answer \in {"acknowledged", "rejected"} : fate' = [fate EXCEPT ![d] = answer]

GiveUp(d) ==
  /\ fate[d] = "pending"
  /\ tries[d] + 1 = MaxAttempts
  /\ tries' = [tries EXCEPT ![d] = @ + 1]
  /\ fate' = [fate EXCEPT ![d] = "abandoned"]

\* The process ends: everything under way is lost, at once.
ProcessEnds ==
  /\ fate' = [d \in Deliveries |-> IF fate[d] = "pending" THEN "lost" ELSE fate[d]]
  /\ UNCHANGED tries

ContractNext ==
  \/ \E d \in Deliveries : Skip(d) \/ Begin(d) \/ TryAgain(d) \/ Answer(d) \/ GiveUp(d)
  \/ ProcessEnds

ContractSpec == ContractInit /\ [][ContractNext]_contractVars
=============================================================================
