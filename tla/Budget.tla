------------------------------- MODULE Budget -------------------------------
(***************************************************************************)
(* The daily budget of src/jarvis/llm/client.py.  A run of the agent loop  *)
(* compares what has been spent and its own estimate with 90% of the       *)
(* limit, and adds its cost when it has returned an answer, many awaits    *)
(* later; what a run that fails has cost is not added.                     *)
(***************************************************************************)
EXTENDS Integers, FiniteSets

CONSTANTS Runs,       \* the runs that may be active at once
          Threshold,  \* 90% of the daily limit
          Estimate,   \* the cost a run is estimated at before it starts
          MaxCost     \* bound on what one run costs

ASSUME BudgetAssumption ==
    /\ IsFiniteSet(Runs)
    /\ Threshold \in Nat /\ Estimate \in Nat /\ MaxCost \in Nat

VARIABLES total,    \* _daily_cost_usd
          admitted  \* runs past the check that have not ended

budgetVars == <<total, admitted>>

BudgetTypeOK == total \in Nat /\ admitted \subseteq Runs

BudgetInit == total = 0 /\ admitted = {}

(* A faulty variant: the estimate alone is compared with the limit. *)
PreflightLoose(r) ==
    /\ r \notin admitted
    /\ total' \in {total, 0}
    /\ admitted' = IF Estimate <= Threshold THEN admitted \cup {r} ELSE admitted

(* _daily_total_usd starts a new day when the old one is over, whenever that
   is; the check and the start of the loop have no await between them. *)
Preflight(r) ==
    /\ r \notin admitted
    /\ total' \in {total, 0}
    /\ admitted' = IF total' + Estimate <= Threshold THEN admitted \cup {r} ELSE admitted

Charge(r) ==
    /\ r \in admitted
    /\ \E cost \in 0..MaxCost : total' = total + cost
    /\ admitted' = admitted \ {r}

Release(r) ==
    /\ r \in admitted
    /\ admitted' = admitted \ {r}
    /\ UNCHANGED total

BudgetNext == \E r \in Runs : Preflight(r) \/ Charge(r) \/ Release(r)

BudgetSpec == BudgetInit /\ [][BudgetNext]_budgetVars

(* client.py:222 and :358: the check and the charge are many awaits apart, so
   runs that were admitted together overspend the limit, but not without
   bound: at most by the cost of the runs that can be active at once. *)
OvershootBounded == total <= Threshold + Cardinality(Runs) * MaxCost

=============================================================================
