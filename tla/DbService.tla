----------------------------- MODULE DbService -----------------------------
(***************************************************************************)
(* What the database layer promises a coroutine that calls db_write or     *)
(* db_fetch_*: one outcome per call, and a log of the writes that took     *)
(* effect which only ever grows.                                           *)
(*                                                                         *)
(*   ok         a write is in the log when its call returns;               *)
(*   refused    the call never takes effect, so it can be repeated;        *)
(*   failed,    the call may have taken effect, or take effect later, but  *)
(*   cancelled  at most once.                                              *)
(***************************************************************************)
EXTENDS Integers, Sequences, Functions

CONSTANTS Calls,   \* the calls made to the layer
          Writes   \* those that write

VARIABLES outcome,  \* what each caller knows of its call
          log       \* the writes in effect, in order

vars == <<outcome, log>>

Outcomes == {"idle", "open", "ok", "failed", "refused", "cancelled"}

Init ==
    /\ outcome = [c \in Calls |-> "idle"]
    /\ log = <<>>

(* Calls that may still take effect. *)
InDoubt(c) == outcome[c] \in {"open", "failed", "cancelled"}

(* The log grows by writes in doubt, each at most once. *)
TakeEffect ==
    /\ log' \in Seq(Writes)
    /\ Len(log) <= Len(log')
    /\ \A i \in 1..Len(log) : log'[i] = log[i]
    /\ \A i \in Len(log)+1..Len(log') : InDoubt(log'[i])
    /\ \A i, j \in 1..Len(log') : log'[i] = log'[j] => i = j

Open(c) ==
    /\ outcome[c] = "idle"
    /\ outcome' = [outcome EXCEPT ![c] = "open"]
    /\ UNCHANGED log

Accept(c) ==
    /\ outcome[c] = "open"
    /\ TakeEffect
    /\ c \in Writes => c \in Range(log')
    /\ outcome' = [outcome EXCEPT ![c] = "ok"]

Fail(c) ==
    /\ outcome[c] = "open"
    /\ outcome' = [outcome EXCEPT ![c] = "failed"]
    /\ UNCHANGED log

Withdraw(c) ==
    /\ outcome[c] = "open"
    /\ outcome' = [outcome EXCEPT ![c] = "cancelled"]
    /\ UNCHANGED log

(* The service refuses a group of calls at once. *)
Refuse ==
    /\ \A c \in Calls :
          \/ outcome'[c] = outcome[c]
          \/ outcome[c] = "open" /\ outcome'[c] = "refused" /\ c \notin Range(log)
    /\ outcome' \in [Calls -> Outcomes]
    /\ UNCHANGED log

Silent == TakeEffect /\ UNCHANGED outcome

Next ==
    \/ \E c \in Calls : Open(c) \/ Accept(c) \/ Fail(c) \/ Withdraw(c)
    \/ Refuse
    \/ Silent

Spec == Init /\ [][Next]_vars

=============================================================================
