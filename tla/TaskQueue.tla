----------------------------- MODULE TaskQueue -----------------------------
(***************************************************************************)
(* Who calls run_task, and the queue in the tasks table:                   *)
(*   chats        a chat or bot message, run once under a fresh identifier *)
(*                (api/main.py, api/telegram_bot.py);                      *)
(*   sub-agents   CoordinatorAgent._execute_subtask, which judges the      *)
(*                result and calls again under the same identifier         *)
(*                (agents/orchestrator.py);                                *)
(*   KAIROS       _process_pending_tasks, which runs the pending           *)
(*                background rows of each poll (daemon/kairos.py);         *)
(*   workers      AgentTeam._worker, which claims pending rows             *)
(*                (agents/orchestrator.py).                                *)
(* A chat or a sub-agent stands for its identifier too.                    *)
(***************************************************************************)
EXTENDS RunTask

CONSTANTS Chats,       \* agents of chat messages
          SubAgents,   \* sub-agents of a coordinator
          Kairos,      \* the agent of the daemon
          Workers,     \* agents of the team
          Queue,       \* tasks submitted to the queue
          Background,  \* those with priority >= 4, which KAIROS takes
          Nobody       \* the owner of a row that nobody has claimed

ASSUME TaskQueueAssumption ==
    /\ Agents = Chats \cup SubAgents \cup {Kairos}
    /\ Tasks = Chats \cup SubAgents \cup Queue
    /\ (Chats \cup SubAgents) \cap (Queue \cup {Kairos}) = {}
    /\ Chats \cap SubAgents = {}
    /\ Background \subseteq Queue
    /\ Nobody \notin Workers

VARIABLES claimedBy,  \* agent_id of a claimed row
          workerAt,   \* the await a worker is at
          held,       \* the task a worker selected
          teamOn,     \* AgentTeam._running
          batch,      \* rows that KAIROS selected and has not run
          round,      \* run_task calls a sub-agent has made
          verdict,    \* what _execute_subtask returned or raised, or "open"
          gathered,   \* whether gather has returned
          results     \* the sub-agents whose results it returned

workerVars == <<claimedBy, workerAt, held, teamOn>>
gatherVars == <<gathered, results>>
coordVars  == <<round, verdict, gatherVars>>
vars == <<runVars, workerVars, batch, coordVars>>

MaxRounds == 2   \* _max_retries_per_subtask

QueueTypeOK ==
    /\ TypeOK
    /\ claimedBy \in [Queue -> Workers \cup {Nobody}]
    /\ workerAt \in [Workers -> {"idle", "claiming", "holding", "dead"}]
    /\ held \in [Workers -> Queue \cup {Nobody}]
    /\ teamOn \in BOOLEAN
    /\ batch \subseteq Background
    /\ round \in [SubAgents -> 0..MaxRounds]
    /\ verdict \in [SubAgents -> {"open", "accepted", "kept", "dropped"}]
    /\ gathered \in BOOLEAN
    /\ results \subseteq SubAgents

QueueInit ==
    /\ Init
    /\ claimedBy = [t \in Queue |-> Nobody]
    /\ workerAt = [w \in Workers |-> "idle"]
    /\ held = [w \in Workers |-> Nobody]
    /\ teamOn = TRUE
    /\ batch = {}
    /\ round = [s \in SubAgents |-> 0]
    /\ verdict = [s \in SubAgents |-> "open"]
    /\ gathered = FALSE
    /\ results = {}

-----------------------------------------------------------------------------
(* The queue and the team. *)

(* POST /tasks, the Gmail webhook, AgentTeam.submit_task. *)
Submit(t) ==
    /\ Enqueue(t)
    /\ UNCHANGED <<workerVars, batch, coordVars>>

Pending == {t \in Queue : row[t] = "pending"}

(* SELECT ... ORDER BY priority: a background row only if there is no other. *)
Select(w) ==
    /\ teamOn
    /\ workerAt[w] = "idle"
    /\ \E t \in Pending :
          /\ t \in Background => Pending \subseteq Background
          /\ held' = [held EXCEPT ![w] = t]
    /\ workerAt' = [workerAt EXCEPT ![w] = "claiming"]
    /\ UNCHANGED <<runVars, claimedBy, teamOn, batch, coordVars>>

(* Faulty variants: no AND status='pending' in the UPDATE; a task is given
   back when its claim fails. *)
ClaimAnyway(w) ==
    /\ workerAt[w] = "claiming"
    /\ Mark(held[w], "running")
    /\ claimedBy' = [claimedBy EXCEPT ![held[w]] = w]
    /\ workerAt' = [workerAt EXCEPT ![w] = "holding"]
    /\ UNCHANGED <<pc, locals, result, executions, held, teamOn, batch, coordVars>>
ClaimOrRelease(w) ==
    /\ workerAt[w] = "claiming"
    /\ row' = [row EXCEPT ![held[w]] = IF @ = "pending" THEN "running" ELSE "pending"]
    /\ workerAt' = [workerAt EXCEPT ![w] = "holding"]
    /\ UNCHANGED <<checkpoint, memories, proposals, pc, locals, result, executions,
                   claimedBy, held, teamOn, batch, coordVars>>

Claimed(w) ==
    /\ Take(held[w])
    /\ claimedBy' = [claimedBy EXCEPT ![held[w]] = w]

(* UPDATE ... AND status='pending'.  The number of rows it changed is not
   looked at: the worker goes on with the task it selected.  An error ends the
   worker, for the loop has no try. *)
Claim(w) ==
    /\ workerAt[w] = "claiming"
    /\ \/ /\ \/ Claimed(w)
             \/ /\ row[held[w]] # "pending"
                /\ UNCHANGED <<tables, pc, locals, result, claimedBy>>
          /\ workerAt' = [workerAt EXCEPT ![w] = "holding"]
       \/ /\ Faults
          /\ \/ Claimed(w)
             \/ UNCHANGED <<tables, pc, locals, result, claimedBy>>
          /\ workerAt' = [workerAt EXCEPT ![w] = "dead"]
    /\ UNCHANGED <<executions, held, teamOn, batch, coordVars>>

(* run_task(json.loads(payload)): payloads are objects, and route calls
   text.lower() on the dict before anything else, so AttributeError ends the
   worker.  The UPDATE that follows run_task is never reached. *)
Work(w) ==
    /\ workerAt[w] = "holding"
    /\ workerAt' = [workerAt EXCEPT ![w] = "dead"]
    /\ UNCHANGED <<runVars, claimedBy, held, teamOn, batch, coordVars>>

StopTeam ==
    /\ teamOn
    /\ teamOn' = FALSE
    /\ UNCHANGED <<runVars, claimedBy, workerAt, held, batch, coordVars>>

-----------------------------------------------------------------------------
(* KAIROS. *)

(* Bound: no more background tasks than the LIMIT of five. *)
Poll ==
    /\ pc[Kairos] = "idle"
    /\ batch = {}
    /\ Pending \cap Background # {}
    /\ batch' = Pending \cap Background
    /\ UNCHANGED <<runVars, workerVars, coordVars>>

(* The loop over the batch: each task in a try of its own. *)
RunPending ==
    /\ \E t \in batch : Call(Kairos, t) /\ batch' = batch \ {t}
    /\ UNCHANGED <<workerVars, coordVars>>

-----------------------------------------------------------------------------
(* Chats and the coordinator. *)

Chat(c) ==
    /\ row[c] = "absent"
    /\ result[c] = "none"
    /\ Call(c, c)
    /\ UNCHANGED <<workerVars, batch, coordVars>>

Good(s) == result[s] = "succeeded" /\ score[s] = "high"

(* The first call, and a further one as long as the work is not good. *)
Assign(s) ==
    /\ verdict[s] = "open"
    /\ round[s] < MaxRounds
    /\ round[s] > 0 => result[s] \in {"succeeded", "failed"} /\ ~Good(s)
    /\ Call(s, s)
    /\ round' = [round EXCEPT ![s] = @ + 1]
    /\ UNCHANGED <<workerVars, batch, verdict, gatherVars>>

Escaped(s) == result[s] \in {"raised", "cancelled"}

(* accepted: good work of any round; after the last one, any work with a score
   of 50 or more (a failure has score 0).  An exception is the verdict of a
   subtask whose run_task raised. *)
Verdict(s) ==
    CASE Escaped(s)                                     -> "dropped"
      [] result[s] = "succeeded" /\ score[s] # "low"    -> "accepted"
      [] OTHER                                          -> "kept"

(* A faulty variant: an exception of run_task is not taken for an end. *)
JudgeReturned(s) ==
    /\ verdict[s] = "open"
    /\ Good(s) \/ (round[s] = MaxRounds /\ result[s] \in {"succeeded", "failed"})
    /\ verdict' = [verdict EXCEPT ![s] = Verdict(s)]
    /\ UNCHANGED <<runVars, workerVars, batch, round, gatherVars>>

Judge(s) ==
    /\ verdict[s] = "open"
    /\ round[s] > 0
    /\ pc[s] = "idle"
    /\ Good(s) \/ Escaped(s) \/ round[s] = MaxRounds
    /\ verdict' = [verdict EXCEPT ![s] = Verdict(s)]
    /\ UNCHANGED <<runVars, workerVars, batch, round, gatherVars>>

(* A faulty variant: gather without return_exceptions. *)
GatherOrRaise ==
    /\ SubAgents # {}
    /\ ~gathered
    /\ \/ \E s \in SubAgents : verdict[s] = "dropped"
       \/ \A s \in SubAgents : verdict[s] # "open"
    /\ gathered' = TRUE
    /\ results' = IF \E s \in SubAgents : verdict[s] = "dropped" THEN {} ELSE SubAgents
    /\ UNCHANGED <<runVars, workerVars, batch, round, verdict>>

(* gather returns when every subtask has ended, with the exceptions among the
   results, and _execute_parallel drops those. *)
Gather ==
    /\ SubAgents # {}
    /\ ~gathered
    /\ \A s \in SubAgents : verdict[s] # "open"
    /\ gathered' = TRUE
    /\ results' = {s \in SubAgents : verdict[s] # "dropped"}
    /\ UNCHANGED <<runVars, workerVars, batch, round, verdict>>

-----------------------------------------------------------------------------
AgentStep(a) == RunStep(a) /\ UNCHANGED <<workerVars, batch, coordVars>>

(* A cancelled KAIROS forgets the rest of its poll. *)
CancelAgent(a) ==
    /\ Cancel(a)
    /\ batch' = IF a = Kairos THEN {} ELSE batch
    /\ UNCHANGED <<workerVars, coordVars>>

WorkerStep(w) == Select(w) \/ Claim(w) \/ Work(w)
KairosStep == Poll \/ RunPending
CoordinatorStep(s) == Assign(s) \/ Judge(s)

QueueNext ==
    \/ \E a \in Agents : AgentStep(a) \/ CancelAgent(a)
    \/ \E t \in Queue : Submit(t)
    \/ \E w \in Workers : WorkerStep(w)
    \/ \E s \in SubAgents : CoordinatorStep(s)
    \/ \E c \in Chats : Chat(c)
    \/ Gather \/ StopTeam \/ KairosStep

(* The event loop runs every coroutine that can run and every call it awaits
   ends; the daemon polls for ever.  Nobody has to submit, chat or cancel. *)
Fairness ==
    /\ \A a \in Agents : WF_vars(AgentStep(a))
    /\ \A w \in Workers : WF_vars(WorkerStep(w))
    /\ \A s \in SubAgents : WF_vars(CoordinatorStep(s))
    /\ WF_vars(Gather)
    /\ WF_vars(KairosStep)

QueueSpec == QueueInit /\ [][QueueNext]_vars /\ Fairness

-----------------------------------------------------------------------------
(* Properties. *)

(* Whoever claimed a row keeps it: a worker that selected the same row earlier
   or later never overwrites agent_id, thanks to AND status='pending'. *)
ClaimIsKept ==
    [][\A t \in Queue : claimedBy[t] # Nobody => claimedBy'[t] = claimedBy[t]]_claimedBy

(* A worker that goes on to work holds a task that has left the queue. *)
HeldIsTaken ==
    \A w \in Workers : workerAt[w] = "holding" => row[held[w]] # "pending"

(* No run_task, of KAIROS with an old batch or of anybody else, works on a row
   that a worker has claimed. *)
NoTakeover ==
    \A t \in Queue, a \in Agents :
        claimedBy[t] # Nobody /\ pc[a] \in Owning => task[a] # t

(* "score >= 70 to accept" (orchestrator.py:9): though the last round accepts
   work of 50 as well, a subtask that is returned as accepted is completed,
   remembered, and scored 70 or more. *)
AcceptedIsGood ==
    \A s \in SubAgents :
        verdict[s] = "accepted" =>
            score[s] = "high" /\ row[s] = "completed" /\ memories[s] > 0

(* Every behaviour of these clients is one of run_task under arbitrary ones. *)
RunTaskSpec == RunSpec

(* gather ends, though the model, the database or the log fail again and again
   in any of the subtasks it waits for. *)
SubtasksEnd == \A s \in SubAgents : round[s] > 0 ~> gathered

(* An accepted subtask is among what gather returns, whatever becomes of the
   others. *)
AcceptedIsUsed == \A s \in SubAgents : verdict[s] = "accepted" ~> s \in results

(* "Atomically claim a pending task" (orchestrator.py:267): no two workers hold
   the same task. *)
ClaimExclusive ==
    \A v, w \in Workers :
        workerAt[v] = "holding" /\ workerAt[w] = "holding" /\ held[v] = held[w] => v = w

=============================================================================
