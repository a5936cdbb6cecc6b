------------------------------ MODULE RunTask ------------------------------
(***************************************************************************)
(* BaseAgent.run_task (src/jarvis/agents/base.py): an agent works on a     *)
(* task identified by its row in the tasks table.  It inserts the row,     *)
(* saves a checkpoint, and makes up to MaxAttempts attempts; an attempt    *)
(* asks the model, marks the row completed, saves an episodic memory and,  *)
(* when the score is below 70, a skill proposal.                           *)
(*                                                                         *)
(* The module puts no restriction on its clients: any agent may call       *)
(* run_task with any task identifier, also one that is taken, and the      *)
(* queue may hold and mark rows of its own.  TaskQueue adds the clients of *)
(* the program.                                                            *)
(*                                                                         *)
(* An action goes from one await to the next.  A database call either      *)
(* succeeds, or raises with its statement applied or not: DbService allows *)
(* both.                                                                   *)
(***************************************************************************)
EXTENDS Integers

CONSTANTS Agents,       \* the BaseAgent objects
          Tasks,        \* identifiers of tasks
          MaxAttempts,  \* max_retries
          Faults        \* whether the database, the log and tasks can fail

ASSUME RunTaskAssumption ==
    /\ Tasks # {}
    /\ MaxAttempts \in Nat \ {0}
    /\ Faults \in BOOLEAN

VARIABLES row,         \* tasks.status
          checkpoint,  \* the step in checkpoints.state_json, or -1
          memories,    \* number of memories saved for a task
          proposals,   \* number of skill proposals saved for a task
          pc,          \* the await an agent's run_task is at
          task,        \* task_id of the agent's last call
          attempt,     \* attempt
          score,       \* "low" below 50, "fair" below 70, "high" from there on
          result,      \* how the agent's last call ended
          executions   \* calls whose INSERT succeeded (history)

tables  == <<row, checkpoint, memories, proposals>>
locals  == <<task, attempt, score>>
runVars == <<tables, pc, locals, result, executions>>

Statuses == {"absent", "pending", "running", "completed", "failed"}
Results  == {"none", "succeeded", "failed", "raised", "cancelled"}

(* Inside the try of an attempt, inside the loop, and past the INSERT. *)
Saving  == {"remember", "propose", "report"}
Trying  == {"attempt", "complete"} \cup Saving
Looping == Trying \cup {"recover", "giveup"}
Owning  == Looping \cup {"save"}
Labels  == Owning \cup {"idle", "search", "insert"}

TypeOK ==
    /\ row \in [Tasks -> Statuses]
    /\ checkpoint \in [Tasks -> -1..MaxAttempts]
    /\ memories \in [Tasks -> Nat]
    /\ proposals \in [Tasks -> Nat]
    /\ pc \in [Agents -> Labels]
    /\ task \in [Agents -> Tasks]
    /\ attempt \in [Agents -> 0..MaxAttempts]
    /\ score \in [Agents -> {"none", "low", "fair", "high"}]
    /\ result \in [Agents -> Results]
    /\ executions \in [Tasks -> Nat]

Init ==
    /\ row = [t \in Tasks |-> "absent"]
    /\ checkpoint = [t \in Tasks |-> -1]
    /\ memories = [t \in Tasks |-> 0]
    /\ proposals = [t \in Tasks |-> 0]
    /\ pc = [a \in Agents |-> "idle"]
    /\ task = [a \in Agents |-> CHOOSE t \in Tasks : TRUE]
    /\ attempt = [a \in Agents |-> 0]
    /\ score = [a \in Agents |-> "none"]
    /\ result = [a \in Agents |-> "none"]
    /\ executions = [t \in Tasks |-> 0]

-----------------------------------------------------------------------------
(* The statements: what each does to the tables. *)

(* A faulty variant: INSERT OR REPLACE. *)
CreateOrReplace(t) ==
    /\ row' = [row EXCEPT ![t] = "running"]
    /\ UNCHANGED <<checkpoint, memories, proposals>>

Create(t) ==
    /\ row[t] = "absent"
    /\ row' = [row EXCEPT ![t] = "running"]
    /\ UNCHANGED <<checkpoint, memories, proposals>>

Mark(t, status) ==
    /\ row' = [row EXCEPT ![t] = status]
    /\ UNCHANGED <<checkpoint, memories, proposals>>

SaveStep(t, n) ==
    /\ checkpoint' = [checkpoint EXCEPT ![t] = n]
    /\ UNCHANGED <<row, memories, proposals>>

SaveMemory(t) ==
    /\ memories' = [memories EXCEPT ![t] = @ + 1]
    /\ UNCHANGED <<row, checkpoint, proposals>>

SaveProposal(t) ==
    /\ proposals' = [proposals EXCEPT ![t] = @ + 1]
    /\ UNCHANGED <<row, checkpoint, memories>>

-----------------------------------------------------------------------------
(* run_task. *)

Goto(a, label) ==
    /\ pc' = [pc EXCEPT ![a] = label]
    /\ UNCHANGED result

End(a, how) ==
    /\ pc' = [pc EXCEPT ![a] = "idle"]
    /\ result' = [result EXCEPT ![a] = how]

Call(a, t) ==
    /\ pc[a] = "idle"
    /\ pc' = [pc EXCEPT ![a] = "search"]
    /\ task' = [task EXCEPT ![a] = t]
    /\ attempt' = [attempt EXCEPT ![a] = 0]
    /\ score' = [score EXCEPT ![a] = "none"]
    /\ result' = [result EXCEPT ![a] = "none"]
    /\ UNCHANGED <<tables, executions>>

Search(a) ==
    /\ pc[a] = "search"
    /\ \/ Goto(a, "insert")
       \/ Faults /\ End(a, "raised")
    /\ UNCHANGED <<tables, locals, executions>>

(* The identifier is the primary key: a row that is there already, of any
   status, makes the INSERT raise, and nothing catches it here. *)
Insert(a) ==
    /\ pc[a] = "insert"
    /\ \/ /\ Create(task[a])
          /\ executions' = [executions EXCEPT ![task[a]] = @ + 1]
          /\ Goto(a, "save")
       \/ /\ row[task[a]] # "absent"
          /\ End(a, "raised")
          /\ UNCHANGED <<tables, executions>>
       \/ /\ Faults
          /\ Create(task[a]) \/ UNCHANGED tables
          /\ End(a, "raised")
          /\ UNCHANGED executions
    /\ UNCHANGED locals

Save(a) ==
    /\ pc[a] = "save"
    /\ \/ SaveStep(task[a], 0) /\ Goto(a, "attempt")
       \/ /\ Faults
          /\ SaveStep(task[a], 0) \/ UNCHANGED tables
          /\ End(a, "raised")
    /\ UNCHANGED <<locals, executions>>

(* Rollback point, run_agent, evaluation. *)
Attempt(a) ==
    /\ pc[a] = "attempt"
    /\ \/ /\ \E s \in {"low", "fair", "high"} : score' = [score EXCEPT ![a] = s]
          /\ Goto(a, "complete")
       \/ Goto(a, "recover") /\ UNCHANGED score
    /\ UNCHANGED <<tables, task, attempt, executions>>

Complete(a) ==
    /\ pc[a] = "complete"
    /\ \/ Mark(task[a], "completed") /\ Goto(a, "remember")
       \/ /\ Faults
          /\ Mark(task[a], "completed") \/ UNCHANGED tables
          /\ Goto(a, "recover")
    /\ UNCHANGED <<locals, executions>>

(* A faulty variant: a memory that cannot be saved is let go. *)
RememberIfPossible(a) ==
    /\ pc[a] = "remember"
    /\ SaveMemory(task[a]) \/ (Faults /\ UNCHANGED tables)
    /\ Goto(a, IF score[a] = "high" THEN "report" ELSE "propose")
    /\ UNCHANGED <<locals, executions>>

(* save_memory inserts the memory and then its search index entry: when the
   second fails the memory stays. *)
Remember(a) ==
    /\ pc[a] = "remember"
    /\ \/ SaveMemory(task[a]) /\ Goto(a, IF score[a] = "high" THEN "report" ELSE "propose")
       \/ /\ Faults
          /\ SaveMemory(task[a]) \/ UNCHANGED tables
          /\ Goto(a, "recover")
    /\ UNCHANGED <<locals, executions>>

Propose(a) ==
    /\ pc[a] = "propose"
    /\ \/ SaveProposal(task[a]) /\ Goto(a, "report")
       \/ /\ Faults
          /\ SaveProposal(task[a]) \/ UNCHANGED tables
          /\ Goto(a, "recover")
    /\ UNCHANGED <<locals, executions>>

(* Metrics, and the audit line, whose write to the file may raise. *)
Report(a) ==
    /\ pc[a] = "report"
    /\ End(a, "succeeded") \/ (Faults /\ Goto(a, "recover"))
    /\ UNCHANGED <<tables, locals, executions>>

(* A faulty variant: the attempt is repeated without being counted. *)
RecoverUncounted(a) ==
    /\ pc[a] = "recover"
    /\ SaveStep(task[a], attempt[a])
    /\ Goto(a, "attempt")
    /\ UNCHANGED <<locals, executions>>

(* A faulty variant: one attempt too many. *)
RecoverOnceMore(a) ==
    /\ pc[a] = "recover"
    /\ attempt' = [attempt EXCEPT ![a] = @ + 1]
    /\ SaveStep(task[a], attempt[a] + 1)
    /\ Goto(a, IF attempt[a] + 1 <= MaxAttempts THEN "attempt" ELSE "giveup")
    /\ UNCHANGED <<task, score, executions>>

(* The except clause; it is outside the try, so its own failure leaves. *)
Recover(a) ==
    /\ pc[a] = "recover"
    /\ attempt' = [attempt EXCEPT ![a] = @ + 1]
    /\ \/ /\ SaveStep(task[a], attempt[a] + 1)
          /\ Goto(a, IF attempt[a] + 1 < MaxAttempts THEN "attempt" ELSE "giveup")
       \/ /\ Faults
          /\ SaveStep(task[a], attempt[a] + 1) \/ UNCHANGED tables
          /\ End(a, "raised")
    /\ UNCHANGED <<task, score, executions>>

GiveUp(a) ==
    /\ pc[a] = "giveup"
    /\ \/ Mark(task[a], "failed") /\ End(a, "failed")
       \/ /\ Faults
          /\ Mark(task[a], "failed") \/ UNCHANGED tables
          /\ End(a, "raised")
    /\ UNCHANGED <<locals, executions>>

RunStep(a) ==
    \/ Search(a) \/ Insert(a) \/ Save(a) \/ Attempt(a) \/ Complete(a)
    \/ Remember(a) \/ Propose(a) \/ Report(a) \/ Recover(a) \/ GiveUp(a)

(* The asyncio task is cancelled or its process dies; `except Exception` does
   not catch CancelledError.  A statement already put may still execute. *)
Cancel(a) ==
    /\ Faults
    /\ pc[a] # "idle"
    /\ End(a, "cancelled")
    /\ \/ UNCHANGED tables
       \/ pc[a] = "insert" /\ Create(task[a])
       \/ pc[a] = "save" /\ SaveStep(task[a], 0)
       \/ pc[a] = "complete" /\ Mark(task[a], "completed")
       \/ pc[a] = "remember" /\ SaveMemory(task[a])
       \/ pc[a] = "propose" /\ SaveProposal(task[a])
       \/ pc[a] = "recover" /\ SaveStep(task[a], attempt[a] + 1)
       \/ pc[a] = "giveup" /\ Mark(task[a], "failed")
    /\ UNCHANGED <<locals, executions>>

-----------------------------------------------------------------------------
(* The queue's own statements on the tasks table. *)

Enqueue(t) ==
    /\ row[t] = "absent"
    /\ Mark(t, "pending")
    /\ UNCHANGED <<pc, locals, result, executions>>

Take(t) ==
    /\ row[t] = "pending"
    /\ Mark(t, "running")
    /\ UNCHANGED <<pc, locals, result, executions>>

-----------------------------------------------------------------------------
RunNext ==
    \/ \E a \in Agents : RunStep(a) \/ Cancel(a) \/ \E t \in Tasks : Call(a, t)
    \/ \E t \in Tasks : Enqueue(t) \/ Take(t)

(* run_task under arbitrary clients. *)
RunSpec == Init /\ [][RunNext]_runVars

-----------------------------------------------------------------------------
(* Properties. *)

(* However many agents call run_task with an identifier, at once or one after
   the other, one of them at most works on it: the INSERT is a test-and-set on
   the primary key, and no failure lets a second one past it. *)
OneExecution ==
    /\ \A t \in Tasks : executions[t] <= 1
    /\ \A a, b \in Agents :
          pc[a] \in Owning /\ pc[b] \in Owning /\ task[a] = task[b] => a = b

(* What run_task answers is what the tables say, for good: a success has its
   row completed, its memory saved and, when its score is below 70, its
   proposal; a failure has its row failed, even if an earlier attempt had
   marked it completed. *)
AnswerMatchesTables ==
    \A a \in Agents :
        /\ result[a] = "succeeded" =>
              /\ row[task[a]] = "completed"
              /\ memories[task[a]] > 0
              /\ score[a] # "high" => proposals[task[a]] > 0
        /\ result[a] = "failed" =>
              row[task[a]] = "failed" /\ checkpoint[task[a]] = MaxAttempts

(* The checkpoint on disk counts the attempts the run has used up. *)
CheckpointIsCurrent ==
    \A a \in Agents : pc[a] \in Looping => checkpoint[task[a]] = attempt[a]

(* A task leaves at most one memory per attempt, and a skill proposal never
   without the memory of the work it criticises, whatever fails in between. *)
MemoryPerAttempt ==
    \A t \in Tasks : proposals[t] <= memories[t] /\ memories[t] <= MaxAttempts

(* A status never goes back: "absent" and "pending" are left for good, and a
   failed task is not revived. *)
StatusMovesOn ==
    [][\A t \in Tasks :
          \/ row'[t] = row[t]
          \/ row[t] = "absent" /\ row'[t] \in {"pending", "running"}
          \/ row[t] = "pending" /\ row'[t] = "running"
          \/ row[t] \in {"running", "completed"} /\ row'[t] \in {"completed", "failed"}
      ]_row

=============================================================================
