--------------------------- MODULE RunTaskProofs ---------------------------
(***************************************************************************)
(* Proofs about RunTask, for any number of agents, tasks and attempts.     *)
(*                                                                         *)
(* The primary key makes the INSERT a test-and-set: an agent that got past *)
(* it holds its task, at most one does, and it keeps its hold when its     *)
(* answer is a success or a failure.  What the tables say about a task is  *)
(* therefore determined by where its holder is (Sound), and a step of any  *)
(* other agent leaves it alone (Frame).                                    *)
(***************************************************************************)
EXTENDS RunTask, TLAPS

Holds(a) == pc[a] \in Owning \/ result[a] \in {"succeeded", "failed"}

(* What the place of an agent says about the tables. *)
Sound(a) ==
    /\ pc[a] # "idle" => result[a] = "none"
    /\ pc[a] \in {"search", "insert", "save"} => attempt[a] = 0
    /\ pc[a] \in Trying \cup {"recover"} => attempt[a] < MaxAttempts
    /\ pc[a] = "giveup" => attempt[a] = MaxAttempts
    /\ Holds(a) => executions[task[a]] = 1
    /\ pc[a] \in Owning => row[task[a]] \in {"running", "completed"}
    /\ pc[a] \in Saving => row[task[a]] = "completed"
    /\ pc[a] \in Looping => checkpoint[task[a]] = attempt[a]
    /\ pc[a] \in Owning => memories[task[a]] <= attempt[a] + 1
    /\ pc[a] \in {"save", "attempt", "complete", "remember", "giveup"} =>
          memories[task[a]] <= attempt[a]
    /\ pc[a] = "propose" => proposals[task[a]] < memories[task[a]]
    /\ pc[a] = "report" =>
          /\ memories[task[a]] > 0
          /\ score[a] # "high" => proposals[task[a]] > 0
    /\ result[a] = "succeeded" =>
          /\ row[task[a]] = "completed"
          /\ memories[task[a]] > 0
          /\ score[a] # "high" => proposals[task[a]] > 0
    /\ result[a] = "failed" =>
          row[task[a]] = "failed" /\ checkpoint[task[a]] = MaxAttempts

(* What holds of the tables whoever works. *)
Recorded(t) ==
    /\ executions[t] \in {0, 1}
    /\ row[t] \in {"absent", "pending"} => executions[t] = 0
    /\ executions[t] = 0 => memories[t] = 0 /\ proposals[t] = 0
    /\ proposals[t] <= memories[t]
    /\ memories[t] <= MaxAttempts

OneHolder ==
    \A a, b \in Agents : Holds(a) /\ Holds(b) /\ task[a] = task[b] => a = b

IInv ==
    /\ TypeOK
    /\ \A t \in Tasks : Recorded(t)
    /\ \A a \in Agents : Sound(a)
    /\ OneHolder

-----------------------------------------------------------------------------
(* The initial state has the types of TypeOK. *)
LEMMA TypeInit == Init => TypeOK
<1> SUFFICES ASSUME Init PROVE TypeOK
    OBVIOUS
<1>1. (CHOOSE t \in Tasks : TRUE) \in Tasks
    BY RunTaskAssumption
<1>2. MaxAttempts \in Nat
    BY RunTaskAssumption
<1> QED
    BY <1>1, <1>2 DEF Init, TypeOK, Statuses, Results, Labels

(* What a statement leaves behind has the types of the tables. *)
LEMMA StatementType ==
    ASSUME TypeOK, NEW t \in Tasks,
           \/ UNCHANGED tables
           \/ Create(t)
           \/ \E status \in Statuses : Mark(t, status)
           \/ \E n \in 0..MaxAttempts : SaveStep(t, n)
           \/ SaveMemory(t)
           \/ SaveProposal(t)
    PROVE  /\ row' \in [Tasks -> Statuses]
           /\ checkpoint' \in [Tasks -> -1..MaxAttempts]
           /\ memories' \in [Tasks -> Nat]
           /\ proposals' \in [Tasks -> Nat]
    BY RunTaskAssumption
       DEF TypeOK, tables, Create, Mark, SaveStep, SaveMemory, SaveProposal, Statuses

(* A step of run_task, its cancellation included, keeps the types.  That the
   attempts stay within their bound needs Sound. *)
LEMMA TypeOfRun ==
    ASSUME TypeOK, NEW b \in Agents, Sound(b), RunStep(b) \/ Cancel(b)
    PROVE  TypeOK'
<1> DEFINE t == task[b]
           Tables == /\ row' \in [Tasks -> Statuses]
                     /\ checkpoint' \in [Tasks -> -1..MaxAttempts]
                     /\ memories' \in [Tasks -> Nat]
                     /\ proposals' \in [Tasks -> Nat]
           Flow   == /\ pc' \in [Agents -> Labels]
                     /\ result' \in [Agents -> Results]
           Rest   == /\ task' \in [Agents -> Tasks]
                     /\ attempt' \in [Agents -> 0..MaxAttempts]
                     /\ score' \in [Agents -> {"none", "low", "fair", "high"}]
                     /\ executions' \in [Tasks -> Nat]
<1>1. t \in Tasks /\ MaxAttempts \in Nat
    BY RunTaskAssumption DEF TypeOK
<1>2. \A label \in Labels : Goto(b, label) => Flow
    BY DEF TypeOK, Goto
<1>3. \A how \in Results : End(b, how) => Flow
    BY DEF TypeOK, End, Labels
<1>4. UNCHANGED <<locals, executions>> => Rest
    BY DEF TypeOK, locals
<1>5. {"absent", "pending", "running", "completed", "failed"} = Statuses
    BY DEF Statuses
<1>6. pc[b] = "recover" => attempt[b] + 1 \in 0..MaxAttempts
    BY <1>1 DEF Sound, TypeOK
<1>7. SUFFICES Tables /\ Flow /\ Rest
    BY DEF TypeOK
<1> HIDE DEF Flow, Rest, Tables
<1>8. CASE Search(b)
    BY <1>2, <1>3, <1>4, <1>8, StatementType, <1>1 DEF Search, Labels, Owning, Results, Tables
<1>9. CASE Insert(b)
  <2>1. executions' \in [Tasks -> Nat]
      BY <1>1, <1>9 DEF Insert, TypeOK
  <2>2. Rest
      BY <2>1, <1>9 DEF Insert, TypeOK, Rest, locals
  <2> QED
      BY <1>2, <1>3, <1>9, <2>2, StatementType, <1>1
         DEF Insert, Labels, Owning, Results, Tables
<1>10. CASE Save(b)
    BY <1>2, <1>3, <1>4, <1>10, StatementType, <1>1
       DEF Save, Labels, Owning, Looping, Trying, Results, Tables
<1>11. CASE Attempt(b)
  <2>1. score' \in [Agents -> {"none", "low", "fair", "high"}]
      BY <1>11 DEF Attempt, TypeOK
  <2>2. Rest
      BY <2>1, <1>11 DEF Attempt, TypeOK, Rest
  <2> QED
      BY <1>2, <1>11, <2>2, StatementType, <1>1
         DEF Attempt, Labels, Owning, Looping, Trying, Tables
<1>12. CASE Complete(b)
    BY <1>2, <1>4, <1>5, <1>12, StatementType, <1>1
       DEF Complete, Labels, Owning, Looping, Trying, Saving, Tables
<1>13. CASE Remember(b)
    BY <1>2, <1>4, <1>13, StatementType, <1>1
       DEF Remember, Labels, Owning, Looping, Trying, Saving, Tables
<1>14. CASE Propose(b)
    BY <1>2, <1>4, <1>14, StatementType, <1>1
       DEF Propose, Labels, Owning, Looping, Trying, Saving, Tables
<1>15. CASE Report(b)
    BY <1>2, <1>3, <1>4, <1>15, StatementType, <1>1
       DEF Report, Labels, Owning, Looping, Results, Tables
<1>16. CASE Recover(b)
  <2>1. attempt' \in [Agents -> 0..MaxAttempts]
      BY <1>6, <1>16 DEF Recover, TypeOK
  <2>2. Rest
      BY <2>1, <1>16 DEF Recover, TypeOK, Rest
  <2> QED
      BY <1>2, <1>3, <1>6, <1>16, <2>2, StatementType, <1>1
         DEF Recover, Labels, Owning, Looping, Trying, Results, Tables
<1>17. CASE GiveUp(b)
    BY <1>3, <1>4, <1>5, <1>17, StatementType, <1>1
       DEF GiveUp, Results, Tables
<1>18. CASE Cancel(b)
  <2>1. 0 \in 0..MaxAttempts
      BY <1>1
  <2> QED
      BY <1>3, <1>4, <1>5, <1>6, <1>18, <2>1, StatementType, <1>1
         DEF Cancel, Results, Tables
<1> QED
    BY <1>8, <1>9, <1>10, <1>11, <1>12, <1>13, <1>14, <1>15, <1>16, <1>17, <1>18
       DEF RunStep

-----------------------------------------------------------------------------
(* A step that touches the agents B and the tasks T only, where nobody outside
   B holds a task of T, preserves IInv if it does so for B and T. *)
LEMMA Frame ==
    ASSUME IInv, TypeOK', NEW B \in SUBSET Agents, NEW T \in SUBSET Tasks,
           \A a \in Agents \ B :
              /\ pc'[a] = pc[a] /\ result'[a] = result[a]
              /\ task'[a] = task[a] /\ attempt'[a] = attempt[a]
              /\ score'[a] = score[a],
           \A u \in Tasks \ T :
              /\ row'[u] = row[u] /\ checkpoint'[u] = checkpoint[u]
              /\ memories'[u] = memories[u] /\ proposals'[u] = proposals[u]
              /\ executions'[u] = executions[u],
           \A a \in Agents \ B : Holds(a) => task[a] \notin T,
           \A u \in T : Recorded(u)',
           \A a \in B : Sound(a)',
           \A a \in B, c \in Agents :
              Holds(a)' /\ Holds(c)' /\ task'[a] = task'[c] => a = c
    PROVE  IInv'
<1>1. \A u \in Tasks : Recorded(u)'
  <2> SUFFICES ASSUME NEW u \in Tasks PROVE Recorded(u)'
      OBVIOUS
  <2>1. CASE u \in T
      BY <2>1
  <2>2. CASE u \notin T
    <3>1. Recorded(u)
        BY DEF IInv
    <3> QED
        BY <2>2, <3>1 DEF Recorded
  <2> QED
      BY <2>1, <2>2
<1>2. \A a \in Agents : Sound(a)'
  <2> SUFFICES ASSUME NEW a \in Agents PROVE Sound(a)'
      OBVIOUS
  <2>1. CASE a \in B
      BY <2>1
  <2>2. CASE a \notin B
    <3>1. Sound(a) /\ task[a] \in Tasks
        BY DEF IInv, TypeOK
    <3>2. CASE Holds(a)
        BY <2>2, <3>1, <3>2 DEF Sound, Holds
    <3>3. CASE ~Holds(a)
        BY <2>2, <3>1, <3>3 DEF Sound, Holds, Owning, Looping, Trying, Saving
    <3> QED
        BY <3>2, <3>3
  <2> QED
      BY <2>1, <2>2
<1>3. OneHolder'
    BY DEF IInv, OneHolder, Holds
<1> QED
    BY <1>1, <1>2, <1>3 DEF IInv

(* What a step of b's run_task leaves alone. *)
Local(b) ==
    /\ \A a \in Agents \ {b} :
          /\ pc'[a] = pc[a] /\ result'[a] = result[a]
          /\ attempt'[a] = attempt[a] /\ score'[a] = score[a]
    /\ \A u \in Tasks \ {task[b]} :
          /\ row'[u] = row[u] /\ checkpoint'[u] = checkpoint[u]
          /\ memories'[u] = memories[u] /\ proposals'[u] = proposals[u]
          /\ executions'[u] = executions[u]
    /\ task' = task

(* The step touches no other agent and no other task. *)
LEMMA StepIsLocal ==
    ASSUME TypeOK, NEW b \in Agents, RunStep(b) \/ Cancel(b)
    PROVE  Local(b)
<1>1. ASSUME Search(b) \/ Insert(b) \/ Save(b) \/ Attempt(b) \/ Complete(b)
      PROVE  Local(b)
    BY <1>1 DEF Search, Insert, Save, Attempt, Complete, Local, TypeOK, Goto, End,
                Create, Mark, SaveStep, tables, locals
<1>2. ASSUME Remember(b) \/ Propose(b) \/ Report(b) \/ Recover(b) \/ GiveUp(b)
      PROVE  Local(b)
    BY <1>2 DEF Remember, Propose, Report, Recover, GiveUp, Local, TypeOK, Goto, End,
                Mark, SaveStep, SaveMemory, SaveProposal, tables, locals
<1>3. ASSUME Cancel(b) PROVE Local(b)
    BY <1>3 DEF Cancel, Local, TypeOK, End, Create, Mark, SaveStep, SaveMemory,
                SaveProposal, tables, locals
<1> QED
    BY <1>1, <1>2, <1>3 DEF RunStep

(* After its step the agent is where the tables say it is. *)
LEMMA StepIsSound ==
    ASSUME TypeOK, NEW b \in Agents, Sound(b), Recorded(task[b]),
           RunStep(b) \/ Cancel(b)
    PROVE  Sound(b)' /\ Recorded(task[b])'
<1>1. task[b] \in Tasks /\ MaxAttempts \in Nat \ {0}
    BY RunTaskAssumption DEF TypeOK
<1>2. CASE Search(b)
    BY <1>1, <1>2 DEF Search, Goto, End, tables, locals, Sound, Recorded, Holds, TypeOK,
       Owning, Looping, Trying, Saving
<1>3. CASE Insert(b)
    BY <1>1, <1>3 DEF Insert, Goto, End, Create, tables, locals, Sound, Recorded, Holds, TypeOK,
       Owning, Looping, Trying, Saving
<1>4. CASE Save(b)
    BY <1>1, <1>4 DEF Save, Goto, End, SaveStep, tables, locals, Sound, Recorded, Holds, TypeOK,
       Owning, Looping, Trying, Saving
<1>5. CASE Attempt(b)
    BY <1>1, <1>5 DEF Attempt, Goto, tables, Sound, Recorded, Holds, TypeOK,
       Owning, Looping, Trying, Saving
<1>6. CASE Complete(b)
    BY <1>1, <1>6 DEF Complete, Goto, Mark, tables, locals, Sound, Recorded, Holds, TypeOK,
       Owning, Looping, Trying, Saving
<1>7. CASE Remember(b)
    BY <1>1, <1>7 DEF Remember, Goto, SaveMemory, tables, locals, Sound, Recorded, Holds, TypeOK,
       Owning, Looping, Trying, Saving
<1>8. CASE Propose(b)
    BY <1>1, <1>8 DEF Propose, Goto, SaveProposal, tables, locals, Sound, Recorded, Holds, TypeOK,
       Owning, Looping, Trying, Saving
<1>9. CASE Report(b)
    BY <1>1, <1>9 DEF Report, Goto, End, tables, locals, Sound, Recorded, Holds, TypeOK,
       Owning, Looping, Trying, Saving
<1>10. CASE Recover(b)
    BY <1>1, <1>10 DEF Recover, Goto, End, SaveStep, tables, Sound, Recorded, Holds, TypeOK,
       Owning, Looping, Trying, Saving
<1>11. CASE GiveUp(b)
    BY <1>1, <1>11 DEF GiveUp, End, Mark, tables, locals, Sound, Recorded, Holds, TypeOK,
       Owning, Looping, Trying, Saving
<1>12. CASE Cancel(b)
    BY <1>1, <1>12 DEF Cancel, End, Create, Mark, SaveStep, SaveMemory, SaveProposal, tables, locals, Sound, Recorded, Holds, TypeOK,
       Owning, Looping, Trying, Saving
<1> QED
    BY <1>2, <1>3, <1>4, <1>5, <1>6, <1>7, <1>8, <1>9, <1>10, <1>11, <1>12 DEF RunStep

(* A step of run_task preserves the invariant: whoever holds the task the step
   touches is the agent itself, or the INSERT finds that nobody does. *)
LEMMA RunPreserves ==
    ASSUME IInv, NEW b \in Agents, RunStep(b) \/ Cancel(b)
    PROVE  IInv'
<1> DEFINE t == task[b]
<1>1. /\ TypeOK /\ Sound(b) /\ t \in Tasks /\ Recorded(t)
    BY DEF IInv, TypeOK
<1>2. TypeOK' /\ Local(b) /\ Sound(b)' /\ Recorded(t)'
    BY <1>1, TypeOfRun, StepIsLocal, StepIsSound
<1>3. ASSUME \A a \in Agents \ {b} : Holds(a) => task[a] # t
      PROVE  IInv'
  <2>1. {b} \in SUBSET Agents /\ {t} \in SUBSET Tasks
      BY <1>1
  <2>2. \A a \in Agents \ {b} :
           /\ pc'[a] = pc[a] /\ result'[a] = result[a]
           /\ task'[a] = task[a] /\ attempt'[a] = attempt[a] /\ score'[a] = score[a]
      BY <1>2 DEF Local
  <2>3. \A u \in Tasks \ {t} :
           /\ row'[u] = row[u] /\ checkpoint'[u] = checkpoint[u]
           /\ memories'[u] = memories[u] /\ proposals'[u] = proposals[u]
           /\ executions'[u] = executions[u]
      BY <1>2 DEF Local
  <2>4. (\A u \in {t} : Recorded(u)') /\ (\A a \in {b} : Sound(a)')
    <3>1. task' = task
        BY <1>2 DEF Local
    <3>2. \A u \in {t} : Recorded(u)'
        BY <1>2, <3>1 DEF Recorded
    <3> QED
        BY <1>2, <3>2
  <2>5. \A a \in {b}, c \in Agents :
           Holds(a)' /\ Holds(c)' /\ task'[a] = task'[c] => a = c
      BY <1>2, <1>3, <2>2 DEF Local, Holds
  <2>6. \A a \in Agents \ {b} : Holds(a) => task[a] \notin {t}
      BY <1>3
  <2> QED
      BY <1>2, <2>1, <2>2, <2>3, <2>4, <2>5, <2>6, Frame
<1>4. CASE Holds(b)
    BY <1>3, <1>4 DEF IInv, OneHolder
<1>5. CASE ~Holds(b) /\ row[t] = "absent"
  <2>1. executions[t] = 0
      BY <1>1, <1>5 DEF Recorded
  <2>2. \A a \in Agents : Holds(a) => executions[task[a]] = 1
      BY DEF IInv, Sound
  <2> QED
      BY <1>3, <2>1, <2>2
<1>6. CASE ~Holds(b) /\ row[t] # "absent"
  <2>1. ~Holds(b)' /\ UNCHANGED <<tables, executions>>
    <3>1. pc[b] \notin Owning /\ result[b] \notin {"succeeded", "failed"}
        BY <1>6 DEF Holds
    <3>2. CASE Search(b)
        BY <3>1, <3>2, <1>1 DEF Search, Goto, End, Holds, Owning, Looping, Trying, Saving, TypeOK
    <3>3. CASE Insert(b)
        BY <3>1, <3>3, <1>1, <1>6
           DEF Insert, Create, Goto, End, Holds, Owning, Looping, Trying, Saving, TypeOK, tables
    <3>4. CASE Cancel(b)
        BY <3>1, <3>4, <1>1, <1>6
           DEF Cancel, Create, End, Holds, Owning, Looping, Trying, Saving, TypeOK, tables
    <3> QED
        BY <3>1, <3>2, <3>3, <3>4
           DEF RunStep, Save, Attempt, Complete, Remember, Propose, Report, Recover, GiveUp,
               Owning, Looping, Trying, Saving
  <2>2. \A u \in Tasks :
           /\ row'[u] = row[u] /\ checkpoint'[u] = checkpoint[u]
           /\ memories'[u] = memories[u] /\ proposals'[u] = proposals[u]
           /\ executions'[u] = executions[u]
      BY <2>1 DEF tables
  <2>3. \A a \in Agents \ {b} :
           /\ pc'[a] = pc[a] /\ result'[a] = result[a]
           /\ task'[a] = task[a] /\ attempt'[a] = attempt[a] /\ score'[a] = score[a]
      BY <1>2 DEF Local
  <2>4. \A u \in {} : Recorded(u)'
      OBVIOUS
  <2>5. \A a \in {b}, c \in Agents :
           Holds(a)' /\ Holds(c)' /\ task'[a] = task'[c] => a = c
      BY <2>1
  <2>6. {b} \in SUBSET Agents /\ {} \in SUBSET Tasks
      OBVIOUS
  <2>7. \A a \in {b} : Sound(a)'
      BY <1>2
  <2> QED
      BY <1>2, <2>2, <2>3, <2>4, <2>5, <2>6, <2>7, Frame
<1> QED
    BY <1>4, <1>5, <1>6

(* A new call holds nothing yet. *)
LEMMA CallPreserves ==
    ASSUME IInv, NEW b \in Agents, NEW t \in Tasks, Call(b, t)
    PROVE  IInv'
<1>1. TypeOK'
    BY RunTaskAssumption DEF IInv, TypeOK, Call, tables, Labels, Results
<1>2. \A a \in Agents \ {b} :
         /\ pc'[a] = pc[a] /\ result'[a] = result[a]
         /\ task'[a] = task[a] /\ attempt'[a] = attempt[a] /\ score'[a] = score[a]
    BY DEF IInv, TypeOK, Call
<1>3. \A u \in Tasks :
         /\ row'[u] = row[u] /\ checkpoint'[u] = checkpoint[u]
         /\ memories'[u] = memories[u] /\ proposals'[u] = proposals[u]
         /\ executions'[u] = executions[u]
    BY DEF Call, tables
<1>4. pc'[b] = "search" /\ result'[b] = "none" /\ attempt'[b] = 0
    BY DEF IInv, TypeOK, Call
<1>5. Sound(b)' /\ ~Holds(b)'
    BY <1>4 DEF Sound, Holds, Owning, Looping, Trying, Saving
<1>6. {b} \in SUBSET Agents /\ {} \in SUBSET Tasks
    OBVIOUS
<1>7. \A a \in {b} : Sound(a)'
    BY <1>5
<1>8. \A a \in {b}, c \in Agents :
         Holds(a)' /\ Holds(c)' /\ task'[a] = task'[c] => a = c
    BY <1>5
<1> QED
    BY <1>1, <1>2, <1>3, <1>6, <1>7, <1>8, Frame

(* The queue marks only rows that nobody holds. *)
LEMMA QueuePreserves ==
    ASSUME IInv, NEW t \in Tasks, Enqueue(t) \/ Take(t)
    PROVE  IInv'
<1>1. TypeOK' /\ Recorded(t)'
  <2>1. TypeOK /\ Recorded(t)
      BY DEF IInv
  <2>2. TypeOK'
      BY <2>1 DEF TypeOK, Enqueue, Take, Mark, locals, Statuses
  <2>3. Recorded(t)'
      BY <2>1 DEF TypeOK, Recorded, Enqueue, Take, Mark
  <2> QED
      BY <2>2, <2>3
<1>2. \A a \in Agents :
         /\ pc'[a] = pc[a] /\ result'[a] = result[a]
         /\ task'[a] = task[a] /\ attempt'[a] = attempt[a] /\ score'[a] = score[a]
    BY DEF Enqueue, Take, locals
<1>3. \A u \in Tasks \ {t} :
         /\ row'[u] = row[u] /\ checkpoint'[u] = checkpoint[u]
         /\ memories'[u] = memories[u] /\ proposals'[u] = proposals[u]
         /\ executions'[u] = executions[u]
    BY DEF IInv, TypeOK, Enqueue, Take, Mark
<1>4. \A a \in Agents : Holds(a) => task[a] # t
  <2>1. executions[t] = 0
      BY DEF IInv, Recorded, Enqueue, Take
  <2> QED
      BY <2>1 DEF IInv, Sound
<1>5. {} \in SUBSET Agents /\ {t} \in SUBSET Tasks
    OBVIOUS
<1>6. \A u \in {t} : Recorded(u)'
    BY <1>1
<1> QED
    BY <1>1, <1>2, <1>3, <1>4, <1>5, <1>6, Frame

(* IInv is inductive. *)
LEMMA InvariantStep == IInv /\ [RunNext]_runVars => IInv'
<1> SUFFICES ASSUME IInv, [RunNext]_runVars PROVE IInv'
    OBVIOUS
<1>1. CASE UNCHANGED runVars
    BY <1>1 DEF IInv, OneHolder, Sound, Recorded, Holds, TypeOK, runVars, tables, locals
<1>2. CASE RunNext
    BY <1>2, RunPreserves, CallPreserves, QueuePreserves DEF RunNext
<1> QED
    BY <1>1, <1>2

(* IInv holds at the start. *)
LEMMA InvariantInit == Init => IInv
<1> SUFFICES ASSUME Init PROVE IInv
    OBVIOUS
<1>1. TypeOK
    BY TypeInit
<1>2. MaxAttempts \in Nat
    BY RunTaskAssumption
<1>3. \A t \in Tasks : Recorded(t)
    BY <1>2 DEF Init, Recorded
<1>4. \A a \in Agents : Sound(a) /\ ~Holds(a)
    BY DEF Init, Sound, Holds, Owning, Looping, Trying, Saving
<1> QED
    BY <1>1, <1>3, <1>4 DEF IInv, OneHolder

-----------------------------------------------------------------------------
(* Every reachable state of run_task under arbitrary clients satisfies the
   inductive invariant. *)
THEOREM Invariance == RunSpec => []IInv
    BY InvariantInit, InvariantStep, PTL DEF RunSpec

(* The type invariant of run_task. *)
THEOREM TypeCorrect == RunSpec => []TypeOK
<1>1. IInv => TypeOK
    BY DEF IInv
<1> QED
    BY <1>1, Invariance, PTL

(* Whoever calls it with whatever identifiers, at most one run_task works on a
   task, ever. *)
THEOREM Exclusion == RunSpec => []OneExecution
<1>1. IInv => OneExecution
    BY DEF IInv, Recorded, OneHolder, Holds, OneExecution
<1> QED
    BY <1>1, Invariance, PTL

(* What run_task answers is what the tables say, for good. *)
THEOREM Answers == RunSpec => []AnswerMatchesTables
<1>1. IInv => AnswerMatchesTables
    BY DEF IInv, Sound, AnswerMatchesTables
<1> QED
    BY <1>1, Invariance, PTL

(* The checkpoint of a run counts the attempts it has used up. *)
THEOREM Checkpoints == RunSpec => []CheckpointIsCurrent
<1>1. IInv => CheckpointIsCurrent
    BY DEF IInv, Sound, CheckpointIsCurrent
<1> QED
    BY <1>1, Invariance, PTL

(* At most one memory per attempt, and no proposal without a memory. *)
THEOREM Memories == RunSpec => []MemoryPerAttempt
<1>1. IInv => MemoryPerAttempt
    BY DEF IInv, Recorded, MemoryPerAttempt
<1> QED
    BY <1>1, Invariance, PTL

(* From one state to the next a status only moves on. *)
LEMMA StatusStep ==
    ASSUME IInv, [RunNext]_runVars, NEW t \in Tasks
    PROVE  \/ row'[t] = row[t]
           \/ row[t] = "absent" /\ row'[t] \in {"pending", "running"}
           \/ row[t] = "pending" /\ row'[t] = "running"
           \/ row[t] \in {"running", "completed"} /\ row'[t] \in {"completed", "failed"}
<1>1. CASE UNCHANGED runVars
    BY <1>1 DEF runVars, tables
<1>2. ASSUME NEW b \in Agents, RunStep(b) \/ Cancel(b)
      PROVE  \/ row'[t] = row[t]
             \/ row[t] = "absent" /\ row'[t] = "running"
             \/ row[t] \in {"running", "completed"} /\ row'[t] \in {"completed", "failed"}
  <2>1. CASE t # task[b]
    <3>1. Local(b)
        BY <1>2, StepIsLocal DEF IInv
    <3> QED
        BY <2>1, <3>1 DEF Local
  <2>2. CASE t = task[b]
    <3>1. TypeOK /\ Sound(b)
        BY DEF IInv
    <3>2. pc[b] \in Owning => row[t] \in {"running", "completed"}
        BY <2>2, <3>1 DEF Sound
    <3>3. CASE RunStep(b)
        BY <2>2, <3>1, <3>2, <3>3
           DEF TypeOK, RunStep, Search, Insert, Save, Attempt, Complete, Remember, Propose,
               Report, Recover, GiveUp, Create, Mark, SaveStep, SaveMemory, SaveProposal,
               tables, Owning, Looping, Trying, Saving
    <3>4. CASE Cancel(b)
        BY <2>2, <3>1, <3>2, <3>4
           DEF TypeOK, Cancel, Create, Mark, SaveStep, SaveMemory, SaveProposal,
               tables, Owning, Looping, Trying, Saving
    <3> QED
        BY <1>2, <3>3, <3>4
  <2> QED
      BY <2>1, <2>2
<1>3. CASE \E b \in Agents, u \in Tasks : Call(b, u)
    BY <1>3 DEF Call, tables
<1>4. CASE \E u \in Tasks : Enqueue(u) \/ Take(u)
    BY <1>4 DEF IInv, TypeOK, Enqueue, Take, Mark
<1> QED
    BY <1>1, <1>2, <1>3, <1>4 DEF RunNext

(* The status of a task never goes back. *)
THEOREM StatusOrder == RunSpec => StatusMovesOn
<1>1. IInv /\ [RunNext]_runVars =>
         [\A t \in Tasks :
             \/ row'[t] = row[t]
             \/ row[t] = "absent" /\ row'[t] \in {"pending", "running"}
             \/ row[t] = "pending" /\ row'[t] = "running"
             \/ row[t] \in {"running", "completed"} /\ row'[t] \in {"completed", "failed"}
         ]_row
    BY StatusStep
<1> QED
    BY <1>1, Invariance, PTL DEF RunSpec, StatusMovesOn

=============================================================================
