-------------------------- MODULE TaskQueueProofs --------------------------
(***************************************************************************)
(* Proofs about TaskQueue: its clients are clients of RunTask, so that     *)
(* everything proved of run_task under arbitrary clients holds for them;   *)
(* and the primary key, which makes KAIROS and the coordinator's second    *)
(* round fail, is also what keeps the claims of the team apart from them.  *)
(***************************************************************************)
EXTENDS TaskQueue, RunTaskProofs

(* A worker past its SELECT has a task that is in the queue, or was; a claimed
   row has left "pending" without an execution, and so it stays; a
   second round finds its row taken, so that it ends without a result; an
   accepted subtask's agent is at rest with its result. *)
ClaimsOK ==
    \A w \in Workers :
        /\ workerAt[w] \in {"claiming", "holding"} =>
              held[w] \in Queue /\ row[held[w]] # "absent"
        /\ workerAt[w] = "holding" => row[held[w]] # "pending"

OwnersOK ==
    \A t \in Queue :
        claimedBy[t] # Nobody =>
            row[t] \notin {"absent", "pending"} /\ executions[t] = 0

VerdictsOK ==
    \A s \in SubAgents :
        /\ round[s] > 0 => task[s] = s
        /\ round[s] > 1 =>
              row[s] # "absent" /\ pc[s] \notin Owning /\ result[s] \notin {"succeeded", "failed"}
        /\ verdict[s] = "accepted" =>
              round[s] > 0 /\ pc[s] = "idle" /\ result[s] = "succeeded" /\ score[s] = "high"

QInv == IInv /\ QueueTypeOK /\ ClaimsOK /\ OwnersOK /\ VerdictsOK

-----------------------------------------------------------------------------
(* The clients start from an initial state of run_task. *)
LEMMA RunInit == QueueInit => Init
    BY DEF QueueInit

(* Every step of the clients is a step of run_task under arbitrary clients, or
   does not touch it. *)
LEMMA RunStepOfQueue ==
    ASSUME QInv, [QueueNext]_vars
    PROVE  [RunNext]_runVars
<1>1. Chats \cup SubAgents \cup {Kairos} = Agents /\ Chats \cup SubAgents \cup Queue = Tasks
    BY TaskQueueAssumption
<1>2. CASE UNCHANGED vars
    BY <1>2 DEF vars
<1>3. CASE \E a \in Agents : AgentStep(a) \/ CancelAgent(a)
    BY <1>3 DEF AgentStep, CancelAgent, RunNext
<1>4. CASE \E t \in Queue : Submit(t)
    BY <1>1, <1>4 DEF Submit, RunNext
<1>5. ASSUME NEW w \in Workers, WorkerStep(w) PROVE [RunNext]_runVars
  <2>1. CASE Select(w) \/ Work(w)
      BY <2>1 DEF Select, Work
  <2>2. CASE Claim(w)
    <3>1. CASE Claimed(w)
      <4>1. Take(held[w]) /\ row[held[w]] = "pending"
          BY <3>1 DEF Claimed, Take
      <4>2. held[w] \in Tasks
          BY <1>1, <2>2 DEF Claim, QInv, ClaimsOK
      <4> QED
          BY <4>1, <4>2 DEF RunNext
    <3>2. CASE ~Claimed(w)
        BY <2>2, <3>2 DEF Claim, runVars
    <3> QED
        BY <3>1, <3>2
  <2> QED
      BY <1>5, <2>1, <2>2 DEF WorkerStep
<1>6. ASSUME NEW s \in SubAgents, CoordinatorStep(s) PROVE [RunNext]_runVars
    BY <1>1, <1>6 DEF CoordinatorStep, Assign, Judge, RunNext
<1>7. CASE \E c \in Chats : Chat(c)
    BY <1>1, <1>7 DEF Chat, RunNext
<1>8. CASE StopTeam \/ Poll \/ Gather
    BY <1>8 DEF StopTeam, Poll, Gather
<1>9. CASE RunPending
  <2>1. PICK t \in batch : Call(Kairos, t)
      BY <1>9 DEF RunPending
  <2>2. t \in Tasks /\ Kairos \in Agents
      BY <1>1, TaskQueueAssumption DEF QInv, QueueTypeOK
  <2> QED
      BY <2>1, <2>2 DEF RunNext
<1> QED
    BY <1>2, <1>3, <1>4, <1>5, <1>6, <1>7, <1>8, <1>9 DEF QueueNext, KairosStep

-----------------------------------------------------------------------------
(* A row that exists stays, and its task is not executed again. *)
LEMMA RowsStay ==
    ASSUME IInv, [RunNext]_runVars, NEW t \in Tasks
    PROVE  /\ row[t] # "absent" => row'[t] # "absent" /\ executions'[t] = executions[t]
           /\ row[t] \notin {"absent", "pending"} => row'[t] \notin {"absent", "pending"}
<1>1. row[t] # "absent" => executions'[t] = executions[t]
  <2>1. CASE UNCHANGED runVars
      BY <2>1 DEF runVars
  <2>2. ASSUME NEW b \in Agents, RunStep(b) \/ Cancel(b), row[t] # "absent"
        PROVE  executions'[t] = executions[t]
      BY <2>2 DEF RunStep, Cancel, Search, Insert, Save, Attempt, Complete, Remember, Propose,
                  Report, Recover, GiveUp, Create, IInv, TypeOK
  <2>3. CASE \E b \in Agents, u \in Tasks : Call(b, u)
      BY <2>3 DEF Call
  <2>4. CASE \E u \in Tasks : Enqueue(u) \/ Take(u)
      BY <2>4 DEF Enqueue, Take
  <2> QED
      BY <2>1, <2>2, <2>3, <2>4 DEF RunNext
<1> QED
    BY <1>1, StatusStep

(* The types of the queue, the team, KAIROS and the coordinator. *)
LEMMA QueueTypeStep ==
    ASSUME QInv, TypeOK', [QueueNext]_vars
    PROVE  QueueTypeOK'
<1> USE DEF QInv, QueueTypeOK
<1>1. teamOn' \in BOOLEAN
    BY DEF QueueNext, vars, workerVars, AgentStep, CancelAgent, Submit, WorkerStep, Select, Claim,
           Work, CoordinatorStep, Assign, Judge, Gather, Chat, StopTeam, KairosStep, Poll, RunPending
<1>2. batch' \subseteq Background
    BY DEF QueueNext, vars, AgentStep, CancelAgent, Submit, WorkerStep, Select, Claim,
           Work, CoordinatorStep, Assign, Judge, Gather, Chat, StopTeam, KairosStep, Poll, RunPending
<1>3. claimedBy' \in [Queue -> Workers \cup {Nobody}]
    BY DEF QueueNext, vars, workerVars, AgentStep, CancelAgent, Submit, WorkerStep, Select, Claim,
           Claimed, Work, CoordinatorStep, Assign, Judge, Gather, Chat, StopTeam, KairosStep, Poll, RunPending
<1>4. held' \in [Workers -> Queue \cup {Nobody}]
    BY DEF QueueNext, vars, workerVars, AgentStep, CancelAgent, Submit, WorkerStep, Select, Claim,
           Pending, Work, CoordinatorStep, Assign, Judge, Gather, Chat, StopTeam, KairosStep, Poll, RunPending
<1>5. workerAt' \in [Workers -> {"idle", "claiming", "holding", "dead"}]
    BY DEF QueueNext, vars, workerVars, AgentStep, CancelAgent, Submit, WorkerStep, Select, Claim,
           Work, CoordinatorStep, Assign, Judge, Gather, Chat, StopTeam, KairosStep, Poll, RunPending
<1>6. round' \in [SubAgents -> 0..MaxRounds]
    BY DEF QueueNext, vars, coordVars, AgentStep, CancelAgent, Submit, WorkerStep, Select, Claim,
           Work, CoordinatorStep, Assign, Judge, Gather, Chat, StopTeam, KairosStep, Poll, RunPending,
           MaxRounds
<1>7. verdict' \in [SubAgents -> {"open", "accepted", "kept", "dropped"}]
    BY DEF QueueNext, vars, coordVars, AgentStep, CancelAgent, Submit, WorkerStep, Select, Claim,
           Work, CoordinatorStep, Assign, Judge, Gather, Verdict, Chat, StopTeam, KairosStep, Poll, RunPending
<1>8. gathered' \in BOOLEAN /\ results' \subseteq SubAgents
    BY DEF QueueNext, vars, coordVars, gatherVars, AgentStep, CancelAgent, Submit, WorkerStep, Select,
           Claim, Work, CoordinatorStep, Assign, Judge, Gather, Chat, StopTeam, KairosStep, Poll, RunPending
<1> QED
    BY <1>1, <1>2, <1>3, <1>4, <1>5, <1>6, <1>7, <1>8

(* The steps of everybody but the workers leave the team's variables alone. *)
LEMMA OthersLeaveTeam ==
    ASSUME [QueueNext]_vars
    PROVE  \/ UNCHANGED <<claimedBy, workerAt, held>>
           \/ \E w \in Workers : WorkerStep(w)
    BY DEF QueueNext, vars, workerVars, AgentStep, CancelAgent, Submit, CoordinatorStep, Assign,
           Judge, Gather, Chat, StopTeam, KairosStep, Poll, RunPending

(* A worker holds the task it selected, which has left "pending". *)
LEMMA ClaimsStep ==
    ASSUME QInv, [QueueNext]_vars
    PROVE  ClaimsOK'
<1>1. \A t \in Queue :
         /\ row[t] # "absent" => row'[t] # "absent"
         /\ row[t] \notin {"absent", "pending"} => row'[t] \notin {"absent", "pending"}
    BY RunStepOfQueue, RowsStay, TaskQueueAssumption DEF QInv
<1>2. ClaimsOK /\ QueueTypeOK
    BY DEF QInv
<1>3. CASE UNCHANGED <<claimedBy, workerAt, held>>
    BY <1>1, <1>2, <1>3 DEF ClaimsOK
<1>4. ASSUME NEW w \in Workers, WorkerStep(w) PROVE ClaimsOK'
  <2>1. CASE Select(w)
      BY <1>1, <1>2, <2>1 DEF Select, Pending, ClaimsOK, QueueTypeOK
  <2>2. CASE Claim(w)
    <3>1. workerAt'[w] = "holding" => row'[held[w]] # "pending"
      <4>1. CASE Claimed(w)
          BY <1>2, <2>2, <4>1, TaskQueueAssumption
             DEF Claim, Claimed, Take, Mark, ClaimsOK, QInv, IInv, TypeOK
      <4>2. CASE ~Claimed(w)
          BY <1>2, <2>2, <4>2 DEF Claim, QueueTypeOK, tables
      <4> QED
          BY <4>1, <4>2
    <3>2. held' = held /\ \A v \in Workers \ {w} : workerAt'[v] = workerAt[v]
        BY <1>2, <2>2 DEF Claim, QueueTypeOK
    <3>3. workerAt[w] = "claiming"
        BY <2>2 DEF Claim
    <3> QED
        BY <1>1, <1>2, <3>1, <3>2, <3>3 DEF ClaimsOK
  <2>3. CASE Work(w)
      BY <1>1, <1>2, <2>3 DEF Work, ClaimsOK, QueueTypeOK
  <2> QED
      BY <1>4, <2>1, <2>2, <2>3 DEF WorkerStep
<1> QED
    BY <1>3, <1>4, OthersLeaveTeam

(* A claim takes a pending row, which nobody has claimed or executed. *)
LEMMA OwnersStep ==
    ASSUME QInv, [QueueNext]_vars
    PROVE  /\ OwnersOK'
           /\ \A t \in Queue : claimedBy[t] # Nobody => claimedBy'[t] = claimedBy[t]
<1>1. \A t \in Queue :
         /\ row[t] # "absent" => executions'[t] = executions[t]
         /\ row[t] \notin {"absent", "pending"} => row'[t] \notin {"absent", "pending"}
    BY RunStepOfQueue, RowsStay, TaskQueueAssumption DEF QInv
<1>2. OwnersOK /\ QueueTypeOK
    BY DEF QInv
<1>3. CASE UNCHANGED claimedBy
    BY <1>1, <1>2, <1>3 DEF OwnersOK
<1>4. ASSUME NEW w \in Workers, Claim(w), Claimed(w)
      PROVE  /\ OwnersOK'
             /\ \A t \in Queue : claimedBy[t] # Nobody => claimedBy'[t] = claimedBy[t]
  <2> DEFINE h == held[w]
  <2>1. row[h] = "pending" /\ claimedBy' = [claimedBy EXCEPT ![h] = w]
      BY <1>4 DEF Claimed, Take
  <2>2. h \in Queue
      BY <1>4 DEF Claim, QInv, ClaimsOK
  <2>3. executions[h] = 0 /\ executions' = executions
      BY <2>1, <2>2, <1>4, TaskQueueAssumption DEF QInv, IInv, Recorded, Claimed, Take
  <2>4. row'[h] = "running"
      BY <2>2, <1>4, TaskQueueAssumption DEF Claimed, Take, Mark, QInv, IInv, TypeOK
  <2>5. claimedBy[h] = Nobody
      BY <2>1, <2>2, <1>2 DEF OwnersOK
  <2>6. \A t \in Queue \ {h} : claimedBy'[t] = claimedBy[t]
      BY <2>1, <1>2 DEF QueueTypeOK
  <2> QED
      BY <1>1, <1>2, <2>2, <2>3, <2>4, <2>5, <2>6 DEF OwnersOK
<1>5. ASSUME NEW w \in Workers, WorkerStep(w), ~(Claim(w) /\ Claimed(w))
      PROVE  UNCHANGED claimedBy
    BY <1>5 DEF WorkerStep, Select, Claim, Work
<1> QED
    BY <1>3, <1>4, <1>5, OthersLeaveTeam

(* An agent whose row is there before its INSERT gets no further. *)
LEMMA RowTakenNoResult ==
    ASSUME TypeOK, NEW b \in Agents, RunStep(b) \/ Cancel(b), row[task[b]] # "absent",
           pc[b] \notin Owning, result[b] \notin {"succeeded", "failed"}
    PROVE  pc'[b] \notin Owning /\ result'[b] \notin {"succeeded", "failed"}
    BY DEF RunStep, Cancel, Search, Insert, Save, Attempt, Complete, Remember, Propose, Report,
           Recover, GiveUp, Create, Goto, End, TypeOK, Owning, Looping, Trying, Saving

(* A sub-agent runs its own subtask only, at most once to the end, and rests
   once it is accepted. *)
LEMMA VerdictsStep ==
    ASSUME QInv, [QueueNext]_vars
    PROVE  VerdictsOK'
<1> DEFINE Kept(s) == task'[s] = task[s] /\ pc'[s] = pc[s] /\ result'[s] = result[s]
                      /\ score'[s] = score[s]
<1>1. VerdictsOK /\ QueueTypeOK /\ TypeOK
    BY DEF QInv, QueueTypeOK
<1>2. SubAgents \subseteq Agents /\ Kairos \notin SubAgents /\ Chats \cap SubAgents = {}
    BY TaskQueueAssumption
<1>0. \A s \in SubAgents : row[s] # "absent" => row'[s] # "absent"
    BY RunStepOfQueue, RowsStay, TaskQueueAssumption DEF QInv
<1>3. ASSUME UNCHANGED <<round, verdict>>, \A s \in SubAgents : Kept(s) PROVE VerdictsOK'
    BY <1>0, <1>1, <1>3 DEF VerdictsOK
<1>4. CASE UNCHANGED vars
    BY <1>3, <1>4 DEF vars, coordVars, runVars, locals
<1>5. ASSUME NEW b \in Agents, RunStep(b) \/ Cancel(b), UNCHANGED <<round, verdict>>
      PROVE  VerdictsOK'
  <2>1. task' = task /\ \A a \in Agents \ {b} :
           pc'[a] = pc[a] /\ result'[a] = result[a] /\ score'[a] = score[a]
      BY <1>1, <1>5, StepIsLocal DEF Local
  <2>2. pc[b] # "idle"
      BY <1>5 DEF RunStep, Cancel, Search, Insert, Save, Attempt, Complete, Remember, Propose,
                  Report, Recover, GiveUp
  <2>3. b \in SubAgents /\ round[b] > 1 =>
           pc'[b] \notin Owning /\ result'[b] \notin {"succeeded", "failed"}
    <3>1. SUFFICES ASSUME b \in SubAgents, round[b] > 1
                   PROVE  pc'[b] \notin Owning /\ result'[b] \notin {"succeeded", "failed"}
        OBVIOUS
    <3>2. round[b] > 0
        BY <1>1, <3>1 DEF QueueTypeOK, MaxRounds
    <3>3. task[b] = b /\ row[b] # "absent" /\ pc[b] \notin Owning
          /\ result[b] \notin {"succeeded", "failed"}
        BY <1>1, <3>1, <3>2 DEF VerdictsOK
    <3> QED
        BY <1>1, <1>5, <3>3, RowTakenNoResult
  <2>4. ASSUME NEW s \in SubAgents
        PROVE  /\ round[s] > 0 => task'[s] = s
               /\ round[s] > 1 => /\ row'[s] # "absent" /\ pc'[s] \notin Owning
                                 /\ result'[s] \notin {"succeeded", "failed"}
      BY <1>0, <1>1, <1>2, <2>1, <2>3 DEF VerdictsOK
  <2>5. ASSUME NEW s \in SubAgents, verdict[s] = "accepted"
        PROVE  round[s] > 0 /\ pc'[s] = "idle" /\ result'[s] = "succeeded" /\ score'[s] = "high"
    <3>1. s # b
        BY <1>1, <2>2, <2>5 DEF VerdictsOK
    <3> QED
        BY <1>1, <1>2, <2>1, <2>5, <3>1 DEF VerdictsOK
  <2> QED
      BY <1>5, <2>4, <2>5 DEF VerdictsOK
<1>6. ASSUME NEW b \in Agents \ SubAgents, NEW t \in Tasks, Call(b, t), UNCHANGED <<round, verdict>>
      PROVE  VerdictsOK'
  <2>1. \A s \in SubAgents : Kept(s)
      BY <1>1, <1>2, <1>6 DEF Call, TypeOK
  <2> QED
      BY <1>3, <1>6, <2>1
<1>7. CASE \E t \in Queue : Submit(t)
    BY <1>3, <1>7 DEF Submit, Enqueue, locals, coordVars
<1>8. ASSUME NEW w \in Workers, WorkerStep(w) PROVE VerdictsOK'
    BY <1>3, <1>8 DEF WorkerStep, Select, Claim, Claimed, Take, Work, runVars, locals, coordVars
<1>9. ASSUME NEW s \in SubAgents, Assign(s) PROVE VerdictsOK'
  <2>1. /\ verdict[s] = "open" /\ verdict' = verdict /\ task'[s] = s
        /\ pc'[s] = "search" /\ result'[s] = "none" /\ round'[s] = round[s] + 1
      BY <1>1, <1>2, <1>9 DEF Assign, Call, TypeOK, QueueTypeOK
  <2>3. round'[s] > 1 => row'[s] # "absent"
    <3>1. round[s] \in 0..MaxRounds
        BY <1>1 DEF QueueTypeOK
    <3>2. round[s] > 0 => result[s] \in {"succeeded", "failed"} /\ task[s] = s
        BY <1>1, <1>9 DEF Assign, VerdictsOK
    <3>3. round[s] > 0 => row[s] # "absent"
        BY <1>2, <3>2 DEF QInv, IInv, Sound
    <3> QED
        BY <1>0, <2>1, <3>1, <3>3 DEF MaxRounds
  <2>2. \A r \in SubAgents \ {s} : Kept(r) /\ round'[r] = round[r]
      BY <1>1, <1>2, <1>9 DEF Assign, Call, TypeOK, QueueTypeOK
  <2>4. "search" \notin Owning
      BY DEF Owning, Looping, Trying, Saving
  <2> QED
      BY <1>0, <1>1, <2>1, <2>2, <2>3, <2>4 DEF VerdictsOK
<1>10. ASSUME NEW s \in SubAgents, Judge(s) PROVE VerdictsOK'
  <2>1. \A r \in SubAgents : Kept(r) /\ round'[r] = round[r]
      BY <1>10 DEF Judge, runVars, locals
  <2>2. \A r \in SubAgents \ {s} : verdict'[r] = verdict[r]
      BY <1>1, <1>10 DEF Judge, QueueTypeOK
  <2>3. verdict'[s] = "accepted" => result[s] = "succeeded"
      BY <1>1, <1>10 DEF Judge, Verdict, Escaped, QueueTypeOK
  <2>4. round[s] > 0 /\ pc[s] = "idle"
      BY <1>10 DEF Judge
  <2>5. result[s] = "succeeded" => Good(s)
    <3>1. result[s] = "succeeded" => ~(round[s] > 1) /\ ~Escaped(s)
        BY <1>1 DEF VerdictsOK, Escaped
    <3> QED
        BY <1>10, <3>1 DEF Judge, MaxRounds
  <2> QED
      BY <1>0, <1>1, <2>1, <2>2, <2>3, <2>4, <2>5 DEF VerdictsOK, Good
<1>11. CASE \E c \in Chats : Chat(c)
    BY <1>2, <1>6, <1>11, TaskQueueAssumption DEF Chat, coordVars
<1>12. CASE StopTeam \/ Poll \/ Gather
    BY <1>3, <1>12 DEF StopTeam, Poll, Gather, runVars, locals, coordVars
<1>13. CASE RunPending
  <2>1. PICK t \in batch : Call(Kairos, t)
      BY <1>13 DEF RunPending
  <2>2. t \in Tasks /\ Kairos \in Agents \ SubAgents
      BY <1>1, <1>2, TaskQueueAssumption DEF QueueTypeOK
  <2> QED
      BY <1>6, <1>13, <2>1, <2>2 DEF RunPending, coordVars
<1> QED
    BY <1>4, <1>5, <1>7, <1>8, <1>9, <1>10, <1>11, <1>12, <1>13
       DEF QueueNext, AgentStep, CancelAgent, CoordinatorStep, KairosStep, coordVars

(* The invariant of the clients holds at the start and is inductive. *)
LEMMA QInvInit == QueueInit => QInv
<1> SUFFICES ASSUME QueueInit PROVE QInv
    OBVIOUS
<1>1. IInv
    BY RunInit, InvariantInit
<1>2. QueueTypeOK
  <2>1. TypeOK
      BY <1>1 DEF IInv
  <2>2. batch \subseteq Background /\ gathered \in BOOLEAN /\ results \subseteq SubAgents
      BY DEF QueueInit
  <2>3. /\ round \in [SubAgents -> 0..MaxRounds]
        /\ verdict \in [SubAgents -> {"open", "accepted", "kept", "dropped"}]
      BY DEF QueueInit, MaxRounds
  <2> QED
      BY <2>1, <2>2, <2>3 DEF QueueInit, QueueTypeOK
<1> QED
    BY <1>1, <1>2 DEF QueueInit, QInv, ClaimsOK, OwnersOK, VerdictsOK

(* Every step of a client keeps the invariant. *)
LEMMA QInvStep == QInv /\ [QueueNext]_vars => QInv'
<1> SUFFICES ASSUME QInv, [QueueNext]_vars PROVE QInv'
    OBVIOUS
<1>1. IInv'
    BY RunStepOfQueue, InvariantStep DEF QInv
<1>2. QueueTypeOK'
    BY <1>1, QueueTypeStep DEF IInv
<1> QED
    BY <1>1, <1>2, ClaimsStep, OwnersStep, VerdictsStep DEF QInv

-----------------------------------------------------------------------------
(* Every reachable state of the clients satisfies their invariant. *)
THEOREM QueueInvariance == QueueSpec => []QInv
    BY QInvInit, QInvStep, PTL DEF QueueSpec

(* The clients implement run_task under arbitrary clients. *)
THEOREM QueueImplementsRunTask == QueueSpec => RunTaskSpec
<1>1. QInv /\ [QueueNext]_vars => [RunNext]_runVars
    BY RunStepOfQueue
<1> QED
    BY <1>1, RunInit, QueueInvariance, PTL DEF QueueSpec, RunTaskSpec, RunSpec

(* The type invariant of the whole. *)
THEOREM QueueTypeCorrect == QueueSpec => []QueueTypeOK
<1>1. QInv => QueueTypeOK
    BY DEF QInv
<1> QED
    BY <1>1, QueueInvariance, PTL

(* At most one run works on a task: chats, sub-agents and KAIROS alike. *)
THEOREM QueueExclusion == QueueSpec => []OneExecution
    BY QueueImplementsRunTask, Exclusion, PTL DEF RunTaskSpec

(* What any client is answered is what the tables say. *)
THEOREM QueueAnswers == QueueSpec => []AnswerMatchesTables
    BY QueueImplementsRunTask, Answers, PTL DEF RunTaskSpec

(* A worker that goes on to work holds a task that has left the queue. *)
THEOREM HeldTasksAreTaken == QueueSpec => []HeldIsTaken
<1>1. QInv => HeldIsTaken
    BY DEF QInv, ClaimsOK, HeldIsTaken
<1> QED
    BY <1>1, QueueInvariance, PTL

(* A claimed row keeps its owner. *)
THEOREM ClaimsAreKept == QueueSpec => ClaimIsKept
<1>1. QInv /\ [QueueNext]_vars =>
         [\A t \in Queue : claimedBy[t] # Nobody => claimedBy'[t] = claimedBy[t]]_claimedBy
    BY OwnersStep
<1> QED
    BY <1>1, QueueInvariance, PTL DEF QueueSpec, ClaimIsKept

(* Nobody's run_task works on a row that a worker has claimed. *)
THEOREM ClaimsAreRespected == QueueSpec => []NoTakeover
<1>1. QInv => NoTakeover
  <2> SUFFICES ASSUME QInv, NEW t \in Queue, NEW a \in Agents,
                      claimedBy[t] # Nobody, pc[a] \in Owning
               PROVE  task[a] # t
      BY DEF NoTakeover
  <2>1. executions[t] = 0
      BY DEF QInv, OwnersOK
  <2>2. executions[task[a]] = 1
      BY DEF QInv, IInv, Sound, Holds
  <2> QED
      BY <2>1, <2>2
<1> QED
    BY <1>1, QueueInvariance, PTL

(* The coordinator accepts good, recorded work only. *)
THEOREM NothingRubberStamped == QueueSpec => []AcceptedIsGood
<1>1. QInv => AcceptedIsGood
    BY TaskQueueAssumption DEF QInv, IInv, Sound, VerdictsOK, AcceptedIsGood
<1> QED
    BY <1>1, QueueInvariance, PTL

=============================================================================
