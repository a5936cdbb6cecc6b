-------------------------- MODULE AgentLoopProofs --------------------------
(***************************************************************************)
(* Proofs about Budget and AgentLoop, for any number of runs, tools,       *)
(* iterations and attempts, and any limits.                                *)
(*                                                                         *)
(* Budget: a run that is not active has its cost bound left to overspend,  *)
(* so the total stays within the threshold and the bounds of the idle runs *)
(* (Covered); OvershootBounded follows.                                    *)
(*                                                                         *)
(* Breaker: the bounded history of the circuit breaker is the end of the   *)
(* sequence of all calls that ran, as much of it as the window holds       *)
(* (Remembers), and the window holds MaxSame of them.                      *)
(*                                                                         *)
(* Conversation: replies stand at the even places, what follows them       *)
(* answers them, and a run that works on tool calls has the reply that     *)
(* asked for them at the end, its blocks split into those answered and     *)
(* those left (InTurn).                                                    *)
(***************************************************************************)
EXTENDS AgentLoop, FiniteSetTheorems, SequenceTheorems, TLAPS

Idle == Runs \ admitted

Covered == total <= Threshold + Cardinality(Idle) * MaxCost

BudgetInv == BudgetTypeOK /\ Covered

-----------------------------------------------------------------------------
(* Products of natural numbers, as far as the bound needs them. *)
LEMMA Products ==
    ASSUME NEW m \in Nat, NEW n \in Nat, NEW c \in Nat
    PROVE  /\ n * c \in Nat
           /\ (n + 1) * c = n * c + c
           /\ m <= n => m * c <= n * c
<1>1. n * c \in Nat /\ (n + 1) * c = n * c + c
    OBVIOUS
<1>2. ASSUME m <= n PROVE m * c <= n * c
    <2>1. PICK d \in Nat : n = m + d
        BY <1>2
    <2>2. (m + d) * c = m * c + d * c /\ d * c \in Nat /\ m * c \in Nat
        OBVIOUS
    <2>. QED BY <2>1, <2>2
<1>. QED BY <1>1, <1>2

(* The idle runs are finite in number and no more than all runs. *)
LEMMA IdleRuns ==
    ASSUME NEW A
    PROVE  /\ IsFiniteSet(Runs \ A)
           /\ Cardinality(Runs \ A) \in Nat
           /\ Cardinality(Runs) \in Nat
           /\ Cardinality(Runs \ A) <= Cardinality(Runs)
<1>1. Runs \ A \in SUBSET Runs /\ IsFiniteSet(Runs)
    BY BudgetAssumption
<1>. QED BY <1>1, FS_Subset, FS_CardinalityType

(* No run is admitted in the initial state. *)
LEMMA BudgetInvInit == BudgetInit => BudgetInv
<1>. SUFFICES ASSUME BudgetInit PROVE BudgetInv
    OBVIOUS
<1>1. Cardinality(Idle) * MaxCost \in Nat
    BY IdleRuns, Products, BudgetAssumption DEF Idle
<1>. QED BY <1>1, BudgetAssumption DEF BudgetInit, BudgetInv, BudgetTypeOK, Covered

(* A run becomes active only below the threshold, and gives its bound back,
   spent or not, when it ends. *)
LEMMA BudgetInvStep ==
    ASSUME BudgetInv, [BudgetNext]_budgetVars
    PROVE  BudgetInv'
<1>. USE BudgetAssumption DEF BudgetTypeOK
<1>. DEFINE n == Cardinality(Idle)
<1>1. n \in Nat /\ n' \in Nat /\ n * MaxCost \in Nat /\ n' * MaxCost \in Nat
    BY IdleRuns, Products DEF Idle
<1>2. ASSUME NEW r \in Runs, Preflight(r) PROVE BudgetInv'
    <2>1. CASE total' + Estimate <= Threshold
        <3>1. total' \in Nat
            BY <1>2 DEF Preflight, BudgetInv
        <3>2. total' <= Threshold
            <4>1. \A t \in Nat : t + Estimate <= Threshold => t <= Threshold
                BY BudgetAssumption
            <4>. QED BY <2>1, <3>1, <4>1, Zenon
        <3>3. admitted' \subseteq Runs
            BY <1>2 DEF Preflight, BudgetInv
        <3>. QED BY <1>1, <3>1, <3>2, <3>3 DEF BudgetInv, Covered
    <2>2. CASE ~(total' + Estimate <= Threshold)
        <3>1. n' = n
            BY <1>2, <2>2 DEF Preflight, Idle
        <3>. QED BY <1>1, <1>2, <2>2, <3>1 DEF Preflight, BudgetInv, Covered
    <2>. QED BY <2>1, <2>2
<1>3. ASSUME NEW r \in Runs, r \in admitted, admitted' = admitted \ {r}
      PROVE  n' = n + 1
    <2>1. Idle' = Idle \cup {r} /\ r \notin Idle
        BY <1>3 DEF Idle
    <2>. QED BY <2>1, IdleRuns, FS_AddElement DEF Idle
<1>4. (n + 1) * MaxCost = n * MaxCost + MaxCost
    BY <1>1, Products
<1>5. ASSUME NEW r \in Runs, Charge(r) PROVE BudgetInv'
    <2>1. n' * MaxCost = n * MaxCost + MaxCost
        BY <1>3, <1>4, <1>5 DEF Charge
    <2>. QED BY <1>1, <1>5, <2>1 DEF Charge, BudgetInv, Covered
<1>6. ASSUME NEW r \in Runs, Release(r) PROVE BudgetInv'
    <2>1. n' * MaxCost = n * MaxCost + MaxCost
        BY <1>3, <1>4, <1>6 DEF Release
    <2>. QED BY <1>1, <1>6, <2>1 DEF Release, BudgetInv, Covered
<1>7. CASE UNCHANGED budgetVars
    BY <1>7 DEF budgetVars, BudgetInv, Covered, Idle
<1>. QED BY <1>2, <1>5, <1>6, <1>7 DEF BudgetNext

(* Covered bounds the total by the cost of all runs. *)
LEMMA CoveredBounds == BudgetInv => OvershootBounded
<1>. SUFFICES ASSUME BudgetInv PROVE OvershootBounded
    OBVIOUS
<1>1. Cardinality(Idle) * MaxCost <= Cardinality(Runs) * MaxCost
    BY IdleRuns, Products, BudgetAssumption DEF Idle
<1>2. Cardinality(Idle) * MaxCost \in Nat /\ Cardinality(Runs) * MaxCost \in Nat
    BY IdleRuns, Products, BudgetAssumption DEF Idle
<1>. QED BY <1>1, <1>2, BudgetAssumption DEF BudgetInv, BudgetTypeOK, Covered, OvershootBounded

(* Every step of the loop and of the other runs is a step of the budget. *)
LEMMA BudgetOfNext == [Next]_vars => [BudgetNext]_budgetVars
<1>. SUFFICES ASSUME [Next]_vars PROVE [BudgetNext]_budgetVars
    OBVIOUS
<1>. USE AgentLoopAssumption DEF budgetVars, Fail, Finish, NextIteration, NextBlock, BudgetNext
<1>1. CASE Start BY <1>1 DEF Start
<1>2. CASE Unsendable BY <1>2 DEF Unsendable
<1>3. CASE Answer BY <1>3 DEF Answer
<1>4. CASE Continue BY <1>4 DEF Continue
<1>5. CASE UseTools BY <1>5 DEF UseTools
<1>6. CASE Transient BY <1>6 DEF Transient
<1>7. CASE Abort BY <1>7 DEF Abort
<1>8. CASE RunTool BY <1>8 DEF RunTool
<1>9. CASE BlockTool BY <1>9 DEF BlockTool
<1>10. CASE \E r \in Runs \ {Loop} : Other(r)
    BY <1>10 DEF Other
<1>11. CASE UNCHANGED vars
    BY <1>11 DEF vars
<1>. QED BY <1>1, <1>2, <1>3, <1>4, <1>5, <1>6, <1>7, <1>8, <1>9, <1>10, <1>11 DEF Next, LoopStep

(* client.py:222 and :358: whatever runs are active together, the daily total
   exceeds the threshold by no more than what these runs can cost. *)
THEOREM Overspending == Spec => []OvershootBounded
<1>1. Init => BudgetInv
    BY BudgetInvInit DEF Init
<1>2. BudgetInv /\ [Next]_vars => BudgetInv'
    BY BudgetInvStep, BudgetOfNext
<1>3. BudgetInv => OvershootBounded
    BY CoveredBounds
<1>. QED BY <1>1, <1>2, <1>3, PTL DEF Spec

-----------------------------------------------------------------------------
(* A run that works on tool calls has some left. *)
Busy == step = "tools" => blocks # <<>>

TypeInv == TypeOK /\ Busy /\ history # <<>>

(* A response asks for at least one tool. *)
LEMMA RequestsType == \A asked \in Requests : asked \in Seq(Keys) /\ asked # <<>>
<1>1. ASSUME NEW n \in 1..MaxBlocks, NEW asked \in [1..n -> Keys]
      PROVE  asked \in Seq(Keys) /\ asked # <<>>
    BY <1>1
<1>. QED BY <1>1 DEF Requests

(* The initial values have their types. *)
LEMMA TypeInit == Init => TypeInv
<1>. SUFFICES ASSUME Init PROVE TypeInv
    OBVIOUS
<1>1. history \in Seq(Message) /\ history # <<>>
    BY DEF Init, Message, Say, Kinds
<1>2. /\ blocks \in Seq(Keys) /\ results \in Seq(Keys)
      /\ calls \in Seq(Keys) /\ ran \in Seq(Keys)
      /\ Len(calls) <= Window
    BY AgentLoopAssumption DEF Init
<1>3. /\ iteration \in 1..MaxIterations /\ tries \in 1..MaxTries
      /\ chunks \in Nat /\ returned \in Nat
    BY AgentLoopAssumption DEF Init
<1>4. /\ step \in Steps /\ step # "tools" /\ outcome \in Outcomes
      /\ blocked \in SUBSET [key : Keys, after : Nat]
      /\ provider \in Providers
    BY DEF Init, Steps, Outcomes
<1>5. BudgetTypeOK
    BY DEF Init, BudgetInit, BudgetTypeOK
<1>. QED BY <1>1, <1>2, <1>3, <1>4, <1>5 DEF TypeInv, TypeOK, Busy

(* What Finish leaves. *)
LEMMA FinishType ==
    ASSUME NEW how \in Outcomes, Finish(how)
    PROVE  step' = "ended" /\ outcome' \in Outcomes
BY DEF Finish, Outcomes

(* The types of what NextIteration assigns. *)
LEMMA IterationType ==
    ASSUME TypeInv, NextIteration
    PROVE  /\ step' \in {"calling", "ended"}
           /\ iteration' \in 1..MaxIterations
           /\ tries' \in 1..MaxTries
           /\ outcome' \in Outcomes
<1>. USE DEF TypeInv, TypeOK
<1>1. CASE iteration < MaxIterations /\ iteration' = iteration + 1 /\ tries' = 1
           /\ step' = "calling" /\ UNCHANGED <<budgetVars, outcome>>
    BY <1>1, AgentLoopAssumption
<1>2. CASE Finish("exhausted") /\ UNCHANGED <<iteration, tries>>
    <2>1. "exhausted" \in Outcomes
        BY DEF Outcomes
    <2>. QED BY <1>2, <2>1, FinishType
<1>. QED BY <1>1, <1>2 DEF NextIteration

(* The types of what a step from one tool call to the next assigns. *)
LEMMA BlockType ==
    ASSUME TypeInv, step = "tools", NEW answers \in Seq(Keys), NextBlock(answers)
    PROVE  /\ step' \in {"calling", "tools", "ended"}
           /\ step' = "tools" => blocks' # <<>>
           /\ blocks' \in Seq(Keys) /\ results' \in Seq(Keys)
           /\ history' \in Seq(Message) /\ history' # <<>>
           /\ iteration' \in 1..MaxIterations
           /\ tries' \in 1..MaxTries
           /\ outcome' \in Outcomes
<1>0. results' \in Seq(Keys)
    BY DEF NextBlock
<1>1. blocks' \in Seq(Keys) /\ Len(blocks') = Len(blocks) - 1
    BY DEF NextBlock, TypeInv, TypeOK, Busy
<1>2. CASE /\ Len(blocks) > 1
           /\ UNCHANGED <<step, history, iteration, tries, budgetVars, outcome>>
    <2>1. blocks' # <<>>
        BY <1>1, <1>2
    <2>. QED BY <1>0, <1>1, <1>2, <2>1 DEF TypeInv, TypeOK
<1>3. CASE /\ Len(blocks) = 1
           /\ history' = Append(history, Say("results", answers))
           /\ NextIteration
    <2>2. Say("results", answers) \in Message
        BY DEF Say, Message, Kinds
    <2>3. history' \in Seq(Message) /\ history' # <<>>
        <3>1. history \in Seq(Message)
            BY DEF TypeInv, TypeOK
        <3>. QED BY <1>3, <2>2, <3>1
    <2>. QED BY <1>0, <1>1, <1>3, <2>3, IterationType
<1>. QED BY <1>2, <1>3 DEF NextBlock

(* The blocks answered so far, with the one at hand. *)
LEMMA AnsweredType == TypeInv /\ step = "tools" => Answered \in Seq(Keys)
BY DEF TypeInv, TypeOK, Busy, Answered

(* Every step keeps the types; those of the budget are BudgetInv's. *)
LEMMA TypeStep ==
    ASSUME TypeInv, BudgetTypeOK', [Next]_vars
    PROVE  TypeInv'
<1>. USE AgentLoopAssumption
<1>. DEFINE Turn == /\ step \in Steps
                    /\ step = "tools" => blocks # <<>>
                    /\ blocks \in Seq(Keys)
                    /\ results \in Seq(Keys)
                    /\ history \in Seq(Message)
                    /\ history # <<>>
            Counts == /\ provider \in Providers
                      /\ iteration \in 1..MaxIterations
                      /\ tries \in 1..MaxTries
            Ends == /\ outcome \in Outcomes
                    /\ chunks \in Nat
                    /\ returned \in Nat
            Memory == /\ calls \in Seq(Keys)
                      /\ Len(calls) <= Window
                      /\ ran \in Seq(Keys)
                      /\ blocked \in SUBSET [key : Keys, after : Nat]
<1>. DEFINE Rest == Turn /\ Counts /\ Ends /\ Memory
<1>. SUFFICES Rest'
    BY DEF TypeInv, TypeOK, Busy
<1>0. Rest
    BY DEF TypeInv, TypeOK, Busy
<1>1. CASE Start
    <2>1. Turn' /\ Counts'
        BY <1>0, <1>1 DEF Start, Steps, talkVars
    <2>2. Ends'
        BY <1>0, <1>1 DEF Start, Outcomes
    <2>3. Memory'
        BY <1>0, <1>1 DEF Start, breakerVars
    <2>. QED BY <2>1, <2>2, <2>3
<1>2. CASE Unsendable \/ Abort
    BY <1>0, <1>2 DEF Unsendable, Abort, Fail, Steps, Outcomes, talkVars, breakerVars
<1>3. CASE Answer
    <2>1. "text" \in Outcomes
        BY DEF Outcomes
    <2>2. step' = "ended" /\ outcome' \in Outcomes
        BY <1>0, <1>3, <2>1, FinishType DEF Answer
    <2>. QED BY <1>0, <1>3, <2>2 DEF Answer, Steps, talkVars, breakerVars
<1>4. CASE Continue
    <2>1. PICK cut \in {<<>>} \cup Requests :
              history' = history \o <<Say("cut", cut), Say("continue", <<>>)>>
        BY <1>4 DEF Continue
    <2>2. Say("cut", cut) \in Message /\ Say("continue", <<>>) \in Message
        <3>1. <<>> \in Seq(Keys)
            OBVIOUS
        <3>2. cut \in Seq(Keys)
            BY <3>1, RequestsType, Zenon
        <3>. QED BY <3>1, <3>2 DEF Say, Message, Kinds
    <2>3. history' \in Seq(Message) /\ history' # <<>>
        BY <1>0, <2>1, <2>2
    <2>4. /\ step' \in {"calling", "ended"} /\ iteration' \in 1..MaxIterations
          /\ tries' \in 1..MaxTries /\ outcome' \in Outcomes
        BY <1>4, IterationType DEF Continue
    <2>. QED BY <1>0, <1>4, <2>3, <2>4 DEF Continue, Steps, breakerVars
<1>5. CASE UseTools
    <2>1. PICK asked \in Requests : blocks' = asked /\ history' = Append(history, Say("reply", asked))
        BY <1>5 DEF UseTools
    <2>2. blocks' \in Seq(Keys) /\ blocks' # <<>> /\ Say("reply", asked) \in Message
        BY <2>1, RequestsType DEF Say, Message, Kinds
    <2>3. history' \in Seq(Message) /\ history' # <<>>
        BY <1>0, <2>1, <2>2
    <2>4. results' \in Seq(Keys)
        BY <1>5 DEF UseTools
    <2>. QED BY <1>0, <1>5, <2>2, <2>3, <2>4 DEF UseTools, Steps, breakerVars, answerVars
<1>6. CASE Transient
    BY <1>0, <1>6 DEF Transient, Fail, Steps, Outcomes, breakerVars
<1>7. CASE RunTool
    <2>1. Head(blocks) \in Keys
        BY <1>0, <1>7 DEF RunTool
    <2>2. calls' \in Seq(Keys) /\ Len(calls') <= Window
        BY <1>0, <1>7, <2>1 DEF RunTool, Remember
    <2>3. ran' \in Seq(Keys)
        BY <1>0, <1>7, <2>1 DEF RunTool
    <2>4. /\ step' \in {"calling", "tools", "ended"}
          /\ step' = "tools" => blocks' # <<>>
          /\ blocks' \in Seq(Keys) /\ results' \in Seq(Keys)
          /\ history' \in Seq(Message) /\ history' # <<>>
          /\ iteration' \in 1..MaxIterations
          /\ tries' \in 1..MaxTries
          /\ outcome' \in Outcomes
        BY <1>7, AnsweredType, BlockType DEF RunTool
    <2>. QED BY <1>0, <1>7, <2>2, <2>3, <2>4 DEF RunTool, Steps
<1>8. CASE BlockTool
    <2>1. Head(blocks) \in Keys
        BY <1>0, <1>8 DEF BlockTool
    <2>2. blocked' \in SUBSET [key : Keys, after : Nat]
        BY <1>0, <1>8, <2>1 DEF BlockTool
    <2>3. /\ step' \in {"calling", "tools", "ended"}
          /\ step' = "tools" => blocks' # <<>>
          /\ blocks' \in Seq(Keys) /\ results' \in Seq(Keys)
          /\ history' \in Seq(Message) /\ history' # <<>>
          /\ iteration' \in 1..MaxIterations
          /\ tries' \in 1..MaxTries
          /\ outcome' \in Outcomes
        BY <1>8, AnsweredType, BlockType DEF BlockTool
    <2>. QED BY <1>0, <1>8, <2>2, <2>3 DEF BlockTool, Steps
<1>9. CASE UNCHANGED loopVars
    BY <1>0, <1>9 DEF loopVars, talkVars, breakerVars, answerVars
<1>. HIDE DEF Rest
<1>. QED BY <1>1, <1>2, <1>3, <1>4, <1>5, <1>6, <1>7, <1>8, <1>9 DEF Next, LoopStep, Other, vars

-----------------------------------------------------------------------------
(* The breaker remembers the end of the sequence of all calls that ran: all of
   it, or as much as the window holds. *)
Remembers ==
    /\ Len(calls) <= Len(ran)
    /\ Len(calls) < Window => Len(calls) = Len(ran)
    /\ \A i \in 1..Len(calls) : calls[i] = ran[Len(ran) - Len(calls) + i]

BreakerInv == Remembers /\ NoRunaway /\ BlockedOnlyRepeats

(* Where the elements of a longer sequence are. *)
LEMMA Appended ==
    ASSUME NEW S, NEW s \in Seq(S), NEW e \in S
    PROVE  /\ Len(Append(s, e)) = Len(s) + 1
           /\ Append(s, e)[Len(s) + 1] = e
           /\ \A i \in 1..Len(s) : Append(s, e)[i] = s[i]
OBVIOUS

(* Where the elements of a sequence without its head are. *)
LEMMA Shortened ==
    ASSUME NEW S, NEW s \in Seq(S), s # <<>>
    PROVE  /\ Tail(s) \in Seq(S)
           /\ Len(Tail(s)) = Len(s) - 1
           /\ \A i \in 1..Len(s) - 1 : Tail(s)[i] = s[i + 1]
OBVIOUS

(* A call let through follows a call that differs, among the last MaxSame. *)
LEMMA TrippedIsExact ==
    ASSUME TypeOK, Remembers, NEW key \in Keys
    PROVE  Tripped(key) <=> /\ Len(ran) >= MaxSame
                            /\ \A i \in Len(ran) - MaxSame + 1..Len(ran) : ran[i] = key
<1>. USE AgentLoopAssumption DEF TypeOK, Remembers
<1>1. Len(calls) >= MaxSame <=> Len(ran) >= MaxSame
    OBVIOUS
<1>2. ASSUME Len(calls) >= MaxSame,
             \A i \in Len(calls) - MaxSame + 1..Len(calls) : calls[i] = key,
             NEW j \in Len(ran) - MaxSame + 1..Len(ran)
      PROVE  ran[j] = key
    <2>. DEFINE i == j - (Len(ran) - Len(calls))
    <2>1. i \in Len(calls) - MaxSame + 1..Len(calls) /\ i \in 1..Len(calls)
        BY <1>2
    <2>2. calls[i] = ran[Len(ran) - Len(calls) + i] /\ Len(ran) - Len(calls) + i = j
        BY <2>1
    <2>. QED BY <1>2, <2>1, <2>2
<1>3. ASSUME Len(calls) >= MaxSame,
             \A j \in Len(ran) - MaxSame + 1..Len(ran) : ran[j] = key,
             NEW i \in Len(calls) - MaxSame + 1..Len(calls)
      PROVE  calls[i] = key
    <2>1. i \in 1..Len(calls) /\ Len(ran) - Len(calls) + i \in Len(ran) - MaxSame + 1..Len(ran)
        BY <1>3
    <2>. QED BY <1>3, <2>1
<1>. QED BY <1>1, <1>2, <1>3 DEF Tripped

(* Nothing has run at first. *)
LEMMA BreakerInit == Init => BreakerInv
BY AgentLoopAssumption DEF Init, BreakerInv, Remembers, NoRunaway, BlockedOnlyRepeats

(* A call that runs extends both sequences. *)
LEMMA RunRemembers ==
    ASSUME TypeInv, Remembers, RunTool
    PROVE  Remembers'
<1>. USE AgentLoopAssumption DEF TypeInv, TypeOK, Busy, Remembers
<1>. DEFINE k == Head(blocks)
<1>1. k \in Keys /\ ran' = Append(ran, k) /\ calls' = Remember(k)
    BY DEF RunTool
<1>2. /\ Len(ran') = Len(ran) + 1 /\ ran'[Len(ran) + 1] = k
      /\ \A i \in 1..Len(ran) : ran'[i] = ran[i]
    BY <1>1
<1>3. CASE Len(calls) = Window
    <2>. DEFINE rest == Tail(calls)
    <2>1. /\ rest \in Seq(Keys) /\ Len(rest) = Window - 1
          /\ \A i \in 1..Window - 1 : rest[i] = calls[i + 1]
        <3>1. calls # <<>>
            BY <1>3
        <3>. QED BY <1>3, <3>1, Shortened
    <2>2. calls' = Append(rest, k)
        BY <1>1, <1>3 DEF Remember
    <2>. HIDE DEF rest
    <2>3. /\ Len(calls') = Window /\ calls'[Window] = k
          /\ \A i \in 1..Window - 1 : calls'[i] = rest[i]
        <3>1. /\ Len(calls') = Len(rest) + 1 /\ calls'[Len(rest) + 1] = k
              /\ \A i \in 1..Len(rest) : calls'[i] = rest[i]
            <4>1. rest \in Seq(Keys) /\ k \in Keys
                BY <1>1, <2>1
            <4>2. /\ Len(Append(rest, k)) = Len(rest) + 1
                  /\ Append(rest, k)[Len(rest) + 1] = k
                  /\ \A i \in 1..Len(rest) : Append(rest, k)[i] = rest[i]
                BY <4>1, Appended
            <4>. QED BY <2>2, <4>2
        <3>2. Len(rest) + 1 = Window /\ Len(rest) = Window - 1
            BY <2>1
        <3>. QED BY <3>1, <3>2
    <2>4. ASSUME NEW i \in 1..Window - 1 PROVE calls'[i] = ran'[Len(ran') - Window + i]
        <3>1. i + 1 \in 1..Len(calls) /\ Len(ran) - Window + (i + 1) \in 1..Len(ran)
            BY <1>3
        <3>2. calls[i + 1] = ran[Len(ran) - Window + (i + 1)]
            BY <1>3, <3>1
        <3>3. calls'[i] = calls[i + 1]
            BY <2>1, <2>3
        <3>4. Len(ran') - Window + i = Len(ran) - Window + (i + 1)
            BY <1>2
        <3>. QED BY <1>2, <3>1, <3>2, <3>3, <3>4
    <2>5. Len(ran') - Window + Window = Len(ran) + 1
        BY <1>2
    <2>6. \A i \in 1..Window : calls'[i] = ran'[Len(ran') - Window + i]
        <3>1. \A i \in 1..Window : i = Window \/ i \in 1..Window - 1
            OBVIOUS
        <3>. QED BY <1>2, <2>3, <2>4, <2>5, <3>1
    <2>. QED BY <1>2, <1>3, <2>3, <2>6
<1>4. CASE Len(calls) < Window
    <2>1. calls' = Append(calls, k) /\ Len(calls') = Len(calls) + 1
        <3>1. calls' = Append(calls, k)
            BY <1>1, <1>4 DEF Remember
        <3>. QED BY <1>1, <3>1
    <2>2. Len(calls) = Len(ran) /\ \A i \in 1..Len(calls) : calls[i] = ran[i]
        <3>1. Len(calls) = Len(ran) /\ Len(ran) \in Nat
            BY <1>4
        <3>2. ASSUME NEW i \in 1..Len(calls) PROVE calls[i] = ran[i]
            <4>1. calls[i] = ran[Len(ran) - Len(calls) + i] /\ i \in Int
                OBVIOUS
            <4>2. Len(ran) - Len(calls) + i = i
                BY <3>1, <4>1
            <4>. QED BY <4>1, <4>2
        <3>. QED BY <3>1, <3>2
    <2>3. /\ calls'[Len(calls) + 1] = k
          /\ \A i \in 1..Len(calls) : calls'[i] = calls[i]
        <3>1. calls \in Seq(Keys)
            BY DEF TypeOK
        <3>2. /\ Append(calls, k)[Len(calls) + 1] = k
              /\ \A i \in 1..Len(calls) : Append(calls, k)[i] = calls[i]
            BY <1>1, <3>1, Appended
        <3>. QED BY <2>1, <3>2
    <2>4. Len(calls') = Len(ran') /\ \A i \in 1..Len(calls') : calls'[i] = ran'[i]
        BY <1>2, <2>1, <2>2, <2>3
    <2>5. Len(ran') \in Nat /\ \A i \in 1..Len(ran') : Len(ran') - Len(ran') + i = i
        BY <1>2
    <2>6. \A i \in 1..Len(calls') : calls'[i] = ran'[Len(ran') - Len(calls') + i]
        BY <2>4, <2>5
    <2>. QED BY <2>4, <2>5, <2>6
<1>. QED BY <1>3, <1>4

(* A call runs only when one of the last MaxSame was another. *)
LEMMA RunIsNoRunaway ==
    ASSUME TypeInv, BreakerInv, RunTool
    PROVE  NoRunaway'
<1>. USE AgentLoopAssumption DEF TypeInv, TypeOK, Busy
<1>. DEFINE k == Head(blocks)
<1>1. k \in Keys /\ ran' = Append(ran, k) /\ Len(ran') = Len(ran) + 1 /\ ~Tripped(k)
    BY DEF RunTool
<1>2. \A j \in 1..Len(ran) : ran'[j] = ran[j]
    BY <1>1
<1>3. ASSUME NEW i \in 1..Len(ran') - MaxSame
      PROVE  \E j \in i + 1..i + MaxSame : ran'[j] # ran'[i]
    <2>1. CASE i <= Len(ran) - MaxSame
        <3>1. i \in 1..Len(ran) - MaxSame
            BY <2>1
        <3>2. PICK j \in i + 1..i + MaxSame : ran[j] # ran[i]
            BY <3>1 DEF BreakerInv, NoRunaway
        <3>3. i \in 1..Len(ran) /\ j \in 1..Len(ran)
            BY <3>1
        <3>. QED BY <1>2, <3>2, <3>3
    <2>2. CASE i = Len(ran) + 1 - MaxSame
        <3>1. PICK j \in i..Len(ran) : ran[j] # k
            BY <1>1, <2>2, TrippedIsExact DEF BreakerInv
        <3>2. ran'[Len(ran) + 1] = k /\ ran'[j] # k
            BY <1>1, <1>2, <2>2, <3>1
        <3>3. CASE ran'[i] = k
            <4>1. j \in i + 1..i + MaxSame
                BY <2>2, <3>1, <3>2, <3>3
            <4>. QED BY <3>2, <3>3, <4>1
        <3>4. CASE ran'[i] # k
            <4>1. Len(ran) + 1 \in i + 1..i + MaxSame
                BY <2>2
            <4>. QED BY <3>2, <3>4, <4>1
        <3>. QED BY <3>3, <3>4
    <2>3. i <= Len(ran) - MaxSame \/ i = Len(ran) + 1 - MaxSame
        BY <1>1
    <2>. QED BY <2>1, <2>2, <2>3
<1>. QED BY <1>3 DEF NoRunaway

(* What was refused stays refused for the calls before it; a call is refused
   when the last MaxSame are the same. *)
LEMMA BreakerStep ==
    ASSUME TypeInv, BreakerInv, [Next]_vars
    PROVE  BreakerInv'
<1>1. CASE RunTool
    <2>1. BlockedOnlyRepeats'
        <3>1. /\ Head(blocks) \in Keys /\ ran' = Append(ran, Head(blocks)) /\ blocked' = blocked
              /\ ran \in Seq(Keys)
            BY <1>1 DEF RunTool, TypeInv, TypeOK, Busy
        <3>2. Len(ran') = Len(ran) + 1 /\ \A j \in 1..Len(ran) : ran'[j] = ran[j]
            BY <3>1
        <3>. QED BY <3>1, <3>2, AgentLoopAssumption
                 DEF BreakerInv, BlockedOnlyRepeats, TypeInv, TypeOK
    <2>. QED BY <1>1, <2>1, RunRemembers, RunIsNoRunaway DEF BreakerInv
<1>2. CASE BlockTool
    <2>1. Head(blocks) \in Keys /\ UNCHANGED <<calls, ran>>
        BY <1>2 DEF BlockTool, TypeInv, TypeOK, Busy
    <2>2. /\ Len(ran) >= MaxSame /\ Len(ran) \in Nat
          /\ \A i \in Len(ran) - MaxSame + 1..Len(ran) : ran[i] = Head(blocks)
        BY <1>2, <2>1, TrippedIsExact DEF BlockTool, BreakerInv, TypeInv, TypeOK
    <2>3. BlockedOnlyRepeats'
        BY <1>2, <2>1, <2>2, AgentLoopAssumption DEF BlockTool, BreakerInv, BlockedOnlyRepeats
    <2>. QED BY <2>1, <2>3 DEF BreakerInv, Remembers, NoRunaway
<1>3. CASE UNCHANGED breakerVars
    BY <1>3 DEF breakerVars, BreakerInv, Remembers, NoRunaway, BlockedOnlyRepeats
<1>4. [Next]_vars => RunTool \/ BlockTool \/ UNCHANGED breakerVars
    BY DEF Next, LoopStep, Other, vars, loopVars, Start, Unsendable, Answer, Continue, UseTools,
           Transient, Abort
<1>. QED BY <1>1, <1>2, <1>3, <1>4

-----------------------------------------------------------------------------
(* In a conversation replies stand at the even places, and what follows a
   reply answers it. *)
Talk(h) ==
    /\ h # <<>>
    /\ \A i \in 1..Len(h) : h[i].kind \in FromModel <=> i % 2 = 0
    /\ \A i \in 1..Len(h) - 1 : Follows(h[i], h[i + 1])

InTurn ==
    /\ Talk(history)
    /\ step \in {"new", "calling"} => Last(history).kind \notin FromModel
    /\ step = "tools" => /\ Last(history).kind = "reply"
                         /\ Last(history).tools = results \o blocks

(* A message may follow one of the other side that it answers. *)
LEMMA TalkGrows ==
    ASSUME NEW h \in Seq(Message), Talk(h), NEW m \in Message,
           m.kind \in FromModel <=> h[Len(h)].kind \notin FromModel,
           Follows(h[Len(h)], m)
    PROVE  Talk(Append(h, m))
<1>. DEFINE g == Append(h, m)
<1>1. Len(h) \in Nat \ {0} /\ Len(g) = Len(h) + 1 /\ g[Len(h) + 1] = m /\ \A i \in 1..Len(h) : g[i] = h[i]
    BY Appended DEF Talk
<1>2. (Len(h) + 1) % 2 = 0 <=> Len(h) % 2 # 0
    BY <1>1
<1>3. h[Len(h)].kind \in FromModel <=> Len(h) % 2 = 0
    BY <1>1 DEF Talk
<1>. HIDE DEF g
<1>4. ASSUME NEW i \in 1..Len(g)
      PROVE  g[i].kind \in FromModel <=> i % 2 = 0
    <2>1. CASE i = Len(h) + 1
        BY <1>1, <1>2, <1>3, <2>1
    <2>2. CASE i \in 1..Len(h)
        BY <1>1, <2>2 DEF Talk
    <2>. QED BY <1>1, <2>1, <2>2
<1>5. ASSUME NEW i \in 1..Len(g) - 1
      PROVE  Follows(g[i], g[i + 1])
    <2>1. CASE i = Len(h)
        BY <1>1, <2>1
    <2>2. CASE i \in 1..Len(h) - 1
        <3>1. g[i] = h[i] /\ g[i + 1] = h[i + 1]
            BY <1>1, <2>2
        <3>. QED BY <2>2, <3>1 DEF Talk
    <2>. QED BY <1>1, <2>1, <2>2
<1>6. g # <<>>
    BY <1>1
<1>. QED BY <1>4, <1>5, <1>6 DEF Talk, g

(* The prompt alone is a conversation. *)
LEMMA TalkInit == Init => InTurn
BY DEF Init, InTurn, Talk, Say, Last, FromModel

(* A block moves from those left to those answered. *)
LEMMA BlockMoves ==
    ASSUME NEW S, NEW r \in Seq(S), NEW b \in Seq(S), b # <<>>
    PROVE  /\ Append(r, Head(b)) \o Tail(b) = r \o b
           /\ Len(b) = 1 => Append(r, Head(b)) = r \o b
<1>. DEFINE h == <<Head(b)>>
<1>1. h \in Seq(S) /\ Tail(b) \in Seq(S) /\ Head(b) \in S
    OBVIOUS
<1>2. Append(r, Head(b)) = r \o h
    BY <1>1, AppendIsConcat
<1>3. h \o Tail(b) = b
    OBVIOUS
<1>4. (r \o h) \o Tail(b) = r \o (h \o Tail(b))
    BY <1>1, ConcatAssociative
<1>5. Len(b) = 1 => h = b
    OBVIOUS
<1>. HIDE DEF h
<1>. QED BY <1>2, <1>3, <1>4, <1>5

(* The results of the last block are those of the reply before them. *)
LEMMA TalkAfterTools ==
    ASSUME TypeInv, InTurn, step = "tools", NextBlock(Answered)
    PROVE  InTurn'
<1>. DEFINE last == history[Len(history)]
<1>1. /\ results \in Seq(Keys) /\ blocks \in Seq(Keys) /\ blocks # <<>>
      /\ history \in Seq(Message) /\ history # <<>> /\ last \in Message
      /\ last.kind = "reply" /\ Talk(history)
      /\ last.tools = results \o blocks
    BY DEF TypeInv, TypeOK, Busy, InTurn, Last
<1>2. /\ Answered \in Seq(Keys) /\ Answered \o Tail(blocks) = results \o blocks
      /\ Len(blocks) = 1 => Answered = results \o blocks
    BY <1>1, BlockMoves, AnsweredType DEF Answered
<1>3. CASE Len(blocks) > 1 /\ UNCHANGED <<step, history>>
    <2>1. results' \o blocks' = results \o blocks
        BY <1>2 DEF NextBlock
    <2>. QED BY <1>1, <1>3, <2>1 DEF InTurn, Last
<1>4. CASE /\ Len(blocks) = 1
           /\ history' = Append(history, Say("results", Answered))
           /\ NextIteration
    <2>. DEFINE m == Say("results", Answered)
    <2>1. m \in Message /\ m.kind = "results"
        BY <1>2 DEF Say, Message, Kinds
    <2>2. m = Say("results", last.tools)
        BY <1>1, <1>2, <1>4
    <2>3. Follows(last, m)
        BY <1>1, <2>2 DEF Follows
    <2>. HIDE DEF m
    <2>4. Talk(Append(history, m))
        BY <1>1, <2>1, <2>3, TalkGrows DEF FromModel
    <2>5. history' = Append(history, m) /\ history'[Len(history')] = m
        BY <1>1, <1>4, <2>1 DEF m
    <2>6. step' \in {"calling", "ended"}
        BY <1>4, IterationType
    <2>. QED BY <2>1, <2>4, <2>5, <2>6 DEF InTurn, Last, FromModel
<1>. QED BY <1>3, <1>4 DEF NextBlock

(* The user and the model take turns. *)
LEMMA TalkStep ==
    ASSUME TypeInv, InTurn, [Next]_vars
    PROVE  InTurn'
<1>1. CASE RunTool \/ BlockTool
    BY <1>1, TalkAfterTools DEF RunTool, BlockTool
<1>2. history \in Seq(Message) /\ history # <<>> /\ Talk(history) /\ history[Len(history)] \in Message
    BY DEF TypeInv, TypeOK, InTurn
<1>3. step = "calling" => history[Len(history)].kind \notin FromModel
    BY DEF InTurn, Last
<1>4. CASE Continue
    <2>1. PICK cut \in {<<>>} \cup Requests :
              history' = history \o <<Say("cut", cut), Say("continue", <<>>)>>
        BY <1>4 DEF Continue
    <2>. DEFINE a == Say("cut", cut)
                b == Say("continue", <<>>)
                h == Append(history, a)
    <2>2. a \in Message /\ a.kind = "cut" /\ b \in Message /\ b.kind = "continue"
        <3>1. <<>> \in Seq(Keys)
            OBVIOUS
        <3>2. cut \in Seq(Keys)
            BY <3>1, RequestsType, Zenon
        <3>. QED BY <3>1, <3>2 DEF Say, Message, Kinds
    <2>. HIDE DEF a, b
    <2>3. Talk(h)
        BY <1>2, <1>3, <1>4, <2>2, TalkGrows DEF Continue, Follows, FromModel
    <2>4. h \in Seq(Message) /\ h[Len(h)] = a
        BY <1>2, <2>2
    <2>5. Talk(Append(h, b))
        <3>. HIDE DEF h
        <3>. QED BY <2>2, <2>3, <2>4, TalkGrows DEF Follows, FromModel
    <2>6. history' = Append(h, b) /\ history'[Len(history')] = b
        BY <1>2, <2>1, <2>2 DEF a, b
    <2>7. step' \in {"calling", "ended"}
        BY <1>4, IterationType DEF Continue
    <2>. QED BY <2>2, <2>5, <2>6, <2>7 DEF InTurn, Last, FromModel
<1>5. CASE UseTools
    <2>1. PICK asked \in Requests :
              blocks' = asked /\ history' = Append(history, Say("reply", asked))
        BY <1>5 DEF UseTools
    <2>. DEFINE m == Say("reply", asked)
    <2>2. m \in Message /\ m.kind = "reply" /\ m.tools = asked
        BY RequestsType DEF Say, Message, Kinds
    <2>5. results' \o blocks' = asked
        BY <1>5, <2>1, RequestsType DEF UseTools
    <2>. HIDE DEF m
    <2>3. history' = Append(history, m)
        BY <2>1 DEF m
    <2>4. Talk(history') /\ history'[Len(history')] = m
        BY <1>2, <1>3, <1>5, <2>2, <2>3, TalkGrows DEF UseTools, Follows, FromModel
    <2>. QED BY <1>5, <2>2, <2>4, <2>5 DEF UseTools, InTurn, Last
<1>6. CASE Start
    <2>1. history' = history /\ step = "new" /\ step' # "tools" /\ Last(history).kind \notin FromModel
        BY <1>6 DEF Start, talkVars, InTurn
    <2>. QED BY <2>1 DEF InTurn, Last
<1>7. CASE Unsendable \/ Answer \/ Abort
    <2>1. history' = history /\ step' = "ended"
        BY <1>7 DEF Unsendable, Answer, Abort, Fail, Finish, talkVars
    <2>. QED BY <2>1 DEF InTurn
<1>8. CASE Transient
    <2>1. /\ UNCHANGED <<history, results, blocks>>
          /\ step' = step \/ step' = "ended"
        BY <1>8 DEF Transient, Fail
    <2>. QED BY <2>1 DEF InTurn
<1>9. CASE UNCHANGED loopVars
    BY <1>9 DEF loopVars, talkVars, InTurn
<1>. QED BY <1>1, <1>4, <1>5, <1>6, <1>7, <1>8, <1>9 DEF Next, LoopStep, Other, vars

-----------------------------------------------------------------------------
IInv == BudgetInv /\ TypeInv /\ BreakerInv /\ InTurn

(* The inductive invariant of the agent loop, client.py:196-383: the budget
   covers the idle runs, the breaker remembers the end of what ran, and the
   user and the model take turns. *)
THEOREM Invariance == Spec => []IInv
<1>1. Init => IInv
    BY BudgetInvInit, TypeInit, BreakerInit, TalkInit DEF Init, IInv
<1>2. IInv /\ [Next]_vars => IInv'
    <2>. SUFFICES ASSUME IInv, [Next]_vars PROVE IInv'
        OBVIOUS
    <2>1. BudgetInv'
        BY BudgetInvStep, BudgetOfNext DEF IInv
    <2>2. TypeInv'
        BY <2>1, TypeStep DEF IInv, BudgetInv
    <2>. QED BY <2>1, <2>2, BreakerStep, TalkStep DEF IInv
<1>. QED BY <1>1, <1>2, PTL DEF Spec

(* TypeOK, with the window of the breaker, client.py:61-77. *)
THEOREM TypeCorrect == Spec => []TypeOK
BY Invariance, PTL DEF IInv, TypeInv

(* client.py:64 and :73: however the model goes about it, at most MaxSame
   identical calls in a row run. *)
THEOREM RepeatsAreBounded == Spec => []NoRunaway
BY Invariance, PTL DEF IInv, BreakerInv

(* client.py:73: only a call that repeats the last MaxSame is refused. *)
THEOREM RefusalsAreRepeats == Spec => []BlockedOnlyRepeats
BY Invariance, PTL DEF IInv, BreakerInv

(* client.py:304-343: the service gets a conversation in which every tool block
   of a reply with stop reason tool_use is answered, in order. *)
THEOREM ConversationsAreAnswered == Spec => []ConversationAnswered
<1>1. IInv => ConversationAnswered
    BY DEF IInv, InTurn, Talk, ConversationAnswered
<1>. QED BY <1>1, Invariance, PTL

=============================================================================
