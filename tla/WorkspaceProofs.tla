-------------------------- MODULE WorkspaceProofs --------------------------
(***************************************************************************)
(* Proofs about Workspace, for any number of agents, files and edits.      *)
(*                                                                         *)
(* An edit is at a place: 0 is the working tree, i the i-th stash of the   *)
(* stack.  A point moves what the tree holds, and every place of the stack, *)
(* up by one; a pop moves them down.  Both are one to one because a point  *)
(* leaves the tree clean and a pop is refused where it would overwrite.    *)
(* One that is cut short leaves the edits of some files in both.           *)
(***************************************************************************)
EXTENDS Workspace, FiniteSetTheorems, SequenceTheorems, WellFoundedInduction, TLAPS

Point(last) == [by : Agents, attempt : 1..MaxAttempts, id : 0..last, hash : BOOLEAN, made : Stash]

(* The type invariant with what it leaves open: the stack and the log are *)
(* sequences, no stash holds an edit that was not made, and where the     *)
(* attempts are counted.                                                  *)
TypeInv ==
    /\ TypeOK
    /\ decision = [a \in Agents |-> decision[a]]
    /\ stashes \in Seq(Stash \ {<<>>})
    /\ \A i \in 1..Len(stashes) : \A f \in DOMAIN stashes[i] : stashes[i][f] \in 1..edits
    /\ log \in Seq(Point(clock))
    /\ \A a \in Agents :
          /\ agent[a].at \in {"idle", "routed"} => agent[a].attempt < MaxAttempts
          /\ agent[a].at \in {"point", "pushed", "logging", "working", "waiting"} => agent[a].attempt > 0

Kept(n) ==
    IF n \in copied THEN n \in discarded \/ Places(n) # {}
    ELSE IF n \in discarded THEN Places(n) = {} ELSE \E p : Places(n) = {p}

KeptInv == \A n \in 1..edits : Kept(n)

-----------------------------------------------------------------------------
(* What git does to the tree and the stack. *)

(* The empty stash is one. *)
LEMMA EmptyStash == <<>> \in Stash
<1>1. <<>> \in [{} -> 1..MaxEdits]
    BY EmptySeq, LenProperties
<1>. QED BY <1>1 DEF Stash

(* The edits of the tree make a stash, empty only when there are none. *)
LEMMA TakenIsStash ==
    ASSUME TypeInv
    PROVE  Taken \in Stash /\ (Dirty # {} => Taken # <<>>)
<1>. DEFINE taken == [f \in Dirty |-> tree[f]]
<1>0. Taken = taken
    BY DEF Taken
<1>1. Dirty \subseteq Files /\ \A f \in Dirty : tree[f] \in 1..MaxEdits
    BY WorkspaceAssumption DEF TypeInv, TypeOK, Dirty
<1>2. taken \in [Dirty -> 1..MaxEdits]
    BY <1>1
<1>3. taken \in Stash
    BY <1>1, <1>2 DEF Stash
<1>4. ASSUME Dirty # {} PROVE taken # <<>>
    <2>1. DOMAIN taken = Dirty
        OBVIOUS
    <2>2. DOMAIN <<>> = {}
        OBVIOUS
    <2>. QED BY <1>4, <2>1, <2>2
<1>. QED BY <1>0, <1>3, <1>4

(* A stash on top moves the others down by one. *)
LEMMA OnTop ==
    ASSUME NEW S, NEW s \in S, NEW t \in Seq(S)
    PROVE  /\ <<s>> \o t \in Seq(S)
           /\ Len(<<s>> \o t) = Len(t) + 1
           /\ (<<s>> \o t)[1] = s
           /\ \A i \in 1..Len(t) : (<<s>> \o t)[i + 1] = t[i]
<1>1. <<s>> \in Seq(S) /\ Len(<<s>>) = 1 /\ <<s>>[1] = s
    OBVIOUS
<1>2. Len(t) \in Nat
    BY LenProperties
<1>. QED BY <1>1, <1>2, ConcatProperties

(* A longer log has the same lines and one more. *)
LEMMA Extended ==
    ASSUME NEW S, NEW t \in Seq(S), NEW x
    PROVE  /\ \A i \in DOMAIN t : i \in DOMAIN Append(t, x) /\ Append(t, x)[i] = t[i]
           /\ Len(t) + 1 \in DOMAIN Append(t, x) /\ Append(t, x)[Len(t) + 1] = x
<1>1. t \in Seq(S \cup {x}) /\ x \in S \cup {x}
    BY SeqMonotonic
<1>2. /\ Len(t) \in Nat /\ DOMAIN t = 1..Len(t)
      /\ Append(t, x) \in Seq(S \cup {x}) /\ Len(Append(t, x)) = Len(t) + 1
      /\ \A i \in 1..Len(t) : Append(t, x)[i] = t[i]
      /\ Append(t, x)[Len(t) + 1] = x
    BY <1>1, AppendProperties, LenProperties
<1>3. DOMAIN Append(t, x) = 1..Len(t) + 1
    BY <1>2, LenProperties
<1>. QED BY <1>2, <1>3

(* Without the newest the others move up. *)
LEMMA OffTop ==
    ASSUME NEW S, NEW t \in Seq(S), t # <<>>
    PROVE  /\ Tail(t) \in Seq(S)
           /\ Len(Tail(t)) = Len(t) - 1
           /\ Head(t) = t[1] /\ Head(t) \in S
           /\ \A i \in 1..Len(t) - 1 : Tail(t)[i] = t[i + 1]
           /\ Len(t) \in Nat \ {0}
<1>1. Len(t) \in Nat \ {0}
    BY EmptySeq
<1>. QED BY <1>1, HeadTailProperties, ElementOfSeq

(* A set of lines of the log has a first one. *)
LEMMA LeastLine ==
    ASSUME NEW n \in Nat, NEW lines \in SUBSET (1..n), lines # {}
    PROVE  Min(lines) \in lines
<1>1. PICK m \in lines : \A i \in lines : m <= i
    <2>. DEFINE R == OpToRel(<, Nat)
    <2>1. lines \subseteq Nat
        OBVIOUS
    <2>2. PICK m \in lines : \A i \in lines : ~(<<i, m>> \in R)
        <3>. HIDE DEF R
        <3>. QED BY <2>1, NatLessThanWellFounded, WFMin DEF R
    <2>3. ASSUME NEW i \in lines PROVE m <= i
        <3>1. i \in Nat /\ m \in Nat
            BY <2>1
        <3>2. i < m => <<i, m>> \in R
            BY <3>1 DEF OpToRel
        <3>3. ~(i < m)
            <4>. HIDE DEF R
            <4>. QED BY <2>2, <3>2
        <3>. QED BY <3>1, <3>3
    <2>. QED BY <2>3
<1>. QED BY <1>1 DEF Min

-----------------------------------------------------------------------------
(* The type invariant. *)

LEMMA InitTypes == Init => TypeInv
<1> SUFFICES ASSUME Init PROVE TypeInv
    OBVIOUS
<1>1. /\ agent \in [Agents -> [at : States, attempt : 0..MaxAttempts, id : 0..clock,
                               hash : BOOLEAN, made : Stash]]
      /\ \A a \in Agents : agent[a].at = "idle" /\ agent[a].attempt = 0 /\ decision[a] = NoRoute
    BY EmptyStash, WorkspaceAssumption DEF Init, Idle, States
<1>2. stashes = <<>> /\ log = <<>> /\ Len(stashes) = 0 /\ DOMAIN stashes = {} /\ DOMAIN log = {} /\ Len(log) = 0
    BY DEF Init
<1>3. stashes \in Seq(Stash \ {<<>>}) /\ log \in Seq(Point(clock))
    BY <1>2, EmptySeq
<1>4. /\ c \in Environments /\ clock \in 0..MaxClock
      /\ tree \in [Files -> 0..edits] /\ edits \in 0..MaxEdits /\ discarded \subseteq 1..edits /\ copied \subseteq 1..edits
      /\ orphans \subseteq Works \ {"read"}
      /\ command \in [Agents -> {"none"} \cup Works]
      /\ answered \in 0..0
    BY WorkspaceAssumption DEF Init
<1>5. decision = [a \in Agents |-> decision[a]]
    BY DEF Init
<1>6. \A a \in Agents : agent[a].attempt < MaxAttempts
    BY <1>1, WorkspaceAssumption
<1>. QED BY <1>1, <1>2, <1>3, <1>4, <1>5, <1>6 DEF TypeInv, TypeOK

(* The type invariant says of agents and decisions. *)
AgentInv(a) ==
    /\ agent[a].at \in {"idle", "ended"} <=> decision[a] = NoRoute
    /\ agent[a].at \in {"idle", "routed"} => agent[a].attempt < MaxAttempts
    /\ agent[a].at \in {"point", "pushed", "logging", "working", "waiting"} => agent[a].attempt > 0

AgentsInv ==
    /\ agent \in [Agents -> [at : States, attempt : 0..MaxAttempts, id : 0..clock,
                             hash : BOOLEAN, made : Stash]]
    /\ decision = [a \in Agents |-> decision[a]]
    /\ command \in [Agents -> {"none"} \cup Works]
    /\ orphans \subseteq Works \ {"read"}
    /\ \A a \in Agents : AgentInv(a)

GitInv ==
    /\ tree \in [Files -> 0..edits]
    /\ stashes \in Seq(Stash \ {<<>>})
    /\ \A i \in 1..Len(stashes) : \A f \in DOMAIN stashes[i] : stashes[i][f] \in 1..edits
    /\ edits \in 0..MaxEdits
    /\ discarded \subseteq 1..edits /\ copied \subseteq 1..edits

LogInv ==
    /\ c \in Environments
    /\ clock \in 0..MaxClock
    /\ log \in Seq(Point(clock))
    /\ answered \in 0..Len(log)

LEMMA TypeParts == TypeInv <=> AgentsInv /\ GitInv /\ LogInv
<1>1. ASSUME stashes \in Seq(Stash \ {<<>>})
      PROVE  \A i \in DOMAIN stashes : stashes[i] \in Stash \ {<<>>}
    BY <1>1, LenProperties, ElementOfSeq
<1>2. ASSUME log \in Seq(Point(clock))
      PROVE  \A i \in DOMAIN log : log[i] \in Point(clock)
    BY <1>2, LenProperties, ElementOfSeq
<1>3. \A a \in Agents : AgentInv(a) <=>
          /\ agent[a].at \in {"idle", "ended"} <=> decision[a] = NoRoute
          /\ agent[a].at \in {"idle", "routed"} => agent[a].attempt < MaxAttempts
          /\ agent[a].at \in {"point", "pushed", "logging", "working", "waiting"} => agent[a].attempt > 0
    BY DEF AgentInv
<1>4. ASSUME AgentsInv, GitInv, LogInv PROVE TypeInv
    <2>1. TypeOK
        BY <1>1, <1>2, <1>3, <1>4 DEF TypeOK, AgentsInv, GitInv, LogInv, Point
    <2>. QED BY <1>3, <1>4, <2>1 DEF TypeInv, AgentsInv, GitInv, LogInv
<1>5. ASSUME TypeInv PROVE AgentsInv /\ GitInv /\ LogInv
    BY <1>3, <1>5 DEF TypeInv, TypeOK, AgentsInv, GitInv, LogInv
<1>. QED BY <1>4, <1>5

(* A pop keeps the types, cut short or not. *)
LEMMA PoppedTypes ==
    ASSUME GitInv, Popped
    PROVE  GitInv'
<1>1. CASE UNCHANGED <<git, history>>
    BY <1>1 DEF git, history, GitInv
<1>2. ASSUME stashes # <<>>, PopEnds \/ \E files \in SUBSET DOMAIN Head(stashes) : PopCut(files)
      PROVE  GitInv'
    <2>1. /\ Tail(stashes) \in Seq(Stash \ {<<>>})
          /\ Len(Tail(stashes)) = Len(stashes) - 1 /\ Len(stashes) \in Nat \ {0}
          /\ Head(stashes) = stashes[1]
          /\ \A i \in 1..Len(stashes) - 1 : Tail(stashes)[i] = stashes[i + 1]
        BY <1>2, OffTop DEF GitInv
    <2>2. \A f \in DOMAIN Head(stashes) : Head(stashes)[f] \in 1..edits
        BY <2>1 DEF GitInv
    <2>3. \A files \in SUBSET DOMAIN Head(stashes) : Restored(Head(stashes), files) \in [Files -> 0..edits]
        BY <2>2 DEF Restored, GitInv
    <2>4. CASE PopEnds
        <3>1. /\ tree' = Restored(Head(stashes), DOMAIN Head(stashes)) /\ stashes' = Tail(stashes)
              /\ edits' = edits /\ discarded' = discarded /\ copied' = copied
            BY <2>4 DEF PopEnds, history
        <3>2. ASSUME NEW i \in 1..Len(stashes'), NEW f \in DOMAIN stashes'[i]
              PROVE  stashes'[i][f] \in 1..edits'
            <4>1. i + 1 \in 1..Len(stashes) /\ stashes'[i] = stashes[i + 1]
                BY <2>1, <3>1
            <4>. QED BY <3>1, <4>1 DEF GitInv
        <3>. QED BY <2>1, <2>3, <3>1, <3>2 DEF GitInv
    <2>5. ASSUME NEW files \in SUBSET DOMAIN Head(stashes), PopCut(files) PROVE GitInv'
        <3>1. /\ tree' = Restored(Head(stashes), files) /\ stashes' = stashes
              /\ edits' = edits /\ discarded' = discarded
              /\ copied' = copied \cup {Head(stashes)[f] : f \in files}
            BY <2>5 DEF PopCut
        <3>2. copied' \subseteq 1..edits'
            BY <2>2, <3>1 DEF GitInv
        <3>. QED BY <2>3, <3>1, <3>2 DEF GitInv
    <2>. QED BY <1>2, <2>4, <2>5
<1>. QED BY <1>1, <1>2 DEF Popped

(* An edit keeps the types. *)
LEMMA EditedTypes ==
    ASSUME GitInv, NEW f \in Files, Edited(f)
    PROVE  GitInv'
<1>1. /\ edits < MaxEdits /\ edits' = edits + 1 /\ tree' = [tree EXCEPT ![f] = edits + 1]
      /\ discarded' = discarded \cup ({tree[f]} \ {0}) /\ stashes' = stashes /\ copied' = copied
    BY DEF Edited
<1>2. edits' \in 0..MaxEdits /\ 0..edits \subseteq 0..edits' /\ 1..edits \subseteq 1..edits'
    BY <1>1, WorkspaceAssumption DEF GitInv
<1>3. tree' \in [Files -> 0..edits'] /\ discarded' \subseteq 1..edits'
    <2>1. tree[f] \in 0..edits /\ edits + 1 \in 0..edits'
        BY <1>1, <1>2 DEF GitInv
    <2>2. {tree[f]} \ {0} \subseteq 1..edits
        BY <2>1
    <2>3. tree' \in [Files -> 0..edits']
        BY <1>1, <1>2, <2>1 DEF GitInv
    <2>. QED BY <1>1, <1>2, <2>2, <2>3 DEF GitInv
<1>. QED BY <1>1, <1>2, <1>3 DEF GitInv

(* A point keeps the types, cut short or not. *)
LEMMA StashedTypes ==
    ASSUME TypeInv, NEW reset \in SUBSET Dirty, Stashed(reset)
    PROVE  GitInv'
<1>1. GitInv
    BY TypeParts
<1>2. /\ stashes' = IF Dirty = {} THEN stashes ELSE <<Taken>> \o stashes
      /\ tree' = [f \in Files |-> IF f \in reset THEN 0 ELSE tree[f]]
      /\ copied' = copied \cup {tree[f] : f \in Dirty \ reset}
      /\ edits' = edits /\ discarded' = discarded
    BY DEF Stashed
<1>3. tree' \in [Files -> 0..edits'] /\ copied' \subseteq 1..edits'
    <2>1. \A f \in Dirty : tree[f] \in 1..edits
        BY <1>1 DEF Dirty, GitInv
    <2>2. tree' \in [Files -> 0..edits']
        BY <1>1, <1>2, WorkspaceAssumption DEF GitInv
    <2>. QED BY <1>1, <1>2, <2>1, <2>2 DEF GitInv
<1>4. CASE Dirty = {}
    BY <1>1, <1>2, <1>3, <1>4 DEF GitInv
<1>5. CASE Dirty # {}
    <2>1. Taken \in Stash \ {<<>>}
        BY <1>5, TakenIsStash
    <2>2. /\ stashes' \in Seq(Stash \ {<<>>})
          /\ Len(stashes') = Len(stashes) + 1 /\ stashes'[1] = Taken
          /\ \A i \in 1..Len(stashes) : stashes'[i + 1] = stashes[i]
        <3>1. stashes \in Seq(Stash \ {<<>>}) /\ stashes' = <<Taken>> \o stashes
            BY <1>1, <1>2, <1>5 DEF GitInv
        <3>. QED BY <2>1, <3>1, OnTop
    <2>3. Len(stashes) \in Nat
        BY <1>1 DEF GitInv
    <2>4. ASSUME NEW i \in 1..Len(stashes'), NEW f \in DOMAIN stashes'[i]
          PROVE  stashes'[i][f] \in 1..edits'
        <3>1. CASE i = 1
            BY <1>1, <1>2, <2>2, <2>4, <3>1 DEF Taken, Dirty, GitInv
        <3>2. CASE i # 1
            <4>1. i - 1 \in 1..Len(stashes) /\ stashes'[i] = stashes[i - 1]
                <5>1. i - 1 \in 1..Len(stashes)
                    BY <2>2, <2>3, <3>2
                <5>2. stashes'[(i - 1) + 1] = stashes[i - 1] /\ (i - 1) + 1 = i
                    BY <2>2, <5>1
                <5>. QED BY <5>1, <5>2
            <4>. QED BY <1>1, <1>2, <4>1 DEF GitInv
        <3>. QED BY <3>1, <3>2
    <2>. QED BY <1>1, <1>2, <1>3, <2>2, <2>4 DEF GitInv
<1>. QED BY <1>4, <1>5

LEMMA GitTypes ==
    ASSUME TypeInv, [Next]_vars
    PROVE  GitInv'
<1>1. GitInv
    BY TypeParts
<1>2. ASSUME UNCHANGED <<git, history>> PROVE GitInv'
    BY <1>1, <1>2 DEF GitInv, git, history
<1>3. CASE UNCHANGED vars
    BY <1>2, <1>3 DEF vars
<1>4. ASSUME NEW a \in Agents, Step(a) PROVE GitInv'
    <2>1. ASSUME NEW text \in Texts, Start(a, text) PROVE GitInv'
        BY <1>2, <2>1 DEF Start, Others
    <2>2. CASE Attempt(a) \/ Fails(a) \/ Ends(a) \/ Stop(a)
        BY <1>2, <2>2 DEF Attempt, Fails, Ends, Stop, Others
    <2>3. CASE Push(a) \/ PushFails(a)
        BY <1>2, <2>3, StashedTypes DEF Push, PushFails
    <2>4. CASE ReadHash(a)
        BY <1>2, <2>4 DEF ReadHash, Others
    <2>5. CASE LogPoint(a)
        BY <1>2, <2>5 DEF LogPoint, Others
    <2>6. ASSUME NEW path \in Paths, NEW f \in Files, WriteFile(a, path, f) PROVE GitInv'
        BY <1>1, <2>6, EditedTypes DEF WriteFile
    <2>7. ASSUME NEW cmd \in Commands, Bash(a, cmd) PROVE GitInv'
        BY <1>2, <2>7 DEF Bash, Others
    <2>8. CASE CommandEnds(a) \/ TimesOut(a)
        BY <1>2, <2>8 DEF CommandEnds, TimesOut, Others
    <2>. QED BY <1>4, <2>1, <2>2, <2>3, <2>4, <2>5, <2>6, <2>7, <2>8 DEF Step
<1>5. ASSUME NEW f \in Files, UserEdits(f) PROVE GitInv'
    BY <1>1, <1>5, EditedTypes DEF UserEdits
<1>6. ASSUME NEW f \in Files, RollbackFile(f) PROVE GitInv'
    <2>1. /\ tree[f] # 0 /\ tree' = [tree EXCEPT ![f] = 0]
          /\ discarded' = discarded \cup {tree[f]} /\ edits' = edits /\ stashes' = stashes /\ copied' = copied
        BY <1>6 DEF RollbackFile, Others
    <2>2. tree[f] \in 1..edits /\ edits \in Nat
        BY <1>1, <2>1, WorkspaceAssumption DEF GitInv
    <2>3. tree' \in [Files -> 0..edits']
        BY <1>1, <2>1, <2>2 DEF GitInv
    <2>. QED BY <1>1, <2>1, <2>2, <2>3 DEF GitInv
<1>7. ASSUME NEW id \in 0..clock, Rollback(id) PROVE GitInv'
    BY <1>1, <1>2, <1>7, PoppedTypes DEF Rollback
<1>8. CASE Tick
    BY <1>2, <1>8 DEF Tick, Others
<1>9. ASSUME NEW work \in Works, ProcessWorks(work) \/ OrphanEnds(work) PROVE GitInv'
    BY <1>1, <1>2, <1>9, PoppedTypes, EditedTypes DEF ProcessWorks, OrphanEnds, Others
<1>. QED BY <1>3, <1>4, <1>5, <1>6, <1>7, <1>8, <1>9 DEF Next

LEMMA LogTypes ==
    ASSUME TypeInv, [Next]_vars
    PROVE  LogInv'
<1>1. LogInv /\ AgentsInv
    BY TypeParts
<1>2. ASSUME UNCHANGED <<c, clock, log>>, answered' = 0 \/ answered' = answered PROVE LogInv'
    BY <1>1, <1>2, LenProperties DEF LogInv
<1>3. CASE UNCHANGED vars
    BY <1>2, <1>3 DEF vars
<1>4. ASSUME NEW a \in Agents, Step(a) PROVE LogInv'
    <2>1. CASE LogPoint(a)
        <3>. DEFINE point == [by |-> a, attempt |-> agent[a].attempt, id |-> agent[a].id,
                              hash |-> agent[a].hash, made |-> agent[a].made]
        <3>1. /\ log' = Append(log, point) /\ agent[a].at = "logging"
              /\ c' = c /\ clock' = clock /\ answered' = 0
            BY <2>1 DEF LogPoint, Others
        <3>2. point \in Point(clock)
            BY <1>1, <3>1 DEF AgentsInv, AgentInv, Point
        <3>3. log' \in Seq(Point(clock)) /\ Len(log') \in Nat
            BY <1>1, <3>1, <3>2, AppendProperties, LenProperties DEF LogInv
        <3>. QED BY <1>1, <3>1, <3>3 DEF LogInv
    <2>2. CASE ~LogPoint(a)
        <3>1. UNCHANGED <<c, clock, log>> /\ answered' = 0
            BY <1>4, <2>2 DEF Step, Start, Attempt, Fails, Ends, Stop, Push, PushFails, ReadHash,
                WriteFile, Bash, CommandEnds, TimesOut, Others
        <3>. QED BY <1>2, <3>1
    <2>. QED BY <2>1, <2>2
<1>5. ASSUME NEW f \in Files, UserEdits(f) \/ RollbackFile(f) PROVE LogInv'
    BY <1>2, <1>5 DEF UserEdits, RollbackFile, Others
<1>6. ASSUME NEW id \in 0..clock, Rollback(id) PROVE LogInv'
    <2>. DEFINE lines == {i \in DOMAIN log : log[i].id = id}
    <2>1. UNCHANGED <<c, clock, log>> /\ answered' = Min(lines) /\ lines # {}
        BY <1>6 DEF Rollback
    <2>2. Min(lines) \in 1..Len(log)
        <3>1. lines \subseteq 1..Len(log) /\ Len(log) \in Nat
            BY <1>1, LenProperties DEF LogInv
        <3>. QED BY <2>1, <3>1, LeastLine
    <2>. QED BY <1>1, <2>1, <2>2 DEF LogInv
<1>7. CASE Tick
    <2>1. /\ clock < MaxClock /\ clock' = clock + 1 /\ log' = log /\ c' = c /\ answered' = 0
        BY <1>7 DEF Tick, Others
    <2>2. 0..clock \subseteq 0..clock' /\ clock' \in 0..MaxClock
        BY <1>1, <2>1, WorkspaceAssumption DEF LogInv
    <2>3. Point(clock) \subseteq Point(clock')
        BY <2>2 DEF Point
    <2>4. log' \in Seq(Point(clock')) /\ Len(log') \in Nat
        BY <1>1, <2>1, <2>3, SeqMonotonic, LenProperties DEF LogInv
    <2>. QED BY <1>1, <2>1, <2>2, <2>4 DEF LogInv
<1>8. ASSUME NEW work \in Works, ProcessWorks(work) \/ OrphanEnds(work) PROVE LogInv'
    BY <1>2, <1>8 DEF ProcessWorks, OrphanEnds, Others
<1>. QED BY <1>3, <1>4, <1>5, <1>6, <1>7, <1>8 DEF Next

LEMMA AgentTypes ==
    ASSUME TypeInv, [Next]_vars
    PROVE  AgentsInv'
<1>. DEFINE Records(last) == [at : States, attempt : 0..MaxAttempts, id : 0..last,
                              hash : BOOLEAN, made : Stash]
<1>1. AgentsInv /\ LogInv /\ clock \in Nat
    BY TypeParts, WorkspaceAssumption DEF LogInv
<1>2. ASSUME UNCHANGED <<agent, decision, processes, clock>> PROVE AgentsInv'
    BY <1>1, <1>2 DEF AgentsInv, AgentInv, processes
<1>3. CASE UNCHANGED vars
    BY <1>2, <1>3 DEF vars
<1>4. ASSUME NEW a \in Agents, Step(a) PROVE AgentsInv'
    <2>1. clock' = clock
        BY <1>4 DEF Step, Start, Attempt, Fails, Ends, Stop, Push, PushFails, ReadHash, LogPoint,
            WriteFile, Bash, CommandEnds, TimesOut, Others
    <2>0. orphans' \subseteq Works \ {"read"}
        <3>1. ASSUME NEW works \in SUBSET ({"none"} \cup Works), Left(works)
              PROVE  orphans' \subseteq Works \ {"read"}
            BY <1>1, <3>1 DEF Left, AgentsInv
        <3>2. command[a] \in {"none"} \cup Works
            BY <1>1 DEF AgentsInv
        <3>3. CASE Stop(a) \/ TimesOut(a)
            BY <3>1, <3>2, <3>3 DEF Stop, TimesOut
        <3>4. CASE ~(Stop(a) \/ TimesOut(a))
            <4>1. orphans' = orphans
                BY <1>4, <3>4 DEF Step, Start, Attempt, Fails, Ends, Push, PushFails, ReadHash, LogPoint,
                    WriteFile, Bash, CommandEnds, Others, processes
            <4>. QED BY <1>1, <4>1 DEF AgentsInv
        <3>. QED BY <3>3, <3>4
    <2>2. /\ agent[a] \in Records(clock) /\ AgentInv(a)
        BY <1>1 DEF AgentsInv
    <2>3. ASSUME NEW r \in Records(clock), agent' = [agent EXCEPT ![a] = r],
                 NEW d, decision' = decision \/ decision' = [decision EXCEPT ![a] = d],
                 command' \in [Agents -> {"none"} \cup Works],
                 AgentInv(a)'
          PROVE  AgentsInv'
        <3>1. ASSUME NEW b \in Agents PROVE AgentInv(b)'
            BY <1>1, <2>3, <3>1 DEF AgentsInv, AgentInv
        <3>2. agent' \in [Agents -> Records(clock)] /\ decision' = [x \in Agents |-> decision'[x]]
            BY <1>1, <2>3 DEF AgentsInv
        <3>. QED BY <2>0, <2>1, <2>3, <3>1, <3>2 DEF AgentsInv
    <2>4. agent[a].at \in States /\ agent[a].attempt \in 0..MaxAttempts
        BY <2>2
    <2>5. Idle \in Records(clock) /\ Idle.at = "idle" /\ Idle.attempt = 0
        BY <1>1, EmptyStash, WorkspaceAssumption DEF Idle, States
    <2>6. ASSUME Over(a, "ended"), command' \in [Agents -> {"none"} \cup Works] PROVE AgentsInv'
        <3>. DEFINE r == [Idle EXCEPT !.at = "ended"]
        <3>1. r \in Records(clock) /\ r.at = "ended"
            BY <2>5 DEF Idle, States
        <3>2. agent' = [agent EXCEPT ![a] = r] /\ decision' = [decision EXCEPT ![a] = NoRoute]
            BY <2>6 DEF Over
        <3>3. agent'[a] = r /\ decision'[a] = NoRoute
            BY <1>1, <3>2 DEF AgentsInv
        <3>4. AgentInv(a)'
            BY <3>1, <3>3 DEF AgentInv
        <3>. HIDE DEF r
        <3>. QED BY <1>1, <2>3, <2>6, <3>1, <3>2, <3>4 DEF AgentsInv
    <2>7. ASSUME NEW r \in Records(clock), agent' = [agent EXCEPT ![a] = r], decision' = decision,
                 command' \in [Agents -> {"none"} \cup Works],
                 agent[a].at \notin {"idle", "ended"},
                 r.at \notin {"idle", "ended"},
                 r.at = "routed" => r.attempt < MaxAttempts,
                 r.at # "routed" => r.attempt > 0
          PROVE  AgentsInv'
        <3>1. agent'[a] = r
            BY <1>1, <2>7 DEF AgentsInv
        <3>2. AgentInv(a)'
            BY <2>2, <2>7, <3>1 DEF AgentInv
        <3>. QED BY <2>3, <2>7, <3>2
    <2>8. ASSUME NEW text \in Texts, Start(a, text) PROVE AgentsInv'
        <3>. DEFINE d == Route(text, c)
                    v == [text |-> text, type |-> d.type, tier |-> d.tier, provider |-> d.provider,
                          tools |-> Active(d.type, c)]
                    r == [agent[a] EXCEPT !.at = "routed"]
        <3>1. /\ agent[a].at = "idle" /\ decision' = [decision EXCEPT ![a] = v]
              /\ agent' = [agent EXCEPT ![a] = r] /\ command' = command
            BY <2>8 DEF Start, Others, processes
        <3>2. v # NoRoute
            <4>1. d.provider \in {"ollama", "anthropic"}
                BY DEF Route, Select, Provider
            <4>2. v.provider = d.provider /\ NoRoute.provider = "none"
                BY DEF NoRoute
            <4>. HIDE DEF v, d
            <4>. QED BY <4>1, <4>2
        <3>3. r \in Records(clock) /\ r.at = "routed" /\ r.attempt = agent[a].attempt
            BY <2>2, <3>1 DEF States
        <3>4. agent'[a] = r /\ decision'[a] = v
            BY <1>1, <3>1 DEF AgentsInv
        <3>5. AgentInv(a)'
            BY <2>2, <3>1, <3>2, <3>3, <3>4 DEF AgentInv
        <3>. HIDE DEF r, v
        <3>. QED BY <1>1, <2>3, <3>1, <3>3, <3>5 DEF AgentsInv
    <2>9. CASE Attempt(a)
        <3>. DEFINE r == [Idle EXCEPT !.at = IF decision[a].type \in Mutating THEN "point" ELSE "working",
                                      !.attempt = agent[a].attempt + 1]
        <3>1. /\ agent[a].at = "routed" /\ agent' = [agent EXCEPT ![a] = r]
              /\ decision' = decision /\ command' = command
            BY <2>9 DEF Attempt, Others, processes
        <3>2. r \in Records(clock) /\ r.at \in {"point", "working"} /\ r.attempt > 0
            <4>1. agent[a].attempt + 1 \in 0..MaxAttempts /\ agent[a].attempt + 1 > 0
                BY <2>2, <2>4, <3>1, WorkspaceAssumption DEF AgentInv
            <4>. QED BY <2>5, <4>1 DEF Idle, States
        <3>. HIDE DEF r
        <3>. QED BY <1>1, <2>7, <3>1, <3>2 DEF AgentsInv
    <2>10. CASE Fails(a)
        <3>1. CASE agent[a].attempt < MaxAttempts
            <4>. DEFINE r == [Idle EXCEPT !.at = "routed", !.attempt = agent[a].attempt]
            <4>1. /\ agent[a].at \in {"logging", "working"} /\ agent' = [agent EXCEPT ![a] = r]
                  /\ decision' = decision /\ command' = command
                BY <2>10, <3>1 DEF Fails, Others, processes
            <4>2. r \in Records(clock) /\ r.at = "routed" /\ r.attempt < MaxAttempts
                BY <2>4, <2>5, <3>1 DEF Idle, States
            <4>. HIDE DEF r
            <4>. QED BY <1>1, <2>7, <4>1, <4>2 DEF AgentsInv
        <3>2. CASE ~(agent[a].attempt < MaxAttempts)
            BY <1>1, <2>6, <2>10, <3>2 DEF Fails, Others, processes, AgentsInv
        <3>. QED BY <3>1, <3>2
    <2>11. CASE Ends(a)
        BY <1>1, <2>6, <2>11 DEF Ends, Others, processes, AgentsInv
    <2>12. CASE Stop(a)
        BY <1>1, <2>6, <2>12 DEF Stop, AgentsInv
    <2>13. CASE Push(a)
        <3>. DEFINE at == IF Dirty # {} /\ c.printsHead THEN "pushed" ELSE "logging"
                    r == [agent[a] EXCEPT !.id = clock, !.made = Taken, !.at = at]
        <3>1. /\ agent[a].at = "point" /\ agent' = [agent EXCEPT ![a] = r]
              /\ decision' = decision /\ command' = command
            BY <1>1, <2>13 DEF Push, Others, processes, AgentsInv
        <3>2. r \in Records(clock) /\ r.at \in {"pushed", "logging"} /\ r.attempt > 0
            <4>1. Taken \in Stash /\ at \in {"pushed", "logging"} /\ clock \in 0..clock
                BY <1>1, TakenIsStash
            <4>2. agent[a].attempt > 0
                BY <2>2, <3>1 DEF AgentInv
            <4>. HIDE DEF at
            <4>. QED BY <2>2, <4>1, <4>2 DEF States
        <3>. HIDE DEF r
        <3>. QED BY <1>1, <2>7, <3>1, <3>2 DEF AgentsInv
    <2>14. CASE PushFails(a)
        <3>. DEFINE r == [agent[a] EXCEPT !.id = clock, !.at = "logging"]
        <3>1. /\ agent[a].at = "point" /\ agent' = [agent EXCEPT ![a] = r]
              /\ decision' = decision /\ command' = command
            BY <1>1, <2>14 DEF PushFails, Others, processes, AgentsInv
        <3>2. r \in Records(clock) /\ r.at = "logging" /\ r.attempt > 0
            <4>1. clock \in 0..clock /\ agent[a].attempt > 0
                BY <1>1, <2>2, <3>1 DEF AgentInv
            <4>. QED BY <2>2, <4>1 DEF States
        <3>. HIDE DEF r
        <3>. QED BY <1>1, <2>7, <3>1, <3>2 DEF AgentsInv
    <2>15. CASE ReadHash(a)
        <3>0. PICK h \in BOOLEAN : agent' = [agent EXCEPT ![a].hash = h, ![a].at = "logging"]
            <4>1. PICK h \in {FALSE, stashes # <<>>} : agent' = [agent EXCEPT ![a].hash = h, ![a].at = "logging"]
                BY <2>15 DEF ReadHash
            <4>2. h \in BOOLEAN
                OBVIOUS
            <4>. QED BY <4>1, <4>2
        <3>. DEFINE r == [agent[a] EXCEPT !.hash = h, !.at = "logging"]
        <3>1. /\ agent[a].at = "pushed" /\ agent' = [agent EXCEPT ![a] = r]
              /\ decision' = decision /\ command' = command
            BY <1>1, <2>15, <3>0 DEF ReadHash, Others, processes, AgentsInv
        <3>2. r \in Records(clock) /\ r.at = "logging" /\ r.attempt > 0
            BY <2>2, <3>1 DEF AgentInv, States
        <3>. HIDE DEF r
        <3>. QED BY <1>1, <2>7, <3>1, <3>2 DEF AgentsInv
    <2>16. CASE LogPoint(a)
        <3>. DEFINE r == [Idle EXCEPT !.at = "working", !.attempt = agent[a].attempt]
        <3>1. /\ agent[a].at = "logging" /\ agent' = [agent EXCEPT ![a] = r]
              /\ decision' = decision /\ command' = command
            BY <2>16 DEF LogPoint, Others, processes
        <3>2. r \in Records(clock) /\ r.at = "working" /\ r.attempt > 0
            BY <2>2, <2>4, <2>5, <3>1 DEF Idle, AgentInv, States
        <3>. HIDE DEF r
        <3>. QED BY <1>1, <2>7, <3>1, <3>2 DEF AgentsInv
    <2>17. ASSUME NEW path \in Paths, NEW f \in Files, WriteFile(a, path, f) PROVE AgentsInv'
        BY <1>2, <2>1, <2>17 DEF WriteFile, Others
    <2>18. ASSUME NEW at \in {"waiting", "working"}, agent' = [agent EXCEPT ![a].at = at],
                  decision' = decision,
                  command' \in [Agents -> {"none"} \cup Works],
                  agent[a].at \in {"waiting", "working"}
           PROVE  AgentsInv'
        <3>. DEFINE r == [agent[a] EXCEPT !.at = at]
        <3>1. agent' = [agent EXCEPT ![a] = r]
            BY <1>1, <2>18 DEF AgentsInv
        <3>2. r \in Records(clock) /\ r.at = at /\ r.attempt > 0
            BY <2>2, <2>18 DEF AgentInv, States
        <3>. HIDE DEF r
        <3>. QED BY <2>7, <2>18, <3>1, <3>2
    <2>19. ASSUME NEW cmd \in Commands, Bash(a, cmd) PROVE AgentsInv'
        BY <1>1, <2>18, <2>19, WorkspaceAssumption DEF Bash, Others, AgentsInv
    <2>20. CASE CommandEnds(a) \/ TimesOut(a)
        BY <1>1, <2>18, <2>20 DEF CommandEnds, TimesOut, Others, AgentsInv
    <2>. QED BY <1>4, <2>8, <2>9, <2>10, <2>11, <2>12, <2>13, <2>14, <2>15, <2>16, <2>17, <2>19,
            <2>20 DEF Step
<1>5. ASSUME NEW f \in Files, UserEdits(f) \/ RollbackFile(f) PROVE AgentsInv'
    BY <1>2, <1>5 DEF UserEdits, RollbackFile, Others
<1>6. ASSUME NEW id \in 0..clock, Rollback(id) PROVE AgentsInv'
    BY <1>2, <1>6 DEF Rollback
<1>7. CASE Tick
    <2>1. agent' = agent /\ decision' = decision /\ command' = command /\ orphans' = orphans /\ clock' = clock + 1
        BY <1>7 DEF Tick, Others, processes
    <2>2. Records(clock) \subseteq Records(clock')
        BY <1>1, <2>1
    <2>. QED BY <1>1, <2>1, <2>2 DEF AgentsInv, AgentInv
<1>8. ASSUME NEW work \in Works, ProcessWorks(work) \/ OrphanEnds(work) PROVE AgentsInv'
    <2>1. /\ agent' = agent /\ decision' = decision /\ command' = command /\ clock' = clock
          /\ orphans' = orphans \/ orphans' = orphans \ {work}
        BY <1>8 DEF ProcessWorks, OrphanEnds, Others, processes
    <2>. QED BY <1>1, <2>1 DEF AgentsInv, AgentInv
<1>. QED BY <1>3, <1>4, <1>5, <1>6, <1>7, <1>8 DEF Next

-----------------------------------------------------------------------------
(* Where the edits are. *)

(* Nothing but tuples is a place. *)
LEMMA InPlaces ==
    /\ \A n : Places(n) \subseteq (0..Len(stashes)) \X Files
    /\ \A n, i, f : <<i, f>> \in Places(n) <=>
          /\ i \in 0..Len(stashes) /\ f \in Files
          /\ f \in DOMAIN Holder(i) /\ Holder(i)[f] = n
    BY DEF Places

LEMMA InPlacesNext ==
    /\ \A n : Places(n)' \subseteq (0..Len(stashes')) \X Files
    /\ \A n, i, f : <<i, f>> \in Places(n)' <=>
          /\ i \in 0..Len(stashes') /\ f \in Files
          /\ f \in DOMAIN Holder(i)' /\ Holder(i)'[f] = n
    BY DEF Places

(* Without a step of git or of an editor every edit stays. *)
LEMMA SamePlaces ==
    ASSUME tree' = tree, stashes' = stashes
    PROVE  \A n : Places(n)' = Places(n)
BY DEF Places, Holder

(* An edit moves from one place to another, unless it is copied just now. *)
LEMMA Moved ==
    ASSUME NEW n, Kept(n), n \in discarded' <=> n \in discarded, copied \subseteq copied',
           NEW up,
           \A p \in Places(n) : up[p] \in Places(n)',
           n \in copied' \/ \A q \in Places(n)' : \E p \in Places(n) : q = up[p],
           n \in copied' \ copied => Places(n) # {}
    PROVE  Kept(n)'
<1>1. CASE n \in copied'
    <2>1. n \in discarded \/ Places(n) # {}
        BY <1>1 DEF Kept
    <2>2. Places(n) # {} => Places(n)' # {}
        OBVIOUS
    <2>. QED BY <1>1, <2>1, <2>2 DEF Kept
<1>2. CASE n \notin copied' /\ n \in discarded
    BY <1>2 DEF Kept
<1>3. CASE n \notin copied' /\ n \notin discarded
    <2>1. PICK p : Places(n) = {p}
        BY <1>3 DEF Kept
    <2>2. Places(n)' = {up[p]}
        BY <1>3, <2>1
    <2>. QED BY <1>3, <2>2 DEF Kept
<1>. QED BY <1>1, <1>2, <1>3

(* A point moves every edit one place up, and one that is cut short leaves *)
(* a copy of those of the other files.                                     *)
LEMMA PushKeeps ==
    ASSUME TypeInv, KeptInv, NEW reset \in SUBSET Dirty, Stashed(reset)
    PROVE  KeptInv'
<1>. DEFINE Up(p) == <<p[1] + 1, p[2]>>
<1>1. GitInv /\ Len(stashes) \in Nat
    BY TypeParts DEF GitInv
<1>2. /\ stashes' = IF Dirty = {} THEN stashes ELSE <<Taken>> \o stashes
      /\ tree' = [f \in Files |-> IF f \in reset THEN 0 ELSE tree[f]]
      /\ copied' = copied \cup {tree[f] : f \in Dirty \ reset}
      /\ edits' = edits /\ discarded' = discarded
    BY DEF Stashed
<1>3. CASE Dirty = {}
    <2>1. tree' = tree /\ copied' = copied
        BY <1>1, <1>2, <1>3 DEF GitInv
    <2>2. \A n : Places(n)' = Places(n)
        BY <1>2, <1>3, <2>1, SamePlaces
    <2>. QED BY <1>2, <2>2 DEF KeptInv, Kept
<1>4. CASE Dirty # {}
    <2>1. /\ Len(stashes') = Len(stashes) + 1 /\ stashes'[1] = Taken
          /\ \A i \in 1..Len(stashes) : stashes'[i + 1] = stashes[i]
        <3>1. stashes \in Seq(Stash \ {<<>>}) /\ Taken \in Stash \ {<<>>}
            BY <1>1, <1>4, TakenIsStash DEF GitInv
        <3>. QED BY <1>2, <1>4, <3>1, OnTop
    <2>2. ASSUME NEW n \in 1..edits PROVE Kept(n)'
        <3>1. ASSUME NEW p \in Places(n) PROVE Up(p) \in Places(n)'
            <4>1. PICK i \in 0..Len(stashes), f \in Files : p = <<i, f>>
                BY <3>1, InPlaces
            <4>2. f \in DOMAIN Holder(i) /\ Holder(i)[f] = n
                BY <3>1, <4>1, InPlaces
            <4>3. Up(p) = <<i + 1, f>> /\ i + 1 \in 0..Len(stashes')
                BY <1>1, <2>1, <4>1
            <4>4. f \in DOMAIN stashes'[i + 1] /\ stashes'[i + 1][f] = n
                <5>1. CASE i = 0
                    <6>1. tree[f] = n /\ f \in Dirty
                        BY <1>1, <4>2, <5>1 DEF Holder, Dirty, GitInv
                    <6>. QED BY <2>1, <5>1, <6>1 DEF Taken
                <5>2. CASE i # 0
                    <6>1. i \in 1..Len(stashes)
                        BY <1>1, <4>1, <5>2
                    <6>. QED BY <2>1, <4>2, <5>2, <6>1 DEF Holder
                <5>. QED BY <5>1, <5>2
            <4>5. f \in DOMAIN Holder(i + 1)' /\ Holder(i + 1)'[f] = n
                BY <1>1, <4>1, <4>4 DEF Holder
            <4>. QED BY <4>1, <4>3, <4>5, InPlacesNext
        <3>2. ASSUME n \notin copied', NEW q \in Places(n)' PROVE \E p \in Places(n) : q = Up(p)
            <4>1. PICK j \in 0..Len(stashes'), f \in Files : q = <<j, f>>
                BY <3>2, InPlacesNext
            <4>2. f \in DOMAIN Holder(j)' /\ Holder(j)'[f] = n
                BY <3>2, <4>1, InPlacesNext
            <4>3. j # 0
                <5>1. ASSUME j = 0 PROVE n \in {tree[g] : g \in Dirty \ reset}
                    BY <1>2, <4>1, <4>2, <5>1 DEF Holder, Dirty
                <5>. QED BY <1>2, <3>2, <5>1
            <4>4. PICK i \in 0..Len(stashes) : j = i + 1
                <5>1. j - 1 \in 0..Len(stashes) /\ j = (j - 1) + 1
                    BY <1>1, <2>1, <4>1, <4>3
                <5>. QED BY <5>1
            <4>5. f \in DOMAIN stashes'[i + 1] /\ stashes'[i + 1][f] = n
                BY <4>2, <4>3, <4>4 DEF Holder
            <4>6. f \in DOMAIN Holder(i) /\ Holder(i)[f] = n
                <5>1. CASE i = 0
                    <6>1. f \in DOMAIN Taken /\ Taken[f] = n
                        BY <2>1, <4>5, <5>1
                    <6>2. tree[f] = n /\ f \in DOMAIN tree
                        BY <1>1, <4>1, <6>1 DEF Taken, GitInv
                    <6>. QED BY <5>1, <6>2 DEF Holder
                <5>2. CASE i # 0
                    <6>1. i \in 1..Len(stashes)
                        BY <1>1, <4>4, <5>2
                    <6>. QED BY <2>1, <4>5, <5>2, <6>1 DEF Holder
                <5>. QED BY <5>1, <5>2
            <4>7. <<i, f>> \in Places(n) /\ Up(<<i, f>>) = q
                BY <4>1, <4>4, <4>6, InPlaces
            <4>. QED BY <4>7
        <3>3. Kept(n)
            BY DEF KeptInv
        <3>4. PICK up : up = [p \in Places(n) |-> Up(p)]
            OBVIOUS
        <3>5. /\ \A p \in Places(n) : up[p] \in Places(n)'
              /\ n \in copied' \/ \A q \in Places(n)' : \E p \in Places(n) : q = up[p]
            BY <3>1, <3>2, <3>4
        <3>6. ASSUME n \in copied' \ copied PROVE Places(n) # {}
            <4>1. PICK f \in Dirty \ reset : tree[f] = n
                BY <1>2, <3>6
            <4>2. <<0, f>> \in Places(n)
                BY <1>1, <4>1, InPlaces DEF Holder, Dirty, GitInv
            <4>. QED BY <4>2
        <3>. QED BY <1>2, <3>3, <3>5, <3>6, Moved
    <2>. QED BY <1>2, <2>2 DEF KeptInv
<1>. QED BY <1>3, <1>4

(* A pop moves what the stack holds one place down and leaves the tree. *)
LEMMA PopKeeps ==
    ASSUME GitInv, KeptInv, stashes # <<>>, DOMAIN Head(stashes) \cap Dirty = {}, PopEnds
    PROVE  KeptInv'
<1>. DEFINE Down(p) == <<IF p[1] = 0 THEN 0 ELSE p[1] - 1, p[2]>>
<1>1. edits' = edits /\ discarded' = discarded /\ copied' = copied /\ Len(stashes) \in Nat
    BY DEF PopEnds, history, GitInv
<1>2. KeptInv'
    <2>. DEFINE top == Head(stashes)
    <2>1. /\ tree' = [f \in Files |-> IF f \in DOMAIN top THEN top[f] ELSE tree[f]]
          /\ stashes' = Tail(stashes)
        BY DEF PopEnds, Restored
    <2>2. /\ Len(stashes') = Len(stashes) - 1 /\ Len(stashes) \in Nat \ {0}
          /\ top = stashes[1] /\ top \in Stash
          /\ \A i \in 1..Len(stashes) - 1 : stashes'[i] = stashes[i + 1]
        BY <2>1, OffTop DEF GitInv
    <2>3. \A f \in Files \cap DOMAIN top : tree[f] = 0
        BY DEF Dirty
    <2>4. ASSUME NEW n \in 1..edits PROVE Kept(n)'
        <3>1. ASSUME NEW p \in Places(n) PROVE Down(p) \in Places(n)'
            <4>1. PICK i \in 0..Len(stashes), f \in Files : p = <<i, f>>
                BY <3>1, InPlaces
            <4>2. f \in DOMAIN Holder(i) /\ Holder(i)[f] = n
                BY <3>1, <4>1, InPlaces
            <4>3. CASE i = 0
                <5>1. tree[f] = n /\ n # 0
                    BY <4>2, <4>3 DEF Holder
                <5>2. f \in DOMAIN tree' /\ tree'[f] = n
                    BY <2>1, <2>3, <5>1
                <5>3. <<0, f>> \in Places(n)'
                    BY <2>2, <5>2, InPlacesNext DEF Holder
                <5>. QED BY <4>1, <4>3, <5>3
            <4>4. CASE i = 1
                <5>1. f \in DOMAIN top /\ top[f] = n
                    BY <2>2, <4>2, <4>4 DEF Holder
                <5>2. f \in DOMAIN tree' /\ tree'[f] = n
                    BY <2>1, <5>1
                <5>3. <<0, f>> \in Places(n)'
                    BY <2>2, <5>2, InPlacesNext DEF Holder
                <5>. QED BY <4>1, <4>4, <5>3
            <4>5. CASE i \notin {0, 1}
                <5>1. i - 1 \in 1..Len(stashes) - 1 /\ i - 1 \in 0..Len(stashes') /\ i = (i - 1) + 1
                    BY <1>1, <2>2, <4>1, <4>5
                <5>2. stashes'[i - 1] = stashes[i]
                    BY <2>2, <5>1
                <5>3. Holder(i - 1)' = Holder(i)
                    BY <4>5, <5>1, <5>2 DEF Holder
                <5>4. <<i - 1, f>> \in Places(n)'
                    BY <4>2, <5>1, <5>3, InPlacesNext
                <5>. QED BY <4>1, <4>5, <5>4
            <4>. QED BY <4>3, <4>4, <4>5
        <3>2. ASSUME NEW q \in Places(n)' PROVE \E p \in Places(n) : q = Down(p)
            <4>1. PICK j \in 0..Len(stashes'), f \in Files : q = <<j, f>>
                BY <3>2, InPlacesNext
            <4>2. f \in DOMAIN Holder(j)' /\ Holder(j)'[f] = n
                BY <3>2, <4>1, InPlacesNext
            <4>3. CASE j = 0 /\ f \in DOMAIN top
                <5>1. top[f] = n
                    BY <2>1, <4>2, <4>3 DEF Holder
                <5>2. <<1, f>> \in Places(n)
                    BY <2>2, <4>3, <5>1, InPlaces DEF Holder
                <5>3. Down(<<1, f>>) = q
                    BY <4>1, <4>3
                <5>. QED BY <5>2, <5>3
            <4>4. CASE j = 0 /\ f \notin DOMAIN top
                <5>1. tree[f] = n /\ f \in DOMAIN tree
                    BY <2>1, <4>2, <4>4 DEF Holder, GitInv
                <5>2. <<0, f>> \in Places(n)
                    BY <1>1, <5>1, InPlaces DEF Holder
                <5>3. Down(<<0, f>>) = q
                    BY <4>1, <4>4
                <5>. QED BY <5>2, <5>3
            <4>5. CASE j # 0
                <5>1. j \in 1..Len(stashes) - 1 /\ j + 1 \in 0..Len(stashes) /\ j + 1 # 0
                    BY <1>1, <2>2, <4>1, <4>5
                <5>2. Holder(j + 1) = Holder(j)'
                    BY <2>2, <4>5, <5>1 DEF Holder
                <5>3. <<j + 1, f>> \in Places(n)
                    BY <4>2, <5>1, <5>2, InPlaces
                <5>4. Down(<<j + 1, f>>) = q
                    BY <4>1, <5>1
                <5>. QED BY <5>3, <5>4
            <4>. QED BY <4>3, <4>4, <4>5
        <3>3. Kept(n)
            BY <2>4 DEF KeptInv
        <3>4. PICK up : up = [p \in Places(n) |-> Down(p)]
            OBVIOUS
        <3>5. /\ \A p \in Places(n) : up[p] \in Places(n)'
              /\ \A q \in Places(n)' : \E p \in Places(n) : q = up[p]
            BY <3>1, <3>2, <3>4
        <3>. QED BY <1>1, <3>3, <3>5, Moved
    <2>. QED BY <1>1, <2>4 DEF KeptInv
<1>. QED BY <1>2

(* A pop that is cut short copies what it has put back. *)
LEMMA CutKeeps ==
    ASSUME GitInv, KeptInv, stashes # <<>>, DOMAIN Head(stashes) \cap Dirty = {},
           NEW files \in SUBSET DOMAIN Head(stashes), PopCut(files)
    PROVE  KeptInv'
<1>. DEFINE top == Head(stashes)
<1>1. /\ tree' = [f \in Files |-> IF f \in files THEN top[f] ELSE tree[f]]
      /\ stashes' = stashes /\ edits' = edits /\ discarded' = discarded
      /\ copied' = copied \cup {top[f] : f \in files}
    BY DEF PopCut, Restored
<1>2. top = stashes[1] /\ top \in Stash /\ Len(stashes) \in Nat \ {0}
    BY OffTop DEF GitInv
<1>3. files \subseteq Files /\ \A f \in files : tree[f] = 0
    BY <1>2 DEF Stash, Dirty
<1>. HIDE DEF top
<1>4. ASSUME NEW n \in 1..edits PROVE Kept(n)'
    <2>1. ASSUME NEW i \in 0..Len(stashes), NEW f \in Files, <<i, f>> \in Places(n)
          PROVE  <<i, f>> \in Places(n)'
        <3>1. CASE i = 0
            BY <1>1, <1>3, <2>1, <3>1, InPlaces, InPlacesNext DEF Holder
        <3>2. CASE i # 0
            BY <1>1, <2>1, <3>2, InPlaces, InPlacesNext DEF Holder
        <3>. QED BY <3>1, <3>2
    <2>2. ASSUME NEW i \in 0..Len(stashes), NEW f \in Files, <<i, f>> \in Places(n)', n \notin copied'
          PROVE  <<i, f>> \in Places(n)
        <3>1. CASE i = 0
            <4>1. tree'[f] = n
                BY <2>2, <3>1, InPlacesNext DEF Holder
            <4>2. f \notin files
                BY <1>1, <2>2, <4>1
            <4>3. tree[f] = n /\ f \in DOMAIN tree
                BY <1>1, <4>1, <4>2 DEF GitInv
            <4>. QED BY <2>2, <3>1, <4>3, InPlaces DEF Holder
        <3>2. CASE i # 0
            BY <1>1, <2>2, <3>2, InPlaces, InPlacesNext DEF Holder
        <3>. QED BY <3>1, <3>2
    <2>3. Places(n) \subseteq Places(n)' /\ (n \notin copied' => Places(n)' \subseteq Places(n))
        BY <1>1, <2>1, <2>2, InPlaces, InPlacesNext
    <2>4. ASSUME n \in copied' \ copied PROVE Places(n) # {}
        <3>1. PICK f \in files : top[f] = n
            BY <1>1, <2>4
        <3>2. <<1, f>> \in Places(n)
            BY <1>2, <1>3, <3>1, InPlaces DEF Holder
        <3>. QED BY <3>2
    <2>5. Kept(n)
        BY <1>4 DEF KeptInv
    <2>. QED BY <1>1, <2>3, <2>4, <2>5 DEF Kept
<1>. QED BY <1>1, <1>4 DEF KeptInv

LEMMA PoppedKeeps ==
    ASSUME GitInv, KeptInv, Popped
    PROVE  KeptInv'
<1>1. CASE UNCHANGED <<git, history>>
    <2>1. \A n : Places(n)' = Places(n)
        BY <1>1, SamePlaces DEF git
    <2>. QED BY <1>1, <2>1 DEF KeptInv, Kept, history
<1>. QED BY <1>1, PopKeeps, CutKeeps DEF Popped

(* What a file holds is replaced: what it held before is in no place now. *)
LEMMA ReplaceKeeps ==
    ASSUME GitInv, KeptInv, NEW f \in Files, NEW n \in 1..edits,
           stashes' = stashes, NEW new, new # n, tree' = [tree EXCEPT ![f] = new],
           discarded' = discarded \cup ({tree[f]} \ {0}), copied' = copied
    PROVE  Kept(n)'
<1>1. Places(n)' = Places(n) \ {<<0, f>>}
    <2>1. ASSUME NEW i \in 0..Len(stashes), NEW g \in Files
          PROVE  <<i, g>> \in Places(n)' <=> <<i, g>> \in Places(n) /\ ~(i = 0 /\ g = f)
        <3>1. CASE i = 0
            BY <3>1, InPlaces, InPlacesNext DEF Holder, GitInv
        <3>2. CASE i # 0
            BY <3>2, InPlaces, InPlacesNext DEF Holder
        <3>. QED BY <3>1, <3>2
    <2>. QED BY <2>1, InPlaces, InPlacesNext
<1>2. Kept(n)
    BY DEF KeptInv
<1>3. CASE tree[f] = n
    <2>1. <<0, f>> \in Places(n)
        BY <1>3, InPlaces DEF Holder, GitInv
    <2>2. n \in discarded' /\ (n \notin copied => Places(n) = {<<0, f>>})
        BY <1>2, <1>3, <2>1 DEF Kept
    <2>. QED BY <1>1, <2>2 DEF Kept
<1>4. CASE tree[f] # n
    <2>1. <<0, f>> \notin Places(n)
        BY <1>4, InPlaces DEF Holder
    <2>2. Places(n)' = Places(n)
        BY <1>1, <2>1
    <2>3. n \in discarded' <=> n \in discarded
        BY <1>4
    <2>. QED BY <1>2, <2>2, <2>3 DEF Kept
<1>. QED BY <1>3, <1>4

(* A new edit is in its file only. *)
LEMMA EditKeeps ==
    ASSUME GitInv, KeptInv, NEW f \in Files, Edited(f)
    PROVE  KeptInv'
<1>1. /\ edits' = edits + 1 /\ tree' = [tree EXCEPT ![f] = edits + 1]
      /\ discarded' = discarded \cup ({tree[f]} \ {0}) /\ stashes' = stashes /\ copied' = copied
      /\ edits \in Nat
    BY WorkspaceAssumption DEF Edited, GitInv
<1>2. ASSUME NEW n \in 1..edits PROVE Kept(n)'
    <2>1. edits + 1 # n
        BY <1>1
    <2>. QED BY <1>1, <2>1, ReplaceKeeps
<1>3. PICK new : new = edits + 1
    OBVIOUS
<1>4. Places(new)' = {<<0, f>>}
    <2>1. ASSUME NEW i \in 0..Len(stashes), NEW g \in Files
          PROVE  <<i, g>> \in Places(new)' <=> i = 0 /\ g = f
        <3>1. CASE i = 0
            <4>1. g \in DOMAIN tree' /\ (tree'[g] = new <=> g = f)
                BY <1>1, <1>3 DEF GitInv
            <4>. QED BY <1>1, <3>1, <4>1, InPlacesNext DEF Holder
        <3>2. CASE i # 0
            <4>1. i \in 1..Len(stashes)
                BY <3>2 DEF GitInv
            <4>2. \A h \in DOMAIN stashes[i] : stashes[i][h] # new
                BY <1>1, <1>3, <4>1 DEF GitInv
            <4>. QED BY <1>1, <3>2, <4>2, InPlacesNext DEF Holder
        <3>. QED BY <3>1, <3>2
    <2>2. 0 \in 0..Len(stashes)
        BY DEF GitInv
    <2>3. Places(new)' \subseteq (0..Len(stashes)) \X Files
        BY <1>1, InPlacesNext
    <2>. QED BY <2>1, <2>2, <2>3
<1>5. new \notin discarded' /\ new \notin copied'
    <2>1. tree[f] \in 0..edits /\ discarded \subseteq 1..edits /\ copied \subseteq 1..edits
        BY DEF GitInv
    <2>. QED BY <1>1, <1>3, <2>1
<1>6. Kept(new)'
    BY <1>4, <1>5 DEF Kept
<1>7. \A n \in 1..edits' : n \in 1..edits \/ n = new
    BY <1>1, <1>3
<1>. QED BY <1>2, <1>6, <1>7 DEF KeptInv

-----------------------------------------------------------------------------
(* The invariants of the specification. *)

LEMMA InitKept == Init => KeptInv
BY DEF Init, KeptInv

LEMMA NextKept ==
    ASSUME TypeInv, KeptInv, [Next]_vars
    PROVE  KeptInv'
<1>1. GitInv /\ AgentsInv
    BY TypeParts
<1>2. ASSUME UNCHANGED <<git, history>> PROVE KeptInv'
    <2>1. \A n : Places(n)' = Places(n)
        BY <1>2, SamePlaces DEF git
    <2>. QED BY <1>2, <2>1 DEF KeptInv, Kept, history
<1>3. CASE UNCHANGED vars
    BY <1>2, <1>3 DEF vars
<1>4. ASSUME NEW a \in Agents, Step(a) PROVE KeptInv'
    <2>1. ASSUME NEW text \in Texts, Start(a, text) PROVE KeptInv'
        BY <1>2, <2>1 DEF Start, Others
    <2>2. CASE Attempt(a) \/ Fails(a) \/ Ends(a) \/ Stop(a)
        BY <1>2, <2>2 DEF Attempt, Fails, Ends, Stop, Others
    <2>3. CASE Push(a) \/ PushFails(a)
        BY <1>2, <2>3, PushKeeps DEF Push, PushFails
    <2>4. CASE ReadHash(a)
        BY <1>2, <2>4 DEF ReadHash, Others
    <2>5. CASE LogPoint(a)
        BY <1>2, <2>5 DEF LogPoint, Others
    <2>6. ASSUME NEW path \in Paths, NEW f \in Files, WriteFile(a, path, f) PROVE KeptInv'
        BY <1>1, <2>6, EditKeeps DEF WriteFile
    <2>7. ASSUME NEW cmd \in Commands, Bash(a, cmd) PROVE KeptInv'
        BY <1>2, <2>7 DEF Bash, Others
    <2>8. CASE CommandEnds(a) \/ TimesOut(a)
        BY <1>2, <2>8 DEF CommandEnds, TimesOut, Others
    <2>. QED BY <1>4, <2>1, <2>2, <2>3, <2>4, <2>5, <2>6, <2>7, <2>8 DEF Step
<1>5. ASSUME NEW f \in Files, UserEdits(f) PROVE KeptInv'
    BY <1>1, <1>5, EditKeeps DEF UserEdits
<1>6. ASSUME NEW f \in Files, RollbackFile(f) PROVE KeptInv'
    <2>1. /\ tree[f] # 0 /\ tree' = [tree EXCEPT ![f] = 0] /\ stashes' = stashes
          /\ discarded' = discarded \cup ({tree[f]} \ {0}) /\ edits' = edits /\ copied' = copied
        BY <1>6 DEF RollbackFile, Others
    <2>2. ASSUME NEW n \in 1..edits PROVE Kept(n)'
        <3>1. 0 # n
            OBVIOUS
        <3>. QED BY <1>1, <2>1, <3>1, ReplaceKeeps
    <2>. QED BY <2>1, <2>2 DEF KeptInv
<1>7. ASSUME NEW id \in 0..clock, Rollback(id) PROVE KeptInv'
    BY <1>1, <1>2, <1>7, PoppedKeeps DEF Rollback
<1>8. CASE Tick
    BY <1>2, <1>8 DEF Tick, Others
<1>9. ASSUME NEW work \in Works, ProcessWorks(work) \/ OrphanEnds(work) PROVE KeptInv'
    BY <1>1, <1>2, <1>9, PoppedKeeps, EditKeeps DEF ProcessWorks, OrphanEnds, Others
<1>. QED BY <1>3, <1>4, <1>5, <1>6, <1>7, <1>8, <1>9 DEF Next

(* An agent at work on a mutating task has its line in the log. *)
Pointed(a) ==
    agent[a].at \in {"working", "waiting"} /\ decision[a].type \in Mutating =>
        \E i \in DOMAIN log : log[i].by = a /\ log[i].attempt = agent[a].attempt

LEMMA NextPointed ==
    ASSUME TypeInv, PointBeforeWork, [Next]_vars
    PROVE  PointBeforeWork'
<1>1. AgentsInv /\ log \in Seq(Point(clock))
    BY TypeParts DEF LogInv
<1>2. ASSUME UNCHANGED <<agent, decision, log>> PROVE PointBeforeWork'
    BY <1>2 DEF PointBeforeWork
<1>3. CASE UNCHANGED vars
    BY <1>2, <1>3 DEF vars
<1>4. ASSUME NEW a \in Agents, Step(a) PROVE PointBeforeWork'
    <2>1. \A b \in Agents \ {a} : agent'[b] = agent[b] /\ decision'[b] = decision[b]
        BY <1>1, <1>4 DEF Step, Start, Attempt, Fails, Ends, Stop, Over, Push, PushFails, ReadHash,
            LogPoint, WriteFile, Bash, CommandEnds, TimesOut, Others, AgentsInv
    <2>2. \A i \in DOMAIN log : i \in DOMAIN log' /\ log'[i] = log[i]
        <3>1. CASE LogPoint(a)
            <4>1. PICK point : log' = Append(log, point)
                BY <3>1 DEF LogPoint
            <4>. QED BY <1>1, <4>1, Extended
        <3>2. CASE ~LogPoint(a)
            BY <1>4, <3>2 DEF Step, Start, Attempt, Fails, Ends, Stop, Push, PushFails, ReadHash,
                WriteFile, Bash, CommandEnds, TimesOut, Others
        <3>. QED BY <3>1, <3>2
    <2>3. \A b \in Agents \ {a} : Pointed(b)'
        BY <2>1, <2>2 DEF PointBeforeWork, Pointed
    <2>4. Pointed(a)'
        <3>1. ASSUME agent'[a].at \notin {"working", "waiting"} PROVE Pointed(a)'
            BY <3>1 DEF Pointed
        <3>2. ASSUME agent[a].at \in {"working", "waiting"}, agent'[a].attempt = agent[a].attempt,
                     decision'[a] = decision[a]
              PROVE  Pointed(a)'
            BY <2>2, <3>2 DEF Pointed, PointBeforeWork
        <3>3. ASSUME NEW text \in Texts, Start(a, text) PROVE Pointed(a)'
            BY <1>1, <3>1, <3>3 DEF Start, AgentsInv
        <3>4. CASE Attempt(a)
            <4>1. /\ decision' = decision
                  /\ agent'[a].at = IF decision[a].type \in Mutating THEN "point" ELSE "working"
                BY <1>1, <3>4 DEF Attempt, Others, AgentsInv, Idle
            <4>. QED BY <4>1 DEF Pointed
        <3>5. CASE Fails(a) \/ Ends(a) \/ Stop(a) \/ Push(a) \/ PushFails(a) \/ ReadHash(a)
            <4>1. agent'[a].at \notin {"working", "waiting"}
                <5>1. CASE Fails(a) \/ Ends(a) \/ Stop(a)
                    <6>1. ASSUME Over(a, "ended") PROVE agent'[a].at = "ended"
                        BY <1>1, <6>1 DEF Over, AgentsInv, Idle
                    <6>2. CASE Fails(a) /\ agent[a].attempt < MaxAttempts
                        <7>1. agent'[a].at = "routed"
                            BY <1>1, <6>2 DEF Fails, AgentsInv, Idle
                        <7>. QED BY <7>1
                    <6>3. CASE Fails(a) /\ ~(agent[a].attempt < MaxAttempts)
                        BY <6>1, <6>3 DEF Fails
                    <6>4. CASE Ends(a) \/ Stop(a)
                        BY <6>1, <6>4 DEF Ends, Stop
                    <6>. QED BY <5>1, <6>2, <6>3, <6>4
                <5>2. CASE Push(a)
                    <6>1. agent'[a].at \in {"pushed", "logging"}
                        BY <1>1, <5>2 DEF Push, AgentsInv
                    <6>. QED BY <6>1
                <5>3. CASE PushFails(a) \/ ReadHash(a)
                    <6>1. agent'[a].at = "logging"
                        <7>1. CASE PushFails(a)
                            BY <1>1, <7>1 DEF PushFails, AgentsInv
                        <7>2. CASE ReadHash(a)
                            <8>1. PICK found \in {FALSE, stashes # <<>>} :
                                    agent' = [agent EXCEPT ![a].hash = found, ![a].at = "logging"]
                                BY <7>2 DEF ReadHash
                            <8>. QED BY <1>1, <8>1 DEF AgentsInv
                        <7>. QED BY <5>3, <7>1, <7>2
                    <6>. QED BY <6>1
                <5>. QED BY <3>5, <5>1, <5>2, <5>3
            <4>. QED BY <3>1, <4>1
        <3>6. CASE LogPoint(a)
            <4>. DEFINE point == [by |-> a, attempt |-> agent[a].attempt, id |-> agent[a].id,
                                  hash |-> agent[a].hash, made |-> agent[a].made]
            <4>1. log' = Append(log, point) /\ agent'[a].attempt = agent[a].attempt
                BY <1>1, <3>6 DEF LogPoint, AgentsInv, Idle
            <4>2. point.by = a /\ point.attempt = agent[a].attempt
                OBVIOUS
            <4>3. Len(log) + 1 \in DOMAIN log' /\ log'[Len(log) + 1] = point
                <5>. HIDE DEF point
                <5>. QED BY <1>1, <4>1, Extended
            <4>. QED BY <4>1, <4>2, <4>3 DEF Pointed
        <3>7. ASSUME NEW path \in Paths, NEW f \in Files, WriteFile(a, path, f) PROVE Pointed(a)'
            BY <3>2, <3>7 DEF WriteFile, Others
        <3>8. ASSUME NEW cmd \in Commands, Bash(a, cmd) PROVE Pointed(a)'
            BY <1>1, <3>2, <3>8 DEF Bash, Others, AgentsInv
        <3>9. CASE CommandEnds(a) \/ TimesOut(a)
            BY <1>1, <3>2, <3>9 DEF CommandEnds, TimesOut, Others, AgentsInv
        <3>. QED BY <1>4, <3>3, <3>4, <3>5, <3>6, <3>7, <3>8, <3>9 DEF Step
    <2>. QED BY <2>3, <2>4 DEF PointBeforeWork, Pointed
<1>5. ASSUME NEW f \in Files, UserEdits(f) \/ RollbackFile(f) PROVE PointBeforeWork'
    BY <1>2, <1>5 DEF UserEdits, RollbackFile, Others
<1>6. ASSUME NEW id \in 0..clock, Rollback(id) PROVE PointBeforeWork'
    BY <1>2, <1>6 DEF Rollback
<1>7. CASE Tick
    BY <1>2, <1>7 DEF Tick, Others
<1>8. ASSUME NEW work \in Works, ProcessWorks(work) \/ OrphanEnds(work) PROVE PointBeforeWork'
    BY <1>2, <1>8 DEF ProcessWorks, OrphanEnds, Others
<1>. QED BY <1>3, <1>4, <1>5, <1>6, <1>7, <1>8 DEF Next

-----------------------------------------------------------------------------
(* The types, the points and the edits, together. *)
THEOREM Invariance == Spec => [](TypeInv /\ PointBeforeWork /\ KeptInv)
<1>1. Init => TypeInv /\ PointBeforeWork /\ KeptInv
    BY InitTypes, InitKept DEF Init, PointBeforeWork, Idle
<1>2. TypeInv /\ PointBeforeWork /\ KeptInv /\ [Next]_vars => (TypeInv /\ PointBeforeWork /\ KeptInv)'
    <2> SUFFICES ASSUME TypeInv, PointBeforeWork, KeptInv, [Next]_vars
                 PROVE  (TypeInv /\ PointBeforeWork /\ KeptInv)'
        OBVIOUS
    <2>1. TypeInv'
        BY AgentTypes, GitTypes, LogTypes, TypeParts, PTL
    <2>. QED BY <2>1, NextPointed, NextKept
<1>. QED BY <1>1, <1>2, PTL DEF Spec

(* The types of the working tree, the stack, the log and the agents. *)
THEOREM TypeCorrect == Spec => []TypeOK
<1>1. TypeInv => TypeOK
    BY DEF TypeInv
<1>. QED BY <1>1, Invariance, PTL

(* Every edit that nobody discarded is in the tree or in a stash, and in    *)
(* one place unless a git cut short copied it, whatever points, pops, edits *)
(* and kills interleave (rollback.py).                                      *)
THEOREM NoEditLost == Spec => []EditsKept
<1>1. ASSUME KeptInv PROVE EditsKept
    <2>1. ASSUME NEW n \in 1..edits
          PROVE  IF n \in copied THEN n \in discarded \/ Places(n) # {}
                 ELSE Cardinality(Places(n)) = IF n \in discarded THEN 0 ELSE 1
        <3>1. Kept(n)
            BY <1>1 DEF KeptInv
        <3>2. CASE n \in copied
            BY <3>1, <3>2 DEF Kept
        <3>3. CASE n \notin copied /\ n \in discarded
            BY <3>1, <3>3, FS_EmptySet DEF Kept
        <3>4. CASE n \notin copied /\ n \notin discarded
            BY <3>1, <3>4, FS_Singleton DEF Kept
        <3>. QED BY <3>2, <3>3, <3>4
    <2>. QED BY <2>1 DEF EditsKept
<1>. QED BY <1>1, Invariance, PTL

(* Every attempt of a mutating task has its point before it works *)
(* (base.py:172).                                                 *)
THEOREM PointFirst == Spec => []PointBeforeWork
BY Invariance, PTL

=============================================================================
