--------------------------- MODULE DbWriterProofs ---------------------------
(***************************************************************************)
(* Proofs about DbWriter for every set of calls.                           *)
(***************************************************************************)
EXTENDS DbWriter, TLAPS

(* The empty sequence and a concatenation have the type of their elements. *)
LEMMA EmptySequence == ASSUME NEW S PROVE <<>> \in Seq(S) /\ Range(<<>>) = {}
BY DEF Range

(* A concatenation has the type of its parts. *)
LEMMA ConcatenationType ==
    ASSUME NEW S, NEW s \in Seq(S), NEW t \in Seq(S) PROVE s \o t \in Seq(S)
OBVIOUS

(* The sequences of the model hold what they should, whatever the step. *)
LEMMA TypeInit == Init => TypeOK
<1> SUFFICES ASSUME Init PROVE TypeOK
  OBVIOUS
<1>1. queue \in Seq(Callers \cup {Pill}) /\ tx \in Seq(Writes) /\ committed \in Seq(Writes)
  BY EmptySequence DEF Init
<1>2. call \in [Callers -> CallStates] /\ writer \in WriterStates
  BY DEF Init, CallStates, WriterStates
<1> QED
  BY <1>1, <1>2 DEF Init, TypeOK

(* Every step keeps the types. *)
LEMMA TypeStep == TypeOK /\ [Next]_vars => TypeOK'
<1> SUFFICES ASSUME TypeOK, [Next]_vars PROVE TypeOK'
  OBVIOUS
<1> USE CallersAssumption DEF TypeOK, CallStates, WriterStates, Answered,
        clientVars, storageVars
<1>0. /\ <<>> \in Seq(Writes) /\ <<>> \in Seq(Callers \cup {Pill})
      /\ committed \o tx \in Seq(Writes)
  BY EmptySequence, ConcatenationType
<1>1. ASSUME NEW c \in Callers, Call(c) PROVE TypeOK'
  <2>1. known' \in [Callers -> SUBSET Writes]
    BY <1>1 DEF Call, AnsweredWrites
  <2>2. CASE ready
    <3>1. Put(c)
      BY <1>1, <2>2 DEF Call
    <3> QED BY <1>1, <2>1, <3>1 DEF Call, Put
  <2>3. CASE ~ready
    BY <1>1, <2>1, <2>3 DEF Call
  <2> QED BY <2>2, <2>3
<1>2. ASSUME NEW c \in Callers, Resume(c) PROVE TypeOK'
  BY <1>2 DEF Resume, Put
<1>3. ASSUME NEW c \in Callers, Cancel(c) PROVE TypeOK'
  BY <1>3 DEF Cancel
<1>4. CASE ShutdownDb
  BY <1>4 DEF ShutdownDb
<1>5. CASE Connect
  BY <1>5 DEF Connect, SetReady
<1>6. CASE ConnectFails
  BY <1>6 DEF ConnectFails
<1>7. CASE Get
  BY <1>7 DEF Get
<1>8. CASE Stop
  BY <1>8 DEF Stop
<1>9. CASE Begin
  BY <1>9 DEF Begin
<1>10. CASE Fetch
  <2>1. Range(committed) \cup Range(tx) \subseteq Writes
    BY DEF Range
  <2> QED BY <1>10, <2>1 DEF Fetch, Resolve
<1>11. CASE ExecuteWrite
  BY <1>11 DEF ExecuteWrite
<1>12. CASE ExecuteFails
  BY <1>12 DEF ExecuteFails, Resolve
<1>13. CASE Commit
  BY <1>0, <1>13 DEF Commit, Resolve
<1>14. CASE CommitFails
  <2>1. tx' \in Seq(Writes)
    BY <1>0, <1>14 DEF CommitFails
  <2>2. call' \in [Callers -> CallStates]
    BY <1>14 DEF CommitFails, Resolve
  <2> QED BY <1>14, <2>1, <2>2 DEF CommitFails, Resolve
<1>15. CASE Drain
  <2>1. queue' \in Seq(Callers \cup {Pill}) /\ tx' \in Seq(Writes)
    BY <1>0, <1>15 DEF Drain, FailQueued
  <2>2. call' \in [Callers -> CallStates]
    BY <1>15 DEF Drain, FailQueued
  <2> QED BY <1>15, <2>1, <2>2 DEF Drain, FailQueued
<1>16. CASE Restart
  BY <1>16 DEF Restart, SetReady
<1>17. CASE CancelWriter
  <2>1. tx' \in Seq(Writes) /\ committed' \in Seq(Writes)
    BY <1>0, <1>17 DEF CancelWriter
  <2> QED BY <1>17, <2>1 DEF CancelWriter
<1>18. CASE UNCHANGED vars
  BY <1>18 DEF vars
<1> QED
  BY <1>1, <1>2, <1>3, <1>4, <1>5, <1>6, <1>7, <1>8, <1>9, <1>10, <1>11,
     <1>12, <1>13, <1>14, <1>15, <1>16, <1>17, <1>18
     DEF Next, WriterStep, CallerStep

(* Every variable keeps its type. *)
THEOREM TypeCorrect == Spec => []TypeOK
BY TypeInit, TypeStep, PTL DEF Spec

-----------------------------------------------------------------------------
(* The inductive invariant.  A request moves along one line: it is put in the
   queue, is taken in the writer's hand, and, if it writes, enters the log. *)

(* A request on the line has been put and not answered, except by cancelling
   its caller; the hand is full exactly while the writer works on a request,
   and while it commits, that request is the last one executed. *)
LineInv ==
    /\ \A i \in 1..Len(queue) :
          queue[i] \in Callers => call[queue[i]] \in {"pending", "cancelled"}
    /\ hand \in Callers => call[hand] \in {"pending", "cancelled"}
    /\ hand # Nothing <=> writer \in Busy
    /\ writer \in {"executing", "committing"} => hand \in Callers
    /\ writer = "committing" => Len(tx) > 0 /\ tx[Len(tx)] = hand

(* A write in the log has been put and was not drained. *)
LogInv ==
    \A i \in 1..Len(Log) :
        call[Log[i]] \in {"pending", "result", "error", "cancelled"}

(* Tickets increase along the line: log, hand, queue. *)
OrderInv ==
    /\ \A c \in Callers : ticket[c] <= puts
    /\ AppliedInOrder
    /\ \A i, j \in 1..Len(queue) :
          i < j /\ queue[i] \in Callers /\ queue[j] \in Callers
            => ticket[queue[i]] < ticket[queue[j]]
    /\ \A i \in 1..Len(Log), j \in 1..Len(queue) :
          queue[j] \in Callers => ticket[Log[i]] < ticket[queue[j]]
    /\ hand \in Callers =>
          /\ \A j \in 1..Len(queue) :
                queue[j] \in Callers => ticket[hand] < ticket[queue[j]]
          /\ writer \in {"got", "executing"} =>
                \A i \in 1..Len(Log) : ticket[Log[i]] < ticket[hand]

(* What a call knew when it began has been answered, and stays so. *)
KnownInv ==
    /\ \A c \in Callers : \A w \in known[c] : call[w] = "result"
    /\ ReadsFollowAnswers

(* The pill is in one place at most, between the calls put before it and
   those put after it. *)
PillInv ==
    /\ pillAt <= puts
    /\ pillAt = -1 => /\ hand # Pill
                      /\ writer # "stopped"
                      /\ \A i \in 1..Len(queue) : queue[i] # Pill
    /\ \A i, j \in 1..Len(queue) :
          queue[i] = Pill /\ i # j =>
              /\ queue[j] # Pill
              /\ j < i => ticket[queue[j]] <= pillAt
              /\ i < j => ticket[queue[j]] > pillAt
    /\ hand = Pill => \A i \in 1..Len(queue) :
                          queue[i] # Pill /\ ticket[queue[i]] > pillAt
    /\ StopAnswersEarlierCalls

IInv ==
    /\ TypeOK
    /\ LineInv
    /\ LogInv
    /\ OrderInv
    /\ AcknowledgedIsDurable
    /\ NoWaiterStranded
    /\ KnownInv
    /\ PillInv

-----------------------------------------------------------------------------
(* What a call does when it starts or is released by the event: it puts its
   request or waits for the event. *)
Block(c) ==
    /\ call' = [call EXCEPT ![c] = "blocked"]
    /\ UNCHANGED <<queue, puts, ticket>>

(* A caller either puts its request in the queue or waits for the event. *)
LEMMA Arrival ==
    ASSUME NEW c \in Callers, Call(c) \/ Resume(c)
    PROVE  /\ call[c] \in {"new", "woken"}
           /\ UNCHANGED <<writer, hand, pillAt, tx, committed, seen>>
           /\ known' \in {known, [known EXCEPT ![c] = AnsweredWrites]}
           /\ Put(c) \/ Block(c)
<1>1. CASE Call(c)
  <2>1. Put(c) \/ Block(c)
    BY <1>1 DEF Call, Block
  <2> QED BY <1>1, <2>1 DEF Call, storageVars
<1>2. CASE Resume(c)
  BY <1>2 DEF Resume, storageVars
<1> QED BY <1>1, <1>2

(* The log changes in three ways: a statement adds the request in hand, a
   rollback cuts the end off, and every other step leaves it alone. *)
LEMMA LogChange ==
    ASSUME TypeOK, TypeOK', [Next]_vars
    PROVE  /\ Log \in Seq(Writes)
           /\ Log' \in Seq(Writes)
           /\ \/ /\ Len(Log') <= Len(Log)
                 /\ \A i \in 1..Len(Log') : Log'[i] = Log[i]
              \/ /\ ExecuteWrite
                 /\ Len(Log') = Len(Log) + 1
                 /\ \A i \in 1..Len(Log) : Log'[i] = Log[i]
                 /\ Log'[Len(Log')] = hand
<1> USE DEF TypeOK, Log
<1>1. Log \in Seq(Writes) /\ Log' \in Seq(Writes)
  BY ConcatenationType
<1>2. CASE UNCHANGED <<committed, tx>>
  BY <1>1, <1>2
<1>3. CASE committed' = committed /\ tx' = <<>>
  BY <1>1, <1>3
<1>4. CASE committed' = committed \o tx /\ tx' = <<>>
  BY <1>1, <1>4
<1>5. CASE ExecuteWrite
  BY <1>1, <1>5 DEF ExecuteWrite
<1>6. \/ UNCHANGED <<committed, tx>>
      \/ committed' = committed /\ tx' = <<>>
      \/ committed' = committed \o tx /\ tx' = <<>>
      \/ ExecuteWrite
  BY Arrival
     DEF Next, WriterStep, CallerStep, vars, storageVars, Cancel, ShutdownDb,
         Connect, ConnectFails, Get, Stop, Begin, Fetch, ExecuteFails, Commit,
         CommitFails, Drain, FailQueued, Restart, CancelWriter
<1> QED BY <1>1, <1>2, <1>3, <1>4, <1>5, <1>6

(* The request in hand is nowhere in the queue. *)
LEMMA HandNotQueued ==
    ASSUME TypeOK, OrderInv, hand \in Callers
    PROVE  \A i \in 1..Len(queue) : queue[i] # hand
BY DEF TypeOK, OrderInv

-----------------------------------------------------------------------------
(* One lemma per conjunct: no step disturbs it. *)

(* The line is kept by every step. *)
LEMMA LineStep ==
    ASSUME TypeOK, LineInv, OrderInv, [Next]_vars
    PROVE  LineInv'
<1> USE CallersAssumption DEF TypeOK, Busy, clientVars, storageVars, LineInv
<1>1. ASSUME NEW c \in Callers, Call(c) \/ Resume(c) PROVE LineInv'
  <2>1. /\ call[c] \in {"new", "woken"}
        /\ UNCHANGED <<writer, hand, pillAt, tx, committed, seen>>
        /\ Put(c) \/ Block(c)
    BY <1>1, Arrival
  <2>2. CASE Put(c)
    BY <2>1, <2>2 DEF Put
  <2>3. CASE Block(c)
    BY <2>1, <2>3 DEF Block
  <2> QED BY <2>1, <2>2, <2>3
<1>2. ASSUME NEW c \in Callers, Cancel(c) PROVE LineInv'
  BY <1>2 DEF Cancel
<1>3. CASE ShutdownDb
  BY <1>3 DEF ShutdownDb
<1>4. CASE Connect
  BY <1>4 DEF Connect, SetReady
<1>5. CASE ConnectFails
  BY <1>5 DEF ConnectFails
<1>6. CASE Get
  BY <1>6 DEF Get
<1>7. CASE Stop
  BY <1>7 DEF Stop
<1>8. CASE Begin
  BY <1>8 DEF Begin
<1>9. CASE Fetch
  <2>1. call' \in {call, [call EXCEPT ![hand] = "result"], [call EXCEPT ![hand] = "error"]}
    BY <1>9, Zenon DEF Fetch, Resolve
  <2>2. hand' = Nothing /\ writer' \notin Busy /\ queue' = queue
    BY <1>9 DEF Fetch, Resolve
  <2> QED BY <2>1, <2>2, HandNotQueued
<1>10. CASE ExecuteWrite
  BY <1>10 DEF ExecuteWrite
<1>11. CASE ExecuteFails
  <2>1. call' \in {call, [call EXCEPT ![hand] = "result"], [call EXCEPT ![hand] = "error"]}
    BY <1>11, Zenon DEF ExecuteFails, Resolve
  <2>2. hand' = Nothing /\ writer' \notin Busy /\ queue' = queue
    BY <1>11 DEF ExecuteFails, Resolve
  <2> QED BY <2>1, <2>2, HandNotQueued
<1>12. CASE Commit
  <2>1. call' \in {call, [call EXCEPT ![hand] = "result"], [call EXCEPT ![hand] = "error"]}
    BY <1>12, Zenon DEF Commit, Resolve
  <2>2. hand' = Nothing /\ writer' \notin Busy /\ queue' = queue
    BY <1>12 DEF Commit, Resolve
  <2> QED BY <2>1, <2>2, HandNotQueued
<1>13. CASE CommitFails
  <2>1. call' \in {call, [call EXCEPT ![hand] = "result"], [call EXCEPT ![hand] = "error"]}
    BY <1>13, Zenon DEF CommitFails, Resolve
  <2>2. hand' = Nothing /\ writer' \notin Busy /\ queue' = queue
    BY <1>13 DEF CommitFails, Resolve
  <2> QED BY <2>1, <2>2, HandNotQueued
<1>14. CASE Drain
  BY <1>14 DEF Drain, FailQueued
<1>15. CASE Restart
  BY <1>15 DEF Restart, SetReady
<1>16. CASE CancelWriter
  BY <1>16 DEF CancelWriter
<1>17. CASE UNCHANGED vars
  BY <1>17 DEF vars
<1> QED
  BY <1>1, <1>2, <1>3, <1>4, <1>5, <1>6, <1>7, <1>8, <1>9, <1>10, <1>11, <1>12, <1>13, <1>14, <1>15, <1>16, <1>17
     DEF Next, WriterStep, CallerStep

(* How the state of one call may change in one step. *)
CallMoves(d) ==
    \/ call'[d] = call[d]
    \/ call[d] \in {"new", "woken"} /\ call'[d] \in {"blocked", "pending"}
    \/ call[d] = "blocked" /\ call'[d] = "woken"
    \/ call[d] \in {"blocked", "woken", "pending"} /\ call'[d] = "cancelled"
    \/ call[d] = "pending" /\ call'[d] \in {"result", "error"} /\ d = hand
    \/ call[d] = "pending" /\ call'[d] = "drained" /\ d \in Range(queue)

(* Every step moves a call along its life as CallMoves says. *)
LEMMA CallChange ==
    ASSUME TypeOK, NEW d \in Callers, [Next]_vars
    PROVE  CallMoves(d)
<1> USE CallersAssumption DEF TypeOK, CallMoves, clientVars, storageVars
<1>1. ASSUME NEW c \in Callers, Call(c) \/ Resume(c) PROVE CallMoves(d)
  <2>1. /\ call[c] \in {"new", "woken"}
        /\ UNCHANGED <<writer, hand, pillAt, tx, committed, seen>>
        /\ Put(c) \/ Block(c)
    BY <1>1, Arrival
  <2>2. CASE Put(c)
    BY <2>1, <2>2 DEF Put
  <2>3. CASE Block(c)
    BY <2>1, <2>3 DEF Block
  <2> QED BY <2>1, <2>2, <2>3
<1>2. ASSUME NEW c \in Callers, Cancel(c) PROVE CallMoves(d)
  BY <1>2 DEF Cancel
<1>3. CASE ShutdownDb
  BY <1>3 DEF ShutdownDb
<1>4. CASE Connect
  BY <1>4 DEF Connect, SetReady
<1>5. CASE ConnectFails
  BY <1>5 DEF ConnectFails
<1>6. CASE Get
  BY <1>6 DEF Get
<1>7. CASE Stop
  BY <1>7 DEF Stop
<1>8. CASE Begin
  BY <1>8 DEF Begin
<1>9. CASE Fetch
  <2>1. call' \in {call, [call EXCEPT ![hand] = "result"], [call EXCEPT ![hand] = "error"]}
    BY <1>9, Zenon DEF Fetch, Resolve
  <2>2. call[hand] = "pending" \/ call' = call
    BY <1>9, Zenon DEF Fetch, Resolve
  <2> QED BY <2>1, <2>2 DEF CallMoves
<1>10. CASE ExecuteWrite
  BY <1>10 DEF ExecuteWrite
<1>11. CASE ExecuteFails
  <2>1. call' \in {call, [call EXCEPT ![hand] = "result"], [call EXCEPT ![hand] = "error"]}
    BY <1>11, Zenon DEF ExecuteFails, Resolve
  <2>2. call[hand] = "pending" \/ call' = call
    BY <1>11, Zenon DEF ExecuteFails, Resolve
  <2> QED BY <2>1, <2>2 DEF CallMoves
<1>12. CASE Commit
  <2>1. call' \in {call, [call EXCEPT ![hand] = "result"], [call EXCEPT ![hand] = "error"]}
    BY <1>12, Zenon DEF Commit, Resolve
  <2>2. call[hand] = "pending" \/ call' = call
    BY <1>12, Zenon DEF Commit, Resolve
  <2> QED BY <2>1, <2>2 DEF CallMoves
<1>13. CASE CommitFails
  <2>1. call' \in {call, [call EXCEPT ![hand] = "result"], [call EXCEPT ![hand] = "error"]}
    BY <1>13, Zenon DEF CommitFails, Resolve
  <2>2. call[hand] = "pending" \/ call' = call
    BY <1>13, Zenon DEF CommitFails, Resolve
  <2> QED BY <2>1, <2>2 DEF CallMoves
<1>14. CASE Drain
  BY <1>14 DEF Drain, FailQueued
<1>15. CASE Restart
  BY <1>15 DEF Restart, SetReady
<1>16. CASE CancelWriter
  BY <1>16 DEF CancelWriter
<1>17. CASE UNCHANGED vars
  BY <1>17 DEF vars
<1> QED
  BY <1>1, <1>2, <1>3, <1>4, <1>5, <1>6, <1>7, <1>8, <1>9, <1>10, <1>11, <1>12, <1>13, <1>14, <1>15, <1>16, <1>17
     DEF Next, WriterStep, CallerStep

(* A call in the log is not in the queue: its ticket is too small. *)
LEMMA LogNotQueued ==
    ASSUME TypeOK, OrderInv, Log \in Seq(Writes)
    PROVE  \A i \in 1..Len(Log) : Log[i] \notin Range(queue)
<1> SUFFICES ASSUME NEW i \in 1..Len(Log), NEW j \in 1..Len(queue), queue[j] = Log[i]
             PROVE  FALSE
  BY DEF Range, TypeOK
<1>1. Log[i] \in Callers
  BY CallersAssumption
<1> QED BY <1>1 DEF OrderInv, TypeOK

(* A write in the log stays put and undrained. *)
LEMMA LogStep ==
    ASSUME TypeOK, TypeOK', LineInv, LogInv, OrderInv, [Next]_vars
    PROVE  LogInv'
<1> DEFINE Put4 == {"pending", "result", "error", "cancelled"}
<1>1. Log \in Seq(Writes) /\ Log' \in Seq(Writes)
  BY LogChange
<1>2. \A i \in 1..Len(Log) : call'[Log[i]] \in Put4
  <2> SUFFICES ASSUME NEW i \in 1..Len(Log) PROVE call'[Log[i]] \in Put4
    OBVIOUS
  <2>1. Log[i] \in Callers /\ Log[i] \notin Range(queue)
    BY <1>1, LogNotQueued, CallersAssumption
  <2>2. call[Log[i]] \in Put4
    BY DEF LogInv
  <2>3. CallMoves(Log[i])
    BY <2>1, CallChange
  <2> QED BY <2>1, <2>2, <2>3 DEF CallMoves
<1>3. CASE Len(Log') <= Len(Log) /\ \A i \in 1..Len(Log') : Log'[i] = Log[i]
  BY <1>1, <1>2, <1>3 DEF LogInv
<1>4. CASE /\ ExecuteWrite
           /\ Len(Log') = Len(Log) + 1
           /\ \A i \in 1..Len(Log) : Log'[i] = Log[i]
           /\ Log'[Len(Log')] = hand
  <2>1. call'[hand] \in Put4
    BY <1>4, CallersAssumption DEF ExecuteWrite, LineInv
  <2> QED BY <1>1, <1>2, <1>4, <2>1 DEF LogInv
<1> QED BY <1>3, <1>4, LogChange

(* Tickets keep increasing along the line. *)
LEMMA OrderStep ==
    ASSUME TypeOK, TypeOK', LineInv, LogInv, OrderInv, [Next]_vars
    PROVE  OrderInv'
<1> DEFINE Line(c) == \/ c = hand
                      \/ c \in Range(queue)
                      \/ \E i \in 1..Len(Log) : Log[i] = c
<1>1. Log \in Seq(Writes) /\ Log' \in Seq(Writes)
  BY LogChange
<1>2. ASSUME NEW c \in Callers, Put(c), Call(c) \/ Resume(c) PROVE OrderInv'
  <2>1. /\ call[c] \in {"new", "woken"}
        /\ UNCHANGED <<writer, hand, tx, committed>>
    BY <1>2, Arrival
  <2>2. Log' = Log
    BY <2>1 DEF Log
  <2>3. /\ c # hand
        /\ \A i \in 1..Len(queue) : queue[i] # c
        /\ \A i \in 1..Len(Log) : Log[i] # c
    BY <2>1 DEF LineInv, LogInv
  <2>4. /\ queue' = Append(queue, c)
        /\ puts' = puts + 1
        /\ ticket' = [ticket EXCEPT ![c] = puts + 1]
    BY <1>2 DEF Put
  <2>5. \A d \in Callers : d # c => ticket'[d] = ticket[d] /\ ticket[d] < ticket'[c]
    BY <2>4 DEF TypeOK, OrderInv
  <2>6. /\ Len(queue') = Len(queue) + 1
        /\ \A i \in 1..Len(queue) : queue'[i] = queue[i]
        /\ queue'[Len(queue')] = c
    BY <2>4 DEF TypeOK
  <2>7. \A d \in Callers : ticket'[d] <= puts'
    BY <2>4 DEF TypeOK, OrderInv
  <2>8. AppliedInOrder'
    BY <1>1, <2>2, <2>3, <2>5, CallersAssumption DEF OrderInv, AppliedInOrder
  <2>12. \A j \in 1..Len(queue') :
            j = Len(queue') \/ (j \in 1..Len(queue) /\ queue'[j] = queue[j])
    BY <2>6 DEF TypeOK
  <2>13. \A i \in 1..Len(queue) : queue[i] \in Callers =>
            ticket'[queue[i]] = ticket[queue[i]] /\ ticket[queue[i]] < ticket'[c]
    BY <2>3, <2>5
  <2>14. \A i \in 1..Len(Log) :
            ticket'[Log[i]] = ticket[Log[i]] /\ ticket[Log[i]] < ticket'[c]
    BY <1>1, <2>3, <2>5, CallersAssumption
  <2>9. \A i, j \in 1..Len(queue') :
            i < j /\ queue'[i] \in Callers /\ queue'[j] \in Callers
              => ticket'[queue'[i]] < ticket'[queue'[j]]
    <3> SUFFICES ASSUME NEW i \in 1..Len(queue'), NEW j \in 1..Len(queue'), i < j,
                        queue'[i] \in Callers, queue'[j] \in Callers
                 PROVE  ticket'[queue'[i]] < ticket'[queue'[j]]
      OBVIOUS
    <3>1. i \in 1..Len(queue) /\ queue'[i] = queue[i]
      <4>1. i # Len(queue')
        BY <2>6 DEF TypeOK
      <4> QED BY <2>12, <4>1
    <3>2. CASE j = Len(queue')
      BY <2>6, <2>13, <3>1, <3>2
    <3>3. CASE j # Len(queue')
      <4>1. j \in 1..Len(queue) /\ queue'[j] = queue[j]
        BY <2>12, <3>3
      <4> QED BY <2>13, <3>1, <4>1 DEF OrderInv
    <3> QED BY <3>2, <3>3
  <2>10. \A i \in 1..Len(Log'), j \in 1..Len(queue') :
            queue'[j] \in Callers => ticket'[Log'[i]] < ticket'[queue'[j]]
    <3> SUFFICES ASSUME NEW i \in 1..Len(Log), NEW j \in 1..Len(queue'),
                        queue'[j] \in Callers
                 PROVE  ticket'[Log[i]] < ticket'[queue'[j]]
      BY <2>2
    <3>1. CASE j = Len(queue')
      BY <2>6, <2>14, <3>1
    <3>2. CASE j # Len(queue')
      <4>1. j \in 1..Len(queue) /\ queue'[j] = queue[j]
        BY <2>12, <3>2
      <4> QED BY <2>13, <2>14, <4>1 DEF OrderInv
    <3> QED BY <3>1, <3>2
  <2>11. hand' \in Callers =>
            /\ \A j \in 1..Len(queue') :
                  queue'[j] \in Callers => ticket'[hand'] < ticket'[queue'[j]]
            /\ writer' \in {"got", "executing"} =>
                  \A i \in 1..Len(Log') : ticket'[Log'[i]] < ticket'[hand']
    <3> SUFFICES ASSUME hand \in Callers
                 PROVE  /\ \A j \in 1..Len(queue') :
                              queue'[j] \in Callers => ticket'[hand] < ticket'[queue'[j]]
                        /\ writer \in {"got", "executing"} =>
                              \A i \in 1..Len(Log) : ticket'[Log[i]] < ticket'[hand]
      BY <2>1, <2>2
    <3>1. ticket'[hand] = ticket[hand] /\ ticket[hand] < ticket'[c]
      BY <2>3, <2>5
    <3>2. ASSUME NEW j \in 1..Len(queue'), queue'[j] \in Callers
          PROVE  ticket'[hand] < ticket'[queue'[j]]
      <4>1. CASE j = Len(queue')
        BY <2>6, <3>1, <4>1
      <4>2. CASE j # Len(queue')
        <5>1. j \in 1..Len(queue) /\ queue'[j] = queue[j]
          BY <2>12, <4>2
        <5> QED BY <2>13, <3>1, <3>2, <5>1 DEF OrderInv
      <4> QED BY <4>1, <4>2
    <3>3. writer \in {"got", "executing"} =>
              \A i \in 1..Len(Log) : ticket'[Log[i]] < ticket'[hand]
      BY <2>14, <3>1 DEF OrderInv
    <3> QED BY <3>2, <3>3
  <2> QED BY <2>7, <2>8, <2>9, <2>10, <2>11 DEF OrderInv
<1>3. CASE Get
  <2>1. /\ hand' = queue[1]
        /\ Len(queue') = Len(queue) - 1
        /\ \A i \in 1..Len(queue') : queue'[i] = queue[i + 1]
        /\ Len(queue) > 0
    BY <1>3 DEF Get, TypeOK
  <2>2. Log' = Log /\ UNCHANGED <<ticket, puts>>
    BY <1>3 DEF Get, Log, clientVars, storageVars
  <2>3. AppliedInOrder' /\ \A c \in Callers : ticket'[c] <= puts'
    BY <2>2 DEF OrderInv, AppliedInOrder
  <2>4. \A i \in 1..Len(queue') : i + 1 \in 1..Len(queue)
    BY <2>1 DEF TypeOK
  <2>5. \A i, j \in 1..Len(queue') :
            i < j /\ queue'[i] \in Callers /\ queue'[j] \in Callers
              => ticket'[queue'[i]] < ticket'[queue'[j]]
    BY <2>1, <2>2, <2>4 DEF OrderInv
  <2>6. \A i \in 1..Len(Log), j \in 1..Len(queue') :
            queue'[j] \in Callers => ticket[Log[i]] < ticket[queue'[j]]
    BY <2>1, <2>4 DEF OrderInv
  <2>7. hand' \in Callers =>
            \A j \in 1..Len(queue') :
                queue'[j] \in Callers => ticket[hand'] < ticket[queue'[j]]
    <3>1. \A j \in 1..Len(queue') : 1 \in 1..Len(queue) /\ 1 < j + 1
      BY <2>1 DEF TypeOK
    <3> QED BY <2>1, <2>4, <3>1 DEF OrderInv
  <2>8. hand' \in Callers => \A i \in 1..Len(Log) : ticket[Log[i]] < ticket[hand']
    <3>1. 1 \in 1..Len(queue)
      BY <2>1 DEF TypeOK
    <3> QED BY <2>1, <3>1 DEF OrderInv
  <2> QED BY <2>2, <2>3, <2>5, <2>6, <2>7, <2>8 DEF OrderInv
<1>4. CASE ExecuteWrite
  <2>1. /\ Len(Log') = Len(Log) + 1
        /\ \A i \in 1..Len(Log) : Log'[i] = Log[i]
        /\ Log'[Len(Log')] = hand
    BY <1>4, ConcatenationType DEF ExecuteWrite, Log, TypeOK
  <2>2. /\ UNCHANGED <<ticket, puts, queue, hand>>
        /\ writer = "executing" /\ writer' = "committing"
        /\ hand \in Callers
    BY <1>4, CallersAssumption DEF ExecuteWrite, clientVars
  <2>3. AppliedInOrder'
    BY <1>1, <2>1, <2>2 DEF OrderInv, AppliedInOrder
  <2>4. \A i \in 1..Len(Log'), j \in 1..Len(queue) :
            queue[j] \in Callers => ticket[Log'[i]] < ticket[queue[j]]
    BY <1>1, <2>1, <2>2 DEF OrderInv
  <2> QED BY <2>2, <2>3, <2>4 DEF OrderInv
<1>5. CASE /\ Len(Log') <= Len(Log)
           /\ \A i \in 1..Len(Log') : Log'[i] = Log[i]
           /\ UNCHANGED <<ticket, puts>>
           /\ queue' \in {queue, <<>>, Append(queue, Pill)}
           /\ hand' \in {hand, Nothing}
           /\ writer' \in {"got", "executing"} /\ hand' \in Callers
                 => writer \in {"got", "executing"}
  <2>1. /\ Len(queue') >= 0
        /\ \A i \in 1..Len(queue') :
            queue'[i] \in Callers => i \in 1..Len(queue) /\ queue'[i] = queue[i]
    <3>1. CASE queue' = queue \/ queue' = <<>>
      BY <3>1 DEF TypeOK
    <3>2. CASE queue' = Append(queue, Pill)
      <4>1. /\ Len(queue') = Len(queue) + 1
            /\ queue'[Len(queue')] = Pill
            /\ \A i \in 1..Len(queue) : queue'[i] = queue[i]
            /\ Len(queue) \in Nat
        BY <3>2 DEF TypeOK
      <4>2. \A i \in 1..Len(queue') : i = Len(queue') \/ i \in 1..Len(queue)
        BY <4>1
      <4> QED BY <4>1, <4>2, CallersAssumption
    <3> QED BY <1>5, <3>1, <3>2
  <2>2. AppliedInOrder'
    <3>1. \A i \in 1..Len(Log') : i \in 1..Len(Log) /\ Log'[i] = Log[i]
      BY <1>1, <1>5
    <3> QED BY <1>5, <3>1 DEF OrderInv, AppliedInOrder
  <2>3. \A i, j \in 1..Len(queue') :
            i < j /\ queue'[i] \in Callers /\ queue'[j] \in Callers
              => ticket'[queue'[i]] < ticket'[queue'[j]]
    BY <1>5, <2>1 DEF OrderInv
  <2>4. \A i \in 1..Len(Log'), j \in 1..Len(queue') :
            queue'[j] \in Callers => ticket'[Log'[i]] < ticket'[queue'[j]]
    <3>1. \A i \in 1..Len(Log') : i \in 1..Len(Log) /\ Log'[i] = Log[i]
      BY <1>1, <1>5
    <3> QED BY <1>5, <2>1, <3>1 DEF OrderInv
  <2>5. hand' \in Callers =>
            /\ \A j \in 1..Len(queue') :
                  queue'[j] \in Callers => ticket'[hand'] < ticket'[queue'[j]]
            /\ writer' \in {"got", "executing"} =>
                  \A i \in 1..Len(Log') : ticket'[Log'[i]] < ticket'[hand']
    <3> SUFFICES ASSUME hand' \in Callers
                 PROVE  /\ \A j \in 1..Len(queue') :
                              queue'[j] \in Callers => ticket[hand'] < ticket[queue'[j]]
                        /\ writer' \in {"got", "executing"} =>
                              \A i \in 1..Len(Log') : ticket[Log'[i]] < ticket[hand']
      BY <1>5
    <3>1. hand' = hand
      BY <1>5, CallersAssumption
    <3> QED BY <1>1, <1>5, <2>1, <3>1 DEF OrderInv
  <2> QED BY <1>5, <2>2, <2>3, <2>4, <2>5 DEF OrderInv
<1>6. \/ Get \/ ExecuteWrite
      \/ \E c \in Callers : Put(c) /\ (Call(c) \/ Resume(c))
      \/ /\ UNCHANGED <<ticket, puts>>
         /\ queue' \in {queue, <<>>, Append(queue, Pill)}
         /\ hand' \in {hand, Nothing}
         /\ writer' \in {"got", "executing"} /\ hand' \in Callers
               => writer \in {"got", "executing"}
  <2> DEFINE Calm == /\ UNCHANGED <<ticket, puts>>
                     /\ queue' \in {queue, <<>>, Append(queue, Pill)}
                     /\ hand' \in {hand, Nothing}
                     /\ writer' \in {"got", "executing"} /\ hand' \in Callers
                           => writer \in {"got", "executing"}
  <2>1. ASSUME NEW c \in Callers, Block(c), Call(c) \/ Resume(c) PROVE Calm
    <3>1. UNCHANGED <<writer, hand>>
      BY <2>1, Arrival
    <3> QED BY <2>1, <3>1 DEF Block
  <2>2. ASSUME NEW c \in Callers, Cancel(c) PROVE Calm
    BY <2>2 DEF Cancel, clientVars
  <2>3. CASE ShutdownDb \/ Connect \/ ConnectFails \/ Stop \/ Begin \/ UNCHANGED vars
    BY <2>3 DEF ShutdownDb, Connect, ConnectFails, Stop, Begin, clientVars, vars
  <2>4. CASE Fetch \/ ExecuteFails \/ Commit \/ CommitFails
    BY <2>4, CallersAssumption DEF Fetch, ExecuteFails, Commit, CommitFails, Resolve, clientVars
  <2>5. CASE Drain \/ Restart \/ CancelWriter
    BY <2>5 DEF Drain, FailQueued, Restart, CancelWriter, clientVars
  <2> QED BY <2>1, <2>2, <2>3, <2>4, <2>5, Arrival
          DEF Next, WriterStep, CallerStep
<1> QED BY <1>2, <1>3, <1>4, <1>5, <1>6, LogChange

(* The file only grows. *)
LEMMA CommittedGrows ==
    ASSUME TypeOK, [Next]_vars
    PROVE  Range(committed) \subseteq Range(committed')
<1>1. committed' = committed \/ committed' = committed \o tx
  BY Arrival
     DEF Next, WriterStep, CallerStep, vars, storageVars, Cancel, ShutdownDb,
         Connect, ConnectFails, Get, Stop, Begin, Fetch, ExecuteWrite,
         ExecuteFails, Commit, CommitFails, Drain, FailQueued, Restart, CancelWriter
<1>2. CASE committed' = committed \o tx
  <2>1. \A i \in 1..Len(committed) :
            i \in 1..Len(committed') /\ committed'[i] = committed[i]
    BY <1>2 DEF TypeOK
  <2>2. DOMAIN committed = 1..Len(committed) /\ DOMAIN committed' = 1..Len(committed')
    BY <1>2 DEF TypeOK
  <2> QED BY <2>1, <2>2 DEF Range
<1> QED BY <1>1, <1>2

(* A call turns "result" by a fetch, or by a commit that has put its write in
   the file. *)
LEMMA ResultMeans ==
    ASSUME TypeOK, LineInv, [Next]_vars, NEW d \in Callers,
           call[d] # "result", call'[d] = "result"
    PROVE  /\ d = hand
           /\ \/ Fetch /\ d \notin Writes
              \/ Commit /\ d \in Range(committed')
<1>1. d = hand
  BY CallChange DEF CallMoves
<1>2. Fetch \/ Commit
  <2>1. ASSUME NEW c \in Callers, Call(c) \/ Resume(c) PROVE FALSE
    <3>1. CASE Put(c)
      BY <3>1 DEF Put, TypeOK
    <3>2. CASE Block(c)
      BY <3>2 DEF Block, TypeOK
    <3> QED BY <2>1, <3>1, <3>2, Arrival
  <2>2. ASSUME NEW c \in Callers, Cancel(c) PROVE FALSE
    BY <2>2 DEF Cancel, TypeOK
  <2>3. CASE ExecuteFails \/ CommitFails
    BY <2>3 DEF ExecuteFails, CommitFails, Resolve, TypeOK
  <2>4. CASE Drain \/ Connect \/ Restart
    BY <2>4 DEF Drain, FailQueued, Connect, Restart, SetReady, TypeOK
  <2>5. CASE ShutdownDb \/ ConnectFails \/ Get \/ Stop \/ Begin
             \/ ExecuteWrite \/ CancelWriter \/ UNCHANGED vars
    BY <2>5 DEF ShutdownDb, ConnectFails, Get, Stop, Begin, ExecuteWrite,
                CancelWriter, vars
  <2> QED BY <2>1, <2>2, <2>3, <2>4, <2>5 DEF Next, WriterStep, CallerStep
<1>3. Commit => d \in Range(committed')
  <2> SUFFICES ASSUME Commit PROVE d \in Range(committed')
    OBVIOUS
  <2>1. Len(tx) > 0 /\ tx[Len(tx)] = d
    BY <1>1 DEF Commit, LineInv
  <2>2. committed' = committed \o tx
    BY DEF Commit
  <2>3. /\ Len(committed) + Len(tx) \in 1..Len(committed')
        /\ committed'[Len(committed) + Len(tx)] = d
    BY <2>1, <2>2 DEF TypeOK
  <2>4. committed' \in Seq(Writes)
    BY <2>2, ConcatenationType DEF TypeOK
  <2> QED BY <2>3, <2>4 DEF Range
<1>4. Fetch => d \notin Writes
  BY <1>1 DEF Fetch
<1> QED BY <1>1, <1>2, <1>3, <1>4

(* Answered writes stay in the file. *)
LEMMA DurableStep ==
    ASSUME TypeOK, LineInv, AcknowledgedIsDurable, [Next]_vars
    PROVE  AcknowledgedIsDurable'
<1> SUFFICES ASSUME NEW w \in Writes, call'[w] = "result"
             PROVE  w \in Range(committed')
  BY DEF AcknowledgedIsDurable
<1>1. CASE call[w] = "result"
  BY <1>1, CommittedGrows DEF AcknowledgedIsDurable
<1>2. CASE call[w] # "result"
  BY <1>2, ResultMeans, CallersAssumption
<1> QED BY <1>1, <1>2

(* Append adds one element, Get takes one. *)
LEMMA AppendRange ==
    ASSUME TypeOK, NEW e \in Callers \cup {Pill}
    PROVE  Range(Append(queue, e)) = Range(queue) \cup {e}
<1>1. /\ Len(Append(queue, e)) = Len(queue) + 1
      /\ DOMAIN Append(queue, e) = 1..Len(queue) + 1
      /\ DOMAIN queue = 1..Len(queue)
      /\ \A i \in 1..Len(queue) : Append(queue, e)[i] = queue[i]
      /\ Append(queue, e)[Len(queue) + 1] = e
      /\ Len(queue) \in Nat
  BY DEF TypeOK
<1> QED BY <1>1 DEF Range

(* What a sequence holds besides its head. *)
LEMMA TailRange ==
    ASSUME NEW S, NEW s \in Seq(S), s # <<>>
    PROVE  Range(s) = Range(Tail(s)) \cup {Head(s)}
<1>1. /\ DOMAIN Tail(s) = 1..Len(s) - 1
      /\ DOMAIN s = 1..Len(s)
      /\ \A i \in 1..Len(s) - 1 : Tail(s)[i] = s[i + 1]
      /\ Head(s) = s[1]
      /\ Len(s) \in Nat /\ Len(s) > 0
  OBVIOUS
<1>2. ASSUME NEW x \in Range(s) PROVE x \in Range(Tail(s)) \cup {Head(s)}
  <2>1. PICK i \in 1..Len(s) : x = s[i]
    BY <1>1 DEF Range
  <2>2. CASE i = 1
    BY <1>1, <2>1, <2>2
  <2>3. CASE i # 1
    <3>1. i - 1 \in 1..Len(s) - 1 /\ Tail(s)[i - 1] = x
      BY <1>1, <2>1, <2>3
    <3> QED BY <1>1, <3>1 DEF Range
  <2> QED BY <2>2, <2>3
<1>3. Range(Tail(s)) \cup {Head(s)} \subseteq Range(s)
  BY <1>1 DEF Range
<1> QED BY <1>2, <1>3

(* No step strands a call that awaits its future. *)
LEMMA StrandStep ==
    ASSUME TypeOK, LineInv, NoWaiterStranded, [Next]_vars
    PROVE  NoWaiterStranded'
<1> USE CallersAssumption DEF TypeOK, Busy, Alive, NoWaiterStranded
<1>1. ASSUME NEW c \in Callers, Call(c) \/ Resume(c) PROVE NoWaiterStranded'
  <2>1. /\ call[c] \in {"new", "woken"}
        /\ UNCHANGED <<writer, hand>>
        /\ Put(c) \/ Block(c)
    BY <1>1, Arrival
  <2>2. CASE Put(c)
    <3>1. queue \in Seq(Callers \cup {Pill}) /\ c \in Callers \cup {Pill}
      OBVIOUS
    <3>2. Range(Append(queue, c)) = Range(queue) \cup {c}
      BY AppendRange
    <3> QED BY <2>1, <2>2, <3>2 DEF Put
  <2>3. CASE Block(c)
    BY <2>1, <2>3 DEF Block
  <2> QED BY <2>1, <2>2, <2>3
<1>2. ASSUME NEW c \in Callers, Cancel(c) PROVE NoWaiterStranded'
  BY <1>2 DEF Cancel
<1>3. CASE ShutdownDb
  <2>0. queue \in Seq(Callers \cup {Pill}) /\ Pill \in Callers \cup {Pill}
    OBVIOUS
  <2>1. Range(Append(queue, Pill)) = Range(queue) \cup {Pill}
    BY AppendRange
  <2> QED BY <1>3, <2>1 DEF ShutdownDb
<1>4. CASE Connect
  BY <1>4 DEF Connect, SetReady
<1>5. CASE ConnectFails
  BY <1>5 DEF ConnectFails
<1>6. CASE Get
  <2>1. Range(queue) = Range(queue') \cup {hand'}
    BY <1>6, TailRange DEF Get
  <2>2. hand = Nothing /\ UNCHANGED call /\ Alive
    BY <1>6 DEF Get, LineInv, Alive
  <2> QED BY <2>1, <2>2
<1>7. CASE Stop
  BY <1>7 DEF Stop, LineInv
<1>8. CASE Begin
  BY <1>8 DEF Begin
<1>9. CASE Fetch
  <2>1. queue' = queue /\ hand' = Nothing /\ Alive
    BY <1>9 DEF Fetch, Resolve, Alive
  <2>2. \A c \in Callers : call'[c] = "pending" => call[c] = "pending" /\ c # hand
    <3>1. CASE call[hand] = "pending"
      BY <1>9, <3>1 DEF Fetch, Resolve
    <3>2. CASE call[hand] # "pending"
      BY <1>9, <3>2 DEF Fetch, Resolve
    <3> QED BY <3>1, <3>2
  <2> QED BY <2>1, <2>2
<1>10. CASE ExecuteWrite
  BY <1>10 DEF ExecuteWrite
<1>11. CASE ExecuteFails
  <2>1. queue' = queue /\ hand' = Nothing /\ Alive
    BY <1>11 DEF ExecuteFails, Resolve, Alive
  <2>2. \A c \in Callers : call'[c] = "pending" => call[c] = "pending" /\ c # hand
    <3>1. CASE call[hand] = "pending"
      BY <1>11, <3>1 DEF ExecuteFails, Resolve
    <3>2. CASE call[hand] # "pending"
      BY <1>11, <3>2 DEF ExecuteFails, Resolve
    <3> QED BY <3>1, <3>2
  <2> QED BY <2>1, <2>2
<1>12. CASE Commit
  <2>1. queue' = queue /\ hand' = Nothing /\ Alive
    BY <1>12 DEF Commit, Resolve, Alive
  <2>2. \A c \in Callers : call'[c] = "pending" => call[c] = "pending" /\ c # hand
    <3>1. CASE call[hand] = "pending"
      BY <1>12, <3>1 DEF Commit, Resolve
    <3>2. CASE call[hand] # "pending"
      BY <1>12, <3>2 DEF Commit, Resolve
    <3> QED BY <3>1, <3>2
  <2> QED BY <2>1, <2>2
<1>13. CASE CommitFails
  <2>1. queue' = queue /\ hand' = Nothing /\ Alive
    BY <1>13 DEF CommitFails, Resolve, Alive
  <2>2. \A c \in Callers : call'[c] = "pending" => call[c] = "pending" /\ c # hand
    <3>1. CASE call[hand] = "pending"
      BY <1>13, <3>1 DEF CommitFails, Resolve
    <3>2. CASE call[hand] # "pending"
      BY <1>13, <3>2 DEF CommitFails, Resolve
    <3> QED BY <3>1, <3>2
  <2> QED BY <2>1, <2>2
<1>14. CASE Drain
  BY <1>14 DEF Drain, FailQueued, LineInv
<1>15. CASE Restart
  BY <1>15 DEF Restart, SetReady
<1>16. CASE CancelWriter
  BY <1>16 DEF CancelWriter
<1>17. CASE UNCHANGED vars
  BY <1>17 DEF vars
<1> QED
  BY <1>1, <1>2, <1>3, <1>4, <1>5, <1>6, <1>7, <1>8, <1>9, <1>10, <1>11, <1>12, <1>13, <1>14, <1>15, <1>16, <1>17
     DEF Next, WriterStep, CallerStep

(* What is known stays answered, and a fetch sees all of it. *)
LEMMA KnownStep ==
    ASSUME TypeOK, TypeOK', LineInv, AcknowledgedIsDurable, KnownInv, [Next]_vars
    PROVE  KnownInv'
<1>1. \A w \in Writes : call[w] = "result" => call'[w] = "result"
  BY CallChange, CallersAssumption DEF CallMoves
<1>2. \A c \in Callers :
          \/ known'[c] = known[c]
          \/ call[c] \in {"new", "woken"} /\ known'[c] = AnsweredWrites
  <2>1. ASSUME NEW d \in Callers, Call(d) \/ Resume(d)
        PROVE  \A c \in Callers :
                  \/ known'[c] = known[c]
                  \/ call[c] \in {"new", "woken"} /\ known'[c] = AnsweredWrites
    <3>1. call[d] \in {"new", "woken"}
      BY <2>1, Arrival
    <3>2. known' \in {known, [known EXCEPT ![d] = AnsweredWrites]}
      BY <2>1, Arrival
    <3> QED BY <3>1, <3>2 DEF TypeOK
  <2>2. \/ \E d \in Callers : Call(d) \/ Resume(d)
        \/ known' = known
    BY DEF Next, WriterStep, CallerStep, vars, clientVars, Cancel, ShutdownDb,
           Connect, ConnectFails, Get, Stop, Begin, Fetch, ExecuteWrite,
           ExecuteFails, Commit, CommitFails, Drain, FailQueued, Restart, CancelWriter
  <2> QED BY <2>1, <2>2
<1>3. \A c \in Callers : known[c] \subseteq Writes /\ AnsweredWrites \subseteq Writes
  BY DEF TypeOK, AnsweredWrites
<1>4. \A c \in Callers : \A w \in known'[c] : call'[w] = "result"
  BY <1>1, <1>2, <1>3 DEF KnownInv, AnsweredWrites
<1>5. ASSUME NEW c \in Callers \ Writes, call'[c] = "result"
      PROVE  known'[c] \subseteq seen'[c]
  <2>1. CASE call[c] = "result"
    <3>1. known'[c] = known[c]
      BY <1>2, <2>1
    <3>2. seen'[c] = seen[c]
      <4>1. CASE Fetch
        <5>1. c # hand
          BY <2>1, <4>1 DEF Fetch, LineInv
        <5> QED BY <4>1, <5>1 DEF Fetch, TypeOK
      <4>2. CASE ~Fetch
        <5>1. seen' = seen
          BY <4>2, Arrival
             DEF Next, WriterStep, CallerStep, vars, storageVars, Cancel,
                 ShutdownDb, Connect, ConnectFails, Get, Stop, Begin,
                 ExecuteWrite, ExecuteFails, Commit, CommitFails, Drain, FailQueued,
                 Restart, CancelWriter
        <5> QED BY <5>1
      <4> QED BY <4>1, <4>2
    <3> QED BY <2>1, <3>1, <3>2 DEF KnownInv, ReadsFollowAnswers
  <2>2. CASE call[c] # "result"
    <3>0. Range(committed') \subseteq Writes
      BY DEF TypeOK, Range
    <3>1. Fetch /\ c = hand
      BY <1>5, <2>2, <3>0, ResultMeans
    <3>2. seen'[c] = Range(committed) \cup Range(tx)
      BY <3>1 DEF Fetch, TypeOK
    <3>3. known'[c] = known[c]
      BY <3>1 DEF Fetch, clientVars
    <3>4. known[c] \subseteq Range(committed)
      BY <1>3 DEF KnownInv, AcknowledgedIsDurable
    <3> QED BY <3>2, <3>3, <3>4
  <2> QED BY <2>1, <2>2
<1> QED BY <1>4, <1>5 DEF KnownInv, ReadsFollowAnswers

(* The pill keeps its place between earlier and later calls. *)
LEMMA PillStep ==
    ASSUME TypeOK, TypeOK', LineInv, OrderInv, NoWaiterStranded, PillInv, [Next]_vars
    PROVE  PillInv'
<1> USE CallersAssumption DEF PillInv
<1>1. ASSUME NEW c \in Callers, Put(c), Call(c) \/ Resume(c) PROVE PillInv'
  <2>1. /\ call[c] \in {"new", "woken"}
        /\ UNCHANGED <<writer, hand, pillAt>>
    BY <1>1, Arrival
  <2>2. \A i \in 1..Len(queue) : queue[i] # c
    BY <2>1 DEF LineInv
  <2>3. /\ queue' = Append(queue, c)
        /\ puts' = puts + 1
        /\ ticket' = [ticket EXCEPT ![c] = puts + 1]
        /\ call' = [call EXCEPT ![c] = "pending"]
    BY <1>1 DEF Put
  <2>4. \A i \in 1..Len(queue') :
            \/ i \in 1..Len(queue) /\ queue'[i] = queue[i]
            \/ i = Len(queue) + 1 /\ queue'[i] = c
    BY <2>3 DEF TypeOK
  <2>5. /\ ticket'[c] > pillAt /\ c # Pill /\ pillAt <= puts'
        /\ \A i \in 1..Len(queue) : ticket'[queue[i]] = ticket[queue[i]]
    BY <2>2, <2>3 DEF TypeOK
  <2>6. pillAt = -1 => \A i \in 1..Len(queue') : queue'[i] # Pill
    BY <2>4, <2>5
  <2>7. ASSUME NEW i \in 1..Len(queue'), NEW j \in 1..Len(queue'), queue'[i] = Pill, i # j
        PROVE  /\ queue'[j] # Pill
               /\ j < i => ticket'[queue'[j]] <= pillAt
               /\ i < j => ticket'[queue'[j]] > pillAt
    <3>1. i \in 1..Len(queue) /\ queue'[i] = queue[i]
      BY <2>4, <2>5, <2>7
    <3>2. CASE j = Len(queue) + 1
      <4>1. queue'[j] = c /\ ~(j < i)
        BY <2>4, <3>1, <3>2 DEF TypeOK
      <4> QED BY <2>5, <4>1
    <3>3. CASE j # Len(queue) + 1
      <4>1. j \in 1..Len(queue) /\ queue'[j] = queue[j]
        BY <2>4, <3>3
      <4> QED BY <2>5, <2>7, <3>1, <4>1
    <3> QED BY <3>2, <3>3
  <2>8. hand = Pill => \A i \in 1..Len(queue') :
                           queue'[i] # Pill /\ ticket'[queue'[i]] > pillAt
    BY <2>4, <2>5
  <2>9. StopAnswersEarlierCalls'
    BY <2>1, <2>3, <2>5 DEF StopAnswersEarlierCalls, TypeOK
  <2> QED BY <2>1, <2>5, <2>6, <2>7, <2>8, <2>9
<1>2. CASE Get
  <2>1. /\ hand' = queue[1]
        /\ 1 \in 1..Len(queue)
        /\ \A i \in 1..Len(queue') : /\ i + 1 \in 1..Len(queue)
                                     /\ queue'[i] = queue[i + 1]
                                     /\ 1 < i + 1
    BY <1>2 DEF Get, TypeOK
  <2>2. UNCHANGED <<call, ticket, puts, pillAt>> /\ writer' = "got"
    BY <1>2 DEF Get, clientVars
  <2>3. ASSUME NEW i \in 1..Len(queue'), NEW j \in 1..Len(queue'), queue'[i] = Pill, i # j
        PROVE  /\ queue'[j] # Pill
               /\ j < i => ticket[queue'[j]] <= pillAt
               /\ i < j => ticket[queue'[j]] > pillAt
    <3>1. /\ i + 1 # j + 1
          /\ j < i => j + 1 < i + 1
          /\ i < j => i + 1 < j + 1
      BY <2>3 DEF TypeOK
    <3> QED BY <2>1, <2>3, <3>1
  <2>4. hand' = Pill => \A i \in 1..Len(queue') :
                            queue'[i] # Pill /\ ticket[queue'[i]] > pillAt
    <3>1. \A i \in 1..Len(queue') : i + 1 # 1
      BY <2>1 DEF TypeOK
    <3> QED BY <2>1, <3>1
  <2>5. StopAnswersEarlierCalls'
    BY <2>2 DEF StopAnswersEarlierCalls
  <2> QED BY <2>1, <2>2, <2>3, <2>4, <2>5
<1>3. CASE ShutdownDb
  <2>1. /\ pillAt = -1 /\ pillAt' = puts /\ puts # -1
        /\ queue' = Append(queue, Pill)
        /\ UNCHANGED <<call, ticket, puts, hand, writer>>
    BY <1>3 DEF ShutdownDb, clientVars, TypeOK
  <2>2. /\ Len(queue') = Len(queue) + 1
        /\ queue'[Len(queue')] = Pill
        /\ \A i \in 1..Len(queue') :
              \/ i = Len(queue')
              \/ /\ i \in 1..Len(queue) /\ queue'[i] = queue[i]
                 /\ queue[i] \in Callers /\ i < Len(queue')
    BY <2>1 DEF TypeOK
  <2>3. \A i \in 1..Len(queue) : queue[i] \in Callers => ticket[queue[i]] <= puts
    BY DEF OrderInv
  <2>4. StopAnswersEarlierCalls'
    BY <2>1 DEF StopAnswersEarlierCalls
  <2>5. ASSUME NEW i \in 1..Len(queue'), NEW j \in 1..Len(queue'), queue'[i] = Pill, i # j
        PROVE  /\ queue'[j] # Pill
               /\ j < i => ticket[queue'[j]] <= puts
               /\ i < j => ticket[queue'[j]] > puts
    <3>1. i = Len(queue')
      BY <2>2, <2>5
    <3>2. j # Len(queue')
      BY <2>5, <3>1
    <3>3. /\ j \in 1..Len(queue) /\ queue'[j] = queue[j]
          /\ queue[j] \in Callers /\ j < i
      BY <2>2, <3>1, <3>2
    <3> QED BY <2>3, <3>3, CallersAssumption DEF TypeOK
  <2>6. hand' # Pill
    BY <2>1
  <2> QED BY <2>1, <2>4, <2>5, <2>6 DEF TypeOK
<1>4. CASE Stop
  <2>1. /\ hand = Pill /\ hand' = Nothing /\ writer = "got" /\ writer' = "stopped"
        /\ UNCHANGED <<call, ticket, puts, pillAt, queue>>
    BY <1>4 DEF Stop, clientVars
  <2>2. StopAnswersEarlierCalls'
    <3> SUFFICES ASSUME NEW c \in Callers, call[c] = "pending" PROVE ticket[c] > pillAt
      BY <2>1 DEF StopAnswersEarlierCalls
    <3>1. c \in Range(queue)
      BY <2>1 DEF NoWaiterStranded, Alive
    <3>2. PICK i \in 1..Len(queue) : queue[i] = c
      BY <3>1 DEF Range, TypeOK
    <3> QED BY <2>1, <3>2
  <2> QED BY <2>1, <2>2
<1>5. CASE /\ UNCHANGED <<ticket, puts, pillAt>>
           /\ queue' \in {queue, <<>>}
           /\ hand' \in {hand, Nothing}
           /\ writer' = "stopped" => writer = "stopped"
           /\ \A c \in Callers : call'[c] = "pending" => call[c] = "pending"
  <2>1. StopAnswersEarlierCalls'
    BY <1>5 DEF StopAnswersEarlierCalls
  <2>2. CASE queue' = queue
    BY <1>5, <2>1, <2>2
  <2>3. CASE queue' = <<>>
    <3>1. 1..Len(queue') = {}
      BY <2>3
    <3> QED BY <1>5, <2>1, <3>1
  <2> QED BY <1>5, <2>2, <2>3
<1>6. \/ Get \/ ShutdownDb \/ Stop
      \/ \E c \in Callers : Put(c) /\ (Call(c) \/ Resume(c))
      \/ /\ UNCHANGED <<ticket, puts, pillAt>>
         /\ queue' \in {queue, <<>>}
         /\ hand' \in {hand, Nothing}
         /\ writer' = "stopped" => writer = "stopped"
         /\ \A c \in Callers : call'[c] = "pending" => call[c] = "pending"
  <2> DEFINE Calm == /\ UNCHANGED <<ticket, puts, pillAt>>
                     /\ queue' \in {queue, <<>>}
                     /\ hand' \in {hand, Nothing}
                     /\ writer' = "stopped" => writer = "stopped"
             Settle == \A c \in Callers : call'[c] = "pending" => call[c] = "pending"
  <2>1. ASSUME NEW c \in Callers, Block(c), Call(c) \/ Resume(c) PROVE Calm /\ Settle
    <3>1. UNCHANGED <<writer, hand, pillAt>>
      BY <2>1, Arrival
    <3> QED BY <2>1, <3>1 DEF Block, TypeOK
  <2>2. ASSUME NEW c \in Callers, Cancel(c) PROVE Calm /\ Settle
    BY <2>2 DEF Cancel, clientVars, TypeOK
  <2>3. CASE ConnectFails \/ Begin \/ ExecuteWrite \/ CancelWriter \/ UNCHANGED vars
    BY <2>3 DEF ConnectFails, Begin, ExecuteWrite, CancelWriter, clientVars, vars
  <2>4. CASE Fetch \/ ExecuteFails \/ Commit \/ CommitFails
    <3>1. Calm
      BY <2>4 DEF Fetch, ExecuteFails, Commit, CommitFails, Resolve, clientVars
    <3>2. ASSUME NEW c \in Callers, call'[c] = "pending" PROVE call[c] = "pending"
      <4>1. CASE call[hand] = "pending"
        BY <2>4, <3>2, <4>1 DEF Fetch, ExecuteFails, Commit, CommitFails, Resolve, TypeOK
      <4>2. CASE call[hand] # "pending"
        BY <2>4, <3>2, <4>2 DEF Fetch, ExecuteFails, Commit, CommitFails, Resolve
      <4> QED BY <4>1, <4>2
    <3> QED BY <3>1, <3>2
  <2>5. CASE Connect \/ Drain \/ Restart
    BY <2>5 DEF Connect, Drain, FailQueued, Restart, SetReady, clientVars
  <2> QED BY <2>1, <2>2, <2>3, <2>4, <2>5, Arrival
          DEF Next, WriterStep, CallerStep
<1> QED BY <1>1, <1>2, <1>3, <1>4, <1>5, <1>6

-----------------------------------------------------------------------------
(* The invariant, and what follows from it. *)

(* Nothing is queued, in hand or written at first. *)
LEMMA InvariantInit == Init => IInv
<1> SUFFICES ASSUME Init PROVE IInv
  OBVIOUS
<1>1. TypeOK
  BY TypeInit
<1>2. Len(queue) = 0 /\ Len(Log) = 0 /\ 1..0 = {}
  BY DEF Init, Log
<1>3. LineInv /\ LogInv
  BY <1>2, CallersAssumption DEF Init, LineInv, LogInv, Busy
<1>4. OrderInv /\ AppliedInOrder
  BY <1>2, CallersAssumption DEF Init, OrderInv, AppliedInOrder
<1>5. AcknowledgedIsDurable /\ NoWaiterStranded /\ KnownInv
  BY CallersAssumption
     DEF Init, AcknowledgedIsDurable, NoWaiterStranded, KnownInv, ReadsFollowAnswers
<1>6. PillInv
  BY <1>2, CallersAssumption DEF Init, PillInv, StopAnswersEarlierCalls
<1> QED BY <1>1, <1>3, <1>4, <1>5, <1>6 DEF IInv

(* Every step keeps the invariant, part by part. *)
LEMMA InvariantStep == IInv /\ [Next]_vars => IInv'
<1> SUFFICES ASSUME IInv, [Next]_vars PROVE IInv'
  OBVIOUS
<1> USE DEF IInv
<1>1. TypeOK'
  BY TypeStep
<1>2. LineInv'
  BY LineStep
<1>3. LogInv'
  BY <1>1, LogStep
<1>4. OrderInv'
  BY <1>1, OrderStep
<1>5. AcknowledgedIsDurable'
  BY DurableStep
<1>6. NoWaiterStranded'
  BY StrandStep
<1>7. KnownInv'
  BY <1>1, KnownStep
<1>8. PillInv'
  BY <1>1, PillStep
<1> QED BY <1>1, <1>2, <1>3, <1>4, <1>5, <1>6, <1>7, <1>8

(* The inductive invariant of database.py:140-246: requests move along one line
   from the queue through the writer's hand to the log. *)
THEOREM Invariance == Spec => []IInv
BY InvariantInit, InvariantStep, PTL DEF Spec

(* A write whose caller got its row id is in the database file. *)
THEOREM DurableAnswers == Spec => []AcknowledgedIsDurable
BY Invariance, PTL DEF IInv

(* Writes take effect in the order of the queue, each at most once. *)
THEOREM QueueOrder == Spec => []AppliedInOrder
<1>1. IInv => AppliedInOrder
  BY DEF IInv, OrderInv
<1> QED BY <1>1, Invariance, PTL

(* A call refused with "DB writer restarted" never took effect. *)
THEOREM DrainIsSafe == Spec => []DrainedNeverApplied
<1>1. IInv => DrainedNeverApplied
  BY DEF IInv, LogInv, DrainedNeverApplied
<1> QED BY <1>1, Invariance, PTL

(* The supervisor never loses a request somebody waits for. *)
THEOREM NobodyStranded == Spec => []NoWaiterStranded
BY Invariance, PTL DEF IInv

(* Fetches see every write answered before they began. *)
THEOREM FreshReads == Spec => []ReadsFollowAnswers
<1>1. IInv => ReadsFollowAnswers
  BY DEF IInv, KnownInv
<1> QED BY <1>1, Invariance, PTL

(* The pill stops the writer only after the calls put before it. *)
THEOREM GracefulStop == Spec => []StopAnswersEarlierCalls
<1>1. IInv => StopAnswersEarlierCalls
  BY DEF IInv, PillInv
<1> QED BY <1>1, Invariance, PTL

-----------------------------------------------------------------------------
(* Refinement: the queue, the writer and the supervisor implement DbService. *)

(* A sequence along which tickets increase names each call at most once. *)
LEMMA IncreasingInjective ==
    ASSUME NEW s \in Seq(Writes), NEW t \in [Callers -> Nat],
           \A i, j \in 1..Len(s) : i < j => t[s[i]] < t[s[j]]
    PROVE  \A i, j \in 1..Len(s) : s[i] = s[j] => i = j
<1> SUFFICES ASSUME NEW i \in 1..Len(s), NEW j \in 1..Len(s), s[i] = s[j], i # j
             PROVE  FALSE
  OBVIOUS
<1>1. t[s[i]] \in Nat
  BY CallersAssumption
<1>2. CASE i < j
  BY <1>1, <1>2
<1>3. CASE j < i
  BY <1>1, <1>3
<1> QED BY <1>2, <1>3

(* Whatever a step commits was in doubt and is committed once. *)
LEMMA CommitsInDoubt ==
    ASSUME IInv, IInv', [Next]_vars
    PROVE  /\ committed' \in Seq(Writes)
           /\ Len(committed) <= Len(committed')
           /\ \A i \in 1..Len(committed) : committed'[i] = committed[i]
           /\ \A i \in Len(committed)+1..Len(committed') :
                  call[committed'[i]] \in {"pending", "error", "cancelled"}
           /\ \A i, j \in 1..Len(committed') : committed'[i] = committed'[j] => i = j
<1> USE DEF IInv
<1>1. committed \in Seq(Writes) /\ tx \in Seq(Writes) /\ committed' \in Seq(Writes) /\ tx' \in Seq(Writes)
  BY DEF TypeOK
<1>2. Log \in Seq(Writes) /\ Log' \in Seq(Writes)
  BY LogChange
<1>3. /\ \A i, j \in 1..Len(Log) : Log[i] = Log[j] => i = j
      /\ \A i, j \in 1..Len(Log') : Log'[i] = Log'[j] => i = j
  BY <1>2, IncreasingInjective DEF TypeOK, OrderInv, AppliedInOrder
<1>4. /\ Len(Log) = Len(committed) + Len(tx)
      /\ \A i \in 1..Len(committed) : Log[i] = committed[i]
  BY <1>1 DEF Log
<1>5. /\ Len(committed') <= Len(Log')
      /\ \A i \in 1..Len(committed') : Log'[i] = committed'[i]
  BY <1>1 DEF Log
<1>6. \A i, j \in 1..Len(committed') : committed'[i] = committed'[j] => i = j
  <2> SUFFICES ASSUME NEW i \in 1..Len(committed'), NEW j \in 1..Len(committed'),
                      committed'[i] = committed'[j]
               PROVE  i = j
    OBVIOUS
  <2>1. i \in 1..Len(Log') /\ j \in 1..Len(Log')
    BY <1>1, <1>2, <1>5
  <2> QED BY <1>3, <1>5, <2>1
<1>7. committed' = committed \/ committed' = Log
  BY Arrival
     DEF Log, Next, WriterStep, CallerStep, vars, storageVars, Cancel, ShutdownDb,
         Connect, ConnectFails, Get, Stop, Begin, Fetch, ExecuteWrite,
         ExecuteFails, Commit, CommitFails, Drain, FailQueued, Restart, CancelWriter
<1>8. CASE committed' = committed
  BY <1>1, <1>6, <1>8
<1>9. CASE committed' = Log
  <2>1. ASSUME NEW i \in Len(committed)+1..Len(Log)
        PROVE  call[Log[i]] \in {"pending", "error", "cancelled"}
    <3>1. i \in 1..Len(Log) /\ ~(i \in 1..Len(committed))
      BY <1>1, <1>4, <2>1
    <3>2. Log[i] \notin Range(committed)
      BY <1>1, <1>3, <1>4, <3>1 DEF Range
    <3>3. call[Log[i]] # "result"
      BY <1>2, <3>1, <3>2 DEF AcknowledgedIsDurable
    <3>4. call[Log[i]] \in {"pending", "result", "error", "cancelled"}
      BY <3>1 DEF LogInv
    <3> QED BY <3>3, <3>4
  <2>2. \A i \in Len(committed)+1..Len(committed') :
            call[committed'[i]] \in {"pending", "error", "cancelled"}
    BY <1>9, <2>1
  <2>3. \A i \in 1..Len(committed) : committed'[i] = committed[i]
    BY <1>4, <1>9
  <2>4. Len(committed) <= Len(committed')
    <3>1. Len(committed) \in Nat /\ Len(tx) \in Nat
      BY <1>1
    <3> QED BY <1>4, <1>9, <3>1
  <2> QED BY <1>1, <1>6, <2>2, <2>3, <2>4
<1> QED BY <1>7, <1>8, <1>9

(* A step that adds to the committed writes is the service's TakeEffect. *)
LEMMA ServiceTakesEffect ==
    ASSUME IInv, IInv', [Next]_vars PROVE Service!TakeEffect
<1>1. \A i \in Len(committed)+1..Len(committed') : Service!InDoubt(committed'[i])
  <2> SUFFICES ASSUME NEW i \in Len(committed)+1..Len(committed')
               PROVE  Service!InDoubt(committed'[i])
    OBVIOUS
  <2>1. call[committed'[i]] \in {"pending", "error", "cancelled"}
    BY CommitsInDoubt
  <2>2. committed'[i] \in Callers
    <3>1. i \in 1..Len(committed')
      BY DEF IInv, TypeOK
    <3> QED BY <3>1, CallersAssumption DEF IInv, TypeOK
  <2> QED BY <2>1, <2>2 DEF Service!InDoubt, Outcome
<1> QED BY <1>1, CommitsInDoubt DEF Service!TakeEffect

(* Every step of the database layer is a step of the service, or one the
   service does not see. *)
LEMMA ServiceStep ==
    ASSUME IInv, IInv', [Next]_vars PROVE [Service!Next]_(Service!vars)
<1> DEFINE Out == [c \in Callers |-> Outcome(c)]
<1> USE CallersAssumption
<1>1. TypeOK /\ TypeOK' /\ LineInv
  BY DEF IInv
<1>2. Service!TakeEffect
  BY ServiceTakesEffect
(* Only the outcome of one call may differ. *)
<1>3. ASSUME NEW d \in Callers, \A c \in Callers : c # d => call'[c] = call[c]
      PROVE  \A o : Outcome(d)' = o => Out' = [Out EXCEPT ![d] = o]
  <2>1. \A c \in Callers : c # d => Outcome(c)' = Outcome(c)
    BY <1>3 DEF Outcome
  <2> QED BY <2>1
<1>4. ASSUME Out' = Out PROVE [Service!Next]_(Service!vars)
  BY <1>2, <1>4 DEF Service!Next, Service!Silent
<1>5. ASSUME \A c \in Callers : Outcome(c)' = Outcome(c) PROVE Out' = Out
  BY <1>5
<1>6. ASSUME call' = call PROVE [Service!Next]_(Service!vars)
  <2>1. \A c \in Callers : Outcome(c)' = Outcome(c)
    BY <1>6 DEF Outcome
  <2> QED BY <1>4, <1>5, <2>1
<1>7. ASSUME NEW d \in Callers, Call(d) \/ Resume(d) PROVE [Service!Next]_(Service!vars)
  <2>1. /\ call[d] \in {"new", "woken"}
        /\ committed' = committed
        /\ Put(d) \/ Block(d)
    BY <1>7, Arrival
  <2>2. /\ call'[d] \in {"pending", "blocked"}
        /\ \A c \in Callers : c # d => call'[c] = call[c]
    BY <1>1, <2>1 DEF Put, Block, TypeOK
  <2>3. Outcome(d)' = "open"
    BY <2>2 DEF Outcome
  <2>4. Out' = [Out EXCEPT ![d] = "open"]
    BY <1>3, <2>2, <2>3
  <2>5. CASE call[d] = "new"
    <3>1. Out[d] = "idle"
      BY <2>5 DEF Outcome
    <3>2. Service!Open(d)
      BY <2>1, <2>4, <3>1 DEF Service!Open
    <3> QED BY <3>2 DEF Service!Next
  <2>6. CASE call[d] = "woken"
    <3>1. Outcome(d) = "open"
      BY <2>6 DEF Outcome
    <3>2. Out' = Out
      BY <2>4, <3>1
    <3> QED BY <1>4, <3>2
  <2> QED BY <2>1, <2>5, <2>6
<1>8. ASSUME NEW d \in Callers, Cancel(d) PROVE [Service!Next]_(Service!vars)
  <2>1. /\ call[d] \in {"blocked", "woken", "pending"}
        /\ call'[d] = "cancelled"
        /\ \A c \in Callers : c # d => call'[c] = call[c]
        /\ committed' = committed
    BY <1>1, <1>8 DEF Cancel, TypeOK, storageVars
  <2>2. Outcome(d) = "open" /\ Outcome(d)' = "cancelled"
    BY <2>1 DEF Outcome
  <2>3. Out[d] = "open" /\ Out' = [Out EXCEPT ![d] = "cancelled"]
    BY <1>3, <2>1, <2>2
  <2>4. Service!Withdraw(d)
    BY <2>1, <2>3 DEF Service!Withdraw
  <2> QED BY <2>4 DEF Service!Next
<1>9. CASE Connect \/ Restart
  <2>1. \A c \in Callers : call'[c] = IF call[c] = "blocked" THEN "woken" ELSE call[c]
    BY <1>9 DEF Connect, Restart, SetReady
  <2>2. \A c \in Callers : Outcome(c)' = Outcome(c)
    BY <2>1 DEF Outcome
  <2> QED BY <1>4, <1>5, <2>2
<1>10. CASE Drain
  <2>1. committed' = committed
    BY <1>10 DEF Drain, FailQueued
  <2>2. ASSUME NEW c \in Callers
        PROVE  \/ Out'[c] = Out[c]
               \/ Out[c] = "open" /\ Out'[c] = "refused" /\ c \notin Range(committed)
    <3>1. CASE call'[c] = call[c]
      <4>1. Outcome(c)' = Outcome(c)
        BY <3>1 DEF Outcome
      <4> QED BY <4>1
    <3>2. CASE call'[c] # call[c]
      <4>1. call[c] = "pending" /\ call'[c] = "drained"
        BY <1>10, <3>2 DEF Drain, FailQueued
      <4>2. c \notin Range(committed')
        <5>1. LogInv'
          BY DEF IInv
        <5>2. \A i \in 1..Len(committed') : i \in 1..Len(Log') /\ Log'[i] = committed'[i]
          BY <1>1 DEF Log, TypeOK
        <5>3. \A i \in 1..Len(committed') : call'[committed'[i]] # "drained"
          BY <5>1, <5>2 DEF LogInv
        <5> QED BY <1>1, <4>1, <5>3 DEF Range, TypeOK
      <4> QED BY <2>1, <4>1, <4>2 DEF Outcome
    <3> QED BY <3>1, <3>2
  <2>3. Out' \in [Callers -> Service!Outcomes]
    <3> SUFFICES ASSUME NEW c \in Callers PROVE Outcome(c)' \in Service!Outcomes
      OBVIOUS
    <3> QED BY <1>1 DEF Outcome, Service!Outcomes, TypeOK, CallStates, Answered
  <2>4. Service!Refuse
    BY <2>1, <2>2, <2>3 DEF Service!Refuse, Service!Range, Range
  <2> QED BY <2>4 DEF Service!Next
<1>11. CASE Fetch \/ Commit \/ ExecuteFails \/ CommitFails
  <2>1. PICK d \in Callers : d = hand
    BY <1>1, <1>11 DEF Fetch, Commit, ExecuteFails, CommitFails, LineInv
  <2>2. CASE call[d] # "pending"
    <3>1. call' = call
      BY <1>11, <2>1, <2>2 DEF Fetch, Commit, ExecuteFails, CommitFails, Resolve
    <3> QED BY <1>6, <3>1
  <2>3. CASE call[d] = "pending"
    <3>1. \A c \in Callers : c # d => call'[c] = call[c]
      BY <1>1, <1>11, <2>1, <2>3 DEF Fetch, Commit, ExecuteFails, CommitFails, Resolve, TypeOK
    <3>2. Out[d] = "open"
      BY <2>1, <2>3 DEF Outcome
    <3>3. CASE call'[d] = "result"
      <4>1. d \in Writes => d \in Range(committed')
        BY <1>1, <2>1, <2>3, <3>3, ResultMeans
      <4>2. Outcome(d)' = "ok"
        BY <3>3 DEF Outcome
      <4>3. Out' = [Out EXCEPT ![d] = "ok"]
        BY <1>3, <2>1, <3>1, <4>2
      <4>4. Service!Accept(d)
        BY <1>2, <3>2, <4>1, <4>3 DEF Service!Accept, Service!Range, Range
      <4> QED BY <2>1, <4>4 DEF Service!Next
    <3>4. CASE call'[d] # "result"
      <4>1. /\ ExecuteFails \/ CommitFails
            /\ call'[d] = "error"
        BY <1>1, <1>11, <2>1, <2>3, <3>4
           DEF Fetch, Commit, ExecuteFails, CommitFails, Resolve, TypeOK
      <4>2. committed' = committed
        BY <4>1 DEF ExecuteFails, CommitFails, storageVars
      <4>3. Outcome(d)' = "failed"
        BY <4>1 DEF Outcome
      <4>4. Out' = [Out EXCEPT ![d] = "failed"]
        BY <1>3, <2>1, <3>1, <4>3
      <4>5. Service!Fail(d)
        BY <3>2, <4>2, <4>4 DEF Service!Fail
      <4> QED BY <2>1, <4>5 DEF Service!Next
    <3> QED BY <3>3, <3>4
  <2> QED BY <2>2, <2>3
<1>12. CASE ShutdownDb \/ ConnectFails \/ Get \/ Stop \/ Begin \/ ExecuteWrite
            \/ CancelWriter \/ UNCHANGED vars
  <2>1. call' = call
    BY <1>12 DEF ShutdownDb, ConnectFails, Get, Stop, Begin, ExecuteWrite,
                 CancelWriter, vars
  <2> QED BY <1>6, <2>1
<1> QED BY <1>7, <1>8, <1>9, <1>10, <1>11, <1>12 DEF Next, WriterStep, CallerStep

(* The initial state maps to the service's. *)
LEMMA ServiceInit == Init => Service!Init
<1> SUFFICES ASSUME Init PROVE Service!Init
  OBVIOUS
<1>1. \A c \in Callers : Outcome(c) = "idle"
  BY DEF Init, Outcome
<1> QED BY <1>1 DEF Init, Service!Init

(* What a caller observes of the layer is a behaviour of DbService: one outcome
   per call, answered writes in the log, refused calls never in it. *)
THEOREM Refinement == Spec => ServiceSpec
<1>1. IInv /\ IInv' /\ [Next]_vars => [Service!Next]_(Service!vars)
  BY ServiceStep
<1> QED BY <1>1, ServiceInit, Invariance, PTL DEF Spec, ServiceSpec, Service!Spec

=============================================================================
