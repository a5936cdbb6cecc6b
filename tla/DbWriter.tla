------------------------------ MODULE DbWriter ------------------------------
(***************************************************************************)
(* The single-writer database layer, src/jarvis/memory/database.py.        *)
(*                                                                         *)
(* Every coroutine that touches SQLite awaits _db_ready, puts a DBRequest  *)
(* with a fresh future in db_queue, and awaits the future.  One task owns  *)
(* the connection: it takes a request, executes it, commits if it writes,  *)
(* and resolves the future.  A supervisor restarts that task when it       *)
(* crashes, failing whatever is still queued.                              *)
(*                                                                         *)
(* asyncio switches coroutines at an await only, so an action below is     *)
(* what a coroutine does from one await to the next; the awaits are where  *)
(* callers arrive, are cancelled, or the writer itself is cancelled.       *)
(* A caller is one call of db_write, db_fetch_one or db_fetch_all.         *)
(***************************************************************************)
EXTENDS Integers, Sequences, Functions

CONSTANTS Callers,      \* the calls made to the database layer
          Writes,       \* those that are db_write; the others are fetches
          Cancellable,  \* those whose task may be cancelled while it waits
          Pill,         \* the None that shutdown_db puts in the queue
          Nothing       \* no request in the writer's hand

ASSUME CallersAssumption ==
    /\ Writes \subseteq Callers
    /\ Cancellable \subseteq Callers
    /\ Pill \notin Callers
    /\ Nothing \notin Callers \cup {Pill}

VARIABLES ready,      \* _db_ready
          queue,      \* db_queue
          call,       \* where each call is, with the state of its future
          writer,     \* the await the writer task or its supervisor is at
          hand,       \* req, the request taken from the queue
          tx,         \* writes executed on the connection, not committed
          committed,  \* writes in the database file, in commit order
          pillAt,     \* number of puts before shutdown_db's pill, or -1
          puts,       \* number of requests put so far (history)
          ticket,     \* position of each call among the puts (history)
          known,      \* writes already answered when the call began (history)
          seen        \* writes a fetch found in the database (history)

clientVars  == <<puts, ticket, known>>
storageVars == <<tx, committed, seen>>
vars == <<ready, queue, call, writer, hand, tx, committed, pillAt,
          puts, ticket, known, seen>>

(* "blocked" waits on _db_ready; "woken" was released by it and has not run
   yet; "pending" awaits its future; "drained" got RuntimeError("DB writer
   restarted"), "error" the exception of its own statement. *)
Answered   == {"result", "error", "drained", "cancelled"}
CallStates == {"new", "blocked", "woken", "pending"} \cup Answered

(* "got": wait_for's inner get() is done and the writer has not resumed.
   "closing": an exception left the loop and the connection is closing.
   "sleeping": the supervisor drained the queue and sleeps. *)
WriterStates == {"connecting", "idle", "got", "executing", "committing",
                 "closing", "sleeping", "stopped", "cancelled"}
Busy  == {"got", "executing", "committing"}
Alive == writer \notin {"stopped", "cancelled"}

TypeOK ==
    /\ ready \in BOOLEAN
    /\ queue \in Seq(Callers \cup {Pill})
    /\ call \in [Callers -> CallStates]
    /\ writer \in WriterStates
    /\ hand \in Callers \cup {Pill, Nothing}
    /\ tx \in Seq(Writes)
    /\ committed \in Seq(Writes)
    /\ pillAt \in Nat \cup {-1}
    /\ puts \in Nat
    /\ ticket \in [Callers -> Nat]
    /\ known \in [Callers -> SUBSET Writes]
    /\ seen \in [Callers -> SUBSET Writes]

Init ==
    /\ ready = FALSE
    /\ queue = <<>>
    /\ call = [c \in Callers |-> "new"]
    /\ writer = "connecting"
    /\ hand = Nothing
    /\ tx = <<>>
    /\ committed = <<>>
    /\ pillAt = -1
    /\ puts = 0
    /\ ticket = [c \in Callers |-> 0]
    /\ known = [c \in Callers |-> {}]
    /\ seen = [c \in Callers |-> {}]

-----------------------------------------------------------------------------
(* The callers. *)

AnsweredWrites == {w \in Writes : call[w] = "result"}

(* create_future and db_queue.put: the queue is unbounded, so put does not
   suspend. *)
Put(c) ==
    /\ queue' = Append(queue, c)
    /\ call' = [call EXCEPT ![c] = "pending"]
    /\ puts' = puts + 1
    /\ ticket' = [ticket EXCEPT ![c] = puts + 1]

Call(c) ==
    /\ call[c] = "new"
    /\ known' = [known EXCEPT ![c] = AnsweredWrites]
    /\ \/ ready /\ Put(c)
       \/ /\ ~ready
          /\ call' = [call EXCEPT ![c] = "blocked"]
          /\ UNCHANGED <<queue, puts, ticket>>
    /\ UNCHANGED <<ready, writer, hand, pillAt, storageVars>>

(* A call released by _db_ready.set() goes on to put even if the event has
   been cleared again since. *)
Resume(c) ==
    /\ call[c] = "woken"
    /\ Put(c)
    /\ UNCHANGED <<ready, writer, hand, pillAt, known, storageVars>>

(* Task.cancel() on the calling task cancels the future it awaits; a request
   already put stays in the queue. *)
Cancel(c) ==
    /\ c \in Cancellable
    /\ call[c] \in {"blocked", "woken", "pending"}
    /\ call' = [call EXCEPT ![c] = "cancelled"]
    /\ UNCHANGED <<ready, queue, writer, hand, pillAt, clientVars, storageVars>>

(* A faulty variant: the pill overtakes the requests. *)
PillFirst ==
    /\ pillAt = -1
    /\ pillAt' = puts
    /\ queue' = <<Pill>> \o queue
    /\ UNCHANGED <<ready, call, writer, hand, clientVars, storageVars>>

(* Bound: one pill.  graceful_shutdown is the only caller of shutdown_db. *)
ShutdownDb ==
    /\ pillAt = -1
    /\ pillAt' = puts
    /\ queue' = Append(queue, Pill)
    /\ UNCHANGED <<ready, call, writer, hand, clientVars, storageVars>>

-----------------------------------------------------------------------------
(* The writer task. *)

(* Event.set(): every waiter is released. *)
SetReady ==
    /\ ready' = TRUE
    /\ call' = [c \in Callers |-> IF call[c] = "blocked" THEN "woken" ELSE call[c]]

Connect ==
    /\ writer = "connecting"
    /\ SetReady
    /\ writer' = "idle"
    /\ UNCHANGED <<queue, hand, pillAt, clientVars, storageVars>>

ConnectFails ==
    /\ writer = "connecting"
    /\ writer' = "closing"
    /\ UNCHANGED <<ready, queue, call, hand, pillAt, clientVars, storageVars>>

Get ==
    /\ writer = "idle"
    /\ queue # <<>>
    /\ hand' = Head(queue)
    /\ queue' = Tail(queue)
    /\ writer' = "got"
    /\ UNCHANGED <<ready, call, pillAt, clientVars, storageVars>>

(* The pill: break leaves the loop and the connection closes. *)
Stop ==
    /\ writer = "got"
    /\ hand = Pill
    /\ hand' = Nothing
    /\ tx' = <<>>
    /\ writer' = "stopped"
    /\ UNCHANGED <<ready, queue, call, committed, pillAt, clientVars, seen>>

Begin ==
    /\ writer = "got"
    /\ hand # Pill
    /\ writer' = "executing"
    /\ UNCHANGED <<ready, queue, call, hand, pillAt, clientVars, storageVars>>

(* A faulty variant: the future is resolved whatever its state. *)
ResolveAnyway(outcome) ==
    /\ hand' = Nothing
    /\ call' = [call EXCEPT ![hand] = outcome]
    /\ writer' = "idle"

(* set_result or set_exception on the future of the request in hand.  Both
   raise InvalidStateError on a future the caller's cancellation finished;
   raised in the except clause it leaves the loop and ends the task. *)
Resolve(outcome) ==
    /\ hand' = Nothing
    /\ \/ /\ call[hand] = "pending"
          /\ call' = [call EXCEPT ![hand] = outcome]
          /\ writer' = "idle"
       \/ /\ call[hand] # "pending"
          /\ writer' = "closing"
          /\ UNCHANGED call

(* A fetch reads on the connection that writes, so it sees tx too. *)
Fetch ==
    /\ writer = "executing"
    /\ hand \notin Writes
    /\ seen' = [seen EXCEPT ![hand] = Range(committed) \cup Range(tx)]
    /\ Resolve("result")
    /\ UNCHANGED <<ready, queue, tx, committed, pillAt, clientVars>>

(* A faulty variant: the row id is returned without a commit. *)
AnswerBeforeCommit ==
    /\ writer = "executing"
    /\ hand \in Writes
    /\ tx' = Append(tx, hand)
    /\ Resolve("result")
    /\ UNCHANGED <<ready, queue, committed, pillAt, clientVars, seen>>

ExecuteWrite ==
    /\ writer = "executing"
    /\ hand \in Writes
    /\ tx' = Append(tx, hand)
    /\ writer' = "committing"
    /\ UNCHANGED <<ready, queue, call, hand, committed, pillAt, clientVars, seen>>

(* A failing statement (a constraint, bad SQL) changes nothing. *)
ExecuteFails ==
    /\ writer = "executing"
    /\ Resolve("error")
    /\ UNCHANGED <<ready, queue, pillAt, clientVars, storageVars>>

Commit ==
    /\ writer = "committing"
    /\ committed' = committed \o tx
    /\ tx' = <<>>
    /\ Resolve("result")
    /\ UNCHANGED <<ready, queue, pillAt, clientVars, seen>>

(* A faulty variant: a failed write is put again to be retried. *)
RetryFailedCommit ==
    /\ writer = "committing"
    /\ tx' \in {tx, <<>>}
    /\ queue' = Append(queue, hand)
    /\ hand' = Nothing
    /\ writer' = "idle"
    /\ UNCHANGED <<ready, call, committed, pillAt, clientVars, seen>>

(* The code does not roll back after a failed commit: SQLite either has done
   so itself or keeps the transaction open for the next commit. *)
CommitFails ==
    /\ writer = "committing"
    /\ tx' \in {tx, <<>>}
    /\ Resolve("error")
    /\ UNCHANGED <<ready, queue, committed, pillAt, clientVars, seen>>

-----------------------------------------------------------------------------
(* The supervisor. *)

(* Faulty variants of the drain: the requests are dropped without an answer;
   the pill is answered like a request. *)
DropQueued == queue' = <<>> /\ UNCHANGED call
FailPillToo ==
    /\ call' = [c \in Callers \cup Range(queue) |->
                  IF c \in Range(queue) THEN "drained" ELSE call[c]]
    /\ queue' = <<>>

(* The drain loop: every future still open fails; the pill is discarded. *)
FailQueued ==
    /\ call' = [c \in Callers |->
                  IF c \in Range(queue) /\ call[c] = "pending" THEN "drained" ELSE call[c]]
    /\ queue' = <<>>

(* Closing the connection rolls tx back; then, with no await in between, the
   event is cleared and the queue is drained. *)
Drain ==
    /\ writer = "closing"
    /\ ready' = FALSE
    /\ tx' = <<>>
    /\ FailQueued
    /\ writer' = "sleeping"
    /\ UNCHANGED <<hand, committed, pillAt, clientVars, seen>>

(* A faulty variant: the event is left for the next connection to set. *)
RestartNotReady ==
    /\ writer = "sleeping"
    /\ writer' = "connecting"
    /\ UNCHANGED <<ready, queue, call, hand, pillAt, clientVars, storageVars>>

Restart ==
    /\ writer = "sleeping"
    /\ SetReady
    /\ writer' = "connecting"
    /\ UNCHANGED <<queue, hand, pillAt, clientVars, storageVars>>

(* Task.cancel() on the supervised task.  Python 3.11's wait_for returns the
   item, and drops the cancellation, when its inner get() is already done: in
   "got" the writer goes on.  A commit handed to the connection's thread runs
   even though nobody awaits it any more, and may fail there. *)
CancelWriter ==
    /\ Alive
    /\ writer # "got"
    /\ writer' = "cancelled"
    /\ hand' = Nothing
    /\ tx' = <<>>
    /\ \/ writer = "committing" /\ committed' = committed \o tx
       \/ UNCHANGED committed
    /\ UNCHANGED <<ready, queue, call, pillAt, clientVars, seen>>

-----------------------------------------------------------------------------
WriterStep ==
    \/ Connect \/ ConnectFails \/ Get \/ Stop \/ Begin
    \/ Fetch \/ ExecuteWrite \/ ExecuteFails \/ Commit \/ CommitFails
    \/ Drain \/ Restart

CallerStep == \E c \in Callers : Call(c) \/ Resume(c) \/ Cancel(c)

Quiet == writer = "idle" /\ queue = <<>> /\ \A c \in Callers : call[c] \in Answered

(* Every call has been answered and the writer waits for the next one. *)
Quiescent == Quiet /\ UNCHANGED vars

ServingNext == WriterStep \/ CallerStep \/ Quiescent

Next == WriterStep \/ CallerStep \/ ShutdownDb \/ CancelWriter

Spec == Init /\ [][Next]_vars

(* The event loop runs every task that can run, and statements, commits, the
   close and the sleep all end.  Nothing makes a caller call, a task be
   cancelled, or a connection succeed. *)
Fairness ==
    /\ WF_vars(WriterStep)
    /\ \A c \in Callers : WF_vars(Resume(c))

ServingSpec == Init /\ [][ServingNext]_vars /\ Fairness

-----------------------------------------------------------------------------
(* Properties. *)

(* The writes executed so far, less the ones a rollback removed. *)
Log == committed \o tx

(* A write answered with its row id is in the database file: set_result comes
   after commit, and neither a crash, nor a drain, nor a failed commit of
   another request takes it back. *)
AcknowledgedIsDurable ==
    \A w \in Writes : call[w] = "result" => w \in Range(committed)

(* Writes take effect in the order they were put and at most once each, through
   crashes, restarts and commits that carry an earlier failed one along. *)
AppliedInOrder ==
    \A i, j \in 1..Len(Log) : i < j => ticket[Log[i]] < ticket[Log[j]]

(* "DB writer restarted" tells the caller that its statement never ran, so
   repeating it is safe. *)
DrainedNeverApplied ==
    \A c \in Callers :
        call[c] = "drained" => \A i \in 1..Len(Log) : Log[i] # c

(* While the writer or its supervisor lives, the request of every call that
   awaits its future is in the queue or in the writer's hand: no crash,
   restart, late put or drain strands it. *)
NoWaiterStranded ==
    Alive => \A c \in Callers :
                 call[c] = "pending" => c \in Range(queue) \cup {hand}

(* A fetch sees every write that had been answered when the fetch began, even
   if the writer crashed and reconnected in between. *)
ReadsFollowAnswers ==
    \A c \in Callers \ Writes : call[c] = "result" => known[c] \subseteq seen[c]

(* A writer that stops on the pill has first answered every call put before
   the pill. *)
StopAnswersEarlierCalls ==
    writer = "stopped" =>
        \A c \in Callers : call[c] = "pending" => ticket[c] > pillAt

(* Unless somebody shuts it down, the layer answers every call, whichever
   statements, commits and connections fail and whoever is cancelled: "draining
   queue to unblock waiters" (database.py:197). *)
EveryCallAnswered ==
    \A c \in Callers :
        call[c] \in {"blocked", "woken", "pending"} ~> call[c] \in Answered

(* What the layer promises its callers: see DbService. *)
Outcome(c) ==
    CASE call[c] = "new"                              -> "idle"
      [] call[c] \in {"blocked", "woken", "pending"}  -> "open"
      [] call[c] = "result"                           -> "ok"
      [] call[c] = "error"                            -> "failed"
      [] call[c] = "drained"                          -> "refused"
      [] call[c] = "cancelled"                        -> "cancelled"

Service == INSTANCE DbService WITH
               Calls   <- Callers,
               outcome <- [c \in Callers |-> Outcome(c)],
               log     <- committed

(* Every behaviour of the queue, the writer and the supervisor is one of the
   abstract service. *)
ServiceSpec == Service!Spec

=============================================================================
