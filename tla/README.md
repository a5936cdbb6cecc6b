# A verification of JARVIS

This directory holds TLA+ modules that model parts of JARVIS, TLC configurations that
check them on small instances, and proofs of their main properties, checked by TLAPS,
for every value of the constants. Paths such as `memory/database.py` are relative to
`src/jarvis/`. Line numbers refer to the same commit.

1. [The system](#the-system): components, state, interactions, what is hard, what is correct
2. [The modules](#the-modules): what models what
3. [The runs](#the-runs): bounds, fairness, results
4. [The proofs](#the-proofs)
5. [Findings](#findings)
6. [What is not modelled](#what-is-not-modelled)
7. [The plan](#the-plan)

## The system

JARVIS is a personal assistant written with asyncio. A daemon (KAIROS), an HTTP API and
a Telegram bot accept messages and tasks; agents answer them by calling a language model
in a loop, with tools; an SQLite database keeps tasks, checkpoints, sessions and
memories. Coroutines interleave at awaits only, so the modules take one action per
stretch of code between two awaits.

| Component | State | Operations | Interacts with |
|---|---|---|---|
| Database layer (`memory/database.py`) | `db_queue`, `_db_ready`, the connection and its transaction, one future per request | `db_write`, `db_fetch_one`, `db_fetch_all`, `shutdown_db`; `db_writer_task`, `supervised_db_writer` | everything that stores anything awaits a future; the daemon starts and cancels the writer |
| Agents (`agents/base.py`) | rows of `tasks`, `checkpoints`; attempt counter | `run_task`, `TaskState.save`, `_evaluate_output`, `_propose_improvement` | database, memory store, agent loop, rollback, audit |
| Coordinator (`agents/orchestrator.py`) | rounds per subtask | `decompose`, `_execute_parallel`, `_execute_subtask`, `_aggregate` | one agent per subtask, `gather` |
| Agent team (`agents/orchestrator.py`) | `_running`, `agent_id` of claimed rows | `start`, `stop`, `_worker`, `_claim_task` | the `tasks` table; an agent per task |
| KAIROS daemon (`daemon/kairos.py`) | `_running`, `_tasks`, `_last_dream_time`, `known_shas`, module flags | `start`, `_poll_loop` (tasks, dream, notifications), health, watchdog, GitHub, reload, `graceful_shutdown` | starts the database writer; runs background rows; Telegram; systemd restarts it |
| LLM client (`llm/client.py`) | conversation, circuit breaker, daily cost | `run_agent`, `simple_completion` | Ollama, Anthropic; tool executor of the caller |
| Router (`llm/router.py`) | none | `classify_task_by_keywords`, `select_model`, `route` | read by agents and API |
| Memory store (`memory/store.py`) | working memory; `sessions`, `memories`, its text index, `skill_proposals` | save, search, compress, dream, propose, `trim_context` | database, embeddings, model |
| Embeddings (`memory/embeddings.py`) | the loaded model | `ensure_model_loaded`, `embed_text` | executor thread |
| Rollback (`security/rollback.py`) | git stash, database backups, a log file | create, roll back, list | agents before risky work, API |
| Sandbox (`security/sandbox.py`) | the running process | `execute_sandboxed`, `execute_direct` | Docker, zones, rollback, audit |
| Zones and PII (`security/zones.py`) | none | `classify_path`, `can_access`, `validate_command`, `sanitize_pii`, `deanonymize` | tools, sandbox |
| Tools (`tools/registry.py`) | none | handlers, `get_tools_for_set` | zones, sandbox, memory, web |
| API (`api/main.py`) | rate windows, WebSockets | chat, voice, webhook, tasks, skill proposals, rollback, costs | router, agents, memory, database |
| Telegram bot (`api/telegram_bot.py`) | a lock per chat | commands, messages, `send_safe` | agents, memory, database |
| Voice (`voice/`) | queues between threads and processes | VAD, STT, TTS, pipeline | agent loop |
| Observability, configuration | counters, log files, a settings singleton | record, log, load | everybody |
| Command line (`scripts/jarvis`) | none | `rollback-file`, service control, requests | git, systemd, API |

**What is hard here**, and what makes each part correct:

- *Database layer.* The writer may crash with a request in hand, with others queued,
  between a statement and its commit, or while the pill is queued; callers may be
  cancelled at any await; a caller released by `_db_ready.set()` runs later, when the
  event may be cleared again. Correct: an acknowledged write is durable; writes take
  effect in queue order, at most once; a refused call never takes effect; nobody waits
  for a future that no one will resolve; a fetch sees what was acknowledged before.
- *Tasks.* The table is written by agents, workers, KAIROS and the API in separate calls,
  each of which can fail before or after it is applied. `run_task` repeats attempts whose
  effects are already stored. KAIROS works from a batch that grows stale; two workers may
  select the same row. Correct: an answer agrees with the tables; one execution per task;
  a claim is kept; a status never goes back; a coordinator's round ends, with the results
  of the subtasks that did not fail.
- *Agent loop.* Truncated responses, transient failures, tool errors and repeated tool
  calls arrive in any order over many responses; the budget is checked before and charged
  after many awaits. Correct: the loop ends; no call repeats without limit and no other
  call is refused; the conversation sent is one the service accepts; overspending is
  bounded; the caller gets the whole answer.
- *Memory store.* A memory is inserted and indexed in two calls. Compression and the dream
  read rows, await the model, and mark rows that may have changed meanwhile. A search joins
  two reads, and the embedding model may be another one after a restart. Correct: a saved
  memory can be found; what is marked was in a summary that was saved, or came while the
  summary was made; an accepted proposal was written.
- *Daemon.* A signal may arrive during start; shutdown cancels the tasks it waits for,
  and the loop that runs it may end first. Notifications are sent before they are marked.
  Correct: a notification is repeated only after a mark that did not take place; no commit
  is noted that was not announced; a signal ends the process.
- *Rollback and tools.* The stash is one stack for all processes and the user, taken and
  popped by whoever comes; identifiers have the resolution of a second; a point is made
  in several commands, any of which may fail; a command may outlive who started it.
  Correct: no edit is lost; each attempt has its point before it works. What the code says
  of rollbacks, timeouts, keywords and tool sets does not hold ([Findings](#findings)).

Each hazard is listed at its line in `PROJECT.json`, with the property that would catch it.

## The modules

```
DbService  <--refines--  DbWriter            RunTask  <--refines--  TaskQueue
                            |                   |                       |
                       DbWriterProofs      RunTaskProofs  <----  TaskQueueProofs

Budget  <--extends--  AgentLoop  <--extends--  AgentLoopProofs

Tools   <--extends--  Workspace  <--extends--  WorkspaceProofs

Memory  <--extends--  MemoryProofs      Daemon  <--extends--  DaemonProofs

Rows    <--extends--  Memory, Tools, Daemon
Rows    <--extends--  RowsProofs  <--extends--  MemoryProofs
```

`MCDbWriter`, `MCTaskQueue`, `MCAgentLoop`, `MCMemory`, `MCDaemon` and `MCWorkspace`
instantiate them for TLC. Operators whose
comment calls them a faulty variant (`AnswerBeforeCommit`, `TrippedLate`, ...) are used by
no specification. They state plausible bugs: putting one in the place of the definition
after it must break the property `PROJECT.json` names in `mutants`.

### Rows

`Oldest(n, rows)` and `Newest(n, rows)` are what `ORDER BY id LIMIT n` returns, and also
what cutting a list at `n` keeps: the batches of `store.py`, the notifications of a poll,
the five tools offered to the model.

### DbService, DbWriter

`DbService` is what the layer promises a caller, without queue or writer: each call has one
outcome (`ok`, `failed`, `refused`, `cancelled`), and the log of writes only grows. A call
that failed or was cancelled may still take effect, once; a refused one never does.

`DbWriter` models the whole of `database.py` at the grain of awaits. `call[c]` is where one
call of `db_write` or `db_fetch_*` is (`new`, `blocked` on the event, `woken` by it,
`pending` on its future, or answered). `writer` is the await of the writer task or of its
supervisor. `hand` is the request taken from the queue, `tx` what was executed on the
connection and not committed, `committed` the file.

| Action | Code (`database.py`) |
|---|---|
| `Call`, `Resume`, `Cancel` | `db_write` and the fetches, 220-241: wait for the event, put, wait for the future, or be cancelled |
| `Connect`, `ConnectFails` | 140-156 |
| `Get`, `Begin`, `Fetch`, `ExecuteWrite`, `ExecuteFails`, `Commit`, `CommitFails` | 158-193; a future already done (its caller was cancelled) makes the writer itself raise |
| `Stop`, `ShutdownDb` | the pill, 172-175 and 244-246 |
| `Drain`, `Restart` | the supervisor, 200-217 |
| `CancelWriter` | `graceful_shutdown`, `daemon/kairos.py` 376-381 |

A failed commit leaves the write in `tx`, as sqlite3 does without a rollback, so a later
commit may include it. The hourly checkpoint touches none of this and is left out.

### RunTask, TaskQueue

`RunTask` is `BaseAgent.run_task` under *arbitrary clients*: any agent may call it with any
identifier, also one that is taken, and the queue may enqueue and mark rows. It is an open
specification. What holds of it holds whoever calls.
`TaskQueue` adds the clients the program has: chats and the bot's messages and `/task`, sub-agents with the coordinator's
judgement and its `gather`, KAIROS with its batch, workers with select and claim. Each step of `TaskQueue`
is a step of `RunTask` or leaves it alone (`RunTaskSpec`, checked and proved).

The coordinator's actions are `Assign` (a round's `run_task`, under the same identifier as
the one before), `Judge` (`_execute_subtask` returns or raises) and `Gather`
(`_execute_parallel`). `verdict` is what `_execute_subtask` came to: `accepted` as the code
sets it, which is a success of 70 or more in any round and of 50 or more in the last
(`orchestrator.py` 162 and 185); `kept`, a result with `accepted=False`; `dropped`, an
exception, which `gather` returns and line 133 filters out.

`pc[a]` is the await at which an agent's `run_task` is. The actions follow the awaits of
`base.py` 128-257 in order: `Call`, `Search`, `Insert`, `Save`, `Attempt`, `Complete`,
`Remember`, `Propose`, `Report`, with `Recover` and `GiveUp` for the except clause and the
end of the attempts, and `Cancel` at any await. A database call is one step with three
results (done; raised and applied; raised and not applied): this is what `DbService`
allows a caller to see. The model's answer and its evaluation are a nondeterministic
outcome: an exception, or a score that is low (below 50), fair (50 to 69) or high. A process crash is `Cancel` of its agents.

### Budget, AgentLoop

`Budget` is the daily total of `llm/client.py` as all runs see it: `Preflight` (98-103 and
222), `Charge` (358), and `Release` for a run that fails and adds nothing.
`AgentLoop` extends it with one run in full: `Start`, then per iteration a request that is
answered (`Answer`), cut (`Continue`), asks for tools (`UseTools`), fails transiently
(`Transient`, with tenacity's attempts) or otherwise (`Abort`), or cannot be serialized
(`Unsendable`). `RunTool` and `BlockTool` take the tool blocks one by one past the circuit
breaker, each appending its own result (`Answered`); after the last block the results go
into the conversation. A reply cut at `max_tokens` may hold tool blocks: they are neither run
nor answered (`Continue`), and `ConversationAnswered` sets such replies apart. The other runs take `Budget` steps only. A tool call is its breaker key. A message
is its kind and its tool blocks. `ran` and `blocked` are history variables: all calls that
ran, and all that were refused.

### Memory

`Memory` models `memory/store.py` at the grain of awaits, for any number of coroutines. A
coroutine's locals are `op[p]`: what it does, the await it is at, the rows it read
(`batch`), the row it inserted. The tables are sequences of rows, so that an index is a row
id. A memory remembers what it was made of (`of`) and what of that the model was shown
(`shown`), which is less where the prompt is cut; a message remembers whether it came while
its session was compressed (`late`).

| Action | Code |
|---|---|
| `Save`, `Embed`, `Insert`, `Index` | `save_memory`, `store.py` 149-179, and `embed_text` |
| `SaveMessage` | `save_session_message`, 124-133 |
| `Compress`, `Ask`, `MarkSession` | `compress_session`, 341-388 |
| `Dream`, `Ask`, `MarkEpisodes` | `run_auto_dream`, 391-440 |
| `Search`, `EmbedQuery`, `VectorSearch`, `KeywordSearch`, `SearchReturns` | `search_memories`, 182-293: the query's embedding and the two branches, each of which may raise, and their reciprocal rank fusion, in exact fractions; a zero vector is similar to nothing, two vectors of different lengths raise (`embeddings.py` 119-128) |
| `Propose`, `Accept`, `AppendSkill`, `UpdateProposal` | `propose_skill_update`, 321-330, and `api/main.py` 352-370 |
| `Raise` | any await raises, is cancelled or dies with its process |
| `Age`, `Reconfigure` | time passes the cut-off; a restart with another embedding model |

### Daemon

`Daemon` is the process of `daemon/kairos.py`, started again by systemd whenever it ends.
`life` is how far `main` has come, `coro[l]` the state of each task it created, `at` the
await of the two loops that keep state. `shutdown[s]` is the `graceful_shutdown` that a
signal started and `gathered[s]` what it waits for. `lapses` counts, for each notification,
the posts whose mark did not take place; `seen` and `announced` are history of the GitHub loop.

| Action | Code (`daemon/kairos.py`) |
|---|---|
| `Start`, `Initialized` | 87-141; `_running` is set after `_heavy_init`, whatever came before |
| `Signal`, `Close` | `graceful_shutdown` up to its gather, and after it, 356-388 and 402 |
| `Return`, `Finish`, `Exit`, `Crash` | the loop of `run_daemon`, 411-416; a cancelled task ends; the process ends or is killed |
| `Wake`, `RunTasks`, `Dreamt`, `PollFails` | `_poll_loop`, `_poll_once`, 182-248 |
| `Select`, `Post`, `PostFails`, `Mark`, `MarkFails`, `LateMark` | `_check_scheduled_notifications`, 250-287; the update of a cancelled poll may still take effect |
| `GithubWakes`, `Fetch`, `Announce`, `GithubFails` | `_github_monitor_loop`, 289-316; a repository without commits answers with an empty sha (`Empty`), which is noted and announced like any other |
| `Notify`, `TeamClaims`, `Push`, `HourPasses` | submissions, the team's claim of the same row, the repository, time |

The poll's batch of background tasks (`TaskQueue`) and the dream (`Memory`) are one await
each, and a database call needs the writer (`DbWriter`) alive. The health, watchdog and
memory loops are one task, as they keep nothing.

### Tools, Workspace

`Tools` holds pure operators: the keyword routes and `select_model` of `llm/router.py`,
which tools are registered and offered (`tools/registry.py`, `agents/base.py` 148), and
`classify_path`, `can_access` and `validate_command` of `security/zones.py`. A text is the
set of keywords in it, one for all those a route has to itself; a path is the set of
prefixes it starts with.

`Workspace` extends it with the git working tree that agents of several processes, the user
and rollbacks change. `tree` and `stashes` are git's state, with a number per edit; `log` is
the file of rollback points.

What is assumed of git: a command that succeeds is atomic; one that fails for a lock does
nothing; one that is killed half way (its timeout of 30 seconds) has had some of its
effects in its own order, that is, a push has recorded the stash and reset some of the files
(`PushFails`), a pop has put back some of the files and kept the stash (`PopCut`); nothing
of git goes on after that. `copied` is the edits that such a cut left in two places.
The command that reads the stash's hash may fail or take too long as well, after a push
that did happen (`ReadHash`). A program that ended leaves nothing behind, because
`communicate()` waits for whoever holds its output.

| Action | Code |
|---|---|
| `Start` | `route` and the offered tools, `agents/base.py` 145-148 |
| `Attempt`, `Fails`, `Ends`, `Stop` | the loop over attempts, 170-257; cancelled or killed |
| `Push`, `PushFails`, `ReadHash`, `LogPoint` | `create_rollback_point`, `security/rollback.py` 43-96, in its separate commands |
| `Rollback` | `rollback_to_point`, 99-134 |
| `WriteFile` | `tool_write_file`, `tools/registry.py` 50-60, behind `CanAccess` |
| `Bash`, `CommandEnds`, `TimesOut` | `execute_direct`, `security/sandbox.py` 170-214, behind `ValidateCommand`; the timeout kills the first process and may leave its children (`Left`, `orphans`) |
| `ProcessWorks`, `OrphanEnds` | what a program an agent started does to the tree, waited for or not, any number of times |
| `RollbackFile` | `jarvis rollback-file`, `scripts/jarvis` 63-66 |

## The runs

| Run | Instance | Shows | States |
|---|---|---|---|
| `db_safety` | three writes, one fetch, all cancellable, every failure, the pill | six safety properties and the refinement of `DbService` | 460 000 |
| `db_serving` | two writes, one fetch, no shutdown | `EveryCallAnswered`, and that only the quiet state has no successor | 6 000 |
| `tasks_safety` | one chat, KAIROS, two workers, one task of each priority, three attempts, every failure | answers, memories, claims, status order and the refinement of `RunTask` | 638 000 |
| `tasks_coordinator` | two sub-agents with two rounds each under one identifier, one attempt a round, every failure | one execution per identifier; what is accepted is good and used; `gather` ends | 140 000 |
| `tasks_claim` | one row, two workers, no failures | a finding | |
| `agent_loop` | one run in full beside another, two tool keys, responses of up to two tools, three iterations, both providers | breaker, conversation, budget, termination | 144 000 |
| `agent_truncated` | Anthropic only | a finding | |
| `memory` | two coroutines doing anything, two sessions, three messages, three memories, three embedding models, one of zero vectors | findability, coverage by summaries, the search, proposals | 3 270 000 |
| `daemon` | two notifications, two posts of each, three commits, two starts, one signal, crashes, the team | notifications accounted for, commits announced | 2 640 000 |
| `daemon_stop` | two signals, two starts, one notification | a signal ends the process | 466 000 |
| `workspace` | two agents that make points and pop, two files, two edits, two points, two clock values, everything allowed; and one agent with three attempts, every kind of task, configuration and command | edits kept, points before work | 1 540 000 |
| `workspace_rollback` | two agents, present git | a finding | |

**Bounds.** Four calls of the database layer are a request in hand, one ahead of it in `tx`
and two behind it in the queue, around the pill and a crash: every pair of places that the
invariant relates is occupied at once. (The proofs have no bound.) Two workers are needed
for a claim to be contested, and a task of each priority for KAIROS and the team to meet on
one row and miss on the other; three attempts are the code's own `max_retries`.
`tasks_coordinator` has two sub-agents so that one can fail beside the other, with one
attempt a round (the attempts are `tasks_safety`'s) and both of the code's rounds, of which
the second uses the identifier of the first again.
In `agent_loop`, up to six tool calls against a breaker of three (the code's `max_same`)
and a window of four make it trip, be reset by another call and let the first one through
again, within and across responses; two attempts per request instead of three lose no case.
The code's window is 50; the window matters only where it overflows, which four does.
`MaxCost`, `Threshold` and `Estimate` are 2, 2 and 1, so that two runs can be admitted on
the same total.

`memory` scales the code's limits (4 messages, 50 episodes, 1000 vectors, the two prompts)
down to one or two, below the three rows there may be, so that each of them is reached:
prompts are cut, batches leave rows behind, rankings are cut. Two coroutines are a reader
with its stale rows and a writer. `MaxKinds` lets at most two kinds of operation have calls
under way or rows in the tables: saves meet each of the other kinds, and searches meet
compressions and proposals. A dream needs saved episodes and so meets no third kind; it
shares no row with a compression or a proposal, and a search only reads.
Coroutines and sessions are interchangeable.
`daemon` has two notifications so that a batch has a rest when its first one fails, two
posts so that one is repeated, and two starts so that a process finds what another left. It
has three commits, so that a failed announcement is overtaken by a newer commit, and an
empty answer may come between any two. Its constraint (`MCBound`) explores the
later commits without notifications: the loops that handle the two share only the life of the
process. `daemon_stop` has both signals the code registers.
The constraint of `workspace` (`MCBound` in `MCWorkspace`) joins two searches. In the first,
two agents and the user share two files, enough for a stash that overlaps with later edits
and one that does not, and the programs that agents start pop the stash (one that writes
takes the same step as the user); two points of one second or of different ones can
have equal and different identifiers. There all is allowed and every task makes points, so
that as many steps as possible change the tree, and one attempt is enough, as another one
only makes another point. The second is the other side of it: one agent, all its
attempts, and texts, paths and commands of each behaviour that the tree can tell apart,
in environments that cover free, other paid, Anthropic, lab and red zone.
Agents and files are interchangeable.
`CHECK_DEADLOCK FALSE` stands where calls, tasks and the system may all be finished, or
the bounds be reached.

**Fairness.** `DbWriter`'s `ServingSpec`: the writer and its supervisor, and each released
caller, are eventually scheduled (asyncio's ready queue is first in, first out; the
supervisor sleeps two seconds). Nothing is assumed of failures, they may repeat for ever.
`TaskQueue`: each agent's coroutine, each worker, KAIROS and each coordinator make progress
at their awaits; database and model calls return or raise, which is what `EveryCallAnswered`
and `LoopEnds` show of the modules below. Callers, submissions, cancellations and
crashes are not fair. `AgentLoop`: the run is eventually resumed; the services' requests
carry timeouts, and the tools either have one or return. `Daemon`'s `FairSpec`: a cancelled
task is resumed and ends, because no `except` clause of the loops catches
`CancelledError`; a shutdown whose gather is over, and `main` after its second of sleep, are
resumed; an emptied loop ends the process. Neither the start nor any step of the poll is
assumed to happen: a signal during start must end the process without them.
`Memory` and `Workspace` promise no progress and state none.

## The proofs

Everything below is proved for all values of the constants, from the `ASSUME`s of the
modules alone (which TLC evaluates in the runs).

**DbWriterProofs.** A request moves along one line: the queue, the writer's hand, `tx`,
`committed`. The inductive invariant `IInv` says that tickets increase along this line
(`OrderInv`), what a place on it means for the caller's future (`LineInv`, `LogInv`), that
every awaited request is on it while the writer or its supervisor lives, and where
the pill may be (`PillInv`). Neither durability nor order is inductive alone: a drain
may fail everything queued precisely because nothing queued has reached the log. The
safety properties of `db_safety` follow, that a drain answers only what never takes effect,
and the refinement of `DbService` (`Refinement`): each step maps to the matching step of
the service or to a stutter.

**RunTaskProofs, TaskQueueProofs.** The primary key makes the INSERT a test-and-set.
`Holds(a)` is an agent that got past it; at most one holds a task (`OneHolder`); what
the tables say of a task follows from where its holder is (`Sound`), and no step of
another agent disturbs it. With arbitrary clients this gives `Exclusion`, `Answers`,
`Checkpoints`, `Memories` and `StatusOrder`. `QueueImplementsRunTask` carries them over to
the program's clients, and `QInv` adds the workers' claims and the coordinator's verdicts:
a second round never comes to a score, as its INSERT raises, so that what the last round
accepts from 50 on is what the first one scored 70 or more (`NothingRubberStamped`).

**AgentLoopProofs.** *Budget:* a run that is not active still has its cost bound left to
overspend, so `total <= Threshold + Cardinality(Runs \ admitted) * MaxCost` is inductive
while the plain bound is not; a run enters only below the threshold, and hands its bound
back when it ends. *Breaker:* `calls` is the end of the sequence of all calls that ran, as
much of it as the window holds; so a key trips exactly when the last `MaxSame` calls that
ran are all it, from which both breaker properties follow. *Conversation:* replies stand at the even
places, and a run at work on tools has the reply that asked for them at the end; the results
gathered so far, followed by the blocks that are left, are the blocks of that reply, whatever
path each of them takes. Only so is what `NextBlock` puts into the conversation complete.

**WorkspaceProofs.** `EditsKept` counts the places of an edit, which no step can be shown to
preserve by counting alone. The inductive `KeptInv` says it without numbers: an edit that
was not discarded has a place, two places of one edit are the same, a discarded or future
edit has none. A push moves every place of the tree to the head of the stack and shifts the
others by one; a pop that is not refused moves them back, to files that held nothing; an
edit takes the place of the one it discards. A push or a pop that is cut short adds places
to the edits it copies; of those `KeptInv` says only that they have one, or were discarded.
`PointBeforeWork` needs that an agent at work on a mutating task came from `LogPoint` in the
same attempt.

**RowsProofs.** Two lemmas on what a LIMIT means, cited by the proofs of `Memory`:
the rows returned are at most `n` (`NewestBounded`), and a row is left out
only if `n` that come before it in the order are returned (`LeftOut`).

**MemoryProofs.** A coroutine writes after an await what follows from rows it read before it.
The proof says first what may change in between: by `Grows` no step takes back a row, a
mark, an index entry or an acceptance, nor changes what a memory was made of
(`AppendOnly`). So what each coroutine knows, `Knows(p)`, survives the steps of all
others: the row it inserted is its own, with its batch in it (`Owns`, and `OneOwner`: no two
coroutines have one row); a compression has read all of its session but what is compressed
or came late (`ReadAll`); an accepting request at its update has its text in the file; a
search at its fusion holds two bounded rankings (`Searching`). None of the properties is
inductive without this, because each marks rows of a batch that the tables do not mention. With
it, a mark finds the summary of its batch saved, and by `LeftOut` what the prompt did not show
stands behind as many as it has room for. For the search, two reciprocal ranks of at least 1/120
add up to more than a single one of at most 1/61, which is where the proof needs `TopK <= 30`
and no bound on the tables. `DreamtOnce` adds to `IInv` that dreams, being one at a time,
take disjoint batches.

**DaemonProofs.** `Account(n)` is the ledger of a notification: it was posted as often as its
mark lapsed, and once more while the mark is awaited or after it succeeded. To keep it, the
poll must hold nothing that is marked already (`PollInv`), a late mark must find a
post (also `PollInv`), and a process that ends must charge the mark it takes with it
(`AccountEnds`). `NotificationAccounted` is weaker and not inductive. `Announced` rests on
`Announcing`: only a commit that was fetched is announced.

**Model-checked only:** liveness (`EveryCallAnswered`, `SubtasksEnd`, `AcceptedIsUsed`,
`LoopEnds`, `SignalEndsProcess`), since TLAPS does not prove liveness under fairness here,
and the violations. Every invariant and every action property of the passing runs is proved.

## Findings

Each is the counterexample of a run of its own; what the code, a comment or a test says
instead is quoted in `PROJECT.json`.

| Run | What happens |
|---|---|
| `tasks_claim` | `_claim_task` does not look at how many rows its UPDATE changed. Two workers get the same task. |
| `agent_truncated` | After a truncated response only the text of the last response is returned. |
| `workspace_rollback` | A stash is noted only if git printed "HEAD", which it does not do any more; where it does, the newest stash is popped, whichever point was asked for. The rollback is answered and restores nothing, or something else. |

The following are in the models, as the code does them, and have no run of their own. A
single call or a short sequence of calls shows each, whatever else goes on:

- A crash after `shutdown_db` drains the pill with the requests, and the restarted writer
  never stops (`Drain` in `DbWriter`; `memory/database.py` 211).
- KAIROS calls `run_task` under the identifier of the pending row, and the INSERT collides
  with that row: no background task is ever run (`daemon/kairos.py` 235). The poll logs the
  error and tries the next row (`RunPending` in `TaskQueue`).
- The second round of a subtask collides in the same way with the row of the first: it
  raises, and `gather`'s caller drops the subtask with the work it had done, against
  "Final attempt result regardless" (`Assign`, `Gather`; `agents/orchestrator.py` 160, 178).
- A worker's first payload, a JSON object, makes `route` raise and ends the worker. The
  claimed row is never marked done (`Work`; `agents/orchestrator.py` 254).
- With Ollama, the request after the first tool call cannot be serialized (`Unsendable` in
  `AgentLoop`; `llm/client.py` 311).
- After a change of embedding model, a search whose candidates hold an older vector compares
  vectors of two lengths and raises, against "never mix dimensions" (`Reconfigure`, `VectorSearch`
  in `Memory`; `memory/store.py` 217, `memory/embeddings.py` 7). Zero vectors, all that the paid
  provider gives, compare with anything.
- A shutdown that begins during start neither cancels nor awaits the loops that start creates
  afterwards, and closes the database under them; and `main` may return while a shutdown still
  waits, which then never closes it (`Initialized`, `Close`, `Exit` in `Daemon`;
  `daemon/kairos.py` 361, 377, 413).
- A command's timeout kills its first process alone, and its children go on after the answer,
  against "Commands that run too long should be killed" (`TimesOut` in `Workspace`;
  `security/sandbox.py` 203, `tests/test_security.py` 130).
- "urgent fix" and "deep debug" hold keywords of the code review route, which comes first, and
  never reach their own (`Classify` in `Tools`; `llm/router.py` 110, 111, 121).
- The families of `TASK_TOOL_SETS` are compared with tool names, so that most tasks with a set
  are offered no tool (`Active` in `Tools`; `agents/base.py` 148).
- The dream's clock of idleness is never set again after the import, so that the dream
  runs hourly whatever the daemon does (`RunTasks` in `Daemon`; `daemon/kairos.py` 202).
- Marking a session marks messages that arrived while it was compressed (`MarkSession` in
  `Memory`; `memory/store.py` 381).
- The tool `bash` runs its command outside the container (`Bash` in `Workspace`;
  `security/sandbox.py` 6 says that all of them go through it).

## What is not modelled

- Prompts, texts, scores as numbers, vectors, token counts, prices, metrics and audit
  lines; that writing an audit line can fail is modelled where it changes the control flow.
- The services themselves (SQLite, Ollama, Anthropic, Telegram, Docker): what they
  may answer is a choice of the actions that call them. Git's stash is modelled as a stack
  whose pop is refused over an edited file; commits, conflicts and untracked files are not.
- Processes without a writer. Only the daemon and the notebook start
  `supervised_db_writer`; a database call in the API's or the bot's own process waits for
  ever on `_db_ready`. `TaskQueue` and `Memory` therefore describe clients in a process that
  has one.
- Voice. `voice/pipeline.py` has a syntax error at line 198 and cannot be imported, so that
  nothing drives the rest; `WorkingMemory` and `trim_context` serve it alone.
- Functions without a caller: `execute_sandboxed` and PII substitution. `compress_session`
  and `save_session_message` have none either, and are modelled all the same, as the
  memory store is what they belong to.
- What a program does besides its effect on the tree; `get_timeout`, which the tool
  overrides with its own 60 seconds; the copy of the database a rollback point makes, which
  no code reads.
- In the API and the bot: rate windows, streaming, webhooks, chunks and formatting. `/stop`
  acknowledges and stops nothing; `/start` passes the arguments of `send_safe` in the wrong order.
- The daemon's configuration reload; the parsing of the environment; metrics.
- Pure input and output: speech, the web page, deployment files.

## The plan

In this order; the first seven are done.

1. `DbService`, `DbWriter`, proofs: everything else stands on the database layer.
2. `RunTask`, `TaskQueue`, proofs: the tasks table and its clients.
3. `Budget`, `AgentLoop`, proofs: the model loop and its limits.
4. `Memory`: sessions, memories, the dream, searches, proposals.
5. `Daemon`, proofs: start, poll, notifications, GitHub, signals and shutdown.
6. `Tools`, `Workspace`, proofs: routing and policy, and the working tree behind them.
7. `Rows`, proofs about `Memory`: what a coroutine knows over its awaits, and what a LIMIT
   leaves out.
8. The pure algorithms that are left, against reference definitions: `rate_limit`'s window,
   the voice activity counter, `send_safe`'s chunks, `trim_context` once its caller compiles.
