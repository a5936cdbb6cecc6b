------------------------------- MODULE Daemon -------------------------------
(***************************************************************************)
(* The KAIROS daemon (daemon/kairos.py): one process that systemd starts   *)
(* again whenever it ends, its coroutines, the signals that end it, and    *)
(* what it owes the outside world: the notifications queued in the tasks   *)
(* table and the announcement of a repository's new commits.               *)
(*                                                                         *)
(*   main      run_daemon: start, then a loop on _running;                 *)
(*   writer    supervised_db_writer (module DbWriter);                     *)
(*   poll      _poll_loop: tasks (module TaskQueue), the dream (module     *)
(*             Memory), notifications;                                     *)
(*   github    _github_monitor_loop, for one repository;                   *)
(*   periodic  _health_loop and _watchdog_loop, which keep no state and    *)
(*             start and end in the same way;                              *)
(*   shutdown  one graceful_shutdown per signal.                           *)
(* Telegram is enabled. The poll's batch of background tasks and the dream *)
(* are one await each.                                                     *)
(***************************************************************************)
EXTENDS Rows, FiniteSetsExt

CONSTANTS Notifs,      \* rows of the tasks table with task_type 'notification', by age
          Signals,     \* SIGTERM and SIGINT, as delivered to one process
          NotifLimit,  \* 10: notifications of one poll
          MaxCommits,  \* bounds of the exploration: commits of the repository,
          MaxPosts,    \* posts of one notification,
          MaxStarts    \* and starts of the process

ASSUME DaemonAssumption ==
    /\ Notifs \subseteq Nat
    /\ NotifLimit \in Nat \ {0}
    /\ MaxCommits \in Nat \ {0} /\ MaxPosts \in Nat /\ MaxStarts \in Nat

Loops == {"writer", "poll", "periodic", "github"}

(* Commits are numbered from 1; a sha may also be empty, or not yet there. *)
Empty == 0
None == -1

VARIABLES life,      \* the process, or how far main has come
          starts,    \* times it was started
          running,   \* _running
          coro,      \* the daemon's tasks
          at,        \* the await each working loop is at
          due,       \* notifications that the poll selected and has not handled
          dreamDue,  \* an hour has passed since _last_dream_time
          shutdown,  \* the graceful_shutdown that a signal started
          gathered,  \* the tasks it cancelled and waits for
          status,    \* rows of the notifications
          posted,    \* times Telegram was handed a notification
          lapses,    \* those after which its row was not marked
          head,      \* latest commit of the repository
          fetched,   \* the sha of the check under way, or None
          known,     \* known_shas.get(repo)
          seen,      \* the first sha this process saw, or None
          announced  \* shas it announced

process == <<life, starts, running, coro, shutdown, gathered>>
notes == <<status, posted, lapses>>
github == <<head, fetched, known, seen, announced>>
vars == <<process, at, due, dreamDue, notes, github>>

TypeOK ==
    /\ life \in {"off", "starting", "serving", "ending"}
    /\ starts \in 0..MaxStarts
    /\ running \in BOOLEAN
    /\ coro \in [Loops -> {"absent", "alive", "cancelling", "done"}]
    /\ at \in [{"poll", "github"} -> {"sleep", "tasks", "dream", "select", "post", "mark", "fetch", "announce"}]
    /\ due \subseteq Notifs
    /\ at["poll"] \in {"post", "mark"} => due # {}
    /\ dreamDue \in BOOLEAN
    /\ shutdown \in [Signals -> {"none", "gathering", "closed", "cancelled"}]
    /\ gathered \in [Signals -> SUBSET Loops]
    /\ status \in [Notifs -> {"absent", "pending", "running", "completed"}]
    /\ posted \in [Notifs -> 0..MaxPosts]
    /\ lapses \in [Notifs -> 0..MaxPosts]
    /\ head \in 1..MaxCommits
    /\ fetched \in None..head /\ known \in None..head /\ seen \in None..head
    /\ announced \subseteq 0..head
    /\ life = "off" => \A l \in Loops : coro[l] \in {"absent", "done"}

(* What a process that ends takes with it. *)
Forget ==
    /\ life' = "off" /\ running' = FALSE
    /\ coro' = [l \in Loops |-> "absent"]
    /\ at' = [l \in {"poll", "github"} |-> "sleep"]
    /\ due' = {} /\ dreamDue' = FALSE
    /\ shutdown' = [s \in Signals |-> "none"]
    /\ gathered' = [s \in Signals |-> {}]
    /\ fetched' = None /\ known' = None /\ seen' = None /\ announced' = {}

Init ==
    /\ life = "off" /\ starts = 0 /\ running = FALSE
    /\ coro = [l \in Loops |-> "absent"]
    /\ at = [l \in {"poll", "github"} |-> "sleep"]
    /\ due = {} /\ dreamDue = FALSE
    /\ shutdown = [s \in Signals |-> "none"]
    /\ gathered = [s \in Signals |-> {}]
    /\ status = [n \in Notifs |-> "absent"]
    /\ posted = [n \in Notifs |-> 0]
    /\ lapses = [n \in Notifs |-> 0]
    /\ head = 1 /\ fetched = None /\ known = None /\ seen = None /\ announced = {}

-----------------------------------------------------------------------------
(* The process: start, signals, end. *)

(* systemd starts the unit; start() creates the writer, notifies READY=1    *)
(* and awaits _heavy_init.                                                  *)
Start ==
    /\ life = "off" /\ starts < MaxStarts
    /\ life' = "starting" /\ starts' = starts + 1
    /\ coro' = [coro EXCEPT !["writer"] = "alive"]
    /\ UNCHANGED <<running, shutdown, gathered, at, due, dreamDue, notes, github>>

(* _heavy_init returns whatever fails in it: _running = True, whether or    *)
(* not a signal has come, and the loops are created.                        *)
Initialized ==
    /\ life = "starting"
    /\ life' = "serving" /\ running' = TRUE
    /\ coro' = [l \in Loops |-> IF l = "writer" THEN coro[l] ELSE "alive"]
    /\ at' = [l \in {"poll", "github"} |-> IF l = "poll" THEN "tasks" ELSE "fetch"]
    /\ UNCHANGED <<starts, shutdown, gathered, due, dreamDue, notes, github>>

Tasks == {l \in Loops : coro[l] # "absent"}

Cancelled(ls) == [l \in Loops |-> IF l \in ls /\ coro[l] = "alive" THEN "cancelling" ELSE coro[l]]

(* A faulty variant: the tasks are awaited and not cancelled. *)
SignalNoCancel(s) ==
    /\ life \in {"starting", "serving"}
    /\ shutdown[s] = "none"
    /\ shutdown' = [shutdown EXCEPT ![s] = "gathering"]
    /\ gathered' = [gathered EXCEPT ![s] = Tasks]
    /\ running' = FALSE
    /\ UNCHANGED <<life, starts, coro, at, due, dreamDue, notes, github>>

(* A signal: graceful_shutdown runs up to its gather. *)
Signal(s) ==
    /\ life \in {"starting", "serving"}
    /\ shutdown[s] = "none"
    /\ shutdown' = [shutdown EXCEPT ![s] = "gathering"]
    /\ gathered' = [gathered EXCEPT ![s] = Tasks]
    /\ running' = FALSE
    /\ coro' = Cancelled(Tasks)
    /\ UNCHANGED <<life, starts, at, due, dreamDue, notes, github>>

(* A notification that was posted and will not be marked. *)
Lapsed(n) == [lapses EXCEPT ![n] = @ + 1]

Unmarked ==
    IF coro["poll"] \in {"alive", "cancelling"} /\ at["poll"] = "mark" THEN Lapsed(Min(due)) ELSE lapses

(* A cancelled task ends: CancelledError passes every "except Exception".   *)
(* No loop ends by its own test of _running, because what clears it also    *)
(* cancels the loops.                                                       *)
Finish(l) ==
    /\ coro[l] = "cancelling"
    /\ coro' = [coro EXCEPT ![l] = "done"]
    /\ lapses' = IF l = "poll" THEN Unmarked ELSE lapses
    /\ UNCHANGED <<life, starts, running, shutdown, gathered, at, due, dreamDue, status, posted, github>>

(* gather returns, shutdown_db queues the pill, and loop.stop() makes       *)
(* asyncio.run give main up and cancel every task that is left.             *)
Close(s) ==
    /\ shutdown[s] = "gathering"
    /\ life # "ending"
    /\ \A l \in gathered[s] : coro[l] = "done"
    /\ shutdown' = [shutdown EXCEPT ![s] = "closed"]
    /\ life' = "ending"
    /\ coro' = Cancelled(Tasks)
    /\ UNCHANGED <<starts, running, gathered, at, due, dreamDue, notes, github>>

(* main sees _running = False within a second and returns: asyncio.run      *)
(* cancels every task that is left, a waiting shutdown included.            *)
Return ==
    /\ life = "serving" /\ ~running
    /\ life' = "ending"
    /\ shutdown' = [s \in Signals |-> IF shutdown[s] = "gathering" THEN "cancelled" ELSE shutdown[s]]
    /\ coro' = Cancelled(Tasks)
    /\ UNCHANGED <<starts, running, gathered, at, due, dreamDue, notes, github>>

Exit ==
    /\ life = "ending"
    /\ \A l \in Loops : coro[l] \in {"absent", "done"}
    /\ Forget
    /\ UNCHANGED <<starts, notes, head>>

(* The process is killed. *)
Crash ==
    /\ life # "off"
    /\ Forget
    /\ lapses' = Unmarked
    /\ UNCHANGED <<starts, status, posted, head>>

-----------------------------------------------------------------------------
(* The poll. A call of the database needs the writer. *)

AtPoll(step) == coro["poll"] = "alive" /\ at["poll"] = step
PollTo(step) == at' = [at EXCEPT !["poll"] = step]
Database == coro["writer"] = "alive"

(* The sleep of poll_interval_s is over. *)
Wake ==
    /\ AtPoll("sleep") /\ running
    /\ PollTo("tasks")
    /\ UNCHANGED <<process, due, dreamDue, notes, github>>

(* _process_pending_tasks; a row's failure is logged. The dream runs at     *)
(* most once an hour: _last_activity_time is never set again, so that the   *)
(* daemon counts as idle from its sixteenth minute on.                      *)
RunTasks ==
    /\ AtPoll("tasks") /\ Database
    /\ IF dreamDue THEN PollTo("dream") /\ dreamDue' = FALSE
                   ELSE PollTo("select") /\ UNCHANGED dreamDue
    /\ UNCHANGED <<process, due, notes, github>>

(* _run_dream swallows what run_auto_dream raises. *)
Dreamt ==
    /\ AtPoll("dream")
    /\ PollTo("select")
    /\ UNCHANGED <<process, due, dreamDue, notes, github>>

HourPasses ==
    /\ life = "serving" /\ ~dreamDue
    /\ dreamDue' = TRUE
    /\ UNCHANGED <<process, at, due, notes, github>>

(* One of the poll's SELECTs raises: the rest of the poll is skipped. *)
PollFails ==
    /\ AtPoll("tasks") \/ AtPoll("select")
    /\ PollTo("sleep")
    /\ UNCHANGED <<process, due, dreamDue, notes, github>>

(* The oldest pending notifications; an empty batch ends the poll. *)
Select ==
    /\ AtPoll("select") /\ Database
    /\ due' = Oldest(NotifLimit, {n \in Notifs : status[n] = "pending"})
    /\ PollTo(IF due' = {} THEN "sleep" ELSE "post")
    /\ UNCHANGED <<process, dreamDue, notes, github>>

(* A faulty variant: the end of the batch is missed. *)
NextForEver ==
    /\ due' = due \ {Min(due)}
    /\ PollTo("post")

(* The next of the batch, or the end of the poll. *)
NextNotification ==
    /\ due' = due \ {Min(due)}
    /\ PollTo(IF due' = {} THEN "sleep" ELSE "post")

Posted(n) == [posted EXCEPT ![n] = @ + 1]

(* _send_telegram returns, whatever the answer's status. *)
Post ==
    /\ AtPoll("post") /\ posted[Min(due)] < MaxPosts
    /\ posted' = Posted(Min(due))
    /\ PollTo("mark")
    /\ UNCHANGED <<process, due, dreamDue, status, lapses, github>>

(* It raises and the row stays as it is. A message that Telegram got and    *)
(* whose answer is lost is a Post and a MarkFails.                          *)
PostFails ==
    /\ AtPoll("post")
    /\ NextNotification
    /\ UNCHANGED <<process, dreamDue, notes, github>>

(* A faulty variant: the whole batch is marked after its first post. *)
MarkBatch ==
    /\ AtPoll("mark") /\ Database
    /\ status' = [n \in Notifs |-> IF n \in due THEN "completed" ELSE status[n]]
    /\ NextNotification
    /\ UNCHANGED <<process, dreamDue, posted, lapses, github>>

(* UPDATE tasks SET status='completed' WHERE id=?. *)
Mark ==
    /\ AtPoll("mark") /\ Database
    /\ status' = [status EXCEPT ![Min(due)] = "completed"]
    /\ NextNotification
    /\ UNCHANGED <<process, dreamDue, posted, lapses, github>>

MarkFails ==
    /\ AtPoll("mark")
    /\ lapses' = Lapsed(Min(due))
    /\ NextNotification
    /\ UNCHANGED <<process, dreamDue, status, posted, github>>

(* The update of a cancelled poll is still in the queue and takes effect.   *)
LateMark(n) ==
    /\ coro["writer"] \in {"alive", "cancelling"}
    /\ at["poll"] = "mark" /\ coro["poll"] = "done" /\ due # {} /\ n = Min(due)
    /\ status[n] # "completed"
    /\ status' = [status EXCEPT ![n] = "completed"]
    /\ UNCHANGED <<process, at, due, dreamDue, posted, lapses, github>>

(* AgentTeam.submit_task with a payload of type "notification". *)
Notify(n) ==
    /\ status[n] = "absent"
    /\ status' = [status EXCEPT ![n] = "pending"]
    /\ UNCHANGED <<process, at, due, dreamDue, posted, lapses, github>>

(* A worker of the team claims the row: its SELECT knows no task_type. *)
TeamClaims(n) ==
    /\ status[n] = "pending"
    /\ status' = [status EXCEPT ![n] = "running"]
    /\ UNCHANGED <<process, at, due, dreamDue, posted, lapses, github>>

-----------------------------------------------------------------------------
(* The repository. *)

AtGithub(step) == coro["github"] = "alive" /\ at["github"] = step
GithubTo(step) == at' = [at EXCEPT !["github"] = step]

Push ==
    /\ head < MaxCommits
    /\ head' = head + 1
    /\ UNCHANGED <<process, at, due, dreamDue, notes, fetched, known, seen, announced>>

GithubWakes ==
    /\ AtGithub("sleep") /\ running
    /\ GithubTo("fetch")
    /\ UNCHANGED <<process, due, dreamDue, notes, github>>

(* A faulty variant: the new sha is noted before it is announced. *)
FetchAndNote ==
    /\ AtGithub("fetch")
    /\ \E sha \in {Empty, head} :
          /\ known' = sha
          /\ IF known \in {None, sha} THEN GithubTo("sleep") /\ UNCHANGED fetched
                                      ELSE GithubTo("announce") /\ fetched' = sha
          /\ seen' = IF known = None THEN sha ELSE seen
    /\ UNCHANGED <<process, due, dreamDue, notes, head, announced>>

(* _get_latest_commit, empty when the answer lists no commit: the first sha *)
(* that a process sees is only noted, and any other one is announced.       *)
Fetch ==
    /\ AtGithub("fetch")
    /\ \E sha \in {Empty, head} :
          /\ IF known \in {None, sha}
             THEN known' = sha /\ GithubTo("sleep") /\ UNCHANGED fetched
             ELSE fetched' = sha /\ GithubTo("announce") /\ UNCHANGED known
          /\ seen' = IF known = None THEN sha ELSE seen
    /\ UNCHANGED <<process, due, dreamDue, notes, head, announced>>

(* The message is sent and the sha noted. *)
Announce ==
    /\ AtGithub("announce")
    /\ known' = fetched /\ announced' = announced \cup {fetched}
    /\ fetched' = None
    /\ GithubTo("sleep")
    /\ UNCHANGED <<process, due, dreamDue, notes, head, seen>>

(* Either await raises: it is tried again in five minutes. *)
GithubFails ==
    /\ AtGithub("fetch") \/ AtGithub("announce")
    /\ fetched' = None
    /\ GithubTo("sleep")
    /\ UNCHANGED <<process, due, dreamDue, notes, head, known, seen, announced>>

-----------------------------------------------------------------------------
PollSteps ==
    \/ Wake \/ RunTasks \/ Dreamt \/ PollFails
    \/ Select \/ Post \/ PostFails \/ Mark \/ MarkFails
GithubSteps == GithubWakes \/ Fetch \/ Announce \/ GithubFails
Environment ==
    \/ HourPasses \/ Push
    \/ \E n \in Notifs : Notify(n) \/ TeamClaims(n) \/ LateMark(n)
EndSteps ==
    \/ \E l \in Loops : Finish(l)
    \/ \E s \in Signals : Close(s)
    \/ Return \/ Exit

Next ==
    \/ Start \/ Initialized \/ Crash
    \/ \E s \in Signals : Signal(s)
    \/ EndSteps \/ PollSteps \/ GithubSteps \/ Environment

Spec == Init /\ [][Next]_vars

(* asyncio resumes every task that can go on. *)
Fairness ==
    /\ \A l \in Loops : WF_vars(Finish(l))
    /\ \A s \in Signals : WF_vars(Close(s))
    /\ WF_vars(Return) /\ WF_vars(Exit)

FairSpec == Spec /\ Fairness

-----------------------------------------------------------------------------
(* Properties. *)

(* A notification is marked completed only after Telegram was handed it,    *)
(* and is handed over again only after an earlier time whose mark failed,   *)
(* was cancelled or died with the process (kairos.py:262-273).              *)
NotificationAccounted ==
    \A n \in Notifs :
        /\ status[n] = "completed" => posted[n] > 0
        /\ posted[n] <= lapses[n] + 1

(* The sha a process last took note of is the first one it saw or one it    *)
(* announced: a failed announcement is never taken for made                 *)
(* (kairos.py:294-303).                                                     *)
CommitAnnounced == known \in {None, seen} \cup announced

(* A signal ends the process, even one that comes during start, whose end   *)
(* sets _running again (kairos.py:107, 402-413).                            *)
SignalEndsProcess ==
    \A s \in Signals : shutdown[s] = "gathering" ~> life = "off"

=============================================================================
