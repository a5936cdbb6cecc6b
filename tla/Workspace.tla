----------------------------- MODULE Workspace -----------------------------
(***************************************************************************)
(* The git working tree of JARVIS_HOME as the agents of several processes, *)
(* the user and the rollback requests change it: the rollback points       *)
(* (security/rollback.py), the attempts of run_task that make them         *)
(* (agents/base.py), and the tools that write (tools/registry.py) or run a *)
(* command (security/sandbox.py). What a task may use is in module Tools.  *)
(*                                                                         *)
(* An edit of a tracked file is a number, 0 the committed text. The        *)
(* working tree has no commits of its own. A git command that succeeds is  *)
(* atomic; one that is cut short (its timeout, its group killed) has had   *)
(* some of its effects in its own order: the stash, then the files, and    *)
(* for a pop the files, then the stash. A file is written at once, and git *)
(* itself has nothing that goes on after it.                               *)
(* Calls that only read, that are refused or that name no tool change      *)
(* nothing here. The registered handlers answer whatever name the service  *)
(* gives, offered to it or not. Each agent runs one task.                  *)
(***************************************************************************)
EXTENDS Tools

CONSTANTS Agents,
          Files,          \* tracked files
          Environments,   \* configurations the processes may be started with, and
                          \* whether "git stash push" prints "HEAD": only old versions do
          Texts, Paths, Commands,
          MaxAttempts,    \* max_retries
          MaxEdits,       \* bounds of the exploration: edits,
          MaxPoints,      \* lines of the log
          MaxClock        \* and seconds

Fields == {"lab", "zone", "anthropic", "otherPaid"}

(* What a process may do to the working tree, any number of times. *)
Works == {"read", "write", "pop"}

ASSUME WorkspaceAssumption ==
    /\ \A e \in Environments : e.printsHead \in BOOLEAN /\ [f \in Fields |-> e[f]] \in Configs
    /\ \A cmd \in Commands : cmd.does \in Works
    /\ MaxAttempts \in Nat \ {0} /\ MaxEdits \in Nat /\ MaxPoints \in Nat /\ MaxClock \in Nat

VARIABLES c,           \* the environment, the same for all processes
          clock,       \* int(time.time())
          tree,        \* the edit each file holds
          stashes,     \* git's stack, the newest first
          log,         \* ROLLBACK_LOG, with the attempt and the stash of each point
          agent,
          decision,    \* what route returned, for which text, and the tools that are offered
          command,     \* the child process an agent waits for
          orphans,     \* what is still done by processes that nobody waits for
          edits,       \* edits made so far
          discarded,   \* edits overwritten or checked out by whoever asked for that
          copied,      \* edits that a git cut short has left in two places
          answered     \* the line of the log whose rollback was just answered, or 0

git == <<tree, stashes>>
history == <<edits, discarded, copied>>
processes == <<command, orphans>>
vars == <<c, clock, git, log, agent, decision, processes, history, answered>>

Mutating == {"code_generation", "system_mgmt", "architecture"}

Idle == [at |-> "idle", attempt |-> 0, id |-> 0, hash |-> FALSE, made |-> <<>>]
NoRoute == [text |-> {}, type |-> "none", tier |-> "none", provider |-> "none", tools |-> {}]

Dirty == {f \in Files : tree[f] # 0}
Taken == [f \in Dirty |-> tree[f]]
Stash == UNION {[S -> 1..MaxEdits] : S \in SUBSET Files}

States == {"idle", "routed", "point", "pushed", "logging", "working", "waiting", "ended"}

TypeOK ==
    /\ c \in Environments
    /\ clock \in 0..MaxClock
    /\ tree \in [Files -> 0..edits]
    /\ \A i \in DOMAIN stashes : stashes[i] \in Stash \ {<<>>}
    /\ \A i \in DOMAIN log :
          log[i] \in [by : Agents, attempt : 1..MaxAttempts, id : 0..clock, hash : BOOLEAN, made : Stash]
    /\ agent \in [Agents -> [at : States, attempt : 0..MaxAttempts, id : 0..clock,
                             hash : BOOLEAN, made : Stash]]
    /\ \A a \in Agents : agent[a].at \in {"idle", "ended"} <=> decision[a] = NoRoute
    /\ command \in [Agents -> {"none"} \cup Works]
    /\ orphans \subseteq Works \ {"read"}
    /\ edits \in 0..MaxEdits
    /\ discarded \subseteq 1..edits /\ copied \subseteq 1..edits
    /\ answered \in 0..Len(log)

Init ==
    /\ c \in Environments
    /\ clock = 0
    /\ tree = [f \in Files |-> 0] /\ stashes = <<>>
    /\ log = <<>>
    /\ agent = [a \in Agents |-> Idle]
    /\ decision = [a \in Agents |-> NoRoute]
    /\ command = [a \in Agents |-> "none"] /\ orphans = {}
    /\ edits = 0 /\ discarded = {} /\ copied = {}
    /\ answered = 0

(* What a step other than a rollback leaves alone. *)
Others(variables) == UNCHANGED <<c, variables>> /\ answered' = 0

-----------------------------------------------------------------------------
(* run_task, as far as the working tree goes. *)

Start(a, text) ==
    /\ agent[a].at = "idle"
    /\ LET d == Route(text, c)
       IN  decision' = [decision EXCEPT ![a] = [text |-> text, type |-> d.type, tier |-> d.tier,
                                                provider |-> d.provider, tools |-> Active(d.type, c)]]
    /\ agent' = [agent EXCEPT ![a].at = "routed"]
    /\ Others(<<clock, git, log, processes, history>>)

(* A faulty variant: a point is made before the first attempt only. *)
AttemptNoPoint(a) ==
    /\ agent[a].at = "routed"
    /\ agent' = [agent EXCEPT ![a] = [Idle EXCEPT
            !.at = IF decision[a].type \in Mutating /\ agent[a].attempt = 0 THEN "point" ELSE "working",
            !.attempt = agent[a].attempt + 1]]
    /\ Others(<<clock, git, log, decision, processes, history>>)

(* The top of the loop over the attempts. *)
Attempt(a) ==
    /\ agent[a].at = "routed"
    /\ agent' = [agent EXCEPT ![a] = [Idle EXCEPT
            !.at = IF decision[a].type \in Mutating THEN "point" ELSE "working",
            !.attempt = agent[a].attempt + 1]]
    /\ Others(<<clock, git, log, decision, processes, history>>)

Over(a, how) ==
    /\ agent' = [agent EXCEPT ![a] = [Idle EXCEPT !.at = how]]
    /\ decision' = [decision EXCEPT ![a] = NoRoute]

(* A faulty variant: one attempt too many. *)
FailsOnceMore(a) ==
    /\ agent[a].at \in {"logging", "working"}
    /\ IF agent[a].attempt <= MaxAttempts
       THEN /\ agent' = [agent EXCEPT ![a] = [Idle EXCEPT !.at = "routed", !.attempt = agent[a].attempt]]
            /\ UNCHANGED decision
       ELSE Over(a, "ended")
    /\ Others(<<clock, git, log, processes, history>>)

(* An attempt that raises is repeated, or was the last. *)
Fails(a) ==
    /\ agent[a].at \in {"logging", "working"}
    /\ IF agent[a].attempt < MaxAttempts
       THEN /\ agent' = [agent EXCEPT ![a] = [Idle EXCEPT !.at = "routed", !.attempt = agent[a].attempt]]
            /\ UNCHANGED decision
       ELSE Over(a, "ended")
    /\ Others(<<clock, git, log, processes, history>>)

Ends(a) ==
    /\ agent[a].at = "working"
    /\ Over(a, "ended")
    /\ Others(<<clock, git, log, processes, history>>)

(* What is left of a process that is no longer waited for. *)
Left(works) == orphans' = orphans \cup (works \ {"none", "read"})

(* The task is cancelled or its process killed; the child goes on. *)
Stop(a) ==
    /\ agent[a].at \notin {"idle", "ended"}
    /\ Over(a, "ended")
    /\ Left({command[a]})
    /\ command' = [command EXCEPT ![a] = "none"]
    /\ Others(<<clock, git, log, history>>)

-----------------------------------------------------------------------------
(* security/rollback.py. *)

(* git stash push: every edit of a tracked file, whoever made it, with the  *)
(* files that are reset before it ends or is killed.                        *)
Stashed(reset) ==
    /\ stashes' = IF Dirty = {} THEN stashes ELSE <<Taken>> \o stashes
    /\ tree' = [f \in Files |-> IF f \in reset THEN 0 ELSE tree[f]]
    /\ copied' = copied \cup {tree[f] : f \in Dirty \ reset}
    /\ UNCHANGED <<edits, discarded>>

Push(a) ==
    /\ agent[a].at = "point"
    /\ Stashed(Dirty)
    /\ agent' = [agent EXCEPT ![a].id = clock, ![a].made = Taken,
                    ![a].at = IF Dirty # {} /\ c.printsHead THEN "pushed" ELSE "logging"]
    /\ Others(<<clock, log, decision, processes>>)

(* A push that fails, or is killed at its timeout after some of its        *)
(* effects: a warning, and a point without a stash.                        *)
PushFails(a) ==
    /\ agent[a].at = "point"
    /\ UNCHANGED <<git, history>> \/ \E reset \in SUBSET Dirty : Stashed(reset)
    /\ agent' = [agent EXCEPT ![a].id = clock, ![a].at = "logging"]
    /\ Others(<<clock, log, decision, processes>>)

(* git stash list --max-count=1: whatever is the newest by then, or nothing *)
(* when it fails, as its exit code is not looked at, or takes too long.     *)
ReadHash(a) ==
    /\ agent[a].at = "pushed"
    /\ \E found \in {FALSE, stashes # <<>>} :
          agent' = [agent EXCEPT ![a].hash = found, ![a].at = "logging"]
    /\ Others(<<clock, git, log, decision, processes, history>>)

LogPoint(a) ==
    /\ agent[a].at = "logging"
    /\ Len(log) < MaxPoints
    /\ log' = Append(log, [by |-> a, attempt |-> agent[a].attempt, id |-> agent[a].id,
                            hash |-> agent[a].hash, made |-> agent[a].made])
    /\ agent' = [agent EXCEPT ![a] = [Idle EXCEPT !.at = "working", !.attempt = agent[a].attempt]]
    /\ Others(<<clock, git, decision, processes, history>>)

Restored(stash, files) == [f \in Files |-> IF f \in files THEN stash[f] ELSE tree[f]]

(* The newest stash is put back and dropped. *)
PopEnds ==
    /\ tree' = Restored(Head(stashes), DOMAIN Head(stashes))
    /\ stashes' = Tail(stashes)
    /\ UNCHANGED history

(* It is killed with some of the files put back, and the stash stays. *)
PopCut(files) ==
    /\ tree' = Restored(Head(stashes), files)
    /\ copied' = copied \cup {Head(stashes)[f] : f \in files}
    /\ UNCHANGED <<stashes, edits, discarded>>

(* A faulty variant: the newest stash replaces what the files hold by now. *)
PoppedForced ==
    \/ UNCHANGED <<git, history>>
    \/ stashes # <<>> /\ PopEnds

(* git stash pop: refused when it would overwrite an edit, and it may fail. *)
Popped ==
    \/ UNCHANGED <<git, history>>
    \/ /\ stashes # <<>> /\ DOMAIN Head(stashes) \cap Dirty = {}
       /\ PopEnds \/ \E files \in SUBSET DOMAIN Head(stashes) : PopCut(files)

(* rollback_to_point: the first line with the identifier; what git says of  *)
(* the pop, and whether it takes too long, is not looked at.                *)
Rollback(id) ==
    /\ \E i \in DOMAIN log : log[i].id = id
    /\ LET line == Min({i \in DOMAIN log : log[i].id = id})
       IN  /\ IF log[line].hash THEN Popped ELSE UNCHANGED <<git, history>>
           /\ answered' = line
    /\ UNCHANGED <<c, clock, log, agent, decision, processes>>

-----------------------------------------------------------------------------
(* The tools, and the user. *)

Edited(f) ==
    /\ edits < MaxEdits
    /\ edits' = edits + 1
    /\ tree' = [tree EXCEPT ![f] = edits + 1]
    /\ discarded' = discarded \cup ({tree[f]} \ {0})
    /\ UNCHANGED <<stashes, copied>>

(* write_file, allowed by the zone of the path. *)
WriteFile(a, path, f) ==
    /\ agent[a].at = "working"
    /\ CanAccess(path, TRUE, c) /\ "workspace" \in path
    /\ Edited(f)
    /\ Others(<<clock, log, agent, decision, processes>>)

(* bash, once the command is found to be safe: its process is started. *)
Bash(a, cmd) ==
    /\ agent[a].at = "working"
    /\ ValidateCommand(cmd, c)
    /\ command' = [command EXCEPT ![a] = cmd.does]
    /\ agent' = [agent EXCEPT ![a].at = "waiting"]
    /\ Others(<<clock, git, log, decision, orphans, history>>)

(* A process, waited for or not, does some of its work. *)
ProcessWorks(work) ==
    /\ work \in orphans \/ \E a \in Agents : command[a] = work
    /\ \/ work = "write" /\ \E f \in Files : Edited(f)
       \/ work = "pop" /\ Popped
    /\ Others(<<clock, log, agent, decision, processes>>)

OrphanEnds(work) ==
    /\ work \in orphans
    /\ orphans' = orphans \ {work}
    /\ Others(<<clock, git, log, agent, decision, command, history>>)

(* The command has ended, with all that holds its output, and is answered. *)
CommandEnds(a) ==
    /\ agent[a].at = "waiting"
    /\ command' = [command EXCEPT ![a] = "none"]
    /\ agent' = [agent EXCEPT ![a].at = "working"]
    /\ Others(<<clock, git, log, decision, orphans, history>>)

(* The timeout kills the process it started, and none of that one's own. *)
TimesOut(a) ==
    /\ agent[a].at = "waiting"
    /\ Left({}) \/ Left({command[a]})
    /\ command' = [command EXCEPT ![a] = "none"]
    /\ agent' = [agent EXCEPT ![a].at = "working"]
    /\ Others(<<clock, git, log, decision, history>>)

UserEdits(f) ==
    /\ Edited(f)
    /\ Others(<<clock, log, agent, decision, processes>>)

(* jarvis rollback-file: git checkout of the committed text. *)
RollbackFile(f) ==
    /\ tree[f] # 0
    /\ tree' = [tree EXCEPT ![f] = 0]
    /\ discarded' = discarded \cup {tree[f]}
    /\ Others(<<clock, stashes, log, agent, decision, processes, edits, copied>>)

Tick ==
    /\ clock < MaxClock
    /\ clock' = clock + 1
    /\ Others(<<git, log, agent, decision, processes, history>>)

Step(a) ==
    \/ \E text \in Texts : Start(a, text)
    \/ Attempt(a) \/ Fails(a) \/ Ends(a) \/ Stop(a)
    \/ Push(a) \/ PushFails(a) \/ ReadHash(a) \/ LogPoint(a)
    \/ \E path \in Paths, f \in Files : WriteFile(a, path, f)
    \/ \E cmd \in Commands : Bash(a, cmd)
    \/ CommandEnds(a) \/ TimesOut(a)

Next ==
    \/ \E a \in Agents : Step(a)
    \/ \E f \in Files : UserEdits(f) \/ RollbackFile(f)
    \/ \E work \in Works : ProcessWorks(work) \/ OrphanEnds(work)
    \/ \E id \in 0..clock : Rollback(id)
    \/ Tick

Spec == Init /\ [][Next]_vars

-----------------------------------------------------------------------------
(* No edit gets lost between the working tree and the stack, however the    *)
(* points of several processes, rollbacks, commands that pop, kills, cut    *)
(* git commands and edits of the same files interleave: unless somebody     *)
(* replaced it or checked its file out, it is in one of the two, and only a *)
(* git cut short leaves it in more than one place, or brings back what was  *)
(* discarded (rollback.py:54, rollback.py:127).                             *)
Holder(i) == IF i = 0 THEN tree ELSE stashes[i]

Places(n) ==
    {p \in (0..Len(stashes)) \X Files : p[2] \in DOMAIN Holder(p[1]) /\ Holder(p[1])[p[2]] = n}

EditsKept ==
    \A n \in 1..edits :
        IF n \in copied THEN n \in discarded \/ Places(n) # {}
        ELSE Cardinality(Places(n)) = IF n \in discarded THEN 0 ELSE 1

(* An attempt of a mutating task works, or waits for a command, only after  *)
(* a line of that very attempt is in the log, whatever failed before        *)
(* (base.py:172: "Create rollback point before mutating actions").          *)
PointBeforeWork ==
    \A a \in Agents :
        agent[a].at \in {"working", "waiting"} /\ decision[a].type \in Mutating =>
            \E i \in DOMAIN log : log[i].by = a /\ log[i].attempt = agent[a].attempt

(* When a rollback is answered, what its point had put aside is no longer *)
(* on the stack (rollback.py:101: "Restore state to a specific rollback     *)
(* point.").                                                                *)
RollbackRestores ==
    answered # 0 =>
        LET made == log[answered].made
        IN  made = <<>> \/ \A k \in DOMAIN stashes : stashes[k] # made

=============================================================================
