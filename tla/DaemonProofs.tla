---------------------------- MODULE DaemonProofs ----------------------------
(***************************************************************************)
(* Proofs about Daemon, for any number of notifications, signals, posts,   *)
(* commits and starts.                                                     *)
(*                                                                         *)
(* A notification has been posted as often as its mark has lapsed, and     *)
(* once more while the mark is awaited or when it succeeded.  A sha that   *)
(* is to be announced was fetched.                                         *)
(***************************************************************************)
EXTENDS Daemon, WellFoundedInduction, TLAPS

(* The poll has posted n and awaits its mark. *)
Marking(n) == coro["poll"] \in {"alive", "cancelling"} /\ at["poll"] = "mark" /\ n = Min(due)

Account(n) ==
    /\ posted[n] \in {lapses[n], lapses[n] + 1}
    /\ Marking(n) => posted[n] = lapses[n] + 1
    /\ ~Marking(n) /\ status[n] # "completed" => posted[n] = lapses[n]
    /\ status[n] = "completed" => posted[n] > 0

(* What a poll still has to handle is not marked. *)
PollInv ==
    /\ coro["poll"] \in {"alive", "cancelling"} /\ at["poll"] \in {"post", "mark"} =>
          \A n \in due : status[n] # "completed"
    /\ at["poll"] = "mark" => posted[Min(due)] > 0
    /\ life \in {"off", "starting"} => coro["poll"] = "absent"

Announcing == at["github"] = "announce" => fetched # None

IInv ==
    /\ TypeOK
    /\ \A n \in Notifs : Account(n)
    /\ PollInv
    /\ Announcing
    /\ CommitAnnounced

-----------------------------------------------------------------------------
(* The next notification of a batch is one of it. *)
LEMMA NextDue ==
    ASSUME NEW S \in SUBSET Nat, S # {}
    PROVE  Min(S) \in S
<1>1. PICK m \in S : \A i \in S : m <= i
    <2>. DEFINE R == OpToRel(<, Nat)
    <2>1. PICK m \in S : \A i \in S : ~(<<i, m>> \in R)
        <3>. HIDE DEF R
        <3>. QED BY NatLessThanWellFounded, WFMin DEF R
    <2>2. ASSUME NEW i \in S PROVE m <= i
        <3>1. i \in Nat /\ m \in Nat
            OBVIOUS
        <3>2. i < m => <<i, m>> \in R
            BY <3>1 DEF OpToRel
        <3>3. ~(i < m)
            <4>. HIDE DEF R
            <4>. QED BY <2>1, <3>2
        <3>. QED BY <3>1, <3>3
    <2>. QED BY <2>2
<1>. QED BY <1>1 DEF Min

LEMMA InitInv == Init => IInv
<1> SUFFICES ASSUME Init PROVE IInv
    OBVIOUS
<1>. USE DaemonAssumption DEF Init
<1>0. at["poll"] = "sleep"
    OBVIOUS
<1>1. TypeOK
    <2>1. /\ at \in [{"poll", "github"} -> {"sleep", "tasks", "dream", "select", "post", "mark", "fetch", "announce"}]
          /\ coro \in [Loops -> {"absent", "alive", "cancelling", "done"}]
          /\ shutdown \in [Signals -> {"none", "gathering", "closed", "cancelled"}]
          /\ gathered \in [Signals -> SUBSET Loops]
          /\ status \in [Notifs -> {"absent", "pending", "running", "completed"}]
          /\ posted \in [Notifs -> 0..MaxPosts] /\ lapses \in [Notifs -> 0..MaxPosts]
        OBVIOUS
    <2>2. /\ life = "off" /\ starts \in 0..MaxStarts /\ running \in BOOLEAN /\ due = {} /\ dreamDue \in BOOLEAN
          /\ \A l \in Loops : coro[l] = "absent"
        <3>1. starts = 0 /\ MaxStarts \in Nat
            OBVIOUS
        <3>2. starts \in 0..MaxStarts
            BY ONLY <3>1
        <3>. QED BY <3>2
    <2>3. /\ head \in 1..MaxCommits
          /\ fetched \in None..head /\ known \in None..head /\ seen \in None..head
          /\ announced \subseteq 0..head
        <3>1. head = 1 /\ fetched = -1 /\ known = -1 /\ seen = -1 /\ announced = {} /\ MaxCommits \in Nat \ {0}
            BY DEF None
        <3>. QED BY ONLY <3>1 DEF None
    <2>. QED BY ONLY <1>0, <2>1, <2>2, <2>3 DEF TypeOK
<1>2. \A n \in Notifs : Account(n)
    BY DEF Account, Marking
<1>3. PollInv
    BY <1>0 DEF PollInv, Loops
<1>4. Announcing /\ CommitAnnounced
    BY DEF Announcing, CommitAnnounced
<1>. QED BY <1>1, <1>2, <1>3, <1>4 DEF IInv

(* The accounts do not depend on what these steps change. *)
Live == coro["poll"] \in {"alive", "cancelling"}

LEMMA AccountFrame ==
    ASSUME \A n \in Notifs : Account(n), UNCHANGED notes, due' = due,
           Live' <=> Live, at'["poll"] = "mark" <=> at["poll"] = "mark"
    PROVE  \A n \in Notifs : Account(n)'
BY DEF Account, Marking, Live, notes

(* A process that ends marks no more. *)
LEMMA AccountEnds ==
    ASSUME TypeOK, \A n \in Notifs : Account(n), PollInv,
           lapses' = Unmarked, status' = status, posted' = posted, ~Live'
    PROVE  \A n \in Notifs : Account(n)'
<1>1. \A n \in Notifs : ~Marking(n)'
    BY DEF Marking, Live
<1>2. CASE Live /\ at["poll"] = "mark"
    <2>1. Min(due) \in Notifs
        <3>1. due # {} /\ due \in SUBSET Nat /\ due \subseteq Notifs
            BY <1>2, DaemonAssumption DEF TypeOK
        <3>. QED BY <3>1, NextDue
    <2>2. lapses' = [lapses EXCEPT ![Min(due)] = lapses[Min(due)] + 1]
        BY <1>2 DEF Unmarked, Lapsed, Live
    <2>3. ASSUME NEW n \in Notifs PROVE Account(n)'
        <3>1. Account(n) /\ lapses[n] \in Nat /\ posted[n] \in Nat
            BY DaemonAssumption DEF TypeOK
        <3>2. lapses'[n] = IF n = Min(due) THEN lapses[n] + 1 ELSE lapses[n]
            BY <2>2 DEF TypeOK
        <3>3. Marking(n) <=> n = Min(due)
            BY <1>2 DEF Marking, Live
        <3>4. lapses[n] + 1 # lapses[n]
            BY <3>1
        <3>. QED BY <1>1, <3>1, <3>2, <3>3 DEF Account
    <2>. QED BY <2>3
<1>3. CASE ~(Live /\ at["poll"] = "mark")
    <2>1. lapses' = lapses
        BY <1>3 DEF Unmarked, Live
    <2>2. \A n \in Notifs : ~Marking(n)
        BY <1>3 DEF Marking, Live
    <2>. QED BY <1>1, <2>1, <2>2 DEF Account
<1>. QED BY <1>2, <1>3

(* The tasks that a cancellation reaches are alive or not as before. *)
LEMMA CancelledLive ==
    ASSUME TypeOK, NEW ls, coro' = Cancelled(ls)
    PROVE  /\ coro' \in [Loops -> {"absent", "alive", "cancelling", "done"}]
           /\ Live' <=> Live
           /\ \A l \in Loops : coro'[l] = "absent" <=> coro[l] = "absent"
           /\ \A l \in Loops : coro[l] = "done" => coro'[l] = "done"
BY DEF TypeOK, Cancelled, Live, Loops

LEMMA ForgetTypes ==
    ASSUME TypeOK, Forget
    PROVE  /\ life' = "off" /\ running' = FALSE /\ due' = {} /\ dreamDue' = FALSE
           /\ \A l \in Loops : coro'[l] = "absent"
           /\ coro' \in [Loops -> {"absent", "alive", "cancelling", "done"}]
           /\ at' \in [{"poll", "github"} -> {"sleep", "tasks", "dream", "select", "post", "mark", "fetch", "announce"}]
           /\ at'["poll"] = "sleep" /\ at'["github"] = "sleep" /\ ~Live'
           /\ shutdown' \in [Signals -> {"none", "gathering", "closed", "cancelled"}]
           /\ gathered' \in [Signals -> SUBSET Loops]
           /\ \A s \in Signals : shutdown'[s] = "none"
           /\ fetched' = None /\ known' = None /\ seen' = None /\ announced' = {}
<1>1. /\ coro' = [l \in Loops |-> "absent"] /\ at' = [l \in {"poll", "github"} |-> "sleep"]
      /\ shutdown' = [s \in Signals |-> "none"] /\ gathered' = [s \in Signals |-> {}]
    BY DEF Forget
<1>2. at'["poll"] = "sleep" /\ at'["github"] = "sleep" /\ coro'["poll"] = "absent"
    BY <1>1 DEF Loops
<1>. QED BY <1>1, <1>2 DEF Forget, Live

(* After a notification was handled the poll does not await its mark. *)
LEMMA NextHandled ==
    ASSUME TypeOK, at["poll"] \in {"post", "mark"}, NextNotification
    PROVE  /\ due' \subseteq due /\ Min(due) \in Notifs /\ Min(due) \notin due' /\ Min(due) \in due
           /\ at'["poll"] \in {"sleep", "post"} /\ (at'["poll"] = "post" => due' # {})
           /\ at' \in [{"poll", "github"} -> {"sleep", "tasks", "dream", "select", "post", "mark", "fetch", "announce"}]
<1>1. due # {} /\ due \in SUBSET Nat /\ due \subseteq Notifs
    BY DaemonAssumption DEF TypeOK
<1>2. Min(due) \in due
    BY <1>1, NextDue
<1>. QED BY <1>1, <1>2 DEF NextNotification, PollTo, TypeOK

-----------------------------------------------------------------------------
(* The types. *)

Coros == [Loops -> {"absent", "alive", "cancelling", "done"}]
Ats == [{"poll", "github"} -> {"sleep", "tasks", "dream", "select", "post", "mark", "fetch", "announce"}]

ProcessInv ==
    /\ life \in {"off", "starting", "serving", "ending"}
    /\ starts \in 0..MaxStarts
    /\ running \in BOOLEAN
    /\ coro \in Coros
    /\ shutdown \in [Signals -> {"none", "gathering", "closed", "cancelled"}]
    /\ gathered \in [Signals -> SUBSET Loops]
    /\ life = "off" => \A l \in Loops : coro[l] \in {"absent", "done"}

BatchInv ==
    /\ at \in Ats
    /\ due \subseteq Notifs
    /\ at["poll"] \in {"post", "mark"} => due # {}
    /\ dreamDue \in BOOLEAN

NotesInv ==
    /\ status \in [Notifs -> {"absent", "pending", "running", "completed"}]
    /\ posted \in [Notifs -> 0..MaxPosts]
    /\ lapses \in [Notifs -> 0..MaxPosts]

GithubInv ==
    /\ head \in 1..MaxCommits
    /\ fetched \in None..head /\ known \in None..head /\ seen \in None..head
    /\ announced \subseteq 0..head

LEMMA TypeParts == TypeOK <=> ProcessInv /\ BatchInv /\ NotesInv /\ GithubInv
BY DEF TypeOK, ProcessInv, BatchInv, NotesInv, GithubInv, Coros, Ats

LEMMA ProcessTypes ==
    ASSUME TypeOK, [Next]_vars
    PROVE  ProcessInv'
<1>1. ProcessInv
    BY TypeParts
<1>2. ASSUME UNCHANGED process PROVE ProcessInv'
    BY <1>1, <1>2 DEF ProcessInv, process
<1>3. CASE UNCHANGED vars
    BY <1>2, <1>3 DEF vars
<1>4. CASE Start
    <2>1. coro' \in Coros
        BY <1>1, <1>4 DEF Start, ProcessInv, Coros
    <2>2. starts' \in 0..MaxStarts
        <3>1. starts \in 0..MaxStarts /\ starts < MaxStarts /\ starts' = starts + 1 /\ MaxStarts \in Nat
            BY <1>1, <1>4, DaemonAssumption DEF Start, ProcessInv
        <3>. QED BY ONLY <3>1
    <2>. QED BY <1>1, <1>4, <2>1, <2>2 DEF Start, ProcessInv
<1>5. CASE Initialized
    BY <1>1, <1>5 DEF Initialized, ProcessInv, Coros
<1>6. CASE Crash \/ Exit
    BY <1>1, <1>6, ForgetTypes DEF Crash, Exit, ProcessInv, Coros
<1>7. ASSUME NEW s \in Signals, Signal(s) PROVE ProcessInv'
    <2>1. coro' \in Coros /\ Tasks \in SUBSET Loops
        BY <1>7, CancelledLive DEF Signal, Coros, Tasks
    <2>. QED BY <1>1, <1>7, <2>1 DEF Signal, ProcessInv
<1>8. ASSUME NEW s \in Signals, Close(s) PROVE ProcessInv'
    <2>1. coro' \in Coros
        BY <1>8, CancelledLive DEF Close, Coros
    <2>. QED BY <1>1, <1>8, <2>1 DEF Close, ProcessInv
<1>9. CASE Return
    <2>1. coro' \in Coros
        BY <1>9, CancelledLive DEF Return, Coros
    <2>2. shutdown' \in [Signals -> {"none", "gathering", "closed", "cancelled"}]
        BY <1>1, <1>9 DEF Return, ProcessInv
    <2>. QED BY <1>1, <1>9, <2>1, <2>2 DEF Return, ProcessInv
<1>10. ASSUME NEW l \in Loops, Finish(l) PROVE ProcessInv'
    BY <1>1, <1>10 DEF Finish, ProcessInv, Coros
<1>11. CASE PollSteps \/ GithubSteps
    BY <1>2, <1>11 DEF PollSteps, GithubSteps, Wake, RunTasks, Dreamt, PollFails, Select, Post, PostFails, Mark,
        MarkFails, GithubWakes, Fetch, Announce, GithubFails
<1>12. CASE Environment
    BY <1>2, <1>12 DEF Environment, HourPasses, Push, Notify, TeamClaims, LateMark
<1>. QED BY <1>3, <1>4, <1>5, <1>6, <1>7, <1>8, <1>9, <1>10, <1>11, <1>12 DEF Next, EndSteps

LEMMA BatchTypes ==
    ASSUME TypeOK, [Next]_vars
    PROVE  BatchInv'
<1>1. BatchInv
    BY TypeParts
<1>2. ASSUME UNCHANGED <<at, due, dreamDue>> PROVE BatchInv'
    BY <1>1, <1>2 DEF BatchInv
<1>3. CASE UNCHANGED vars
    BY <1>2, <1>3 DEF vars
<1>4. CASE Start \/ \E s \in Signals : Signal(s)
    BY <1>2, <1>4 DEF Start, Signal
<1>5. CASE Initialized
    <2>1. at' = [l \in {"poll", "github"} |-> IF l = "poll" THEN "tasks" ELSE "fetch"]
        BY <1>5 DEF Initialized
    <2>2. at' \in Ats /\ at'["poll"] = "tasks"
        BY <2>1 DEF Ats
    <2>. QED BY <1>1, <1>5, <2>2 DEF Initialized, BatchInv
<1>6. CASE Crash \/ Exit
    BY <1>1, <1>6, ForgetTypes DEF Crash, Exit, BatchInv, Ats
<1>7. CASE EndSteps /\ ~Exit
    BY <1>2, <1>7 DEF EndSteps, Finish, Close, Return
<1>8. ASSUME NEW step \in {"tasks", "dream", "select", "sleep", "fetch", "announce"}, NEW l \in {"poll", "github"},
             at' = [at EXCEPT ![l] = step], due' = due, dreamDue' \in BOOLEAN
      PROVE  BatchInv'
    <2>1. at' \in Ats /\ (at'["poll"] = step \/ at'["poll"] = at["poll"])
        BY <1>1, <1>8 DEF BatchInv, Ats
    <2>. QED BY <1>1, <1>8, <2>1 DEF BatchInv
<1>9. CASE Wake \/ Dreamt \/ PollFails
    BY <1>1, <1>8, <1>9 DEF Wake, Dreamt, PollFails, PollTo, BatchInv
<1>10. CASE RunTasks
    BY <1>1, <1>8, <1>10 DEF RunTasks, PollTo, BatchInv
<1>11. CASE Select
    <2>1. due' \subseteq Notifs /\ dreamDue' = dreamDue
        BY <1>11 DEF Select, Oldest
    <2>2. at' \in Ats /\ at'["poll"] = IF due' = {} THEN "sleep" ELSE "post"
        BY <1>1, <1>11 DEF Select, PollTo, BatchInv, Ats
    <2>. QED BY <1>1, <2>1, <2>2 DEF BatchInv
<1>12. CASE Post
    <2>1. at' \in Ats /\ at["poll"] = "post" /\ due' = due /\ dreamDue' = dreamDue
        BY <1>1, <1>12 DEF Post, AtPoll, PollTo, BatchInv, Ats
    <2>. QED BY <1>1, <2>1 DEF BatchInv
<1>13. CASE PostFails \/ Mark \/ MarkFails
    <2>1. NextNotification /\ at["poll"] \in {"post", "mark"} /\ dreamDue' = dreamDue
        BY <1>13 DEF PostFails, Mark, MarkFails, AtPoll
    <2>. QED BY <1>1, <2>1, NextHandled DEF BatchInv, Ats
<1>14. CASE GithubSteps
    BY <1>1, <1>8, <1>14 DEF GithubSteps, GithubWakes, Fetch, Announce, GithubFails, GithubTo, BatchInv
<1>15. CASE Environment
    <2>1. CASE HourPasses
        BY <1>1, <2>1 DEF HourPasses, BatchInv
    <2>2. CASE ~HourPasses
        BY <1>2, <1>15, <2>2 DEF Environment, Push, Notify, TeamClaims, LateMark
    <2>. QED BY <2>1, <2>2
<1>. QED BY <1>3, <1>4, <1>5, <1>6, <1>7, <1>9, <1>10, <1>11, <1>12, <1>13, <1>14, <1>15 DEF Next, PollSteps

LEMMA GithubTypes ==
    ASSUME TypeOK, Announcing, [Next]_vars
    PROVE  GithubInv'
<1>1. GithubInv
    BY TypeParts
<1>2. ASSUME UNCHANGED github PROVE GithubInv'
    BY <1>1, <1>2 DEF GithubInv, github
<1>3. CASE UNCHANGED vars
    BY <1>2, <1>3 DEF vars
<1>4. CASE Start \/ Initialized \/ \E s \in Signals : Signal(s)
    BY <1>2, <1>4 DEF Start, Initialized, Signal
<1>5. CASE Crash \/ Exit
    <2>1. /\ head' = head /\ fetched' = None /\ known' = None /\ seen' = None /\ announced' = {}
        BY <1>5, ForgetTypes DEF Crash, Exit
    <2>2. None \in None..head
        BY <1>1, DaemonAssumption DEF GithubInv, None
    <2>. QED BY <1>1, <2>1, <2>2 DEF GithubInv
<1>6. CASE EndSteps /\ ~Exit
    BY <1>2, <1>6 DEF EndSteps, Finish, Close, Return
<1>7. CASE PollSteps
    BY <1>2, <1>7 DEF PollSteps, Wake, RunTasks, Dreamt, PollFails, Select, Post, PostFails, Mark, MarkFails
<1>8. CASE Push
    BY <1>1, <1>8, DaemonAssumption DEF Push, GithubInv, None
<1>9. CASE GithubWakes
    BY <1>2, <1>9 DEF GithubWakes
<1>10. CASE Fetch \/ GithubFails
    <2>1. head \in Nat /\ head' = head /\ {head, Empty, None} \subseteq None..head
        BY <1>1, <1>10, DaemonAssumption DEF Fetch, GithubFails, GithubInv, Empty, None
    <2>2. /\ fetched' \in {None, Empty, head, fetched} /\ known' \in {known, Empty, head}
          /\ seen' \in {seen, Empty, head} /\ announced' = announced
        BY <1>10 DEF Fetch, GithubFails
    <2>. QED BY <1>1, <2>1, <2>2 DEF GithubInv
<1>12. CASE Announce
    <2>1. /\ head \in Nat /\ head' = head /\ fetched \in 0..head /\ None \in None..head
          /\ \A n \in 0..head : n \in None..head
        BY <1>1, <1>12, DaemonAssumption DEF Announce, AtGithub, Announcing, GithubInv, None
    <2>2. fetched' = None /\ known' = fetched /\ seen' = seen /\ announced' = announced \cup {fetched}
        BY <1>12 DEF Announce
    <2>. QED BY <1>1, <2>1, <2>2 DEF GithubInv
<1>11. CASE Environment /\ ~Push
    BY <1>2, <1>11 DEF Environment, HourPasses, Notify, TeamClaims, LateMark
<1>. QED BY <1>3, <1>4, <1>5, <1>6, <1>7, <1>8, <1>9, <1>10, <1>11, <1>12 DEF Next, GithubSteps

-----------------------------------------------------------------------------
(* The accounts of the notifications. *)

LEMMA NextAccounts ==
    ASSUME TypeOK, PollInv, \A n \in Notifs : Account(n), [Next]_vars
    PROVE  \A n \in Notifs : Account(n)'
<1>1. /\ status \in [Notifs -> {"absent", "pending", "running", "completed"}]
      /\ posted \in [Notifs -> 0..MaxPosts] /\ lapses \in [Notifs -> 0..MaxPosts]
    BY DEF TypeOK
<1>2. at["poll"] \in {"post", "mark"} => Min(due) \in Notifs
    <2>1. due \in SUBSET Nat /\ due \subseteq Notifs /\ (at["poll"] \in {"post", "mark"} => due # {})
        BY DaemonAssumption DEF TypeOK
    <2>. QED BY <2>1, NextDue
<1>3. CASE UNCHANGED vars
    BY <1>3, AccountFrame DEF vars, process, notes, Live
<1>4. CASE Start
    <2>1. Live' <=> Live
        BY <1>4 DEF Start, Live, TypeOK, Loops
    <2>. QED BY <1>4, <2>1, AccountFrame DEF Start
<1>5. CASE Initialized
    <2>1. \A n \in Notifs : ~Marking(n)
        BY <1>5 DEF Initialized, PollInv, Marking
    <2>2. at'["poll"] = "tasks"
        BY <1>5 DEF Initialized
    <2>3. \A n \in Notifs : ~Marking(n)'
        BY <2>2 DEF Marking
    <2>. QED BY <1>5, <2>1, <2>3 DEF Initialized, Account, notes
<1>6. CASE Crash
    BY <1>6, ForgetTypes, AccountEnds DEF Crash
<1>7. CASE Exit
    <2>1. lapses' = Unmarked
        BY <1>7 DEF Exit, Unmarked, notes, Loops
    <2>. QED BY <1>7, <2>1, ForgetTypes, AccountEnds DEF Exit, notes
<1>8. ASSUME NEW s \in Signals, Signal(s) \/ Close(s) PROVE \A n \in Notifs : Account(n)'
    <2>1. Live' <=> Live
        BY <1>8, CancelledLive DEF Signal, Close
    <2>. QED BY <1>8, <2>1, AccountFrame DEF Signal, Close
<1>9. CASE Return
    <2>1. Live' <=> Live
        BY <1>9, CancelledLive DEF Return
    <2>. QED BY <1>9, <2>1, AccountFrame DEF Return
<1>10. ASSUME NEW l \in Loops, Finish(l) PROVE \A n \in Notifs : Account(n)'
    <2>1. CASE l = "poll"
        <3>1. ~Live'
            BY <1>10, <2>1 DEF Finish, Live, TypeOK
        <3>. QED BY <1>10, <2>1, <3>1, AccountEnds DEF Finish
    <2>2. CASE l # "poll"
        <3>1. Live' <=> Live
            BY <1>10, <2>2 DEF Finish, Live, TypeOK, Loops
        <3>. QED BY <1>10, <2>2, <3>1, AccountFrame DEF Finish, notes
    <2>. QED BY <2>1, <2>2
<1>11. ASSUME NEW step \in {"tasks", "dream", "select", "sleep"}, at' = [at EXCEPT !["poll"] = step],
              at["poll"] # "mark", UNCHANGED process, UNCHANGED notes
       PROVE  \A n \in Notifs : Account(n)'
    <2>1. at'["poll"] = step
        BY <1>11 DEF TypeOK
    <2>2. \A n \in Notifs : ~Marking(n) /\ ~Marking(n)'
        BY <1>11, <2>1 DEF Marking
    <2>. QED BY <1>11, <2>2 DEF Account, notes
<1>12. CASE Wake \/ RunTasks \/ Dreamt \/ PollFails
    BY <1>11, <1>12 DEF Wake, RunTasks, Dreamt, PollFails, PollTo, AtPoll
<1>13. CASE Select
    <2>1. at'["poll"] \in {"sleep", "post"} /\ at["poll"] = "select"
        BY <1>13 DEF Select, PollTo, AtPoll, TypeOK
    <2>2. \A n \in Notifs : ~Marking(n) /\ ~Marking(n)'
        BY <2>1 DEF Marking
    <2>. QED BY <1>13, <2>2 DEF Select, Account, notes
<1>14. CASE Post
    <2>1. at["poll"] = "post" /\ at'["poll"] = "mark" /\ Live /\ UNCHANGED <<coro, due, status, lapses>>
        BY <1>14 DEF Post, PollTo, AtPoll, TypeOK, Live, process
    <2>2. Min(due) \in Notifs /\ Min(due) \in due
        <3>1. due \in SUBSET Nat /\ due # {} /\ due \subseteq Notifs
            BY <2>1, DaemonAssumption DEF TypeOK
        <3>. QED BY <3>1, NextDue
    <2>3. ASSUME NEW n \in Notifs PROVE Account(n)'
        <3>1. posted'[n] = IF n = Min(due) THEN posted[n] + 1 ELSE posted[n]
            BY <1>1, <1>14 DEF Post, Posted
        <3>2. ~Marking(n) /\ (Marking(n)' <=> n = Min(due))
            BY <2>1 DEF Marking, Live
        <3>3. n = Min(due) => status[n] # "completed"
            BY <2>1, <2>2 DEF PollInv, Live
        <3>4. posted[n] \in Nat /\ lapses[n] \in Nat
            BY <1>1, DaemonAssumption
        <3>. QED BY <2>1, <3>1, <3>2, <3>3, <3>4 DEF Account
    <2>. QED BY <2>3
<1>15. CASE PostFails
    <2>1. at["poll"] = "post" /\ NextNotification /\ UNCHANGED notes
        BY <1>15 DEF PostFails, AtPoll
    <2>2. at'["poll"] # "mark"
        BY <2>1, NextHandled
    <2>3. \A n \in Notifs : ~Marking(n) /\ ~Marking(n)'
        BY <2>1, <2>2 DEF Marking
    <2>. QED BY <2>1, <2>3 DEF Account, notes
<1>16. CASE Mark
    <2>1. at["poll"] = "mark" /\ NextNotification /\ Live /\ UNCHANGED <<posted, lapses>>
        BY <1>16 DEF Mark, AtPoll, Live
    <2>2. at'["poll"] # "mark" /\ Min(due) \in Notifs
        BY <2>1, NextHandled
    <2>3. ASSUME NEW n \in Notifs PROVE Account(n)'
        <3>1. status'[n] = IF n = Min(due) THEN "completed" ELSE status[n]
            BY <1>1, <1>16 DEF Mark
        <3>2. ~Marking(n)' /\ (Marking(n) <=> n = Min(due))
            BY <2>1, <2>2 DEF Marking, Live
        <3>3. posted[n] \in Nat /\ lapses[n] \in Nat
            BY <1>1, DaemonAssumption
        <3>. QED BY <2>1, <3>1, <3>2, <3>3 DEF Account
    <2>. QED BY <2>3
<1>17. CASE MarkFails
    <2>1. at["poll"] = "mark" /\ NextNotification /\ Live /\ UNCHANGED <<posted, status>>
        BY <1>17 DEF MarkFails, AtPoll, Live
    <2>2. at'["poll"] # "mark" /\ Min(due) \in Notifs
        BY <2>1, NextHandled
    <2>3. ASSUME NEW n \in Notifs PROVE Account(n)'
        <3>1. lapses'[n] = IF n = Min(due) THEN lapses[n] + 1 ELSE lapses[n]
            BY <1>1, <1>17 DEF MarkFails, Lapsed
        <3>2. ~Marking(n)' /\ (Marking(n) <=> n = Min(due))
            BY <2>1, <2>2 DEF Marking, Live
        <3>3. posted[n] \in Nat /\ lapses[n] \in Nat
            BY <1>1, DaemonAssumption
        <3>. QED BY <2>1, <3>1, <3>2, <3>3 DEF Account
    <2>. QED BY <2>3
<1>18. CASE GithubSteps
    <2>1. UNCHANGED <<process, due, notes>> /\ at'["poll"] = at["poll"]
        BY <1>18 DEF GithubSteps, GithubWakes, Fetch, Announce, GithubFails, GithubTo, TypeOK
    <2>. QED BY <2>1, AccountFrame DEF Live, process
<1>19. CASE HourPasses \/ Push
    BY <1>19, AccountFrame DEF HourPasses, Push, Live, process
<1>20. ASSUME NEW m \in Notifs, Notify(m) \/ TeamClaims(m) PROVE \A n \in Notifs : Account(n)'
    <2>1. /\ UNCHANGED <<coro, at, due, posted, lapses>> /\ status[m] # "completed"
          /\ status' \in {[status EXCEPT ![m] = "pending"], [status EXCEPT ![m] = "running"]}
        BY <1>20 DEF Notify, TeamClaims, process
    <2>2. \A n \in Notifs : Marking(n)' <=> Marking(n)
        BY <2>1 DEF Marking
    <2>3. \A n \in Notifs : status'[n] = "completed" <=> status[n] = "completed"
        BY <1>1, <2>1
    <2>. QED BY <2>1, <2>2, <2>3 DEF Account
<1>21. ASSUME NEW m \in Notifs, LateMark(m) PROVE \A n \in Notifs : Account(n)'
    <2>1. /\ UNCHANGED <<coro, at, due, posted, lapses>> /\ status' = [status EXCEPT ![m] = "completed"]
          /\ posted[m] > 0
        BY <1>21 DEF LateMark, process, PollInv
    <2>2. \A n \in Notifs : ~Marking(n) /\ ~Marking(n)'
        BY <1>21, <2>1 DEF LateMark, Marking
    <2>. QED BY <1>1, <2>1, <2>2 DEF Account
<1>. QED BY <1>3, <1>4, <1>5, <1>6, <1>7, <1>8, <1>9, <1>10, <1>12, <1>13, <1>14, <1>15, <1>16, <1>17, <1>18, <1>19,
            <1>20, <1>21 DEF Next, EndSteps, PollSteps, Environment

NotesTyped ==
    /\ status \in [Notifs -> {"absent", "pending", "running", "completed"}]
    /\ posted \in [Notifs -> 0..MaxPosts]
    /\ lapses \in [Notifs -> Nat]

(* A notification is posted within its bound, and so are its lapses. *)
LEMMA NotesTypes ==
    ASSUME TypeOK, PollInv, \A n \in Notifs : Account(n), [Next]_vars
    PROVE  NotesInv'
<1>1. NotesInv /\ MaxPosts \in Nat
    BY TypeParts, DaemonAssumption
<1>2. ASSUME UNCHANGED <<status, posted>>, lapses' \in {lapses, Lapsed(Min(due))} PROVE NotesTyped'
    BY <1>1, <1>2 DEF NotesInv, NotesTyped, Lapsed
<1>3. NotesTyped'
    <2>1. CASE UNCHANGED vars \/ Start \/ Initialized \/ (\E s \in Signals : Signal(s)) \/ Crash \/ EndSteps
        BY <1>2, <2>1 DEF vars, notes, Start, Initialized, Signal, Crash, EndSteps, Finish, Close, Return, Exit, Unmarked
    <2>2. CASE GithubSteps \/ HourPasses \/ Push
        BY <1>2, <2>2 DEF notes, GithubSteps, GithubWakes, Fetch, Announce, GithubFails, HourPasses, Push
    <2>3. CASE Wake \/ RunTasks \/ Dreamt \/ PollFails \/ Select \/ PostFails \/ MarkFails
        BY <1>2, <2>3 DEF notes, Wake, RunTasks, Dreamt, PollFails, Select, PostFails, MarkFails
    <2>4. CASE Post
        <3>1. UNCHANGED <<status, lapses>> /\ posted' = [posted EXCEPT ![Min(due)] = posted[Min(due)] + 1]
              /\ posted[Min(due)] < MaxPosts
            BY <2>4 DEF Post, Posted
        <3>2. posted' \in [Notifs -> 0..MaxPosts]
            <4>1. posted \in [Notifs -> 0..MaxPosts] /\ (Min(due) \in Notifs => posted[Min(due)] + 1 \in 0..MaxPosts)
                BY <1>1, <3>1 DEF NotesInv
            <4>. QED BY ONLY <3>1, <4>1
        <3>. QED BY <1>1, <3>1, <3>2 DEF NotesInv, NotesTyped
    <2>5. CASE Mark \/ \E n \in Notifs : Notify(n) \/ TeamClaims(n) \/ LateMark(n)
        BY <1>1, <2>5 DEF NotesInv, NotesTyped, Mark, Notify, TeamClaims, LateMark
    <2>. QED BY <2>1, <2>2, <2>3, <2>4, <2>5 DEF Next, PollSteps, Environment
<1>4. \A n \in Notifs : Account(n)'
    BY NextAccounts
<1>. QED
    <2>1. ASSUME NEW n \in Notifs PROVE lapses'[n] \in 0..MaxPosts
        BY <1>1, <1>3, <1>4 DEF NotesTyped, Account
    <2>. QED BY <1>3, <2>1 DEF NotesTyped, NotesInv

(* What the poll still has to handle stays unmarked. *)
LEMMA NextPollInv ==
    ASSUME TypeOK, PollInv, \A n \in Notifs : Account(n), [Next]_vars
    PROVE  PollInv'
<1>1. ASSUME UNCHANGED <<due, status, posted>>, at'["poll"] = at["poll"], Live' => Live,
             life' \in {"off", "starting"} => coro'["poll"] = "absent"
      PROVE  PollInv'
    BY <1>1 DEF PollInv, Live
<1>2. ASSUME at'["poll"] \notin {"post", "mark"},
             life' \in {"off", "starting"} => coro'["poll"] = "absent"
      PROVE  PollInv'
    BY <1>2 DEF PollInv
<1>3. CASE UNCHANGED vars
    BY <1>1, <1>3 DEF vars, process, notes, Live, PollInv
<1>4. CASE Start
    <2>1. coro'["poll"] = coro["poll"] /\ life = "off"
        BY <1>4 DEF Start, TypeOK, Loops
    <2>. QED BY <1>1, <1>4, <2>1 DEF Start, notes, Live, PollInv
<1>5. CASE Initialized
    <2>1. at'["poll"] = "tasks" /\ life' = "serving"
        BY <1>5 DEF Initialized
    <2>. QED BY <1>2, <2>1
<1>6. CASE Crash \/ Exit
    <2>1. Forget
        BY <1>6 DEF Crash, Exit
    <2>2. at'["poll"] = "sleep" /\ coro'["poll"] = "absent"
        BY <2>1, ForgetTypes DEF Loops
    <2>. QED BY <1>2, <2>2
<1>7. CASE \E s \in Signals : Signal(s) \/ Close(s)
    <2>1. (Live' <=> Live) /\ (coro'["poll"] = "absent" <=> coro["poll"] = "absent")
        BY <1>7, CancelledLive DEF Signal, Close, Loops
    <2>. QED BY <1>1, <1>7, <2>1 DEF Signal, Close, notes, PollInv
<1>8. CASE Return
    <2>1. (Live' <=> Live) /\ (coro'["poll"] = "absent" <=> coro["poll"] = "absent")
        BY <1>8, CancelledLive DEF Return, Loops
    <2>. QED BY <1>1, <1>8, <2>1 DEF Return, notes, PollInv
<1>9. ASSUME NEW l \in Loops, Finish(l) PROVE PollInv'
    <2>1. (Live' => Live) /\ (coro["poll"] = "absent" => coro'["poll"] = "absent")
        BY <1>9 DEF Finish, Live, TypeOK, Loops
    <2>. QED BY <1>1, <1>9, <2>1 DEF Finish, PollInv
<1>10. ASSUME coro["poll"] = "alive", UNCHANGED process
       PROVE  life' \in {"off", "starting"} => coro'["poll"] = "absent"
    BY <1>10 DEF process, PollInv
<1>11. CASE Wake \/ RunTasks \/ Dreamt \/ PollFails
    <2>1. at'["poll"] \in {"sleep", "tasks", "dream", "select"} /\ coro["poll"] = "alive" /\ UNCHANGED process
        BY <1>11 DEF Wake, RunTasks, Dreamt, PollFails, PollTo, AtPoll, TypeOK
    <2>. QED BY <1>2, <1>10, <2>1
<1>12. CASE Select
    <2>1. /\ at'["poll"] # "mark" /\ coro["poll"] = "alive" /\ UNCHANGED <<process, status>>
          /\ \A n \in due' : status[n] = "pending"
        BY <1>12 DEF Select, Oldest, PollTo, AtPoll, TypeOK, notes
    <2>. QED BY <1>10, <2>1 DEF PollInv
<1>13. CASE Post
    <2>1. /\ at["poll"] = "post" /\ coro["poll"] = "alive" /\ UNCHANGED <<process, due, status>>
          /\ posted' = [posted EXCEPT ![Min(due)] = posted[Min(due)] + 1]
        BY <1>13 DEF Post, AtPoll, Posted
    <2>2. Min(due) \in Notifs
        <3>1. due \in SUBSET Nat /\ due # {} /\ due \subseteq Notifs
            BY <2>1, DaemonAssumption DEF TypeOK
        <3>. QED BY <3>1, NextDue
    <2>3. posted'[Min(due')] > 0
        <3>1. posted[Min(due)] \in Nat /\ posted'[Min(due)] = posted[Min(due)] + 1
            <4>1. posted \in [Notifs -> 0..MaxPosts] /\ MaxPosts \in Nat
                BY DaemonAssumption DEF TypeOK
            <4>. QED BY ONLY <2>1, <2>2, <4>1
        <3>. QED BY <2>1, <3>1
    <2>4. \A n \in due' : status'[n] # "completed"
        BY <2>1 DEF PollInv
    <2>. QED BY <1>10, <2>1, <2>3, <2>4 DEF PollInv
<1>14. CASE PostFails \/ Mark \/ MarkFails
    <2>1. at["poll"] \in {"post", "mark"} /\ coro["poll"] = "alive" /\ NextNotification /\ UNCHANGED process
        BY <1>14 DEF PostFails, Mark, MarkFails, AtPoll
    <2>2. at'["poll"] # "mark" /\ due' \subseteq due /\ Min(due) \notin due' /\ due \subseteq Notifs
        BY <2>1, NextHandled DEF TypeOK
    <2>3. \A n \in Notifs : n # Min(due) => status'[n] = status[n]
        BY <1>14 DEF PostFails, Mark, MarkFails, notes, TypeOK
    <2>4. \A n \in due' : status'[n] # "completed"
        BY <2>1, <2>2, <2>3 DEF PollInv
    <2>. QED BY <1>10, <2>1, <2>2, <2>4 DEF PollInv
<1>15. CASE GithubSteps \/ HourPasses \/ Push
    <2>1. UNCHANGED <<process, due, notes>> /\ at'["poll"] = at["poll"]
        BY <1>15 DEF GithubSteps, GithubWakes, Fetch, Announce, GithubFails, GithubTo, TypeOK, HourPasses, Push
    <2>. QED BY <1>1, <2>1 DEF process, notes, Live, PollInv
<1>16. ASSUME NEW m \in Notifs, Notify(m) \/ TeamClaims(m) PROVE PollInv'
    <2>1. /\ UNCHANGED <<process, at, due, posted>> /\ due \subseteq Notifs
          /\ \A n \in Notifs : status[n] # "completed" => status'[n] # "completed"
        BY <1>16 DEF Notify, TeamClaims, TypeOK
    <2>. QED BY <2>1 DEF process, PollInv
<1>17. ASSUME NEW m \in Notifs, LateMark(m) PROVE PollInv'
    BY <1>17 DEF LateMark, process, PollInv
<1>. QED BY <1>3, <1>4, <1>5, <1>6, <1>7, <1>8, <1>9, <1>11, <1>12, <1>13, <1>14, <1>15, <1>16, <1>17
         DEF Next, EndSteps, PollSteps, Environment

(* The sha of a check outlives whatever happens before its announcement. *)
LEMMA NextAnnouncing ==
    ASSUME TypeOK, Announcing, [Next]_vars
    PROVE  Announcing'
<1>1. ASSUME at'["github"] # "announce" \/ (at'["github"] = at["github"] /\ fetched' = fetched)
      PROVE  Announcing'
    BY <1>1 DEF Announcing
<1>2. ASSUME NEW step, PollTo(step) PROVE at'["github"] = at["github"]
    BY <1>2 DEF PollTo, TypeOK
<1>3. ASSUME NEW step, GithubTo(step) PROVE at'["github"] = step
    BY <1>3 DEF GithubTo, TypeOK
<1>4. CASE UNCHANGED vars \/ Start \/ (EndSteps /\ ~Exit) \/ Environment \/ \E s \in Signals : Signal(s)
    BY <1>1, <1>4 DEF vars, github, Start, EndSteps, Finish, Close, Return, Signal,
       Environment, HourPasses, Push, Notify, TeamClaims, LateMark
<1>5. CASE Initialized
    BY <1>1, <1>5 DEF Initialized
<1>6. CASE Crash \/ Exit
    BY <1>1, <1>6, ForgetTypes DEF Crash, Exit
<1>7. CASE PollSteps
    <2>1. (\E step : PollTo(step)) /\ UNCHANGED github
        BY <1>7 DEF PollSteps, Wake, RunTasks, Dreamt, PollFails, Select, Post, PostFails, Mark, MarkFails,
           NextNotification
    <2>. QED BY <1>1, <1>2, <2>1 DEF github
<1>8. CASE GithubWakes \/ Announce \/ GithubFails
    <2>1. GithubTo("fetch") \/ GithubTo("sleep")
        BY <1>8 DEF GithubWakes, Announce, GithubFails
    <2>. QED BY <1>1, <1>3, <2>1
<1>9. CASE Fetch
    <2>1. PICK sha \in {Empty, head} :
             \/ GithubTo("sleep")
             \/ GithubTo("announce") /\ fetched' = sha
        BY <1>9 DEF Fetch
    <2>2. sha # None
        BY DEF Empty, None, TypeOK
    <2>. QED BY <1>1, <1>3, <2>1, <2>2 DEF Announcing
<1>. QED BY <1>4, <1>5, <1>6, <1>7, <1>8, <1>9 DEF Next, GithubSteps

(* What was noted was seen first or announced. *)
LEMMA NextAnnounced ==
    ASSUME TypeOK, CommitAnnounced, [Next]_vars
    PROVE  CommitAnnounced'
<1>1. ASSUME UNCHANGED <<known, seen, announced>> PROVE CommitAnnounced'
    BY <1>1 DEF CommitAnnounced
<1>2. CASE UNCHANGED vars \/ Start \/ Initialized \/ \E s \in Signals : Signal(s)
    BY <1>1, <1>2 DEF vars, github, Start, Initialized, Signal
<1>3. CASE Crash \/ Exit
    BY <1>3, ForgetTypes DEF Crash, Exit, CommitAnnounced
<1>4. CASE EndSteps /\ ~Exit
    BY <1>1, <1>4 DEF EndSteps, Finish, Close, Return, github
<1>5. CASE PollSteps \/ Environment
    BY <1>1, <1>5 DEF PollSteps, Wake, RunTasks, Dreamt, PollFails, Select, Post, PostFails, Mark, MarkFails,
        Environment, HourPasses, Push, Notify, TeamClaims, LateMark, github
<1>6. CASE GithubWakes \/ Announce \/ GithubFails
    BY <1>6 DEF GithubWakes, Announce, GithubFails, github, CommitAnnounced
<1>7. CASE Fetch
    BY <1>7 DEF Fetch, CommitAnnounced
<1>. QED BY <1>2, <1>3, <1>4, <1>5, <1>6, <1>7 DEF Next, GithubSteps

-----------------------------------------------------------------------------
(* The invariant of every behaviour: the types, the accounts of the         *)
(* notifications, and what the announcements rely on.                       *)
THEOREM Invariance == Spec => []IInv
<1>1. IInv /\ [Next]_vars => IInv'
    BY ProcessTypes, BatchTypes, NotesTypes, GithubTypes, TypeParts, NextAccounts, NextPollInv, NextAnnouncing,
       NextAnnounced DEF IInv, ProcessInv, BatchInv, NotesInv, GithubInv, TypeOK, Coros, Ats
<1>. QED BY InitInv, <1>1, PTL DEF Spec

(* Every variable keeps its type, and the bound on the posts of a           *)
(* notification bounds the lapses of its mark.                              *)
THEOREM TypeCorrect == Spec => []TypeOK
<1>1. IInv => TypeOK
    BY DEF IInv
<1>. QED BY <1>1, Invariance, PTL

(* kairos.py:262-273: a completed notification was posted, and a            *)
(* notification is posted again only after a mark that did not take place.  *)
THEOREM Accounted == Spec => []NotificationAccounted
<1>1. IInv => NotificationAccounted
    BY DaemonAssumption DEF IInv, TypeOK, Account, NotificationAccounted
<1>. QED BY <1>1, Invariance, PTL

(* kairos.py:294-303: the sha that was noted last is the first one the      *)
(* process saw or one it announced.                                         *)
THEOREM Announced == Spec => []CommitAnnounced
<1>1. IInv => CommitAnnounced
    BY DEF IInv
<1>. QED BY <1>1, Invariance, PTL

=============================================================================
