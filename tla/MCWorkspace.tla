---------------------------- MODULE MCWorkspace ----------------------------
(***************************************************************************)
(* Instances of Workspace for TLC.                                         *)
(***************************************************************************)
EXTENDS Workspace, TLC

Environment(lab, zone, anthropic, otherPaid, printsHead) ==
    [lab |-> lab, zone |-> zone, anthropic |-> anthropic, otherPaid |-> otherPaid, printsHead |-> printsHead]

(* Free of charge, another paid service in the lab, Anthropic in the red zone. *)
MCEnvironments == {
    Environment(FALSE, "green", FALSE, FALSE, TRUE),
    Environment(TRUE, "green", FALSE, TRUE, FALSE),
    Environment(FALSE, "red", TRUE, FALSE, TRUE)}

(* The lab in the red zone: whatever is allowed at all, allowed. *)
MCOpen == Environment(TRUE, "red", TRUE, FALSE, TRUE)
MCAllEnvironments == MCEnvironments \cup {MCOpen}

(* git as it is now. *)
MCPresent == {Environment(FALSE, "green", FALSE, FALSE, FALSE)}

(* A task that makes points, and two that do not. *)
MCTexts == {{"design"}, {"scan"}, {"urgent fix"}}
MCPaths == {{"workspace", "~"}, {"/etc", "workspace"}, {"~"}}

Command(name, does) == [name |-> name, chmodPattern |-> FALSE, findAction |-> FALSE, does |-> does]
MCCommands == {Command("git", "pop"), Command("curl", "write")}
MCAllCommands == MCCommands \cup {Command("cat", "read"), Command("rm", "write")}

(* The search.  In the open lab, two agents make points, write and pop, each *)
(* in a single attempt, over two edits; elsewhere one agent does whatever    *)
(* it is asked for, in up to three attempts, over one edit.                  *)
MCBound ==
    IF c = MCOpen
    THEN /\ Len(log) <= 2
         /\ \A a \in Agents :
               /\ agent[a].attempt <= 1
               /\ decision[a].text \in {{}, {"design"}}
               /\ command[a] \in {"none", "pop"}
    ELSE /\ edits <= 1
         /\ Cardinality({a \in Agents : agent[a].at # "idle"}) <= 1

(* Neither the agents nor the files are told apart. *)
MCSymmetry == Permutations(Agents) \cup Permutations(Files)

=============================================================================
