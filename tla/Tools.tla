------------------------------- MODULE Tools -------------------------------
(***************************************************************************)
(* What an agent may use for a text: the router (llm/router.py), the tool  *)
(* registry (tools/registry.py, agents/base.py) and the zone and command   *)
(* policy (security/zones.py), as operators of the text, the path or the   *)
(* command and of the configuration c.                                     *)
(*                                                                         *)
(* A text is the set of phrases found in it, a path the set of prefixes it *)
(* starts with, a command its name and what the patterns find in it. Of    *)
(* the keywords of one route that occur in no other, one stands for all.   *)
(***************************************************************************)
EXTENDS Rows, Sequences, Functions, FiniteSetsExt

Configs == [lab : BOOLEAN, zone : {"green", "red"}, anthropic : BOOLEAN, otherPaid : BOOLEAN]

-----------------------------------------------------------------------------
(* llm/router.py. *)

(* KEYWORD_ROUTES, in its order. *)
KeywordRoutes == <<
    [keywords |-> {"hello"}, type |-> "simple_qa"],
    [keywords |-> {"reminder"}, type |-> "notification"],
    [keywords |-> {"code", "debug", "fix"}, type |-> "code_review"],
    [keywords |-> {"write"}, type |-> "code_generation"],
    [keywords |-> {"analyze", "perilipsi"}, type |-> "analysis"],
    [keywords |-> {"summarize", "perilipsi"}, type |-> "summarization"],
    [keywords |-> {"service"}, type |-> "system_mgmt"],
    [keywords |-> {"monitor"}, type |-> "monitoring"],
    [keywords |-> {"design"}, type |-> "architecture"],
    [keywords |-> {"deep debug", "root cause"}, type |-> "deep_debug"],
    [keywords |-> {"critical", "urgent fix"}, type |-> "critical"],
    [keywords |-> {"scan"}, type |-> "lab"]>>

Keywords == UNION {KeywordRoutes[i].keywords : i \in DOMAIN KeywordRoutes}

(* Keywords are looked for as substrings. *)
Within(text) ==
    text \cup (IF "deep debug" \in text THEN {"debug"} ELSE {})
         \cup (IF "urgent fix" \in text THEN {"fix"} ELSE {})

(* classify_task_by_keywords: the first route that has a keyword in the text. *)
Classify(text) ==
    LET hits == {i \in DOMAIN KeywordRoutes : KeywordRoutes[i].keywords \cap Within(text) # {}}
    IN  IF hits = {} THEN "simple_qa" ELSE KeywordRoutes[Min(hits)].type

Simple == {"simple_qa", "voice", "notification", "monitoring", "embedding"}
Middle == {"code_review", "analysis", "system_mgmt", "summarization", "code_generation"}
Heavy  == {"architecture", "deep_debug", "critical", "lab"}

HasAnyPaid(c) == c.anthropic \/ c.otherPaid

(* A lab task needs the lab mode. *)
Admitted(type, c) == IF type = "lab" /\ ~c.lab THEN "simple_qa" ELSE type

Tier(type, c) ==
    CASE ~HasAnyPaid(c) -> IF type \in Heavy \ {"lab"} THEN "local_smart" ELSE "local_fast"
      [] c.anthropic ->
            (CASE type \in Simple -> "paid_fast"
               [] type \in Middle -> "paid_smart"
               [] type \in Heavy  -> "paid_heavy")
      [] OTHER -> IF type \in Simple THEN "local_fast" ELSE "local_smart"

Provider(tier) == IF tier \in {"local_fast", "local_smart"} THEN "ollama" ELSE "anthropic"

(* select_model. *)
Select(type, c) ==
    LET admitted == Admitted(type, c)
    IN  [type |-> admitted, tier |-> Tier(admitted, c), provider |-> Provider(Tier(admitted, c))]

Route(text, c) == Select(Classify(text), c)

-----------------------------------------------------------------------------
(* tools/registry.py and what an agent makes of it. *)

AllTools == <<"read_file", "write_file", "list_dir", "bash", "web_search", "memory_search",
              "memory_save", "get_status", "network_scan", "http_request">>

(* get_tools_for_set: the tools of the set or, for the empty set, all but   *)
(* the lab's; at most five of them are defined for the model.               *)
ToolsForSet(names, c) ==
    LET included == {i \in DOMAIN AllTools :
                        IF names = {} THEN AllTools[i] # "network_scan" \/ c.lab ELSE AllTools[i] \in names}
    IN  {AllTools[i] : i \in Oldest(5, included)}

(* Every caller registers the tools of the empty set. *)
Registered(c) == ToolsForSet({}, c)

(* TASK_TOOL_SETS: names of families of tools, web_search apart. *)
TaskToolSets(type) ==
    CASE type \in {"code_review", "code_generation", "deep_debug", "critical"} -> {"filesystem", "git", "terminal"}
      [] type = "system_mgmt"   -> {"filesystem", "terminal", "system"}
      [] type = "monitoring"    -> {"filesystem", "terminal"}
      [] type = "analysis"      -> {"filesystem", "web_search"}
      [] type = "simple_qa"     -> {"web_search"}
      [] type = "notification"  -> {"telegram"}
      [] type \in {"architecture", "summarization"} -> {"filesystem"}
      [] type = "lab"           -> {"network", "filesystem", "terminal"}
      [] type \in {"voice", "embedding"} -> {}

(* The tools that run_task offers the model. *)
Active(type, c) ==
    {t \in Registered(c) : t \in TaskToolSets(type) \/ TaskToolSets(type) = {}}

-----------------------------------------------------------------------------
(* security/zones.py. *)

(* The tests of classify_path, in its order, "workspace" being the         *)
(* directories of the green zone and "~" the rest of the home directory.   *)
ZoneTests == <<
    [prefixes |-> {"/proc", "/sys/kernel"}, zone |-> "black"],
    [prefixes |-> {"/etc"}, zone |-> "red"],
    [prefixes |-> {"workspace"}, zone |-> "green"],
    [prefixes |-> {"~/Documents"}, zone |-> "orange"],
    [prefixes |-> {"~", "/tmp"}, zone |-> "yellow"]>>

ClassifyPath(path) ==
    LET hits == {i \in DOMAIN ZoneTests : ZoneTests[i].prefixes \cap path # {}}
    IN  IF hits = {} THEN "red" ELSE ZoneTests[Min(hits)].zone

CanAccess(path, write, c) ==
    LET zone == ClassifyPath(path)
    IN  \/ zone = "green"
        \/ zone = "red" /\ c.zone = "red"
        \/ zone \in {"orange", "yellow"} /\ ~write

SafeCommands == {"ls", "cat", "find", "git", "python3"}
LabCommands  == {"nmap", "curl"}

(* validate_command: the patterns first, then the lab, then the whitelist. *)
ValidateCommand(cmd, c) ==
    /\ ~cmd.chmodPattern
    /\ cmd.name = "find" => ~cmd.findAction
    /\ IF cmd.name \in LabCommands THEN c.lab ELSE cmd.name \in SafeCommands

=============================================================================
