---------------------------- MODULE MemoryProofs ----------------------------
(***************************************************************************)
(* Proofs about Memory, for any number of coroutines, sessions, proposals, *)
(* rows and any limits.                                                    *)
(*                                                                         *)
(* The tables only grow and their marks only rise (Grows), so what a       *)
(* coroutine has read before an await still holds after it, except what    *)
(* nobody promised it: the messages that came late. Each coroutine then    *)
(* knows enough at its write: which row is its own, what its batch leaves  *)
(* out, what its results were made from, that its text is in the file.     *)
(***************************************************************************)
EXTENDS Memory, RowsProofs, SequenceTheorems

(* How the stage of a coroutine fits what it does. *)
Staged(p) ==
    /\ op[p].doing = "nothing" => op[p] = Idle
    /\ op[p].at \in {"embed", "insert", "index"} => op[p].doing \in {"save", "compress", "dream"}
    /\ op[p].at \in {"ask", "mark"} => op[p].doing \in {"compress", "dream"}
    /\ op[p].at \in {"query", "vector", "keyword", "fused"} <=> op[p].doing = "search"
    /\ op[p].at \in {"append", "update"} <=> op[p].doing = "accept"
    /\ op[p].doing = "compress" => op[p].about \in Sessions
    /\ op[p].doing = "accept" => op[p].about \in Proposals
    /\ IsFiniteSet(op[p].batch)

(* A coroutine that is to mark has saved and indexed its summary. *)
Owns(p) ==
    op[p].at \in {"index", "mark"} =>
        /\ op[p].row \in DOMAIN memories
        /\ Doing(memories[op[p].row].source) = op[p].doing
        /\ memories[op[p].row].of = op[p].batch
        /\ op[p].at = "mark" => op[p].row \in fts /\ memories[op[p].row].save = "returned"

(* A compression has read all of its session but what was compressed before *)
(* it or came after it.                                                     *)
ReadAll(p) ==
    op[p].doing = "compress" =>
        \A m \in DOMAIN sessions : sessions[m].session = op[p].about =>
            m \in op[p].batch \/ sessions[m].compressed \/ sessions[m].late

(* A fusion of both branches, or of none. *)
FusedOf(h) ==
    LET both == Range(h.vector) \cap Range(h.keyword)
        all == Range(h.vector) \cup Range(h.keyword)
    IN  /\ Cardinality(h.found) = Min({TopK, Cardinality(all)})
        /\ both \subseteq h.found \/ h.found \subseteq both
        /\ h.found \subseteq all

(* The first branch ranked memories inside the cut-off, of the model that   *)
(* is in use until the search returns.                                      *)
Searching(p) ==
    /\ op[p].at \in {"keyword", "fused"} =>
          \A i \in Range(hits[p].vector) :
             i \in DOMAIN memories /\ i > hits[p].cutoff /\ memories[i].dim = model
    /\ op[p].at = "fused" => FusedOf(hits[p])

Accepting(p) == op[p].at = "update" => copies[op[p].about] > 0

Knows(p) == Staged(p) /\ Owns(p) /\ ReadAll(p) /\ Searching(p) /\ Accepting(p)

(* No two coroutines index the same row. *)
OneOwner ==
    \A p, r \in Procs :
        op[p].at = "index" /\ op[r].at = "index" /\ op[p].row = op[r].row => p = r

(* A memory records what the model was shown of what was read. *)
Made ==
    \A d \in DOMAIN memories :
        /\ IsFiniteSet(memories[d].of)
        /\ memories[d].shown = Shown(memories[d].source, memories[d].of)

IInv ==
    /\ TypeOK
    /\ \A p \in Procs : Knows(p)
    /\ OneOwner
    /\ Made
    /\ SavedIsIndexed
    /\ ConsolidatedIsCovered
    /\ CompressedIsCovered
    /\ AcceptedIsWritten

(* What no step undoes. *)
SessionsGrow ==
    /\ \A m \in DOMAIN sessions :
          /\ m \in DOMAIN sessions'
          /\ sessions'[m].session = sessions[m].session
          /\ sessions'[m].late = sessions[m].late
          /\ sessions[m].compressed => sessions'[m].compressed
    /\ \A m \in DOMAIN sessions' \ DOMAIN sessions :
          Compressing(sessions'[m].session) => sessions'[m].late

MemoriesGrow ==
    /\ \A i \in DOMAIN memories :
          /\ i \in DOMAIN memories'
          /\ memories'[i].type = memories[i].type
          /\ memories'[i].source = memories[i].source
          /\ memories'[i].of = memories[i].of
          /\ memories'[i].shown = memories[i].shown
          /\ memories'[i].dim = memories[i].dim
          /\ memories[i].save # "open" => memories'[i].save = memories[i].save
          /\ memories[i].consolidated => memories'[i].consolidated
    /\ fts \subseteq fts'

Grows ==
    /\ SessionsGrow
    /\ MemoriesGrow
    /\ \A q \in Proposals :
          /\ copies'[q] >= copies[q]
          /\ proposal[q] = "accepted" => proposal'[q] = "accepted"

-----------------------------------------------------------------------------
(* The rows are numbered from one, and their sets are finite. *)
LEMMA RowNumbers ==
    ASSUME TypeOK
    PROVE  /\ Len(sessions) \in Nat /\ DOMAIN sessions = 1..Len(sessions)
           /\ Len(memories) \in Nat /\ DOMAIN memories = 1..Len(memories)
           /\ \A m \in DOMAIN sessions : sessions[m] \in Messages
           /\ \A i \in DOMAIN memories : memories[i] \in Memories
           /\ DOMAIN memories \subseteq 1..MaxMemories
           /\ DOMAIN memories \subseteq Int /\ DOMAIN sessions \subseteq Int
           /\ IsFiniteSet(DOMAIN memories) /\ IsFiniteSet(DOMAIN sessions)
<1>1. sessions \in Seq(Messages) /\ memories \in Seq(Memories) /\ Len(memories) <= MaxMemories
    BY DEF TypeOK
<1>2. /\ Len(sessions) \in Nat /\ DOMAIN sessions = 1..Len(sessions)
      /\ \A m \in DOMAIN sessions : sessions[m] \in Messages
    BY <1>1, LenProperties, ElementOfSeq
<1>3. /\ Len(memories) \in Nat /\ DOMAIN memories = 1..Len(memories)
      /\ \A i \in DOMAIN memories : memories[i] \in Memories
    BY <1>1, LenProperties, ElementOfSeq
<1>4. MaxMemories \in Nat
    BY MemoryAssumption
<1>5. 1..Len(memories) \subseteq 1..MaxMemories
    BY <1>1, <1>3, <1>4
<1>6. IsFiniteSet(1..Len(memories)) /\ IsFiniteSet(1..Len(sessions))
    BY <1>2, <1>3, FS_Interval
<1>7. 1..Len(memories) \subseteq Int /\ 1..Len(sessions) \subseteq Int
    BY <1>2, <1>3
<1>. QED BY <1>2, <1>3, <1>5, <1>6, <1>7

(* A coroutine's locals, when an operation starts, goes on or returns. *)
LEMMA OpSet ==
    ASSUME TypeOK, NEW p \in Procs, NEW locals \in Locals, op' = [op EXCEPT ![p] = locals]
    PROVE  /\ op' \in [Procs -> Locals]
           /\ op'[p] = locals
           /\ \A r \in Procs \ {p} : op'[r] = op[r]
<1>1. op \in [Procs -> Locals]
    BY DEF TypeOK
<1>. QED BY <1>1

LEMMA NoRow == 0 \in 0..MaxMemories
<1>1. MaxMemories \in Nat
    BY MemoryAssumption
<1>. QED BY <1>1

LEMMA IdleIsLocals == Idle \in Locals
BY NoRow DEF Idle, Locals

LEMMA OpReturn ==
    ASSUME TypeOK, NEW p \in Procs, Return(p)
    PROVE  /\ op' \in [Procs -> Locals]
           /\ op'[p] = Idle
           /\ \A r \in Procs \ {p} : op'[r] = op[r]
BY OpSet, IdleIsLocals DEF Return

LEMMA OpStep ==
    ASSUME TypeOK, NEW p \in Procs,
           NEW at \in {"embed", "insert", "mark", "vector", "keyword", "fused", "update"},
           Step(p, at)
    PROVE  /\ op' \in [Procs -> Locals]
           /\ op'[p].at = at /\ op'[p].doing = op[p].doing
           /\ op'[p].batch = op[p].batch /\ op'[p].row = op[p].row /\ op'[p].about = op[p].about
           /\ \A r \in Procs \ {p} : op'[r] = op[r]
<1>1. op \in [Procs -> Locals]
    BY DEF TypeOK
<1>2. op' = [op EXCEPT ![p] = [op[p] EXCEPT !.at = at]]
    BY DEF Step
<1>3. op[p] \in Locals
    BY <1>1
<1>4. /\ [op[p] EXCEPT !.at = at] \in Locals
      /\ [op[p] EXCEPT !.at = at].at = at
      /\ [op[p] EXCEPT !.at = at].doing = op[p].doing
      /\ [op[p] EXCEPT !.at = at].batch = op[p].batch
      /\ [op[p] EXCEPT !.at = at].row = op[p].row
      /\ [op[p] EXCEPT !.at = at].about = op[p].about
    BY <1>3 DEF Locals
<1>5. /\ op' \in [Procs -> Locals]
      /\ op'[p] = [op[p] EXCEPT !.at = at]
      /\ \A r \in Procs \ {p} : op'[r] = op[r]
    BY <1>2, <1>4, OpSet
<1>. QED BY <1>4, <1>5

-----------------------------------------------------------------------------
(* What a growing table keeps. *)

(* What one coroutine knows outlives the steps of the others. *)
LEMMA KnowledgeKept ==
    ASSUME IInv, NEW r \in Procs, Grows, op'[r] = op[r], hits'[r] = hits[r],
           op[r].at = "index" => memories'[op[r].row].save = "open",
           op[r] = Idle \/ model' = model, copies' \in [Proposals -> 0..MaxCopies]
    PROVE  LocalsOK(r)' /\ Knows(r)'
<1>1. LocalsOK(r) /\ Knows(r)
    BY DEF IInv, TypeOK
<1>2. LocalsOK(r)'
    <2>1. DOMAIN memories \subseteq DOMAIN memories' /\ DOMAIN sessions \subseteq DOMAIN sessions'
        BY DEF Grows, SessionsGrow, MemoriesGrow
    <2>. QED BY <1>1, <2>1 DEF LocalsOK
<1>3. Staged(r)'
    BY <1>1 DEF Knows, Staged
<1>4. Owns(r)'
    <2>1. SUFFICES ASSUME op[r].at \in {"index", "mark"}
                   PROVE  /\ op[r].row \in DOMAIN memories'
                          /\ Doing(memories'[op[r].row].source) = op[r].doing
                          /\ memories'[op[r].row].of = op[r].batch
                          /\ op[r].at = "mark" => op[r].row \in fts' /\ memories'[op[r].row].save = "returned"
        BY DEF Owns
    <2>2. /\ op[r].row \in DOMAIN memories
          /\ Doing(memories[op[r].row].source) = op[r].doing
          /\ memories[op[r].row].of = op[r].batch
          /\ op[r].at = "mark" => op[r].row \in fts /\ memories[op[r].row].save = "returned"
        BY <1>1, <2>1 DEF Knows, Owns
    <2>. QED BY <2>2 DEF Grows, MemoriesGrow
<1>5. ReadAll(r)'
    <2>1. SUFFICES ASSUME op[r].doing = "compress",
                          NEW m \in DOMAIN sessions', sessions'[m].session = op[r].about
                   PROVE  m \in op[r].batch \/ sessions'[m].compressed \/ sessions'[m].late
        BY DEF ReadAll
    <2>2. CASE m \in DOMAIN sessions
        BY <1>1, <2>1, <2>2 DEF Knows, ReadAll, Grows, SessionsGrow
    <2>3. CASE m \notin DOMAIN sessions
        <3>1. Compressing(sessions'[m].session)
            BY <2>1 DEF Compressing
        <3>. QED BY <2>3, <3>1 DEF Grows, SessionsGrow
    <2>. QED BY <2>2, <2>3
<1>6. Searching(r)'
    <2>1. CASE op[r].at \in {"keyword", "fused"}
        <3>1. model' = model
            BY <2>1 DEF Idle
        <3>2. ASSUME NEW i \in Range(hits[r].vector)
              PROVE  i \in DOMAIN memories' /\ i > hits[r].cutoff /\ memories'[i].dim = model'
            <4>1. i \in DOMAIN memories /\ i > hits[r].cutoff /\ memories[i].dim = model
                BY <1>1, <2>1 DEF Knows, Searching
            <4>. QED BY <3>1, <4>1 DEF Grows, MemoriesGrow
        <3>3. op[r].at = "fused" => FusedOf(hits[r])
            BY <1>1 DEF Knows, Searching
        <3>. QED BY <3>2, <3>3 DEF Searching, FusedOf
    <2>2. CASE op[r].at \notin {"keyword", "fused"}
        BY <2>2 DEF Searching
    <2>. QED BY <2>1, <2>2
<1>7. Accepting(r)'
    <2>1. SUFFICES ASSUME op[r].at = "update" PROVE copies'[op[r].about] > 0
        BY DEF Accepting
    <2>2. op[r].about \in Proposals /\ copies[op[r].about] > 0
        BY <1>1, <2>1 DEF Knows, Staged, Accepting
    <2>3. copies[op[r].about] \in Int /\ copies'[op[r].about] \in Int
        BY <2>2, MemoryAssumption DEF IInv, TypeOK
    <2>4. copies'[op[r].about] >= copies[op[r].about]
        BY <2>2 DEF Grows
    <2>. QED BY <2>2, <2>3, <2>4
<1>. QED BY <1>2, <1>3, <1>4, <1>5, <1>6, <1>7 DEF Knows

(* Saved summaries stay what they are. *)
LEMMA SummariesKept ==
    ASSUME IInv, MemoriesGrow, NEW source
    PROVE  \A d \in Summaries(source) :
              /\ d \in Summaries(source)'
              /\ memories'[d].of = memories[d].of /\ memories'[d].shown = memories[d].shown
<1>1. fts \subseteq DOMAIN memories
    BY DEF IInv, TypeOK
<1>. QED BY <1>1 DEF MemoriesGrow, Summaries

(* An episode that was marked is covered still. *)
LEMMA EpisodesKept ==
    ASSUME IInv, MemoriesGrow, NEW i \in DOMAIN memories, memories[i].consolidated
    PROVE  \E d \in Summaries("dream")' :
              /\ i \in memories'[d].of
              /\ \/ i \in memories'[d].shown
                 \/ Cardinality({j \in memories'[d].of : j > i}) >= PromptRoom
<1>1. PICK d \in Summaries("dream") :
         /\ i \in memories[d].of
         /\ \/ i \in memories[d].shown
            \/ Cardinality({j \in memories[d].of : j > i}) >= PromptRoom
    BY DEF IInv, ConsolidatedIsCovered
<1>2. /\ d \in Summaries("dream")'
      /\ memories'[d].of = memories[d].of /\ memories'[d].shown = memories[d].shown
    BY SummariesKept
<1>. QED BY <1>1, <1>2

(* And so is a message. *)
LEMMA MessagesKept ==
    ASSUME IInv, SessionsGrow, MemoriesGrow, NEW m \in DOMAIN sessions, sessions[m].compressed
    PROVE  \/ sessions'[m].late
           \/ \E d \in Summaries("session")' :
                 /\ m \in memories'[d].of
                 /\ \/ m \in memories'[d].shown
                    \/ Cardinality({n \in memories'[d].of : n < m}) >= ConvoRoom
<1>1. CASE sessions[m].late
    BY <1>1 DEF SessionsGrow
<1>2. CASE ~sessions[m].late
    <2>1. PICK d \in Summaries("session") :
             /\ m \in memories[d].of
             /\ \/ m \in memories[d].shown
                \/ Cardinality({n \in memories[d].of : n < m}) >= ConvoRoom
        BY <1>2 DEF IInv, CompressedIsCovered
    <2>2. /\ d \in Summaries("session")'
          /\ memories'[d].of = memories[d].of /\ memories'[d].shown = memories[d].shown
        BY SummariesKept
    <2>. QED BY <2>1, <2>2
<1>. QED BY <1>1, <1>2

(* A memory made earlier says still what was read and shown. *)
LEMMA MadeKept ==
    ASSUME IInv, MemoriesGrow, NEW d \in DOMAIN memories
    PROVE  /\ IsFiniteSet(memories'[d].of)
           /\ memories'[d].shown = Shown(memories'[d].source, memories'[d].of)
BY DEF IInv, Made, MemoriesGrow

-----------------------------------------------------------------------------
(* The steps that write no table. *)

(* Tables that do not change grow. *)
LEMMA SessionsStand == ASSUME UNCHANGED sessions PROVE SessionsGrow
BY DEF SessionsGrow

LEMMA MemoriesStand == ASSUME UNCHANGED <<memories, fts>> PROVE MemoriesGrow
BY DEF MemoriesGrow

LEMMA SkillsStand ==
    ASSUME IInv, UNCHANGED skills
    PROVE  /\ copies' \in [Proposals -> 0..MaxCopies]
           /\ \A q \in Proposals :
                 copies'[q] >= copies[q] /\ (proposal[q] = "accepted" => proposal'[q] = "accepted")
<1>1. copies \in [Proposals -> 0..MaxCopies] /\ UNCHANGED <<proposal, copies>>
    BY DEF IInv, TypeOK, skills
<1>2. \A q \in Proposals : copies[q] \in Int
    BY <1>1, MemoryAssumption
<1>. QED BY <1>1, <1>2

(* A step of one coroutine in its own locals, away from the index. *)
LEMMA LocalStep ==
    ASSUME IInv, NEW p \in Procs, UNCHANGED <<tables, skills>>,
           op' \in [Procs -> Locals], hits' \in [Procs -> Results],
           \A r \in Procs \ {p} : op'[r] = op[r] /\ hits'[r] = hits[r],
           op[p].at # "index", op'[p].at # "index",
           LocalsOK(p)', Knows(p)'
    PROVE  IInv' /\ Grows
<1>1. UNCHANGED <<sessions, memories, fts, aged, model, proposal, copies>>
    BY DEF tables, skills
<1>2. Grows
    BY <1>1, SessionsStand, MemoriesStand, SkillsStand DEF Grows
<1>3. \A r \in Procs : LocalsOK(r)' /\ Knows(r)'
    <2>1. SUFFICES ASSUME NEW r \in Procs \ {p} PROVE LocalsOK(r)' /\ Knows(r)'
        OBVIOUS
    <2>2. LocalsOK(r)
        BY DEF IInv, TypeOK
    <2>3. op[r].at = "index" => memories'[op[r].row].save = "open"
        BY <1>1, <2>2 DEF LocalsOK
    <2>. QED BY <1>1, <1>2, <2>3, SkillsStand, KnowledgeKept
<1>4. TypeOK'
    BY <1>1, <1>3 DEF IInv, TypeOK
<1>5. OneOwner'
    <2>1. \A r \in Procs : op'[r].at = "index" => op[r].at = "index" /\ op'[r] = op[r]
        OBVIOUS
    <2>. QED BY <2>1 DEF IInv, OneOwner
<1>6. Made' /\ AcceptedIsWritten'
    BY <1>1 DEF IInv, Made, Shown, AcceptedIsWritten
<1>7. SavedIsIndexed'
    <2>1. \A r \in Procs : op[r].at = "index" => op'[r] = op[r]
        OBVIOUS
    <2>. QED BY <1>1, <2>1 DEF IInv, SavedIsIndexed
<1>8. ConsolidatedIsCovered' /\ CompressedIsCovered'
    BY <1>1 DEF IInv, ConsolidatedIsCovered, CompressedIsCovered, Summaries
<1>. QED BY <1>2, <1>3, <1>4, <1>5, <1>6, <1>7, <1>8 DEF IInv

(* A coroutine that has returned needs to know nothing. *)
LEMMA ReturnedKnows ==
    ASSUME NEW p \in Procs, op'[p] = Idle, hits'[p] = NoHits
    PROVE  LocalsOK(p)' /\ Knows(p)'
BY FS_EmptySet DEF LocalsOK, Knows, Staged, Owns, ReadAll, Searching, Accepting, Idle

(* What an operation that is under way, and no search, finds. *)
LEMMA Underway ==
    ASSUME IInv, NEW p \in Procs, op[p].at \notin {"idle", "query", "vector", "keyword", "fused"}
    PROVE  /\ op[p] \in Locals /\ op[p] # Idle /\ op[p].doing # "search"
           /\ hits[p] = NoHits
           /\ LocalsOK(p) /\ Staged(p) /\ Owns(p) /\ ReadAll(p) /\ Accepting(p)
<1>1. op[p] \in Locals /\ LocalsOK(p) /\ Knows(p)
    BY DEF IInv, TypeOK
<1>. QED BY <1>1 DEF LocalsOK, Knows, Staged, Idle

LEMMA SaveStep ==
    ASSUME IInv, NEW p \in Procs, Save(p)
    PROVE  IInv' /\ Grows
<1>. DEFINE locals == [Idle EXCEPT !.doing = "save", !.at = "embed"]
<1>1. /\ locals.doing = "save" /\ locals.at = "embed" /\ locals.batch = {}
      /\ locals.row = 0 /\ locals.about = "none" /\ locals \in Locals
    BY NoRow DEF Idle, Locals
<1>2. op[p] = Idle /\ op' = [op EXCEPT ![p] = locals] /\ UNCHANGED <<tables, hits, skills>>
    BY DEF Save
<1>. HIDE DEF locals
<1>3. /\ op' \in [Procs -> Locals] /\ op'[p] = locals
      /\ \A r \in Procs \ {p} : op'[r] = op[r]
    BY <1>1, <1>2, OpSet DEF IInv
<1>4. hits[p] = NoHits /\ hits \in [Procs -> Results]
    BY <1>2 DEF IInv, TypeOK, LocalsOK, Idle
<1>5. LocalsOK(p)' /\ Knows(p)'
    BY <1>1, <1>2, <1>3, <1>4, FS_EmptySet
    DEF LocalsOK, Knows, Staged, Owns, ReadAll, Searching, Accepting, Idle
<1>. QED BY <1>1, <1>2, <1>3, <1>4, <1>5, LocalStep DEF Idle

LEMMA EmbedStep ==
    ASSUME IInv, NEW p \in Procs, Embed(p)
    PROVE  IInv' /\ Grows
<1>1. op[p].at = "embed" /\ Step(p, "insert") /\ UNCHANGED <<tables, hits, skills>>
    BY DEF Embed
<1>2. op[p] # Idle /\ hits[p] = NoHits /\ LocalsOK(p) /\ Staged(p) /\ ReadAll(p)
    BY <1>1, Underway
<1>3. /\ op' \in [Procs -> Locals]
      /\ op'[p].at = "insert" /\ op'[p].doing = op[p].doing /\ op'[p].batch = op[p].batch
      /\ op'[p].about = op[p].about
      /\ \A r \in Procs \ {p} : op'[r] = op[r]
    BY <1>1, OpStep DEF IInv
<1>4. UNCHANGED <<sessions, memories, fts, model>>
    BY <1>1 DEF tables
<1>5. LocalsOK(p)'
    BY <1>1, <1>2, <1>3, <1>4 DEF LocalsOK, Idle
<1>6. Knows(p)'
    BY <1>1, <1>2, <1>3, <1>4 DEF Knows, Staged, Owns, ReadAll, Searching, Accepting, Idle
<1>. QED BY <1>1, <1>3, <1>5, <1>6, LocalStep DEF IInv, TypeOK

LEMMA AskStep ==
    ASSUME IInv, NEW p \in Procs, Ask(p)
    PROVE  IInv' /\ Grows
<1>1. op[p].at = "ask" /\ UNCHANGED <<tables, hits, skills>>
    BY DEF Ask
<1>2. op[p] # Idle /\ hits[p] = NoHits /\ LocalsOK(p) /\ Staged(p) /\ ReadAll(p)
    BY <1>1, Underway
<1>3. UNCHANGED <<sessions, memories, fts, model>> /\ hits' \in [Procs -> Results]
    BY <1>1 DEF tables, IInv, TypeOK
<1>4. CASE Step(p, "embed")
    <2>1. /\ op' \in [Procs -> Locals]
          /\ op'[p].at = "embed" /\ op'[p].doing = op[p].doing /\ op'[p].batch = op[p].batch
          /\ op'[p].about = op[p].about
          /\ \A r \in Procs \ {p} : op'[r] = op[r]
        BY <1>4, OpStep DEF IInv
    <2>2. LocalsOK(p)'
        BY <1>1, <1>2, <1>3, <2>1 DEF LocalsOK, Idle
    <2>3. Knows(p)'
        BY <1>1, <1>2, <1>3, <2>1 DEF Knows, Staged, Owns, ReadAll, Searching, Accepting, Idle
    <2>. QED BY <1>1, <1>3, <2>1, <2>2, <2>3, LocalStep
<1>5. CASE Return(p)
    <2>1. op' \in [Procs -> Locals] /\ op'[p] = Idle /\ \A r \in Procs \ {p} : op'[r] = op[r]
        BY <1>5, OpReturn DEF IInv
    <2>2. LocalsOK(p)' /\ Knows(p)'
        BY <1>1, <1>2, <2>1, ReturnedKnows
    <2>. QED BY <1>1, <1>3, <2>1, <2>2, LocalStep DEF Idle
<1>. QED BY <1>4, <1>5 DEF Ask

LEMMA CompressStep ==
    ASSUME IInv, NEW p \in Procs, NEW s \in Sessions, Compress(p, s)
    PROVE  IInv' /\ Grows
<1>. DEFINE locals == [Idle EXCEPT !.doing = "compress", !.at = "ask",
                                   !.batch = OpenMessages(s), !.about = s]
<1>1. /\ op[p] = Idle /\ UNCHANGED <<tables, hits, skills>>
      /\ op' = [op EXCEPT ![p] = locals]
    BY DEF Compress
<1>2. /\ OpenMessages(s) \subseteq DOMAIN sessions /\ IsFiniteSet(OpenMessages(s))
      /\ OpenMessages(s) \in SUBSET Nat
    <2>1. OpenMessages(s) \in SUBSET DOMAIN sessions
        BY DEF OpenMessages
    <2>2. IsFiniteSet(OpenMessages(s))
        BY <2>1, RowNumbers, FS_Subset DEF IInv
    <2>3. DOMAIN sessions \subseteq Nat
        BY RowNumbers DEF IInv
    <2>. QED BY <2>1, <2>2, <2>3
<1>3. /\ locals.doing = "compress" /\ locals.at = "ask" /\ locals.batch = OpenMessages(s)
      /\ locals.about = s /\ locals \in Locals
    BY <1>2, NoRow DEF Idle, Locals
<1>. HIDE DEF locals
<1>4. /\ op' \in [Procs -> Locals] /\ op'[p] = locals
      /\ \A r \in Procs \ {p} : op'[r] = op[r]
    BY <1>1, <1>3, OpSet DEF IInv
<1>5. hits[p] = NoHits /\ hits \in [Procs -> Results]
    BY <1>1 DEF IInv, TypeOK, LocalsOK, Idle
<1>6. UNCHANGED <<sessions, memories, fts, model>> /\ hits' = hits
    BY <1>1 DEF tables
<1>7. \A m \in DOMAIN sessions : sessions[m].session = s => m \in OpenMessages(s) \/ sessions[m].compressed
    BY DEF OpenMessages
<1>8. LocalsOK(p)'
    BY <1>2, <1>3, <1>4, <1>5, <1>6 DEF LocalsOK, Idle
<1>9. Knows(p)'
    BY <1>2, <1>3, <1>4, <1>6, <1>7 DEF Knows, Staged, Owns, ReadAll, Searching, Accepting, Idle
<1>. QED BY <1>1, <1>3, <1>4, <1>5, <1>6, <1>8, <1>9, LocalStep DEF Idle

LEMMA DreamStep ==
    ASSUME IInv, NEW p \in Procs, Dream(p)
    PROVE  IInv' /\ Grows
<1>. DEFINE locals == [Idle EXCEPT !.doing = "dream", !.at = "ask", !.batch = Episodes]
<1>1. /\ op[p] = Idle /\ UNCHANGED <<tables, hits, skills>>
      /\ op' = [op EXCEPT ![p] = locals]
    BY DEF Dream
<1>2. Episodes \subseteq DOMAIN memories /\ IsFiniteSet(Episodes) /\ Episodes \in SUBSET Nat
    <2>. DEFINE open == {i \in DOMAIN memories :
                            memories[i].type = "episodic" /\ ~memories[i].consolidated /\ i > aged}
    <2>1. open \in SUBSET DOMAIN memories
        OBVIOUS
    <2>2. Episodes = Newest(BatchLimit, open)
        BY DEF Episodes
    <2>. HIDE DEF open
    <2>3. IsFiniteSet(open) /\ open \in SUBSET Int /\ DOMAIN memories \subseteq Nat
        BY <2>1, RowNumbers, FS_Subset DEF IInv
    <2>4. Episodes \subseteq open /\ IsFiniteSet(Episodes)
        BY <2>2, <2>3, NewestBounded, MemoryAssumption
    <2>. QED BY <2>1, <2>3, <2>4
<1>3. /\ locals.doing = "dream" /\ locals.at = "ask" /\ locals.batch = Episodes
      /\ locals \in Locals
    BY <1>2, NoRow DEF Idle, Locals
<1>. HIDE DEF locals
<1>4. /\ op' \in [Procs -> Locals] /\ op'[p] = locals
      /\ \A r \in Procs \ {p} : op'[r] = op[r]
    BY <1>1, <1>3, OpSet DEF IInv
<1>5. hits[p] = NoHits /\ hits \in [Procs -> Results]
    BY <1>1 DEF IInv, TypeOK, LocalsOK, Idle
<1>6. UNCHANGED <<sessions, memories, fts, model>> /\ hits' = hits
    BY <1>1 DEF tables
<1>7. LocalsOK(p)'
    BY <1>2, <1>3, <1>4, <1>5, <1>6 DEF LocalsOK, Idle
<1>8. Knows(p)'
    BY <1>2, <1>3, <1>4, <1>6 DEF Knows, Staged, Owns, ReadAll, Searching, Accepting, Idle
<1>. QED BY <1>1, <1>3, <1>4, <1>5, <1>6, <1>7, <1>8, LocalStep DEF Idle

LEMMA AcceptStep ==
    ASSUME IInv, NEW p \in Procs, NEW q \in Proposals, Accept(p, q)
    PROVE  IInv' /\ Grows
<1>. DEFINE locals == [Idle EXCEPT !.doing = "accept", !.at = "append", !.about = q]
<1>1. /\ op[p] = Idle /\ UNCHANGED <<tables, hits, skills>>
      /\ op' = [op EXCEPT ![p] = locals]
    BY DEF Accept
<1>2. /\ locals.doing = "accept" /\ locals.at = "append" /\ locals.batch = {}
      /\ locals.about = q /\ locals \in Locals
    BY NoRow DEF Idle, Locals
<1>. HIDE DEF locals
<1>3. /\ op' \in [Procs -> Locals] /\ op'[p] = locals
      /\ \A r \in Procs \ {p} : op'[r] = op[r]
    BY <1>1, <1>2, OpSet DEF IInv
<1>4. hits[p] = NoHits /\ hits \in [Procs -> Results]
    BY <1>1 DEF IInv, TypeOK, LocalsOK, Idle
<1>5. LocalsOK(p)' /\ Knows(p)'
    BY <1>1, <1>2, <1>3, <1>4, FS_EmptySet
    DEF LocalsOK, Knows, Staged, Owns, ReadAll, Searching, Accepting, Idle
<1>. QED BY <1>1, <1>2, <1>3, <1>4, <1>5, LocalStep DEF Idle

-----------------------------------------------------------------------------
(* Searches. *)

LEMMA MinOfTwo ==
    ASSUME NEW a \in Int, NEW b \in Int
    PROVE  Min({a, b}) = IF a <= b THEN a ELSE b
<1>. DEFINE least == IF a <= b THEN a ELSE b
<1>1. least \in {a, b} /\ \A y \in {a, b} : least <= y
    OBVIOUS
<1>2. \A x \in {a, b} : (\A y \in {a, b} : x <= y) => x = least
    OBVIOUS
<1>. HIDE DEF least
<1>3. Min({a, b}) \in {a, b} /\ \A y \in {a, b} : Min({a, b}) <= y
    BY <1>1 DEF Min
<1>4. Min({a, b}) = least
    BY <1>2, <1>3
<1>. QED BY <1>4 DEF least

LEMMA NothingRanked == <<>> \in Rankings /\ Range(<<>>) = {}
<1>1. <<>> \in [1..0 -> 1..MaxMemories] /\ DOMAIN <<>> = {}
    OBVIOUS
<1>2. 0 \in 0..2*TopK
    BY MemoryAssumption
<1>. QED BY <1>1, <1>2 DEF Rankings, IsInjective, Range

(* A ranking is a few memories, each at one rank. *)
LEMMA RankingBounded ==
    ASSUME NEW v \in Rankings
    PROVE  DOMAIN v \subseteq 1..60 /\ Range(v) \subseteq 1..MaxMemories
<1>1. PICK n \in 0..2*TopK : v \in [1..n -> 1..MaxMemories]
    BY DEF Rankings
<1>2. n \in Int /\ n <= 60
    BY MemoryAssumption
<1>3. 1..n \subseteq 1..60
    BY <1>2
<1>. QED BY <1>1, <1>3 DEF Range

LEMMA WeightBounded ==
    ASSUME NEW v \in Rankings, NEW i
    PROVE  /\ i \in Range(v) => \E a \in 61..120 : Weight(v, i) = <<1, a>>
           /\ i \notin Range(v) => Weight(v, i) = <<0, 1>>
<1>1. ASSUME i \in Range(v) PROVE \E a \in 61..120 : Weight(v, i) = <<1, a>>
    <2>. DEFINE rank == CHOOSE r \in DOMAIN v : v[r] = i
    <2>1. rank \in DOMAIN v
        BY <1>1 DEF Range
    <2>2. Weight(v, i) = <<1, K + rank>>
        BY <1>1 DEF Weight
    <2>. HIDE DEF rank
    <2>3. rank \in 1..60
        BY <2>1, RankingBounded
    <2>4. K + rank \in 61..120
        BY <2>3 DEF K
    <2>. QED BY <2>2, <2>4
<1>. QED BY <1>1 DEF Weight

(* Two fractions of at most 1/61 and at least 1/120 add up to more than one. *)
LEMMA TwoOutweighOne ==
    ASSUME NEW a \in 61..120, NEW b \in 61..120, NEW c \in 61..120
    PROVE  (a + b) * c > a * b
<1>1. (120 - a) * b >= 0 /\ (120 - b) * a >= 0
    OBVIOUS
<1>2. (120 - a) * b = 120 * b - a * b /\ (120 - b) * a = 120 * a - a * b
    OBVIOUS
<1>3. 60 * (a + b) >= a * b
    <2>1. a * b \in Int
        OBVIOUS
    <2>. QED BY <1>1, <1>2, <2>1
<1>4. (a + b) * c >= (a + b) * 61
    <2>1. (a + b) * (c - 61) >= 0
        OBVIOUS
    <2>2. (a + b) * (c - 61) = (a + b) * c - (a + b) * 61
        OBVIOUS
    <2>. QED BY <2>1, <2>2
<1>5. (a + b) * 61 > 60 * (a + b)
    OBVIOUS
<1>6. (a + b) * c \in Int /\ a * b \in Int
    OBVIOUS
<1>. QED BY <1>3, <1>4, <1>5, <1>6

LEMMA BothOutrankOne ==
    ASSUME NEW v \in Rankings, NEW w \in Rankings,
           NEW i \in Range(v) \cup Range(w), i \notin Range(v) \cap Range(w),
           NEW j \in Range(v) \cap Range(w)
    PROVE  Above(Score(v, w, j), Score(v, w, i))
<1>1. PICK a \in 61..120 : Weight(v, j) = <<1, a>>
    BY WeightBounded
<1>2. PICK b \in 61..120 : Weight(w, j) = <<1, b>>
    BY WeightBounded
<1>3. Score(v, w, j) = <<a + b, a * b>>
    <2>1. Score(v, w, j) = <<1 * b + 1 * a, a * b>>
        BY <1>1, <1>2 DEF Score
    <2>2. 1 * b + 1 * a = a + b
        OBVIOUS
    <2>. QED BY <2>1, <2>2
<1>4. \E c \in 61..120 : Score(v, w, i) = <<1, c>>
    <2>1. CASE i \in Range(v) /\ i \notin Range(w)
        <3>1. PICK c \in 61..120 : Weight(v, i) = <<1, c>>
            BY <2>1, WeightBounded
        <3>2. Weight(w, i) = <<0, 1>>
            BY <2>1, WeightBounded
        <3>3. Score(v, w, i) = <<1 * 1 + 0 * c, c * 1>>
            BY <3>1, <3>2 DEF Score
        <3>4. 1 * 1 + 0 * c = 1 /\ c * 1 = c
            OBVIOUS
        <3>. QED BY <3>3, <3>4
    <2>2. CASE i \in Range(w) /\ i \notin Range(v)
        <3>1. PICK c \in 61..120 : Weight(w, i) = <<1, c>>
            BY <2>2, WeightBounded
        <3>2. Weight(v, i) = <<0, 1>>
            BY <2>2, WeightBounded
        <3>3. Score(v, w, i) = <<0 * c + 1 * 1, 1 * c>>
            BY <3>1, <3>2 DEF Score
        <3>4. 0 * c + 1 * 1 = 1 /\ 1 * c = c
            OBVIOUS
        <3>. QED BY <3>3, <3>4
    <2>. QED BY <2>1, <2>2
<1>5. PICK c \in 61..120 : Score(v, w, i) = <<1, c>>
    BY <1>4
<1>6. (a + b) * c > 1 * (a * b)
    <2>1. 1 * (a * b) = a * b
        OBVIOUS
    <2>. QED BY <2>1, TwoOutweighOne
<1>. QED BY <1>3, <1>5, <1>6 DEF Above

(* What the fusion returns. *)
LEMMA FusionSound ==
    ASSUME NEW v \in Rankings, NEW w \in Rankings, NEW best \in Fused(v, w)
    PROVE  /\ best \subseteq Range(v) \cup Range(w)
           /\ Cardinality(best) = Min({TopK, Cardinality(Range(v) \cup Range(w))})
           /\ Range(v) \cap Range(w) \subseteq best \/ best \subseteq Range(v) \cap Range(w)
<1>. DEFINE all == Range(v) \cup Range(w)
<1>1. /\ best \in kSubset(Min({TopK, Cardinality(all)}), all)
      /\ \A i \in best, j \in all \ best : ~Above(Score(v, w, j), Score(v, w, i))
    BY DEF Fused
<1>2. best \subseteq all /\ Cardinality(best) = Min({TopK, Cardinality(all)})
    BY <1>1 DEF kSubset
<1>3. ASSUME NEW j \in Range(v) \cap Range(w), j \notin best, NEW i \in best, i \notin Range(v) \cap Range(w)
      PROVE  FALSE
    BY <1>1, <1>2, <1>3, BothOutrankOne
<1>. QED BY <1>2, <1>3

(* Results are set for one coroutine. *)
LEMMA HitsSet ==
    ASSUME TypeOK, NEW p \in Procs, NEW h \in Results, hits' = [hits EXCEPT ![p] = h]
    PROVE  hits' \in [Procs -> Results] /\ hits'[p] = h /\ \A r \in Procs \ {p} : hits'[r] = hits[r]
<1>1. hits \in [Procs -> Results]
    BY DEF TypeOK
<1>. QED BY <1>1

LEMMA NoHitsIsResults == NoHits \in Results
BY NoRow, NothingRanked DEF NoHits, Results

(* Setting to nothing what is nothing. *)
LEMMA HitsKept ==
    ASSUME TypeOK, NEW p \in Procs, hits[p] = NoHits, hits' = [hits EXCEPT ![p] = NoHits]
    PROVE  hits' = hits
BY DEF TypeOK

(* An await that raises before the index; a search forgets its cut-off. *)
LEMMA RaiseStep ==
    ASSUME IInv, NEW p \in Procs, Raise(p), op[p].at # "index"
    PROVE  IInv' /\ Grows
<1>1. /\ op[p].at # "idle" /\ Return(p)
      /\ hits' = [hits EXCEPT ![p] = NoHits] /\ UNCHANGED <<tables, skills>>
    BY DEF Raise, tables
<1>2. op' \in [Procs -> Locals] /\ op'[p] = Idle /\ \A r \in Procs \ {p} : op'[r] = op[r]
    BY <1>1, OpReturn DEF IInv
<1>3. hits' \in [Procs -> Results] /\ hits'[p] = NoHits /\ \A r \in Procs \ {p} : hits'[r] = hits[r]
    BY <1>1, NoHitsIsResults, HitsSet DEF IInv
<1>4. LocalsOK(p)' /\ Knows(p)'
    BY <1>2, <1>3, ReturnedKnows
<1>. QED BY <1>1, <1>2, <1>3, <1>4, LocalStep DEF Idle

LEMMA SearchStep ==
    ASSUME IInv, NEW p \in Procs, Search(p)
    PROVE  IInv' /\ Grows
<1>. DEFINE locals == [Idle EXCEPT !.doing = "search", !.at = "query"]
<1>1. op[p] = Idle /\ op' = [op EXCEPT ![p] = locals] /\ UNCHANGED <<tables, hits, skills>>
    BY DEF Search
<1>2. locals.doing = "search" /\ locals.at = "query" /\ locals.batch = {} /\ locals \in Locals
    BY NoRow DEF Idle, Locals
<1>. HIDE DEF locals
<1>3. op' \in [Procs -> Locals] /\ op'[p] = locals /\ \A r \in Procs \ {p} : op'[r] = op[r]
    BY <1>1, <1>2, OpSet DEF IInv
<1>4. hits \in [Procs -> Results]
    BY DEF IInv, TypeOK
<1>5. LocalsOK(p)' /\ Knows(p)'
    BY <1>2, <1>3, FS_EmptySet DEF LocalsOK, Knows, Staged, Owns, ReadAll, Searching, Accepting, Idle
<1>. QED BY <1>1, <1>2, <1>3, <1>4, <1>5, LocalStep DEF Idle

(* What a search at an await finds. *)
LEMMA SearchUnderway ==
    ASSUME IInv, NEW p \in Procs, op[p].at \in {"query", "vector", "keyword", "fused"}
    PROVE  /\ op[p] # Idle /\ op[p].doing = "search" /\ hits[p] \in Results
           /\ Staged(p) /\ Searching(p)
BY DEF IInv, TypeOK, Knows, Staged, Idle

(* A search between two of its awaits. *)
LEMMA SearchGoesOn ==
    ASSUME IInv, NEW p \in Procs, op[p].at \in {"query", "vector", "keyword"},
           NEW at \in {"vector", "keyword", "fused"}, Step(p, at),
           NEW h \in Results, hits' = [hits EXCEPT ![p] = h], UNCHANGED <<tables, skills>>,
           at \in {"keyword", "fused"} =>
              \A i \in Range(h.vector) :
                 i \in DOMAIN memories /\ i > h.cutoff /\ memories[i].dim = model,
           at = "fused" => FusedOf(h)
    PROVE  IInv' /\ Grows
<1>1. /\ op' \in [Procs -> Locals]
      /\ op'[p].at = at /\ op'[p].doing = op[p].doing /\ op'[p].batch = op[p].batch
      /\ \A r \in Procs \ {p} : op'[r] = op[r]
    BY OpStep DEF IInv
<1>2. hits' \in [Procs -> Results] /\ hits'[p] = h /\ \A r \in Procs \ {p} : hits'[r] = hits[r]
    BY HitsSet DEF IInv
<1>3. op[p].doing = "search" /\ Staged(p)
    BY SearchUnderway
<1>4. LocalsOK(p)'
    BY <1>1, <1>3 DEF LocalsOK, Idle
<1>5. Searching(p)'
    BY <1>1, <1>2 DEF Searching, FusedOf, tables
<1>6. Knows(p)'
    BY <1>1, <1>3, <1>5 DEF Knows, Staged, Owns, ReadAll, Accepting, Idle
<1>. QED BY <1>1, <1>2, <1>4, <1>6, LocalStep

LEMMA EmbedQueryStep ==
    ASSUME IInv, NEW p \in Procs, NEW cutoff \in {0, aged}, EmbedQuery(p, cutoff)
    PROVE  IInv' /\ Grows
<1>. DEFINE h == [hits[p] EXCEPT !.cutoff = cutoff]
<1>1. /\ op[p].at = "query" /\ Step(p, "vector") /\ UNCHANGED <<tables, skills>>
      /\ hits' = [hits EXCEPT ![p].cutoff = cutoff]
    BY DEF EmbedQuery
<1>2. hits[p] \in Results /\ hits \in [Procs -> Results]
    BY DEF IInv, TypeOK
<1>3. cutoff \in 0..MaxMemories
    <2>1. aged \in 0..Len(memories) /\ Len(memories) <= MaxMemories /\ Len(memories) \in Nat
        BY RowNumbers DEF IInv, TypeOK
    <2>. QED BY <2>1, MemoryAssumption
<1>4. h \in Results /\ hits' = [hits EXCEPT ![p] = h]
    BY <1>1, <1>2, <1>3 DEF Results
<1>. HIDE DEF h
<1>. QED BY <1>1, <1>4, SearchGoesOn

(* The comparison has raised, over vectors of different lengths, or it has  *)
(* ranked memories inside the cut-off, of the model in use.                 *)
LEMMA VectorSearchStep ==
    ASSUME IInv, NEW p \in Procs, VectorSearch(p)
    PROVE  IInv' /\ Grows
<1>. DEFINE rows == Candidates(hits[p].cutoff)
<1>1. op[p].at = "vector" /\ UNCHANGED <<tables, skills>>
    BY DEF VectorSearch
<1>2. hits[p] \in Results /\ hits \in [Procs -> Results]
    BY DEF IInv, TypeOK
<1>3. \A i \in rows : i \in DOMAIN memories /\ i > hits[p].cutoff
    BY DEF Candidates, Newest
<1>4. CASE Clash(rows)
    <2>. DEFINE h == [NoHits EXCEPT !.raised = TRUE]
    <2>1. hits' = [hits EXCEPT ![p] = h] /\ Step(p, "fused")
        BY <1>4 DEF VectorSearch
    <2>2. h \in Results /\ h.found = {} /\ h.vector = <<>> /\ h.keyword = <<>>
        BY NoHitsIsResults DEF NoHits, Results
    <2>. HIDE DEF h
    <2>3. Cardinality({}) = 0 /\ Min({TopK, 0}) = 0
        BY FS_EmptySet, MinOfTwo, MemoryAssumption
    <2>4. FusedOf(h) /\ Range(h.vector) = {}
        BY <2>2, <2>3, NothingRanked DEF FusedOf
    <2>. QED BY <1>1, <2>1, <2>2, <2>4, SearchGoesOn
<1>5. CASE ~Clash(rows)
    <2>1. PICK s \in RankingsOf({i \in rows : Comparable(i)}) : hits' = [hits EXCEPT ![p].vector = s]
        BY <1>5 DEF VectorSearch
    <2>2. Step(p, "keyword")
        BY <1>5 DEF VectorSearch
    <2>. DEFINE h == [hits[p] EXCEPT !.vector = s]
    <2>3. s \in Rankings /\ Range(s) \subseteq {i \in rows : Comparable(i)}
        BY <2>1 DEF RankingsOf
    <2>4. /\ h \in Results /\ h.vector = s /\ h.cutoff = hits[p].cutoff
          /\ hits' = [hits EXCEPT ![p] = h]
        BY <1>2, <2>1, <2>3 DEF Results
    <2>. HIDE DEF h
    <2>5. \A i \in Range(s) : memories[i].dim = model
        BY <1>5, <2>3 DEF Clash
    <2>. QED BY <1>1, <1>3, <2>2, <2>3, <2>4, <2>5, SearchGoesOn
<1>. QED BY <1>4, <1>5

LEMMA KeywordSearchStep ==
    ASSUME IInv, NEW p \in Procs, KeywordSearch(p)
    PROVE  IInv' /\ Grows
<1>1. op[p].at = "keyword" /\ Step(p, "fused") /\ UNCHANGED <<tables, skills>>
    BY DEF KeywordSearch
<1>2. PICK w \in RankingsOf(fts) :
         \E b \in Fused(hits[p].vector, w) : hits' = [hits EXCEPT ![p].keyword = w, ![p].found = b]
    BY DEF KeywordSearch
<1>. PICK best \in Fused(hits[p].vector, w) :
         hits' = [hits EXCEPT ![p].keyword = w, ![p].found = best]
    BY <1>2
<1>. DEFINE h == [hits[p] EXCEPT !.keyword = w, !.found = best]
<1>3. Searching(p) /\ hits[p] \in Results /\ hits \in [Procs -> Results]
    BY <1>1, SearchUnderway DEF IInv, TypeOK
<1>4. hits[p].vector \in Rankings /\ w \in Rankings
    BY <1>2, <1>3 DEF RankingsOf, Results
<1>5. /\ best \subseteq Range(hits[p].vector) \cup Range(w)
      /\ Cardinality(best) = Min({TopK, Cardinality(Range(hits[p].vector) \cup Range(w))})
      /\ Range(hits[p].vector) \cap Range(w) \subseteq best \/ best \subseteq Range(hits[p].vector) \cap Range(w)
    BY <1>2, <1>4, FusionSound
<1>6. best \subseteq 1..MaxMemories
    BY <1>4, <1>5, RankingBounded
<1>7. /\ h \in Results /\ h.cutoff = hits[p].cutoff
      /\ h.vector = hits[p].vector /\ h.keyword = w /\ h.found = best
    BY <1>3, <1>4, <1>6 DEF Results
<1>8. hits' = [hits EXCEPT ![p] = h]
    BY <1>2, <1>3
<1>. HIDE DEF h
<1>9. FusedOf(h)
    BY <1>5, <1>7 DEF FusedOf
<1>10. \A i \in Range(h.vector) : i \in DOMAIN memories /\ i > h.cutoff /\ memories[i].dim = model
    BY <1>1, <1>3, <1>7 DEF Searching
<1>. QED BY <1>1, <1>7, <1>8, <1>9, <1>10, SearchGoesOn

LEMMA SearchReturnsStep ==
    ASSUME IInv, NEW p \in Procs, SearchReturns(p)
    PROVE  IInv' /\ Grows
<1>1. /\ op[p].at = "fused" /\ Return(p) /\ hits' = [hits EXCEPT ![p] = NoHits]
      /\ UNCHANGED <<tables, skills>>
    BY DEF SearchReturns
<1>2. op' \in [Procs -> Locals] /\ op'[p] = Idle /\ \A r \in Procs \ {p} : op'[r] = op[r]
    BY <1>1, OpReturn DEF IInv
<1>3. hits' \in [Procs -> Results] /\ hits'[p] = NoHits /\ \A r \in Procs \ {p} : hits'[r] = hits[r]
    BY <1>1, NoHitsIsResults, HitsSet DEF IInv
<1>4. LocalsOK(p)' /\ Knows(p)'
    BY <1>2, <1>3, ReturnedKnows
<1>. QED BY <1>1, <1>2, <1>3, <1>4, LocalStep DEF Idle

-----------------------------------------------------------------------------
(* The steps that write a table. *)

LEMMA WriteStep ==
    ASSUME IInv, Grows,
           op' \in [Procs -> Locals], hits' \in [Procs -> Results], model' \in Dims,
           sessions' \in Seq(Messages), Len(sessions') <= MaxMessages,
           memories' \in Seq(Memories), Len(memories') <= MaxMemories,
           fts' \subseteq DOMAIN memories', aged' \in 0..Len(memories'),
           proposal' \in [Proposals -> {"absent", "pending", "accepted"}],
           copies' \in [Proposals -> 0..MaxCopies],
           \A r \in Procs :
              \/ LocalsOK(r)' /\ Knows(r)'
              \/ /\ op'[r] = op[r] /\ hits'[r] = hits[r]
                 /\ op[r].at = "index" => memories'[op[r].row].save = "open"
                 /\ op[r] = Idle \/ model' = model
    PROVE  TypeOK' /\ \A r \in Procs : Knows(r)'
<1>1. \A r \in Procs : LocalsOK(r)' /\ Knows(r)'
    BY KnowledgeKept
<1>. QED BY <1>1 DEF TypeOK

(* Without a step of a table or at the index, what is said of it stands. *)
LEMMA StandingMemories ==
    ASSUME IInv, UNCHANGED <<memories, fts>>,
           \A r \in Procs : op[r].at = "index" \/ op'[r].at = "index" => op'[r] = op[r]
    PROVE  OneOwner' /\ Made' /\ SavedIsIndexed' /\ ConsolidatedIsCovered'
<1>1. OneOwner'
    BY DEF IInv, OneOwner
<1>2. Made' /\ SavedIsIndexed'
    BY DEF IInv, Made, Shown, SavedIsIndexed
<1>3. ConsolidatedIsCovered'
    BY DEF IInv, ConsolidatedIsCovered, Summaries
<1>. QED BY <1>1, <1>2, <1>3

LEMMA StandingSessions ==
    ASSUME IInv, UNCHANGED sessions, MemoriesGrow
    PROVE  CompressedIsCovered'
BY MessagesKept, SessionsStand DEF CompressedIsCovered

(* Rows with new marks are as many rows. *)
LEMMA Rewritten ==
    ASSUME NEW S, NEW s \in Seq(S), NEW t \in [DOMAIN s -> S]
    PROVE  t \in Seq(S) /\ Len(t) = Len(s) /\ DOMAIN t = DOMAIN s
<1>1. Len(s) \in Nat /\ DOMAIN s = 1..Len(s)
    BY LenProperties
<1>2. t \in Seq(S)
    BY <1>1, SeqDef
<1>3. Len(t) \in Nat /\ DOMAIN t = 1..Len(t)
    BY <1>2, LenProperties
<1>4. 1..Len(t) = 1..Len(s)
    BY <1>1, <1>3
<1>5. Len(t) = Len(s)
    <2>1. \A n, k \in Nat : 1..n = 1..k => n = k
        <3>1. SUFFICES ASSUME NEW n \in Nat, NEW k \in Nat, 1..n = 1..k, n < k PROVE FALSE
            OBVIOUS
        <3>2. k \in 1..k /\ k \notin 1..n
            BY <3>1
        <3>. QED BY <3>1, <3>2
    <2>. QED BY <1>1, <1>3, <1>4, <2>1
<1>. QED BY <1>2, <1>3, <1>4, <1>1, <1>5

LEMMA SaveMessageStep ==
    ASSUME IInv, NEW s \in Sessions, SaveMessage(s)
    PROVE  IInv' /\ Grows
<1>. DEFINE message == [session |-> s, compressed |-> FALSE, late |-> Compressing(s)]
<1>1. /\ Len(sessions) < MaxMessages /\ sessions' = Append(sessions, message)
      /\ UNCHANGED <<memories, fts, aged, model, op, hits, proposal, copies>>
    BY DEF SaveMessage, skills
<1>2. message.session = s /\ ~message.compressed /\ message.late = Compressing(s) /\ message \in Messages
    BY DEF Messages, Compressing
<1>. HIDE DEF message
<1>3. sessions \in Seq(Messages) /\ Len(sessions) \in Nat /\ DOMAIN sessions = 1..Len(sessions)
    BY RowNumbers DEF IInv, TypeOK
<1>4. /\ sessions' \in Seq(Messages) /\ Len(sessions') = Len(sessions) + 1
      /\ \A m \in DOMAIN sessions : sessions'[m] = sessions[m]
      /\ sessions'[Len(sessions) + 1] = message
    BY <1>1, <1>2, <1>3, AppendProperties
<1>5. DOMAIN sessions' = 1..(Len(sessions) + 1)
    BY <1>4, LenProperties
<1>6. Len(sessions') <= MaxMessages
    BY <1>1, <1>3, <1>4, MemoryAssumption
<1>7. \A m \in DOMAIN sessions' : m \in DOMAIN sessions \/ m = Len(sessions) + 1
    BY <1>3, <1>5
<1>8. DOMAIN sessions \subseteq DOMAIN sessions'
    BY <1>3, <1>5
<1>9. Grows
    <2>1. SessionsGrow
        BY <1>2, <1>4, <1>7, <1>8 DEF SessionsGrow
    <2>. QED BY <1>1, <2>1, MemoriesStand, SkillsStand DEF Grows, skills
<1>10. TypeOK' /\ \A r \in Procs : Knows(r)'
    <2>1. \A r \in Procs : op[r].at = "index" => memories'[op[r].row].save = "open"
        BY <1>1 DEF IInv, TypeOK, LocalsOK
    <2>. QED BY <1>1, <1>4, <1>6, <1>9, <2>1, WriteStep DEF IInv, TypeOK
<1>11. OneOwner' /\ Made' /\ SavedIsIndexed' /\ ConsolidatedIsCovered'
    BY <1>1, StandingMemories
<1>12. CompressedIsCovered'
    <2>1. SUFFICES ASSUME NEW m \in DOMAIN sessions', sessions'[m].compressed
                   PROVE  m \in DOMAIN sessions /\ sessions[m].compressed
        BY <1>9, MessagesKept DEF Grows, CompressedIsCovered
    <2>. QED BY <1>2, <1>4, <1>7, <2>1
<1>13. AcceptedIsWritten'
    BY <1>1 DEF IInv, AcceptedIsWritten
<1>. QED BY <1>9, <1>10, <1>11, <1>12, <1>13 DEF IInv

LEMMA AgeStep ==
    ASSUME IInv, Age
    PROVE  IInv' /\ Grows
<1>1. /\ aged < Len(memories) /\ aged' = aged + 1
      /\ UNCHANGED <<sessions, memories, fts, model, op, hits, proposal, copies>>
    BY DEF Age, skills
<1>2. aged' \in 0..Len(memories')
    BY <1>1, RowNumbers DEF IInv, TypeOK
<1>3. Grows
    BY <1>1, SessionsStand, MemoriesStand, SkillsStand DEF Grows, skills
<1>4. TypeOK' /\ \A r \in Procs : Knows(r)'
    <2>1. \A r \in Procs : op[r].at = "index" => memories'[op[r].row].save = "open"
        BY <1>1 DEF IInv, TypeOK, LocalsOK
    <2>. QED BY <1>1, <1>2, <1>3, <2>1, WriteStep DEF IInv, TypeOK
<1>5. OneOwner' /\ Made' /\ SavedIsIndexed' /\ ConsolidatedIsCovered'
    BY <1>1, StandingMemories
<1>6. CompressedIsCovered' /\ AcceptedIsWritten'
    BY <1>1, StandingSessions, MemoriesStand DEF IInv, AcceptedIsWritten
<1>. QED BY <1>3, <1>4, <1>5, <1>6 DEF IInv

(* A restart finds no coroutine: no one holds what the old model made. *)
LEMMA ReconfigureStep ==
    ASSUME IInv, Reconfigure
    PROVE  IInv' /\ Grows
<1>1. /\ \A p \in Procs : op[p] = Idle
      /\ model' \in Dims
      /\ UNCHANGED <<sessions, memories, fts, aged, op, hits, proposal, copies>>
    BY DEF Reconfigure, skills
<1>2. Grows
    BY <1>1, SessionsStand, MemoriesStand, SkillsStand DEF Grows, skills
<1>3. TypeOK' /\ \A r \in Procs : Knows(r)'
    BY <1>1, <1>2, WriteStep DEF IInv, TypeOK, Idle
<1>4. OneOwner' /\ Made' /\ SavedIsIndexed' /\ ConsolidatedIsCovered'
    BY <1>1, StandingMemories
<1>5. CompressedIsCovered' /\ AcceptedIsWritten'
    BY <1>1, StandingSessions, MemoriesStand DEF IInv, AcceptedIsWritten
<1>. QED BY <1>2, <1>3, <1>4, <1>5 DEF IInv

LEMMA ProposeStep ==
    ASSUME IInv, NEW q \in Proposals, Propose(q)
    PROVE  IInv' /\ Grows
<1>1. /\ proposal[q] = "absent" /\ proposal' = [proposal EXCEPT ![q] = "pending"]
      /\ UNCHANGED <<sessions, memories, fts, aged, model, op, hits, copies>>
    BY DEF Propose, tables
<1>2. proposal \in [Proposals -> {"absent", "pending", "accepted"}] /\ copies \in [Proposals -> 0..MaxCopies]
    BY DEF IInv, TypeOK
<1>3. /\ proposal' \in [Proposals -> {"absent", "pending", "accepted"}]
      /\ \A x \in Proposals : proposal[x] = "accepted" <=> proposal'[x] = "accepted"
    BY <1>1, <1>2
<1>4. Grows
    <2>1. \A x \in Proposals : copies'[x] >= copies[x]
        BY <1>1, <1>2, MemoryAssumption
    <2>. QED BY <1>1, <1>3, <2>1, SessionsStand, MemoriesStand DEF Grows
<1>5. TypeOK' /\ \A r \in Procs : Knows(r)'
    <2>1. \A r \in Procs : op[r].at = "index" => memories'[op[r].row].save = "open"
        BY <1>1 DEF IInv, TypeOK, LocalsOK
    <2>. QED BY <1>1, <1>3, <1>4, <2>1, WriteStep DEF IInv, TypeOK
<1>6. OneOwner' /\ Made' /\ SavedIsIndexed' /\ ConsolidatedIsCovered'
    BY <1>1, StandingMemories
<1>7. CompressedIsCovered'
    BY <1>1, StandingSessions, MemoriesStand
<1>8. AcceptedIsWritten'
    BY <1>1, <1>3 DEF IInv, AcceptedIsWritten
<1>. QED BY <1>4, <1>5, <1>6, <1>7, <1>8 DEF IInv

LEMMA AppendSkillStep ==
    ASSUME IInv, NEW p \in Procs, AppendSkill(p)
    PROVE  IInv' /\ Grows
<1>1. /\ op[p].at = "append" /\ copies[op[p].about] < MaxCopies
      /\ copies' = [copies EXCEPT ![op[p].about] = @ + 1] /\ Step(p, "update")
      /\ UNCHANGED <<sessions, memories, fts, aged, model, hits, proposal>>
    BY DEF AppendSkill, tables
<1>2. op[p] # Idle /\ op[p].doing = "accept" /\ op[p].about \in Proposals /\ hits[p] = NoHits /\ Staged(p)
    BY <1>1, Underway DEF Staged
<1>3. /\ op' \in [Procs -> Locals]
      /\ op'[p].at = "update" /\ op'[p].doing = op[p].doing /\ op'[p].batch = op[p].batch
      /\ op'[p].about = op[p].about
      /\ \A r \in Procs \ {p} : op'[r] = op[r]
    BY <1>1, OpStep DEF IInv
<1>4. copies \in [Proposals -> 0..MaxCopies] /\ MaxCopies \in Nat
    BY MemoryAssumption DEF IInv, TypeOK
<1>5. /\ copies' \in [Proposals -> 0..MaxCopies] /\ copies'[op[p].about] > 0
      /\ \A q \in Proposals : copies'[q] >= copies[q]
    <2>1. copies[op[p].about] \in 0..MaxCopies
        BY <1>2, <1>4
    <2>2. copies[op[p].about] + 1 \in 0..MaxCopies
        BY <1>1, <1>4, <2>1
    <2>3. copies'[op[p].about] = copies[op[p].about] + 1
        BY <1>1, <1>2, <1>4
    <2>4. \A q \in Proposals \ {op[p].about} : copies'[q] = copies[q]
        BY <1>1, <1>4
    <2>5. \A q \in Proposals : copies[q] \in Int
        BY <1>4
    <2>6. copies' \in [Proposals -> 0..MaxCopies]
        BY <1>1, <1>2, <1>4, <2>2
    <2>7. copies'[op[p].about] > 0 /\ copies'[op[p].about] >= copies[op[p].about]
        BY <1>4, <2>1, <2>3
    <2>8. \A q \in Proposals : copies'[q] >= copies[q]
        <3>1. SUFFICES ASSUME NEW q \in Proposals, q # op[p].about PROVE copies'[q] >= copies[q]
            BY <2>7
        <3>. QED BY <2>4, <2>5, <3>1
    <2>. QED BY <2>6, <2>7, <2>8
<1>6. Grows
    BY <1>1, <1>5, SessionsStand, MemoriesStand DEF Grows
<1>7. LocalsOK(p)'
    BY <1>1, <1>2, <1>3 DEF LocalsOK, Idle
<1>8. Knows(p)'
    BY <1>2, <1>3, <1>5 DEF Knows, Staged, Owns, ReadAll, Searching, Accepting, Idle
<1>9. TypeOK' /\ \A r \in Procs : Knows(r)'
    <2>1. \A r \in Procs : op[r].at = "index" => memories'[op[r].row].save = "open"
        BY <1>1 DEF IInv, TypeOK, LocalsOK
    <2>. QED BY <1>1, <1>3, <1>5, <1>6, <1>7, <1>8, <2>1, WriteStep DEF IInv, TypeOK
<1>10. OneOwner' /\ Made' /\ SavedIsIndexed' /\ ConsolidatedIsCovered'
    <2>1. \A r \in Procs : op[r].at = "index" \/ op'[r].at = "index" => op'[r] = op[r]
        BY <1>1, <1>3
    <2>. QED BY <1>1, <2>1, StandingMemories
<1>11. CompressedIsCovered'
    BY <1>1, StandingSessions, MemoriesStand
<1>12. AcceptedIsWritten'
    <2>1. SUFFICES ASSUME NEW q \in Proposals, proposal[q] = "accepted" PROVE copies'[q] > 0
        BY <1>1 DEF AcceptedIsWritten
    <2>2. copies[q] > 0 /\ copies[q] \in Int /\ copies'[q] \in Int /\ copies'[q] >= copies[q]
        BY <1>4, <1>5, <2>1 DEF IInv, AcceptedIsWritten
    <2>. QED BY <2>2
<1>. QED BY <1>6, <1>9, <1>10, <1>11, <1>12 DEF IInv

LEMMA UpdateProposalStep ==
    ASSUME IInv, NEW p \in Procs, UpdateProposal(p)
    PROVE  IInv' /\ Grows
<1>1. /\ op[p].at = "update" /\ proposal' = [proposal EXCEPT ![op[p].about] = "accepted"] /\ Return(p)
      /\ UNCHANGED <<sessions, memories, fts, aged, model, hits, copies>>
    BY DEF UpdateProposal, tables
<1>2. hits[p] = NoHits /\ op[p].about \in Proposals /\ copies[op[p].about] > 0
    BY <1>1, Underway DEF Staged, Accepting
<1>3. op' \in [Procs -> Locals] /\ op'[p] = Idle /\ \A r \in Procs \ {p} : op'[r] = op[r]
    BY <1>1, OpReturn DEF IInv
<1>4. proposal \in [Proposals -> {"absent", "pending", "accepted"}] /\ copies \in [Proposals -> 0..MaxCopies]
    BY DEF IInv, TypeOK
<1>5. /\ proposal' \in [Proposals -> {"absent", "pending", "accepted"}]
      /\ \A q \in Proposals : proposal'[q] = "accepted" <=> q = op[p].about \/ proposal[q] = "accepted"
    BY <1>1, <1>2, <1>4
<1>6. Grows
    <2>1. \A q \in Proposals : copies'[q] >= copies[q]
        BY <1>1, <1>4, MemoryAssumption
    <2>. QED BY <1>1, <1>5, <2>1, SessionsStand, MemoriesStand DEF Grows
<1>7. LocalsOK(p)' /\ Knows(p)'
    BY <1>1, <1>2, <1>3, ReturnedKnows
<1>8. TypeOK' /\ \A r \in Procs : Knows(r)'
    <2>1. \A r \in Procs : op[r].at = "index" => memories'[op[r].row].save = "open"
        BY <1>1 DEF IInv, TypeOK, LocalsOK
    <2>. QED BY <1>1, <1>3, <1>5, <1>6, <1>7, <2>1, WriteStep DEF IInv, TypeOK
<1>9. OneOwner' /\ Made' /\ SavedIsIndexed' /\ ConsolidatedIsCovered'
    <2>1. \A r \in Procs : op[r].at = "index" \/ op'[r].at = "index" => op'[r] = op[r]
        BY <1>1, <1>3 DEF Idle
    <2>. QED BY <1>1, <2>1, StandingMemories
<1>10. CompressedIsCovered'
    BY <1>1, StandingSessions, MemoriesStand
<1>11. AcceptedIsWritten'
    BY <1>1, <1>2, <1>5 DEF IInv, AcceptedIsWritten
<1>. QED BY <1>6, <1>8, <1>9, <1>10, <1>11 DEF IInv

LEMMA SourceIsDoing ==
    ASSUME NEW p \in Procs, op[p].doing \in {"save", "compress", "dream"}
    PROVE  Source(p) \in {"agent", "session", "dream"} /\ Doing(Source(p)) = op[p].doing
<1>1. \E s \in {"agent", "session", "dream"} : Doing(s) = op[p].doing
    BY DEF Doing
<1>. QED BY <1>1 DEF Source

LEMMA InsertStep ==
    ASSUME IInv, NEW p \in Procs, Insert(p)
    PROVE  IInv' /\ Grows
<1>. DEFINE made == NewMemory(p)
            n == Len(memories) + 1
<1>1. /\ op[p].at = "insert" /\ Len(memories) < MaxMemories
      /\ memories' = Append(memories, made)
      /\ op' = [op EXCEPT ![p].at = "index", ![p].row = n]
      /\ UNCHANGED <<sessions, fts, aged, model, hits, proposal, copies>>
    BY DEF Insert, skills
<1>2. /\ op[p] \in Locals /\ op[p].doing \in {"save", "compress", "dream"} /\ hits[p] = NoHits
      /\ LocalsOK(p) /\ Staged(p) /\ ReadAll(p)
    BY <1>1, Underway DEF Staged
<1>3. /\ memories \in Seq(Memories) /\ Len(memories) \in Nat /\ DOMAIN memories = 1..Len(memories)
      /\ fts \subseteq DOMAIN memories /\ aged \in 0..Len(memories) /\ model \in Dims
    BY RowNumbers DEF IInv, TypeOK
<1>4. Source(p) \in {"agent", "session", "dream"} /\ Doing(Source(p)) = op[p].doing
    BY <1>2, SourceIsDoing
<1>5. /\ made \in Memories /\ made.source = Source(p) /\ made.of = op[p].batch
      /\ made.shown = Shown(Source(p), op[p].batch) /\ made.save = "open" /\ ~made.consolidated
    <2>1. op[p].batch \in SUBSET Nat
        BY <1>2 DEF Locals
    <2>2. Shown(Source(p), op[p].batch) \in SUBSET op[p].batch
        BY DEF Shown, Newest, Oldest
    <2>3. Shown(Source(p), op[p].batch) \in SUBSET Nat
        BY <2>1, <2>2
    <2>. QED BY <1>3, <1>4, <2>1, <2>3 DEF NewMemory, Memories, Types
<1>. HIDE DEF made
<1>6. /\ memories' \in Seq(Memories) /\ Len(memories') = n
      /\ \A i \in DOMAIN memories : memories'[i] = memories[i]
      /\ memories'[n] = made
    BY <1>1, <1>3, <1>5, AppendProperties
<1>7. DOMAIN memories' = 1..n
    BY <1>6, LenProperties
<1>8. n \in 1..MaxMemories /\ n \notin DOMAIN memories
    BY <1>1, <1>3, MemoryAssumption
<1>9. DOMAIN memories' = DOMAIN memories \cup {n}
    BY <1>3, <1>7
<1>10. aged' \in 0..Len(memories') /\ Len(memories') <= MaxMemories
    BY <1>1, <1>3, <1>6, <1>8
<1>. HIDE DEF n
<1>11. Grows
    <2>1. MemoriesGrow
        BY <1>1, <1>6, <1>9 DEF MemoriesGrow
    <2>. QED BY <1>1, <2>1, SessionsStand, SkillsStand DEF Grows, skills
<1>12. /\ op' \in [Procs -> Locals]
       /\ op'[p].at = "index" /\ op'[p].row = n /\ op'[p].doing = op[p].doing
       /\ op'[p].batch = op[p].batch /\ op'[p].about = op[p].about
       /\ \A r \in Procs \ {p} : op'[r] = op[r]
    <2>. DEFINE locals == [op[p] EXCEPT !.at = "index", !.row = n]
    <2>1. op \in [Procs -> Locals]
        BY DEF IInv, TypeOK
    <2>2. op' = [op EXCEPT ![p] = locals]
        BY <1>1, <2>1
    <2>3. /\ locals \in Locals /\ locals.at = "index" /\ locals.row = n /\ locals.doing = op[p].doing
          /\ locals.batch = op[p].batch /\ locals.about = op[p].about
        <3>1. n \in 0..MaxMemories
            BY <1>8, MemoryAssumption
        <3>. QED BY <1>2, <3>1 DEF Locals
    <2>. HIDE DEF locals
    <2>4. op' \in [Procs -> Locals] /\ op'[p] = locals /\ \A r \in Procs \ {p} : op'[r] = op[r]
        BY <2>2, <2>3, OpSet DEF IInv
    <2>. QED BY <2>3, <2>4
<1>13. LocalsOK(p)'
    <2>1. op'[p].at # "idle" /\ op'[p] # Idle /\ op'[p].doing # "search"
        BY <1>2, <1>12 DEF Idle
    <2>2. op'[p].row \in DOMAIN memories' /\ memories'[op'[p].row].save = "open"
        BY <1>5, <1>6, <1>9, <1>12
    <2>3. /\ op'[p].doing = "dream" => op'[p].batch \subseteq DOMAIN memories'
          /\ op'[p].doing = "compress" => op'[p].batch \subseteq DOMAIN sessions'
        BY <1>1, <1>2, <1>9, <1>12 DEF LocalsOK
    <2>4. hits'[p] = NoHits
        BY <1>1, <1>2
    <2>. QED BY <2>1, <2>2, <2>3, <2>4 DEF LocalsOK
<1>14. Knows(p)'
    BY <1>1, <1>2, <1>4, <1>5, <1>6, <1>9, <1>12 DEF Knows, Staged, Owns, ReadAll, Searching, Accepting, Idle
<1>15. TypeOK' /\ \A r \in Procs : Knows(r)'
    <2>1. \A r \in Procs : op[r].at = "index" => memories'[op[r].row].save = "open"
        BY <1>6 DEF IInv, TypeOK, LocalsOK
    <2>2. fts' \subseteq DOMAIN memories'
        BY <1>1, <1>3, <1>9
    <2>3. \A r \in Procs \ {p} : op'[r] = op[r] /\ hits'[r] = hits[r]
        BY <1>1, <1>12
    <2>. QED BY <1>1, <1>6, <1>10, <1>11, <1>12, <1>13, <1>14, <2>1, <2>2, <2>3, WriteStep
         DEF IInv, TypeOK
<1>16. OneOwner'
    <2>1. \A r \in Procs \ {p} : op'[r].at = "index" => op'[r].row # op'[p].row
        BY <1>8, <1>12 DEF IInv, TypeOK, LocalsOK
    <2>. QED BY <1>12, <2>1 DEF IInv, OneOwner
<1>17. Made'
    <2>1. SUFFICES ASSUME NEW d \in DOMAIN memories', d = n
                   PROVE  /\ IsFiniteSet(memories'[d].of)
                          /\ memories'[d].shown = Shown(memories'[d].source, memories'[d].of)
        BY <1>9, <1>11, MadeKept DEF Grows, Made, Shown
    <2>. QED BY <1>2, <1>5, <1>6, <2>1 DEF Staged
<1>18. SavedIsIndexed'
    <2>1. SUFFICES ASSUME NEW i \in DOMAIN memories', i \notin fts'
                   PROVE  \/ memories'[i].save = "raised"
                          \/ \E r \in Procs : op'[r].at = "index" /\ op'[r].row = i
        BY DEF SavedIsIndexed
    <2>2. CASE i = n
        BY <1>12, <2>2
    <2>3. CASE i \in DOMAIN memories
        <3>1. \/ memories[i].save = "raised"
              \/ \E r \in Procs : op[r].at = "index" /\ op[r].row = i
            BY <1>1, <2>1, <2>3 DEF IInv, SavedIsIndexed
        <3>2. \A r \in Procs : op[r].at = "index" => op'[r] = op[r]
            BY <1>1, <1>12
        <3>. QED BY <1>6, <2>3, <3>1, <3>2
    <2>. QED BY <1>9, <2>2, <2>3
<1>19. ConsolidatedIsCovered'
    <2>1. SUFFICES ASSUME NEW i \in DOMAIN memories', memories'[i].consolidated
                   PROVE  i \in DOMAIN memories /\ memories[i].consolidated
        BY <1>11, EpisodesKept DEF Grows, ConsolidatedIsCovered
    <2>. QED BY <1>5, <1>6, <1>9, <2>1
<1>20. CompressedIsCovered' /\ AcceptedIsWritten'
    BY <1>1, <1>11, StandingSessions DEF IInv, Grows, AcceptedIsWritten
<1>. QED BY <1>11, <1>15, <1>16, <1>17, <1>18, <1>19, <1>20 DEF IInv

(* A save that ends changes how the row of its own ended, and nothing else. *)
LEMMA EndedRow ==
    ASSUME IInv, NEW p \in Procs, NEW how \in {"returned", "raised"}, op[p].at = "index",
           memories' = Ended(p, how)
    PROVE  /\ memories' \in Seq(Memories) /\ Len(memories') = Len(memories)
           /\ DOMAIN memories' = DOMAIN memories
           /\ \A i \in DOMAIN memories :
                 /\ memories'[i].type = memories[i].type
                 /\ memories'[i].source = memories[i].source
                 /\ memories'[i].of = memories[i].of
                 /\ memories'[i].shown = memories[i].shown
                 /\ memories'[i].dim = memories[i].dim
                 /\ memories'[i].consolidated = memories[i].consolidated
                 /\ memories'[i].save = IF i = op[p].row THEN how ELSE memories[i].save
           /\ op[p].row \in DOMAIN memories /\ memories[op[p].row].save = "open"
           /\ \A r \in Procs \ {p} : op[r].at = "index" => memories'[op[r].row].save = "open"
<1>. DEFINE row == op[p].row
            ended == [memories[row] EXCEPT !.save = how]
<1>1. row \in DOMAIN memories /\ memories[row].save = "open"
    BY DEF IInv, TypeOK, LocalsOK
<1>2. /\ memories \in Seq(Memories) /\ DOMAIN memories = 1..Len(memories)
      /\ \A i \in DOMAIN memories : memories[i] \in Memories
    BY RowNumbers DEF IInv, TypeOK
<1>3. memories' = [memories EXCEPT ![row] = ended]
    BY DEF Ended
<1>4. /\ ended \in Memories /\ ended.save = how
      /\ ended.type = memories[row].type /\ ended.source = memories[row].source
      /\ ended.of = memories[row].of /\ ended.shown = memories[row].shown
      /\ ended.dim = memories[row].dim /\ ended.consolidated = memories[row].consolidated
    BY <1>1, <1>2 DEF Memories
<1>. HIDE DEF ended
<1>5. /\ memories' \in Seq(Memories) /\ Len(memories') = Len(memories)
      /\ \A i \in DOMAIN memories : memories'[i] = IF i = row THEN ended ELSE memories[i]
    BY <1>1, <1>2, <1>3, <1>4, ExceptSeq
<1>6. DOMAIN memories' = DOMAIN memories
    BY <1>3
<1>7. ASSUME NEW r \in Procs \ {p}, op[r].at = "index" PROVE memories'[op[r].row].save = "open"
    <2>1. op[r].row \in DOMAIN memories /\ memories[op[r].row].save = "open"
        BY <1>7 DEF IInv, TypeOK, LocalsOK
    <2>2. op[r].row # row
        BY <1>7 DEF IInv, OneOwner
    <2>. QED BY <1>5, <2>1, <2>2
<1>. QED BY <1>1, <1>4, <1>5, <1>6, <1>7

LEMMA EndedGrows ==
    ASSUME IInv, NEW p \in Procs, NEW how \in {"returned", "raised"}, op[p].at = "index",
           memories' = Ended(p, how), fts \subseteq fts'
    PROVE  MemoriesGrow /\ Made' /\ ConsolidatedIsCovered'
<1>1. /\ DOMAIN memories' = DOMAIN memories
      /\ \A i \in DOMAIN memories :
            /\ memories'[i].type = memories[i].type
            /\ memories'[i].source = memories[i].source
            /\ memories'[i].of = memories[i].of
            /\ memories'[i].shown = memories[i].shown
            /\ memories'[i].dim = memories[i].dim
            /\ memories'[i].consolidated = memories[i].consolidated
            /\ memories'[i].save = IF i = op[p].row THEN how ELSE memories[i].save
      /\ memories[op[p].row].save = "open"
    BY EndedRow
<1>2. MemoriesGrow
    BY <1>1 DEF MemoriesGrow
<1>3. Made'
    BY <1>1, <1>2, MadeKept DEF Made, Shown
<1>4. ConsolidatedIsCovered'
    BY <1>1, <1>2, EpisodesKept DEF ConsolidatedIsCovered
<1>. QED BY <1>2, <1>3, <1>4

LEMMA IndexStep ==
    ASSUME IInv, NEW p \in Procs, Index(p)
    PROVE  IInv' /\ Grows
<1>1. /\ op[p].at = "index" /\ fts' = fts \cup {op[p].row}
      /\ memories' = Ended(p, "returned")
      /\ IF op[p].doing = "save" THEN Return(p) ELSE Step(p, "mark")
      /\ UNCHANGED <<sessions, aged, model, hits, proposal, copies>>
    BY DEF Index, skills
<1>2. /\ op[p] # Idle /\ op[p].doing \in {"save", "compress", "dream"} /\ hits[p] = NoHits
      /\ LocalsOK(p) /\ Staged(p) /\ Owns(p) /\ ReadAll(p)
    BY <1>1, Underway DEF Staged
<1>3. /\ memories' \in Seq(Memories) /\ Len(memories') = Len(memories)
      /\ DOMAIN memories' = DOMAIN memories
      /\ \A i \in DOMAIN memories :
            /\ memories'[i].source = memories[i].source
            /\ memories'[i].of = memories[i].of
            /\ memories'[i].save = IF i = op[p].row THEN "returned" ELSE memories[i].save
      /\ op[p].row \in DOMAIN memories
      /\ \A r \in Procs \ {p} : op[r].at = "index" => memories'[op[r].row].save = "open"
    BY <1>1, EndedRow
<1>4. MemoriesGrow /\ Made' /\ ConsolidatedIsCovered'
    BY <1>1, EndedGrows
<1>5. Grows
    BY <1>1, <1>4, SessionsStand, SkillsStand DEF Grows, skills
<1>6. /\ op' \in [Procs -> Locals] /\ \A r \in Procs \ {p} : op'[r] = op[r]
      /\ op'[p].at # "index"
    BY <1>1, OpReturn, OpStep DEF IInv, Idle
<1>7. LocalsOK(p)' /\ Knows(p)'
    <2>1. CASE op[p].doing = "save"
        <3>1. op'[p] = Idle
            BY <1>1, <2>1, OpReturn DEF IInv
        <3>. QED BY <1>1, <1>2, <3>1, ReturnedKnows
    <2>2. CASE op[p].doing # "save"
        <3>1. /\ op'[p].at = "mark" /\ op'[p].doing = op[p].doing
              /\ op'[p].batch = op[p].batch /\ op'[p].row = op[p].row /\ op'[p].about = op[p].about
            BY <1>1, <2>2, OpStep DEF IInv
        <3>2. LocalsOK(p)'
            BY <1>1, <1>2, <1>3, <3>1 DEF LocalsOK, Idle
        <3>3. Owns(p)'
            BY <1>1, <1>2, <1>3, <3>1 DEF Owns
        <3>4. Knows(p)'
            BY <1>1, <1>2, <2>2, <3>1, <3>3 DEF Knows, Staged, ReadAll, Searching, Accepting, Idle
        <3>. QED BY <3>2, <3>4
    <2>. QED BY <2>1, <2>2
<1>8. TypeOK' /\ \A r \in Procs : Knows(r)'
    <2>1. fts' \subseteq DOMAIN memories'
        BY <1>1, <1>3 DEF IInv, TypeOK
    <2>. QED BY <1>1, <1>3, <1>5, <1>6, <1>7, <2>1, SkillsStand, WriteStep DEF IInv, TypeOK, skills
<1>9. OneOwner'
    BY <1>6 DEF IInv, OneOwner
<1>10. SavedIsIndexed'
    <2>1. SUFFICES ASSUME NEW i \in DOMAIN memories, i \notin fts, i # op[p].row
                   PROVE  \/ memories'[i].save = "raised"
                          \/ \E r \in Procs : op'[r].at = "index" /\ op'[r].row = i
        BY <1>1, <1>3 DEF SavedIsIndexed
    <2>2. \/ memories[i].save = "raised"
          \/ \E r \in Procs \ {p} : op[r].at = "index" /\ op[r].row = i
        BY <2>1 DEF IInv, SavedIsIndexed
    <2>. QED BY <1>3, <1>6, <2>1, <2>2
<1>11. CompressedIsCovered' /\ AcceptedIsWritten'
    BY <1>1, <1>4, StandingSessions DEF IInv, AcceptedIsWritten
<1>. QED BY <1>4, <1>5, <1>8, <1>9, <1>10, <1>11 DEF IInv

(* A save that ends between its two inserts leaves a row that only the *)
(* vector search finds.                                                *)
LEMMA RaiseAtIndexStep ==
    ASSUME IInv, NEW p \in Procs, Raise(p), op[p].at = "index"
    PROVE  IInv' /\ Grows
<1>1. /\ memories' = Ended(p, "raised") /\ Return(p)
      /\ UNCHANGED <<sessions, fts, aged, model, hits, proposal, copies>>
    BY Underway, HitsKept DEF Raise, skills, IInv
<1>2. /\ memories' \in Seq(Memories) /\ Len(memories') = Len(memories)
      /\ DOMAIN memories' = DOMAIN memories
      /\ \A i \in DOMAIN memories :
            memories'[i].save = IF i = op[p].row THEN "raised" ELSE memories[i].save
      /\ \A r \in Procs \ {p} : op[r].at = "index" => memories'[op[r].row].save = "open"
    BY <1>1, EndedRow
<1>3. MemoriesGrow /\ Made' /\ ConsolidatedIsCovered'
    BY <1>1, EndedGrows
<1>4. Grows
    BY <1>1, <1>3, SessionsStand, SkillsStand DEF Grows, skills
<1>5. op' \in [Procs -> Locals] /\ op'[p] = Idle /\ \A r \in Procs \ {p} : op'[r] = op[r]
    BY <1>1, OpReturn DEF IInv
<1>6. LocalsOK(p)' /\ Knows(p)'
    <2>1. hits[p] = NoHits
        BY Underway
    <2>. QED BY <1>1, <1>5, <2>1, ReturnedKnows
<1>7. TypeOK' /\ \A r \in Procs : Knows(r)'
    BY <1>1, <1>2, <1>4, <1>5, <1>6, SkillsStand, WriteStep DEF IInv, TypeOK, skills
<1>8. OneOwner'
    BY <1>5 DEF IInv, OneOwner, Idle
<1>9. SavedIsIndexed'
    <2>1. SUFFICES ASSUME NEW i \in DOMAIN memories, i \notin fts, i # op[p].row
                   PROVE  \/ memories'[i].save = "raised"
                          \/ \E r \in Procs : op'[r].at = "index" /\ op'[r].row = i
        BY <1>1, <1>2 DEF SavedIsIndexed
    <2>2. \/ memories[i].save = "raised"
          \/ \E r \in Procs \ {p} : op[r].at = "index" /\ op[r].row = i
        BY <2>1 DEF IInv, SavedIsIndexed
    <2>. QED BY <1>2, <1>5, <2>1, <2>2
<1>10. CompressedIsCovered' /\ AcceptedIsWritten'
    BY <1>1, <1>3, StandingSessions DEF IInv, AcceptedIsWritten
<1>. QED BY <1>3, <1>4, <1>7, <1>8, <1>9, <1>10 DEF IInv

(* The mark of a session covers what its compression read; the rest of the *)
(* session is late or was compressed before.                               *)
LEMMA MarkSessionStep ==
    ASSUME IInv, NEW p \in Procs, MarkSession(p)
    PROVE  IInv' /\ Grows
<1>. DEFINE marked == [m \in DOMAIN sessions |->
                IF sessions[m].session = op[p].about THEN [sessions[m] EXCEPT !.compressed = TRUE]
                                                     ELSE sessions[m]]
<1>1. /\ op[p].at = "mark" /\ op[p].doing = "compress" /\ sessions' = marked /\ Return(p)
      /\ UNCHANGED <<memories, fts, aged, model, hits, proposal, copies>>
    BY DEF MarkSession, skills
<1>2. hits[p] = NoHits /\ Owns(p) /\ ReadAll(p)
    BY <1>1, Underway
<1>3. op' \in [Procs -> Locals] /\ op'[p] = Idle /\ \A r \in Procs \ {p} : op'[r] = op[r]
    BY <1>1, OpReturn DEF IInv
<1>4. /\ sessions \in Seq(Messages) /\ Len(sessions) <= MaxMessages
      /\ \A m \in DOMAIN sessions : sessions[m] \in Messages
    BY RowNumbers DEF IInv, TypeOK
<1>5. \A m \in DOMAIN sessions :
         /\ marked[m] \in Messages
         /\ marked[m].session = sessions[m].session /\ marked[m].late = sessions[m].late
         /\ marked[m].compressed <=> sessions[m].compressed \/ sessions[m].session = op[p].about
    BY <1>4 DEF Messages
<1>6. marked \in [DOMAIN sessions -> Messages]
    BY <1>5
<1>. HIDE DEF marked
<1>7. sessions' \in Seq(Messages) /\ Len(sessions') = Len(sessions) /\ DOMAIN sessions' = DOMAIN sessions
    BY <1>1, <1>4, <1>6, Rewritten
<1>8. Grows
    <2>1. SessionsGrow
        BY <1>1, <1>5, <1>7 DEF SessionsGrow
    <2>. QED BY <1>1, <2>1, MemoriesStand, SkillsStand DEF Grows, skills
<1>9. LocalsOK(p)' /\ Knows(p)'
    BY <1>1, <1>2, <1>3, ReturnedKnows
<1>10. TypeOK' /\ \A r \in Procs : Knows(r)'
    <2>1. \A r \in Procs : op[r].at = "index" => memories'[op[r].row].save = "open"
        BY <1>1 DEF IInv, TypeOK, LocalsOK
    <2>. QED BY <1>1, <1>3, <1>4, <1>7, <1>8, <1>9, <2>1, WriteStep DEF IInv, TypeOK
<1>11. OneOwner' /\ Made' /\ SavedIsIndexed' /\ ConsolidatedIsCovered'
    <2>1. \A r \in Procs : op[r].at = "index" \/ op'[r].at = "index" => op'[r] = op[r]
        BY <1>1, <1>3 DEF Idle
    <2>. QED BY <1>1, <2>1, StandingMemories
<1>12. ASSUME NEW m \in DOMAIN sessions, sessions'[m].compressed, ~sessions[m].compressed
       PROVE  \/ sessions'[m].late
              \/ \E d \in Summaries("session")' :
                    /\ m \in memories'[d].of
                    /\ \/ m \in memories'[d].shown
                       \/ Cardinality({n \in memories'[d].of : n < m}) >= ConvoRoom
    <2>. DEFINE d == op[p].row
    <2>1. CASE sessions[m].late
        BY <1>1, <1>5, <2>1
    <2>2. CASE ~sessions[m].late
        <3>1. /\ d \in DOMAIN memories /\ d \in fts /\ memories[d].save = "returned"
              /\ Doing(memories[d].source) = "compress" /\ memories[d].of = op[p].batch
            BY <1>1, <1>2 DEF Owns
        <3>2. memories[d] \in Memories
            BY <3>1, RowNumbers DEF IInv
        <3>3. memories[d].source = "session"
            BY <3>1, <3>2 DEF Memories, Doing
        <3>4. d \in Summaries("session")'
            BY <1>1, <3>1, <3>3 DEF Summaries
        <3>5. m \in memories[d].of
            BY <1>1, <1>2, <1>5, <1>12, <2>2, <3>1 DEF ReadAll
        <3>6. /\ memories[d].of \in SUBSET Int /\ IsFiniteSet(memories[d].of)
              /\ memories[d].shown = Oldest(ConvoRoom, memories[d].of)
            BY <3>1, <3>2, <3>3 DEF IInv, Made, Shown, Memories
        <3>7. m \in memories[d].shown \/ Cardinality({n \in memories[d].of : n < m}) >= ConvoRoom
            BY <3>5, <3>6, LeftOut, MemoryAssumption
        <3>. QED BY <1>1, <3>4, <3>5, <3>7
    <2>. QED BY <2>1, <2>2
<1>13. CompressedIsCovered'
    <2>1. SUFFICES ASSUME NEW m \in DOMAIN sessions, sessions'[m].compressed
                   PROVE  \/ sessions'[m].late
                          \/ \E d \in Summaries("session")' :
                                /\ m \in memories'[d].of
                                /\ \/ m \in memories'[d].shown
                                   \/ Cardinality({n \in memories'[d].of : n < m}) >= ConvoRoom
        BY <1>7 DEF CompressedIsCovered
    <2>. QED BY <1>8, <1>12, <2>1, MessagesKept DEF Grows
<1>14. AcceptedIsWritten'
    BY <1>1 DEF IInv, AcceptedIsWritten
<1>. QED BY <1>8, <1>10, <1>11, <1>13, <1>14 DEF IInv

(* The mark of a dream falls on its batch, of which its saved row is made. *)
LEMMA MarkEpisodesStep ==
    ASSUME IInv, NEW p \in Procs, MarkEpisodes(p)
    PROVE  IInv' /\ Grows
<1>. DEFINE marked == [i \in DOMAIN memories |->
                IF i \in op[p].batch THEN [memories[i] EXCEPT !.consolidated = TRUE] ELSE memories[i]]
<1>1. /\ op[p].at = "mark" /\ op[p].doing = "dream" /\ memories' = marked /\ Return(p)
      /\ UNCHANGED <<sessions, fts, aged, model, hits, proposal, copies>>
    BY DEF MarkEpisodes, skills
<1>2. hits[p] = NoHits /\ Owns(p)
    BY <1>1, Underway
<1>3. op' \in [Procs -> Locals] /\ op'[p] = Idle /\ \A r \in Procs \ {p} : op'[r] = op[r]
    BY <1>1, OpReturn DEF IInv
<1>4. /\ memories \in Seq(Memories) /\ Len(memories) <= MaxMemories
      /\ \A i \in DOMAIN memories : memories[i] \in Memories
    BY RowNumbers DEF IInv, TypeOK
<1>5. \A i \in DOMAIN memories :
         /\ marked[i] \in Memories
         /\ marked[i].type = memories[i].type /\ marked[i].source = memories[i].source
         /\ marked[i].of = memories[i].of /\ marked[i].shown = memories[i].shown
         /\ marked[i].dim = memories[i].dim /\ marked[i].save = memories[i].save
         /\ marked[i].consolidated <=> memories[i].consolidated \/ i \in op[p].batch
    BY <1>4 DEF Memories
<1>6. marked \in [DOMAIN memories -> Memories]
    BY <1>5
<1>. HIDE DEF marked
<1>7. memories' \in Seq(Memories) /\ Len(memories') = Len(memories) /\ DOMAIN memories' = DOMAIN memories
    BY <1>1, <1>4, <1>6, Rewritten
<1>8. Grows
    <2>1. MemoriesGrow
        BY <1>1, <1>5, <1>7 DEF MemoriesGrow
    <2>. QED BY <1>1, <2>1, SessionsStand, SkillsStand DEF Grows, skills
<1>9. LocalsOK(p)' /\ Knows(p)'
    BY <1>1, <1>2, <1>3, ReturnedKnows
<1>10. TypeOK' /\ \A r \in Procs : Knows(r)'
    <2>1. \A r \in Procs : op[r].at = "index" => memories'[op[r].row].save = "open"
        BY <1>1, <1>5 DEF IInv, TypeOK, LocalsOK
    <2>. QED BY <1>1, <1>3, <1>4, <1>7, <1>8, <1>9, <2>1, WriteStep DEF IInv, TypeOK
<1>11. OneOwner' /\ Made'
    <2>1. OneOwner'
        BY <1>3 DEF IInv, OneOwner, Idle
    <2>. QED BY <1>7, <1>8, <2>1, MadeKept DEF Grows, Made, Shown
<1>12. SavedIsIndexed'
    BY <1>1, <1>3, <1>5, <1>7 DEF IInv, SavedIsIndexed
<1>13. ASSUME NEW i \in DOMAIN memories, memories'[i].consolidated, ~memories[i].consolidated
       PROVE  \E d \in Summaries("dream")' :
                 /\ i \in memories'[d].of
                 /\ \/ i \in memories'[d].shown
                    \/ Cardinality({j \in memories'[d].of : j > i}) >= PromptRoom
    <2>. DEFINE d == op[p].row
    <2>1. /\ d \in DOMAIN memories /\ d \in fts /\ memories[d].save = "returned"
          /\ Doing(memories[d].source) = "dream" /\ memories[d].of = op[p].batch
        BY <1>1, <1>2 DEF Owns
    <2>2. memories[d] \in Memories
        BY <1>4, <2>1
    <2>3. memories[d].source = "dream"
        BY <2>1, <2>2 DEF Memories, Doing
    <2>4. /\ d \in Summaries("dream")'
          /\ memories'[d].of = memories[d].of /\ memories'[d].shown = memories[d].shown
        <3>1. d \in Summaries("dream")
            BY <2>1, <2>3 DEF Summaries
        <3>. QED BY <1>8, <3>1, SummariesKept DEF Grows
    <2>5. i \in memories[d].of
        BY <1>1, <1>5, <1>13, <2>1
    <2>6. /\ memories[d].of \in SUBSET Int /\ IsFiniteSet(memories[d].of)
          /\ memories[d].shown = Newest(PromptRoom, memories[d].of)
        BY <2>1, <2>2, <2>3 DEF IInv, Made, Shown, Memories
    <2>7. i \in memories[d].shown \/ Cardinality({j \in memories[d].of : j > i}) >= PromptRoom
        BY <2>5, <2>6, LeftOut, MemoryAssumption
    <2>. QED BY <2>4, <2>5, <2>7
<1>14. ConsolidatedIsCovered'
    <2>1. SUFFICES ASSUME NEW i \in DOMAIN memories, memories'[i].consolidated
                   PROVE  \E d \in Summaries("dream")' :
                             /\ i \in memories'[d].of
                             /\ \/ i \in memories'[d].shown
                                \/ Cardinality({j \in memories'[d].of : j > i}) >= PromptRoom
        BY <1>7 DEF ConsolidatedIsCovered
    <2>. QED BY <1>8, <1>13, <2>1, EpisodesKept DEF Grows
<1>15. CompressedIsCovered' /\ AcceptedIsWritten'
    BY <1>1, <1>8, StandingSessions DEF IInv, Grows, AcceptedIsWritten
<1>. QED BY <1>8, <1>10, <1>11, <1>12, <1>14, <1>15 DEF IInv

-----------------------------------------------------------------------------
(* Dreams. *)

(* One dream at a time, of episodes that no dream has consolidated. *)
DreamsApart ==
    /\ \A p, r \in Procs : op[p].doing = "dream" /\ op[r].doing = "dream" => p = r
    /\ \A p \in Procs : op[p].doing = "dream" =>
          \A i \in op[p].batch : memories[i].type = "episodic" /\ ~memories[i].consolidated

(* It takes a dream that starts, or a mark, to disturb that. *)
LEMMA DreamsGoOn ==
    ASSUME IInv, DreamsApart,
           \A r \in Procs : op'[r].doing = "dream" => op[r].doing = "dream" /\ op'[r].batch = op[r].batch,
           \A i \in DOMAIN memories :
              memories'[i].type = memories[i].type /\ memories'[i].consolidated = memories[i].consolidated
    PROVE  DreamsApart'
<1>1. \A r \in Procs : op[r].doing = "dream" => op[r].batch \subseteq DOMAIN memories
    BY DEF IInv, TypeOK, LocalsOK
<1>. QED BY <1>1 DEF DreamsApart

LEMMA Appended ==
    ASSUME NEW S, NEW s \in Seq(S), NEW e
    PROVE  \A i \in DOMAIN s : Append(s, e)[i] = s[i]
<1>1. s \in Seq(S \cup {e}) /\ e \in S \cup {e}
    BY SeqMonotonic
<1>2. \A i \in 1..Len(s) : Append(s, e)[i] = s[i]
    BY <1>1, AppendProperties
<1>. QED BY <1>2, LenProperties

LEMMA NextApart ==
    ASSUME IInv, DreamsApart, [Next]_vars
    PROVE  DreamsApart'
<1>1. ASSUME NEW p \in Procs, Return(p), UNCHANGED memories PROVE DreamsApart'
    <2>1. op'[p] = Idle /\ \A r \in Procs \ {p} : op'[r] = op[r]
        BY <1>1, OpReturn DEF IInv
    <2>. QED BY <1>1, <2>1, DreamsGoOn DEF Idle
<1>2. ASSUME NEW p \in Procs, NEW at \in {"embed", "insert", "mark", "vector", "keyword", "fused", "update"},
             Step(p, at), UNCHANGED memories
      PROVE  DreamsApart'
    <2>1. /\ op'[p].doing = op[p].doing /\ op'[p].batch = op[p].batch
          /\ \A r \in Procs \ {p} : op'[r] = op[r]
        BY <1>2, OpStep DEF IInv
    <2>. QED BY <1>2, <2>1, DreamsGoOn
<1>3. ASSUME UNCHANGED <<op, memories>> PROVE DreamsApart'
    BY <1>3, DreamsGoOn
<1>4. ASSUME NEW p \in Procs, NEW locals, op[p] = Idle, op' = [op EXCEPT ![p] = locals],
             locals.doing # "dream", UNCHANGED memories
      PROVE  DreamsApart'
    <2>1. op'[p] = locals /\ \A r \in Procs \ {p} : op'[r] = op[r]
        BY <1>4 DEF IInv, TypeOK
    <2>. QED BY <1>4, <2>1, DreamsGoOn
<1>5. ASSUME NEW p \in Procs, Save(p) PROVE DreamsApart'
    <2>. DEFINE locals == [Idle EXCEPT !.doing = "save", !.at = "embed"]
    <2>1. op[p] = Idle /\ op' = [op EXCEPT ![p] = locals] /\ UNCHANGED memories
        BY <1>5 DEF Save, tables
    <2>2. locals.doing # "dream"
        BY DEF Idle
    <2>. HIDE DEF locals
    <2>. QED BY <1>4, <2>1, <2>2
<1>6. ASSUME NEW p \in Procs, NEW s \in Sessions, Compress(p, s) PROVE DreamsApart'
    <2>. DEFINE locals == [Idle EXCEPT !.doing = "compress", !.at = "ask",
                                       !.batch = OpenMessages(s), !.about = s]
    <2>1. op[p] = Idle /\ op' = [op EXCEPT ![p] = locals] /\ UNCHANGED memories
        BY <1>6 DEF Compress, tables
    <2>2. locals.doing # "dream"
        BY DEF Idle
    <2>. HIDE DEF locals
    <2>. QED BY <1>4, <2>1, <2>2
<1>7. ASSUME NEW p \in Procs, NEW q \in Proposals, Accept(p, q) PROVE DreamsApart'
    <2>. DEFINE locals == [Idle EXCEPT !.doing = "accept", !.at = "append", !.about = q]
    <2>1. op[p] = Idle /\ op' = [op EXCEPT ![p] = locals] /\ UNCHANGED memories
        BY <1>7 DEF Accept, tables
    <2>2. locals.doing # "dream"
        BY DEF Idle
    <2>. HIDE DEF locals
    <2>. QED BY <1>4, <2>1, <2>2
<1>8. ASSUME NEW p \in Procs, Search(p) PROVE DreamsApart'
    <2>. DEFINE locals == [Idle EXCEPT !.doing = "search", !.at = "query"]
    <2>1. op[p] = Idle /\ op' = [op EXCEPT ![p] = locals] /\ UNCHANGED memories
        BY <1>8 DEF Search, tables
    <2>2. locals.doing # "dream"
        BY DEF Idle
    <2>. HIDE DEF locals
    <2>. QED BY <1>4, <2>1, <2>2
<1>9. ASSUME NEW p \in Procs, Dream(p) PROVE DreamsApart'
    <2>. DEFINE locals == [Idle EXCEPT !.doing = "dream", !.at = "ask", !.batch = Episodes]
    <2>1. /\ op[p] = Idle /\ op' = [op EXCEPT ![p] = locals] /\ UNCHANGED memories
          /\ \A r \in Procs : op[r].doing # "dream"
        BY <1>9 DEF Dream, tables
    <2>2. locals.batch = Episodes
        BY DEF Idle
    <2>. HIDE DEF locals
    <2>3. op'[p] = locals /\ \A r \in Procs \ {p} : op'[r] = op[r]
        BY <2>1 DEF IInv, TypeOK
    <2>4. \A i \in Episodes : memories[i].type = "episodic" /\ ~memories[i].consolidated
        BY DEF Episodes, Newest
    <2>. QED BY <2>1, <2>2, <2>3, <2>4 DEF DreamsApart
<1>10. ASSUME NEW p \in Procs, \/ Embed(p) \/ Ask(p) \/ AppendSkill(p)
                               \/ \E cutoff \in {0, aged} : EmbedQuery(p, cutoff)
                               \/ VectorSearch(p) \/ KeywordSearch(p)
       PROVE  DreamsApart'
    <2>1. \/ Return(p)
          \/ \E at \in {"embed", "insert", "mark", "vector", "keyword", "fused", "update"} : Step(p, at)
        BY <1>10 DEF Embed, Ask, EmbedQuery, VectorSearch, KeywordSearch, AppendSkill
    <2>2. UNCHANGED memories
        BY <1>10 DEF Embed, Ask, EmbedQuery, VectorSearch, KeywordSearch, AppendSkill, tables
    <2>. QED BY <1>1, <1>2, <2>1, <2>2
<1>11. ASSUME NEW p \in Procs, MarkSession(p) \/ SearchReturns(p) \/ UpdateProposal(p) PROVE DreamsApart'
    BY <1>1, <1>11 DEF MarkSession, SearchReturns, UpdateProposal, tables
<1>12. ASSUME NEW p \in Procs, Insert(p) PROVE DreamsApart'
    <2>1. /\ op' = [op EXCEPT ![p].at = "index", ![p].row = Len(memories) + 1]
          /\ memories' = Append(memories, NewMemory(p))
        BY <1>12 DEF Insert
    <2>2. \A i \in DOMAIN memories : memories'[i] = memories[i]
        BY <2>1, Appended DEF IInv, TypeOK
    <2>3. \A r \in Procs : op'[r].doing = op[r].doing /\ op'[r].batch = op[r].batch
        <3>1. op \in [Procs -> Locals] /\ op[p] \in Locals
            BY DEF IInv, TypeOK
        <3>. QED BY <2>1, <3>1 DEF Locals
    <2>. QED BY <2>2, <2>3, DreamsGoOn
<1>13. ASSUME NEW p \in Procs, op[p].at = "index", NEW how \in {"returned", "raised"},
              memories' = Ended(p, how), Return(p) \/ Step(p, "mark")
       PROVE  DreamsApart'
    <2>1. \A i \in DOMAIN memories :
             memories'[i].type = memories[i].type /\ memories'[i].consolidated = memories[i].consolidated
        BY <1>13, EndedRow
    <2>2. CASE Return(p)
        <3>1. op'[p] = Idle /\ \A r \in Procs \ {p} : op'[r] = op[r]
            BY <2>2, OpReturn DEF IInv
        <3>. QED BY <2>1, <3>1, DreamsGoOn DEF Idle
    <2>3. CASE Step(p, "mark")
        <3>1. /\ op'[p].doing = op[p].doing /\ op'[p].batch = op[p].batch
              /\ \A r \in Procs \ {p} : op'[r] = op[r]
            BY <2>3, OpStep DEF IInv
        <3>. QED BY <2>1, <3>1, DreamsGoOn
    <2>. QED BY <1>13, <2>2, <2>3
<1>14. ASSUME NEW p \in Procs, Index(p) \/ Raise(p) PROVE DreamsApart'
    <2>1. CASE Index(p)
        BY <1>13, <2>1 DEF Index
    <2>2. CASE Raise(p) /\ op[p].at = "index"
        BY <1>13, <2>2 DEF Raise
    <2>3. CASE Raise(p) /\ op[p].at # "index"
        BY <1>1, <2>3 DEF Raise
    <2>. QED BY <1>14, <2>1, <2>2, <2>3
<1>15. ASSUME NEW p \in Procs, MarkEpisodes(p) PROVE DreamsApart'
    <2>1. op[p].doing = "dream" /\ Return(p)
        BY <1>15 DEF MarkEpisodes
    <2>2. op'[p] = Idle /\ \A r \in Procs \ {p} : op'[r] = op[r]
        BY <2>1, OpReturn DEF IInv
    <2>3. \A r \in Procs : op'[r].doing # "dream"
        BY <2>1, <2>2 DEF DreamsApart, Idle
    <2>. QED BY <2>3 DEF DreamsApart
<1>16. CASE \/ Age \/ Reconfigure \/ UNCHANGED vars
            \/ \E s \in Sessions : SaveMessage(s)
            \/ \E q \in Proposals : Propose(q)
    BY <1>3, <1>16 DEF Age, Reconfigure, vars, SaveMessage, Propose, tables
<1>. QED BY <1>5, <1>6, <1>7, <1>8, <1>9, <1>10, <1>11, <1>12, <1>14, <1>15, <1>16
     DEF Next, SaveSteps, MarkSteps, SearchSteps, SkillSteps

-----------------------------------------------------------------------------
(* The theorems. *)

LEMMA Initially ==
    ASSUME Init
    PROVE  IInv
<1>1. /\ sessions = <<>> /\ memories = <<>> /\ fts = {} /\ aged = 0 /\ model \in Dims
      /\ op = [p \in Procs |-> Idle] /\ hits = [p \in Procs |-> NoHits]
      /\ proposal = [q \in Proposals |-> "absent"] /\ copies = [q \in Proposals |-> 0]
    BY DEF Init
<1>2. /\ sessions \in Seq(Messages) /\ memories \in Seq(Memories)
      /\ Len(sessions) = 0 /\ Len(memories) = 0 /\ DOMAIN sessions = {} /\ DOMAIN memories = {}
    BY <1>1, EmptySeq
<1>3. \A n \in {MaxMessages, MaxMemories, MaxCopies} : n \in Nat
    BY MemoryAssumption
<1>4. op \in [Procs -> Locals] /\ hits \in [Procs -> Results]
    BY <1>1, IdleIsLocals, NoHitsIsResults
<1>5. \A p \in Procs : LocalsOK(p) /\ Knows(p)
    BY <1>1, FS_EmptySet DEF LocalsOK, Knows, Staged, Owns, ReadAll, Searching, Accepting, Idle
<1>6. /\ proposal \in [Proposals -> {"absent", "pending", "accepted"}]
      /\ copies \in [Proposals -> 0..MaxCopies]
    BY <1>1, <1>3
<1>7. TypeOK
    <2>1. Len(sessions) <= MaxMessages /\ Len(memories) <= MaxMemories /\ aged \in 0..Len(memories)
        BY <1>1, <1>2, <1>3
    <2>2. fts \subseteq DOMAIN memories
        BY <1>1
    <2>. QED BY <1>1, <1>2, <1>4, <1>5, <1>6, <2>1, <2>2 DEF TypeOK
<1>8. OneOwner /\ Made /\ SavedIsIndexed
    BY <1>1, <1>2 DEF OneOwner, Made, SavedIsIndexed, Idle
<1>9. ConsolidatedIsCovered /\ CompressedIsCovered /\ AcceptedIsWritten
    BY <1>1, <1>2 DEF ConsolidatedIsCovered, CompressedIsCovered, AcceptedIsWritten
<1>. QED BY <1>5, <1>7, <1>8, <1>9 DEF IInv

LEMMA NextStep ==
    ASSUME IInv, Next
    PROVE  IInv' /\ Grows
<1>1. CASE \E s \in Sessions : SaveMessage(s)
    BY <1>1, SaveMessageStep
<1>2. CASE Age \/ Reconfigure
    BY <1>2, AgeStep, ReconfigureStep
<1>3. ASSUME NEW p \in Procs, SaveSteps(p) \/ MarkSteps(p) PROVE IInv' /\ Grows
    BY <1>3, SaveStep, EmbedStep, InsertStep, IndexStep, DreamStep, AskStep, MarkSessionStep, MarkEpisodesStep
    DEF SaveSteps, MarkSteps
<1>4. ASSUME NEW p \in Procs, SearchSteps(p) \/ SkillSteps(p) PROVE IInv' /\ Grows
    BY <1>4, SearchStep, EmbedQueryStep, VectorSearchStep, KeywordSearchStep, SearchReturnsStep,
       AppendSkillStep, UpdateProposalStep
    DEF SearchSteps, SkillSteps
<1>5. ASSUME NEW p \in Procs, Raise(p) PROVE IInv' /\ Grows
    BY <1>5, RaiseStep, RaiseAtIndexStep
<1>6. ASSUME NEW p \in Procs, NEW s \in Sessions, Compress(p, s) PROVE IInv' /\ Grows
    BY <1>6, CompressStep
<1>7. ASSUME NEW p \in Procs, NEW q \in Proposals, Accept(p, q) PROVE IInv' /\ Grows
    BY <1>7, AcceptStep
<1>8. CASE \E q \in Proposals : Propose(q)
    BY <1>8, ProposeStep
<1>. QED BY <1>1, <1>2, <1>3, <1>4, <1>5, <1>6, <1>7, <1>8 DEF Next

(* A stutter changes nothing. *)
LEMMA Stutter ==
    ASSUME IInv, UNCHANGED vars
    PROVE  IInv' /\ Grows
<1>1. UNCHANGED <<sessions, memories, fts, aged, model, op, hits, proposal, copies>>
    BY DEF vars
<1>2. Grows
    BY <1>1, SessionsStand, MemoriesStand, SkillsStand DEF Grows, skills
<1>3. TypeOK' /\ \A r \in Procs : Knows(r)'
    <2>1. \A r \in Procs : op[r].at = "index" => memories'[op[r].row].save = "open"
        BY <1>1 DEF IInv, TypeOK, LocalsOK
    <2>. QED BY <1>1, <1>2, <2>1, WriteStep DEF IInv, TypeOK
<1>4. OneOwner' /\ Made' /\ SavedIsIndexed' /\ ConsolidatedIsCovered'
    BY <1>1, StandingMemories
<1>5. CompressedIsCovered' /\ AcceptedIsWritten'
    BY <1>1, StandingSessions, MemoriesStand DEF IInv, AcceptedIsWritten
<1>. QED BY <1>2, <1>3, <1>4, <1>5 DEF IInv

(* IInv holds in every state: what each coroutine knows at each of its      *)
(* stages, whatever the others do between two of its awaits.                *)
THEOREM Invariance == Spec => []IInv
<1>1. Init => IInv
    BY Initially
<1>2. IInv /\ [Next]_vars => IInv'
    BY NextStep, Stutter
<1>. QED BY <1>1, <1>2, PTL DEF Spec

(* The tables, the index and every coroutine's locals have their types. *)
THEOREM TypeCorrect == Spec => []TypeOK
<1>1. IInv => TypeOK
    BY DEF IInv
<1>. QED BY <1>1, Invariance, PTL

(* A memory outside the full-text index belongs to a save that raised       *)
(* between its two inserts, or is still there (store.py:165-175).           *)
THEOREM Indexed == Spec => []SavedIsIndexed
<1>1. IInv => SavedIsIndexed
    BY DEF IInv
<1>. QED BY <1>1, Invariance, PTL

(* No episode is marked consolidated without a saved dream made of it, that *)
(* showed it to the model or whose prompt newer ones had filled             *)
(* (store.py:400-443).                                                      *)
THEOREM Consolidated == Spec => []ConsolidatedIsCovered
<1>1. IInv => ConsolidatedIsCovered
    BY DEF IInv
<1>. QED BY <1>1, Invariance, PTL

(* No message is compressed away without a saved summary of it, unless it   *)
(* arrived while its session was compressed (store.py:349-384).             *)
THEOREM Compressed == Spec => []CompressedIsCovered
<1>1. IInv => CompressedIsCovered
    BY DEF IInv
<1>. QED BY <1>1, Invariance, PTL

(* A search that answers, whatever is saved between its awaits and whatever *)
(* the rankings of at most 60 places, returns as many memories as it may,   *)
(* prefers those that both branches found, and owes each of them to a       *)
(* vector of the model in use inside the cut-off or to the full-text index  *)
(* (store.py:201-271).                                                      *)
THEOREM Sound == Spec => []SearchIsSound
<1>1. ASSUME IInv, NEW p \in Procs, op[p].at = "fused" PROVE SoundResult(hits[p])
    <2>1. Searching(p)
        BY <1>1, SearchUnderway
    <2>. QED BY <1>1, <2>1 DEF Searching, FusedOf, SoundResult
<1>2. IInv => SearchIsSound
    BY <1>1 DEF SearchIsSound
<1>. QED BY <1>2, Invariance, PTL

(* A proposal is accepted only once its text is in the file, whatever       *)
(* requests overlap (main.py:352-370).                                      *)
THEOREM Written == Spec => []AcceptedIsWritten
<1>1. IInv => AcceptedIsWritten
    BY DEF IInv
<1>. QED BY <1>1, Invariance, PTL

(* No step takes a row away, rewrites it or takes back a mark, an index     *)
(* entry or an acceptance: what a coroutine read stays true over its        *)
(* awaits, save for the messages that come late.                            *)
THEOREM AppendOnly == Spec => [][Grows]_vars
<1>1. IInv /\ [Next]_vars => [Grows]_vars
    BY NextStep
<1>. QED BY <1>1, Invariance, PTL DEF Spec

(* There is one dream at a time and it is of episodes that no dream has     *)
(* consolidated: no episode is consolidated into two of the dreams that     *)
(* come to their end (store.py:400-443, kairos.py:244).                     *)
THEOREM DreamtOnce == Spec => []DreamsApart
<1>1. Init => DreamsApart
    BY DEF Init, DreamsApart, Idle
<1>2. IInv /\ DreamsApart /\ [Next]_vars => DreamsApart'
    BY NextApart
<1>. QED BY <1>1, <1>2, Invariance, PTL DEF Spec

=============================================================================
