------------------------------- MODULE Memory -------------------------------
(***************************************************************************)
(* The persistent memory (memory/store.py, memory/embeddings.py) and the   *)
(* skill proposals (api/main.py): the tables sessions, memories,           *)
(* memories_fts and skill_proposals, and the coroutines that read them,    *)
(* wait for a model or another database call, and write on the strength    *)
(* of what they read:                                                      *)
(*   save      save_memory called by an agent or a tool;                   *)
(*   compress  compress_session, which summarises a session;               *)
(*   dream     run_auto_dream, which consolidates episodes;                *)
(*   search    search_memories, two reads and their fusion;                *)
(*   accept    POST /skill_proposals/{id}/accept.                          *)
(* A row of a table is its position in a sequence, oldest first. A         *)
(* coroutine whose await raises, is cancelled or dies with its process     *)
(* leaves behind what it wrote.                                            *)
(***************************************************************************)
EXTENDS Rows, Sequences, Functions, FiniteSetsExt

CONSTANTS Procs,        \* coroutines
          Sessions,     \* session identifiers
          Proposals,    \* identifiers of skill proposals
          Dims,         \* lengths of the vectors of the embedding models to
          Zero,         \* choose from; the provider of zero vectors only
          MinMessages,  \* 4: a shorter session is not compressed
          ConvoRoom,    \* messages whose 500 characters fit in convo[:8000]
          BatchLimit,   \* 50: episodes of one dream
          PromptRoom,   \* episodes whose 500 characters fit in batch_text[:6000]
          VectorLimit,  \* 1000: memories the vector search looks at
          TopK,         \* results asked of a search
          MaxMessages, MaxMemories, MaxCopies, MaxAged,  \* bounds of the exploration:
          MaxKinds      \* rows, and kinds of operation in one state

ASSUME MemoryAssumption ==
    /\ \A n \in {MinMessages, ConvoRoom, BatchLimit, PromptRoom, VectorLimit, TopK} :
          n \in Nat \ {0}
    /\ PromptRoom <= BatchLimit
    /\ TopK <= 30   \* so that a memory found twice outranks one found once
    /\ Zero \in Dims
    /\ \A n \in {MaxMessages, MaxMemories, MaxCopies} : n \in Nat

VARIABLES sessions,  \* messages: session, compressed, and late (see SaveMessage)
          memories,  \* long-term memories
          fts,       \* the memories in the full-text index
          aged,      \* the first so many memories are older than the cut-off
          model,     \* dimension of the embedding model in use
          op,        \* the coroutine's locals
          hits,      \* a search's locals and result
          proposal,  \* status of each proposal
          copies     \* times its text is in SKILL.md

vars == <<sessions, memories, fts, aged, model, op, hits, proposal, copies>>
tables == <<sessions, memories, fts, aged, model>>
skills == <<proposal, copies>>

Idle == [doing |-> "nothing", at |-> "idle", batch |-> {}, row |-> 0, about |-> "none"]

(* Results of a search: rankings of each branch, their fusion; or vectors   *)
(* of different lengths.                                                    *)
NoHits == [cutoff |-> 0, vector |-> <<>>, keyword |-> <<>>, found |-> {}, raised |-> FALSE]

Types == {"episodic", "semantic"}
Messages == [session : Sessions, compressed : BOOLEAN, late : BOOLEAN]
Rankings == {s \in UNION {[1..n -> 1..MaxMemories] : n \in 0..2*TopK} : IsInjective(s)}

Memories ==
    [type : Types,                          \* memory_type
     source : {"agent", "session", "dream"},
     of : SUBSET Nat,                       \* the rows read to make it,
     shown : SUBSET Nat,                    \* those the model was shown
     dim : Dims,                            \* length of its embedding, or Zero
     save : {"open", "returned", "raised"}, \* how its save_memory ended
     consolidated : BOOLEAN]

Locals ==
    [doing : {"nothing", "save", "compress", "dream", "search", "accept"},
     at : {"idle", "ask", "embed", "insert", "index", "mark",
           "query", "vector", "keyword", "fused", "append", "update"},
     batch : SUBSET Nat,
     row : 0..MaxMemories,
     about : Sessions \cup Proposals \cup {"none"}]

Results ==
    [cutoff : 0..MaxMemories, vector : Rankings, keyword : Rankings,
     found : SUBSET (1..MaxMemories), raised : BOOLEAN]

LocalsOK(p) ==
    /\ op[p].at = "idle" <=> op[p] = Idle
    /\ op[p].at = "index" => op[p].row \in DOMAIN memories /\ memories[op[p].row].save = "open"
    /\ op[p].doing = "dream" => op[p].batch \subseteq DOMAIN memories
    /\ op[p].doing = "compress" => op[p].batch \subseteq DOMAIN sessions
    /\ op[p].doing # "search" => hits[p] = NoHits

TypeOK ==
    /\ sessions \in Seq(Messages) /\ Len(sessions) <= MaxMessages
    /\ memories \in Seq(Memories) /\ Len(memories) <= MaxMemories
    /\ fts \subseteq DOMAIN memories
    /\ aged \in 0..Len(memories)
    /\ model \in Dims
    /\ op \in [Procs -> Locals]
    /\ hits \in [Procs -> Results]
    /\ \A p \in Procs : LocalsOK(p)
    /\ proposal \in [Proposals -> {"absent", "pending", "accepted"}]
    /\ copies \in [Proposals -> 0..MaxCopies]

Init ==
    /\ sessions = <<>> /\ memories = <<>> /\ fts = {} /\ aged = 0
    /\ model \in Dims
    /\ op = [p \in Procs |-> Idle]
    /\ hits = [p \in Procs |-> NoHits]
    /\ proposal = [q \in Proposals |-> "absent"]
    /\ copies = [q \in Proposals |-> 0]

-----------------------------------------------------------------------------
(* Rows. *)

(* SELECT ... WHERE session_id=? AND compressed=0. *)
OpenMessages(s) == {m \in DOMAIN sessions : sessions[m].session = s /\ ~sessions[m].compressed}

(* SELECT ... memory_type='episodic' AND consolidated=0 AND created_at > ?. *)
Episodes ==
    Newest(BatchLimit, {i \in DOMAIN memories :
        memories[i].type = "episodic" /\ ~memories[i].consolidated /\ i > aged})

(* What of a batch the model is shown, each text cut to 500 characters: a   *)
(* dream's newest episodes, a session's oldest messages.                    *)
Shown(source, batch) ==
    IF source = "dream" THEN Newest(PromptRoom, batch) ELSE Oldest(ConvoRoom, batch)

Compressing(s) == \E p \in Procs : op[p].doing = "compress" /\ op[p].about = s

(* Who calls save_memory for a memory of a source. *)
Doing(source) ==
    CASE source = "agent"   -> "save"
      [] source = "session" -> "compress"
      [] source = "dream"   -> "dream"

(* The bound MaxKinds: the kinds of operation under way or to be seen in    *)
(* the tables are few enough for one more.                                  *)
Kinds ==
    {op[p].doing : p \in {r \in Procs : op[r] # Idle}}
      \cup {Doing(memories[i].source) : i \in DOMAIN memories}
      \cup {"compress" : m \in DOMAIN sessions}
      \cup {"accept" : q \in {r \in Proposals : proposal[r] # "absent"}}

RoomFor(kind) == Cardinality(Kinds \cup {kind}) <= MaxKinds

Step(p, at) == op' = [op EXCEPT ![p].at = at]
Return(p) == op' = [op EXCEPT ![p] = Idle]

(* One call of save_session_message. A message that arrives while the       *)
(* session is being compressed is remembered as late.                       *)
SaveMessage(s) ==
    /\ RoomFor("compress")
    /\ Len(sessions) < MaxMessages
    /\ sessions' = Append(sessions, [session |-> s, compressed |-> FALSE, late |-> Compressing(s)])
    /\ UNCHANGED <<memories, fts, aged, model, op, hits, skills>>

(* Time passes: the oldest memory inside the cut-off leaves it. *)
Age ==
    /\ aged < Len(memories) /\ aged < MaxAged
    /\ aged' = aged + 1
    /\ UNCHANGED <<sessions, memories, fts, model, op, hits, skills>>

(* A restart with another embed_provider in the environment, explored where *)
(* a search may follow.                                                     *)
Reconfigure ==
    /\ RoomFor("search")
    /\ \A p \in Procs : op[p] = Idle
    /\ \E d \in Dims \ {model} : model' = d
    /\ UNCHANGED <<sessions, memories, fts, aged, op, hits, skills>>

-----------------------------------------------------------------------------
(* save_memory: embed, insert, index, each an await of its own. *)

Save(p) ==
    /\ op[p] = Idle /\ RoomFor("save")
    /\ op' = [op EXCEPT ![p] = [Idle EXCEPT !.doing = "save", !.at = "embed"]]
    /\ UNCHANGED <<tables, hits, skills>>

Embed(p) ==
    /\ op[p].at = "embed"
    /\ Step(p, "insert")
    /\ UNCHANGED <<tables, hits, skills>>

Source(p) == CHOOSE s \in {"agent", "session", "dream"} : Doing(s) = op[p].doing

NewMemory(p) ==
    [type |-> IF op[p].doing = "save" THEN "episodic" ELSE "semantic",
     source |-> Source(p), of |-> op[p].batch,
     shown |-> Shown(Source(p), op[p].batch), dim |-> model, save |-> "open", consolidated |-> FALSE]

Insert(p) ==
    /\ op[p].at = "insert"
    /\ Len(memories) < MaxMemories
    /\ memories' = Append(memories, NewMemory(p))
    /\ op' = [op EXCEPT ![p].at = "index", ![p].row = Len(memories) + 1]
    /\ UNCHANGED <<sessions, fts, aged, model, hits, skills>>

Ended(p, how) == [memories EXCEPT ![op[p].row].save = how]

(* A faulty variant: the index entry goes to the newest row. *)
IndexNewest(p) ==
    /\ op[p].at = "index"
    /\ fts' = fts \cup {Len(memories)}
    /\ memories' = Ended(p, "returned")
    /\ IF op[p].doing = "save" THEN Return(p) ELSE Step(p, "mark")
    /\ UNCHANGED <<sessions, aged, model, hits, skills>>

(* The second insert; save_memory returns to an agent, or to the            *)
(* compression or the dream that goes on to mark what it read.              *)
Index(p) ==
    /\ op[p].at = "index"
    /\ fts' = fts \cup {op[p].row}
    /\ memories' = Ended(p, "returned")
    /\ IF op[p].doing = "save" THEN Return(p) ELSE Step(p, "mark")
    /\ UNCHANGED <<sessions, aged, model, hits, skills>>

(* An await raises, is cancelled or dies: its step has no effect. A write   *)
(* that takes effect and is never answered is the step and a Raise.         *)
(* compress_session and run_auto_dream only log it; a search guards neither *)
(* the embedding of its query nor its first read.                           *)
Raise(p) ==
    /\ op[p].at \in {"ask", "embed", "insert", "index", "mark", "query", "vector", "append", "update"}
    /\ memories' = IF op[p].at = "index" THEN Ended(p, "raised") ELSE memories
    /\ hits' = [hits EXCEPT ![p] = NoHits]
    /\ Return(p)
    /\ UNCHANGED <<sessions, fts, aged, model, skills>>

-----------------------------------------------------------------------------
(* compress_session and run_auto_dream: read, ask the model, save its       *)
(* answer, mark what was read.                                              *)

Compress(p, s) ==
    /\ op[p] = Idle
    /\ Cardinality(OpenMessages(s)) >= MinMessages
    /\ op' = [op EXCEPT ![p] = [Idle EXCEPT !.doing = "compress", !.at = "ask",
                                            !.batch = OpenMessages(s), !.about = s]]
    /\ UNCHANGED <<tables, hits, skills>>

(* The daemon's poll awaits the dream: there is one at a time. *)
Dream(p) ==
    /\ op[p] = Idle /\ RoomFor("dream")
    /\ \A r \in Procs : op[r].doing # "dream"
    /\ Episodes # {}
    /\ op' = [op EXCEPT ![p] = [Idle EXCEPT !.doing = "dream", !.at = "ask", !.batch = Episodes]]
    /\ UNCHANGED <<tables, hits, skills>>

(* A faulty variant: an empty answer is not saved, and what was read is marked. *)
AskAndMark(p) ==
    /\ op[p].at = "ask"
    /\ \/ Step(p, "embed")
       \/ Step(p, "mark")
    /\ UNCHANGED <<tables, hits, skills>>

(* An empty answer is neither saved nor marked. *)
Ask(p) ==
    /\ op[p].at = "ask"
    /\ \/ Step(p, "embed")
       \/ Return(p)
    /\ UNCHANGED <<tables, hits, skills>>

(* UPDATE sessions SET compressed=1 WHERE session_id=?. *)
MarkSession(p) ==
    /\ op[p].at = "mark" /\ op[p].doing = "compress"
    /\ sessions' = [m \in DOMAIN sessions |->
          IF sessions[m].session = op[p].about THEN [sessions[m] EXCEPT !.compressed = TRUE] ELSE sessions[m]]
    /\ Return(p)
    /\ UNCHANGED <<memories, fts, aged, model, hits, skills>>

(* A faulty variant: UPDATE ... WHERE memory_type='episodic' AND consolidated=0. *)
MarkEveryEpisode(p) ==
    /\ op[p].at = "mark" /\ op[p].doing = "dream"
    /\ memories' = [i \in DOMAIN memories |->
          IF memories[i].type = "episodic" THEN [memories[i] EXCEPT !.consolidated = TRUE] ELSE memories[i]]
    /\ Return(p)
    /\ UNCHANGED <<sessions, fts, aged, model, hits, skills>>

(* UPDATE memories SET consolidated=1 WHERE id IN (...). *)
MarkEpisodes(p) ==
    /\ op[p].at = "mark" /\ op[p].doing = "dream"
    /\ memories' = [i \in DOMAIN memories |->
          IF i \in op[p].batch THEN [memories[i] EXCEPT !.consolidated = TRUE] ELSE memories[i]]
    /\ Return(p)
    /\ UNCHANGED <<sessions, fts, aged, model, hits, skills>>

-----------------------------------------------------------------------------
(* search_memories. *)

(* The memories compared with the query: the newest ones, with days_back    *)
(* those inside its cut-off. No caller asks for one memory_type.            *)
Candidates(cutoff) == Newest(VectorLimit, {i \in DOMAIN memories : i > cutoff})

(* The orders in which a branch may return rows, cut at top_k * 2. *)
RankingsOf(rows) == {s \in Rankings : Range(s) \subseteq rows}

(* embed_text is awaited. As a search only reads, the exploration is        *)
(* bounded to one at a time.                                                *)
Search(p) ==
    /\ op[p] = Idle /\ RoomFor("search")
    /\ \A r \in Procs : op[r].doing # "search"
    /\ op' = [op EXCEPT ![p] = [Idle EXCEPT !.doing = "search", !.at = "query"]]
    /\ UNCHANGED <<tables, hits, skills>>

(* The clock is read after the embedding, and the read awaited. *)
EmbedQuery(p, cutoff) ==
    /\ op[p].at = "query"
    /\ hits' = [hits EXCEPT ![p].cutoff = cutoff]
    /\ Step(p, "vector")
    /\ UNCHANGED <<tables, skills>>

(* cosine_similarity is 0.0 when either vector is zero; else numpy raises   *)
(* on vectors of different lengths.                                         *)
Comparable(i) == Zero \notin {memories[i].dim, model}
Clash(rows) == \E i \in rows : Comparable(i) /\ memories[i].dim # model

(* 1. The rows are read and compared: a zero similarity is below            *)
(* min_similarity, and the lengths that differ raise.                       *)
VectorSearch(p) ==
    /\ op[p].at = "vector"
    /\ LET rows == Candidates(hits[p].cutoff)
       IN  IF Clash(rows)
           THEN hits' = [hits EXCEPT ![p] = [NoHits EXCEPT !.raised = TRUE]] /\ Step(p, "fused")
           ELSE /\ \E s \in RankingsOf({i \in rows : Comparable(i)}) :
                      hits' = [hits EXCEPT ![p].vector = s]
                /\ Step(p, "keyword")
    /\ UNCHANGED <<tables, skills>>

(* A faulty variant: 1 / rank. *)
NoOffset == 0

K == 60

(* 1 / (K + rank) as a fraction, 0 for a memory that the branch misses. *)
Weight(ranking, i) ==
    IF i \in Range(ranking)
    THEN <<1, K + (CHOOSE r \in DOMAIN ranking : ranking[r] = i)>>
    ELSE <<0, 1>>

Score(v, w, i) ==
    LET a == Weight(v, i)  b == Weight(w, i)
    IN  <<a[1] * b[2] + b[1] * a[2], a[2] * b[2]>>

Above(x, y) == x[1] * y[2] > y[1] * x[2]

(* 3. The top_k of the fused scores; equal ones in any order. *)
Fused(v, w) ==
    LET all == Range(v) \cup Range(w)
    IN  {best \in kSubset(Min({TopK, Cardinality(all)}), all) :
            \A i \in best, j \in all \ best : ~Above(Score(v, w, j), Score(v, w, i))}

(* 2. The full-text search, which knows no cut-off, and is empty when the   *)
(* query is no query of FTS5.                                               *)
KeywordSearch(p) ==
    /\ op[p].at = "keyword"
    /\ \E w \in RankingsOf(fts) :
          \E best \in Fused(hits[p].vector, w) :
             hits' = [hits EXCEPT ![p].keyword = w, ![p].found = best]
    /\ Step(p, "fused")
    /\ UNCHANGED <<tables, skills>>

(* A faulty variant: the rankings are left for the next caller. *)
SearchReturnsDirty(p) ==
    /\ op[p].at = "fused"
    /\ Return(p)
    /\ UNCHANGED <<tables, hits, skills>>

SearchReturns(p) ==
    /\ op[p].at = "fused"
    /\ hits' = [hits EXCEPT ![p] = NoHits]
    /\ Return(p)
    /\ UNCHANGED <<tables, skills>>

-----------------------------------------------------------------------------
(* Skill proposals. *)

Propose(q) ==
    /\ proposal[q] = "absent" /\ RoomFor("accept")
    /\ proposal' = [proposal EXCEPT ![q] = "pending"]
    /\ UNCHANGED <<tables, op, hits, copies>>

(* A faulty variant: the status is written before the file. *)
AcceptFirst(p, q) ==
    /\ op[p] = Idle
    /\ proposal[q] # "absent"
    /\ op' = [op EXCEPT ![p] = [Idle EXCEPT !.doing = "accept", !.at = "append", !.about = q]]
    /\ proposal' = [proposal EXCEPT ![q] = "accepted"]
    /\ UNCHANGED <<tables, hits, copies>>

(* The row is fetched; its status is not looked at. *)
Accept(p, q) ==
    /\ op[p] = Idle
    /\ proposal[q] # "absent"
    /\ op' = [op EXCEPT ![p] = [Idle EXCEPT !.doing = "accept", !.at = "append", !.about = q]]
    /\ UNCHANGED <<tables, hits, skills>>

AppendSkill(p) ==
    /\ op[p].at = "append"
    /\ copies[op[p].about] < MaxCopies
    /\ copies' = [copies EXCEPT ![op[p].about] = @ + 1]
    /\ Step(p, "update")
    /\ UNCHANGED <<tables, hits, proposal>>

UpdateProposal(p) ==
    /\ op[p].at = "update"
    /\ proposal' = [proposal EXCEPT ![op[p].about] = "accepted"]
    /\ Return(p)
    /\ UNCHANGED <<tables, hits, copies>>

-----------------------------------------------------------------------------
SaveSteps(p) == Save(p) \/ Embed(p) \/ Insert(p) \/ Index(p)
MarkSteps(p) == Dream(p) \/ Ask(p) \/ MarkSession(p) \/ MarkEpisodes(p)
SearchSteps(p) ==
    \/ Search(p)
    \/ \E cutoff \in {0, aged} : EmbedQuery(p, cutoff)
    \/ VectorSearch(p)
    \/ KeywordSearch(p)
    \/ SearchReturns(p)
SkillSteps(p) == AppendSkill(p) \/ UpdateProposal(p)

Next ==
    \/ \E s \in Sessions : SaveMessage(s)
    \/ Age
    \/ Reconfigure
    \/ \E p \in Procs :
          \/ SaveSteps(p) \/ MarkSteps(p) \/ SearchSteps(p) \/ SkillSteps(p)
          \/ Raise(p)
          \/ \E s \in Sessions : Compress(p, s)
          \/ \E q \in Proposals : Accept(p, q)
    \/ \E q \in Proposals : Propose(q)

Spec == Init /\ [][Next]_vars

-----------------------------------------------------------------------------
(* Properties. *)

(* A memory whose save_memory returned is in the full-text index under its  *)
(* own row; one that is not belongs to a call still between its two inserts *)
(* or to one that raised there (store.py:165-175).                          *)
SavedIsIndexed ==
    \A i \in DOMAIN memories \ fts :
        \/ memories[i].save = "raised"
        \/ \E p \in Procs : op[p].at = "index" /\ op[p].row = i

(* The memories that stand for what a dream or a compression read. *)
Summaries(source) ==
    {d \in fts : memories[d].source = source /\ memories[d].save = "returned"}

(* An episode is marked consolidated only when a saved and indexed dream    *)
(* was made of it; the model was shown it, unless the PromptRoom newest of  *)
(* its batch filled the prompt (store.py:412-438). A failed or empty        *)
(* answer, a failed insert or an episode saved during the dream leave it    *)
(* for the next one.                                                        *)
ConsolidatedIsCovered ==
    \A i \in DOMAIN memories : memories[i].consolidated =>
        \E d \in Summaries("dream") :
            /\ i \in memories[d].of
            /\ \/ i \in memories[d].shown
               \/ Cardinality({j \in memories[d].of : j > i}) >= PromptRoom

(* A compressed message is in the batch of a saved summary, shown or behind *)
(* ConvoRoom older ones; or it arrived while its session was compressed     *)
(* and went unread (store.py:349-384).                                      *)
CompressedIsCovered ==
    \A m \in DOMAIN sessions : sessions[m].compressed =>
        \/ sessions[m].late
        \/ \E d \in Summaries("session") :
               /\ m \in memories[d].of
               /\ \/ m \in memories[d].shown
                  \/ Cardinality({n \in memories[d].of : n < m}) >= ConvoRoom

(* What a search may return: h holds its locals and result. *)
SoundResult(h) ==
    LET both == Range(h.vector) \cap Range(h.keyword)
        all == Range(h.vector) \cup Range(h.keyword)
    IN  /\ Cardinality(h.found) = Min({TopK, Cardinality(all)})
        /\ both \subseteq h.found \/ h.found \subseteq both
        /\ \A i \in h.found :
              \/ i > h.cutoff /\ memories[i].dim = model
              \/ i \in Range(h.keyword)

(* A search that answers, after memories were saved and models changed      *)
(* between its awaits, returns as many memories as it may and prefers one   *)
(* that both branches found to one that a single branch found, whatever     *)
(* their ranks. What it returns is inside the cut-off and embedded by the   *)
(* model in use, or the full-text search found it (store.py:201-271).       *)
SearchIsSound == \A p \in Procs : op[p].at = "fused" => SoundResult(hits[p])

(* A proposal is accepted only once its text is in SKILL.md, whatever       *)
(* fails or overlaps (main.py:352-370).                                     *)
AcceptedIsWritten ==
    \A q \in Proposals : proposal[q] = "accepted" => copies[q] > 0

=============================================================================
