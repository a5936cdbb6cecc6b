------------------------------ MODULE AgentLoop ------------------------------
(***************************************************************************)
(* run_agent, src/jarvis/llm/client.py: one run in detail, beside others   *)
(* of which only the budget is seen.                                       *)
(*                                                                         *)
(* The loop sends the conversation to the model, retrying what is          *)
(* transient; it runs the tools the model asks for, each past the circuit  *)
(* breaker, and sends their results back; it asks a truncated answer to be *)
(* continued.  A tool call is its key, the name and the arguments.         *)
(***************************************************************************)
EXTENDS Budget, Sequences, SequencesExt

CONSTANTS Loop,           \* the run
          Keys,           \* tool calls the model makes
          Providers,      \* the providers the router may have chosen
          MaxIterations,  \* max_iterations
          MaxTries,       \* stop_after_attempt
          MaxSame,        \* CircuitBreaker.max_same
          Window,         \* CircuitBreaker.call_history.maxlen
          MaxBlocks       \* bound on the tool calls in one response

ASSUME AgentLoopAssumption ==
    /\ Loop \in Runs
    /\ Providers \subseteq {"ollama", "anthropic"}
    /\ MaxIterations \in Nat \ {0} /\ MaxTries \in Nat \ {0}
    /\ MaxSame \in Nat \ {0} /\ Window \in Nat /\ MaxSame <= Window

VARIABLES step,       \* the await the run is at
          provider,   \* decision.provider
          iteration,  \* iteration, from 1
          tries,      \* attempts made by AsyncRetrying in this iteration
          history,    \* history: messages, each with its tool blocks
          blocks,     \* tool calls of the response not yet looked at
          results,    \* tool_results: the tool calls answered so far, in order
          calls,      \* call_history of the circuit breaker
          outcome,    \* how the run ended
          chunks,     \* how many texts of the answer the model has produced
          returned,   \* how many of them the caller got
          ran,        \* every tool call executed, in order (history)
          blocked     \* every tool call refused, with Len(ran) then (history)

breakerVars == <<calls, ran, blocked>>
talkVars    == <<provider, iteration, tries, history, blocks, results>>
answerVars  == <<outcome, chunks, returned>>
loopVars    == <<step, talkVars, breakerVars, answerVars>>
vars        == <<budgetVars, loopVars>>

Steps    == {"new", "calling", "tools", "ended"}
Outcomes == {"none", "refused", "text", "exhausted", "error"}
Kinds    == {"prompt", "reply", "cut", "results", "continue"}
Message  == [kind : Kinds, tools : Seq(Keys)]

Say(kind, tools) == [kind |-> kind, tools |-> tools]

(* Every variable has its type, and the breaker remembers at most Window calls. *)
TypeOK ==
    /\ BudgetTypeOK
    /\ step \in Steps
    /\ provider \in Providers
    /\ iteration \in 1..MaxIterations
    /\ tries \in 1..MaxTries
    /\ history \in Seq(Message)
    /\ blocks \in Seq(Keys)
    /\ results \in Seq(Keys)
    /\ calls \in Seq(Keys) /\ Len(calls) <= Window
    /\ outcome \in Outcomes
    /\ chunks \in Nat /\ returned \in Nat
    /\ ran \in Seq(Keys)
    /\ blocked \in SUBSET [key : Keys, after : Nat]

Init ==
    /\ BudgetInit
    /\ step = "new"
    /\ provider \in Providers
    /\ iteration = 1
    /\ tries = 1
    /\ history = <<Say("prompt", <<>>)>>
    /\ blocks = <<>>
    /\ results = <<>>
    /\ calls = <<>>
    /\ outcome = "none"
    /\ chunks = 0
    /\ returned = 0
    /\ ran = <<>>
    /\ blocked = {}

-----------------------------------------------------------------------------
(* Ends of the run. *)

Fail ==
    /\ step' = "ended"
    /\ outcome' = "error"
    /\ Release(Loop)

(* What follows the loop has no await.  The audit line is written after the
   cost was added; its write may raise. *)
Finish(how) ==
    /\ step' = "ended"
    /\ Charge(Loop)
    /\ outcome' \in {how, "error"}

(* The next iteration, or the else of the for loop. *)
NextIteration ==
    \/ /\ iteration < MaxIterations
       /\ iteration' = iteration + 1
       /\ tries' = 1
       /\ step' = "calling"
       /\ UNCHANGED <<budgetVars, outcome>>
    \/ /\ iteration = MaxIterations
       /\ Finish("exhausted")
       /\ UNCHANGED <<iteration, tries>>

-----------------------------------------------------------------------------
(* The budget check comes before the first await. *)
Start ==
    /\ step = "new"
    /\ Preflight(Loop)
    /\ IF Loop \in admitted' THEN step' = "calling" /\ UNCHANGED outcome
                             ELSE step' = "ended" /\ outcome' = "refused"
    /\ UNCHANGED <<talkVars, breakerVars, chunks, returned>>

(* The blocks of an Ollama response are objects of local classes: once one is
   in history, the payload of the next request is not JSON serializable. *)
Sendable == provider = "ollama" => \A i \in 1..Len(history) : history[i].kind # "reply"

Unsendable ==
    /\ step = "calling"
    /\ ~Sendable
    /\ Fail
    /\ UNCHANGED <<talkVars, breakerVars, chunks, returned>>

(* end_turn, or a stop reason the loop does not know: the text blocks of this
   response are the answer. *)
Answer ==
    /\ step = "calling" /\ Sendable
    /\ chunks' = chunks + 1
    /\ returned' = 1
    /\ Finish("text")
    /\ UNCHANGED <<talkVars, breakerVars>>

(* What a response may ask for. *)
Requests == UNION {[1..n -> Keys] : n \in 1..MaxBlocks}

(* max_tokens, which Ollama's responses never say.  A tool block that was
   complete when the response was cut is neither run nor answered. *)
Continue ==
    /\ step = "calling" /\ Sendable
    /\ provider = "anthropic"
    /\ chunks' = chunks + 1
    /\ \E cut \in {<<>>} \cup Requests :
          history' = history \o <<Say("cut", cut), Say("continue", <<>>)>>
    /\ NextIteration
    /\ UNCHANGED <<provider, blocks, results, breakerVars, returned>>

UseTools ==
    /\ step = "calling" /\ Sendable
    /\ \E asked \in Requests :
          /\ blocks' = asked
          /\ history' = Append(history, Say("reply", asked))
    /\ results' = <<>>
    /\ step' = "tools"
    /\ UNCHANGED <<budgetVars, provider, iteration, tries, breakerVars, answerVars>>

(* A faulty variant: no stop_after_attempt. *)
TransientForever ==
    /\ step = "calling" /\ Sendable
    /\ tries' = (tries % MaxTries) + 1
    /\ UNCHANGED <<step, outcome, budgetVars>>
    /\ UNCHANGED <<provider, iteration, history, blocks, results, breakerVars, chunks, returned>>

(* A lost connection, a timeout, and from Anthropic 429 and 5xx: the request is
   sent again, up to MaxTries times; then RetryError. *)
Transient ==
    /\ step = "calling" /\ Sendable
    /\ \/ tries < MaxTries /\ tries' = tries + 1 /\ UNCHANGED <<step, outcome, budgetVars>>
       \/ tries = MaxTries /\ Fail /\ UNCHANGED tries
    /\ UNCHANGED <<provider, iteration, history, blocks, results, breakerVars, chunks, returned>>

(* Any other error of the service, or an answer that cannot be parsed; or the
   caller cancels the run, at this await or at that of a tool. *)
Abort ==
    /\ step \in {"calling", "tools"}
    /\ Fail
    /\ UNCHANGED <<talkVars, breakerVars, chunks, returned>>

-----------------------------------------------------------------------------
(* Tools. *)

(* Faulty variants: it takes one call more; the oldest calls are looked at. *)
TrippedLate(key) ==
    /\ Len(calls) > MaxSame
    /\ \A i \in Len(calls) - MaxSame..Len(calls) : calls[i] = key
TrippedByFirst(key) ==
    /\ Len(calls) >= MaxSame
    /\ \A i \in 1..MaxSame : calls[i] = key

(* CircuitBreaker.check: the last MaxSame calls let through are all this one. *)
Tripped(key) ==
    /\ Len(calls) >= MaxSame
    /\ \A i \in Len(calls) - MaxSame + 1..Len(calls) : calls[i] = key

(* A faulty variant: an unbounded list. *)
RememberAll(key) == Append(calls, key)

(* call_history.append: a deque of at most Window keys. *)
Remember(key) ==
    IF Len(calls) = Window THEN Append(Tail(calls), key) ELSE Append(calls, key)

(* The next pass of the loop over the blocks, with the tool_results so far;
   after the last block they go into the conversation. *)
NextBlock(answers) ==
    /\ blocks' = Tail(blocks)
    /\ results' = answers
    /\ \/ /\ Len(blocks) > 1
          /\ UNCHANGED <<step, history, iteration, tries, budgetVars, outcome>>
       \/ /\ Len(blocks) = 1
          /\ history' = Append(history, Say("results", answers))
          /\ NextIteration

Answered == Append(results, Head(blocks))

(* An exception of the tool becomes its result. *)
RunTool ==
    /\ step = "tools"
    /\ ~Tripped(Head(blocks))
    /\ calls' = Remember(Head(blocks))
    /\ ran' = Append(ran, Head(blocks))
    /\ NextBlock(Answered)
    /\ UNCHANGED <<provider, chunks, returned, blocked>>

(* A faulty variant: a refused call is skipped without a tool_result. *)
SkipTool ==
    /\ step = "tools"
    /\ Tripped(Head(blocks))
    /\ blocked' = blocked \cup {[key |-> Head(blocks), after |-> Len(ran)]}
    /\ NextBlock(results)
    /\ UNCHANGED <<provider, calls, chunks, returned, ran>>

(* A refused call is answered with the refusal. *)
BlockTool ==
    /\ step = "tools"
    /\ Tripped(Head(blocks))
    /\ blocked' = blocked \cup {[key |-> Head(blocks), after |-> Len(ran)]}
    /\ NextBlock(Answered)
    /\ UNCHANGED <<provider, calls, chunks, returned, ran>>

-----------------------------------------------------------------------------
LoopStep ==
    \/ Start \/ Unsendable \/ Answer \/ Continue \/ UseTools
    \/ Transient \/ Abort \/ RunTool \/ BlockTool

(* Another run of the process, which may start again when it has ended. *)
Other(r) ==
    /\ Preflight(r) \/ Charge(r) \/ Release(r)
    /\ UNCHANGED loopVars

Next == LoopStep \/ \E r \in Runs \ {Loop} : Other(r)

(* The run's coroutine is resumed whenever its await is over; the requests have
   a timeout. *)
Spec == Init /\ [][Next]_vars /\ WF_vars(LoopStep)

-----------------------------------------------------------------------------
(* Properties. *)

(* client.py:64 and :73: however the model interleaves its requests, over any
   number of responses, no more than MaxSame identical calls in a row run. *)
NoRunaway ==
    \A i \in 1..Len(ran) - MaxSame :
        \E j \in i + 1..i + MaxSame : ran[j] # ran[i]

(* client.py:73: a call is refused only if the last MaxSame calls that ran, be
   they of this response or of earlier ones, were all the same as it. *)
BlockedOnlyRepeats ==
    \A b \in blocked :
        /\ b.after \in MaxSame..Len(ran)
        /\ \A i \in b.after - MaxSame + 1..b.after : ran[i] = b.key

FromModel == {"reply", "cut"}

(* What the user says next: a tool_result for each tool block, in their order;
   to a reply that was cut, the request to go on, whatever blocks it holds. *)
Follows(message, next) ==
    /\ message.kind = "reply" => next = Say("results", message.tools)
    /\ message.kind = "cut" => next.kind = "continue"

(* client.py:304-343: what is sent to the model is a conversation: the user and
   the model alternate, it is the user's turn to speak last, and a reply with
   stop reason tool_use is followed by one tool_result for each of its blocks,
   in order, be the call executed, failed or refused.  (The tool blocks of a
   reply that was cut have none: Continue.) *)
ConversationAnswered ==
    step = "calling" =>
        /\ Last(history).kind \notin FromModel
        /\ \A i \in 1..Len(history) : history[i].kind \in FromModel <=> i % 2 = 0
        /\ \A i \in 1..Len(history) - 1 : Follows(history[i], history[i + 1])

(* client.py:228-243: nothing the model, its service or the tools do keeps the
   run from ending. *)
LoopEnds == <>(step = "ended")

(* client.py:6 "max_tokens continuation on partial response" and :305 "continue
   from where it stopped": the answer returned is the whole of it. *)
AnswerIsWhole == outcome = "text" => returned = chunks

=============================================================================
