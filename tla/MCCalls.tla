------------------------------ MODULE MCCalls ------------------------------
(* What the tools and the model calls of a session rest on, for TLC.  The   *)
(* parts share no state; in a behaviour one of them moves.                  *)
EXTENDS ChildProcs, MemoryStore, LlmProvider, Mentions

VARIABLE part

vars == <<childVars, memVars, httpVars, llmVars, mentionVars, part>>

Init ==
    /\ ChildInit /\ MemInit /\ HttpInit /\ LlmInit /\ MentionsInit
    /\ part \in {"children", "log", "facts", "calls", "talk", "mentions"}
    /\ part # "calls" => call.prov = "openai"
    /\ part # "children" => kind = [c \in Calls |-> "exec"]

ChildMoves == part = "children" /\ UNCHANGED <<memVars, httpVars, llmVars, mentionVars, part>>
MemMoves == UNCHANGED <<childVars, httpVars, llmVars, mentionVars, part>>
LlmMoves == UNCHANGED <<childVars, memVars, mentionVars, part>>

Next ==
    \/ ChildNext /\ ChildMoves
    \/ part = "log" /\ LogNext /\ MemMoves
    \/ part = "facts" /\ FactsNext /\ MemMoves
    \/ part = "calls" /\ CallNext /\ LlmMoves
    \/ part = "talk" /\ TalkNext /\ LlmMoves
    \/ /\ part = "mentions" /\ Types
       /\ UNCHANGED <<childVars, memVars, httpVars, llmVars, part>>

(* The threads that run tools are scheduled, and their deadlines pass; the  *)
(* programs they run owe nothing.                                           *)
Spec ==
    /\ Init /\ [][Next]_vars
    /\ \A c \in Calls : WF_vars(Thread(c) /\ ChildMoves) /\ WF_vars(Tick(c) /\ ChildMoves)
=============================================================================
