------------------------------ MODULE AgentJobs ------------------------------
(***************************************************************************)
(* What the dispatcher promises (the comment of dispatch in                 *)
(* src/src/daemon.c and doc/internals.md), without threads, flags, queues,  *)
(* files or time: each agent is a server that takes one job at a time - the *)
(* oldest of its owner messages, or, when it has none, some of its mail or  *)
(* its tasks.                                                               *)
(***************************************************************************)
EXTENDS Naturals

CONSTANT Agents

VARIABLES waiting,  \* jobs <<"owner" or "mail", agent, number>>
          serving,  \* per agent: jobs in service, <<"task", a, 0>> for tasks, {} when free
          gone      \* jobs that were dropped

jobVars == <<waiting, serving, gone>>

OwnerJobsOf(a) == {j \in waiting : j[1] = "owner" /\ j[2] = a}
MailJobsOf(a)  == {j \in waiting : j[1] = "mail" /\ j[2] = a}
Oldest(S)      == {j \in S : \A k \in S : j[3] <= k[3]}

\* What agent a may be given next.
Servable(a) ==
    IF OwnerJobsOf(a) # {} THEN {Oldest(OwnerJobsOf(a))}
    ELSE ((SUBSET MailJobsOf(a)) \ {{}}) \cup {{<<"task", a, 0>>}}

JobsInit ==
    /\ waiting = {}
    /\ serving = [a \in Agents |-> {}]
    /\ gone = {}

\* New jobs arrive together (a message to all); some may be refused.
Arrive ==
    /\ waiting \subseteq waiting'
    /\ gone \subseteq gone'
    /\ (waiting' \ waiting) \cap gone' = {}
    /\ UNCHANGED serving

Serve(a) ==
    /\ serving[a] = {}
    /\ \E S \in Servable(a) :
         /\ waiting' = waiting \ S
         /\ serving' = [serving EXCEPT ![a] = S]
    /\ UNCHANGED gone

\* A start that failed: the jobs are dropped as if they had been served.
Drop(a) ==
    /\ serving[a] = {}
    /\ \E S \in Servable(a) :
         /\ waiting' = waiting \ S
         /\ gone' = gone \cup {j \in S : j[1] # "task"}
    /\ UNCHANGED serving

Finish(a) ==
    /\ serving[a] # {}
    /\ serving' = [serving EXCEPT ![a] = {}]
    /\ UNCHANGED <<waiting, gone>>

\* The daemon dies: the owner's messages and one agent's half-read mail go.
Restart ==
    /\ serving' = [a \in Agents |-> {}]
    /\ \E a \in Agents : \E S \in SUBSET MailJobsOf(a) :
         LET dropped == S \cup {j \in waiting : j[1] = "owner"}
         IN  /\ waiting' = waiting \ dropped
             /\ gone' = gone \cup dropped

JobsNext ==
    \/ Arrive
    \/ \E a \in Agents : Serve(a) \/ Drop(a) \/ Finish(a)
    \/ Restart

JobsSpec == JobsInit /\ [][JobsNext]_jobVars
=============================================================================
