----------------------------- MODULE ChildProcs -----------------------------
(***************************************************************************)
(* The child processes of tool calls: child_collect and tool_exec_cmd       *)
(* (tool_exec.c), plugin_execute and compile_check (plugin.c), for calls    *)
(* that threads make at the same time.  An "exec" child joins a process     *)
(* group of its own, closes the daemon's descriptors and becomes a shell; a *)
(* "plugin" child and the child of a compile "check" are copies of the      *)
(* daemon and keep them.  The program a call runs may write, close its      *)
(* output, leave a background job, exit, or hang; the compiler of a check   *)
(* writes, exits or hangs.                                                  *)
(*                                                                         *)
(* Output is counted in units; late is now_ms() >= deadline.                *)
(***************************************************************************)
EXTENDS Naturals, FiniteSets

CONSTANTS Calls,     \* tool calls
          Cap,       \* output a call keeps
          PipeRoom,  \* output a pipe holds
          MaxOut,    \* bound: output of one call's processes
          Lively     \* bound: calls whose programs do more than run and exit

ASSUME ChildAssumption ==
    Cap \in Nat /\ PipeRoom \in Nat \ {0} /\ MaxOut \in Nat /\ Lively \subseteq Calls

VARIABLES
    pc,       \* where the calling thread is
    kind,     \* what the call runs, one of Kinds
    late,     \* the deadline of the call has passed
    timedOut, \* timed_out
    len, dropped,
    child,    \* the call's process
    job,      \* a process it left in the background
    grouped,  \* the child leads a process group of its own
    writers,  \* who holds the write end of the call's pipe open
    inPipe    \* output not yet read

(* History. *)
VARIABLES
    written,  \* output of the call's processes
    blame     \* whom a call waited for when its deadline passed

childVars == <<pc, kind, late, timedOut, len, dropped, child, job, grouped, writers,
          inPipe, written, blame>>
threadVars == <<pc, kind, late, timedOut, len, dropped>>
procVars == <<child, job, grouped>>

Kinds == {"exec", "plugin", "check"}

\* Processes that may hold a pipe: the daemon, a call's child, its job.
Daemon == <<"daemon">>
Child(c) == <<"child", c>>
Job(c) == <<"job", c>>
Processes == {Daemon} \cup {Child(c) : c \in Calls} \cup {Job(c) : c \in Calls}

ChildInit ==
    /\ pc = [c \in Calls |-> "idle"]
    /\ kind \in [Calls -> Kinds]
    /\ late = [c \in Calls |-> FALSE] /\ timedOut = [c \in Calls |-> FALSE]
    /\ len = [c \in Calls |-> 0] /\ dropped = [c \in Calls |-> 0]
    /\ child = [c \in Calls |-> "none"] /\ job = [c \in Calls |-> "none"]
    /\ grouped = [c \in Calls |-> FALSE]
    /\ writers = [c \in Calls |-> {}] /\ inPipe = [c \in Calls |-> 0]
    /\ written = [c \in Calls |-> 0] /\ blame = [c \in Calls |-> {}]

Goes(c, to) == pc' = [pc EXCEPT ![c] = to]

\* A process that ends, or closes what it holds, lets go of every pipe.
LetGo(P) == writers' = [c \in Calls |-> writers[c] \ P]

-----------------------------------------------------------------------------
(* tool_exec_cmd, plugin_execute and compile_check up to child_collect.     *)

\* compile_lock: one compile check at a time.
Unlocked(c) ==
    kind[c] = "check" =>
      \A d \in Calls \ {c} : kind[d] = "check" => pc[d] \in {"idle", "done"}

Pipe(c) ==
    /\ pc[c] = "idle" /\ Unlocked(c)
    /\ \/ Goes(c, "piped") /\ writers' = [writers EXCEPT ![c] = {Daemon}]
       \/ Goes(c, "done") /\ UNCHANGED writers          \* pipe() failed
    /\ UNCHANGED <<procVars, kind, late, timedOut, len, dropped, inPipe, written, blame>>

\* The child inherits every descriptor the daemon has open at that moment.
Inherits(p, q) == [c \in Calls |-> IF p \in writers[c] THEN writers[c] \cup {q}
                                   ELSE writers[c]]

Fork(c) ==
    /\ pc[c] = "piped"
    /\ \/ /\ Goes(c, "forked")
          /\ child' = [child EXCEPT ![c] = IF kind[c] = "exec" THEN "forked" ELSE "runs"]
          /\ writers' = Inherits(Daemon, Child(c))
       \/ /\ Goes(c, "done")                            \* fork() failed
          /\ writers' = [writers EXCEPT ![c] = {}]
          /\ UNCHANGED child
    /\ UNCHANGED <<kind, late, timedOut, len, dropped, job, grouped, inPipe, written, blame>>

\* The parent: setpgid has no effect on a child that has already executed
\* the shell; then its own write end is closed.
ParentGoesOn(c) ==
    /\ pc[c] = "forked"
    /\ Goes(c, "reading")
    /\ grouped' = [grouped EXCEPT ![c] = @ \/ child[c] = "forked"]
    /\ writers' = [writers EXCEPT ![c] = @ \ {Daemon}]
    /\ UNCHANGED <<kind, late, timedOut, len, dropped, child, job, inPipe, written, blame>>

\* The child of a command: setpgid, its output on the pipe, the other
\* descriptors closed, the shell.

\* Mutant: the child leaves its process group to the parent.
JoinsNone(c) == grouped[c]

Joins(c) == TRUE

\* Mutant: the child keeps the descriptors it inherited.
KeepsOpen(c) == writers

ClosesOthers(c) == [d \in Calls |-> IF d = c THEN writers[d] ELSE writers[d] \ {Child(c)}]

ChildExecs(c) ==
    /\ child[c] = "forked"
    /\ child' = [child EXCEPT ![c] = "runs"]
    /\ grouped' = [grouped EXCEPT ![c] = Joins(c)]
    /\ writers' = ClosesOthers(c)
    /\ UNCHANGED <<threadVars, job, inPipe, written, blame>>

-----------------------------------------------------------------------------
(* child_collect: read to end of file or to the deadline, then wait for the *)
(* child until the deadline, then kill it.                                  *)

Read(c) ==
    /\ pc[c] = "reading" /\ ~late[c] /\ inPipe[c] > 0
    /\ inPipe' = [inPipe EXCEPT ![c] = @ - 1]
    /\ IF len[c] < Cap
       THEN len' = [len EXCEPT ![c] = @ + 1] /\ UNCHANGED dropped
       ELSE dropped' = [dropped EXCEPT ![c] = @ + 1] /\ UNCHANGED len
    /\ UNCHANGED <<procVars, pc, kind, late, timedOut, writers, written, blame>>

\* Mutant: the output ends with the child.
EndsWithChild(c) == child[c] = "exited"

EndOfFile(c) == inPipe[c] = 0 /\ writers[c] = {}

Eof(c) ==
    /\ pc[c] = "reading" /\ ~late[c] /\ EndOfFile(c)
    /\ Goes(c, "waiting")
    /\ UNCHANGED <<procVars, kind, late, timedOut, len, dropped, writers, inPipe, written, blame>>

Own(c) == {Child(c), Job(c)}

TimesOut(c) ==
    /\ Goes(c, "killing")
    /\ timedOut' = [timedOut EXCEPT ![c] = TRUE]
    /\ UNCHANGED <<procVars, kind, late, len, dropped, writers, inPipe, written, blame>>

ReadTimesOut(c) == pc[c] = "reading" /\ late[c] /\ TimesOut(c)

Reaps(c) == child' = [child EXCEPT ![c] = "reaped"]

\* One turn of the wait loop; waitpid comes before the clock.
WaitReaps(c) ==
    /\ pc[c] = "waiting" /\ child[c] = "exited"
    /\ Reaps(c) /\ Goes(c, "done")
    /\ UNCHANGED <<kind, late, timedOut, len, dropped, job, grouped, writers, inPipe, written, blame>>

\* Mutant: the wait for a child whose output has ended has no deadline.
WaitsForever(c) == FALSE

WaitIsOver(c) == late[c]

WaitTimesOut(c) ==
    /\ pc[c] = "waiting" /\ child[c] # "exited" /\ WaitIsOver(c)
    /\ TimesOut(c)

\* kill(-pid) reaches the group if there is one, kill(pid) the child.
Killed(c) == {Child(c)} \cup (IF grouped[c] THEN {Job(c)} ELSE {})

Kill(c) ==
    /\ pc[c] = "killing"
    /\ Goes(c, "reaping")
    /\ child' = [child EXCEPT ![c] = "exited"]
    /\ job' = [job EXCEPT ![c] = IF Job(c) \in Killed(c) /\ @ = "runs" THEN "ended" ELSE @]
    /\ LetGo(Killed(c))
    /\ UNCHANGED <<kind, late, timedOut, len, dropped, grouped, inPipe, written, blame>>

KilledReaped(c) ==
    /\ pc[c] = "reaping" /\ child[c] = "exited"
    /\ Reaps(c) /\ Goes(c, "done")
    /\ UNCHANGED <<kind, late, timedOut, len, dropped, job, grouped, writers, inPipe, written, blame>>

Collecting(c) == pc[c] \in {"reading", "waiting"}

\* What the call waits for; Daemon when only for a thread of the daemon, or
\* for a child that is still a copy of it, to be scheduled.
WaitsFor(c) ==
    (writers[c] \ {Child(d) : d \in {e \in Calls : child[e] = "forked"}})
    \cup (IF child[c] # "exited" \/ inPipe[c] > 0 THEN {Child(c)} ELSE {})

\* The deadline passes.
Tick(c) ==
    /\ Collecting(c) /\ ~late[c]
    /\ late' = [late EXCEPT ![c] = TRUE]
    /\ blame' = [blame EXCEPT ![c] = IF WaitsFor(c) = {} THEN {Daemon} ELSE WaitsFor(c)]
    /\ UNCHANGED <<procVars, pc, kind, timedOut, len, dropped, writers, inPipe, written>>

-----------------------------------------------------------------------------
(* The program that runs.                                                   *)

Writes(c) ==
    /\ \E p \in Own(c) : p \in writers[c]
                         /\ (IF p = Child(c) THEN child[c] = "runs" ELSE job[c] = "runs")
    /\ Collecting(c) \/ pc[c] = "forked"
    /\ written[c] < MaxOut /\ inPipe[c] < PipeRoom
    /\ inPipe' = [inPipe EXCEPT ![c] = @ + 1]
    /\ written' = [written EXCEPT ![c] = @ + 1]
    /\ UNCHANGED <<threadVars, procVars, writers, blame>>

ClosesOutput(c) ==
    /\ kind[c] # "check" /\ child[c] = "runs" /\ Child(c) \in writers[c]
    /\ writers' = [writers EXCEPT ![c] = @ \ {Child(c)}]
    /\ UNCHANGED <<threadVars, procVars, inPipe, written, blame>>

\* A job in the background, with or without the child's output.
Spawns(c) ==
    /\ kind[c] # "check" /\ child[c] = "runs" /\ job[c] = "none"
    /\ job' = [job EXCEPT ![c] = "runs"]
    /\ \/ writers' = Inherits(Child(c), Job(c))
       \/ UNCHANGED writers
    /\ UNCHANGED <<threadVars, child, grouped, inPipe, written, blame>>

Exits(c) ==
    /\ child[c] = "runs"
    /\ child' = [child EXCEPT ![c] = "exited"]
    /\ LetGo({Child(c)})
    /\ UNCHANGED <<threadVars, job, grouped, inPipe, written, blame>>

JobEnds(c) ==
    /\ job[c] = "runs"
    /\ job' = [job EXCEPT ![c] = "ended"]
    /\ LetGo({Job(c)})
    /\ UNCHANGED <<threadVars, child, grouped, inPipe, written, blame>>

-----------------------------------------------------------------------------
Thread(c) ==
    \/ Pipe(c) \/ Fork(c) \/ ParentGoesOn(c)
    \/ Read(c) \/ Eof(c) \/ ReadTimesOut(c)
    \/ WaitReaps(c) \/ WaitTimesOut(c) \/ Kill(c) \/ KilledReaped(c)

Program(c) ==
    \/ ChildExecs(c) \/ Exits(c) \/ JobEnds(c)
    \/ c \in Lively /\ (Writes(c) \/ ClosesOutput(c) \/ Spawns(c))

ChildNext == \E c \in Calls : Thread(c) \/ Tick(c) \/ Program(c)

ChildSpec == ChildInit /\ [][ChildNext]_childVars

-----------------------------------------------------------------------------
ChildTypeOK ==
    /\ pc \in [Calls -> {"idle", "piped", "forked", "reading", "waiting", "killing",
                         "reaping", "done"}]
    /\ kind \in [Calls -> Kinds]
    /\ late \in [Calls -> BOOLEAN] /\ timedOut \in [Calls -> BOOLEAN]
    /\ len \in [Calls -> 0..Cap] /\ dropped \in [Calls -> 0..MaxOut]
    /\ child \in [Calls -> {"none", "forked", "runs", "exited", "reaped"}]
    /\ job \in [Calls -> {"none", "runs", "ended"}]
    /\ grouped \in [Calls -> BOOLEAN]
    /\ writers \in [Calls -> SUBSET Processes]
    /\ inPipe \in [Calls -> 0..PipeRoom] /\ written \in [Calls -> 0..MaxOut]
    /\ blame \in [Calls -> SUBSET Processes]

(* The types; and a call that has returned has reaped its child, a call     *)
(* about to kill has not: the number it kills is still that child's.  A     *)
(* command that timed out leaves nothing of its group running.              *)
NoStrayProcess ==
    /\ ChildTypeOK
    /\ \A c \in Calls :
         /\ pc[c] = "done" => child[c] \in {"none", "reaped"}
         /\ pc[c] \in {"killing", "reaping"} => child[c] \in {"forked", "runs", "exited"}
         /\ pc[c] = "done" /\ timedOut[c] /\ kind[c] = "exec" => job[c] # "runs"

(* A call that ends in time has read all its processes wrote, and dropped   *)
(* output only when it kept as much as it has room for.                     *)
OutputComplete ==
    \A c \in Calls :
      pc[c] = "done" /\ ~timedOut[c] =>
        /\ len[c] + dropped[c] = written[c]
        /\ dropped[c] > 0 => len[c] = Cap

(* A call runs into its deadline because of its own processes, because a    *)
(* thread was not scheduled, or because of a plugin (or what that left      *)
(* behind) or a compile check forked while the call's pipe was open in the  *)
(* daemon, which holds its write end; a command never delays another call.  *)
TimeoutsExplained ==
    \A c \in Calls :
      timedOut[c] =>
        \/ blame[c] \cap (Own(c) \cup {Daemon}) # {}
        \/ \E d \in Calls : kind[d] # "exec" /\ blame[c] \cap Own(d) # {}

(* Every call returns, whatever its program does.                           *)
CallsReturn == []<>(\A c \in Calls : pc[c] \in {"idle", "done"})
=============================================================================
