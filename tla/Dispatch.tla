------------------------------ MODULE Dispatch ------------------------------
(***************************************************************************)
(* The dispatcher of the daemon (src/src/daemon.c): the main thread looks   *)
(* for work - owner messages, mail between agents, due tasks - and starts   *)
(* one detached session thread per trigger; the session threads tell it     *)
(* through two atomics, busy and last_session_time, when an agent is free.  *)
(*                                                                         *)
(* The clock is kept as timers, because the code only uses differences:     *)
(* age[a] is now - last_session_time, saturating at Gap, and aged[a] is the *)
(* value the test now_s - last_session_time >= TC_SESSION_GAP has for the   *)
(* now_s that dispatch read when the pass began.  A task's run_at is the    *)
(* number of ticks left before it is due.                                   *)
(***************************************************************************)
EXTENDS Naturals, Sequences

CONSTANTS NumAgents,    \* agents, numbered as in d->agents
          Threads,      \* identities for session threads
          Gap,          \* TC_SESSION_GAP
          SchedPeriod,  \* ticks between two looks at the schedules (0: every pass)
          QueueCap,     \* slots of trigger_queue
          TaskIds,      \* task identifiers
          Faults,       \* which of "store", "close", "start", "read", "crash",
                        \* "stall" can happen
          MaxDelay,     \* bound: ticks ahead a task may be scheduled
          MaxOwner,     \* bound: messages the owner sends
          MaxMail,      \* bound: mails the agents send
          MaxCrashes    \* bound: daemon deaths

ASSUME DispatchAssumption ==
    /\ NumAgents \in Nat \ {0}
    /\ Gap \in Nat \ {0}
    /\ SchedPeriod \in Nat
    /\ QueueCap \in Nat \ {0}
    /\ MaxDelay \in Nat \ {0}
    /\ MaxOwner \in Nat
    /\ MaxMail \in Nat
    /\ MaxCrashes \in Nat

Agents == 1..NumAgents

VARIABLES
    at, qi, ai,         \* main thread: where it is, its two loop indices
    check,              \* dispatch's parameter check_schedule
    schedAge,           \* now - last_sched, saturating at SchedPeriod
    aged,               \* per agent: now_s - last_session_time >= Gap
    batch,              \* mail already read and unlinked by this receive
    due,                \* tasks returned by sched_get_due, not yet marked
    triggerQueue,       \* owner messages waiting for their agent
    busy, age,          \* per agent: the two atomics
    thread,             \* session threads
    record,             \* per agent: its newest session record; see CloseRecord
    inbox,              \* per agent: mail files on disk
    task                \* per agent: the task list on disk

(* History, read by properties and bounds only. *)
VARIABLES
    quiet,              \* per agent: ticks since its last session returned
    newest,             \* per agent: last owner message taken off the queue
    sent, ran, lost,    \* jobs sent, given to a session, dropped
    fired,              \* <<agent, task>>: a session started for this run
    nOwner, nMail, crashes

main    == <<at, qi, ai, check, schedAge, aged, batch, due, triggerQueue>>
workers == <<busy, age, thread, record>>
disk    == <<inbox, task>>
history == <<quiet, newest, sent, ran, lost, fired, nOwner, nMail, crashes>>
vars    == <<main, workers, disk, history>>

-----------------------------------------------------------------------------
(* Values *)

NoThread == [agent |-> 0, pc |-> "none", kind |-> "none", jobs |-> {},
             recorded |-> FALSE]
NoTask   == [on |-> FALSE, left |-> 0, every |-> 0]

TaskState == [on : BOOLEAN, left : 0..MaxDelay, every : 0..MaxDelay]
ThreadState ==
    [agent : 0..NumAgents, pc : {"none", "run", "time", "idle"},
     kind : {"none", "owner", "mail", "task"},
     jobs : SUBSET (Nat \cup TaskIds), recorded : BOOLEAN]
Entry     == [agent : Agents, id : 1..MaxOwner]

\* A job is an owner message or a mail: its kind, its agent, its number.
OwnerJob(a, n) == <<"owner", a, n>>
MailJobs(a, S) == {<<"mail", a, n>> : n \in S}

Live(w) == thread[w].pc # "none"

\* Jobs not yet handed to a session: queued, on disk, or just read.
Waiting ==
    {OwnerJob(triggerQueue[i].agent, triggerQueue[i].id) :
        i \in 1..Len(triggerQueue)}
    \cup (UNION {MailJobs(a, inbox[a]) : a \in Agents})
    \cup (IF ai \in Agents THEN MailJobs(ai, batch) ELSE {})

-----------------------------------------------------------------------------
(* Start: nothing runs, every agent is past its gap (last_session_time is   *)
(* set to -TC_SESSION_GAP), the disk may hold tasks.                        *)

Init ==
    /\ at = "poll" /\ qi = 1 /\ ai = 1
    /\ check = FALSE
    /\ schedAge = SchedPeriod
    /\ aged = [a \in Agents |-> FALSE]
    /\ batch = {} /\ due = {}
    /\ triggerQueue = <<>>
    /\ busy = [a \in Agents |-> FALSE]
    /\ age = [a \in Agents |-> Gap]
    /\ thread = [w \in Threads |-> NoThread]
    /\ record = [a \in Agents |-> "ended"]
    /\ inbox = [a \in Agents |-> {}]
    /\ task \in [Agents -> [TaskIds -> {NoTask} \cup
                   {[on |-> TRUE, left |-> 0, every |-> e] : e \in {0, MaxDelay}}]]
    /\ quiet = [a \in Agents |-> Gap]
    /\ newest = [a \in Agents |-> 0]
    /\ sent = {} /\ ran = {} /\ lost = {} /\ fired = {}
    /\ nOwner = 0 /\ nMail = 0 /\ crashes = 0

-----------------------------------------------------------------------------
(* start_session: the record, the busy flag, the thread.  Both failures     *)
(* (no memory before the record exists, no thread after it) drop the        *)
(* trigger; what follows the call in dispatch happens all the same.         *)

\* session_set_status makes the record closed or failed ("ended").  Nobody
\* looks whether it could: a record that could not be loaded or saved stays
\* active on disk ("left"), as does that of a session the daemon dies with.
CloseRecord(a) ==
    \E end \in {"ended"} \cup (IF "close" \in Faults THEN {"left"} ELSE {}) :
        record' = [record EXCEPT ![a] = end]

\* Mutant: the thread-creation failure path leaves the record open.
FailedRecordOpen(a) == record' = [record EXCEPT ![a] = "active"]

FailedRecord(a) == CloseRecord(a)
SetBusy(a) == busy' = [busy EXCEPT ![a] = TRUE]

SessionStarts(a, kind, jobs) ==
    \E w \in Threads, stored \in BOOLEAN :
        /\ ~stored => "store" \in Faults
        /\ w = CHOOSE v \in Threads : ~Live(v)
        /\ ~Live(w)
        /\ thread' = [thread EXCEPT ![w] =
             [agent |-> a, pc |-> "run", kind |-> kind, jobs |-> jobs,
              recorded |-> stored]]
        /\ record' = IF stored THEN [record EXCEPT ![a] = "active"] ELSE record
        /\ SetBusy(a)

SessionFails(a) ==
    /\ "start" \in Faults
    /\ \/ UNCHANGED record
       \/ FailedRecord(a)
    /\ UNCHANGED <<busy, thread>>

StartSession(a, kind, jobs, jobNames) ==
    \/ /\ SessionStarts(a, kind, jobs)
       /\ ran' = ran \cup jobNames
       /\ fired' = IF kind = "task" THEN fired \cup ({a} \X jobs) ELSE fired
       /\ UNCHANGED lost
    \/ /\ SessionFails(a)
       /\ lost' = lost \cup jobNames
       /\ UNCHANGED <<ran, fired>>

-----------------------------------------------------------------------------
(* Owner messages: on_irc_trigger and enqueue_trigger, called by the main   *)
(* thread from the IRC, socket and TUI handlers.                            *)

Everyone == 0      \* the address "all"

Addressed(to, n) ==
    IF to = Everyone THEN [a \in Agents |-> [agent |-> a, id |-> n]]
    ELSE <<[agent |-> to, id |-> n]>>

Fits(n) == IF n < QueueCap THEN n ELSE QueueCap

Enqueue(q, new) == SubSeq(q \o new, 1, Fits(Len(q) + Len(new)))

OwnerMessage(to) ==
    /\ at = "poll"
    /\ nOwner < MaxOwner
    /\ nOwner' = nOwner + 1
    /\ LET new  == Addressed(to, nOwner + 1)
           kept == Enqueue(triggerQueue, new)
       IN  /\ triggerQueue' = kept
           /\ sent' = sent \cup {OwnerJob(new[k].agent, nOwner + 1) : k \in 1..Len(new)}
           /\ lost' = lost \cup {OwnerJob(new[k].agent, nOwner + 1) :
                k \in {j \in 1..Len(new) : Len(triggerQueue) + j > QueueCap}}
    /\ UNCHANGED <<at, qi, ai, check, schedAge, aged, batch, due, workers, disk,
                   quiet, newest, ran, fired, nMail, crashes>>

-----------------------------------------------------------------------------
(* dispatch, first loop: owner messages in order.  agent_idle loads busy    *)
(* and then last_session_time.                                              *)

DispatchBegin ==
    /\ at = "poll"
    /\ at' = "queue"
    /\ aged' = [a \in Agents |-> age[a] >= Gap]
    /\ check' = (schedAge >= SchedPeriod)
    /\ schedAge' = IF check' THEN 0 ELSE schedAge
    /\ UNCHANGED <<qi, ai, batch, due, triggerQueue, workers, disk, history>>

\* Mutant: the flag is not looked at.
IgnoresBusy(a) == FALSE
IsBusy(a) == busy[a]

QueueBusy ==
    /\ at = "queue"
    /\ qi <= Len(triggerQueue)
    /\ IF IsBusy(triggerQueue[qi].agent)
       THEN qi' = qi + 1 /\ UNCHANGED at
       ELSE at' = "queueGap" /\ UNCHANGED qi
    /\ UNCHANGED <<ai, check, schedAge, aged, batch, due, triggerQueue, workers,
                   disk, history>>

\* Mutant: the last entry fills the hole (as remove_tui_client does).
SwapRemove(q, i) == SubSeq([q EXCEPT ![i] = q[Len(q)]], 1, Len(q) - 1)

Without(q, i) == SubSeq(q, 1, i - 1) \o SubSeq(q, i + 1, Len(q))

QueueSkip ==
    /\ at = "queueGap"
    /\ ~aged[triggerQueue[qi].agent]
    /\ at' = "queue" /\ qi' = qi + 1
    /\ UNCHANGED <<ai, check, schedAge, aged, batch, due, triggerQueue, workers,
                   disk, history>>

QueueStart ==
    /\ at = "queueGap"
    /\ LET e == triggerQueue[qi]
       IN  /\ aged[e.agent]
           /\ StartSession(e.agent, "owner", {e.id}, {OwnerJob(e.agent, e.id)})
           /\ newest' = [newest EXCEPT ![e.agent] = e.id]
    /\ triggerQueue' = Without(triggerQueue, qi)
    /\ at' = "queue"
    /\ UNCHANGED <<qi, ai, check, schedAge, aged, batch, due, age, disk, quiet,
                   sent, nOwner, nMail, crashes>>

QueueEnd ==
    /\ at = "queue"
    /\ qi > Len(triggerQueue)
    /\ at' = "agents" /\ qi' = 1
    /\ UNCHANGED <<ai, check, schedAge, aged, batch, due, triggerQueue, workers,
                   disk, history>>

-----------------------------------------------------------------------------
(* dispatch, second loop: mail and due tasks, agent by agent.               *)

\* Mutant: the owner's messages get no priority.
NeverQueued(a) == FALSE
QueuedFor(a) == \E i \in 1..Len(triggerQueue) : triggerQueue[i].agent = a

NextAgent == at' = "agents" /\ ai' = ai + 1

AgentBusy ==
    /\ at = "agents"
    /\ ai \in Agents
    /\ IF IsBusy(ai)
       THEN NextAgent
       ELSE at' = "agentGap" /\ UNCHANGED ai
    /\ UNCHANGED <<qi, check, schedAge, aged, batch, due, triggerQueue, workers,
                   disk, history>>

AgentGap ==
    /\ at = "agentGap"
    /\ IF ~aged[ai] \/ QueuedFor(ai)
       THEN NextAgent
       ELSE at' = "receive" /\ UNCHANGED ai
    /\ UNCHANGED <<qi, check, schedAge, aged, batch, due, triggerQueue, workers,
                   disk, history>>

\* messenger_receive, under the messenger's lock: read one file, unlink it -
\* even when it could not be read or parsed.
\* Mutant: the file stays.
KeepsFile(a, m) == UNCHANGED inbox
Unlink(a, m) == inbox' = [inbox EXCEPT ![a] = @ \ {m}]

ReceiveOne ==
    /\ at = "receive"
    /\ \E m \in inbox[ai] \ batch :
         /\ Unlink(ai, m)
         /\ \/ batch' = batch \cup {m} /\ UNCHANGED lost
            \/ /\ "read" \in Faults
               /\ lost' = lost \cup MailJobs(ai, {m})
               /\ UNCHANGED batch
    /\ UNCHANGED <<at, qi, ai, check, schedAge, aged, due, triggerQueue, workers,
                   task, quiet, newest, sent, ran, fired, nOwner, nMail, crashes>>

MailStart ==
    /\ at = "receive"
    /\ inbox[ai] \subseteq batch
    /\ batch # {}
    /\ StartSession(ai, "mail", batch, MailJobs(ai, batch))
    /\ batch' = {}
    /\ NextAgent
    /\ UNCHANGED <<qi, check, schedAge, aged, due, triggerQueue, age, disk,
                   quiet, newest, sent, nOwner, nMail, crashes>>

NoMail ==
    /\ at = "receive"
    /\ inbox[ai] = {}
    /\ batch = {}
    /\ IF check THEN at' = "due" /\ UNCHANGED ai ELSE NextAgent
    /\ UNCHANGED <<qi, check, schedAge, aged, batch, due, triggerQueue, workers,
                   disk, history>>

\* sched_get_due
\* Mutant: recurring tasks are overlooked.
OneShotDue(a) ==
    {t \in TaskIds : task[a][t].on /\ task[a][t].left = 0 /\ task[a][t].every = 0}

DueTasks(a) == {t \in TaskIds : task[a][t].on /\ task[a][t].left = 0}

DueNone ==
    /\ at = "due"
    /\ DueTasks(ai) = {}
    /\ NextAgent
    /\ UNCHANGED <<qi, check, schedAge, aged, batch, due, triggerQueue, workers,
                   disk, history>>

DueStart ==
    /\ at = "due"
    /\ DueTasks(ai) # {}
    /\ due' = DueTasks(ai)
    /\ StartSession(ai, "task", DueTasks(ai), {})
    /\ at' = "mark"
    /\ UNCHANGED <<qi, ai, check, schedAge, aged, batch, triggerQueue, age, disk,
                   quiet, newest, sent, nOwner, nMail, crashes>>

\* sched_mark_done: a one-shot task goes away, a recurring one moves to its
\* next run after now; where in the interval that falls depends on how late
\* the run was.
Marked(k) ==
    IF ~k.on \/ k.every = 0 THEN {NoTask}
    ELSE IF k.left > 0 THEN {k}
    ELSE {[k EXCEPT !.left = l] : l \in 1..k.every}

MarkTasks(a, ids) ==
    \E next \in [ids -> TaskState] :
        /\ \A t \in ids : next[t] \in Marked(task[a][t])
        /\ task' = [task EXCEPT ![a] =
             [t \in TaskIds |-> IF t \in ids THEN next[t] ELSE @[t]]]

\* Mutant: marks whatever is due by now, not the tasks the session was given.
MarksDueNow(ids) == DueTasks(ai)
ToMark(ids) == ids

MarkDone ==
    /\ at = "mark"
    /\ MarkTasks(ai, ToMark(due))
    /\ fired' = fired \ ({ai} \X due)
    /\ due' = {}
    /\ NextAgent
    /\ UNCHANGED <<qi, check, schedAge, aged, batch, triggerQueue, workers, inbox,
                   quiet, newest, sent, ran, lost, nOwner, nMail, crashes>>

AgentsEnd ==
    /\ at = "agents"
    /\ ai > NumAgents
    /\ at' = "poll" /\ ai' = 1
    /\ check' = FALSE
    /\ aged' = [a \in Agents |-> FALSE]
    /\ UNCHANGED <<qi, schedAge, batch, due, triggerQueue, workers, disk, history>>

MainStep ==
    \/ DispatchBegin
    \/ QueueBusy \/ QueueSkip \/ QueueStart \/ QueueEnd
    \/ AgentBusy \/ AgentGap
    \/ ReceiveOne \/ MailStart \/ NoMail
    \/ DueNone \/ DueStart \/ MarkDone
    \/ AgentsEnd

-----------------------------------------------------------------------------
(* Session threads.  While agent_run_session runs, the tools may write mail *)
(* for the other agents and change the agent's own tasks.                   *)

Running(w) == thread[w].pc = "run"

SendMail(w, to) ==
    /\ Running(w)
    /\ to # thread[w].agent
    /\ at # "receive"                     \* the messenger's lock is free
    /\ nMail < MaxMail
    /\ nMail' = nMail + 1
    /\ inbox' = [inbox EXCEPT ![to] = @ \cup {nMail + 1}]
    /\ sent' = sent \cup MailJobs(to, {nMail + 1})
    /\ UNCHANGED <<main, workers, task, quiet, newest, ran, lost, fired, nOwner,
                   crashes>>

\* schedule_task and update_task (l = 0: no run_at given).  A run_at that is
\* not in the future is refused or moved forward.
SetTask(w, t, l, e) ==
    /\ Running(w)
    /\ LET a == thread[w].agent
       IN  /\ ~task[a][t].on => l > 0 /\ t \notin due   \* a new identifier
           /\ task' = [task EXCEPT ![a][t] =
                [on |-> TRUE, left |-> IF l = 0 THEN @.left ELSE l, every |-> e]]
    /\ UNCHANGED <<main, workers, inbox, history>>

CancelTask(w, t) ==
    /\ Running(w)
    /\ task[thread[w].agent][t].on
    /\ task' = [task EXCEPT ![thread[w].agent][t] = NoTask]
    /\ UNCHANGED <<main, workers, inbox, history>>

\* agent_run_session returns, session_set_status closes the record.
SessionReturns(w) ==
    /\ Running(w)
    /\ thread' = [thread EXCEPT ![w].pc = "time"]
    /\ IF thread[w].recorded THEN CloseRecord(thread[w].agent) ELSE UNCHANGED record
    /\ quiet' = [quiet EXCEPT ![thread[w].agent] = 0]
    /\ UNCHANGED <<main, busy, age, disk, newest, sent, ran, lost, fired, nOwner,
                   nMail, crashes>>

\* Mutant: last_session_time is not stored.
ForgetsTime(w) ==
    /\ thread[w].pc = "time"
    /\ thread' = [thread EXCEPT ![w].pc = "idle"]
    /\ UNCHANGED <<main, age, busy, record, disk, history>>

StoreTime(w) ==
    /\ thread[w].pc = "time"
    /\ thread' = [thread EXCEPT ![w].pc = "idle"]
    /\ age' = [age EXCEPT ![thread[w].agent] = 0]
    /\ aged' = [aged EXCEPT ![thread[w].agent] = FALSE]   \* last >= now_s
    /\ UNCHANGED <<at, qi, ai, check, schedAge, batch, due, triggerQueue,
                   busy, record, disk, history>>

\* Mutant: the flag is left up.
StaysBusy(w) ==
    /\ thread[w].pc = "idle"
    /\ thread' = [thread EXCEPT ![w] = NoThread]
    /\ UNCHANGED <<main, busy, age, record, disk, history>>

StoreIdle(w) ==
    /\ thread[w].pc = "idle"
    /\ thread' = [thread EXCEPT ![w] = NoThread]
    /\ busy' = [busy EXCEPT ![thread[w].agent] = FALSE]
    /\ UNCHANGED <<main, age, record, disk, history>>

ThreadStep(w) ==
    \/ \E to \in Agents : SendMail(w, to)
    \/ \E t \in TaskIds, l \in 0..MaxDelay, e \in {0, MaxDelay} :
         SetTask(w, t, l, e)
    \/ \E t \in TaskIds : CancelTask(w, t)
    \/ SessionReturns(w) \/ StoreTime(w) \/ StoreIdle(w)

-----------------------------------------------------------------------------
(* Time, and the end of the process (a crash, or the owner's stop: detached *)
(* sessions are abandoned and the queue is freed) followed by a restart.    *)

Older(n, cap) == IF n < cap THEN n + 1 ELSE n

\* The two stores that end a session are adjacent: only under the fault
\* "stall" is its thread held up for the whole gap between them.
StoresInTime ==
    \A w \in Threads : thread[w].pc = "idle" => age[thread[w].agent] + 1 < Gap

Tick ==
    /\ "stall" \in Faults \/ StoresInTime
    /\ age' = [a \in Agents |-> Older(age[a], Gap)]
    /\ quiet' = [a \in Agents |-> Older(quiet[a], Gap)]
    /\ schedAge' = Older(schedAge, SchedPeriod)
    /\ task' = [a \in Agents |-> [t \in TaskIds |->
         IF task[a][t].left > 0 THEN [task[a][t] EXCEPT !.left = @ - 1]
         ELSE task[a][t]]]
    /\ UNCHANGED <<at, qi, ai, check, aged, batch, due, triggerQueue, busy, thread,
                   record, inbox, newest, sent, ran, lost, fired, nOwner, nMail, crashes>>

Crash ==
    /\ "crash" \in Faults
    /\ crashes < MaxCrashes
    /\ crashes' = crashes + 1
    /\ lost' = lost \cup {j \in Waiting : j[1] = "owner"}
                    \cup (IF ai \in Agents THEN MailJobs(ai, batch) ELSE {})
    /\ at' = "poll" /\ qi' = 1 /\ ai' = 1
    /\ check' = FALSE
    /\ schedAge' = SchedPeriod
    /\ aged' = [a \in Agents |-> FALSE]
    /\ batch' = {} /\ due' = {}
    /\ triggerQueue' = <<>>
    /\ busy' = [a \in Agents |-> FALSE]
    /\ age' = [a \in Agents |-> Gap]
    /\ thread' = [w \in Threads |-> NoThread]
    /\ record' = [a \in Agents |-> IF record[a] = "active" THEN "left" ELSE record[a]]
    /\ quiet' = [a \in Agents |-> Gap]
    /\ UNCHANGED <<disk, newest, sent, ran, fired, nOwner, nMail>>

Next ==
    \/ \E to \in Agents \cup {Everyone} : OwnerMessage(to)
    \/ MainStep
    \/ \E w \in Threads : ThreadStep(w)
    \/ Tick
    \/ Crash

Spec == Init /\ [][Next]_vars

(* The main loop polls for at most a second and goes on, every session ends *)
(* (turns, retries and timeouts are bounded), time passes.                  *)
Fairness ==
    /\ WF_vars(MainStep)
    /\ \A w \in Threads : WF_vars(SessionReturns(w) \/ StoreTime(w) \/ StoreIdle(w))
    /\ WF_vars(Tick)

FairSpec == Spec /\ Fairness

-----------------------------------------------------------------------------
(* Properties *)

MainType ==
    /\ at \in {"poll", "queue", "queueGap", "agents", "agentGap", "receive",
               "due", "mark"}
    /\ qi \in Nat \ {0}
    /\ ai \in 1..NumAgents + 1
    /\ check \in BOOLEAN
    /\ schedAge \in 0..SchedPeriod
    /\ aged \in [Agents -> BOOLEAN]
    /\ batch \subseteq 1..MaxMail
    /\ due \subseteq TaskIds

QueueType ==
    /\ triggerQueue \in Seq(Entry)
    /\ Len(triggerQueue) <= QueueCap

WorkerType ==
    /\ busy \in [Agents -> BOOLEAN]
    /\ age \in [Agents -> 0..Gap]
    /\ thread \in [Threads -> ThreadState]
    /\ record \in [Agents -> {"active", "ended", "left"}]

DiskType ==
    /\ inbox \in [Agents -> SUBSET (1..MaxMail)]
    /\ task \in [Agents -> [TaskIds -> TaskState]]

HistoryType ==
    /\ quiet \in [Agents -> 0..Gap]
    /\ newest \in [Agents -> 0..MaxOwner]
    /\ fired \subseteq Agents \X TaskIds
    /\ nOwner \in 0..MaxOwner
    /\ nMail \in 0..MaxMail
    /\ crashes \in 0..MaxCrashes

(* The type invariant: every variable stays in its range, among them the    *)
(* queue, which never holds more than the slots of trigger_queue.           *)
TypeOK == MainType /\ QueueType /\ WorkerType /\ DiskType /\ HistoryType

(* "One session per trigger, one at a time per agent" (internals.md): two   *)
(* live session threads never belong to the same agent, although the main   *)
(* thread learns that a session is over only from the flag its thread        *)
(* stores last.                                                             *)
OneSessionPerAgent ==
    \A v, w \in Threads :
        Live(v) /\ Live(w) /\ thread[v].agent = thread[w].agent => v = w

(* The strengthening that makes the previous property and the next ones     *)
(* inductive.  The main thread acts on what it loaded some steps ago (the   *)
(* flag is down, the gap is over, no owner message waits): all of it still  *)
(* holds when the session starts.                                           *)
MainIsRight ==
    /\ at = "queueGap" =>
         qi <= Len(triggerQueue) /\ ~busy[triggerQueue[qi].agent]
    /\ at \in {"agentGap", "receive", "due"} => ai \in Agents /\ ~busy[ai]
    /\ at \in {"receive", "due"} => aged[ai] /\ ~QueuedFor(ai)
    /\ at = "mark" => ai \in Agents

FlagCoversThread ==
    \A w \in Threads :
        Live(w) => thread[w].agent \in Agents /\ busy[thread[w].agent]

\* Between its return and its store, a session's time is not known yet.
Unstored(a) == \E w \in Threads : thread[w].pc = "time" /\ thread[w].agent = a

TimesAreSafe ==
    \A a \in Agents :
        ~Unstored(a) => age[a] <= quiet[a] /\ (aged[a] => quiet[a] >= Gap)

DispatchInv ==
    MainIsRight /\ FlagCoversThread /\ OneSessionPerAgent /\ TimesAreSafe

(* The 5-second gap: a session starts only when the agent's previous one    *)
(* returned at least Gap ticks ago, even though dispatch tests the gap with *)
(* a time it read at the start of the pass and a session may end, and store *)
(* its time, in the middle of that pass.                                    *)
SessionGap ==
    [][\A w \in Threads :
         ~Live(w) /\ Live(w)' => quiet[thread'[w].agent] >= Gap]_vars

(* "owner messages first (in order)" (comment of dispatch): what is still   *)
(* queued for an agent is newer than everything taken off the queue, and in *)
(* the order it was sent.                                                   *)
OwnerOrder ==
    \A i \in 1..Len(triggerQueue) :
        /\ triggerQueue[i].id > newest[triggerQueue[i].agent]
        /\ \A j \in 1..i - 1 :
             triggerQueue[j].agent = triggerQueue[i].agent =>
                 triggerQueue[j].id < triggerQueue[i].id

(* "owner messages first": mail or a task starts a session only when no     *)
(* owner message waits for that agent.                                      *)
OwnerFirst ==
    [][\A w \in Threads :
         ~Live(w) /\ Live(w)' /\ thread'[w].kind # "owner"
             => ~\E i \in 1..Len(triggerQueue) :
                    triggerQueue[i].agent = thread'[w].agent]_vars

(* The types; no job is lost silently, none is started twice: every owner   *)
(* message and every mail is in exactly one place - waiting, given to a     *)
(* session, or dropped - across full queues, failed starts and restarts;    *)
(* and owner messages stay in order when no session thread is held up       *)
(* between the two stores that end it.                                      *)
JobsConserved ==
    /\ TypeOK
    /\ sent = Waiting \cup ran \cup lost
    /\ Waiting \cap ran = {}
    /\ Waiting \cap lost = {}
    /\ ran \cap lost = {}
    /\ "stall" \in Faults \/ OwnerOrder

(* "Mail and tasks stay on disk until their agent is free, so nothing is    *)
(* lost": mail leaves the disk only while the agent's flag is down and no   *)
(* session thread of the agent is left.                                     *)
MailWaitsOnDisk ==
    [][\A a \in Agents :
         ~(inbox[a] \subseteq inbox'[a]) =>
             /\ ~busy[a]
             /\ \A w \in Threads : Live(w) => thread[w].agent # a]_vars

(* A record is active while its session runs, and stays active after it     *)
(* only when the daemon died first or session_set_status failed, which the  *)
(* worker and the failure path of start_session both ignore: neither path   *)
(* leaves out the call.                                                     *)
RecordsClosed ==
    \A a \in Agents :
        record[a] = "active" =>
            \E w \in Threads : Running(w) /\ thread[w].agent = a

(* sched_mark_done drops or moves only tasks a session was started for: a   *)
(* task that becomes due while the pass goes on keeps its run, and a crash  *)
(* before the mark leaves it on disk (it runs again, it is not lost).       *)
TaskRunsBeforeItGoes ==
    [][\A a \in Agents, t \in TaskIds :
         at = "mark" /\ at' = "agents" /\ task[a][t] # task'[a][t] =>
             <<a, t>> \in fired]_vars

(* A task that waits for a later time is never removed by the dispatcher:   *)
(* "Mail and tasks stay on disk until their agent is free, so nothing is    *)
(* lost" (comment of dispatch).                                             *)
RescheduledTaskKept ==
    [][\A a \in Agents, t \in TaskIds :
         at = "mark" /\ at' = "agents" /\ task[a][t].on /\ task[a][t].left > 0 =>
             task'[a][t].on]_vars

(* Every message the owner sends is given to a session (or dropped because  *)
(* the queue was full or the session could not start).                      *)
OwnerServed ==
    \A a \in Agents, n \in 1..MaxOwner :
        OwnerJob(a, n) \in sent ~> OwnerJob(a, n) \in ran \cup lost

(* Every mail is given to a session once the owner stops writing (or        *)
(* dropped because the session could not start).                            *)
MailServed ==
    \A a \in Agents, n \in 1..MaxMail :
        <<"mail", a, n>> \in sent ~> <<"mail", a, n>> \in ran \cup lost

(* Owner messages and mail are all served: no agent's flag stays up, and    *)
(* neither kind keeps the other out for good.                               *)
JobsServed == OwnerServed /\ MailServed

(* A due task starts a session, unless a running session moves or cancels   *)
(* it first.                                                                *)
TaskServed ==
    \A a \in Agents, t \in TaskIds :
        LET Overdue == task[a][t].on /\ task[a][t].left = 0
        IN  Overdue ~>
              \/ ~Overdue
              \/ \E w \in Threads : thread[w].agent = a /\ t \in thread[w].jobs

-----------------------------------------------------------------------------
(* Refinement: the abstract job server, with the jobs of the live session   *)
(* threads in service.                                                      *)

InService(a) ==
    UNION {IF thread[w].kind = "task" THEN {<<"task", a, 0>>}
           ELSE {<<thread[w].kind, a, n>> : n \in thread[w].jobs} :
             w \in {v \in Threads : Live(v) /\ thread[v].agent = a}}

Jobs == INSTANCE AgentJobs WITH
            waiting <- Waiting,
            serving <- [a \in Agents |-> InService(a)],
            gone    <- lost

(* The dispatcher implements the abstract job server when no session thread *)
(* is held up between its last two stores: every agent is given one job at  *)
(* a time, owner messages oldest first and before mail and tasks, and       *)
(* nothing leaves the system in any other way.                              *)
ImplementsAgentJobs == Jobs!JobsSpec
=============================================================================
