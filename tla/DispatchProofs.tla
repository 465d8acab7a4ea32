--------------------------- MODULE DispatchProofs ---------------------------
(***************************************************************************)
(* Proofs about Dispatch, for every number of agents, threads, tasks and    *)
(* every value of the bounds.                                               *)
(***************************************************************************)
EXTENDS Dispatch, SequenceTheorems, TLAPS

(* What enqueue_trigger leaves in the queue: entries, and no more than fit. *)
LEMMA EnqueueType ==
    ASSUME NEW q \in Seq(Entry), NEW new \in Seq(Entry), QueueCap \in Nat
    PROVE  /\ Enqueue(q, new) \in Seq(Entry)
           /\ Len(Enqueue(q, new)) <= QueueCap
<1> DEFINE all == q \o new
<1>1. all \in Seq(Entry) /\ Len(all) = Len(q) + Len(new)
  BY ConcatProperties
<1>2. Len(q) \in Nat /\ Len(new) \in Nat
  BY LenProperties
<1>3. Fits(Len(q) + Len(new)) \in 0..Len(all) /\ Fits(Len(q) + Len(new)) <= QueueCap
  BY <1>1, <1>2 DEF Fits
<1> HIDE DEF all
<1>4. \A i \in 1..Fits(Len(q) + Len(new)) : all[i] \in Entry
  BY <1>1, <1>3, ElementOfSeq
<1>5. /\ SubSeq(all, 1, Fits(Len(q) + Len(new))) \in Seq(Entry)
      /\ Len(SubSeq(all, 1, Fits(Len(q) + Len(new)))) =
           IF 1 <= Fits(Len(q) + Len(new)) THEN Fits(Len(q) + Len(new)) - 1 + 1 ELSE 0
  BY <1>3, <1>4, SubSeqProperties
<1>6. Len(SubSeq(all, 1, Fits(Len(q) + Len(new)))) <= QueueCap
  BY <1>3, <1>5
<1> QED
  BY <1>5, <1>6 DEF Enqueue, all

(* Taking one entry out of the queue. *)
LEMMA WithoutType ==
    ASSUME NEW q \in Seq(Entry), NEW i \in 1..Len(q)
    PROVE  /\ Without(q, i) \in Seq(Entry)
           /\ Len(Without(q, i)) = Len(q) - 1
           /\ \A k \in 1..Len(q) - 1 :
                Without(q, i)[k] = IF k < i THEN q[k] ELSE q[k + 1]
<1> DEFINE l == SubSeq(q, 1, i - 1)
           r == SubSeq(q, i + 1, Len(q))
<1>1. Len(q) \in Nat
  BY LenProperties
<1>2. \A k \in 1..Len(q) : q[k] \in Entry
  BY ElementOfSeq
<1>3. /\ l \in Seq(Entry)
      /\ Len(l) = IF 1 <= i - 1 THEN i - 1 - 1 + 1 ELSE 0
      /\ \A k \in 1..i - 1 - 1 + 1 : l[k] = q[1 + k - 1]
  <2>1. \A k \in 1..i - 1 : q[k] \in Entry
    BY <1>1, <1>2
  <2> QED
    BY <1>1, <2>1, SubSeqProperties
<1>4. /\ r \in Seq(Entry)
      /\ Len(r) = IF i + 1 <= Len(q) THEN Len(q) - (i + 1) + 1 ELSE 0
      /\ \A k \in 1..Len(q) - (i + 1) + 1 : r[k] = q[i + 1 + k - 1]
  <2>1. \A k \in i + 1..Len(q) : q[k] \in Entry
    BY <1>1, <1>2
  <2> QED
    BY <1>1, <2>1, SubSeqProperties
<1> HIDE DEF l, r
<1>5. /\ l \o r \in Seq(Entry)
      /\ Len(l \o r) = Len(l) + Len(r)
      /\ \A k \in 1..Len(l) + Len(r) :
           (l \o r)[k] = IF k <= Len(l) THEN l[k] ELSE r[k - Len(l)]
  BY <1>3, <1>4, ConcatProperties
<1>6. Len(l) = i - 1 /\ Len(r) = Len(q) - i
  BY <1>1, <1>3, <1>4
<1>7. ASSUME NEW k \in 1..Len(q) - 1
      PROVE  (l \o r)[k] = IF k < i THEN q[k] ELSE q[k + 1]
  BY <1>1, <1>3, <1>4, <1>5, <1>6
<1>8. Without(q, i) = l \o r
  BY DEF Without, l, r
<1>9. Len(l \o r) = Len(q) - 1
  BY <1>1, <1>5, <1>6
<1> QED
  BY <1>5, <1>7, <1>8, <1>9

(* A function on 1..n is a sequence. *)
LEMMA FunIsSeq ==
    ASSUME NEW n \in Nat, NEW S, NEW f \in [1..n -> S]
    PROVE  f \in Seq(S)
<1>1. f \in UNION {[1..m -> S] : m \in Nat}
  OBVIOUS
<1> QED
  BY <1>1, SeqDef

(* on_irc_trigger addresses one agent or all of them.                       *)
LEMMA AddressedType ==
    ASSUME DispatchAssumption, NEW to \in Agents \cup {Everyone},
           NEW n \in 1..MaxOwner
    PROVE  Addressed(to, n) \in Seq(Entry)
<1>1. CASE to = Everyone
  <2>1. \A a \in Agents : [agent |-> a, id |-> n] \in Entry
    BY DEF Entry
  <2>2. [a \in Agents |-> [agent |-> a, id |-> n]] \in [1..NumAgents -> Entry]
    BY <2>1, Zenon DEF Agents
  <2>3. [a \in Agents |-> [agent |-> a, id |-> n]] \in Seq(Entry)
    BY <2>2, FunIsSeq DEF DispatchAssumption
  <2> QED
    BY <1>1, <2>3 DEF Addressed
<1>2. CASE to # Everyone
  <2>1. [agent |-> to, id |-> n] \in Entry
    BY <1>2 DEF Entry
  <2> QED
    BY <1>2, <2>1 DEF Addressed
<1> QED
  BY <1>1, <1>2

-----------------------------------------------------------------------------
(* The state of the threads after start_session, in both outcomes.          *)
LEMMA StartSessionType ==
    ASSUME WorkerType, HistoryType, age' = age, NEW a \in Agents,
           NEW kind \in {"owner", "mail", "task"},
           NEW jobs \in SUBSET (Nat \cup TaskIds), NEW names,
           kind = "task" => jobs \subseteq TaskIds,
           StartSession(a, kind, jobs, names)
    PROVE  WorkerType' /\ fired' \subseteq Agents \X TaskIds
<1>1. CASE SessionStarts(a, kind, jobs) /\
           fired' = IF kind = "task" THEN fired \cup ({a} \X jobs) ELSE fired
  <2>1. PICK w \in Threads, stored \in BOOLEAN :
          /\ thread' = [thread EXCEPT ![w] =
               [agent |-> a, pc |-> "run", kind |-> kind, jobs |-> jobs,
                recorded |-> stored]]
          /\ record' = IF stored THEN [record EXCEPT ![a] = "active"] ELSE record
          /\ busy' = [busy EXCEPT ![a] = TRUE]
    BY <1>1, Zenon DEF SessionStarts, SetBusy
  <2>2. [agent |-> a, pc |-> "run", kind |-> kind, jobs |-> jobs,
         recorded |-> stored] \in ThreadState
    BY DispatchAssumption DEF Agents, ThreadState, DispatchAssumption
  <2>3. WorkerType'
    BY <2>1, <2>2 DEF WorkerType
  <2> QED
    BY <1>1, <2>3 DEF HistoryType
<1>2. CASE SessionFails(a) /\ UNCHANGED fired
  BY <1>2 DEF SessionFails, FailedRecord, CloseRecord, WorkerType, HistoryType
<1> QED
  BY <1>1, <1>2 DEF StartSession

(* Each session tool and each store of a session thread keeps the types.    *)
LEMMA ThreadStepType ==
    ASSUME TypeOK, NEW w \in Threads, ThreadStep(w)
    PROVE  TypeOK'
<1> USE DispatchAssumption DEF main, workers, disk, history, TypeOK
<1>1. ASSUME NEW to \in Agents, SendMail(w, to) PROVE TypeOK'
  <2>1. nMail + 1 \in 1..MaxMail
    BY <1>1 DEF SendMail, HistoryType, DispatchAssumption
  <2>2. DiskType' /\ HistoryType'
    BY <1>1, <2>1 DEF SendMail, DiskType, HistoryType
  <2>3. MainType' /\ QueueType' /\ WorkerType'
    BY <1>1 DEF SendMail, MainType, QueueType, WorkerType
  <2> QED
    BY <2>2, <2>3
<1>2. ASSUME NEW t \in TaskIds, NEW l \in 0..MaxDelay, NEW e \in {0, MaxDelay},
             SetTask(w, t, l, e)
      PROVE  TypeOK'
  <2> DEFINE a == thread[w].agent
             k == [on |-> TRUE, left |-> IF l = 0 THEN task[a][t].left ELSE l,
                   every |-> e]
  <2>1. a \in Agents => k \in TaskState
    BY DEF DiskType, TaskState, DispatchAssumption
  <2>2. task' = [task EXCEPT ![a][t] = k]
    BY <1>2 DEF SetTask
  <2>a. inbox' = inbox
    BY <1>2 DEF SetTask
  <2> HIDE DEF a, k
  <2>b. ASSUME NEW b \in Agents PROVE task'[b] \in [TaskIds -> TaskState]
    <3>1. CASE b = a
      <4>1. task'[b] = [task[b] EXCEPT ![t] = k]
        BY <2>2, <3>1 DEF DiskType
      <4> QED
        BY <2>1, <3>1, <4>1 DEF DiskType
    <3>2. CASE b # a
      BY <2>2, <3>2 DEF DiskType
    <3> QED
      BY <3>1, <3>2
  <2>c. task' = [b \in Agents |-> task'[b]]
    BY <2>2 DEF DiskType
  <2>3. DiskType'
    BY <2>a, <2>b, <2>c DEF DiskType
  <2>4. MainType' /\ QueueType' /\ WorkerType' /\ HistoryType'
    BY <1>2 DEF SetTask, MainType, QueueType, WorkerType, HistoryType
  <2> QED
    BY <2>3, <2>4
<1>3. ASSUME NEW t \in TaskIds, CancelTask(w, t) PROVE TypeOK'
  <2>1. NoTask \in TaskState
    BY DEF NoTask, TaskState, DispatchAssumption
  <2>2. DiskType'
    BY <1>3, <2>1 DEF CancelTask, DiskType
  <2>3. MainType' /\ QueueType' /\ WorkerType' /\ HistoryType'
    BY <1>3 DEF CancelTask, MainType, QueueType, WorkerType, HistoryType
  <2> QED
    BY <2>2, <2>3
<1>4. ASSUME SessionReturns(w) PROVE TypeOK'
  <2>1. WorkerType'
    BY <1>4, ZenonT(60) DEF SessionReturns, CloseRecord, WorkerType, ThreadState
  <2>0. 0 \in 0..Gap
    BY DEF DispatchAssumption
  <2>2. HistoryType'
    BY <1>4, <2>0 DEF SessionReturns, HistoryType
  <2>3. MainType' /\ QueueType' /\ DiskType'
    BY <1>4 DEF SessionReturns, MainType, QueueType, DiskType
  <2> QED
    BY <2>1, <2>2, <2>3
<1>5. ASSUME StoreTime(w) PROVE TypeOK'
  <2>0. 0 \in 0..Gap
    BY DEF DispatchAssumption
  <2>1. WorkerType'
    BY <1>5, <2>0, ZenonT(60) DEF StoreTime, WorkerType, ThreadState
  <2>2. MainType'
    BY <1>5 DEF StoreTime, MainType
  <2>3. HistoryType' /\ QueueType' /\ DiskType'
    BY <1>5 DEF StoreTime, HistoryType, QueueType, DiskType
  <2> QED
    BY <2>1, <2>2, <2>3
<1>6. ASSUME StoreIdle(w) PROVE TypeOK'
  <2>1. NoThread \in ThreadState
    BY DEF NoThread, ThreadState, DispatchAssumption
  <2>2. WorkerType'
    BY <1>6, <2>1 DEF StoreIdle, WorkerType
  <2>3. MainType' /\ QueueType' /\ DiskType' /\ HistoryType'
    BY <1>6 DEF StoreIdle, MainType, QueueType, DiskType, HistoryType
  <2> QED
    BY <2>2, <2>3
<1> QED
  BY <1>1, <1>2, <1>3, <1>4, <1>5, <1>6 DEF ThreadStep

(* Type correctness of one step; the main thread's indices are right only   *)
(* because of MainIsRight.                                                  *)
LEMMA NextType == TypeOK /\ MainIsRight /\ [Next]_vars => TypeOK'
<1> SUFFICES ASSUME TypeOK, MainIsRight, [Next]_vars
             PROVE  TypeOK'
  OBVIOUS
<1> USE DispatchAssumption DEF main, workers, disk, history, TypeOK
<1>1. ASSUME NEW to \in Agents \cup {Everyone}, OwnerMessage(to)
      PROVE  TypeOK'
  <2>1. nOwner + 1 \in 1..MaxOwner
    BY <1>1 DEF OwnerMessage, HistoryType, DispatchAssumption
  <2>2. Addressed(to, nOwner + 1) \in Seq(Entry)
    BY <2>1, AddressedType
  <2>3. QueueType'
    BY <1>1, <2>2, EnqueueType DEF OwnerMessage, QueueType, DispatchAssumption
  <2>4. HistoryType'
    BY <1>1, <2>1 DEF OwnerMessage, HistoryType
  <2>5. MainType' /\ WorkerType' /\ DiskType'
    BY <1>1 DEF OwnerMessage, MainType, WorkerType, DiskType
  <2> QED
    BY <2>3, <2>4, <2>5
<1>2. ASSUME DispatchBegin PROVE TypeOK'
  <2>i. \A a \in Agents : (age[a] >= Gap) \in BOOLEAN
    BY DEF WorkerType, DispatchAssumption
  <2>ii. (schedAge >= SchedPeriod) \in BOOLEAN
    BY DEF MainType, DispatchAssumption
  <2>0. aged' \in [Agents -> BOOLEAN] /\ check' \in BOOLEAN
    BY <1>2, <2>i, <2>ii, Zenon DEF DispatchBegin
  <2>a. schedAge' \in 0..SchedPeriod
    BY <1>2 DEF DispatchBegin, MainType, DispatchAssumption
  <2>1. MainType'
    BY <1>2, <2>0, <2>a DEF DispatchBegin, MainType
  <2>2. QueueType' /\ WorkerType' /\ DiskType' /\ HistoryType'
    BY <1>2 DEF DispatchBegin, QueueType, WorkerType, DiskType, HistoryType
  <2> QED
    BY <2>1, <2>2
<1>3. ASSUME QueueBusy \/ QueueSkip \/ QueueEnd PROVE TypeOK'
  <2>0. qi' \in Nat \ {0} /\ at' \in {"queue", "queueGap", "agents"}
    BY <1>3 DEF QueueBusy, QueueSkip, QueueEnd, MainType
  <2>1. MainType'
    BY <1>3, <2>0, Zenon DEF QueueBusy, QueueSkip, QueueEnd, MainType
  <2>2. QueueType' /\ WorkerType' /\ DiskType' /\ HistoryType'
    BY <1>3 DEF QueueBusy, QueueSkip, QueueEnd, QueueType, WorkerType, DiskType,
                HistoryType
  <2> QED
    BY <2>1, <2>2
<1>4. ASSUME QueueStart PROVE TypeOK'
  <2> DEFINE e == triggerQueue[qi]
  <2>1. qi \in 1..Len(triggerQueue)
    BY <1>4 DEF QueueStart, MainIsRight, MainType, QueueType
  <2>2. e \in Entry
    BY <2>1, ElementOfSeq DEF QueueType
  <2>3. e.agent \in Agents /\ e.id \in 1..MaxOwner /\ {e.id} \subseteq Nat
    BY <2>2 DEF Entry, DispatchAssumption
  <2>4. QueueType'
    BY <1>4, <2>1, WithoutType DEF QueueStart, QueueType, DispatchAssumption
  <2>5. newest' \in [Agents -> 0..MaxOwner]
    BY <1>4, <2>3 DEF QueueStart, HistoryType, DispatchAssumption
  <2>6. WorkerType' /\ fired' \subseteq Agents \X TaskIds
    <3>1. /\ StartSession(e.agent, "owner", {e.id}, {OwnerJob(e.agent, e.id)})
          /\ age' = age
      BY <1>4 DEF QueueStart
    <3>2. {e.id} \in SUBSET (Nat \cup TaskIds)
      BY <2>3
    <3> QED
      BY <3>1, <3>2, <2>3, StartSessionType
  <2>7. MainType' /\ DiskType'
    BY <1>4 DEF QueueStart, MainType, DiskType
  <2>8. HistoryType'
    BY <1>4, <2>5, <2>6 DEF QueueStart, HistoryType
  <2> QED
    BY <2>4, <2>6, <2>7, <2>8
<1>5. ASSUME AgentBusy \/ AgentGap \/ NoMail \/ DueNone \/ AgentsEnd
      PROVE  TypeOK'
  <2>0. aged' \in [Agents -> BOOLEAN]
    BY <1>5, Zenon DEF AgentBusy, AgentGap, NoMail, DueNone, AgentsEnd, MainType
  <2>a. ai' \in 1..NumAgents + 1
    BY <1>5 DEF AgentBusy, AgentGap, NoMail, DueNone, AgentsEnd, NextAgent,
                MainType, MainIsRight, Agents, DispatchAssumption
  <2>1. MainType'
    BY <1>5, <2>0, <2>a DEF AgentBusy, AgentGap, NoMail, DueNone, AgentsEnd,
                NextAgent, MainType
  <2>2. QueueType' /\ WorkerType' /\ DiskType' /\ HistoryType'
    BY <1>5 DEF AgentBusy, AgentGap, NoMail, DueNone, AgentsEnd, QueueType,
                WorkerType, DiskType, HistoryType
  <2> QED
    BY <2>1, <2>2
<1>6. ASSUME ReceiveOne PROVE TypeOK'
  <2>1. ai \in Agents
    BY <1>6 DEF ReceiveOne, MainIsRight
  <2>2. MainType' /\ DiskType'
    BY <1>6, <2>1 DEF ReceiveOne, Unlink, MainType, DiskType
  <2>3. QueueType' /\ WorkerType' /\ HistoryType'
    BY <1>6 DEF ReceiveOne, QueueType, WorkerType, HistoryType
  <2> QED
    BY <2>2, <2>3
<1>7. ASSUME MailStart PROVE TypeOK'
  <2>1. ai \in Agents
    BY <1>7 DEF MailStart, MainIsRight
  <2>2. batch \in SUBSET (Nat \cup TaskIds)
    BY DEF MainType, DispatchAssumption
  <2>3. StartSession(ai, "mail", batch, MailJobs(ai, batch)) /\ age' = age
    BY <1>7 DEF MailStart
  <2>4. WorkerType' /\ fired' \subseteq Agents \X TaskIds
    BY <2>1, <2>2, <2>3, StartSessionType
  <2>5. MainType'
    BY <1>7, <2>1 DEF MailStart, NextAgent, MainType, Agents, DispatchAssumption
  <2>6. QueueType' /\ DiskType'
    BY <1>7 DEF MailStart, QueueType, DiskType
  <2>7. HistoryType'
    BY <1>7, <2>4 DEF MailStart, HistoryType
  <2> QED
    BY <2>4, <2>5, <2>6, <2>7
<1>8. ASSUME DueStart PROVE TypeOK'
  <2>1. ai \in Agents /\ DueTasks(ai) \in SUBSET TaskIds
    BY <1>8 DEF DueStart, MainIsRight, DueTasks
  <2>2. StartSession(ai, "task", DueTasks(ai), {}) /\ age' = age
    BY <1>8 DEF DueStart
  <2>3. WorkerType' /\ fired' \subseteq Agents \X TaskIds
    BY <2>1, <2>2, StartSessionType
  <2>4. MainType' /\ QueueType' /\ DiskType'
    BY <1>8, <2>1 DEF DueStart, MainType, QueueType, DiskType
  <2>5. HistoryType'
    BY <1>8, <2>3 DEF DueStart, HistoryType
  <2> QED
    BY <2>3, <2>4, <2>5
<1>9. ASSUME MarkDone PROVE TypeOK'
  <2>1. ai \in Agents
    BY <1>9 DEF MarkDone, MainIsRight
  <2>2. DiskType'
    BY <1>9, <2>1 DEF MarkDone, MarkTasks, DiskType
  <2>3. MainType'
    BY <1>9, <2>1 DEF MarkDone, NextAgent, MainType, Agents, DispatchAssumption
  <2>4. QueueType' /\ WorkerType' /\ HistoryType'
    BY <1>9 DEF MarkDone, QueueType, WorkerType, HistoryType
  <2> QED
    BY <2>2, <2>3, <2>4
<1>10. ASSUME NEW w \in Threads, ThreadStep(w) PROVE TypeOK'
  BY <1>10, ThreadStepType
<1>11. ASSUME Tick PROVE TypeOK'
  <2>1. ASSUME NEW a \in Agents, NEW t \in TaskIds, task[a][t].left > 0
        PROVE  [task[a][t] EXCEPT !.left = @ - 1] \in TaskState
    BY <2>1 DEF DiskType, TaskState, DispatchAssumption
  <2>2. DiskType'
    BY <1>11, <2>1 DEF Tick, DiskType
  <2>3. WorkerType'
    BY <1>11 DEF Tick, Older, WorkerType, DispatchAssumption
  <2>4. HistoryType'
    BY <1>11 DEF Tick, Older, HistoryType, DispatchAssumption
  <2>5. MainType' /\ QueueType'
    BY <1>11, SMTT(60) DEF Tick, Older, MainType, QueueType, DispatchAssumption
  <2> QED
    BY <2>2, <2>3, <2>4, <2>5
<1>12. ASSUME Crash PROVE TypeOK'
  <2>1. NoThread \in ThreadState
    BY DEF NoThread, ThreadState, DispatchAssumption
  <2>2. WorkerType'
    BY <1>12, <2>1 DEF Crash, WorkerType, DispatchAssumption
  <2>a. aged' \in [Agents -> BOOLEAN]
    BY <1>12, Zenon DEF Crash
  <2>b. ai' \in 1..NumAgents + 1 /\ schedAge' \in 0..SchedPeriod
    BY <1>12 DEF Crash, DispatchAssumption
  <2>c. QueueType'
    BY <1>12 DEF Crash, QueueType, DispatchAssumption
  <2>d. /\ at' = "poll" /\ qi' \in Nat \ {0}
        /\ batch' \subseteq 1..MaxMail /\ due' \subseteq TaskIds
    BY <1>12 DEF Crash
  <2>e. check' \in BOOLEAN
    BY <1>12, Zenon DEF Crash
  <2>3. MainType'
    BY <2>a, <2>b, <2>d, <2>e, Zenon DEF MainType
  <2>4. DiskType' /\ HistoryType'
    BY <1>12 DEF Crash, DiskType, HistoryType, DispatchAssumption
  <2> QED
    BY <2>2, <2>3, <2>4, <2>c
<1>13. CASE UNCHANGED vars
  BY <1>13 DEF vars, MainType, QueueType, WorkerType, DiskType, HistoryType
<1> QED
  BY <1>1, <1>2, <1>3, <1>4, <1>5, <1>6, <1>7, <1>8, <1>9, <1>10, <1>11, <1>12,
     <1>13 DEF Next, MainStep

-----------------------------------------------------------------------------
(* start_session on an agent whose flag is down: it has no live thread, so  *)
(* the new one is alone.                                                    *)
LEMMA StartSessionInv ==
    ASSUME WorkerType, FlagCoversThread, OneSessionPerAgent, TimesAreSafe,
           NEW a \in Agents, ~busy[a], NEW kind, NEW jobs, NEW names,
           StartSession(a, kind, jobs, names), UNCHANGED <<age, aged, quiet>>
    PROVE  FlagCoversThread' /\ OneSessionPerAgent' /\ TimesAreSafe'
<1>1. CASE SessionStarts(a, kind, jobs)
  <2>1. PICK w \in Threads, stored \in BOOLEAN :
          /\ ~Live(w)
          /\ thread' = [thread EXCEPT ![w] =
               [agent |-> a, pc |-> "run", kind |-> kind, jobs |-> jobs,
                recorded |-> stored]]
          /\ busy' = [busy EXCEPT ![a] = TRUE]
    BY <1>1, Zenon DEF SessionStarts, SetBusy
  <2>2. /\ thread'[w].agent = a /\ thread'[w].pc = "run"
        /\ \A v \in Threads \ {w} : thread'[v] = thread[v]
    BY <2>1 DEF WorkerType
  <2>3. busy'[a] /\ \A b \in Agents : busy[b] => busy'[b]
    BY <2>1 DEF WorkerType
  <2>4. \A v \in Threads : Live(v) => thread[v].agent # a
    BY DEF FlagCoversThread
  <2>5. FlagCoversThread'
    BY <2>2, <2>3 DEF FlagCoversThread, Live
  <2>6. OneSessionPerAgent'
    BY <2>1, <2>2, <2>4 DEF OneSessionPerAgent, Live
  <2>7. ASSUME NEW b \in Agents, Unstored(b) PROVE Unstored(b)'
    BY <2>1, <2>2, <2>7 DEF Unstored, Live
  <2>8. TimesAreSafe'
    BY <2>7 DEF TimesAreSafe
  <2> QED
    BY <2>5, <2>6, <2>8
<1>2. CASE SessionFails(a)
  BY <1>2 DEF SessionFails, FlagCoversThread, OneSessionPerAgent, TimesAreSafe,
              Unstored, Live
<1> QED
  BY <1>1, <1>2 DEF StartSession

(* The entry the first loop of dispatch looks at. *)
LEMMA QueueAgent ==
    ASSUME TypeOK, MainIsRight, at = "queueGap"
    PROVE  qi \in 1..Len(triggerQueue) /\ triggerQueue[qi].agent \in Agents
<1>1. qi \in 1..Len(triggerQueue)
  BY DEF MainIsRight, TypeOK, MainType, QueueType
<1>2. triggerQueue[qi] \in Entry
  BY <1>1, ElementOfSeq DEF TypeOK, QueueType
<1> QED
  BY <1>1, <1>2 DEF Entry

(* A step that touches neither the threads nor their flags and times.       *)
LEMMA QuietStep ==
    ASSUME FlagCoversThread, OneSessionPerAgent, TimesAreSafe,
           UNCHANGED <<busy, thread, age, aged, quiet>>
    PROVE  FlagCoversThread' /\ OneSessionPerAgent' /\ TimesAreSafe'
BY SMTT(60) DEF FlagCoversThread, OneSessionPerAgent, TimesAreSafe, Unstored, Live

(* Everything the main thread has established survives the steps of the     *)
(* session threads.                                                         *)
LEMMA ThreadStepInv ==
    ASSUME TypeOK, DispatchInv, NEW w \in Threads, ThreadStep(w)
    PROVE  DispatchInv'
<1> USE DEF TypeOK, DispatchInv
<1>1. CASE UNCHANGED <<busy, thread, age, aged, quiet, at, qi, ai, triggerQueue>>
  <2>1. MainIsRight'
    BY <1>1 DEF MainIsRight, QueuedFor
  <2> QED
    BY <1>1, <2>1, QuietStep
<1>2. CASE SessionReturns(w)
  <2> DEFINE a == thread[w].agent
  <2>1. /\ thread[w].pc = "run"
        /\ thread' = [thread EXCEPT ![w].pc = "time"]
        /\ quiet' = [quiet EXCEPT ![a] = 0]
        /\ UNCHANGED <<main, busy, age>>
    BY <1>2 DEF SessionReturns, Running
  <2>2. a \in Agents /\ Live(w)
    BY <2>1 DEF FlagCoversThread, Live
  <2>3. /\ thread'[w].agent = a /\ thread'[w].pc = "time"
        /\ \A v \in Threads \ {w} : thread'[v] = thread[v]
    BY <2>1 DEF WorkerType, ThreadState
  <2>4. FlagCoversThread' /\ OneSessionPerAgent'
    BY <2>1, <2>2, <2>3 DEF FlagCoversThread, OneSessionPerAgent, Live
  <2>5. MainIsRight'
    BY <2>1 DEF main, MainIsRight, QueuedFor
  <2>6. ASSUME NEW b \in Agents, ~Unstored(b)'
        PROVE  b # a /\ ~Unstored(b)
    BY <2>1, <2>3, <2>6 DEF Unstored
  <2>7. TimesAreSafe'
    BY <2>1, <2>6 DEF main, TimesAreSafe, HistoryType
  <2> QED
    BY <2>4, <2>5, <2>7
<1>3. CASE StoreTime(w)
  <2> DEFINE a == thread[w].agent
  <2>1. /\ thread[w].pc = "time"
        /\ thread' = [thread EXCEPT ![w].pc = "idle"]
        /\ age' = [age EXCEPT ![a] = 0]
        /\ aged' = [aged EXCEPT ![a] = FALSE]
        /\ UNCHANGED <<at, qi, ai, triggerQueue, busy, quiet>>
    BY <1>3 DEF StoreTime, history
  <2>2. a \in Agents /\ busy[a] /\ Live(w)
    BY <2>1 DEF FlagCoversThread, Live
  <2>3. /\ thread'[w].agent = a /\ thread'[w].pc = "idle"
        /\ \A v \in Threads \ {w} : thread'[v] = thread[v]
    BY <2>1 DEF WorkerType, ThreadState
  <2>4. FlagCoversThread' /\ OneSessionPerAgent'
    BY <2>1, <2>2, <2>3 DEF FlagCoversThread, OneSessionPerAgent, Live
  <2>5. MainIsRight'
    BY <2>1, <2>2 DEF MainIsRight, QueuedFor, MainType
  <2>6. ASSUME NEW b \in Agents, ~Unstored(b)', b # a
        PROVE  ~Unstored(b)
    BY <2>1, <2>3, <2>6 DEF Unstored
  <2>7. quiet[a] \in 0..Gap /\ age'[a] = 0 /\ ~aged'[a]
    BY <2>1, <2>2 DEF HistoryType, WorkerType, MainType
  <2>8. \A b \in Agents : b # a => age'[b] = age[b] /\ aged'[b] = aged[b]
    BY <2>1 DEF WorkerType, MainType
  <2>9. TimesAreSafe'
    BY <2>1, <2>6, <2>7, <2>8 DEF TimesAreSafe
  <2> QED
    BY <2>4, <2>5, <2>9
<1>4. CASE StoreIdle(w)
  <2> DEFINE a == thread[w].agent
  <2>1. /\ thread[w].pc = "idle"
        /\ thread' = [thread EXCEPT ![w] = NoThread]
        /\ busy' = [busy EXCEPT ![a] = FALSE]
        /\ UNCHANGED <<main, age, quiet>>
    BY <1>4 DEF StoreIdle, history
  <2>2. a \in Agents /\ Live(w)
    BY <2>1 DEF FlagCoversThread, Live
  <2>3. /\ thread'[w].pc = "none"
        /\ \A v \in Threads \ {w} : thread'[v] = thread[v]
    BY <2>1 DEF WorkerType, NoThread
  <2>4. \A v \in Threads \ {w} : Live(v) => thread[v].agent # a
    BY <2>2 DEF OneSessionPerAgent
  <2>5. \A b \in Agents : b # a => busy'[b] = busy[b]
    BY <2>1 DEF WorkerType
  <2>6. FlagCoversThread'
    BY <2>3, <2>4, <2>5 DEF FlagCoversThread, Live
  <2>7. OneSessionPerAgent'
    BY <2>3 DEF OneSessionPerAgent, Live
  <2>8. \A b \in Agents : ~busy[b] => ~busy'[b]
    BY <2>1 DEF WorkerType
  <2>9. MainIsRight'
    <3>1. at = "queueGap" => triggerQueue[qi].agent \in Agents
      BY QueueAgent
    <3> QED
      BY <2>1, <2>8, <3>1 DEF main, MainIsRight, QueuedFor
  <2>10. ASSUME NEW b \in Agents, ~Unstored(b)' PROVE ~Unstored(b)
    BY <2>1, <2>3, <2>10 DEF Unstored
  <2>11. TimesAreSafe'
    BY <2>1, <2>10 DEF main, TimesAreSafe
  <2> QED
    BY <2>6, <2>7, <2>9, <2>11
<1> QED
  BY <1>1, <1>2, <1>3, <1>4
     DEF ThreadStep, SendMail, SetTask, CancelTask, main, workers, history

(* One step of the whole system preserves the invariant. *)
LEMMA NextInv == TypeOK /\ DispatchInv /\ [Next]_vars => DispatchInv'
<1> SUFFICES ASSUME TypeOK, DispatchInv, [Next]_vars
             PROVE  DispatchInv'
  OBVIOUS
<1> USE DispatchAssumption DEF DispatchInv
<1>1. ASSUME NEW to \in Agents \cup {Everyone}, OwnerMessage(to)
      PROVE  DispatchInv'
  <2>1. MainIsRight'
    BY <1>1 DEF OwnerMessage, MainIsRight
  <2> QED
    BY <1>1, <2>1, QuietStep DEF OwnerMessage, workers
<1>2. ASSUME DispatchBegin PROVE DispatchInv'
  <2>1. MainIsRight'
    BY <1>2 DEF DispatchBegin, MainIsRight
  <2>2. UNCHANGED <<busy, thread, age, quiet>>
    BY <1>2 DEF DispatchBegin, workers, history
  <2>3. ASSUME NEW a \in Agents, aged'[a] PROVE age[a] >= Gap
    BY <1>2, <2>3, Zenon DEF DispatchBegin
  <2>a. ASSUME NEW a \in Agents, ~Unstored(a)'
        PROVE  age'[a] <= quiet'[a] /\ (aged'[a] => quiet'[a] >= Gap)
    <3>1. age[a] <= quiet[a]
      BY <2>2, <2>a DEF TimesAreSafe, Unstored
    <3>2. age[a] \in Nat /\ quiet[a] \in Nat /\ Gap \in Nat
      BY DEF TypeOK, WorkerType, HistoryType, DispatchAssumption
    <3>3. age[a] >= Gap => quiet[a] >= Gap
      BY <3>1, <3>2
    <3>4. aged'[a] => quiet[a] >= Gap
      BY <2>3, <3>3
    <3> QED
      BY <2>2, <3>1, <3>4
  <2>4. TimesAreSafe'
    BY <2>a DEF TimesAreSafe
  <2>5. FlagCoversThread' /\ OneSessionPerAgent'
    BY <2>2 DEF FlagCoversThread, OneSessionPerAgent, Live
  <2> QED
    BY <2>1, <2>4, <2>5
<1>3. ASSUME QueueBusy \/ QueueSkip \/ QueueEnd PROVE DispatchInv'
  <2>1. MainIsRight'
    BY <1>3 DEF QueueBusy, QueueSkip, QueueEnd, IsBusy, MainIsRight, workers
  <2> QED
    BY <1>3, <2>1, QuietStep DEF QueueBusy, QueueSkip, QueueEnd, workers, history
<1>4. ASSUME QueueStart PROVE DispatchInv'
  <2> DEFINE e == triggerQueue[qi]
  <2>1. at = "queueGap" /\ e.agent \in Agents /\ ~busy[e.agent]
    BY <1>4, QueueAgent DEF QueueStart, MainIsRight
  <2>2. /\ StartSession(e.agent, "owner", {e.id}, {OwnerJob(e.agent, e.id)})
        /\ UNCHANGED <<age, aged, quiet>>
    BY <1>4 DEF QueueStart
  <2>3. FlagCoversThread' /\ OneSessionPerAgent' /\ TimesAreSafe'
    BY <2>1, <2>2, StartSessionInv DEF TypeOK
  <2>4. MainIsRight'
    BY <1>4 DEF QueueStart, MainIsRight
  <2> QED
    BY <2>3, <2>4
<1>5. ASSUME AgentBusy \/ AgentGap \/ NoMail \/ DueNone PROVE DispatchInv'
  <2>1. MainIsRight'
    BY <1>5 DEF AgentBusy, AgentGap, NoMail, DueNone, NextAgent, IsBusy, QueuedFor,
                MainIsRight, workers
  <2> QED
    BY <1>5, <2>1, QuietStep
       DEF AgentBusy, AgentGap, NoMail, DueNone, workers, history
<1>6. ASSUME ReceiveOne PROVE DispatchInv'
  <2>1. MainIsRight'
    BY <1>6 DEF ReceiveOne, MainIsRight, QueuedFor, workers
  <2> QED
    BY <1>6, <2>1, QuietStep DEF ReceiveOne, workers, history
<1>7. ASSUME MailStart PROVE DispatchInv'
  <2>1. ai \in Agents /\ ~busy[ai]
    BY <1>7 DEF MailStart, MainIsRight
  <2>2. /\ StartSession(ai, "mail", batch, MailJobs(ai, batch))
        /\ UNCHANGED <<age, aged, quiet>>
    BY <1>7 DEF MailStart
  <2>3. FlagCoversThread' /\ OneSessionPerAgent' /\ TimesAreSafe'
    BY <2>1, <2>2, StartSessionInv DEF TypeOK
  <2>4. MainIsRight'
    BY <1>7 DEF MailStart, NextAgent, MainIsRight
  <2> QED
    BY <2>3, <2>4
<1>8. ASSUME DueStart PROVE DispatchInv'
  <2>1. ai \in Agents /\ ~busy[ai]
    BY <1>8 DEF DueStart, MainIsRight
  <2>2. StartSession(ai, "task", DueTasks(ai), {}) /\ UNCHANGED <<age, aged, quiet>>
    BY <1>8 DEF DueStart
  <2>3. FlagCoversThread' /\ OneSessionPerAgent' /\ TimesAreSafe'
    BY <2>1, <2>2, StartSessionInv DEF TypeOK
  <2>4. MainIsRight'
    BY <1>8, <2>1 DEF DueStart, MainIsRight
  <2> QED
    BY <2>3, <2>4
<1>9. ASSUME MarkDone PROVE DispatchInv'
  <2>1. MainIsRight'
    BY <1>9 DEF MarkDone, NextAgent, MainIsRight
  <2> QED
    BY <1>9, <2>1, QuietStep DEF MarkDone, workers
<1>10. ASSUME AgentsEnd PROVE DispatchInv'
  <2>1. MainIsRight'
    BY <1>10 DEF AgentsEnd, MainIsRight
  <2>2. UNCHANGED <<busy, thread, age, quiet>> /\ \A a \in Agents : ~aged'[a]
    BY <1>10 DEF AgentsEnd, workers, history
  <2>3. TimesAreSafe'
    BY <2>2 DEF TimesAreSafe, Unstored
  <2>4. FlagCoversThread' /\ OneSessionPerAgent'
    BY <2>2 DEF FlagCoversThread, OneSessionPerAgent, Live
  <2> QED
    BY <2>1, <2>3, <2>4
<1>11. ASSUME NEW w \in Threads, ThreadStep(w) PROVE DispatchInv'
  BY <1>11, ThreadStepInv
<1>12. ASSUME Tick PROVE DispatchInv'
  <2>1. UNCHANGED <<at, qi, ai, triggerQueue, busy, thread, aged>>
    BY <1>12 DEF Tick
  <2>2. MainIsRight' /\ FlagCoversThread' /\ OneSessionPerAgent'
    BY <2>1 DEF MainIsRight, QueuedFor, FlagCoversThread, OneSessionPerAgent, Live
  <2>3. ASSUME NEW a \in Agents
        PROVE  age'[a] = Older(age[a], Gap) /\ quiet'[a] = Older(quiet[a], Gap)
    BY <1>12 DEF Tick
  <2>4. TimesAreSafe'
    BY <2>1, <2>3 DEF TimesAreSafe, Unstored, Older, TypeOK, WorkerType,
                      HistoryType, DispatchAssumption
  <2> QED
    BY <2>2, <2>4
<1>13. ASSUME Crash PROVE DispatchInv'
  <2>1. at' = "poll" /\ \A w \in Threads : thread'[w].pc = "none"
    BY <1>13 DEF Crash, NoThread
  <2>2. \A a \in Agents : ~aged'[a] /\ age'[a] = Gap /\ quiet'[a] = Gap
    BY <1>13 DEF Crash
  <2>3. MainIsRight' /\ FlagCoversThread' /\ OneSessionPerAgent'
    BY <2>1 DEF MainIsRight, FlagCoversThread, OneSessionPerAgent, Live
  <2>4. TimesAreSafe'
    BY <2>2 DEF TimesAreSafe, DispatchAssumption
  <2> QED
    BY <2>3, <2>4
<1>14. CASE UNCHANGED vars
  <2>1. MainIsRight'
    BY <1>14 DEF vars, main, workers, MainIsRight, QueuedFor
  <2> QED
    BY <1>14, <2>1, QuietStep DEF vars, main, workers, history
<1> QED
  BY <1>1, <1>2, <1>3, <1>4, <1>5, <1>6, <1>7, <1>8, <1>9, <1>10, <1>11, <1>12,
     <1>13, <1>14 DEF Next, MainStep

(* Both hold at the start. *)
LEMMA InitInv == Init => TypeOK /\ DispatchInv
<1> SUFFICES ASSUME Init PROVE TypeOK /\ DispatchInv
  OBVIOUS
<1> USE DispatchAssumption
<1>1. NoThread \in ThreadState /\ NoThread.pc = "none"
  BY DEF NoThread, ThreadState, DispatchAssumption
<1>2. WorkerType
  BY <1>1 DEF Init, WorkerType, DispatchAssumption
<1>3. aged \in [Agents -> BOOLEAN] /\ check \in BOOLEAN
  BY Zenon DEF Init
<1>4. /\ at = "poll" /\ qi \in Nat \ {0} /\ ai \in 1..NumAgents + 1
      /\ schedAge \in 0..SchedPeriod
      /\ batch \subseteq 1..MaxMail /\ due \subseteq TaskIds
  BY DEF Init, DispatchAssumption
<1>5. MainType
  BY <1>3, <1>4, Zenon DEF MainType
<1>6. QueueType
  BY DEF Init, QueueType, DispatchAssumption
<1>7. NoTask \in TaskState /\
      \A e \in {0, MaxDelay} : [on |-> TRUE, left |-> 0, every |-> e] \in TaskState
  BY DEF NoTask, TaskState, DispatchAssumption
<1>8. DiskType
  <2>1. {NoTask} \cup {[on |-> TRUE, left |-> 0, every |-> e] : e \in {0, MaxDelay}}
          \subseteq TaskState
    BY <1>7
  <2> QED
    BY <2>1 DEF Init, DiskType
<1>9. HistoryType
  BY DEF Init, HistoryType, DispatchAssumption
<1>10. DispatchInv
  BY <1>1 DEF Init, DispatchInv, MainIsRight, FlagCoversThread, OneSessionPerAgent,
              TimesAreSafe, Unstored, Live, DispatchAssumption
<1> QED
  BY <1>2, <1>5, <1>6, <1>8, <1>9, <1>10 DEF TypeOK

(* Type correctness and the inductive invariant, for every behaviour.       *)
THEOREM DispatchSafe == Spec => [](TypeOK /\ DispatchInv)
<1>1. TypeOK /\ DispatchInv /\ [Next]_vars => (TypeOK /\ DispatchInv)'
  BY NextType, NextInv DEF DispatchInv
<1> QED
  BY InitInv, <1>1, PTL DEF Spec

(* The dispatcher never runs two sessions of one agent at the same time.    *)
THEOREM OneSessionAtATime == Spec => []OneSessionPerAgent
<1>1. DispatchInv => OneSessionPerAgent
  BY DEF DispatchInv
<1> QED
  BY DispatchSafe, <1>1, PTL

-----------------------------------------------------------------------------
(* A thread that comes to life does so in one of the three starts of        *)
(* dispatch, on the agent the main thread has checked.                      *)
LEMMA StartedBy ==
    ASSUME TypeOK, DispatchInv, [Next]_vars, NEW w \in Threads,
           ~Live(w), Live(w)'
    PROVE  /\ thread'[w].agent \in Agents
           /\ aged[thread'[w].agent] /\ ~busy[thread'[w].agent]
           /\ \/ QueueStart /\ thread'[w].kind = "owner"
              \/ (MailStart \/ DueStart) /\ thread'[w].agent = ai
<1> USE DEF DispatchInv
<1>1. ASSUME NEW a \in Agents, NEW kind, NEW jobs, NEW names,
             StartSession(a, kind, jobs, names)
      PROVE  thread'[w].agent = a /\ thread'[w].kind = kind
  <2>1. CASE SessionStarts(a, kind, jobs)
    <3>1. PICK v \in Threads, stored \in BOOLEAN :
            thread' = [thread EXCEPT ![v] =
               [agent |-> a, pc |-> "run", kind |-> kind, jobs |-> jobs,
                recorded |-> stored]]
      BY <2>1, Zenon DEF SessionStarts
    <3>2. v = w
      BY <3>1 DEF TypeOK, WorkerType, Live
    <3> QED
      BY <3>1, <3>2 DEF TypeOK, WorkerType
  <2>2. CASE SessionFails(a)
    BY <2>2 DEF SessionFails, Live
  <2> QED
    BY <1>1, <2>1, <2>2 DEF StartSession
<1>2. CASE QueueStart
  <2> DEFINE e == triggerQueue[qi]
  <2>1. e.agent \in Agents /\ ~busy[e.agent]
    BY <1>2, QueueAgent DEF QueueStart, MainIsRight
  <2>2. /\ StartSession(e.agent, "owner", {e.id}, {OwnerJob(e.agent, e.id)})
        /\ aged[e.agent]
    BY <1>2 DEF QueueStart
  <2> QED
    BY <1>1, <1>2, <2>1, <2>2
<1>3. CASE MailStart
  <2>1. ai \in Agents /\ aged[ai] /\ ~busy[ai]
    BY <1>3 DEF MailStart, MainIsRight
  <2>2. StartSession(ai, "mail", batch, MailJobs(ai, batch))
    BY <1>3 DEF MailStart
  <2> QED
    BY <1>1, <1>3, <2>1, <2>2
<1>4. CASE DueStart
  <2>1. ai \in Agents /\ aged[ai] /\ ~busy[ai]
    BY <1>4 DEF DueStart, MainIsRight
  <2>2. StartSession(ai, "task", DueTasks(ai), {})
    BY <1>4, SMTT(60) DEF DueStart
  <2> QED
    BY <1>1, <1>4, <2>1, <2>2
<1>5. ASSUME NEW v \in Threads, ThreadStep(v) PROVE FALSE
  <2>1. CASE UNCHANGED thread
    BY <2>1 DEF Live
  <2>2. CASE SessionReturns(v) \/ StoreTime(v) \/ StoreIdle(v)
    <3>1. thread[v].pc # "none" /\ \A u \in Threads \ {v} : thread'[u] = thread[u]
      BY <2>2 DEF SessionReturns, StoreTime, StoreIdle, Running, TypeOK, WorkerType
    <3>2. v # w
      BY <3>1 DEF Live
    <3> QED
      BY <3>1, <3>2 DEF Live
  <2> QED
    BY <1>5, <2>1, <2>2 DEF ThreadStep, SendMail, SetTask, CancelTask, workers
<1>6. ASSUME Crash PROVE FALSE
  BY <1>6 DEF Crash, NoThread, Live
<1>7. ASSUME UNCHANGED thread PROVE FALSE
  BY <1>7 DEF Live
<1> QED
  BY <1>2, <1>3, <1>4, <1>5, <1>6, <1>7
     DEF Next, MainStep, OwnerMessage, DispatchBegin, QueueBusy, QueueSkip, QueueEnd,
         AgentBusy, AgentGap, ReceiveOne, NoMail, DueNone, MarkDone, AgentsEnd, Tick,
         vars, workers

(* The gap between two sessions of an agent is kept although dispatch uses  *)
(* an old reading of the clock and the sessions store their end time late.  *)
THEOREM GapKept == Spec => SessionGap
<1>1. TypeOK /\ DispatchInv /\ [Next]_vars =>
        [\A w \in Threads :
           ~Live(w) /\ Live(w)' => quiet[thread'[w].agent] >= Gap]_vars
  <2> SUFFICES ASSUME TypeOK, DispatchInv, [Next]_vars, NEW w \in Threads,
                      ~Live(w), Live(w)'
               PROVE  quiet[thread'[w].agent] >= Gap
    OBVIOUS
  <2> DEFINE a == thread'[w].agent
  <2>1. a \in Agents /\ aged[a] /\ ~busy[a]
    BY StartedBy
  <2>2. ~Unstored(a)
    BY <2>1 DEF DispatchInv, FlagCoversThread, Unstored, Live
  <2> QED
    BY <2>1, <2>2 DEF DispatchInv, TimesAreSafe
<1> QED
  BY <1>1, DispatchSafe, PTL DEF Spec, SessionGap

(* Owner messages come first: mail and tasks start a session only for an    *)
(* agent with no owner message in the queue.                                *)
THEOREM OwnerHasPriority == Spec => OwnerFirst
<1>1. TypeOK /\ DispatchInv /\ [Next]_vars =>
        [\A w \in Threads :
           ~Live(w) /\ Live(w)' /\ thread'[w].kind # "owner"
             => ~\E i \in 1..Len(triggerQueue) :
                    triggerQueue[i].agent = thread'[w].agent]_vars
  <2> SUFFICES ASSUME TypeOK, DispatchInv, [Next]_vars, NEW w \in Threads,
                      ~Live(w), Live(w)', thread'[w].kind # "owner"
               PROVE  ~\E i \in 1..Len(triggerQueue) :
                         triggerQueue[i].agent = thread'[w].agent
    OBVIOUS
  <2>1. (MailStart \/ DueStart) /\ thread'[w].agent = ai
    BY StartedBy
  <2>2. ~QueuedFor(ai)
    BY <2>1, SMTT(60) DEF MailStart, DueStart, DispatchInv, MainIsRight
  <2> QED
    BY <2>1, <2>2 DEF QueuedFor
<1> QED
  BY <1>1, DispatchSafe, PTL DEF Spec, OwnerFirst

(* Mail leaves the disk only while its agent has no session.                *)
THEOREM MailStaysOnDisk == Spec => MailWaitsOnDisk
<1>1. TypeOK /\ DispatchInv /\ [Next]_vars =>
        [\A a \in Agents :
           ~(inbox[a] \subseteq inbox'[a]) =>
             /\ ~busy[a]
             /\ \A w \in Threads : Live(w) => thread[w].agent # a]_vars
  <2> SUFFICES ASSUME TypeOK, DispatchInv, [Next]_vars, NEW a \in Agents,
                      ~(inbox[a] \subseteq inbox'[a])
               PROVE  /\ ~busy[a]
                      /\ \A w \in Threads : Live(w) => thread[w].agent # a
    OBVIOUS
  <2>1. CASE ReceiveOne
    <3>1. ai \in Agents /\ ~busy[ai]
      BY <2>1 DEF ReceiveOne, DispatchInv, MainIsRight
    <3>2. a = ai
      BY <2>1, <3>1 DEF ReceiveOne, Unlink, TypeOK, DiskType
    <3> QED
      BY <3>1, <3>2 DEF DispatchInv, FlagCoversThread
  <2>2. ASSUME NEW w \in Threads, NEW to \in Agents, SendMail(w, to) PROVE FALSE
    BY <2>2 DEF SendMail, TypeOK, DiskType
  <2>3. ASSUME UNCHANGED inbox PROVE FALSE
    BY <2>3
  <2> QED
    BY <2>1, <2>2, <2>3
       DEF Next, MainStep, ThreadStep, OwnerMessage, DispatchBegin, QueueBusy,
           QueueSkip, QueueStart, QueueEnd, AgentBusy, AgentGap, MailStart, NoMail,
           DueNone, DueStart, MarkDone, AgentsEnd, SetTask, CancelTask,
           SessionReturns, StoreTime, StoreIdle, Tick, Crash, vars, disk
<1> QED
  BY <1>1, DispatchSafe, PTL DEF Spec, MailWaitsOnDisk
=============================================================================
