------------------------------ MODULE JobProofs ------------------------------
(***************************************************************************)
(* More proofs about Dispatch: what becomes of every job, of the session    *)
(* records and of the due tasks, and that the dispatcher implements the     *)
(* abstract job server AgentJobs.                                           *)
(***************************************************************************)
EXTENDS DispatchProofs

(* For each agent, the queue holds the owner's messages in the order they   *)
(* were sent.                                                               *)
QueueSorted ==
    \A i, j \in 1..Len(triggerQueue) :
        j < i /\ triggerQueue[j].agent = triggerQueue[i].agent =>
            triggerQueue[j].id < triggerQueue[i].id

(* Every job bears a number that was given out; the next ones are new.      *)
Numbered ==
    /\ \A j \in sent : \/ \E a \in Agents, k \in 1..nOwner : j = OwnerJob(a, k)
                       \/ \E a \in Agents, k \in 1..nMail : j = <<"mail", a, k>>
    /\ \A a \in Agents : newest[a] <= nOwner

(* Mail that is read is off the disk, and is held only by the receive that  *)
(* reads it; the index of the first loop is reset when the loop ends.       *)
ReadOnce ==
    /\ at # "receive" => batch = {}
    /\ ai \in Agents => batch \cap inbox[ai] = {}
    /\ at \notin {"queue", "queueGap"} => qi = 1

(* Every job is in exactly one place. *)
Conserved ==
    /\ sent = Waiting \cup ran \cup lost
    /\ Waiting \cap ran = {}
    /\ Waiting \cap lost = {}
    /\ ran \cap lost = {}

(* A flag that is up belongs to a thread, and a thread has work.            *)
FlagHasThread ==
    /\ \A a \in Agents : busy[a] => \E w \in Threads : Live(w) /\ thread[w].agent = a
    /\ \A w \in Threads : Live(w) => thread[w].kind # "none" /\ thread[w].jobs # {}

(* A session of a that is not over, or whose end this pass can still see.   *)
Held(a) ==
    \/ ~aged[a]
    \/ \E w \in Threads : thread[w].pc \in {"run", "time"} /\ thread[w].agent = a

(* Without a stall, an agent skipped once is skipped for the whole pass: so *)
(* its older message is never overtaken.                                    *)
InTurn ==
    /\ \A w \in Threads :
         thread[w].pc = "idle" => ~aged[thread[w].agent] /\ age[thread[w].agent] < Gap
    /\ at \in {"queue", "queueGap"} =>
         \A j \in 1..Len(triggerQueue) : j < qi => Held(triggerQueue[j].agent)
    /\ \A i \in 1..Len(triggerQueue) :
         triggerQueue[i].id > newest[triggerQueue[i].agent]

(* An open record belongs to a session that runs and knows it.              *)
RecordsHeld ==
    \A a \in Agents :
        record[a] = "active" =>
            \E w \in Threads : Running(w) /\ thread[w].agent = a /\ thread[w].recorded

(* The tasks about to be marked are those a session was started for, when   *)
(* sessions can be started.                                                 *)
MarksStarted ==
    "start" \notin Faults => (at = "mark" => {ai} \X due \subseteq fired)

JobInv ==
    /\ QueueSorted /\ Numbered /\ ReadOnce /\ Conserved
    /\ FlagHasThread /\ RecordsHeld /\ MarksStarted
    /\ "stall" \notin Faults => InTurn

-----------------------------------------------------------------------------
(* The two outcomes of start_session.                                       *)
LEMMA StartEffect ==
    ASSUME NEW a \in Agents, NEW kind, NEW jobs, NEW names,
           StartSession(a, kind, jobs, names)
    PROVE  \/ /\ \E w \in Threads, stored \in BOOLEAN :
                   /\ ~Live(w)
                   /\ thread' = [thread EXCEPT ![w] =
                        [agent |-> a, pc |-> "run", kind |-> kind, jobs |-> jobs,
                         recorded |-> stored]]
                   /\ record' = IF stored THEN [record EXCEPT ![a] = "active"] ELSE record
              /\ busy' = [busy EXCEPT ![a] = TRUE]
              /\ ran' = ran \cup names /\ lost' = lost
              /\ fired' = IF kind = "task" THEN fired \cup ({a} \X jobs) ELSE fired
           \/ /\ "start" \in Faults
              /\ thread' = thread /\ busy' = busy
              /\ \/ UNCHANGED record
                 \/ \E end \in {"ended", "left"} : record' = [record EXCEPT ![a] = end]
              /\ lost' = lost \cup names /\ ran' = ran /\ fired' = fired
  BY Zenon DEF StartSession, SessionStarts, SetBusy, SessionFails, FailedRecord, CloseRecord

(* What enqueue_trigger leaves in the queue: the old entries, then as many  *)
(* of the new ones as fit.                                                  *)
LEMMA EnqueueElements ==
    ASSUME NEW q \in Seq(Entry), NEW new \in Seq(Entry), QueueCap \in Nat,
           Len(q) <= QueueCap
    PROVE  /\ Enqueue(q, new) \in Seq(Entry)
           /\ Len(Enqueue(q, new)) = Fits(Len(q) + Len(new))
           /\ \A i \in 1..Fits(Len(q) + Len(new)) :
                Enqueue(q, new)[i] = IF i <= Len(q) THEN q[i] ELSE new[i - Len(q)]
<1> DEFINE all == q \o new
           m == Fits(Len(q) + Len(new))
<1>1. Len(q) \in Nat /\ Len(new) \in Nat
  BY LenProperties
<1>2. /\ all \in Seq(Entry) /\ Len(all) = Len(q) + Len(new)
      /\ \A i \in 1..Len(q) + Len(new) :
           all[i] = IF i <= Len(q) THEN q[i] ELSE new[i - Len(q)]
  BY ConcatProperties
<1>3. m \in 0..Len(all) /\ m \in Nat
  BY <1>1, <1>2 DEF Fits
<1>4. Enqueue(q, new) = SubSeq(all, 1, m)
  BY DEF Enqueue
<1>5. \A i \in 1..m : all[i] \in Entry
  BY <1>2, <1>3, ElementOfSeq
<1> HIDE DEF all, m
<1>6. /\ SubSeq(all, 1, m) \in Seq(Entry)
      /\ Len(SubSeq(all, 1, m)) = IF 1 <= m THEN m - 1 + 1 ELSE 0
      /\ \A i \in 1..m - 1 + 1 : SubSeq(all, 1, m)[i] = all[1 + i - 1]
  BY <1>3, <1>5, SubSeqProperties
<1>7. Len(SubSeq(all, 1, m)) = m /\ \A i \in 1..m : SubSeq(all, 1, m)[i] = all[i]
  BY <1>3, <1>6
<1>8. \A i \in 1..m : i \in 1..Len(q) + Len(new)
  BY <1>1, <1>2, <1>3
<1> QED
  BY <1>2, <1>4, <1>6, <1>7, <1>8 DEF m

(* on_irc_trigger calls enqueue_trigger once for every agent addressed.     *)
LEMMA AddressedElements ==
    ASSUME NEW to \in Agents \cup {Everyone}, NEW k \in 1..MaxOwner
    PROVE  /\ Addressed(to, k) \in Seq(Entry) /\ Len(Addressed(to, k)) \in Nat
           /\ \A i \in 1..Len(Addressed(to, k)) :
                Addressed(to, k)[i].agent \in Agents /\ Addressed(to, k)[i].id = k
           /\ \A i, j \in 1..Len(Addressed(to, k)) :
                Addressed(to, k)[i].agent = Addressed(to, k)[j].agent => i = j
<1> DEFINE new == Addressed(to, k)
<1>1. new \in Seq(Entry) /\ Len(new) \in Nat
  BY AddressedType, LenProperties, DispatchAssumption
<1>2. CASE to = Everyone
  <2>1. new = [a \in Agents |-> [agent |-> a, id |-> k]]
    BY <1>2 DEF Addressed
  <2>2. DOMAIN new = 1..Len(new) /\ DOMAIN new = Agents
    BY <1>1, <2>1, LenProperties
  <2> HIDE DEF new
  <2>3. \A i \in 1..Len(new) : new[i].agent = i /\ new[i].id = k /\ i \in Agents
    BY <2>1, <2>2
  <2> QED
    BY <1>1, <2>3 DEF new
<1>3. CASE to # Everyone
  <2>1. new = <<[agent |-> to, id |-> k]>> /\ to \in Agents
    BY <1>3 DEF Addressed
  <2>2. Len(new) = 1 /\ new[1] = [agent |-> to, id |-> k]
    BY <2>1
  <2> QED
    BY <1>1, <2>1, <2>2
<1> QED
  BY <1>2, <1>3

(* What is waiting, element by element, before and after a step.            *)
LEMMA WaitingMember ==
    /\ \A j : j \in Waiting <=>
         \/ \E i \in 1..Len(triggerQueue) :
              j = OwnerJob(triggerQueue[i].agent, triggerQueue[i].id)
         \/ \E a \in Agents : \E k \in inbox[a] : j = <<"mail", a, k>>
         \/ ai \in Agents /\ \E k \in batch : j = <<"mail", ai, k>>
    /\ \A j : j \in Waiting' <=>
         \/ \E i \in 1..Len(triggerQueue') :
              j = OwnerJob(triggerQueue'[i].agent, triggerQueue'[i].id)
         \/ \E a \in Agents : \E k \in inbox'[a] : j = <<"mail", a, k>>
         \/ ai' \in Agents /\ \E k \in batch' : j = <<"mail", ai', k>>
  BY DEF Waiting, MailJobs

(* Jobs are told apart by their kind, agent and number. *)
LEMMA JobsDiffer ==
    /\ \A a, b, k, m : OwnerJob(a, k) = OwnerJob(b, m) <=> a = b /\ k = m
    /\ \A a, b, k, m : OwnerJob(a, k) # <<"mail", b, m>>
    /\ \A a, b, k, m : <<"mail", a, k>> = <<"mail", b, m>> <=> a = b /\ k = m
  BY DEF OwnerJob

-----------------------------------------------------------------------------
(* What each operation does to the jobs.                                    *)

(* on_irc_trigger: every new message is queued or dropped, never both.      *)
LEMMA OwnerMessageJobs ==
    ASSUME TypeOK, JobInv, NEW to \in Agents \cup {Everyone}, OwnerMessage(to)
    PROVE  /\ \E K, R : /\ Waiting' = Waiting \cup K /\ lost' = lost \cup R
                        /\ sent' = sent \cup K \cup R
                        /\ K \cap R = {} /\ (K \cup R) \cap sent = {}
           /\ \A j \in sent' \ sent : \E a \in Agents : j = OwnerJob(a, nOwner + 1)
           /\ QueueSorted'
           /\ \A i \in 1..Len(triggerQueue') :
                \/ i \in 1..Len(triggerQueue) /\ triggerQueue'[i] = triggerQueue[i]
                \/ triggerQueue'[i].id = nOwner + 1
<1> DEFINE q == triggerQueue
           id == nOwner + 1
           new == Addressed(to, id)
           kept == {k \in 1..Len(new) : Len(q) + k <= QueueCap}
           over == {k \in 1..Len(new) : Len(q) + k > QueueCap}
           K == {OwnerJob(new[k].agent, id) : k \in kept}
           R == {OwnerJob(new[k].agent, id) : k \in over}
<1>1. /\ nOwner \in Nat /\ id \in 1..MaxOwner /\ q \in Seq(Entry) /\ Len(q) \in Nat
      /\ Len(q) <= QueueCap /\ QueueCap \in Nat
  BY DispatchAssumption, LenProperties
     DEF OwnerMessage, TypeOK, HistoryType, QueueType, DispatchAssumption
<1>2. /\ new \in Seq(Entry) /\ Len(new) \in Nat
      /\ \A i \in 1..Len(new) : new[i].agent \in Agents /\ new[i].id = id
      /\ \A i, j \in 1..Len(new) : new[i].agent = new[j].agent => i = j
  BY <1>1, AddressedElements
<1>3. /\ triggerQueue' = Enqueue(q, new) /\ UNCHANGED <<ai, batch, inbox>>
      /\ sent' = sent \cup {OwnerJob(new[k].agent, id) : k \in 1..Len(new)}
      /\ lost' = lost \cup R
  BY DEF OwnerMessage, disk
<1> HIDE DEF new
<1>4. /\ Len(triggerQueue') = Fits(Len(q) + Len(new))
      /\ \A i \in 1..Fits(Len(q) + Len(new)) :
           triggerQueue'[i] = IF i <= Len(q) THEN q[i] ELSE new[i - Len(q)]
  BY <1>1, <1>2, <1>3, EnqueueElements
<1>5. /\ Fits(Len(q) + Len(new)) \in Nat /\ Len(q) <= Fits(Len(q) + Len(new))
      /\ \A i \in 1..Fits(Len(q) + Len(new)) : i > Len(q) => i - Len(q) \in kept
      /\ \A k \in kept : Len(q) + k \in 1..Fits(Len(q) + Len(new))
  BY <1>1, <1>2 DEF Fits
<1>6. \A j \in sent : \A a \in Agents : j # OwnerJob(a, id)
  BY <1>1, JobsDiffer DEF JobInv, Numbered
<1>7. K \cap R = {}
  <2>1. ASSUME NEW k \in kept, NEW l \in over PROVE new[k].agent # new[l].agent
    BY <1>1, <1>2
  <2> QED
    BY <2>1, JobsDiffer
<1>8. \A k \in 1..Len(new) : k \in kept \/ k \in over
  BY <1>1, <1>2
<1>9. sent' = sent \cup K \cup R
  BY <1>3, <1>8
<1>10. (K \cup R) \cap sent = {}
  BY <1>2, <1>6
<1>11. Waiting' = Waiting \cup K
  <2>1. ASSUME NEW j, j \in K PROVE j \in Waiting'
    <3>1. PICK k \in kept : j = OwnerJob(new[k].agent, id)
      BY <2>1
    <3>2. triggerQueue'[Len(q) + k] = new[k] /\ new[k].id = id
      BY <1>1, <1>2, <1>4, <1>5, <3>1
    <3> QED
      BY <1>4, <1>5, <3>1, <3>2, WaitingMember
  <2>2. \A i \in 1..Len(q) : i \in 1..Len(triggerQueue') /\ triggerQueue'[i] = q[i]
    BY <1>1, <1>4, <1>5
  <2>3. ASSUME NEW j, j \in Waiting PROVE j \in Waiting'
    BY <1>3, <2>2, <2>3, WaitingMember
  <2>4. ASSUME NEW i \in 1..Len(triggerQueue')
        PROVE  OwnerJob(triggerQueue'[i].agent, triggerQueue'[i].id) \in Waiting \cup K
    <3>1. CASE i <= Len(q)
      <4>1. i \in 1..Len(q) /\ triggerQueue'[i] = q[i]
        BY <1>1, <1>4, <1>5, <3>1
      <4> QED
        BY <4>1, WaitingMember
    <3>2. CASE i > Len(q)
      <4>1. i - Len(q) \in kept /\ triggerQueue'[i] = new[i - Len(q)]
        BY <1>1, <1>4, <1>5, <3>2
      <4> QED
        BY <1>2, <4>1
    <3> QED
      BY <1>1, <1>4, <1>5, <3>1, <3>2
  <2>5. ASSUME NEW j, j \in Waiting' PROVE j \in Waiting \cup K
    <3> HIDE DEF K
    <3> QED
      BY <1>3, <2>4, <2>5, WaitingMember
  <2> QED
    BY <2>1, <2>3, <2>5
<1>12. \A i \in 1..Len(q) : q[i].agent \in Agents /\ q[i].id \in Nat /\ q[i].id <= nOwner
  <2>1. \A i \in 1..Len(q) : q[i] \in Entry
    BY <1>1, ElementOfSeq
  <2>2. \A i \in 1..Len(q) : OwnerJob(q[i].agent, q[i].id) \in sent
    BY WaitingMember DEF JobInv, Conserved
  <2> QED
    BY <1>1, <2>1, <2>2, JobsDiffer, DispatchAssumption
       DEF JobInv, Numbered, Entry, DispatchAssumption
<1>13. QueueSorted'
  <2> SUFFICES ASSUME NEW i \in 1..Len(triggerQueue'), NEW j \in 1..Len(triggerQueue'),
                      j < i, triggerQueue'[j].agent = triggerQueue'[i].agent
               PROVE  triggerQueue'[j].id < triggerQueue'[i].id
    BY DEF QueueSorted
  <2>1. CASE i <= Len(q)
    BY <1>1, <1>4, <1>5, <2>1 DEF JobInv, QueueSorted
  <2>2. CASE i > Len(q)
    <3>0. triggerQueue'[i] = new[i - Len(q)] /\ i - Len(q) \in 1..Len(new)
      BY <1>1, <1>4, <1>5, <2>2
    <3>1. triggerQueue'[i].id = id
      BY <1>2, <3>0
    <3>2. CASE j <= Len(q)
      BY <1>1, <1>4, <1>5, <1>12, <3>1, <3>2
    <3>3. CASE j > Len(q)
      <4>1. /\ triggerQueue'[i] = new[i - Len(q)] /\ triggerQueue'[j] = new[j - Len(q)]
            /\ i - Len(q) \in 1..Len(new) /\ j - Len(q) \in 1..Len(new)
        BY <1>1, <1>4, <1>5, <2>2, <3>3
      <4> QED
        BY <1>1, <1>2, <4>1
    <3> QED
      BY <1>1, <1>4, <1>5, <3>2, <3>3
  <2> QED
    BY <1>1, <1>4, <1>5, <2>1, <2>2
<1>14. \A i \in 1..Len(triggerQueue') :
         \/ i \in 1..Len(q) /\ triggerQueue'[i] = q[i]
         \/ triggerQueue'[i].id = id
  <2> SUFFICES ASSUME NEW i \in 1..Len(triggerQueue'), i > Len(q)
               PROVE  triggerQueue'[i].id = id
    BY <1>1, <1>4, <1>5
  <2>1. triggerQueue'[i] = new[i - Len(q)] /\ i - Len(q) \in 1..Len(new)
    BY <1>1, <1>4, <1>5
  <2> QED
    BY <1>2, <2>1
<1>15. \A j \in sent' \ sent : \E a \in Agents : j = OwnerJob(a, id)
  BY <1>2, <1>3
<1> HIDE DEF K, R
<1> QED
  BY <1>3, <1>7, <1>9, <1>10, <1>11, <1>13, <1>14, <1>15

(* dispatch takes one message off the queue: the same message is nowhere    *)
(* else in it, and what stays keeps its order.                              *)
LEMMA QueueStartJobs ==
    ASSUME TypeOK, DispatchInv, JobInv, QueueStart
    PROVE  LET e == triggerQueue[qi]
           IN  /\ e.agent \in Agents /\ e.id \in 1..MaxOwner
               /\ OwnerJob(e.agent, e.id) \in Waiting
               /\ Waiting' = Waiting \ {OwnerJob(e.agent, e.id)}
               /\ QueueSorted'
               /\ \A i \in 1..Len(triggerQueue') : \E j \in 1..Len(triggerQueue) :
                    /\ triggerQueue'[i] = triggerQueue[j]
                    /\ j = IF i < qi THEN i ELSE i + 1
<1> DEFINE q == triggerQueue
           e == q[qi]
<1>1. q \in Seq(Entry) /\ Len(q) \in Nat /\ \A i \in 1..Len(q) : q[i] \in Entry
  BY LenProperties, ElementOfSeq DEF TypeOK, QueueType
<1>2. qi \in 1..Len(q)
  BY QueueAgent DEF DispatchInv, QueueStart
<1>3. e.agent \in Agents /\ e.id \in 1..MaxOwner
  BY <1>1, <1>2 DEF Entry
<1>4. triggerQueue' = Without(q, qi) /\ UNCHANGED <<ai, batch, inbox>>
  BY DEF QueueStart, disk
<1>5. /\ Len(triggerQueue') = Len(q) - 1
      /\ \A k \in 1..Len(q) - 1 : triggerQueue'[k] = IF k < qi THEN q[k] ELSE q[k + 1]
  BY <1>1, <1>2, <1>4, WithoutType
<1>6. ASSUME NEW i \in 1..Len(triggerQueue')
      PROVE  \E j \in 1..Len(q) : /\ triggerQueue'[i] = q[j]
                                  /\ j = IF i < qi THEN i ELSE i + 1
  BY <1>1, <1>2, <1>5
<1>7. ASSUME NEW j \in 1..Len(q), j # qi
      PROVE  \E i \in 1..Len(triggerQueue') : triggerQueue'[i] = q[j]
  <2>1. CASE j < qi
    BY <1>1, <1>2, <1>5, <2>1
  <2>2. CASE j > qi
    <3>1. j - 1 \in 1..Len(triggerQueue') /\ triggerQueue'[j - 1] = q[j]
      BY <1>1, <1>2, <1>5, <2>2
    <3> QED
      BY <3>1
  <2> QED
    BY <1>1, <1>2, <1>7, <2>1, <2>2
<1>8. ASSUME NEW j \in 1..Len(q), j # qi
      PROVE  OwnerJob(q[j].agent, q[j].id) # OwnerJob(e.agent, e.id)
  <2>1. q[j].agent = e.agent => q[j].id # e.id
    <3>1. q[j].id \in Nat /\ e.id \in Nat
      BY <1>1, <1>2, DispatchAssumption DEF Entry, DispatchAssumption
    <3>2. j < qi \/ qi < j
      BY <1>1, <1>2, <1>8
    <3> QED
      BY <1>2, <3>1, <3>2 DEF JobInv, QueueSorted
  <2> QED
    BY <2>1, JobsDiffer
<1>9. OwnerJob(e.agent, e.id) \in Waiting
  BY <1>2, WaitingMember
<1>10. Waiting' = Waiting \ {OwnerJob(e.agent, e.id)}
  <2>1. ASSUME NEW j, j \in Waiting' PROVE j \in Waiting /\ j # OwnerJob(e.agent, e.id)
    <3>1. CASE \E i \in 1..Len(triggerQueue') :
                 j = OwnerJob(triggerQueue'[i].agent, triggerQueue'[i].id)
      <4>1. PICK i \in 1..Len(triggerQueue') :
              j = OwnerJob(triggerQueue'[i].agent, triggerQueue'[i].id)
        BY <3>1
      <4>2. PICK l \in 1..Len(q) : triggerQueue'[i] = q[l] /\ l # qi
        BY <1>1, <1>2, <1>6
      <4> QED
        BY <1>8, <4>1, <4>2, WaitingMember
    <3>2. CASE ~\E i \in 1..Len(triggerQueue') :
                 j = OwnerJob(triggerQueue'[i].agent, triggerQueue'[i].id)
      BY <1>4, <2>1, <3>2, WaitingMember, JobsDiffer
    <3> QED
      BY <3>1, <3>2
  <2>2. ASSUME NEW j, j \in Waiting, j # OwnerJob(e.agent, e.id) PROVE j \in Waiting'
    BY <1>4, <1>7, <2>2, WaitingMember
  <2> QED
    BY <2>1, <2>2
<1>11. QueueSorted'
  <2> SUFFICES ASSUME NEW i \in 1..Len(triggerQueue'), NEW j \in 1..Len(triggerQueue'),
                      j < i, triggerQueue'[j].agent = triggerQueue'[i].agent
               PROVE  triggerQueue'[j].id < triggerQueue'[i].id
    BY DEF QueueSorted
  <2>1. PICK k \in 1..Len(q) : triggerQueue'[i] = q[k] /\ k = IF i < qi THEN i ELSE i + 1
    BY <1>6
  <2>2. PICK l \in 1..Len(q) : triggerQueue'[j] = q[l] /\ l = IF j < qi THEN j ELSE j + 1
    BY <1>6
  <2>3. l < k
    BY <1>1, <1>2, <2>1, <2>2
  <2> QED
    BY <2>1, <2>2, <2>3 DEF JobInv, QueueSorted
<1> QED
  BY <1>3, <1>6, <1>9, <1>10, <1>11

(* messenger_receive moves a mail from the disk to the batch, or drops it.  *)
LEMMA ReceiveJobs ==
    ASSUME TypeOK, DispatchInv, JobInv, ReceiveOne
    PROVE  /\ ai \in Agents /\ batch' \cap inbox'[ai] = {}
           /\ \/ Waiting' = Waiting /\ lost' = lost
              \/ \E m \in inbox[ai] : /\ Waiting' = Waiting \ {<<"mail", ai, m>>}
                                      /\ lost' = lost \cup {<<"mail", ai, m>>}
                                      /\ <<"mail", ai, m>> \in Waiting
<1>1. ai \in Agents /\ batch \cap inbox[ai] = {}
  BY DEF ReceiveOne, DispatchInv, MainIsRight, JobInv, ReadOnce
<1>2. PICK m \in inbox[ai] \ batch :
        /\ inbox' = [inbox EXCEPT ![ai] = @ \ {m}]
        /\ \/ batch' = batch \cup {m} /\ lost' = lost
           \/ batch' = batch /\ lost' = lost \cup MailJobs(ai, {m})
  BY DEF ReceiveOne, Unlink
<1>3. triggerQueue' = triggerQueue /\ ai' = ai
  BY DEF ReceiveOne
<1>4. /\ inbox'[ai] = inbox[ai] \ {m}
      /\ \A a \in Agents : a # ai => inbox'[a] = inbox[a]
  BY <1>1, <1>2 DEF TypeOK, DiskType
<1>5. <<"mail", ai, m>> \in Waiting
  BY <1>1, <1>2, WaitingMember
<1>6. CASE batch' = batch \cup {m} /\ lost' = lost
  <2>1. \A j : j \in Waiting' <=> j \in Waiting
    BY <1>1, <1>2, <1>3, <1>4, <1>6, WaitingMember
  <2>2. Waiting' = Waiting
    BY <2>1
  <2> QED
    BY <1>1, <1>2, <1>4, <1>6, <2>2
<1>7. CASE batch' = batch /\ lost' = lost \cup MailJobs(ai, {m})
  <2>1. \A j : j \in Waiting' <=> j \in Waiting /\ j # <<"mail", ai, m>>
    BY <1>1, <1>2, <1>3, <1>4, <1>7, WaitingMember, JobsDiffer
  <2>2. Waiting' = Waiting \ {<<"mail", ai, m>>}
    BY <2>1
  <2>3. MailJobs(ai, {m}) = {<<"mail", ai, m>>}
    BY DEF MailJobs
  <2> QED
    BY <1>1, <1>2, <1>4, <1>5, <1>7, <2>2, <2>3
<1> QED
  BY <1>2, <1>6, <1>7

(* The session that gets the mail gets all of it. *)
LEMMA MailStartJobs ==
    ASSUME TypeOK, DispatchInv, JobInv, MailStart
    PROVE  /\ ai \in Agents
           /\ MailJobs(ai, batch) \subseteq Waiting
           /\ Waiting' = Waiting \ MailJobs(ai, batch)
<1>1. ai \in Agents /\ inbox[ai] = {}
  BY DEF MailStart, DispatchInv, MainIsRight, JobInv, ReadOnce
<1>2. UNCHANGED <<triggerQueue, inbox>> /\ batch' = {}
  BY DEF MailStart, disk
<1>3. \A j : j \in MailJobs(ai, batch) <=> \E k \in batch : j = <<"mail", ai, k>>
  BY DEF MailJobs
<1>4. \A j : j \in Waiting' <=> j \in Waiting /\ j \notin MailJobs(ai, batch)
  BY <1>1, <1>2, <1>3, WaitingMember, JobsDiffer
<1> QED
  BY <1>1, <1>3, <1>4, WaitingMember

(* send_message writes one new mail file. *)
LEMMA SendMailJobs ==
    ASSUME TypeOK, JobInv, NEW w \in Threads, NEW to \in Agents, SendMail(w, to)
    PROVE  LET j == <<"mail", to, nMail + 1>>
           IN  /\ Waiting' = Waiting \cup {j} /\ sent' = sent \cup {j} /\ j \notin sent
               /\ batch' = {}
<1> DEFINE j == <<"mail", to, nMail + 1>>
<1>1. /\ UNCHANGED <<at, triggerQueue, ai, batch>> /\ at # "receive"
      /\ inbox' = [inbox EXCEPT ![to] = @ \cup {nMail + 1}]
      /\ sent' = sent \cup MailJobs(to, {nMail + 1})
  BY DEF SendMail, main
<1>2. MailJobs(to, {nMail + 1}) = {j}
  BY DEF MailJobs
<1>3. j \notin sent
  BY JobsDiffer DEF JobInv, Numbered, TypeOK, HistoryType
<1>4. /\ inbox'[to] = inbox[to] \cup {nMail + 1}
      /\ \A a \in Agents : a # to => inbox'[a] = inbox[a]
  BY <1>1 DEF TypeOK, DiskType
<1>5. \A i : i \in Waiting' <=> i \in Waiting \/ i = j
  BY <1>1, <1>4, WaitingMember
<1>6. batch' = {}
  BY <1>1 DEF JobInv, ReadOnce
<1> QED
  BY <1>1, <1>2, <1>3, <1>5, <1>6

(* The end of the process takes the queue and the mail just read with it.   *)
LEMMA CrashJobs ==
    ASSUME TypeOK, JobInv, Crash
    PROVE  LET read == IF ai \in Agents THEN MailJobs(ai, batch) ELSE {}
               dropped == read \cup {j \in Waiting : j[1] = "owner"}
           IN  /\ dropped \subseteq Waiting
               /\ Waiting' = Waiting \ dropped /\ lost' = lost \cup dropped
<1> DEFINE read == IF ai \in Agents THEN MailJobs(ai, batch) ELSE {}
           dropped == read \cup {j \in Waiting : j[1] = "owner"}
<1>1. /\ triggerQueue' = <<>> /\ inbox' = inbox /\ batch' = {}
      /\ lost' = lost \cup {j \in Waiting : j[1] = "owner"} \cup read
  BY DEF Crash, disk
<1>2. \A j : j \in read <=> ai \in Agents /\ \E k \in batch : j = <<"mail", ai, k>>
  BY DEF MailJobs
<1>3. /\ \A a, k : OwnerJob(a, k)[1] = "owner"
      /\ \A a, k : <<"mail", a, k>>[1] # "owner"
  BY DEF OwnerJob
<1> HIDE DEF read
<1>4. \A j \in read : j \in Waiting
  BY <1>2, WaitingMember
<1>5. ai \in Agents => batch \cap inbox[ai] = {}
  BY DEF JobInv, ReadOnce
<1>6. Len(triggerQueue') = 0
  BY <1>1
<1>7. \A j : j \in Waiting' => j \in Waiting /\ j[1] # "owner" /\ j \notin read
  BY <1>1, <1>2, <1>3, <1>5, <1>6, WaitingMember, JobsDiffer
<1>8. \A j : j \in Waiting /\ j[1] # "owner" /\ j \notin read => j \in Waiting'
  BY <1>1, <1>2, <1>3, WaitingMember
<1> QED
  BY <1>1, <1>4, <1>7, <1>8 DEF read

(* No other operation touches a waiting job. *)
LEMMA OtherJobs ==
    ASSUME UNCHANGED <<triggerQueue, inbox, batch>>, ai' = ai \/ batch = {}
    PROVE  Waiting' = Waiting
  BY DEF Waiting, MailJobs

(* Handing jobs that wait to start_session, whatever comes of it.           *)
LEMMA HandOver ==
    ASSUME Conserved, NEW a \in Agents, NEW kind, NEW jobs, NEW names,
           names \subseteq Waiting, StartSession(a, kind, jobs, names),
           Waiting' = Waiting \ names, sent' = sent
    PROVE  Conserved'
<1>1. \/ ran' = ran \cup names /\ lost' = lost
      \/ ran' = ran /\ lost' = lost \cup names
  BY DEF StartSession
<1> QED
  BY <1>1 DEF Conserved

(* Every step leaves each job in exactly one place. *)
LEMMA ConservedKept ==
    ASSUME TypeOK, DispatchInv, JobInv, [Next]_vars
    PROVE  Conserved'
<1>0. Conserved
  BY DEF JobInv
<1>1. ASSUME NEW to \in Agents \cup {Everyone}, OwnerMessage(to) PROVE Conserved'
  <2>1. PICK K, R : /\ Waiting' = Waiting \cup K /\ lost' = lost \cup R
                    /\ sent' = sent \cup K \cup R
                    /\ K \cap R = {} /\ (K \cup R) \cap sent = {}
    BY <1>1, OwnerMessageJobs
  <2>2. ran' = ran
    BY <1>1 DEF OwnerMessage
  <2> QED
    BY <1>0, <2>1, <2>2 DEF Conserved
<1>2. CASE QueueStart
  <2> DEFINE e == triggerQueue[qi]
             j == OwnerJob(e.agent, e.id)
  <2>1. e.agent \in Agents /\ {j} \subseteq Waiting /\ Waiting' = Waiting \ {j}
    BY <1>2, QueueStartJobs
  <2>2. StartSession(e.agent, "owner", {e.id}, {j}) /\ sent' = sent
    BY <1>2 DEF QueueStart
  <2> QED
    BY <1>0, <2>1, <2>2, HandOver
<1>3. CASE ReceiveOne
  <2>1. ran' = ran /\ sent' = sent
    BY <1>3 DEF ReceiveOne
  <2> QED
    BY <1>0, <1>3, <2>1, ReceiveJobs DEF Conserved
<1>4. CASE MailStart
  <2>1. StartSession(ai, "mail", batch, MailJobs(ai, batch)) /\ sent' = sent
    BY <1>4 DEF MailStart
  <2> QED
    BY <1>0, <1>4, <2>1, MailStartJobs, HandOver
<1>5. CASE DueStart
  <2>1. /\ StartSession(ai, "task", DueTasks(ai), {}) /\ sent' = sent /\ ai \in Agents
        /\ UNCHANGED <<triggerQueue, inbox, batch, ai>>
    BY <1>5 DEF DueStart, DispatchInv, MainIsRight, disk
  <2>2. Waiting' = Waiting \ {}
    BY <2>1, OtherJobs
  <2> QED
    BY <1>0, <2>1, <2>2, HandOver
<1>6. ASSUME NEW w \in Threads, NEW to \in Agents, SendMail(w, to) PROVE Conserved'
  <2>1. ran' = ran /\ lost' = lost
    BY <1>6 DEF SendMail
  <2> QED
    BY <1>0, <1>6, <2>1, SendMailJobs DEF Conserved
<1>7. CASE Crash
  <2>1. ran' = ran /\ sent' = sent
    BY <1>7 DEF Crash
  <2> QED
    BY <1>0, <1>7, <2>1, CrashJobs DEF Conserved
<1>8. ASSUME UNCHANGED <<triggerQueue, inbox, batch, sent, ran, lost>>,
             ai' = ai \/ batch = {}
      PROVE  Conserved'
  BY <1>0, <1>8, OtherJobs DEF Conserved
<1>9. CASE AgentBusy \/ AgentGap \/ NoMail \/ DueNone \/ MarkDone \/ AgentsEnd
  BY <1>8, <1>9 DEF AgentBusy, AgentGap, NoMail, DueNone, MarkDone, AgentsEnd, disk,
                    history, JobInv, ReadOnce
<1>10. CASE DispatchBegin \/ QueueBusy \/ QueueSkip \/ QueueEnd
  BY <1>8, <1>10, SMTT(60) DEF DispatchBegin, QueueBusy, QueueSkip, QueueEnd, disk, history
<1>11. ASSUME NEW w \in Threads,
              \/ \E t \in TaskIds, l \in 0..MaxDelay, e \in {0, MaxDelay} :
                   SetTask(w, t, l, e)
              \/ \E t \in TaskIds : CancelTask(w, t)
              \/ SessionReturns(w) \/ StoreTime(w) \/ StoreIdle(w)
       PROVE  Conserved'
  BY <1>8, <1>11 DEF SetTask, CancelTask, SessionReturns, StoreTime, StoreIdle, main,
                     disk, history
<1>12. CASE Tick \/ UNCHANGED vars
  BY <1>8, <1>12 DEF Tick, vars, main, disk, history
<1> QED
  BY <1>1, <1>2, <1>3, <1>4, <1>5, <1>6, <1>7, <1>9, <1>10, <1>11, <1>12
     DEF Next, MainStep, ThreadStep

(* Numbers only grow, and a message is served only after it was sent.       *)
LEMMA NumberedKept ==
    ASSUME TypeOK, DispatchInv, JobInv, [Next]_vars
    PROVE  Numbered'
<1>0. nOwner \in Nat /\ nMail \in Nat /\ newest \in [Agents -> Nat]
  BY DispatchAssumption DEF TypeOK, HistoryType, DispatchAssumption
<1> DEFINE Job(j, o, m) == \/ \E a \in Agents, k \in 1..o : j = OwnerJob(a, k)
                           \/ \E a \in Agents, k \in 1..m : j = <<"mail", a, k>>
<1>a. \A j \in sent : Job(j, nOwner, nMail)
  BY DEF JobInv, Numbered
<1>b. \A a \in Agents : newest[a] <= nOwner
  BY DEF JobInv, Numbered
<1>1. ASSUME NEW to \in Agents \cup {Everyone}, OwnerMessage(to) PROVE Numbered'
  <2>1. nOwner' = nOwner + 1 /\ nMail' = nMail /\ newest' = newest
    BY <1>1 DEF OwnerMessage
  <2>2. \A j : Job(j, nOwner, nMail) => Job(j, nOwner + 1, nMail)
    BY <1>0
  <2>3. \A a \in Agents : Job(OwnerJob(a, nOwner + 1), nOwner + 1, nMail)
    BY <1>0
  <2>4. \A j \in sent' \ sent : \E a \in Agents : j = OwnerJob(a, nOwner + 1)
    BY <1>1, OwnerMessageJobs
  <2> HIDE DEF Job
  <2>5. \A j \in sent' : Job(j, nOwner', nMail')
    BY <1>a, <2>1, <2>2, <2>3, <2>4
  <2>6. \A a \in Agents : newest'[a] <= nOwner'
    BY <1>0, <1>b, <2>1
  <2> QED
    BY <2>5, <2>6 DEF Job, Numbered
<1>2. CASE QueueStart
  <2> DEFINE e == triggerQueue[qi]
  <2>1. /\ newest' = [newest EXCEPT ![e.agent] = e.id]
        /\ UNCHANGED <<sent, nOwner, nMail>>
    BY <1>2 DEF QueueStart
  <2>2. e.agent \in Agents /\ OwnerJob(e.agent, e.id) \in sent
    BY <1>2, QueueStartJobs DEF JobInv, Conserved
  <2>3. e.id \in 1..nOwner
    BY <1>a, <2>2, JobsDiffer
  <2>4. \A a \in Agents : newest'[a] <= nOwner'
    BY <1>0, <1>b, <2>1, <2>2, <2>3
  <2> QED
    BY <1>a, <2>1, <2>4 DEF Numbered
<1>3. ASSUME NEW w \in Threads, NEW to \in Agents, SendMail(w, to) PROVE Numbered'
  <2>1. nMail' = nMail + 1 /\ nOwner' = nOwner /\ newest' = newest
    BY <1>3 DEF SendMail
  <2>2. sent' = sent \cup {<<"mail", to, nMail + 1>>}
    BY <1>3, SendMailJobs
  <2>3. \A j : Job(j, nOwner, nMail) => Job(j, nOwner, nMail + 1)
    BY <1>0
  <2>4. Job(<<"mail", to, nMail + 1>>, nOwner, nMail + 1)
    BY <1>0
  <2> HIDE DEF Job
  <2>5. \A j \in sent' : Job(j, nOwner', nMail')
    BY <1>a, <2>1, <2>2, <2>3, <2>4
  <2>6. \A a \in Agents : newest'[a] <= nOwner'
    BY <1>b, <2>1
  <2> QED
    BY <2>5, <2>6 DEF Job, Numbered
<1>4. CASE UNCHANGED <<sent, newest, nOwner, nMail>>
  BY <1>a, <1>b, <1>4 DEF Numbered
<1> QED
  BY <1>1, <1>2, <1>3, <1>4, ZenonT(60)
     DEF Next, MainStep, ThreadStep, DispatchBegin, QueueBusy, QueueSkip, QueueEnd,
         AgentBusy, AgentGap, ReceiveOne, MailStart, NoMail, DueNone, DueStart, MarkDone,
         AgentsEnd, SetTask, CancelTask, SessionReturns, StoreTime, StoreIdle, Tick,
         Crash, vars, history

(* Mail leaves the batch with the receive that read it. *)
LEMMA ReadOnceKept ==
    ASSUME TypeOK, DispatchInv, JobInv, [Next]_vars
    PROVE  ReadOnce'
<1>0. ReadOnce
  BY DEF JobInv
<1>1. CASE ReceiveOne
  <2>1. UNCHANGED <<at, ai, qi>> /\ at = "receive"
    BY <1>1 DEF ReceiveOne
  <2> QED
    BY <1>0, <1>1, <2>1, ReceiveJobs DEF ReadOnce
<1>2. ASSUME NEW w \in Threads, NEW to \in Agents, SendMail(w, to) PROVE ReadOnce'
  <2>1. batch' = {} /\ UNCHANGED <<at, qi>>
    BY <1>2, SendMailJobs DEF SendMail, main
  <2> QED
    BY <1>0, <2>1 DEF ReadOnce
<1>3. CASE MailStart \/ Crash
  BY <1>0, <1>3 DEF ReadOnce, MailStart, Crash, NextAgent
<1>4. CASE DispatchBegin \/ QueueBusy \/ QueueSkip \/ QueueStart \/ QueueEnd
  BY <1>0, <1>4 DEF ReadOnce, DispatchBegin, QueueBusy, QueueSkip, QueueStart, QueueEnd,
                    disk
<1>5. CASE AgentBusy \/ AgentGap \/ NoMail \/ DueNone \/ DueStart \/ MarkDone \/ AgentsEnd
  BY <1>0, <1>5 DEF ReadOnce, AgentBusy, AgentGap, NoMail, DueNone, DueStart, MarkDone,
                    AgentsEnd, NextAgent, disk
<1>6. CASE UNCHANGED <<at, qi, ai, batch, inbox>>
  BY <1>0, <1>6 DEF ReadOnce
<1> QED
  BY <1>1, <1>2, <1>3, <1>4, <1>5, <1>6, ZenonT(60)
     DEF Next, MainStep, ThreadStep, OwnerMessage, SetTask, CancelTask, SessionReturns,
         StoreTime, StoreIdle, Tick, vars, main, disk

(* No step disturbs the order of the queue. *)
LEMMA QueueSortedKept ==
    ASSUME TypeOK, DispatchInv, JobInv, [Next]_vars
    PROVE  QueueSorted'
<1>1. ASSUME NEW to \in Agents \cup {Everyone}, OwnerMessage(to) PROVE QueueSorted'
  BY <1>1, OwnerMessageJobs
<1>2. CASE QueueStart
  BY <1>2, QueueStartJobs
<1>3. CASE Crash
  <2>1. Len(triggerQueue') = 0
    BY <1>3 DEF Crash
  <2> QED
    BY <2>1 DEF QueueSorted
<1>4. CASE UNCHANGED triggerQueue
  BY <1>4 DEF JobInv, QueueSorted
<1> QED
  BY <1>1, <1>2, <1>3, <1>4, ZenonT(60)
     DEF Next, MainStep, ThreadStep, DispatchBegin, QueueBusy, QueueSkip, QueueEnd,
         AgentBusy, AgentGap, ReceiveOne, MailStart, NoMail, DueNone, DueStart, MarkDone,
         AgentsEnd, SendMail, SetTask, CancelTask, SessionReturns, StoreTime, StoreIdle,
         Tick, vars, main

(* What sched_get_due returned is marked only after its session started.    *)
LEMMA MarksStartedKept ==
    ASSUME TypeOK, DispatchInv, JobInv, [Next]_vars
    PROVE  MarksStarted'
<1> SUFFICES ASSUME "start" \notin Faults, at' = "mark" PROVE {ai'} \X due' \subseteq fired'
  BY DEF MarksStarted
<1>1. CASE DueStart
  <2>1. ai' = ai /\ due' = DueTasks(ai) /\ ai \in Agents
        /\ StartSession(ai, "task", DueTasks(ai), {})
    BY <1>1 DEF DueStart, DispatchInv, MainIsRight
  <2>2. fired' = fired \cup ({ai} \X DueTasks(ai))
    BY <2>1 DEF StartSession, SessionFails
  <2> QED
    BY <2>1, <2>2
<1>2. CASE UNCHANGED <<at, ai, due, fired>>
  BY <1>2 DEF JobInv, MarksStarted
<1>3. CASE MainStep \/ Crash
  BY <1>1, <1>2, <1>3
     DEF MainStep, DispatchBegin, QueueBusy, QueueSkip, QueueStart, QueueEnd,
         AgentBusy, AgentGap, ReceiveOne, MailStart, NoMail, DueNone, MarkDone,
         AgentsEnd, NextAgent, Crash, history
<1> QED
  BY <1>2, <1>3, ZenonT(60)
     DEF Next, ThreadStep, OwnerMessage, SendMail, SetTask, CancelTask, SessionReturns,
         StoreTime, StoreIdle, Tick, vars, main, history

(* start_session: the flag goes up with a thread, the record opens with a   *)
(* session that will close it, and no other agent is affected.              *)
LEMMA StartHeld ==
    ASSUME TypeOK, DispatchInv, JobInv, NEW a \in Agents, ~busy[a],
           NEW kind \in {"owner", "mail", "task"}, NEW jobs, jobs # {}, NEW names,
           StartSession(a, kind, jobs, names), UNCHANGED <<aged, age, crashes>>
    PROVE  /\ FlagHasThread' /\ RecordsHeld'
           /\ \A b \in Agents : Held(b) => Held(b)'
           /\ \A w \in Threads : thread'[w].pc = "idle" => thread'[w] = thread[w]
<1>1. CASE /\ \E w \in Threads, stored \in BOOLEAN :
                /\ ~Live(w)
                /\ thread' = [thread EXCEPT ![w] =
                     [agent |-> a, pc |-> "run", kind |-> kind, jobs |-> jobs,
                      recorded |-> stored]]
                /\ record' = IF stored THEN [record EXCEPT ![a] = "active"] ELSE record
           /\ busy' = [busy EXCEPT ![a] = TRUE]
  <2>1. PICK w \in Threads, stored \in BOOLEAN :
          /\ ~Live(w)
          /\ thread' = [thread EXCEPT ![w] =
               [agent |-> a, pc |-> "run", kind |-> kind, jobs |-> jobs,
                recorded |-> stored]]
          /\ record' = IF stored THEN [record EXCEPT ![a] = "active"] ELSE record
    BY <1>1, Zenon
  <2>2. /\ thread'[w] = [agent |-> a, pc |-> "run", kind |-> kind, jobs |-> jobs,
                         recorded |-> stored]
        /\ \A v \in Threads : v # w => thread'[v] = thread[v]
    BY <2>1 DEF TypeOK, WorkerType
  <2>3. \A b \in Agents : b # a => busy'[b] = busy[b]
    BY <1>1 DEF TypeOK, WorkerType
  <2>4. \A v \in Threads : Live(v) => v # w /\ thread[v].agent # a
    BY <2>1 DEF DispatchInv, FlagCoversThread
  <2>5. FlagHasThread'
    <3>1. ASSUME NEW b \in Agents, busy'[b]
          PROVE  \E v \in Threads : thread'[v].pc # "none" /\ thread'[v].agent = b
      <4>1. CASE b = a
        BY <2>2, <4>1
      <4>2. CASE b # a
        <5>1. PICK v \in Threads : Live(v) /\ thread[v].agent = b
          BY <2>3, <3>1, <4>2 DEF JobInv, FlagHasThread
        <5> QED
          BY <2>2, <2>4, <5>1 DEF Live
      <4> QED
        BY <4>1, <4>2
    <3>2. ASSUME NEW v \in Threads, thread'[v].pc # "none"
          PROVE  thread'[v].kind # "none" /\ thread'[v].jobs # {}
      BY <2>2, <3>2 DEF JobInv, FlagHasThread, Live
    <3> QED
      BY <3>1, <3>2 DEF FlagHasThread, Live
  <2>6. RecordsHeld'
    <3> SUFFICES ASSUME NEW b \in Agents, record'[b] = "active"
                 PROVE  \E v \in Threads : /\ thread'[v].pc = "run"
                                           /\ thread'[v].agent = b /\ thread'[v].recorded
      BY DEF RecordsHeld, Running
    <3>1. CASE record[b] = "active"
      <4>1. PICK v \in Threads : Running(v) /\ thread[v].agent = b /\ thread[v].recorded
        BY <3>1 DEF JobInv, RecordsHeld
      <4>2. v # w
        BY <2>4, <4>1 DEF Live, Running
      <4> QED
        BY <2>2, <4>1, <4>2 DEF Running
    <3>2. CASE record[b] # "active"
      <4>1. b = a /\ stored
        BY <2>1, <3>2 DEF TypeOK, WorkerType
      <4> QED
        BY <2>2, <4>1
    <3> QED
      BY <3>1, <3>2
  <2>7. ASSUME NEW b \in Agents, Held(b) PROVE Held(b)'
    <3>1. ASSUME NEW v \in Threads, thread[v].pc \in {"run", "time"}
          PROVE  thread'[v] = thread[v]
      BY <2>2, <2>4, <3>1 DEF Live
    <3> QED
      BY <2>7, <3>1 DEF Held
  <2>8. \A v \in Threads : thread'[v].pc = "idle" => thread'[v] = thread[v]
    BY <2>2
  <2> QED
    BY <2>5, <2>6, <2>7, <2>8
<1>2. CASE /\ thread' = thread /\ busy' = busy
           /\ \/ UNCHANGED record
              \/ \E end \in {"ended", "left"} : record' = [record EXCEPT ![a] = end]
  <2>1. \A b \in Agents : record'[b] = "active" => record[b] = "active"
    BY <1>2 DEF TypeOK, WorkerType
  <2>2. FlagHasThread' /\ RecordsHeld'
    BY <1>2, <2>1 DEF JobInv, FlagHasThread, RecordsHeld, Live, Running
  <2> QED
    BY <1>2, <2>2 DEF Held
<1> QED
  BY <1>1, <1>2, StartEffect

(* The three places where dispatch calls start_session.                     *)
LEMMA StartsHold ==
    ASSUME TypeOK, DispatchInv, JobInv, QueueStart \/ MailStart \/ DueStart
    PROVE  /\ FlagHasThread' /\ RecordsHeld'
           /\ \A b \in Agents : Held(b) => Held(b)'
           /\ \A w \in Threads : thread'[w].pc = "idle" => thread'[w] = thread[w]
<1>1. UNCHANGED <<aged, age, crashes>>
  BY DEF QueueStart, MailStart, DueStart
<1>2. CASE QueueStart
  <2> DEFINE e == triggerQueue[qi]
  <2>1. e.agent \in Agents /\ ~busy[e.agent]
    BY <1>2, QueueAgent DEF QueueStart, DispatchInv, MainIsRight
  <2>2. StartSession(e.agent, "owner", {e.id}, {OwnerJob(e.agent, e.id)})
    BY <1>2 DEF QueueStart
  <2> QED
    BY <1>1, <2>1, <2>2, StartHeld
<1>3. CASE MailStart
  <2>1. ai \in Agents /\ ~busy[ai] /\ batch # {}
    BY <1>3 DEF MailStart, DispatchInv, MainIsRight
  <2>2. StartSession(ai, "mail", batch, MailJobs(ai, batch))
    BY <1>3 DEF MailStart
  <2> QED
    BY <1>1, <2>1, <2>2, StartHeld
<1>4. CASE DueStart
  <2>1. ai \in Agents /\ ~busy[ai] /\ DueTasks(ai) # {}
    BY <1>4 DEF DueStart, DispatchInv, MainIsRight
  <2>2. StartSession(ai, "task", DueTasks(ai), {})
    BY <1>4 DEF DueStart
  <2> QED
    BY <1>1, <2>1, <2>2, StartHeld
<1> QED
  BY <1>2, <1>3, <1>4

(* A session thread is the only one of its agent: it closes its own record  *)
(* and takes down its own flag.                                             *)
LEMMA ThreadHeldKept ==
    ASSUME TypeOK, DispatchInv, JobInv, [Next]_vars
    PROVE  FlagHasThread' /\ RecordsHeld'
<1>1. CASE QueueStart \/ MailStart \/ DueStart
  BY <1>1, StartsHold
<1>2. ASSUME NEW w \in Threads, SessionReturns(w) \/ StoreTime(w) \/ StoreIdle(w)
      PROVE  FlagHasThread' /\ RecordsHeld'
  <2> DEFINE a == thread[w].agent
  <2>1. /\ Live(w) /\ a \in Agents /\ crashes' = crashes
        /\ \A v \in Threads : v # w => thread'[v] = thread[v]
    BY <1>2 DEF SessionReturns, StoreTime, StoreIdle, Running, Live, DispatchInv,
                FlagCoversThread, TypeOK, WorkerType, history
  <2>2. \A v \in Threads : v # w /\ Live(v) => thread[v].agent # a
    BY <2>1 DEF DispatchInv, OneSessionPerAgent
  <2>3. CASE SessionReturns(w) \/ StoreTime(w)
    <3>1. /\ busy' = busy /\ thread'[w].pc # "none" /\ thread'[w].agent = a
          /\ thread'[w].kind = thread[w].kind /\ thread'[w].jobs = thread[w].jobs
      BY <2>3 DEF SessionReturns, StoreTime, TypeOK, WorkerType, ThreadState
    <3>2. FlagHasThread'
      BY <2>1, <3>1 DEF JobInv, FlagHasThread, Live
    <3>3. \A b \in Agents : record'[b] = "active" => record[b] = "active"
      BY <2>3 DEF SessionReturns, CloseRecord, StoreTime, TypeOK, WorkerType
    <3>4. Running(w) /\ thread[w].recorded => record'[a] # "active"
      BY <2>1, <2>3 DEF SessionReturns, CloseRecord, StoreTime, Running, TypeOK, WorkerType
    <3>5. ASSUME NEW b \in Agents, record'[b] = "active"
          PROVE  \E v \in Threads : /\ thread'[v].pc = "run"
                                    /\ thread'[v].agent = b /\ thread'[v].recorded
      <4>1. PICK v \in Threads : Running(v) /\ thread[v].agent = b /\ thread[v].recorded
        BY <2>1, <3>3, <3>5 DEF JobInv, RecordsHeld
      <4>2. v # w
        BY <3>4, <3>5, <4>1
      <4> QED
        BY <2>1, <4>1, <4>2 DEF Running
    <3> QED
      BY <3>2, <3>5 DEF RecordsHeld, Running
  <2>4. CASE StoreIdle(w)
    <3>1. /\ thread[w].pc = "idle" /\ record' = record /\ thread'[w] = NoThread
          /\ ~busy'[a] /\ \A b \in Agents : b # a => busy'[b] = busy[b]
      BY <2>1, <2>4 DEF StoreIdle, TypeOK, WorkerType
    <3>2. NoThread.pc = "none"
      BY DEF NoThread
    <3>3. FlagHasThread'
      BY <2>1, <3>1, <3>2 DEF JobInv, FlagHasThread, Live
    <3>4. RecordsHeld'
      BY <2>1, <3>1 DEF JobInv, RecordsHeld, Running
    <3> QED
      BY <3>3, <3>4
  <2> QED
    BY <1>2, <2>3, <2>4
<1>3. CASE Crash
  <2>1. /\ \A a \in Agents : ~busy'[a]
        /\ \A w \in Threads : thread'[w].pc = "none"
        /\ \A a \in Agents : record'[a] # "active"
    BY <1>3 DEF Crash, NoThread
  <2> QED
    BY <2>1 DEF FlagHasThread, RecordsHeld, Live
<1>4. CASE UNCHANGED <<busy, thread, record, crashes>>
  BY <1>4, SMTT(60) DEF JobInv, FlagHasThread, RecordsHeld, Live, Running
<1> QED
  BY <1>1, <1>2, <1>3, <1>4
     DEF Next, MainStep, ThreadStep, OwnerMessage, DispatchBegin, QueueBusy, QueueSkip,
         QueueEnd, AgentBusy, AgentGap, ReceiveOne, NoMail, DueNone, MarkDone, AgentsEnd,
         SendMail, SetTask, CancelTask, Tick, vars, workers, history

(* Without a stall, the first of an agent's messages that a pass looks at   *)
(* decides for all of them: a session that ends during the pass stores its  *)
(* time first, and the gap keeps the later messages waiting.                *)
LEMMA InTurnKept ==
    ASSUME TypeOK, DispatchInv, JobInv, [Next]_vars, "stall" \notin Faults
    PROVE  InTurn'
<1>0. InTurn /\ Gap \in Nat /\ Gap > 0
  BY DispatchAssumption DEF JobInv, DispatchAssumption
<1>q. /\ triggerQueue \in Seq(Entry) /\ Len(triggerQueue) \in Nat
      /\ \A i \in 1..Len(triggerQueue) :
           triggerQueue[i].agent \in Agents /\ triggerQueue[i].id \in Nat
  <2>1. triggerQueue \in Seq(Entry)
    BY DEF TypeOK, QueueType
  <2>2. \A i \in 1..Len(triggerQueue) : triggerQueue[i] \in Entry
    BY <2>1, ElementOfSeq
  <2> QED
    BY <2>1, <2>2, LenProperties, DispatchAssumption DEF Entry, DispatchAssumption
<1>1. ASSUME NEW to \in Agents \cup {Everyone}, OwnerMessage(to) PROVE InTurn'
  <2>1. UNCHANGED <<at, aged, age, thread, newest>> /\ at = "poll"
    BY <1>1 DEF OwnerMessage, workers
  <2>2. triggerQueue' \in Seq(Entry)
    BY NextType DEF TypeOK, QueueType, DispatchInv
  <2>3. ASSUME NEW i \in 1..Len(triggerQueue')
        PROVE  triggerQueue'[i].id > newest[triggerQueue'[i].agent]
    <3>1. CASE i \in 1..Len(triggerQueue) /\ triggerQueue'[i] = triggerQueue[i]
      BY <1>0, <3>1 DEF InTurn
    <3>2. CASE triggerQueue'[i].id = nOwner + 1
      <4>0. triggerQueue'[i] \in Entry
        BY <2>2, ElementOfSeq
      <4>1. triggerQueue'[i].agent \in Agents
        BY <4>0 DEF Entry
      <4>2. newest[triggerQueue'[i].agent] <= nOwner
        BY <4>1 DEF JobInv, Numbered
      <4>3. newest[triggerQueue'[i].agent] \in Nat /\ nOwner \in Nat
        BY <4>1, DispatchAssumption DEF TypeOK, HistoryType, DispatchAssumption
      <4> HIDE DEF Agents
      <4> QED
        BY <3>2, <4>2, <4>3
    <3> QED
      BY <1>1, <3>1, <3>2, OwnerMessageJobs
  <2> QED
    BY <1>0, <2>1, <2>3 DEF InTurn
<1>2. CASE DispatchBegin
  <2>1. /\ UNCHANGED <<age, thread, newest, triggerQueue, qi>> /\ qi = 1
        /\ aged' = [a \in Agents |-> age[a] >= Gap]
    BY <1>2 DEF DispatchBegin, workers, history, JobInv, ReadOnce
  <2>2. ASSUME NEW w \in Threads, thread[w].pc = "idle"
        PROVE  ~aged'[thread[w].agent] /\ age[thread[w].agent] < Gap
    <3>1. thread[w].agent \in Agents /\ age[thread[w].agent] < Gap
      BY <1>0, <2>2 DEF InTurn, DispatchInv, FlagCoversThread, Live
    <3>2. ~(age[thread[w].agent] >= Gap)
      BY <1>0, <3>1, DispatchAssumption DEF TypeOK, WorkerType, DispatchAssumption
    <3> QED
      BY <2>1, <3>1, <3>2, Zenon
  <2>3. \A j \in 1..Len(triggerQueue) : ~(j < qi')
    BY <2>1
  <2> QED
    BY <1>0, <2>1, <2>2, <2>3 DEF InTurn
<1>3. CASE QueueBusy \/ QueueSkip
  <2>1. /\ UNCHANGED <<age, aged, thread, newest, triggerQueue>>
        /\ at \in {"queue", "queueGap"} /\ qi \in Nat
    BY <1>3 DEF QueueBusy, QueueSkip, workers, history, TypeOK, MainType
  <2>2. CASE qi' = qi
    BY <1>0, <2>1, <2>2 DEF InTurn, Held
  <2>3. CASE qi' = qi + 1
    <3>1. qi \in 1..Len(triggerQueue) /\ triggerQueue[qi].agent \in Agents
      BY <1>3, <1>q, QueueAgent DEF QueueBusy, QueueSkip, TypeOK, MainType, DispatchInv
    <3>2. Held(triggerQueue[qi].agent)
      <4>1. CASE QueueSkip
        BY <4>1 DEF QueueSkip, Held
      <4>2. CASE QueueBusy
        <5>1. busy[triggerQueue[qi].agent]
          BY <2>1, <2>3, <4>2 DEF QueueBusy, IsBusy
        <5>2. PICK w \in Threads : Live(w) /\ thread[w].agent = triggerQueue[qi].agent
          BY <3>1, <5>1 DEF JobInv, FlagHasThread
        <5>3. thread[w].pc \in {"run", "time", "idle"}
          BY <5>2 DEF Live, TypeOK, WorkerType, ThreadState
        <5> QED
          BY <1>0, <5>2, <5>3 DEF InTurn, Held
      <4> QED
        BY <1>3, <4>1, <4>2
    <3>3. ASSUME NEW j \in 1..Len(triggerQueue), j < qi'
          PROVE  Held(triggerQueue[j].agent)
      BY <1>0, <1>q, <2>1, <2>3, <3>2, <3>3 DEF InTurn
    <3> QED
      BY <1>0, <2>1, <3>3 DEF InTurn, Held
  <2> QED
    BY <1>3, <2>2, <2>3 DEF QueueBusy, QueueSkip
<1>4. CASE QueueStart
  <2> DEFINE q == triggerQueue
             e == q[qi]
  <2>1. /\ UNCHANGED <<age, aged, qi>> /\ at = "queueGap" /\ aged[e.agent]
        /\ newest' = [newest EXCEPT ![e.agent] = e.id]
    BY <1>4 DEF QueueStart
  <2>2. qi \in 1..Len(q) /\ e.agent \in Agents /\ ~busy[e.agent]
    BY <2>1, QueueAgent DEF DispatchInv, MainIsRight
  <2>3. ~Held(e.agent)
    BY <2>1, <2>2 DEF Held, DispatchInv, FlagCoversThread, Live
  <2>4. \A i \in 1..Len(triggerQueue') : \E j \in 1..Len(q) :
          triggerQueue'[i] = q[j] /\ j = IF i < qi THEN i ELSE i + 1
    BY <1>4, QueueStartJobs
  <2>5. ASSUME NEW i \in 1..Len(triggerQueue')
        PROVE  triggerQueue'[i].id > newest'[triggerQueue'[i].agent]
    <3>1. PICK j \in 1..Len(q) : triggerQueue'[i] = q[j] /\ j = IF i < qi THEN i ELSE i + 1
      BY <2>4
    <3>2. CASE q[j].agent # e.agent
      BY <1>0, <1>q, <2>1, <2>2, <3>1, <3>2 DEF InTurn, TypeOK, HistoryType
    <3>3. CASE q[j].agent = e.agent
      <4>1. ~(j < qi)
        BY <1>0, <2>1, <2>3, <3>3 DEF InTurn
      <4>2. qi < j
        BY <1>q, <2>2, <3>1, <4>1
      <4>3. e.id < q[j].id
        BY <2>2, <3>3, <4>2 DEF JobInv, QueueSorted
      <4>4. newest'[e.agent] = e.id
        BY <2>1, <2>2 DEF TypeOK, HistoryType
      <4> QED
        BY <1>q, <2>2, <3>1, <3>3, <4>3, <4>4
    <3> QED
      BY <3>2, <3>3
  <2>6. ASSUME NEW i \in 1..Len(triggerQueue'), i < qi'
        PROVE  Held(triggerQueue[i].agent)'
    <3>1. i \in 1..Len(q) /\ triggerQueue'[i] = q[i]
      BY <2>1, <2>4, <2>6
    <3>2. Held(q[i].agent) /\ q[i].agent \in Agents
      BY <1>0, <1>q, <2>1, <2>6, <3>1 DEF InTurn
    <3>3. Held(q[i].agent) => \/ ~aged'[q[i].agent]
                              \/ \E w \in Threads : /\ thread'[w].pc \in {"run", "time"}
                                                    /\ thread'[w].agent = q[i].agent
      BY <1>4, <3>2, StartsHold DEF Held
    <3> QED
      BY <3>1, <3>2, <3>3 DEF Held
  <2>7. \A w \in Threads : thread'[w].pc = "idle" =>
          ~aged'[thread'[w].agent] /\ age'[thread'[w].agent] < Gap
    <3>1. \A w \in Threads : thread'[w].pc = "idle" => thread'[w] = thread[w]
      BY <1>4, StartsHold
    <3> QED
      BY <1>0, <2>1, <3>1 DEF InTurn
  <2> QED
    BY <2>5, <2>6, <2>7 DEF InTurn
<1>5. CASE MailStart \/ DueStart
  <2>1. UNCHANGED <<age, aged, newest, triggerQueue>> /\ at' \in {"agents", "mark"}
    BY <1>5 DEF MailStart, DueStart, NextAgent
  <2>2. \A w \in Threads : thread'[w].pc = "idle" => thread'[w] = thread[w]
    BY <1>5, StartsHold
  <2> QED
    BY <1>0, <2>1, <2>2 DEF InTurn
<1>6. ASSUME UNCHANGED <<age, thread, newest, triggerQueue>>,
             \A a \in Agents : aged'[a] => aged[a],
             at' \notin {"queue", "queueGap"}
      PROVE  InTurn'
  <2>1. \A w \in Threads : thread[w].pc = "idle" => thread[w].agent \in Agents
    BY DEF DispatchInv, FlagCoversThread, Live
  <2> QED
    BY <1>0, <1>6, <2>1 DEF InTurn
<1>7. CASE QueueEnd \/ AgentBusy \/ AgentGap \/ ReceiveOne \/ NoMail \/ DueNone \/ MarkDone
  <2>1. /\ UNCHANGED <<age, thread, newest, triggerQueue, aged>>
        /\ at' \notin {"queue", "queueGap"}
    BY <1>7 DEF QueueEnd, AgentBusy, AgentGap, ReceiveOne, NoMail, DueNone, MarkDone,
                NextAgent, workers, history
  <2> QED
    BY <1>6, <2>1
<1>8. CASE AgentsEnd
  <2>1. /\ UNCHANGED <<age, thread, newest, triggerQueue>> /\ at' = "poll"
        /\ \A a \in Agents : ~aged'[a]
    BY <1>8 DEF AgentsEnd, workers, history
  <2> QED
    BY <1>6, <2>1
<1>9. ASSUME NEW w \in Threads, SessionReturns(w) \/ StoreTime(w) \/ StoreIdle(w)
      PROVE  InTurn'
  <2> DEFINE a == thread[w].agent
  <2>1. /\ a \in Agents /\ UNCHANGED <<at, qi, triggerQueue, newest>>
        /\ \A v \in Threads : v # w => thread'[v] = thread[v]
    BY <1>9 DEF SessionReturns, StoreTime, StoreIdle, Running, Live, DispatchInv,
                FlagCoversThread, TypeOK, WorkerType, main, history
  <2>2. CASE SessionReturns(w)
    <3>1. UNCHANGED <<age, aged>> /\ thread'[w].pc = "time" /\ thread'[w].agent = a
      BY <2>2 DEF SessionReturns, TypeOK, WorkerType, ThreadState, main
    <3> QED
      BY <1>0, <2>1, <3>1 DEF InTurn, Held
  <2>3. CASE StoreTime(w)
    <3>1. /\ ~aged'[a] /\ age'[a] = 0 /\ thread[w].pc = "time"
          /\ thread'[w].agent = a
          /\ \A b \in Agents : b # a => aged'[b] = aged[b] /\ age'[b] = age[b]
      BY <2>1, <2>3 DEF StoreTime, TypeOK, WorkerType, MainType, ThreadState
    <3>2. \A v \in Threads : v # w /\ thread[v].pc = "idle" => thread[v].agent \in Agents
      BY DEF DispatchInv, FlagCoversThread, Live
    <3>3. \A v \in Threads : thread'[v].pc = "idle" =>
            ~aged'[thread'[v].agent] /\ age'[thread'[v].agent] < Gap
      BY <1>0, <2>1, <3>1, <3>2 DEF InTurn
    <3>4. ASSUME NEW b \in Agents, Held(b)
          PROVE  \/ ~aged'[b]
                 \/ \E v \in Threads : thread'[v].pc \in {"run", "time"} /\ thread'[v].agent = b
      <4>1. CASE b = a
        BY <3>1, <4>1
      <4>2. CASE b # a /\ ~aged[b]
        BY <3>1, <4>2
      <4>3. CASE b # a /\ aged[b]
        <5>1. PICK v \in Threads : thread[v].pc \in {"run", "time"} /\ thread[v].agent = b
          BY <3>4, <4>3 DEF Held
        <5>2. thread'[v] = thread[v]
          BY <2>1, <4>3, <5>1
        <5> QED
          BY <5>1, <5>2
      <4> QED
        BY <4>1, <4>2, <4>3
    <3>5. \A i \in 1..Len(triggerQueue) :
            Held(triggerQueue[i].agent) => Held(triggerQueue[i].agent)'
      BY <1>q, <2>1, <3>4 DEF Held
    <3> QED
      BY <1>0, <2>1, <3>3, <3>5 DEF InTurn
  <2>4. CASE StoreIdle(w)
    <3>1. /\ UNCHANGED <<age, aged>> /\ thread'[w] = NoThread /\ thread[w].pc = "idle"
      BY <2>4 DEF StoreIdle, TypeOK, WorkerType, main
    <3>2. thread'[w].pc = "none"
      BY <3>1 DEF NoThread
    <3> QED
      BY <1>0, <2>1, <3>1, <3>2 DEF InTurn, Held
  <2> QED
    BY <1>9, <2>2, <2>3, <2>4
<1>10. CASE Tick
  <2>1. /\ UNCHANGED <<at, qi, aged, thread, newest, triggerQueue>> /\ StoresInTime
        /\ age' = [a \in Agents |-> Older(age[a], Gap)]
    BY <1>10 DEF Tick
  <2>2. ASSUME NEW w \in Threads, thread[w].pc = "idle"
        PROVE  age'[thread[w].agent] < Gap
    <3>1. thread[w].agent \in Agents
      BY <2>2 DEF DispatchInv, FlagCoversThread, Live
    <3>2. age[thread[w].agent] + 1 < Gap /\ age[thread[w].agent] \in Nat
      BY <2>1, <2>2, <3>1 DEF StoresInTime, TypeOK, WorkerType
    <3> QED
      BY <1>0, <2>1, <3>1, <3>2 DEF Older
  <2> QED
    BY <1>0, <2>1, <2>2 DEF InTurn, Held
<1>11. CASE Crash
  <2>1. /\ at' = "poll" /\ Len(triggerQueue') = 0
        /\ \A w \in Threads : thread'[w].pc = "none"
    BY <1>11 DEF Crash, NoThread
  <2> QED
    BY <2>1 DEF InTurn
<1>12. CASE UNCHANGED <<main, workers, newest>>
  BY <1>0, <1>12 DEF InTurn, Held, main, workers
<1> QED
  BY <1>1, <1>2, <1>3, <1>4, <1>5, <1>7, <1>8, <1>9, <1>10, <1>11, <1>12
     DEF Next, MainStep, ThreadStep, SendMail, SetTask, CancelTask, vars, history

-----------------------------------------------------------------------------
(* It all holds at the start. *)
LEMMA InitJobInv == Init => JobInv
<1> SUFFICES ASSUME Init PROVE JobInv
  OBVIOUS
<1>1. /\ Len(triggerQueue) = 0 /\ batch = {} /\ qi = 1 /\ at = "poll"
      /\ \A w \in Threads : thread[w].pc = "none"
      /\ \A a \in Agents : /\ ~busy[a] /\ record[a] = "ended" /\ inbox[a] = {}
                           /\ newest[a] = 0
      /\ sent = {} /\ ran = {} /\ lost = {} /\ nOwner = 0
  BY DEF Init, NoThread
<1>2. Waiting = {}
  BY <1>1, WaitingMember
<1>3. QueueSorted /\ Numbered /\ ReadOnce /\ Conserved
  BY <1>1, <1>2 DEF QueueSorted, Numbered, ReadOnce, Conserved
<1>4. FlagHasThread /\ RecordsHeld /\ MarksStarted
  BY <1>1 DEF FlagHasThread, RecordsHeld, MarksStarted, Live
<1>5. InTurn
  BY <1>1 DEF InTurn
<1> QED
  BY <1>3, <1>4, <1>5 DEF JobInv

(* The invariant about the jobs, for every behaviour.                       *)
THEOREM JobInvariant == Spec => [](TypeOK /\ DispatchInv /\ JobInv)
<1>1. TypeOK /\ DispatchInv /\ JobInv /\ [Next]_vars => JobInv'
  BY ConservedKept, NumberedKept, ReadOnceKept, QueueSortedKept, MarksStartedKept,
     ThreadHeldKept, InTurnKept DEF JobInv
<1> QED
  BY <1>1, InitJobInv, DispatchSafe, PTL DEF Spec

(* Every message and every mail is in exactly one place: it waits, it was   *)
(* given to a session, or it was dropped; and without a stall the owner's   *)
(* messages are taken in the order they were sent.                          *)
THEOREM NoJobLost == Spec => []JobsConserved
<1>1. TypeOK /\ DispatchInv /\ JobInv => JobsConserved
  <2> SUFFICES ASSUME TypeOK, DispatchInv, JobInv PROVE JobsConserved
    OBVIOUS
  <2>1. ASSUME "stall" \notin Faults PROVE OwnerOrder
    <3>1. QueueSorted /\ InTurn
      BY <2>1 DEF JobInv
    <3>2. Len(triggerQueue) \in Nat
      BY LenProperties DEF TypeOK, QueueType
    <3>3. ASSUME NEW i \in 1..Len(triggerQueue), NEW j \in 1..i - 1
          PROVE  j \in 1..Len(triggerQueue) /\ j < i
      BY <3>2
    <3> QED
      BY <3>1, <3>3 DEF OwnerOrder, QueueSorted, InTurn
  <2> QED
    BY <2>1 DEF JobsConserved, JobInv, Conserved
<1> QED
  BY <1>1, JobInvariant, PTL

(* No record is forgotten: one that is active after its session has been    *)
(* through a session_set_status that failed, or its daemon died.            *)
THEOREM NoRecordLeftOpen == Spec => []RecordsClosed
<1>1. JobInv => RecordsClosed
  BY DEF JobInv, RecordsHeld, RecordsClosed
<1> QED
  BY <1>1, JobInvariant, PTL

(* When sessions can be started, the dispatcher moves or removes no task    *)
(* that it did not first give to a session.                                 *)
THEOREM TasksRunFirst ==
    ASSUME "start" \notin Faults
    PROVE  Spec => TaskRunsBeforeItGoes
<1>1. TypeOK /\ DispatchInv /\ JobInv /\ [Next]_vars =>
        [\A a \in Agents, t \in TaskIds :
           at = "mark" /\ at' = "agents" /\ task[a][t] # task'[a][t] =>
             <<a, t>> \in fired]_vars
  <2> SUFFICES ASSUME TypeOK, JobInv, [Next]_vars, at = "mark", at' = "agents",
                      NEW a \in Agents, NEW t \in TaskIds, task[a][t] # task'[a][t]
               PROVE  <<a, t>> \in fired
    OBVIOUS
  <2>1. MarkDone
    BY DEF Next, MainStep, ThreadStep, OwnerMessage, DispatchBegin, QueueBusy,
           QueueSkip, QueueStart, QueueEnd, AgentBusy, AgentGap, ReceiveOne, MailStart,
           NoMail, DueNone, DueStart, AgentsEnd, SendMail, SetTask, CancelTask,
           SessionReturns, StoreTime, StoreIdle, Tick, Crash, vars, main
  <2>2. PICK next \in [due -> TaskState] :
          task' = [task EXCEPT ![ai] = [k \in TaskIds |-> IF k \in due THEN next[k] ELSE @[k]]]
    BY <2>1 DEF MarkDone, MarkTasks, ToMark
  <2>3. a = ai /\ t \in due
    BY <2>2 DEF TypeOK, DiskType
  <2> QED
    BY <2>3 DEF JobInv, MarksStarted
<1> QED
  BY <1>1, JobInvariant, PTL DEF Spec, TaskRunsBeforeItGoes

-----------------------------------------------------------------------------
(* The refinement.  First the two parts of the mapping: what a session      *)
(* serves, and what an agent may be given next.                             *)

\* The jobs of a session, as the abstract server names them.
Load(s, a) ==
    IF s.kind = "task" THEN {<<"task", a, 0>>}
    ELSE {<<s.kind, a, k>> : k \in s.jobs}

(* What is in service, element by element, before and after a step.         *)
LEMMA ServiceMember ==
    ASSUME NEW a
    PROVE  /\ \A j : j \in InService(a) <=>
                \E w \in Threads : /\ thread[w].pc # "none" /\ thread[w].agent = a
                                   /\ j \in Load(thread[w], a)
           /\ \A j : j \in InService(a)' <=>
                \E w \in Threads : /\ thread'[w].pc # "none" /\ thread'[w].agent = a
                                   /\ j \in Load(thread'[w], a)
  BY DEF InService, Load, Live

(* An agent whose flag is down is free. *)
LEMMA IdleIsFree ==
    ASSUME DispatchInv, NEW a \in Agents, ~busy[a]
    PROVE  InService(a) = {}
  BY ServiceMember DEF DispatchInv, FlagCoversThread, Live

(* A new session puts its jobs in service, for its agent alone.             *)
LEMMA StartServes ==
    ASSUME TypeOK, DispatchInv, NEW a \in Agents, ~busy[a], NEW w \in Threads, ~Live(w),
           NEW s, s.pc # "none", s.agent = a, thread' = [thread EXCEPT ![w] = s]
    PROVE  \A b \in Agents : InService(b)' = IF b = a THEN Load(s, a) ELSE InService(b)
<1>1. thread'[w] = s /\ \A v \in Threads : v # w => thread'[v] = thread[v]
  BY DEF TypeOK, WorkerType
<1>2. \A v \in Threads : thread[v].pc # "none" => v # w /\ thread[v].agent # a
  BY DEF DispatchInv, FlagCoversThread, Live
<1>3. ASSUME NEW b \in Agents
      PROVE  InService(b)' = IF b = a THEN Load(s, a) ELSE InService(b)
  <2>1. CASE b = a
    <3>1. \A j : j \in InService(b)' <=> j \in Load(s, a)
      BY <1>1, <1>2, <2>1, ServiceMember
    <3> QED
      BY <2>1, <3>1
  <2>2. CASE b # a
    <3>1. \A j : j \in InService(b)' <=> j \in InService(b)
      BY <1>1, <1>2, <2>2, ServiceMember
    <3> QED
      BY <2>2, <3>1
  <2> QED
    BY <2>1, <2>2
<1> QED
  BY <1>3

(* The waiting jobs of one agent, by kind. *)
LEMMA WaitingByKind ==
    ASSUME NEW a \in Agents
    PROVE  /\ \A j : j \in Jobs!OwnerJobsOf(a) <=>
                \E i \in 1..Len(triggerQueue) :
                  triggerQueue[i].agent = a /\ j = OwnerJob(a, triggerQueue[i].id)
           /\ \A j : j \in Jobs!MailJobsOf(a) <=>
                \/ \E k \in inbox[a] : j = <<"mail", a, k>>
                \/ ai = a /\ \E k \in batch : j = <<"mail", a, k>>
<1>1. /\ \A b, k : OwnerJob(b, k)[1] = "owner" /\ OwnerJob(b, k)[2] = b
      /\ \A b, k : <<"mail", b, k>>[1] = "mail" /\ <<"mail", b, k>>[2] = b
  BY DEF OwnerJob
<1>2. \A j : j \in Jobs!OwnerJobsOf(a) <=> j \in Waiting /\ j[1] = "owner" /\ j[2] = a
  BY DEF Jobs!OwnerJobsOf
<1>3. \A j : j \in Jobs!MailJobsOf(a) <=> j \in Waiting /\ j[1] = "mail" /\ j[2] = a
  BY DEF Jobs!MailJobsOf
<1>4. \A j : j \in Jobs!OwnerJobsOf(a) <=>
                \E i \in 1..Len(triggerQueue) :
                  triggerQueue[i].agent = a /\ j = OwnerJob(a, triggerQueue[i].id)
  BY <1>1, <1>2, WaitingMember
<1>5. \A j : j \in Jobs!MailJobsOf(a) <=>
                \/ \E k \in inbox[a] : j = <<"mail", a, k>>
                \/ ai = a /\ \E k \in batch : j = <<"mail", a, k>>
  BY <1>1, <1>3, WaitingMember
<1> QED
  BY <1>4, <1>5

(* The message that dispatch takes is the oldest one of its agent.          *)
LEMMA TakesOldest ==
    ASSUME TypeOK, DispatchInv, JobInv, QueueStart, "stall" \notin Faults
    PROVE  LET e == triggerQueue[qi]
           IN  {OwnerJob(e.agent, e.id)} \in Jobs!Servable(e.agent)
<1> DEFINE q == triggerQueue
           e == q[qi]
           a == e.agent
           mine == Jobs!OwnerJobsOf(a)
<1>1. qi \in 1..Len(q) /\ a \in Agents /\ ~busy[a] /\ aged[a] /\ at = "queueGap"
  BY QueueAgent DEF QueueStart, DispatchInv, MainIsRight
<1>2. Len(q) \in Nat /\ \A i \in 1..Len(q) : q[i].id \in Nat
  <2>1. \A i \in 1..Len(q) : q[i] \in Entry
    BY ElementOfSeq DEF TypeOK, QueueType
  <2> QED
    BY <2>1, LenProperties, DispatchAssumption
       DEF TypeOK, QueueType, Entry, DispatchAssumption
<1>3. ~Held(a)
  BY <1>1 DEF Held, DispatchInv, FlagCoversThread, Live
<1>4. ASSUME NEW i \in 1..Len(q), q[i].agent = a, i # qi PROVE e.id < q[i].id
  <2>1. ~(i < qi)
    BY <1>1, <1>3, <1>4 DEF JobInv, InTurn
  <2>2. qi < i
    BY <1>1, <1>2, <1>4, <2>1
  <2> QED
    BY <1>1, <1>4, <2>2 DEF JobInv, QueueSorted
<1>5. \A b, k : OwnerJob(b, k)[3] = k
  BY DEF OwnerJob
<1>6. OwnerJob(a, e.id) \in mine
  BY <1>1, WaitingByKind
<1>7. ASSUME NEW j \in mine PROVE e.id <= j[3] /\ (j[3] <= e.id => j = OwnerJob(a, e.id))
  <2>1. PICK i \in 1..Len(q) : q[i].agent = a /\ j = OwnerJob(a, q[i].id)
    BY <1>1, <1>7, WaitingByKind
  <2>2. j[3] = q[i].id
    BY <1>5, <2>1
  <2> QED
    BY <1>1, <1>2, <1>4, <2>1, <2>2
<1>8. Jobs!Oldest(mine) = {j \in mine : \A k \in mine : j[3] <= k[3]}
  BY DEF Jobs!Oldest
<1>9. Jobs!Oldest(mine) = {OwnerJob(a, e.id)}
  <2>1. OwnerJob(a, e.id)[3] = e.id
    BY <1>5
  <2> HIDE DEF mine, a, e
  <2> QED
    BY <1>6, <1>7, <1>8, <2>1
<1> QED
  BY <1>6, <1>9 DEF Jobs!Servable

(* With no owner message waiting, an agent may be given mail or its tasks.  *)
LEMMA MailServable ==
    ASSUME NEW a \in Agents, ~QueuedFor(a)
    PROVE  /\ {<<"task", a, 0>>} \in Jobs!Servable(a)
           /\ \A S : S # {} /\ S \subseteq Jobs!MailJobsOf(a) => S \in Jobs!Servable(a)
<1>1. Jobs!OwnerJobsOf(a) = {}
  BY WaitingByKind DEF QueuedFor
<1> QED
  BY <1>1 DEF Jobs!Servable

(* start_session is an abstract Serve when it succeeds, a Drop when not.    *)
LEMMA StartRefines ==
    ASSUME TypeOK, DispatchInv, NEW a \in Agents, ~busy[a],
           NEW kind, NEW jobs, NEW names, StartSession(a, kind, jobs, names),
           NEW S \in Jobs!Servable(a),
           S = IF kind = "task" THEN {<<"task", a, 0>>} ELSE {<<kind, a, k>> : k \in jobs},
           names = {j \in S : j[1] # "task"}, Waiting' = Waiting \ S
    PROVE  Jobs!Serve(a) \/ Jobs!Drop(a)
<1>1. InService(a) = {}
  BY IdleIsFree
<1>2. CASE lost' = lost /\ \E w \in Threads, stored \in BOOLEAN :
             /\ ~Live(w)
             /\ thread' = [thread EXCEPT ![w] =
                  [agent |-> a, pc |-> "run", kind |-> kind, jobs |-> jobs,
                   recorded |-> stored]]
  <2>1. PICK w \in Threads, stored \in BOOLEAN :
             /\ ~Live(w)
             /\ thread' = [thread EXCEPT ![w] =
                  [agent |-> a, pc |-> "run", kind |-> kind, jobs |-> jobs,
                   recorded |-> stored]]
    BY <1>2
  <2> DEFINE s == [agent |-> a, pc |-> "run", kind |-> kind, jobs |-> jobs,
                   recorded |-> stored]
  <2>2. s.pc # "none" /\ s.agent = a /\ Load(s, a) = S
    BY DEF Load
  <2> HIDE DEF s
  <2>3. \A b \in Agents : InService(b)' = IF b = a THEN S ELSE InService(b)
    BY <2>1, <2>2, StartServes DEF s
  <2>4. [b \in Agents |-> InService(b)]' = [[b \in Agents |-> InService(b)] EXCEPT ![a] = S]
    BY <2>3
  <2> QED
    BY <1>1, <1>2, <2>4 DEF Jobs!Serve
<1>3. CASE thread' = thread /\ lost' = lost \cup names
  <2>1. [b \in Agents |-> InService(b)]' = [b \in Agents |-> InService(b)]
    BY <1>3 DEF InService, Live
  <2> QED
    BY <1>1, <1>3, <2>1 DEF Jobs!Drop
<1> QED
  BY <1>2, <1>3, StartEffect

(* The three starts of dispatch. *)
LEMMA StartsRefine ==
    ASSUME TypeOK, DispatchInv, JobInv, "stall" \notin Faults,
           QueueStart \/ MailStart \/ DueStart
    PROVE  \E a \in Agents : Jobs!Serve(a) \/ Jobs!Drop(a)
<1>k. /\ \A a, k : OwnerJob(a, k) = <<"owner", a, k>> /\ <<"owner", a, k>>[1] # "task"
      /\ \A a, k : <<"mail", a, k>>[1] # "task"
      /\ \A a : <<"task", a, 0>>[1] = "task"
  BY DEF OwnerJob
<1>1. CASE QueueStart
  <2> DEFINE e == triggerQueue[qi]
             S == {OwnerJob(e.agent, e.id)}
  <2>1. e.agent \in Agents /\ ~busy[e.agent]
    BY <1>1, QueueAgent DEF QueueStart, DispatchInv, MainIsRight
  <2>2. StartSession(e.agent, "owner", {e.id}, S)
    BY <1>1 DEF QueueStart
  <2>3. S \in Jobs!Servable(e.agent)
    BY <1>1, TakesOldest
  <2>4. S = {<<"owner", e.agent, k>> : k \in {e.id}} /\ S = {j \in S : j[1] # "task"}
    BY <1>k
  <2>5. Waiting' = Waiting \ S
    BY <1>1, QueueStartJobs
  <2> HIDE DEF S, e
  <2>6. Jobs!Serve(e.agent) \/ Jobs!Drop(e.agent)
    BY <2>1, <2>2, <2>3, <2>4, <2>5, StartRefines
  <2> QED
    BY <2>1, <2>6
<1>2. CASE MailStart
  <2> DEFINE S == MailJobs(ai, batch)
  <2>1. ai \in Agents /\ ~busy[ai] /\ ~QueuedFor(ai) /\ batch # {}
    BY <1>2 DEF MailStart, DispatchInv, MainIsRight
  <2>2. StartSession(ai, "mail", batch, S)
    BY <1>2 DEF MailStart
  <2>3. S = {<<"mail", ai, k>> : k \in batch} /\ S # {}
    BY <2>1 DEF MailJobs
  <2>4. S \subseteq Jobs!MailJobsOf(ai)
    BY <2>1, <2>3, WaitingByKind
  <2>5. S \in Jobs!Servable(ai)
    BY <2>1, <2>3, <2>4, MailServable
  <2>6. S = {j \in S : j[1] # "task"}
    BY <1>k, <2>3
  <2>7. Waiting' = Waiting \ S
    BY <1>2, MailStartJobs
  <2> HIDE DEF S
  <2>8. Jobs!Serve(ai) \/ Jobs!Drop(ai)
    BY <2>1, <2>2, <2>3, <2>5, <2>6, <2>7, StartRefines
  <2> QED
    BY <2>1, <2>8
<1>3. CASE DueStart
  <2> DEFINE S == {<<"task", ai, 0>>}
  <2>1. ai \in Agents /\ ~busy[ai] /\ ~QueuedFor(ai)
    BY <1>3 DEF DueStart, DispatchInv, MainIsRight
  <2>2. StartSession(ai, "task", DueTasks(ai), {})
    BY <1>3 DEF DueStart
  <2>3. S \in Jobs!Servable(ai)
    BY <2>1, MailServable
  <2>4. {} = {j \in S : j[1] # "task"}
    BY <1>k
  <2>5. Waiting' = Waiting
    BY <1>3, OtherJobs DEF DueStart, disk
  <2>6. Waiting \ S = Waiting
    BY WaitingMember DEF OwnerJob
  <2>7. S = IF "task" = "task" THEN {<<"task", ai, 0>>}
            ELSE {<<"task", ai, k>> : k \in DueTasks(ai)}
    OBVIOUS
  <2> HIDE DEF S
  <2>8. Jobs!Serve(ai) \/ Jobs!Drop(ai)
    BY <2>1, <2>2, <2>3, <2>4, <2>5, <2>6, <2>7, StartRefines
  <2> QED
    BY <2>1, <2>8
<1> QED
  BY <1>1, <1>2, <1>3

(* Every step of the dispatcher is a step of the job server, or changes     *)
(* nothing that it sees.                                                    *)
LEMMA StepRefines ==
    ASSUME TypeOK, DispatchInv, JobInv, [Next]_vars, "stall" \notin Faults
    PROVE  [Jobs!JobsNext]_(Jobs!jobVars)
<1> DEFINE serving == [a \in Agents |-> InService(a)]
<1>a. ASSUME thread' = thread PROVE serving' = serving
  BY <1>a DEF InService, Live
<1>b. lost \subseteq sent
  BY DEF JobInv, Conserved
<1>1. ASSUME NEW to \in Agents \cup {Everyone}, OwnerMessage(to) PROVE Jobs!Arrive
  <2>1. PICK K, R : /\ Waiting' = Waiting \cup K /\ lost' = lost \cup R
                    /\ K \cap R = {} /\ (K \cup R) \cap sent = {}
    BY <1>1, OwnerMessageJobs
  <2>2. serving' = serving
    BY <1>1, <1>a DEF OwnerMessage, workers
  <2>3. (Waiting' \ Waiting) \cap lost' = {}
    BY <1>b, <2>1
  <2> QED
    BY <2>1, <2>2, <2>3 DEF Jobs!Arrive
<1>2. CASE QueueStart \/ MailStart \/ DueStart
  BY <1>2, StartsRefine DEF Jobs!JobsNext
<1>3. CASE ReceiveOne
  <2>1. ai \in Agents /\ ~busy[ai] /\ ~QueuedFor(ai)
    BY <1>3 DEF ReceiveOne, DispatchInv, MainIsRight
  <2>2. serving' = serving
    BY <1>3, <1>a DEF ReceiveOne, workers
  <2>3. CASE Waiting' = Waiting /\ lost' = lost
    BY <2>2, <2>3 DEF Jobs!jobVars
  <2>4. ASSUME NEW m \in inbox[ai], Waiting' = Waiting \ {<<"mail", ai, m>>},
               lost' = lost \cup {<<"mail", ai, m>>}
        PROVE  Jobs!Drop(ai)
    <3> DEFINE S == {<<"mail", ai, m>>}
    <3>1. S \subseteq Jobs!MailJobsOf(ai)
      BY <2>1, WaitingByKind
    <3>2. S \in Jobs!Servable(ai)
      BY <2>1, <3>1, MailServable
    <3>3. S = {j \in S : j[1] # "task"}
      OBVIOUS
    <3>4. serving[ai] = {}
      BY <2>1, IdleIsFree
    <3> QED
      BY <2>2, <2>4, <3>2, <3>3, <3>4 DEF Jobs!Drop
  <2> QED
    BY <1>3, <2>1, <2>3, <2>4, ReceiveJobs DEF Jobs!JobsNext
<1>4. ASSUME NEW w \in Threads, NEW to \in Agents, SendMail(w, to) PROVE Jobs!Arrive
  <2>1. /\ Waiting' = Waiting \cup {<<"mail", to, nMail + 1>>}
        /\ <<"mail", to, nMail + 1>> \notin sent
    BY <1>4, SendMailJobs
  <2>2. lost' = lost /\ serving' = serving
    BY <1>4, <1>a DEF SendMail, workers
  <2> QED
    BY <1>b, <2>1, <2>2 DEF Jobs!Arrive
<1>5. ASSUME NEW w \in Threads, SessionReturns(w) \/ StoreTime(w)
      PROVE  UNCHANGED Jobs!jobVars
  <2>1. /\ thread[w].pc # "none" /\ thread'[w].pc # "none"
        /\ thread'[w].agent = thread[w].agent /\ thread'[w].kind = thread[w].kind
        /\ thread'[w].jobs = thread[w].jobs
        /\ \A v \in Threads : v # w => thread'[v] = thread[v]
    BY <1>5 DEF SessionReturns, StoreTime, Running, TypeOK, WorkerType, ThreadState
  <2>2. \A a : Load(thread'[w], a) = Load(thread[w], a)
    BY <2>1 DEF Load
  <2>3. ASSUME NEW a \in Agents PROVE InService(a)' = InService(a)
    <3>1. \A j : j \in InService(a)' <=> j \in InService(a)
      BY <2>1, <2>2, ServiceMember
    <3> QED
      BY <3>1
  <2>4. serving' = serving
    BY <2>3
  <2>5. lost' = lost /\ Waiting' = Waiting
    BY <1>5, OtherJobs DEF SessionReturns, StoreTime, main, disk, history
  <2> QED
    BY <2>4, <2>5 DEF Jobs!jobVars
<1>6. ASSUME NEW w \in Threads, StoreIdle(w) PROVE Jobs!JobsNext
  <2> DEFINE a == thread[w].agent
  <2>1. /\ Live(w) /\ a \in Agents /\ thread'[w].pc = "none"
        /\ \A v \in Threads : v # w => thread'[v] = thread[v]
    BY <1>6 DEF StoreIdle, Live, DispatchInv, FlagCoversThread, NoThread, TypeOK,
                WorkerType
  <2>2. \A v \in Threads : v # w /\ thread[v].pc # "none" => thread[v].agent # a
    BY <2>1 DEF DispatchInv, OneSessionPerAgent, Live
  <2>3. InService(a) # {}
    <3>1. thread[w].jobs # {}
      BY <2>1 DEF JobInv, FlagHasThread
    <3>2. \E j : j \in Load(thread[w], a)
      BY <3>1 DEF Load
    <3> QED
      BY <2>1, <3>2, ServiceMember DEF Live
  <2>4. ASSUME NEW b \in Agents
        PROVE  InService(b)' = IF b = a THEN {} ELSE InService(b)
    <3>1. CASE b = a
      <4>1. \A j : j \notin InService(b)'
        BY <2>1, <2>2, <3>1, ServiceMember
      <4> QED
        BY <3>1, <4>1
    <3>2. CASE b # a
      <4>1. \A j : j \in InService(b)' <=> j \in InService(b)
        BY <2>1, <3>2, ServiceMember
      <4> QED
        BY <3>2, <4>1
    <3> QED
      BY <3>1, <3>2
  <2>5. serving' = [serving EXCEPT ![a] = {}]
    BY <2>4
  <2>6. lost' = lost /\ Waiting' = Waiting
    BY <1>6, OtherJobs DEF StoreIdle, main, disk, history
  <2>7. Jobs!Finish(a)
    BY <2>1, <2>3, <2>5, <2>6 DEF Jobs!Finish
  <2> QED
    BY <2>1, <2>7 DEF Jobs!JobsNext
<1>7. CASE Crash
  <2> DEFINE read == IF ai \in Agents THEN MailJobs(ai, batch) ELSE {}
             dropped == read \cup {j \in Waiting : j[1] = "owner"}
  <2>1. Waiting' = Waiting \ dropped /\ lost' = lost \cup dropped
    BY <1>7, CrashJobs
  <2>2. \A a \in Agents : InService(a)' = {}
    BY <1>7, ServiceMember DEF Crash, NoThread
  <2>3. serving' = [a \in Agents |-> {}]
    BY <2>2
  <2>4. \E a \in Agents : read \in SUBSET Jobs!MailJobsOf(a)
    <3>1. CASE ai \in Agents
      <4>1. read = {<<"mail", ai, k>> : k \in batch}
        BY <3>1 DEF MailJobs
      <4>2. read \subseteq Jobs!MailJobsOf(ai)
        BY <3>1, <4>1, WaitingByKind
      <4> QED
        BY <3>1, <4>2
    <3>2. CASE ai \notin Agents
      <4>1. 1 \in Agents
        BY DispatchAssumption DEF Agents, DispatchAssumption
      <4> QED
        BY <3>2, <4>1
    <3> QED
      BY <3>1, <3>2
  <2> HIDE DEF read
  <2>5. Jobs!Restart
    BY <2>1, <2>3, <2>4 DEF Jobs!Restart
  <2> QED
    BY <2>5 DEF Jobs!JobsNext
<1>8. ASSUME UNCHANGED <<triggerQueue, inbox, batch, lost, thread>>, ai' = ai \/ batch = {}
      PROVE  UNCHANGED Jobs!jobVars
  BY <1>8, <1>a, OtherJobs DEF Jobs!jobVars
<1>9. at \in {"poll", "queue", "agents", "agentGap", "due", "mark"} => batch = {}
  BY DEF JobInv, ReadOnce
<1>10. CASE \/ DispatchBegin \/ QueueBusy \/ QueueSkip \/ QueueEnd \/ AgentBusy \/ AgentGap
            \/ NoMail \/ DueNone \/ MarkDone \/ AgentsEnd \/ Tick \/ UNCHANGED vars
            \/ \E w \in Threads, t \in TaskIds : CancelTask(w, t)
            \/ \E w \in Threads, t \in TaskIds, l \in 0..MaxDelay, e \in {0, MaxDelay} :
                 SetTask(w, t, l, e)
  <2>1. UNCHANGED <<triggerQueue, inbox, batch, lost, thread>> /\ (ai' = ai \/ batch = {})
    BY <1>9, <1>10
       DEF DispatchBegin, QueueBusy, QueueSkip, QueueEnd, AgentBusy, AgentGap, NoMail,
           DueNone, MarkDone, AgentsEnd, Tick, CancelTask, SetTask, vars, main, workers,
           disk, history
  <2> QED
    BY <1>8, <2>1, SMTT(60)
<1> QED
  BY <1>1, <1>2, <1>3, <1>4, <1>5, <1>6, <1>7, <1>10 DEF Next, MainStep, ThreadStep, Jobs!JobsNext

(* Without a stall the dispatcher, with its threads, flags, files and       *)
(* clock, implements the abstract job server.                               *)
THEOREM Refinement ==
    ASSUME "stall" \notin Faults
    PROVE  Spec => ImplementsAgentJobs
<1>1. Init => Jobs!JobsInit
  <2> SUFFICES ASSUME Init PROVE Jobs!JobsInit
    OBVIOUS
  <2>1. /\ Len(triggerQueue) = 0 /\ batch = {} /\ lost = {}
        /\ \A w \in Threads : thread[w].pc = "none"
        /\ \A a \in Agents : inbox[a] = {}
    BY DEF Init, NoThread
  <2>2. Waiting = {}
    BY <2>1, WaitingMember
  <2>3. \A a \in Agents : InService(a) = {}
    BY <2>1, ServiceMember
  <2> QED
    BY <2>1, <2>2, <2>3 DEF Jobs!JobsInit
<1>2. TypeOK /\ DispatchInv /\ JobInv /\ [Next]_vars => [Jobs!JobsNext]_(Jobs!jobVars)
  BY StepRefines
<1> QED
  BY <1>1, <1>2, JobInvariant, PTL DEF Spec, ImplementsAgentJobs, Jobs!JobsSpec
=============================================================================
