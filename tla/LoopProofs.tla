----------------------------- MODULE LoopProofs -----------------------------
(***************************************************************************)
(* Proofs about the main loop and its link, for any number of clients,      *)
(* descriptors, speakers and any delays: descriptors are accounted for and  *)
(* served as polled, frames stay whole, no decrypted line is left behind,   *)
(* reconnections slow down, and a silent server is asked before it is left. *)
(***************************************************************************)
EXTENDS MainLoop, FiniteSetTheorems, SequenceTheorems, TLAPS

(* The records on the wire carry at least a line each.                      *)
RecordsFull == \A i \in DOMAIN server.wire : server.wire[i] # <<>>

(* Decrypted lines are there only while irc_poll is at work.                *)
LinesInHand == unread # <<>> => todo # <<>> /\ Head(todo).kind = "irc"

(* Every pass ends with irc_maintain.                                       *)
PassEnds == todo # <<>> => todo[Len(todo)].kind = "maintain"

(* An unanswered PING is remembered; irc_maintain, which comes in each      *)
(* pass, sends one as soon as the server has been silent for PingAfter, and *)
(* is late by a pass at most.                                               *)
PingInTime ==
    /\ irc.pinged = asked
    /\ ~asked => waited = 0
    /\ LinkUp /\ ~irc.pinged /\ todo = <<>> => irc.idle <= PingAfter
    /\ LinkUp => irc.idle <= PingAfter + longest + waited

(* The back-off grows with the attempts and is waited for.                  *)
BackoffGrows ==
    /\ irc.backoff = 0 \/ irc.backoff >= LostDelay
    /\ irc.backoff >= MaxDelay \/ irc.backoff >= floor
    /\ LinkUp /\ irc.registered => floor = 0
    /\ running /\ ~LinkUp => quiet + irc.wait >= irc.backoff \/ quiet >= MaxDelay

(* The descriptor table: clients under the numbers of the table, each under *)
(* one, the link under its own.                                             *)
TableFits ==
    /\ \A f \in Fds : desc[f] \in Clients <=> f \in Range(table)
    /\ \A f \in Fds : desc[f] = IrcPeer <=> f = irc.fd
    /\ irc.fd \in Fds \cup {NoFd}
    /\ IsInjective(table) /\ Len(table) <= MaxClients
    /\ \A f, g \in Fds : desc[f] = desc[g] /\ desc[f] \in Clients => f = g

(* Each client is waiting to be accepted, attached, or neither.             *)
EndsMatch ==
    /\ \A c \in Clients : peer[c].end \in {"open", "shut"} <=> \E f \in Fds : desc[f] = c
    /\ \A i \in DOMAIN backlog : peer[backlog[i]].end = "queued"
    /\ IsInjective(backlog)

(* A frame cut short is the last one, and the daemon has shut the           *)
(* connection; a program that was not started has none.                     *)
Peers == [prog : {"none", "tui", "cli"}, open : BOOLEAN,
          end : {"none", "queued", "open", "shut", "closed"},
          tx : Seq(Commands), rx : Seq(Frames)]

HalfIsLast(p) ==
    \A i \in 1..Len(p.rx) :
      /\ p.rx[i] # "foreign"
      /\ p.rx[i] = "half" => i = Len(p.rx) /\ p.end \in {"shut", "closed"}

FinePeer(p) == p \in Peers /\ HalfIsLast(p) /\ (p.prog = "none" => p.end = "none")
PeersFine == \A c \in Clients : FinePeer(peer[c])

(* The clients still to be served in a pass are open under the numbers      *)
(* poll() reported, each listed once.                                       *)
SnapshotHolds ==
    /\ \A i \in DOMAIN todo : todo[i].kind = "client" =>
         todo[i].fd \in Fds /\ todo[i].conn \in Clients /\ desc[todo[i].fd] = todo[i].conn
    /\ \A i, j \in DOMAIN todo :
         todo[i].kind = "client" /\ todo[j].kind = "client" /\ todo[i].fd = todo[j].fd => i = j

LoopInv ==
    /\ TypeOK
    /\ RecordsFull /\ LinesInHand /\ PassEnds /\ PingInTime /\ BackoffGrows
    /\ TableFits /\ EndsMatch /\ PeersFine /\ SnapshotHolds

-----------------------------------------------------------------------------
(* A nonempty set of numbers has a least one, as the kernel assumes when it *)
(* gives out the lowest.                                                    *)
LEMMA LeastNumber ==
    ASSUME NEW T, T \subseteq Nat, T # {}
    PROVE  \E f \in T : \A g \in T : f <= g
<1>1. PICK f \in T : \A g \in T : <<g, f>> \notin OpToRel(<, Nat)
  BY NatLessThanWellFounded, WFMin
<1>2. ASSUME NEW g \in T PROVE f <= g
  <2>1. f \in Nat /\ g \in Nat
    OBVIOUS
  <2>2. ~(g < f)
    <3>1. ASSUME g < f PROVE FALSE
      <4>1. <<g, f>> \in Nat \X Nat
        BY <2>1
      <4>2. <<g, f>>[1] = g /\ <<g, f>>[2] = f
        OBVIOUS
      <4>3. <<g, f>> \in OpToRel(<, Nat)
        BY <3>1, <4>1, <4>2 DEF OpToRel
      <4> QED BY <4>3, <1>1
    <3> QED BY <3>1
  <2> QED BY <2>1, <2>2
<1> QED BY <1>2

(* A list holds no more than its length.                                    *)
LEMMA RangeFits ==
    ASSUME NEW S, NEW q \in Seq(S), NEW x
    PROVE  /\ IsFiniteSet(Range(q) \cup {x})
           /\ Cardinality(Range(q) \cup {x}) \in Nat
           /\ Cardinality(Range(q) \cup {x}) <= Len(q) + 1
<1> DEFINE n == Len(q)
           R == Range(q)
<1>1. n \in Nat
  OBVIOUS
<1>2. q \in Surjection(1..n, R)
  BY DEF Range, Surjection
<1> HIDE DEF n, R
<1>3. IsFiniteSet(1..n) /\ Cardinality(1..n) = n
  <2>1. 1 \in Int /\ n \in Int
    BY <1>1
  <2>2. IsFiniteSet(1..n) /\ Cardinality(1..n) = IF 1 > n THEN 0 ELSE n - 1 + 1
    BY ONLY <2>1, FS_Interval
  <2> QED BY <1>1, <2>2
<1>4. IsFiniteSet(R) /\ Cardinality(R) <= n
  BY <1>2, <1>3, FS_Surjection
<1>5. Cardinality(R) \in Nat
  BY <1>4, FS_CardinalityType
<1>6. IsFiniteSet(R \cup {x})
      /\ (Cardinality(R \cup {x}) = Cardinality(R) \/ Cardinality(R \cup {x}) = Cardinality(R) + 1)
  BY <1>4, FS_AddElement
<1> QED BY <1>1, <1>4, <1>5, <1>6 DEF n, R

(* There is a number left: the table and the link leave one of the          *)
(* MaxClients + 2 free, and accept and socket take such a one.              *)
LEMMA NewFdIsFree ==
    ASSUME TypeOK, TableFits
    PROVE  NewFd \in Fds /\ desc[NewFd] = Nobody
<1> DEFINE Free == {f \in Fds : desc[f] = Nobody}
           n == Len(table)
<1>1. table \in Seq(Fds) /\ n \in Nat /\ n <= MaxClients
  BY DEF TypeOK, ClientTypeOK, TableFits
<1>2. /\ IsFiniteSet(Range(table) \cup {irc.fd})
      /\ Cardinality(Range(table) \cup {irc.fd}) \in Nat
      /\ Cardinality(Range(table) \cup {irc.fd}) <= n + 1
  BY <1>1, RangeFits
<1>3. Free # {}
  <2>1. SUFFICES ASSUME Free = {} PROVE FALSE
    OBVIOUS
  <2>2. Fds \subseteq Range(table) \cup {irc.fd}
    BY <2>1 DEF TypeOK, ClientTypeOK, TableFits
  <2> DEFINE R == Range(table) \cup {irc.fd}
  <2> HIDE DEF R, n
  <2>3. Cardinality(Fds) <= Cardinality(R)
    <3>1. IsFiniteSet(R) /\ Fds \in SUBSET R
      BY <1>2, <2>2 DEF R
    <3> QED BY <3>1, FS_Subset
  <2>4. Cardinality(Fds) \in Nat
    BY ClientAssumption, FS_CardinalityType
  <2> QED BY <1>1, <1>2, <2>3, <2>4, ClientAssumption DEF R
<1>4. PICK f \in Free : \A g \in Free : f <= g
  <2>1. Free \subseteq Nat
    BY ClientAssumption, ZenonT(60)
  <2> HIDE DEF Free
  <2> QED BY <1>3, <2>1, LeastNumber
<1> QED BY <1>4 DEF NewFd

-----------------------------------------------------------------------------
(* What the operations on one connection do to it.                          *)

(* The daemon's end changes.                                                *)
LEMMA EndUpdate ==
    ASSUME NEW p \in Peers, NEW e \in {"none", "queued", "open", "shut", "closed"}
    PROVE  LET q == [p EXCEPT !.end = e] IN
           q \in Peers /\ q.end = e /\ q.rx = p.rx /\ q.prog = p.prog
<1>1. [p EXCEPT !.end = e] \in Peers
  BY Zenon DEF Peers
<1> QED BY <1>1 DEF Peers

(* What is on its way to the client changes.                                *)
LEMMA RxUpdate ==
    ASSUME NEW p \in Peers, NEW r \in Seq(Frames)
    PROVE  LET q == [p EXCEPT !.rx = r] IN
           q \in Peers /\ q.rx = r /\ q.end = p.end /\ q.prog = p.prog
<1>1. [p EXCEPT !.rx = r] \in Peers
  BY Zenon DEF Peers
<1> QED BY <1>1 DEF Peers

(* What is on its way to the daemon changes.                                *)
LEMMA TxUpdate ==
    ASSUME NEW p \in Peers, NEW t \in Seq(Commands)
    PROVE  LET q == [p EXCEPT !.tx = t] IN
           q \in Peers /\ q.rx = p.rx /\ q.end = p.end /\ q.prog = p.prog
<1>1. [p EXCEPT !.tx = t] \in Peers
  BY Zenon DEF Peers
<1> QED BY <1>1 DEF Peers

(* Both directions change.                                                  *)
LEMMA BothUpdate ==
    ASSUME NEW p \in Peers, NEW t \in Seq(Commands), NEW r \in Seq(Frames)
    PROVE  LET q == [p EXCEPT !.tx = t, !.rx = r] IN
           q \in Peers /\ q.rx = r /\ q.end = p.end /\ q.prog = p.prog
<1>1. [p EXCEPT !.tx = t, !.rx = r] \in Peers
  BY Zenon DEF Peers
<1> QED BY <1>1 DEF Peers

(* The client closes its end.                                               *)
LEMMA LeaveUpdate ==
    ASSUME NEW p \in Peers, NEW t \in Seq(Commands)
    PROVE  LET q == [p EXCEPT !.open = FALSE, !.tx = t] IN
           q \in Peers /\ q.rx = p.rx /\ q.end = p.end /\ q.prog = p.prog
<1>1. [p EXCEPT !.open = FALSE, !.tx = t] \in Peers
  BY Zenon DEF Peers
<1> QED BY <1>1 DEF Peers

(* Settled forgets bytes and nothing else.                                  *)
LEMMA SettledIsFine ==
    ASSUME NEW p, FinePeer(p)
    PROVE  FinePeer(Settled(p)) /\ Settled(p).end = p.end /\ Settled(p).prog = p.prog
<1>1. p \in Peers
  BY DEF FinePeer
<1> DEFINE t == IF p.end = "closed" THEN <<>> ELSE p.tx
           r == IF p.open THEN p.rx ELSE <<>>
<1>a. t \in Seq(Commands) /\ r \in Seq(Frames)
  BY <1>1 DEF Peers
<1>b. Settled(p) = [p EXCEPT !.tx = t, !.rx = r]
  BY DEF Settled
<1>c. r = p.rx \/ r = <<>>
  OBVIOUS
<1> HIDE DEF t, r
<1>2. [p EXCEPT !.tx = t, !.rx = r] \in Peers
      /\ [p EXCEPT !.tx = t, !.rx = r].rx = r
      /\ [p EXCEPT !.tx = t, !.rx = r].end = p.end
      /\ [p EXCEPT !.tx = t, !.rx = r].prog = p.prog
  BY <1>1, <1>a, BothUpdate, ZenonT(60)
<1>3. /\ Settled(p) \in Peers
      /\ Settled(p).end = p.end /\ Settled(p).prog = p.prog
      /\ Settled(p).rx = p.rx \/ Settled(p).rx = <<>>
  BY <1>2, <1>b, <1>c
<1>4. HalfIsLast(Settled(p))
  <2>1. CASE Settled(p).rx = p.rx
    BY <1>3, <2>1 DEF FinePeer, HalfIsLast
  <2>2. CASE Settled(p).rx = <<>>
    <3>1. 1..Len(Settled(p).rx) = {}
      BY <2>2
    <3> QED BY <3>1 DEF HalfIsLast
  <2> QED BY <1>3, <2>1, <2>2
<1> QED BY <1>3, <1>4 DEF FinePeer

(* The daemon's end of a started program's connection may be closed.        *)
LEMMA ClosedIsFine ==
    ASSUME NEW p, FinePeer(p), p.prog # "none"
    PROVE  LET q == [p EXCEPT !.end = "closed"] IN FinePeer(q) /\ q.end = "closed" /\ q.prog = p.prog
<1> DEFINE q == [p EXCEPT !.end = "closed"]
<1>1. p \in Peers
  BY DEF FinePeer
<1>2. q \in Peers /\ q.end = "closed" /\ q.prog = p.prog /\ q.rx = p.rx
  BY <1>1, EndUpdate
<1>3. HalfIsLast(q)
  BY <1>2 DEF FinePeer, HalfIsLast
<1> QED BY <1>2, <1>3 DEF FinePeer

(* A frame is sent whole while the buffer has room.                         *)
LEMMA SentWhole ==
    ASSUME NEW p, FinePeer(p), Sends(p), NEW frame \in {"LINE", "REPLY", "GOODBYE"},
           p.end \notin {"shut", "closed"}
    PROVE  FinePeer(Sent(p, frame)) /\ Sent(p, frame).end = p.end /\ Sent(p, frame).prog = p.prog
<1> DEFINE q == Sent(p, frame)
<1>1. p \in Peers
  BY DEF FinePeer
<1>2. q = [p EXCEPT !.rx = Append(@, frame)]
  BY DEF Sends, Sent
<1>3. q \in Peers /\ q.end = p.end /\ q.prog = p.prog /\ q.rx = Append(p.rx, frame)
  <2> DEFINE r == Append(p.rx, frame)
  <2>1. r \in Seq(Frames)
    BY <1>1 DEF Peers, Frames
  <2> HIDE DEF r
  <2>2. q = [p EXCEPT !.rx = r]
    BY <1>2 DEF r
  <2> HIDE DEF q
  <2>3. q \in Peers /\ q.end = p.end /\ q.prog = p.prog /\ q.rx = r
    BY <1>1, <2>1, <2>2, RxUpdate
  <2> QED BY <2>3 DEF r
<1> HIDE DEF q
<1>4. HalfIsLast(q)
  <2> DEFINE n == Len(p.rx)
  <2>1. p.rx \in Seq(Frames)
    BY <1>1 DEF Peers
  <2>2. n \in Nat /\ Len(q.rx) = n + 1
        /\ (\A i \in 1..n : q.rx[i] = p.rx[i]) /\ q.rx[n + 1] = frame
    BY <1>3, <2>1
  <2>3. \A i \in 1..n : p.rx[i] # "foreign" /\ p.rx[i] # "half"
    BY DEF FinePeer, HalfIsLast
  <2> HIDE DEF n
  <2>4. \A i \in 1..Len(q.rx) : q.rx[i] # "foreign" /\ q.rx[i] # "half"
    BY <2>2, <2>3
  <2> QED BY <2>4 DEF HalfIsLast
<1> QED BY <1>3, <1>4 DEF FinePeer, q

(* A frame that may have been cut short is sent to a connection the daemon  *)
(* then shuts or closes.                                                    *)
LEMMA SentLast ==
    ASSUME NEW p, FinePeer(p), p.prog # "none",
           NEW frame \in {"LINE", "REPLY", "GOODBYE"}, NEW end \in {"shut", "closed"},
           p.end \in {"queued", "open"} \/ Broken(p)
    PROVE  LET q == [Sent(p, frame) EXCEPT !.end = end] IN
             FinePeer(q) /\ q.end = end /\ q.prog = p.prog
<1> DEFINE q == [Sent(p, frame) EXCEPT !.end = end]
           fr == IF Full(p) THEN "half" ELSE frame
<1>1. p \in Peers
  BY DEF FinePeer
<1>e. end \in {"none", "queued", "open", "shut", "closed"}
  OBVIOUS
<1>2. CASE Broken(p)
  <2>1. q = [p EXCEPT !.end = end]
    BY <1>2 DEF Sent
  <2> HIDE DEF q
  <2>2. q \in Peers /\ q.end = end /\ q.prog = p.prog /\ q.rx = p.rx
    BY <1>1, <1>e, <2>1, EndUpdate, Zenon
  <2>3. HalfIsLast(q)
    BY <2>2 DEF FinePeer, HalfIsLast
  <2> QED BY <2>2, <2>3 DEF FinePeer, q
<1>3. CASE ~Broken(p)
  <2>0. fr \in Frames /\ fr # "foreign"
    BY DEF Frames
  <2>1. q = [[p EXCEPT !.rx = Append(@, fr)] EXCEPT !.end = end]
    BY <1>3 DEF Sent
  <2> HIDE DEF fr
  <2> DEFINE s == [p EXCEPT !.rx = Append(p.rx, fr)]
  <2>a. Append(p.rx, fr) \in Seq(Frames)
    BY <1>1, <2>0 DEF Peers
  <2>b. s \in Peers /\ s.prog = p.prog /\ s.rx = Append(p.rx, fr)
    BY <1>1, <2>a, RxUpdate
  <2>c. q = [s EXCEPT !.end = end]
    BY <2>1
  <2> HIDE DEF s, q
  <2>2. q \in Peers /\ q.end = end /\ q.prog = p.prog /\ q.rx = Append(p.rx, fr)
    BY <1>e, <2>b, <2>c, EndUpdate, Zenon
  <2>3. p.end \notin {"shut", "closed"}
    BY <1>3 DEF Broken
  <2> HIDE DEF q
  <2>4. HalfIsLast(q)
    <3> DEFINE n == Len(p.rx)
    <3>1. p.rx \in Seq(Frames)
      BY <1>1 DEF Peers
    <3>2. n \in Nat /\ Len(q.rx) = n + 1
          /\ (\A i \in 1..n : q.rx[i] = p.rx[i]) /\ q.rx[n + 1] = fr
      BY <2>0, <2>2, <3>1
    <3>3. \A i \in 1..n : p.rx[i] # "foreign" /\ p.rx[i] # "half"
      BY <2>3 DEF FinePeer, HalfIsLast
    <3> HIDE DEF n
    <3>4. \A i \in 1..Len(q.rx) :
            q.rx[i] # "foreign" /\ (q.rx[i] = "half" => i = Len(q.rx))
      BY <2>0, <3>2, <3>3
    <3> QED BY <2>2, <3>4 DEF HalfIsLast
  <2> QED BY <2>2, <2>4 DEF FinePeer, q
<1> QED BY <1>2, <1>3

(* daemon_tui_broadcast keeps an attached client open or shuts it.          *)
LEMMA ToldIsFine ==
    ASSUME NEW p, FinePeer(p), p.end \in {"open", "shut"}
    PROVE  FinePeer(Told(p)) /\ Told(p).end \in {"open", "shut"} /\ Told(p).prog = p.prog
<1>1. p.prog # "none"
  BY DEF FinePeer
<1>2. CASE Sends(p)
  <2>1. p.end \notin {"shut", "closed"}
    BY <1>2 DEF Sends, Broken
  <2> QED BY <1>2, <2>1, SentWhole DEF Told
<1>3. CASE ~Sends(p)
  <2>1. p.end \in {"queued", "open"} \/ Broken(p)
    BY DEF Broken
  <2> QED BY <1>1, <1>3, <2>1, SentLast DEF Told
<1> QED BY <1>2, <1>3

(* A client that leaves closes its end, perhaps after a last command.       *)
LEMMA LeftIsFine ==
    ASSUME NEW p, FinePeer(p), NEW last \in Seq(Commands)
    PROVE  FinePeer(Left(p, last)) /\ Left(p, last).end = p.end
<1> DEFINE t == p.tx \o last
           s == [p EXCEPT !.open = FALSE, !.tx = t]
<1>1. p \in Peers
  BY DEF FinePeer
<1>2. t \in Seq(Commands)
  BY <1>1 DEF Peers
<1> HIDE DEF t
<1>3. s \in Peers /\ s.rx = p.rx /\ s.end = p.end /\ s.prog = p.prog
  BY <1>1, <1>2, LeaveUpdate, Zenon
<1> HIDE DEF s
<1>4. FinePeer(s)
  BY <1>3 DEF FinePeer, HalfIsLast
<1>5. FinePeer(Settled(s)) /\ Settled(s).end = s.end /\ Settled(s).prog = s.prog
  BY <1>4, SettledIsFine
<1> QED BY <1>3, <1>5 DEF Left, s, t

(* Commands come and go without effect on the frames.                       *)
LEMMA TxIsFine ==
    ASSUME NEW p, FinePeer(p), NEW t \in Seq(Commands)
    PROVE  LET q == [p EXCEPT !.tx = t] IN FinePeer(q) /\ q.end = p.end /\ q.prog = p.prog
<1> DEFINE q == [p EXCEPT !.tx = t]
<1>1. p \in Peers
  BY DEF FinePeer
<1>2. q \in Peers /\ q.rx = p.rx /\ q.end = p.end /\ q.prog = p.prog
  BY <1>1, TxUpdate, Zenon
<1> HIDE DEF q
<1>3. FinePeer(q)
  BY <1>2 DEF FinePeer, HalfIsLast
<1> QED BY <1>2, <1>3 DEF q

(* A client reads one frame.                                                *)
LEMMA ReadIsFine ==
    ASSUME NEW p, FinePeer(p), p.rx # <<>>
    PROVE  LET q == [p EXCEPT !.rx = Tail(@)] IN FinePeer(q) /\ q.end = p.end /\ q.prog = p.prog
<1> DEFINE r == Tail(p.rx)
           q == [p EXCEPT !.rx = r]
<1>1. p \in Peers
  BY DEF FinePeer
<1>2. p.rx \in Seq(Frames) /\ r \in Seq(Frames)
  BY <1>1 DEF Peers
<1>3. Len(p.rx) \in Nat \ {0} /\ Len(r) = Len(p.rx) - 1 /\ \A i \in 1..Len(r) : r[i] = p.rx[i + 1]
  BY <1>2
<1> HIDE DEF r
<1>4. q \in Peers /\ q.rx = r /\ q.end = p.end /\ q.prog = p.prog
  BY <1>1, <1>2, RxUpdate, Zenon
<1> HIDE DEF q
<1>5. ASSUME NEW i \in 1..Len(q.rx)
      PROVE  /\ q.rx[i] # "foreign"
             /\ q.rx[i] = "half" => i = Len(q.rx) /\ q.end \in {"shut", "closed"}
  <2>1. i + 1 \in 1..Len(p.rx) /\ q.rx[i] = p.rx[i + 1] /\ Len(q.rx) = Len(p.rx) - 1
    BY <1>3, <1>4
  <2>2. /\ p.rx[i + 1] # "foreign"
        /\ p.rx[i + 1] = "half" => i + 1 = Len(p.rx) /\ p.end \in {"shut", "closed"}
    BY <2>1 DEF FinePeer, HalfIsLast
  <2> QED BY <1>3, <1>4, <2>1, <2>2
<1>6. FinePeer(q)
  BY <1>4, <1>5 DEF FinePeer, HalfIsLast
<1> QED BY <1>4, <1>6 DEF q, r

(* handle_new_client leaves a client attached or closed.                    *)
LEMMA AcceptIsFine ==
    ASSUME NEW p, FinePeer(p), p.end = "queued", NEW cmd, NEW attach \in BOOLEAN,
           attach => cmd = "ATTACH"
    PROVE  FinePeer(Greeted(p, cmd, attach))
           /\ Greeted(p, cmd, attach).end = (IF attach THEN "open" ELSE "closed")
<1> DEFINE t == IF p.tx = <<>> THEN p.tx ELSE Tail(p.tx)
           served == [p EXCEPT !.tx = t]
           replied == IF cmd = "STATUS" THEN Sent(served, "REPLY") ELSE served
           closed == [replied EXCEPT !.end = "closed"]
<1>1. FinePeer(p) /\ p \in Peers /\ p.prog # "none"
  BY DEF FinePeer
<1>2. t \in Seq(Commands)
  BY <1>1 DEF Peers
<1> HIDE DEF t
<1>3. FinePeer(served) /\ served.end = "queued" /\ served.prog # "none"
  BY <1>1, <1>2, TxIsFine, Zenon
<1> HIDE DEF served
<1>4. CASE attach
  <2> DEFINE q == [served EXCEPT !.end = "open"]
  <2>1. replied = served
    BY <1>4
  <2>2. served \in Peers
    BY <1>3 DEF FinePeer
  <2>3. q \in Peers /\ q.end = "open" /\ q.rx = served.rx /\ q.prog = served.prog
    BY <2>2, EndUpdate, Zenon
  <2> HIDE DEF q
  <2>4. HalfIsLast(q)
    BY <1>3, <2>3 DEF FinePeer, HalfIsLast
  <2>5. FinePeer(q)
    BY <1>3, <2>3, <2>4 DEF FinePeer
  <2> QED BY <1>4, <2>1, <2>3, <2>5 DEF Greeted, q, served, t
<1>5. CASE ~attach
  <2>1. FinePeer(closed) /\ closed.end = "closed"
    <3>1. CASE cmd = "STATUS"
      <4>1. "REPLY" \in {"LINE", "REPLY", "GOODBYE"} /\ "closed" \in {"shut", "closed"}
            /\ served.end \in {"queued", "open"}
        BY <1>3
      <4> QED BY <1>3, <3>1, <4>1, SentLast
    <3>2. CASE cmd # "STATUS"
      BY <1>3, <3>2, ClosedIsFine
    <3> QED BY <3>1, <3>2
  <2> HIDE DEF closed
  <2>2. FinePeer(Settled(closed)) /\ Settled(closed).end = "closed"
    BY <2>1, SettledIsFine
  <2> QED BY <1>5, <2>2 DEF Greeted, closed, replied, served, t
<1> QED BY <1>4, <1>5

-----------------------------------------------------------------------------
(* What a step can do to descriptors, table, backlog and the clients' ends. *)

SameRole(c) ==
    /\ peer'[c].end \in {"open", "shut"} <=> peer[c].end \in {"open", "shut"}
    /\ peer[c].end = "queued" => peer'[c].end = "queued"

NobodyMoves ==
    UNCHANGED <<desc, table, backlog>> /\ irc'.fd = irc.fd /\ \A c \in Clients : SameRole(c)

LinkCloses ==
    /\ irc'.fd = NoFd /\ desc' = [desc EXCEPT ![irc.fd] = Nobody]
    /\ UNCHANGED <<table, backlog, peer>>

LinkOpens ==
    /\ ~LinkUp /\ irc'.fd = NewFd /\ desc' = [desc EXCEPT ![NewFd] = IrcPeer]
    /\ UNCHANGED <<table, backlog, peer>>

OnlyMoves(c) == \A b \in Clients \ {c} : peer'[b] = peer[b]

Joins(c) ==
    /\ backlog # <<>> /\ c = Head(backlog) /\ backlog' = Tail(backlog)
    /\ HasRoom /\ table' = Append(table, NewFd) /\ desc' = [desc EXCEPT ![NewFd] = c]
    /\ peer'[c].end = "open" /\ OnlyMoves(c) /\ irc'.fd = irc.fd

TurnedAway(c) ==
    /\ backlog # <<>> /\ c = Head(backlog) /\ backlog' = Tail(backlog)
    /\ peer'[c].end = "closed" /\ OnlyMoves(c) /\ irc'.fd = irc.fd
    /\ UNCHANGED <<desc, table>>

Departs(c, f) ==
    /\ f \in Range(table) /\ desc[f] = c
    /\ table' = Removed(f) /\ desc' = [desc EXCEPT ![f] = Nobody]
    /\ peer'[c].end = "closed" /\ OnlyMoves(c) /\ irc'.fd = irc.fd
    /\ UNCHANGED backlog

Queues(c) ==
    /\ backlog' = Append(backlog, c) /\ peer[c].end = "none"
    /\ peer'[c].end = "queued" /\ OnlyMoves(c) /\ irc'.fd = irc.fd
    /\ UNCHANGED <<desc, table>>

AllClosed ==
    /\ todo = <<>> /\ todo' = <<>>
    /\ irc'.fd = NoFd /\ desc' = [f \in Fds |-> Nobody] /\ table' = <<>> /\ backlog' = <<>>
    /\ \A c \in Clients : peer'[c].end \notin {"open", "shut"}

\* A client that departs is the one being served.
Served1(f) == Serving("client") /\ Head(todo).fd = f /\ todo' = Tail(todo)

ClientMoves ==
    \/ NobodyMoves \/ LinkCloses \/ LinkOpens \/ AllClosed
    \/ \E c \in Clients : Joins(c) \/ TurnedAway(c) \/ Queues(c)
    \/ \E c \in Clients, f \in Fds : Departs(c, f) /\ Served1(f)

(* One client's connection changes and keeps its role.                      *)
LEMMA OnePeer ==
    ASSUME PeersFine, ClientTypeOK, NEW c \in Clients, NEW q, peer' = [peer EXCEPT ![c] = q],
           FinePeer(q), q.end = peer[c].end
    PROVE  PeersFine' /\ \A b \in Clients : SameRole(b)
<1>1. peer'[c] = q /\ \A b \in Clients \ {c} : peer'[b] = peer[b]
  BY DEF ClientTypeOK
<1>2. \A b \in Clients : FinePeer(peer'[b])
  BY <1>1 DEF PeersFine
<1>3. \A b \in Clients : SameRole(b)
  BY <1>1 DEF SameRole
<1> QED BY <1>2, <1>3 DEF PeersFine

(* daemon_tui_broadcast.                                                    *)
LEMMA BroadcastMoves ==
    ASSUME LoopInv, Broadcast, irc'.fd = irc.fd
    PROVE  PeersFine' /\ NobodyMoves
<1>1. ASSUME NEW c \in Clients PROVE FinePeer(peer'[c]) /\ SameRole(c)
  <2>1. CASE c \in Attached
    <3>1. peer[c].end \in {"open", "shut"}
      BY <2>1 DEF Attached, LoopInv, EndsMatch, TableFits, TypeOK, ClientTypeOK, Range
    <3>2. FinePeer(peer[c])
      BY DEF LoopInv, PeersFine
    <3>3. peer'[c] = Told(peer[c])
      BY <2>1 DEF Broadcast
    <3>4. FinePeer(Told(peer[c])) /\ Told(peer[c]).end \in {"open", "shut"}
      BY <3>1, <3>2, ToldIsFine
    <3> QED BY <3>1, <3>3, <3>4 DEF SameRole
  <2>2. CASE c \notin Attached
    <3>1. peer'[c] = peer[c]
      BY <2>2 DEF Broadcast
    <3> QED BY <3>1 DEF SameRole, LoopInv, PeersFine
  <2> QED BY <2>1, <2>2
<1> QED BY <1>1 DEF Broadcast, NobodyMoves, PeersFine

(* handle_new_client.                                                       *)
LEMMA AcceptMoves ==
    ASSUME LoopInv, Accept, irc'.fd = irc.fd
    PROVE  PeersFine' /\ \E c \in Clients : Joins(c) \/ TurnedAway(c)
<1> DEFINE c == Head(backlog)
           attach == Attaches(c, Command(c))
           q == Greeted(peer[c], Command(c), attach)
<1>1. backlog # <<>> /\ backlog' = Tail(backlog)
  BY DEF Accept
<1>2. c \in Clients /\ peer[c].end = "queued"
  <2>1. backlog \in Seq(Clients)
    BY DEF LoopInv, TypeOK, ClientTypeOK
  <2>2. 1 \in DOMAIN backlog /\ backlog[1] = c /\ c \in Clients
    BY <1>1, <2>1
  <2> QED BY <2>2 DEF LoopInv, EndsMatch
<1>3. attach \in BOOLEAN /\ (attach => Command(c) = "ATTACH" /\ HasRoom)
  BY DEF Attaches
<1>4. peer' = [peer EXCEPT ![c] = q]
  BY DEF Accept
<1>5. /\ desc' = IF attach THEN [desc EXCEPT ![NewFd] = c] ELSE desc
      /\ table' = IF attach THEN Append(table, NewFd) ELSE table
  BY <1>3 DEF Accept
<1> HIDE DEF attach
<1>6. FinePeer(q) /\ q.end = (IF attach THEN "open" ELSE "closed")
  <2>1. FinePeer(peer[c])
    BY <1>2 DEF LoopInv, PeersFine
  <2> QED BY <1>2, <1>3, <2>1, AcceptIsFine
<1> HIDE DEF q, c
<1>7. peer'[c] = q /\ OnlyMoves(c)
  BY <1>2, <1>4 DEF LoopInv, TypeOK, ClientTypeOK, OnlyMoves
<1>8. PeersFine'
  <2>1. ASSUME NEW b \in Clients PROVE FinePeer(peer'[b])
    BY <1>6, <1>7 DEF PeersFine, OnlyMoves, LoopInv
  <2> QED BY <2>1 DEF PeersFine
<1>9. Joins(c) \/ TurnedAway(c)
  <2>1. CASE attach
    BY <1>1, <1>3, <1>5, <1>6, <1>7, <2>1 DEF Joins, c
  <2>2. CASE ~attach
    BY <1>1, <1>3, <1>5, <1>6, <1>7, <2>2 DEF TurnedAway, c
  <2> QED BY <2>1, <2>2
<1> QED BY <1>2, <1>8, <1>9

(* handle_tui_client, on the descriptor of the client it serves.            *)
LEMMA HandleMoves ==
    ASSUME LoopInv, ServeClient
    PROVE  PeersFine' /\ ClientMoves
<1> DEFINE f == Head(todo).fd
           c == desc[f]
           p == peer[c]
<1>1. irc' = irc /\ todo' = Tail(todo) /\ Serving("client")
  BY DEF ServeClient, linkVars, Served
<1> USE DEF LoopInv
<1>2. ClientTypeOK /\ TableFits /\ PeersFine
  BY DEF TypeOK
<1>3. CASE ~Head(todo).ready \/ ~Listed(f)
  <2>1. UNCHANGED <<desc, table, backlog, peer>>
    BY <1>3 DEF ServeClient, clientVars, HandleClient
  <2>2. PeersFine'
    BY <1>2, <2>1 DEF PeersFine
  <2>3. NobodyMoves
    BY <1>1, <2>1 DEF NobodyMoves, SameRole
  <2> QED BY <2>2, <2>3 DEF ClientMoves
<1>4. CASE Head(todo).ready /\ Listed(f)
  <2>1. Hears(c) /\ backlog' = backlog
    BY <1>4 DEF ServeClient, HandleClient
  <2>2. f \in Range(table) /\ f \in Fds /\ c \in Clients
    BY <1>2, <1>4 DEF Listed, Range, ClientTypeOK, TableFits
  <2>3. (CHOOSE g \in Range(table) : desc[g] = c) = f
    <3>1. \A g \in Range(table) : desc[g] = c => g = f
      BY <1>2, <2>2 DEF TableFits, ClientTypeOK, Range
    <3> QED BY <2>2, <3>1
  <2>4. FinePeer(p) /\ p \in Peers
    BY <1>2, <2>2 DEF PeersFine, FinePeer
  <2> HIDE DEF f, c
  <2>5. CASE Command(c) \in {"HALF", "DETACH"}
    <3> DEFINE closed == [p EXCEPT !.end = "closed"]
               q == Settled(closed)
    <3>1. table' = Removed(f) /\ desc' = [desc EXCEPT ![f] = Nobody]
          /\ peer' = [peer EXCEPT ![c] = q]
      BY <2>1, <2>3, <2>5 DEF Hears
    <3>2. p.prog # "none"
      <4>1. p.end \in {"open", "shut"}
        BY <2>2 DEF EndsMatch, c
      <4> QED BY <2>4, <4>1 DEF FinePeer
    <3>3. FinePeer(closed) /\ closed.end = "closed"
      BY <2>4, <3>2, ClosedIsFine
    <3> HIDE DEF closed
    <3>4. FinePeer(q) /\ q.end = "closed"
      BY <3>3, SettledIsFine
    <3> HIDE DEF q
    <3>5. peer'[c] = q /\ OnlyMoves(c)
      BY <1>2, <2>2, <3>1 DEF ClientTypeOK, OnlyMoves
    <3>6. PeersFine'
      <4>1. ASSUME NEW b \in Clients PROVE FinePeer(peer'[b])
        BY <1>2, <3>4, <3>5 DEF PeersFine, OnlyMoves
      <4> QED BY <4>1 DEF PeersFine
    <3>7. Departs(c, f)
      BY <1>1, <2>1, <2>2, <3>1, <3>4, <3>5 DEF Departs, c
    <3>8. Served1(f)
      BY <1>1 DEF Served1, f
    <3> QED BY <2>2, <3>6, <3>7, <3>8 DEF ClientMoves
  <2>6. CASE Command(c) \notin {"HALF", "DETACH"}
    <3> DEFINE t == Tail(p.tx)
               q == [p EXCEPT !.tx = t]
    <3>1. UNCHANGED <<desc, table>> /\ peer' = [peer EXCEPT ![c].tx = Tail(peer[c].tx)]
      BY <2>1, <2>6 DEF Hears
    <3>2. t \in Seq(Commands)
      <4>1. p.tx \in Seq(Commands)
        BY <2>4 DEF Peers
      <4>2. p.tx # <<>>
        BY <2>6 DEF Command
      <4> QED BY <4>1, <4>2
    <3>3. peer' = [peer EXCEPT ![c] = q]
      BY <3>1
    <3> HIDE DEF t
    <3>4. FinePeer(q) /\ q.end = p.end
      BY <2>4, <3>2, TxIsFine, Zenon
    <3> HIDE DEF q
    <3>5. PeersFine' /\ \A b \in Clients : SameRole(b)
      BY <1>2, <2>2, <3>3, <3>4, OnePeer
    <3>6. NobodyMoves
      BY <1>1, <2>1, <3>1, <3>5 DEF NobodyMoves
    <3> QED BY <3>5, <3>6 DEF ClientMoves
  <2> QED BY <2>5, <2>6
<1> QED BY <1>3, <1>4

(* The client programs.                                                     *)
LEMMA ProgramsMove ==
    ASSUME LoopInv, NEW c \in Clients, Programs(c)
    PROVE  PeersFine' /\ ClientMoves
<1> DEFINE p == peer[c]
<1>0. <<>> \in Seq(Commands)
  OBVIOUS
<1>1. irc' = irc
  BY DEF Programs, linkVars
<1>2. ClientTypeOK /\ PeersFine
  BY DEF LoopInv, TypeOK
<1>3. FinePeer(p) /\ p \in Peers
  BY <1>2 DEF PeersFine, FinePeer
<1>4. ASSUME NEW last \in Seq(Commands), Leaves(c, last), UNCHANGED <<desc, table, backlog>>
      PROVE  PeersFine' /\ ClientMoves
  <2>1. FinePeer(Left(p, last)) /\ Left(p, last).end = p.end
    BY <1>3, LeftIsFine
  <2>2. PeersFine' /\ \A b \in Clients : SameRole(b)
    BY <1>2, <1>4, <2>1, OnePeer DEF Leaves
  <2> QED BY <1>1, <1>4, <2>2 DEF ClientMoves, NobodyMoves
<1>5. ASSUME NEW prog \in {"tui", "cli"}, NEW open \in BOOLEAN, NEW tx \in Seq(Commands),
             Connects(c, prog, open, tx)
      PROVE  PeersFine' /\ ClientMoves
  <2> DEFINE q == [prog |-> prog, open |-> open, end |-> "queued", tx |-> tx, rx |-> <<>>]
  <2>1. peer' = [peer EXCEPT ![c] = q] /\ p.prog = "none" /\ backlog' = Append(backlog, c)
        /\ UNCHANGED <<desc, table>>
    BY <1>5 DEF Connects
  <2>2. <<>> \in Seq(Frames)
    OBVIOUS
  <2>3. q \in Peers
    BY <2>2, Zenon DEF Peers
  <2>4. q.prog # "none" /\ q.end = "queued" /\ q.rx = <<>>
    OBVIOUS
  <2> HIDE DEF q
  <2>5. FinePeer(q)
    BY <2>3, <2>4 DEF FinePeer, HalfIsLast
  <2>6. peer'[c] = q /\ OnlyMoves(c)
    BY <1>2, <2>1 DEF ClientTypeOK, OnlyMoves
  <2>7. PeersFine'
    <3>1. ASSUME NEW b \in Clients PROVE FinePeer(peer'[b])
      BY <1>2, <2>5, <2>6 DEF PeersFine, OnlyMoves
    <3> QED BY <3>1 DEF PeersFine
  <2>8. p.end = "none"
    BY <1>3, <2>1 DEF FinePeer
  <2>9. Queues(c)
    BY <1>1, <2>1, <2>4, <2>6, <2>8 DEF Queues
  <2> QED BY <2>7, <2>9 DEF ClientMoves
<1>6. CASE TuiStart(c)
  <2>1. <<"ATTACH">> \in Seq(Commands)
    BY DEF Commands
  <2> QED BY <1>5, <1>6, <2>1 DEF TuiStart
<1>7. CASE CliStart(c)
  <2>1. /\ <<"STATUS">> \in Seq(Commands) /\ <<"MSG">> \in Seq(Commands)
        /\ <<"STOP">> \in Seq(Commands)
    BY DEF Commands
  <2>2. CASE Connects(c, "cli", TRUE, <<"STATUS">>)
    BY <1>5, <2>1, <2>2, Zenon
  <2>3. ASSUME NEW tx \in {<<"MSG">>, <<"STOP">>, <<>>}, Connects(c, "cli", FALSE, tx)
        PROVE  PeersFine' /\ ClientMoves
    <3>1. tx \in Seq(Commands)
      BY <1>0, <2>1, Zenon
    <3> QED BY <1>5, <2>3, <3>1, Zenon
  <2> QED BY <1>7, <2>2, <2>3 DEF CliStart
<1>8. CASE TuiSubmit(c)
  <2>1. CASE DaemonGone(c)
    BY <1>0, <1>4, <1>8, <2>1 DEF TuiSubmit
  <2>2. CASE ~DaemonGone(c)
    <3> DEFINE t == Append(p.tx, "MSG")
               q == [p EXCEPT !.tx = t]
    <3>1. peer' = [peer EXCEPT ![c].tx = Append(@, "MSG")] /\ UNCHANGED <<desc, table, backlog>>
      BY <1>8, <2>2 DEF TuiSubmit
    <3>2. t \in Seq(Commands)
      BY <1>3 DEF Peers, Commands
    <3>3. peer' = [peer EXCEPT ![c] = q]
      BY <3>1
    <3> HIDE DEF t
    <3>4. FinePeer(q) /\ q.end = p.end
      BY <1>3, <3>2, TxIsFine, Zenon
    <3> HIDE DEF q
    <3>5. PeersFine' /\ \A b \in Clients : SameRole(b)
      BY <1>2, <3>3, <3>4, OnePeer
    <3> QED BY <1>1, <3>1, <3>5 DEF ClientMoves, NobodyMoves
  <2> QED BY <2>1, <2>2
<1>9. CASE TuiQuit(c)
  <2>1. PICK last \in {<<"DETACH">>, <<>>} : Leaves(c, last)
    BY <1>9 DEF TuiQuit
  <2>2. last \in Seq(Commands)
    <3>1. <<"DETACH">> \in Seq(Commands)
      BY DEF Commands
    <3> QED BY <1>0, <3>1, Zenon
  <2> QED BY <1>4, <1>9, <2>1, <2>2 DEF TuiQuit
<1>10. CASE ClientReads(c)
  <2>0. UNCHANGED <<desc, table, backlog>>
    BY <1>10 DEF ClientReads
  <2>1. CASE Leaves(c, <<>>)
    BY <1>0, <1>4, <2>0, <2>1
  <2>2. CASE p.rx # <<>> /\ peer' = [peer EXCEPT ![c].rx = Tail(@)]
    <3> DEFINE q == [p EXCEPT !.rx = Tail(@)]
    <3>1. FinePeer(q) /\ q.end = p.end
      BY <1>3, <2>2, ReadIsFine
    <3>2. peer' = [peer EXCEPT ![c] = q]
      BY <2>2
    <3> HIDE DEF q
    <3>3. PeersFine' /\ \A b \in Clients : SameRole(b)
      BY <1>2, <3>1, <3>2, OnePeer
    <3> QED BY <1>1, <2>0, <3>3 DEF ClientMoves, NobodyMoves
  <2> QED BY <1>10, <2>1, <2>2 DEF ClientReads
<1> QED BY <1>6, <1>7, <1>8, <1>9, <1>10 DEF Programs

(* The end of daemon_run.                                                   *)
LEMMA ShutdownMoves ==
    ASSUME LoopInv, Shutdown
    PROVE  PeersFine' /\ AllClosed
<1>1. CloseAll /\ todo = <<>> /\ todo' = <<>> /\ irc' = [irc EXCEPT !.fd = NoFd]
  BY DEF Shutdown, IrcDisconnect
<1>2. irc'.fd = NoFd
  BY <1>1 DEF LoopInv, TypeOK, LinkTypeOK
<1>3. ASSUME NEW c \in Clients
      PROVE  FinePeer(peer'[c]) /\ peer'[c].end \notin {"open", "shut"}
  <2> DEFINE p == peer[c]
  <2>1. FinePeer(p)
    BY DEF LoopInv, PeersFine
  <2>2. c \in Attached <=> p.end \in {"open", "shut"}
    <3>1. c \in Attached <=> \E f \in Fds : desc[f] = c
      BY DEF Attached, LoopInv, TableFits, TypeOK, ClientTypeOK, Range
    <3> QED BY <3>1 DEF LoopInv, EndsMatch
  <2>3. CASE c \in Attached
    <3> DEFINE q == [Sent(p, "GOODBYE") EXCEPT !.end = "closed"]
    <3>1. peer'[c] = Settled(q)
      BY <1>1, <2>3 DEF CloseAll
    <3>2. p.prog # "none" /\ (p.end \in {"queued", "open"} \/ Broken(p))
      BY <2>1, <2>2, <2>3 DEF FinePeer, Broken
    <3>3. FinePeer(q) /\ q.end = "closed"
      BY <2>1, <3>2, SentLast
    <3> HIDE DEF q
    <3> QED BY <3>1, <3>3, SettledIsFine
  <2>4. CASE c \notin Attached /\ c \in Range(backlog)
    <3> DEFINE q == [p EXCEPT !.end = "closed"]
    <3>1. peer'[c] = Settled(q)
      BY <1>1, <2>4 DEF CloseAll
    <3>2. p.end = "queued"
      BY <2>4 DEF LoopInv, EndsMatch, Range
    <3>3. FinePeer(q) /\ q.end = "closed"
      BY <2>1, <3>2, ClosedIsFine DEF FinePeer
    <3> HIDE DEF q
    <3> QED BY <3>1, <3>3, SettledIsFine
  <2>5. CASE c \notin Attached /\ c \notin Range(backlog)
    <3>1. peer'[c] = p
      BY <1>1, <2>5 DEF CloseAll
    <3> QED BY <2>1, <2>2, <2>5, <3>1
  <2> QED BY <2>3, <2>4, <2>5
<1>4. PeersFine'
  BY <1>3 DEF PeersFine
<1> QED BY <1>1, <1>2, <1>3, <1>4 DEF AllClosed, CloseAll

(* A pass has taken its time.                                               *)
TimePasses == \E d \in 0..MaxPass : LinkTick(d)

(* poll() reports something, or nothing.                                    *)
LEMMA PollPasses ==
    ASSUME PollReady \/ PollTimeout
    PROVE  TimePasses
<1>1. 1..MaxPass \subseteq 0..MaxPass
  BY LinkAssumption
<1> QED BY <1>1 DEF PollReady, PollTimeout, TimePasses

(* Reading, pinging and the passing of time keep the link's descriptor.     *)
LEMMA LinkKeepsFd ==
    ASSUME LinkTypeOK, IrcRead \/ KeepsLink \/ ConnectFails \/ TimePasses
    PROVE  irc'.fd = irc.fd
<1>1. CASE IrcRead
  BY <1>1 DEF IrcRead, HandleLine, Heard, LinkTypeOK
<1>2. CASE KeepsLink
  BY <1>2 DEF KeepsLink, LinkTypeOK
<1>3. CASE ConnectFails
  BY <1>3 DEF ConnectFails, LinkTypeOK
<1>4. CASE TimePasses
  BY <1>4 DEF TimePasses, LinkTick, LinkTypeOK
<1> QED BY <1>1, <1>2, <1>3, <1>4

(* Every step moves the clients in one of these ways.                       *)
LEMMA ClientStep ==
    ASSUME LoopInv, [Next]_vars
    PROVE  PeersFine' /\ ClientMoves
<1>0. LinkTypeOK /\ ClientTypeOK /\ PeersFine
  BY DEF LoopInv, TypeOK
<1>1. ASSUME UNCHANGED <<desc, table, backlog, peer>>, irc'.fd = irc.fd
      PROVE  PeersFine' /\ ClientMoves
  <2>1. NobodyMoves
    BY <1>1 DEF NobodyMoves, SameRole
  <2>2. PeersFine'
    BY <1>0, <1>1 DEF PeersFine
  <2> QED BY <2>1, <2>2 DEF ClientMoves
<1>2. ASSUME LinkCloses \/ LinkOpens PROVE PeersFine' /\ ClientMoves
  <2>1. PeersFine'
    BY <1>0, <1>2 DEF PeersFine, LinkCloses, LinkOpens
  <2> QED BY <1>2, <2>1 DEF ClientMoves
<1>3. CASE PollReady
  BY <1>0, <1>1, <1>3, PollPasses, LinkKeepsFd DEF PollReady, clientVars
<1>4. CASE PollTimeout
  BY <1>0, <1>1, <1>4, PollPasses, LinkKeepsFd DEF PollTimeout, clientVars
<1>5. CASE ServeIrc
  <2>1. CASE ~IrcEof
    BY <1>0, <1>1, <1>5, <2>1, LinkKeepsFd DEF ServeIrc, clientVars
  <2>2. CASE IrcEof
    <3>1. irc'.fd = NoFd
      BY <1>0, <1>5, <2>2 DEF ServeIrc, IrcLost, LinkTypeOK
    <3>2. LinkCloses
      BY <1>5, <2>2, <3>1 DEF ServeIrc, LinkCloses, Closed, KeepClients
    <3> QED BY <1>2, <3>2
  <2> QED BY <2>1, <2>2
<1>6. CASE ServeAccept
  <2>1. Accept /\ irc' = irc
    BY <1>6 DEF ServeAccept, linkVars
  <2> QED BY <2>1, AcceptMoves DEF ClientMoves
<1>7. CASE ServeClient
  BY <1>7, HandleMoves
<1>8. CASE ServeMaintain
  <2>1. CASE LinkUp /\ KeepsLink /\ UNCHANGED clientVars
    BY <1>0, <1>1, <2>1, LinkKeepsFd DEF clientVars
  <2>2. CASE LinkUp /\ DropsLink /\ Closed(irc.fd) /\ KeepClients
    <3>1. irc'.fd = NoFd
      BY <1>0, <2>2 DEF DropsLink, LinkTypeOK
    <3>2. LinkCloses
      BY <2>2, <3>1 DEF LinkCloses, Closed, KeepClients
    <3> QED BY <1>2, <3>2
  <2>3. CASE UNCHANGED <<linkVars, clientVars, left>>
    BY <1>1, <2>3 DEF linkVars, clientVars
  <2>4. CASE ConnectFails /\ UNCHANGED clientVars
    BY <1>0, <1>1, <2>4, LinkKeepsFd DEF clientVars
  <2>5. CASE /\ ~LinkUp /\ IrcConnect(NewFd)
             /\ desc' = [desc EXCEPT ![NewFd] = IrcPeer] /\ KeepClients
    <3>1. irc'.fd = NewFd
      BY <1>0, <2>5 DEF IrcConnect, Opened, LinkTypeOK
    <3>2. LinkOpens
      BY <2>5, <3>1 DEF LinkOpens, KeepClients
    <3> QED BY <1>2, <3>2
  <2> QED BY <1>8, <2>1, <2>2, <2>3, <2>4, <2>5 DEF ServeMaintain
<1>9. CASE Shutdown
  BY <1>9, ShutdownMoves DEF ClientMoves
<1>10. ASSUME NEW s \in Speakers, SayToClients(s) PROVE PeersFine' /\ ClientMoves
  <2>1. Broadcast /\ irc' = irc
    BY <1>10 DEF SayToClients, linkVars
  <2> QED BY <2>1, BroadcastMoves DEF ClientMoves
<1>11. ASSUME NEW s \in Speakers, SayToIrc(s) PROVE PeersFine' /\ ClientMoves
  <2>1. irc' = irc /\ UNCHANGED <<desc, table, backlog>> /\ Sendf(s)
    BY <1>11 DEF SayToIrc, linkVars
  <2>2. LinkUp => irc.fd \in Fds /\ desc[irc.fd] = IrcPeer
    BY DEF LoopInv, TableFits, LinkUp
  <2>3. IrcPeer \notin Clients
    BY ClientAssumption DEF IrcPeer
  <2>4. peer' = peer
    BY <2>1, <2>2, <2>3 DEF Sendf, WriteTo
  <2> QED BY <1>1, <2>1, <2>4
<1>12. CASE Server
  BY <1>1, <1>12 DEF Server, SrvAnswers, SrvSays, SrvBreaks, clientVars
<1>13. ASSUME NEW c \in Clients, Programs(c) PROVE PeersFine' /\ ClientMoves
  BY <1>13, ProgramsMove
<1>14. CASE Signal
  BY <1>1, <1>14 DEF Signal, linkVars
<1>15. CASE UNCHANGED vars
  BY <1>1, <1>15 DEF vars, linkVars, clientVars
<1> QED BY <1>3, <1>4, <1>5, <1>6, <1>7, <1>8, <1>9, <1>10, <1>11, <1>12, <1>13, <1>14, <1>15
        DEF Next, Loop

-----------------------------------------------------------------------------
(* remove_tui_client takes the one entry out and keeps the others.          *)
LEMMA RemovedIs ==
    ASSUME table \in Seq(Fds), IsInjective(table), NEW f \in Range(table)
    PROVE  /\ Removed(f) \in Seq(Fds) /\ IsInjective(Removed(f))
           /\ Len(Removed(f)) = Len(table) - 1
           /\ Range(Removed(f)) = Range(table) \ {f}
<1> DEFINE n == Len(table)
           i == CHOOSE k \in DOMAIN table : table[k] = f
           R == Removed(f)
<1>1. n \in Nat /\ DOMAIN table = 1..n
  OBVIOUS
<1>2. i \in 1..n /\ table[i] = f
  BY <1>1 DEF Range
<1>3. R = [k \in 1..(n - 1) |-> IF k = i THEN table[n] ELSE table[k]]
  BY DEF Removed
<1>4. \A k \in 1..n : table[k] \in Fds
  BY <1>1
<1>5. \A j, k \in 1..n : table[j] = table[k] => j = k
  BY <1>1 DEF IsInjective
<1>6. Range(table) = {table[k] : k \in 1..n}
  BY <1>1 DEF Range
<1> HIDE DEF n, i, R
<1>7. R \in [1..(n - 1) -> Fds]
  BY <1>1, <1>2, <1>3, <1>4
<1>8. R \in Seq(Fds) /\ Len(R) = n - 1 /\ DOMAIN R = 1..(n - 1)
  <2>1. n - 1 \in Nat
    BY <1>1, <1>2
  <2> HIDE DEF R
  <2> QED BY <1>7, <2>1
<1>9. IsInjective(R)
  <2>1. ASSUME NEW j \in 1..(n - 1), NEW k \in 1..(n - 1), R[j] = R[k] PROVE j = k
    <3>1. j \in 1..n /\ k \in 1..n /\ n \in 1..n /\ j # n /\ k # n
      BY <1>1, <1>2
    <3>2. R[j] = (IF j = i THEN table[n] ELSE table[j]) /\ R[k] = (IF k = i THEN table[n] ELSE table[k])
      BY <1>3
    <3> QED BY <2>1, <3>1, <3>2, <1>5
  <2> QED BY <1>8, <2>1 DEF IsInjective
<1>10. Range(R) = Range(table) \ {f}
  <2>1. ASSUME NEW x \in Range(R) PROVE x \in Range(table) \ {f}
    <3>1. PICK k \in 1..(n - 1) : x = R[k]
      BY <1>8 DEF Range
    <3>2. k \in 1..n /\ n \in 1..n /\ k # n
      BY <1>1, <1>2, <3>1
    <3>3. CASE k = i
      <4>1. x = table[n] /\ n # i
        BY <1>3, <3>1, <3>2, <3>3
      <4>2. table[n] # table[i]
        BY <1>2, <1>5, <3>2, <4>1
      <4> QED BY <1>2, <1>6, <3>2, <4>1, <4>2
    <3>4. CASE k # i
      <4>1. x = table[k]
        BY <1>3, <3>1, <3>4
      <4>2. table[k] # table[i]
        BY <1>2, <1>5, <3>2, <3>4
      <4> QED BY <1>2, <1>6, <3>2, <4>1, <4>2
    <3> QED BY <3>3, <3>4
  <2>2. ASSUME NEW x \in Range(table) \ {f} PROVE x \in Range(R)
    <3>1. PICK k \in 1..n : x = table[k]
      BY <1>6
    <3>2. k # i
      BY <1>2, <3>1
    <3>3. CASE k = n
      <4>1. i \in 1..(n - 1)
        BY <1>1, <1>2, <3>2, <3>3
      <4>2. R[i] = x
        BY <1>3, <3>1, <3>3, <4>1
      <4> QED BY <1>8, <4>1, <4>2 DEF Range
    <3>4. CASE k # n
      <4>1. k \in 1..(n - 1)
        BY <1>1, <3>1, <3>4
      <4>2. R[k] = x
        BY <1>3, <3>1, <3>2, <4>1
      <4> QED BY <1>8, <4>1, <4>2 DEF Range
    <3> QED BY <3>3, <3>4
  <2> QED BY <2>1, <2>2
<1> QED BY <1>8, <1>9, <1>10 DEF R, n

(* accept's new entry is appended.                                          *)
LEMMA AppendedIs ==
    ASSUME NEW S, NEW q \in Seq(S), IsInjective(q), NEW x \in S, x \notin Range(q)
    PROVE  /\ Append(q, x) \in Seq(S) /\ IsInjective(Append(q, x))
           /\ Len(Append(q, x)) = Len(q) + 1
           /\ Range(Append(q, x)) = Range(q) \cup {x}
<1> DEFINE r == Append(q, x)
           n == Len(q)
<1>1. /\ r \in Seq(S) /\ n \in Nat /\ Len(r) = n + 1 /\ r[n + 1] = x
      /\ \A k \in 1..n : r[k] = q[k]
      /\ DOMAIN q = 1..n /\ DOMAIN r = 1..(n + 1)
  OBVIOUS
<1>2. \A k \in 1..n : q[k] # x
  BY <1>1 DEF Range
<1>3. \A j, k \in 1..n : q[j] = q[k] => j = k
  BY <1>1 DEF IsInjective
<1> HIDE DEF r, n
<1>4. IsInjective(r)
  <2>1. ASSUME NEW j \in 1..(n + 1), NEW k \in 1..(n + 1), r[j] = r[k] PROVE j = k
    <3>1. CASE j = n + 1 /\ k = n + 1
      BY <3>1
    <3>2. CASE j = n + 1 /\ k # n + 1
      BY <1>1, <1>2, <2>1, <3>2
    <3>3. CASE j # n + 1 /\ k = n + 1
      BY <1>1, <1>2, <2>1, <3>3
    <3>4. CASE j # n + 1 /\ k # n + 1
      BY <1>1, <1>3, <2>1, <3>4
    <3> QED BY <3>1, <3>2, <3>3, <3>4
  <2> QED BY <1>1, <2>1 DEF IsInjective
<1>5. Range(r) = Range(q) \cup {x}
  <2>1. Range(r) = {r[k] : k \in 1..(n + 1)} /\ Range(q) = {q[k] : k \in 1..n}
    BY <1>1 DEF Range
  <2>2. ASSUME NEW y \in Range(r) PROVE y \in Range(q) \cup {x}
    BY <1>1, <2>1, <2>2
  <2>3. ASSUME NEW y \in Range(q) \cup {x} PROVE y \in Range(r)
    <3>1. CASE y = x
      <4>1. n + 1 \in 1..(n + 1)
        BY <1>1
      <4> QED BY <1>1, <2>1, <3>1, <4>1
    <3>2. CASE y # x
      <4>1. PICK k \in 1..n : y = q[k]
        BY <2>1, <3>2
      <4>2. k \in 1..(n + 1) /\ r[k] = y
        BY <1>1, <4>1
      <4> QED BY <2>1, <4>2
    <3> QED BY <3>1, <3>2
  <2> QED BY <2>2, <2>3
<1> QED BY <1>1, <1>4, <1>5 DEF r, n

(* What is left of the backlog when its head is taken.                      *)
LEMMA TailIs ==
    ASSUME NEW S, NEW q \in Seq(S), IsInjective(q), q # <<>>
    PROVE  /\ Tail(q) \in Seq(S) /\ IsInjective(Tail(q)) /\ Head(q) \in S
           /\ \A i \in DOMAIN Tail(q) : i + 1 \in DOMAIN q /\ Tail(q)[i] = q[i + 1] /\ q[i + 1] # Head(q)
<1> DEFINE n == Len(q)
           r == Tail(q)
<1>1. /\ n \in Nat \ {0} /\ Len(r) = n - 1 /\ r \in Seq(S) /\ Head(q) = q[1] /\ q[1] \in S
      /\ \A i \in 1..(n - 1) : r[i] = q[i + 1]
      /\ DOMAIN q = 1..n /\ DOMAIN r = 1..(n - 1)
  OBVIOUS
<1>2. \A j, k \in 1..n : q[j] = q[k] => j = k
  BY <1>1 DEF IsInjective
<1> HIDE DEF n, r
<1>3. \A i \in 1..(n - 1) : i + 1 \in 1..n /\ 1 \in 1..n /\ i + 1 # 1
  BY <1>1
<1>4. \A i \in DOMAIN r : i + 1 \in DOMAIN q /\ r[i] = q[i + 1] /\ q[i + 1] # Head(q)
  BY <1>1, <1>2, <1>3
<1>5. ASSUME NEW j \in 1..(n - 1), NEW k \in 1..(n - 1), r[j] = r[k] PROVE j = k
  <2>1. j + 1 = k + 1
    BY <1>1, <1>2, <1>3, <1>5
  <2> QED BY <2>1
<1>6. IsInjective(r)
  BY <1>1, <1>5 DEF IsInjective
<1> QED BY <1>1, <1>4, <1>6 DEF r

(* Descriptors, table and backlog after a step.                             *)
Listing ==
    /\ desc \in [Fds -> Clients \cup {Nobody, IrcPeer}]
    /\ table \in Seq(Fds) /\ backlog \in Seq(Clients)
    /\ TableFits /\ EndsMatch

(* They fit after every step.                                               *)
LEMMA ListingKept ==
    ASSUME LoopInv, ClientMoves
    PROVE  Listing'
<1>1. /\ desc \in [Fds -> Clients \cup {Nobody, IrcPeer}]
      /\ table \in Seq(Fds) /\ backlog \in Seq(Clients)
  BY DEF LoopInv, TypeOK, ClientTypeOK
<1>2. TableFits /\ EndsMatch
  BY DEF LoopInv
<1>3. NewFd \in Fds /\ desc[NewFd] = Nobody
  BY NewFdIsFree DEF LoopInv
<1>4. Nobody \notin Clients /\ IrcPeer \notin Clients /\ Nobody # IrcPeer /\ NoFd \notin Fds
  BY ClientAssumption DEF Nobody, IrcPeer, NoFd
<1>5. IsInjective(backlog) /\ \A i \in DOMAIN backlog : backlog[i] \in Clients
  BY <1>1, <1>2 DEF EndsMatch
<1>6. CASE NobodyMoves
  <2>1. TableFits'
    BY <1>2, <1>6 DEF NobodyMoves, TableFits
  <2>2. EndsMatch'
    <3>1. ASSUME NEW c \in Clients
          PROVE  peer'[c].end \in {"open", "shut"} <=> \E f \in Fds : desc'[f] = c
      <4>1. peer[c].end \in {"open", "shut"} <=> \E f \in Fds : desc[f] = c
        BY <1>2 DEF EndsMatch
      <4>2. peer'[c].end \in {"open", "shut"} <=> peer[c].end \in {"open", "shut"}
        BY <1>6 DEF NobodyMoves, SameRole
      <4>3. desc' = desc
        BY <1>6 DEF NobodyMoves
      <4> QED BY <4>1, <4>2, <4>3
    <3>2. ASSUME NEW i \in DOMAIN backlog PROVE peer'[backlog[i]].end = "queued"
      <4>1. backlog[i] \in Clients /\ peer[backlog[i]].end = "queued"
        BY <1>2, <1>5 DEF EndsMatch
      <4> QED BY <1>6, <4>1 DEF NobodyMoves, SameRole
    <3> QED BY <1>5, <1>6, <3>1, <3>2 DEF NobodyMoves, EndsMatch
  <2> QED BY <1>1, <1>6, <2>1, <2>2 DEF Listing, NobodyMoves
<1>7. CASE LinkCloses
  <2>1. /\ desc' \in [Fds -> Clients \cup {Nobody, IrcPeer}]
        /\ \A f \in Fds : desc'[f] = IF f = irc.fd THEN Nobody ELSE desc[f]
        /\ irc'.fd = NoFd
        /\ table' = table /\ backlog' = backlog /\ peer' = peer
    BY <1>1, <1>7 DEF LinkCloses
  <2>2. \A f \in Fds : \A c \in Clients : desc'[f] = c <=> desc[f] = c
    BY <1>2, <1>4, <2>1 DEF TableFits
  <2>3. TableFits'
    <3>1. \A f \in Fds : desc'[f] # IrcPeer
      BY <1>2, <1>4, <2>1 DEF TableFits
    <3>2. \A f, g \in Fds : desc'[f] = desc'[g] /\ desc'[f] \in Clients => f = g
      BY <1>2, <2>2 DEF TableFits
    <3> QED BY <1>2, <1>4, <2>1, <2>2, <3>1, <3>2 DEF TableFits
  <2>4. EndsMatch'
    <3>1. \A c \in Clients : (\E f \in Fds : desc'[f] = c) <=> (\E f \in Fds : desc[f] = c)
      BY <2>2
    <3> QED BY <1>2, <2>1, <3>1 DEF EndsMatch
  <2> QED BY <1>1, <2>1, <2>3, <2>4 DEF Listing
<1>8. CASE LinkOpens
  <2>1. /\ desc' \in [Fds -> Clients \cup {Nobody, IrcPeer}]
        /\ \A f \in Fds : desc'[f] = IF f = NewFd THEN IrcPeer ELSE desc[f]
        /\ irc'.fd = NewFd /\ irc.fd = NoFd
        /\ table' = table /\ backlog' = backlog /\ peer' = peer
    BY <1>1, <1>8 DEF LinkOpens, LinkUp
  <2>2. \A f \in Fds : \A c \in Clients : desc'[f] = c <=> desc[f] = c
    BY <1>3, <1>4, <2>1
  <2>3. TableFits'
    <3>1. \A f \in Fds : desc'[f] = IrcPeer <=> f = NewFd
      BY <1>2, <1>4, <2>1 DEF TableFits
    <3>2. \A f, g \in Fds : desc'[f] = desc'[g] /\ desc'[f] \in Clients => f = g
      BY <1>2, <2>2 DEF TableFits
    <3>3. \A f \in Fds : desc'[f] \in Clients <=> f \in Range(table)
      BY <1>2, <2>2 DEF TableFits
    <3>4. \A f \in Fds : desc'[f] = IrcPeer <=> f = irc'.fd
      BY <2>1, <3>1
    <3>5. irc'.fd \in Fds
      BY <1>3, <2>1
    <3> QED BY <1>2, <2>1, <3>2, <3>3, <3>4, <3>5 DEF TableFits
  <2>4. EndsMatch'
    <3>1. \A c \in Clients : (\E f \in Fds : desc'[f] = c) <=> (\E f \in Fds : desc[f] = c)
      BY <2>2
    <3> QED BY <1>2, <2>1, <3>1 DEF EndsMatch
  <2> QED BY <1>1, <2>1, <2>3, <2>4 DEF Listing
<1>9. CASE AllClosed
  <2>1. /\ desc' \in [Fds -> Clients \cup {Nobody, IrcPeer}]
        /\ \A f \in Fds : desc'[f] = Nobody
        /\ table' = <<>> /\ backlog' = <<>> /\ irc'.fd = NoFd
    BY <1>9 DEF AllClosed
  <2>2. Range(<<>>) = {} /\ IsInjective(<<>>) /\ Len(<<>>) = 0
    BY DEF Range, IsInjective
  <2>3. TableFits'
    BY ClientAssumption, <1>4, <2>1, <2>2 DEF TableFits
  <2>4. EndsMatch'
    BY <1>4, <1>9, <2>1, <2>2 DEF EndsMatch, AllClosed
  <2> QED BY <2>1, <2>3, <2>4 DEF Listing
<1>10. ASSUME NEW c \in Clients, Joins(c) PROVE Listing'
  <2> DEFINE g == NewFd
  <2>1. /\ desc' \in [Fds -> Clients \cup {Nobody, IrcPeer}]
        /\ \A f \in Fds : desc'[f] = IF f = g THEN c ELSE desc[f]
        /\ irc'.fd = irc.fd /\ table' = Append(table, g) /\ Len(table) < MaxClients
        /\ peer'[c].end = "open" /\ \A b \in Clients \ {c} : peer'[b] = peer[b]
    BY <1>1, <1>10 DEF Joins, OnlyMoves, HasRoom
  <2>2. g \in Fds /\ desc[g] = Nobody
    BY <1>3
  <2> HIDE DEF g
  <2>3. g \notin Range(table)
    BY <1>2, <1>4, <2>2 DEF TableFits
  <2>4. /\ table' \in Seq(Fds) /\ IsInjective(table') /\ Len(table') = Len(table) + 1
        /\ Range(table') = Range(table) \cup {g}
    BY <1>1, <1>2, <2>1, <2>2, <2>3, AppendedIs DEF TableFits
  <2>5. /\ backlog' \in Seq(Clients) /\ IsInjective(backlog') /\ peer[c].end = "queued"
        /\ \A i \in DOMAIN backlog' : backlog'[i] \in Clients \ {c} /\ peer[backlog'[i]].end = "queued"
    <3>1. backlog # <<>> /\ c = Head(backlog) /\ backlog' = Tail(backlog)
      BY <1>10 DEF Joins
    <3>2. 1 \in DOMAIN backlog /\ backlog[1] = c
      BY <1>1, <3>1
    <3> QED BY <1>1, <1>2, <1>5, <3>1, <3>2, TailIs DEF EndsMatch
  <2>6. \A f \in Fds : desc[f] # c
    BY <1>2, <2>5 DEF EndsMatch
  <2>7. TableFits'
    <3>1. ASSUME NEW f \in Fds PROVE desc'[f] \in Clients <=> f \in Range(table')
      <4>1. CASE f = g
        BY <2>1, <2>4, <4>1
      <4>2. CASE f # g
        BY <1>2, <2>1, <2>4, <4>2 DEF TableFits
      <4> QED BY <4>1, <4>2
    <3>2. \A f \in Fds : desc'[f] = IrcPeer <=> f = irc.fd
      BY <1>2, <1>4, <2>1, <2>2 DEF TableFits
    <3>3. Len(table') <= MaxClients
      BY ClientAssumption, <1>1, <2>1, <2>4
    <3>4. \A f, h \in Fds : desc'[f] = desc'[h] /\ desc'[f] \in Clients => f = h
      BY <1>2, <2>1, <2>6 DEF TableFits
    <3> QED BY <1>2, <2>1, <2>4, <3>1, <3>2, <3>3, <3>4 DEF TableFits
  <2>8. EndsMatch'
    <3>1. ASSUME NEW b \in Clients
          PROVE  peer'[b].end \in {"open", "shut"} <=> \E f \in Fds : desc'[f] = b
      <4>1. CASE b = c
        BY <2>1, <2>2, <4>1
      <4>2. CASE b # c
        <5>1. \A f \in Fds : desc'[f] = b <=> desc[f] = b
          BY <1>4, <2>1, <2>2, <4>2
        <5> QED BY <1>2, <2>1, <4>2, <5>1 DEF EndsMatch
      <4> QED BY <4>1, <4>2
    <3>2. ASSUME NEW i \in DOMAIN backlog' PROVE peer'[backlog'[i]].end = "queued"
      <4>1. backlog'[i] \in Clients \ {c} /\ peer[backlog'[i]].end = "queued"
        BY <2>5
      <4>2. peer'[backlog'[i]] = peer[backlog'[i]]
        BY <2>1, <4>1
      <4> QED BY <4>1, <4>2
    <3> QED BY <2>5, <3>1, <3>2 DEF EndsMatch
  <2> QED BY <2>1, <2>4, <2>5, <2>7, <2>8 DEF Listing
<1>11. ASSUME NEW c \in Clients, TurnedAway(c) PROVE Listing'
  <2>1. /\ desc' = desc /\ table' = table /\ irc'.fd = irc.fd
        /\ peer'[c].end = "closed" /\ \A b \in Clients \ {c} : peer'[b] = peer[b]
    BY <1>11 DEF TurnedAway, OnlyMoves
  <2>2. /\ backlog' \in Seq(Clients) /\ IsInjective(backlog') /\ peer[c].end = "queued"
        /\ \A i \in DOMAIN backlog' : backlog'[i] \in Clients \ {c} /\ peer[backlog'[i]].end = "queued"
    <3>1. backlog # <<>> /\ c = Head(backlog) /\ backlog' = Tail(backlog)
      BY <1>11 DEF TurnedAway
    <3>2. 1 \in DOMAIN backlog /\ backlog[1] = c
      BY <1>1, <3>1
    <3> QED BY <1>1, <1>2, <1>5, <3>1, <3>2, TailIs DEF EndsMatch
  <2>3. TableFits'
    BY <1>2, <2>1 DEF TableFits
  <2>4. EndsMatch'
    <3>1. ASSUME NEW b \in Clients
          PROVE  peer'[b].end \in {"open", "shut"} <=> \E f \in Fds : desc'[f] = b
      BY <1>2, <2>1, <2>2 DEF EndsMatch
    <3>2. ASSUME NEW i \in DOMAIN backlog' PROVE peer'[backlog'[i]].end = "queued"
      <4>1. backlog'[i] \in Clients \ {c} /\ peer[backlog'[i]].end = "queued"
        BY <2>2
      <4>2. peer'[backlog'[i]] = peer[backlog'[i]]
        BY <2>1, <4>1
      <4> QED BY <4>1, <4>2
    <3> QED BY <2>2, <3>1, <3>2 DEF EndsMatch
  <2> QED BY <1>1, <2>1, <2>2, <2>3, <2>4 DEF Listing
<1>12. ASSUME NEW c \in Clients, Queues(c) PROVE Listing'
  <2>1. /\ desc' = desc /\ table' = table /\ irc'.fd = irc.fd /\ backlog' = Append(backlog, c)
        /\ peer[c].end = "none"
        /\ peer'[c].end = "queued" /\ \A b \in Clients \ {c} : peer'[b] = peer[b]
    BY <1>12 DEF Queues, OnlyMoves
  <2>2. c \notin Range(backlog)
    BY <1>2, <2>1 DEF EndsMatch, Range
  <2>3. /\ backlog' \in Seq(Clients) /\ IsInjective(backlog')
        /\ Range(backlog') = Range(backlog) \cup {c}
    BY <1>1, <1>5, <2>1, <2>2, AppendedIs
  <2>4. TableFits'
    BY <1>2, <2>1 DEF TableFits
  <2>5. EndsMatch'
    <3>1. ASSUME NEW b \in Clients
          PROVE  peer'[b].end \in {"open", "shut"} <=> \E f \in Fds : desc'[f] = b
      BY <1>2, <2>1 DEF EndsMatch
    <3>2. ASSUME NEW i \in DOMAIN backlog' PROVE peer'[backlog'[i]].end = "queued"
      <4>1. backlog'[i] \in Range(backlog) \cup {c}
        <5>1. backlog'[i] \in Range(backlog')
          BY DEF Range
        <5> QED BY <2>3, <5>1
      <4>2. CASE backlog'[i] = c
        BY <2>1, <4>2
      <4>3. CASE backlog'[i] \in Range(backlog) /\ backlog'[i] # c
        <5>1. PICK k \in DOMAIN backlog : backlog'[i] = backlog[k]
          BY <4>3 DEF Range
        <5>2. peer[backlog[k]].end = "queued" /\ backlog[k] \in Clients \ {c}
          BY <1>2, <1>5, <4>3, <5>1 DEF EndsMatch
        <5>3. peer'[backlog[k]] = peer[backlog[k]]
          BY <2>1, <5>2
        <5> QED BY <5>1, <5>2, <5>3
      <4> QED BY <4>1, <4>2, <4>3
    <3> QED BY <2>3, <3>1, <3>2 DEF EndsMatch
  <2> QED BY <1>1, <2>1, <2>3, <2>4, <2>5 DEF Listing
<1>13. ASSUME NEW c \in Clients, NEW g \in Fds, Departs(c, g) PROVE Listing'
  <2>1. /\ desc' \in [Fds -> Clients \cup {Nobody, IrcPeer}]
        /\ \A f \in Fds : desc'[f] = IF f = g THEN Nobody ELSE desc[f]
        /\ irc'.fd = irc.fd /\ table' = Removed(g) /\ backlog' = backlog
        /\ g \in Range(table) /\ desc[g] = c
        /\ peer'[c].end = "closed" /\ \A b \in Clients \ {c} : peer'[b] = peer[b]
    BY <1>1, <1>13 DEF Departs, OnlyMoves
  <2>2. /\ table' \in Seq(Fds) /\ IsInjective(table') /\ Len(table') = Len(table) - 1
        /\ Range(table') = Range(table) \ {g}
    BY <1>1, <1>2, <2>1, RemovedIs DEF TableFits
  <2>3. peer[c].end \in {"open", "shut"}
    BY <1>2, <2>1 DEF EndsMatch
  <2>4. \A f \in Fds : desc'[f] # c
    BY <1>2, <1>4, <2>1 DEF TableFits
  <2>5. TableFits'
    <3>1. \A f \in Fds : desc'[f] \in Clients <=> f \in Range(table')
      BY <1>2, <1>4, <2>1, <2>2 DEF TableFits
    <3>2. ASSUME NEW f \in Fds PROVE desc'[f] = IrcPeer <=> f = irc.fd
      <4>1. g # irc.fd
        BY <1>2, <1>4, <2>1 DEF TableFits
      <4>2. CASE f = g
        BY <1>4, <2>1, <4>1, <4>2
      <4>3. CASE f # g
        BY <1>2, <2>1, <4>3 DEF TableFits
      <4> QED BY <4>2, <4>3
    <3>3. Len(table') <= MaxClients
      BY ClientAssumption, <1>1, <1>2, <2>2 DEF TableFits
    <3>4. \A f, h \in Fds : desc'[f] = desc'[h] /\ desc'[f] \in Clients => f = h
      BY <1>2, <1>4, <2>1 DEF TableFits
    <3> QED BY <1>2, <2>1, <2>2, <3>1, <3>2, <3>3, <3>4 DEF TableFits
  <2>6. EndsMatch'
    <3>1. ASSUME NEW b \in Clients
          PROVE  peer'[b].end \in {"open", "shut"} <=> \E f \in Fds : desc'[f] = b
      <4>1. CASE b = c
        BY <2>1, <2>4, <4>1
      <4>2. CASE b # c
        <5>1. \A f \in Fds : desc'[f] = b <=> desc[f] = b
          BY <1>4, <2>1, <4>2
        <5> QED BY <1>2, <2>1, <4>2, <5>1 DEF EndsMatch
      <4> QED BY <4>1, <4>2
    <3>2. ASSUME NEW i \in DOMAIN backlog PROVE peer'[backlog[i]].end = "queued"
      <4>1. peer[backlog[i]].end = "queued" /\ backlog[i] \in Clients \ {c}
        BY <1>2, <1>5, <2>3 DEF EndsMatch
      <4>2. peer'[backlog[i]] = peer[backlog[i]]
        BY <2>1, <4>1
      <4> QED BY <4>1, <4>2
    <3> QED BY <1>5, <2>1, <3>1, <3>2 DEF EndsMatch
  <2> QED BY <1>1, <2>1, <2>2, <2>5, <2>6 DEF Listing
<1> QED BY <1>6, <1>7, <1>8, <1>9, <1>10, <1>11, <1>12, <1>13 DEF ClientMoves

-----------------------------------------------------------------------------
(* The snapshot of a pass.                                                  *)

Items == [kind : {"irc", "accept", "client", "maintain"}, fd : Nat,
          ready : BOOLEAN, conn : Clients \cup {Nobody, IrcPeer}]

(* Its items are what poll() was asked about.                               *)
LEMMA ItemIs ==
    ASSUME LoopInv, NEW kind \in {"irc", "accept", "client", "maintain"}, NEW fd \in Nat,
           NEW ready \in BOOLEAN
    PROVE  /\ Item(kind, fd, ready) \in Items
           /\ Item(kind, fd, ready).kind = kind /\ Item(kind, fd, ready).fd = fd
           /\ fd \in Fds => Item(kind, fd, ready).conn = desc[fd]
<1> DEFINE conn == IF fd \in Fds THEN desc[fd] ELSE Nobody
<1>1. conn \in Clients \cup {Nobody, IrcPeer}
  BY DEF LoopInv, TypeOK, ClientTypeOK
<1>2. Item(kind, fd, ready) = [kind |-> kind, fd |-> fd, ready |-> ready, conn |-> conn]
  BY DEF Item
<1>3. [kind |-> kind, fd |-> fd, ready |-> ready, conn |-> conn] \in Items
  <2> HIDE DEF conn
  <2> QED BY <1>1, Zenon DEF Items
<1>4. Item(kind, fd, ready) \in Items
  BY <1>2, <1>3
<1>5. /\ Item(kind, fd, ready).kind = kind /\ Item(kind, fd, ready).fd = fd
      /\ Item(kind, fd, ready).conn = conn
  BY <1>2
<1> QED BY <1>4, <1>5

(* The part of poll()'s array that describes the clients.                   *)
LEMMA PolledClientsAre ==
    ASSUME LoopInv
    PROVE  /\ PolledClients \in Seq(Items) /\ Len(PolledClients) = Len(table)
           /\ \A i \in 1..Len(table) :
                /\ PolledClients[i].kind = "client" /\ PolledClients[i].fd = table[i]
                /\ table[i] \in Fds /\ desc[table[i]] \in Clients
                /\ PolledClients[i].conn = desc[table[i]]
<1>1. table \in Seq(Fds) /\ Len(table) \in Nat /\ DOMAIN table = 1..Len(table)
  BY DEF LoopInv, TypeOK, ClientTypeOK
<1>2. ASSUME NEW i \in 1..Len(table)
      PROVE  /\ PolledClients[i] \in Items
             /\ PolledClients[i].kind = "client" /\ PolledClients[i].fd = table[i]
             /\ table[i] \in Fds /\ desc[table[i]] \in Clients
             /\ PolledClients[i].conn = desc[table[i]]
  <2>1. table[i] \in Fds /\ table[i] \in Range(table) /\ table[i] \in Nat
    <3>1. table[i] \in Fds
      BY <1>1
    <3>2. table[i] \in Range(table)
      BY <1>1 DEF Range
    <3> QED BY <3>1, <3>2, ClientAssumption, ZenonT(60)
  <2>2. desc[table[i]] \in Clients
    BY <2>1 DEF LoopInv, TableFits
  <2>3. ClientReady(table[i]) \in BOOLEAN
    BY Zenon DEF ClientReady, Readable
  <2>4. PolledClients[i] = Item("client", table[i], ClientReady(table[i]))
    BY <1>1 DEF PolledClients
  <2> QED BY <2>1, <2>2, <2>3, <2>4, ItemIs
<1>3. PolledClients \in [1..Len(table) -> Items]
  BY <1>1, <1>2 DEF PolledClients
<1>4. PolledClients \in Seq(Items) /\ Len(PolledClients) = Len(table)
  BY <1>1, <1>3
<1> QED BY <1>2, <1>4

(* The snapshot names open clients, each once, and ends with irc_maintain.  *)
LEMMA PolledIs ==
    ASSUME LoopInv, todo' = Append(Polled, Maintain), desc' = desc
    PROVE  todo' \in Seq(Items) /\ todo' # <<>> /\ PassEnds' /\ SnapshotHolds'
<1> DEFINE A == IF LinkReadable THEN <<Item("irc", irc.fd, TRUE)>> ELSE <<>>
           B == IF backlog # <<>> THEN <<Item("accept", NoFd, TRUE)>> ELSE <<>>
           C == PolledClients
           H == A \o B
           m == Len(H)
           n == Len(table)
           P == todo'
<1>1. A \in Seq(Items) /\ \A i \in 1..Len(A) : A[i].kind \in {"irc", "accept"}
  <2> DEFINE x == Item("irc", irc.fd, TRUE)
  <2>1. irc.fd \in Nat
    BY DEF LoopInv, TypeOK, LinkTypeOK
  <2>2. x \in Items /\ x.kind = "irc"
    BY <2>1, ItemIs, ZenonT(60)
  <2> HIDE DEF x
  <2>3. <<x>> \in Seq(Items) /\ Len(<<x>>) = 1 /\ <<x>>[1] = x
    BY <2>2
  <2>4. <<>> \in Seq(Items) /\ Len(<<>>) = 0
    OBVIOUS
  <2>5. A = <<x>> \/ A = <<>>
    BY DEF x
  <2> HIDE DEF A
  <2>6. CASE A = <<x>>
    BY <2>2, <2>3, <2>6
  <2>7. CASE A = <<>>
    <3>1. 1..Len(A) = {}
      BY <2>4, <2>7
    <3> QED BY <2>4, <2>7, <3>1
  <2> QED BY <2>5, <2>6, <2>7
<1>2. B \in Seq(Items) /\ \A i \in 1..Len(B) : B[i].kind \in {"irc", "accept"}
  <2> DEFINE x == Item("accept", NoFd, TRUE)
  <2>1. NoFd \in Nat
    BY DEF NoFd
  <2>2. x \in Items /\ x.kind = "accept"
    BY <2>1, ItemIs, ZenonT(60)
  <2> HIDE DEF x
  <2>3. <<x>> \in Seq(Items) /\ Len(<<x>>) = 1 /\ <<x>>[1] = x
    BY <2>2
  <2>4. <<>> \in Seq(Items) /\ Len(<<>>) = 0
    OBVIOUS
  <2>5. B = <<x>> \/ B = <<>>
    BY DEF x
  <2> HIDE DEF B
  <2>6. CASE B = <<x>>
    BY <2>2, <2>3, <2>6
  <2>7. CASE B = <<>>
    <3>1. 1..Len(B) = {}
      BY <2>4, <2>7
    <3> QED BY <2>4, <2>7, <3>1
  <2> QED BY <2>5, <2>6, <2>7
<1>3. Maintain \in Items /\ Maintain.kind = "maintain"
  BY ItemIs DEF Maintain, NoFd
<1>4. P = Append(H \o C, Maintain)
  BY DEF Polled
<1> HIDE DEF A, B, P
<1>5. /\ H \in Seq(Items) /\ m \in Nat
      /\ \A i \in 1..m : H[i].kind \in {"irc", "accept"}
  <2>1. Len(A) \in Nat /\ Len(B) \in Nat /\ m = Len(A) + Len(B) /\ H \in Seq(Items)
    BY <1>1, <1>2
  <2>2. \A i \in 1..m : H[i] = IF i <= Len(A) THEN A[i] ELSE B[i - Len(A)]
    BY <1>1, <1>2, <2>1, ConcatProperties
  <2>3. ASSUME NEW i \in 1..m PROVE H[i].kind \in {"irc", "accept"}
    <3>1. CASE i <= Len(A)
      BY <1>1, <2>1, <2>2, <3>1
    <3>2. CASE i > Len(A)
      <4>1. i - Len(A) \in 1..Len(B)
        BY <2>1, <3>2
      <4> QED BY <1>2, <2>1, <2>2, <3>2, <4>1
    <3> QED BY <2>1, <3>1, <3>2
  <2> QED BY <2>1, <2>3
<1>6. C \in Seq(Items) /\ Len(C) = n /\ n \in Nat
  BY PolledClientsAre DEF LoopInv, TypeOK, ClientTypeOK
<1> HIDE DEF H, C, m, n
<1>7. /\ P \in Seq(Items) /\ Len(P) = m + n + 1 /\ P[m + n + 1] = Maintain
      /\ \A i \in 1..m : P[i] = H[i]
      /\ \A i \in 1..n : P[m + i] = C[i]
  <2>1. /\ H \o C \in Seq(Items) /\ Len(H \o C) = m + n
        /\ \A i \in 1..(m + n) : (H \o C)[i] = IF i <= m THEN H[i] ELSE C[i - m]
    <3>1. Len(H) = m /\ Len(C) = n
      BY <1>6 DEF m
    <3>2. /\ H \o C \in Seq(Items) /\ Len(H \o C) = Len(H) + Len(C)
          /\ \A i \in 1..(Len(H) + Len(C)) :
               (H \o C)[i] = IF i <= Len(H) THEN H[i] ELSE C[i - Len(H)]
      BY <1>5, <1>6, ConcatProperties, Zenon
    <3> QED BY <3>1, <3>2, Zenon
  <2> DEFINE Q == H \o C
  <2> HIDE DEF Q
  <2>2. /\ P \in Seq(Items) /\ Len(P) = Len(Q) + 1 /\ P[Len(Q) + 1] = Maintain
        /\ \A i \in 1..Len(Q) : P[i] = Q[i]
    BY <1>3, <1>4, <2>1 DEF Q
  <2>3. \A i \in 1..m : i \in 1..(m + n) /\ i <= m
    BY <1>5, <1>6
  <2>4. Len(Q) = m + n /\ \A i \in 1..(m + n) : Q[i] = IF i <= m THEN H[i] ELSE C[i - m]
    BY <2>1 DEF Q
  <2>5. \A i \in 1..m : P[i] = H[i]
    BY <2>2, <2>3, <2>4
  <2>6. \A i \in 1..n : P[m + i] = C[i]
    <3>1. ASSUME NEW i \in 1..n PROVE P[m + i] = C[i]
      <4> DEFINE k == m + i
      <4>1. k \in 1..(m + n) /\ ~(k <= m) /\ k - m = i
        BY <1>5, <1>6
      <4> HIDE DEF k
      <4>2. P[k] = Q[k] /\ Q[k] = C[k - m]
        BY <2>2, <2>4, <4>1
      <4> QED BY <4>1, <4>2 DEF k
    <3> QED BY <3>1
  <2> QED BY <2>2, <2>4, <2>5, <2>6
<1>8. ASSUME NEW i \in 1..(m + n + 1), P[i].kind = "client"
      PROVE  i - m \in 1..n /\ P[i] = C[i - m]
  <2>1. i > m
    <3>1. ~(i \in 1..m)
      BY <1>5, <1>7, <1>8
    <3> QED BY <1>5, <1>6, <3>1
  <2>2. i # m + n + 1
    BY <1>3, <1>7, <1>8
  <2>3. i - m \in 1..n /\ m + (i - m) = i
    BY <1>5, <1>6, <2>1, <2>2
  <2> QED BY <1>7, <2>3
<1>9. \A j \in 1..n : /\ C[j].fd = table[j] /\ table[j] \in Fds /\ desc[table[j]] \in Clients
                      /\ C[j].conn = desc[table[j]]
  BY PolledClientsAre DEF C, n
<1>10. \A j, k \in 1..n : table[j] = table[k] => j = k
  BY DEF LoopInv, TableFits, IsInjective, TypeOK, ClientTypeOK, n
<1>11. PassEnds'
  <2>1. P[Len(P)].kind = "maintain"
    BY <1>3, <1>7
  <2> QED BY <2>1 DEF PassEnds, P
<1>12. DOMAIN P = 1..(m + n + 1)
  BY <1>5, <1>6, <1>7
<1>13. SnapshotHolds'
  <2>1. ASSUME NEW i \in DOMAIN P, P[i].kind = "client"
        PROVE  P[i].fd \in Fds /\ P[i].conn \in Clients /\ desc[P[i].fd] = P[i].conn
    BY <1>8, <1>9, <1>12, <2>1
  <2>2. ASSUME NEW i \in DOMAIN P, NEW j \in DOMAIN P, P[i].kind = "client",
               P[j].kind = "client", P[i].fd = P[j].fd
        PROVE  i = j
    <3>1. i - m \in 1..n /\ j - m \in 1..n /\ table[i - m] = table[j - m]
      BY <1>8, <1>9, <1>12, <2>2
    <3>2. i - m = j - m
      BY <1>10, <3>1
    <3> QED BY <1>5, <1>6, <1>12, <3>2
  <2> QED BY <2>1, <2>2 DEF SnapshotHolds, P
<1>14. P # <<>>
  <2>1. Len(P) # 0
    BY <1>5, <1>6, <1>7
  <2> QED BY <2>1
<1> QED BY <1>7, <1>11, <1>13, <1>14 DEF P

(* A pass goes on, ends its item, or a new one begins.                      *)
TodoMoves ==
    \/ todo' = todo
    \/ todo # <<>> /\ todo' = Tail(todo)
    \/ todo' = Append(Polled, Maintain) /\ desc' = desc
    \/ todo' = <<Maintain>>

(* Every step moves the loop in one of these ways.                          *)
LEMMA TodoStep ==
    ASSUME [Next]_vars
    PROVE  TodoMoves
<1>1. CASE PollReady
  BY <1>1 DEF PollReady, clientVars, TodoMoves
<1>2. CASE PollTimeout
  BY <1>2 DEF PollTimeout, TodoMoves
<1>3. CASE ServeIrc
  BY <1>3 DEF ServeIrc, Serving, Served, TodoMoves
<1>4. CASE ServeAccept \/ ServeClient \/ ServeMaintain
  BY <1>4 DEF ServeAccept, ServeClient, ServeMaintain, Serving, Served, TodoMoves
<1>5. CASE Shutdown
  BY <1>5 DEF Shutdown, TodoMoves
<1>6. CASE \E s \in Speakers : SayToClients(s) \/ SayToIrc(s)
  BY <1>6 DEF SayToClients, SayToIrc, TodoMoves
<1>7. CASE Server \/ Signal
  BY <1>7 DEF Server, Signal, loopVars, TodoMoves
<1>8. CASE \E c \in Clients : Programs(c)
  BY <1>8 DEF Programs, loopVars, TodoMoves
<1>9. CASE UNCHANGED vars
  BY <1>9 DEF vars, loopVars, TodoMoves
<1> QED BY <1>1, <1>2, <1>3, <1>4, <1>5, <1>6, <1>7, <1>8, <1>9 DEF Next, Loop

(* The clients of the snapshot stay where they were polled until they are   *)
(* served.                                                                  *)
LEMMA SnapshotKept ==
    ASSUME LoopInv, ClientMoves, TodoMoves
    PROVE  todo' \in Seq(Items) /\ PassEnds' /\ SnapshotHolds'
<1> DEFINE Leaving == \E c \in Clients, f \in Fds : Departs(c, f) /\ Served1(f)
           n == Len(todo)
<1>0. /\ todo \in Seq(Items) /\ PassEnds /\ SnapshotHolds
      /\ n \in Nat /\ DOMAIN todo = 1..n
  BY DEF LoopInv, TypeOK, Items
<1>1. \A i \in 1..n : todo[i].kind = "client" =>
        todo[i].fd \in Fds /\ todo[i].conn \in Clients /\ desc[todo[i].fd] = todo[i].conn
  BY <1>0 DEF SnapshotHolds
<1>2. \A i, j \in 1..n :
        todo[i].kind = "client" /\ todo[j].kind = "client" /\ todo[i].fd = todo[j].fd => i = j
  BY <1>0 DEF SnapshotHolds
<1>3. Nobody \notin Clients /\ IrcPeer \notin Clients
  BY ClientAssumption DEF Nobody, IrcPeer
<1>4. desc \in [Fds -> Clients \cup {Nobody, IrcPeer}]
  BY DEF LoopInv, TypeOK, ClientTypeOK
<1>5. ASSUME NEW i \in 1..n, todo[i].kind = "client", Leaving => i # 1
      PROVE  desc'[todo[i].fd] = todo[i].conn
  <2> DEFINE f == todo[i].fd
  <2>1. f \in Fds /\ desc[f] = todo[i].conn /\ desc[f] \in Clients
    BY <1>1, <1>5
  <2>2. CASE NobodyMoves \/ \E c \in Clients : TurnedAway(c) \/ Queues(c)
    BY <2>1, <2>2 DEF NobodyMoves, TurnedAway, Queues
  <2>3. CASE LinkCloses
    <3>1. f # irc.fd
      BY <1>3, <2>1 DEF LoopInv, TableFits
    <3> QED BY <1>4, <2>1, <2>3, <3>1 DEF LinkCloses
  <2>4. CASE LinkOpens \/ \E c \in Clients : Joins(c)
    <3>1. f # NewFd
      BY <1>3, <2>1, NewFdIsFree DEF LoopInv
    <3> QED BY <1>4, <2>1, <2>4, <3>1 DEF LinkOpens, Joins
  <2>5. CASE AllClosed
    <3>1. n = 0
      BY <2>5 DEF AllClosed
    <3> QED BY <3>1
  <2>6. CASE Leaving
    <3>1. PICK c \in Clients, g \in Fds : Departs(c, g) /\ Served1(g)
      BY <2>6
    <3>2. Head(todo) = todo[1] /\ 1 \in 1..n
      BY <1>0
    <3>3. todo[1].kind = "client" /\ todo[1].fd = g
      BY <3>1, <3>2 DEF Served1, Serving
    <3>4. f # g
      BY <1>2, <1>5, <2>6, <3>2, <3>3
    <3> QED BY <1>4, <2>1, <3>1, <3>4 DEF Departs
  <2> QED BY <2>2, <2>3, <2>4, <2>5, <2>6 DEF ClientMoves
<1>6. CASE todo # <<>> /\ todo' = Tail(todo)
  <2>1. /\ todo' \in Seq(Items) /\ n \in Nat \ {0} /\ Len(todo') = n - 1
        /\ DOMAIN todo' = 1..(n - 1)
        /\ \A i \in 1..(n - 1) : todo'[i] = todo[i + 1]
    BY <1>0, <1>6
  <2>2. \A i \in 1..(n - 1) : i + 1 \in 1..n /\ i + 1 # 1
    BY <2>1
  <2>3. PassEnds'
    <3>1. ASSUME todo' # <<>> PROVE todo'[Len(todo')].kind = "maintain"
      <4>1. n - 1 \in 1..(n - 1) /\ (n - 1) + 1 = n
        BY <2>1, <3>1
      <4>2. todo'[n - 1] = todo[n]
        BY <2>1, <4>1
      <4> QED BY <1>0, <1>6, <2>1, <4>2 DEF PassEnds
    <3> QED BY <3>1 DEF PassEnds
  <2>4. ASSUME NEW i \in 1..(n - 1), todo'[i].kind = "client"
        PROVE  todo'[i].fd \in Fds /\ todo'[i].conn \in Clients /\ desc'[todo'[i].fd] = todo'[i].conn
    BY <1>1, <1>5, <2>1, <2>2, <2>4
  <2>5. ASSUME NEW i \in 1..(n - 1), NEW j \in 1..(n - 1), todo'[i].kind = "client",
               todo'[j].kind = "client", todo'[i].fd = todo'[j].fd
        PROVE  i = j
    <3>1. i + 1 = j + 1
      BY <1>2, <2>1, <2>2, <2>5
    <3> QED BY <3>1
  <2> QED BY <2>1, <2>3, <2>4, <2>5 DEF SnapshotHolds
<1>7. CASE Leaving
  BY <1>6, <1>7 DEF Served1, Serving
<1>8. CASE todo' = todo /\ ~Leaving
  <2>1. ASSUME NEW i \in 1..n, todo[i].kind = "client"
        PROVE  todo[i].fd \in Fds /\ todo[i].conn \in Clients /\ desc'[todo[i].fd] = todo[i].conn
    BY <1>1, <1>5, <1>8, <2>1
  <2> QED BY <1>0, <1>2, <1>8, <2>1 DEF SnapshotHolds, PassEnds
<1>9. CASE todo' = Append(Polled, Maintain) /\ desc' = desc
  BY <1>9, PolledIs
<1>10. CASE todo' = <<Maintain>>
  <2>1. Maintain \in Items /\ Maintain.kind = "maintain"
    BY ItemIs DEF Maintain, NoFd
  <2> DEFINE x == Maintain
  <2> HIDE DEF x
  <2>2. todo' = <<x>> /\ x \in Items /\ x.kind = "maintain"
    BY <1>10, <2>1 DEF x
  <2>3. todo' \in Seq(Items) /\ Len(todo') = 1 /\ DOMAIN todo' = 1..1 /\ todo'[1] = x
    BY <2>2
  <2> QED BY <2>2, <2>3 DEF SnapshotHolds, PassEnds
<1> QED BY <1>6, <1>7, <1>8, <1>9, <1>10 DEF TodoMoves

-----------------------------------------------------------------------------
(* What a step can do to the link.  Only irc_maintain may end a pass, and   *)
(* lines are in hand only while the item of the link is served.             *)

LinkRests ==
    /\ UNCHANGED <<linkVars, running>>
    /\ todo' = todo \/ todo' # <<>> \/ ~LinkUp
    /\ todo' = todo \/ unread = <<>>

LinkReads ==
    /\ ~IrcEof /\ IrcRead /\ running' = running
    /\ todo' # <<>>
    /\ Head(todo').kind = "irc" \/ unread' = <<>>

ServerMoves == (SrvAnswers \/ SrvSays \/ SrvBreaks) /\ UNCHANGED <<todo, running>>

LinkMoves ==
    \/ LinkRests
    \/ TimePasses /\ unread = <<>> /\ todo = <<>> /\ todo' # <<>> /\ running' = running
    \/ LinkReads
    \/ IrcLost /\ running' = running
    \/ LinkUp /\ KeepsLink /\ unread = <<>> /\ running' = running
    \/ LinkUp /\ DropsLink /\ running' = running
    \/ ~LinkUp /\ ConnectFails /\ unread = <<>> /\ running' = running
    \/ ~LinkUp /\ IrcConnect(NewFd) /\ running' = running
    \/ IrcDisconnect /\ running' = FALSE
    \/ ServerMoves

(* Every step moves the link in one of these ways.                          *)
LEMMA LinkStep ==
    ASSUME LoopInv, [Next]_vars
    PROVE  LinkMoves
<1>0. todo \in Seq(Items) /\ PassEnds /\ LinesInHand
  BY DEF LoopInv, TypeOK, Items
<1>1. ASSUME todo # <<>>, Head(todo).kind # "maintain" PROVE Tail(todo) # <<>>
  <2>1. Len(todo) # 1
    BY <1>0, <1>1 DEF PassEnds
  <2>2. Len(todo) \in Nat \ {0, 1} /\ Len(Tail(todo)) = Len(todo) - 1
    BY <1>0, <1>1, <2>1
  <2> DEFINE q == Tail(todo)
  <2>3. Len(q) # 0
    BY <2>2
  <2> HIDE DEF q
  <2>4. q # <<>>
    BY <2>3
  <2> QED BY <2>4 DEF q
<1>2. ASSUME todo # <<>>, Head(todo).kind # "irc" PROVE unread = <<>>
  BY <1>0, <1>2 DEF LinesInHand
<1>3. todo = <<>> => unread = <<>>
  BY <1>0 DEF LinesInHand
<1>4. CASE PollReady
  <2>1. todo' # <<>>
    BY <1>4, PolledIs DEF PollReady, clientVars
  <2> QED BY <1>3, <1>4, <2>1, PollPasses DEF PollReady, Polling, LinkMoves
<1>5. CASE PollTimeout
  <2>1. <<Maintain>> # <<>>
    OBVIOUS
  <2> QED BY <1>3, <1>5, <2>1, PollPasses DEF PollTimeout, Polling, LinkMoves
<1>6. CASE ServeIrc
  <2>1. todo # <<>> /\ Head(todo).kind = "irc" /\ running' = running
    BY <1>6 DEF ServeIrc, Serving, OtherLoop
  <2>2. Tail(todo) # <<>>
    BY <1>1, <2>1
  <2>3. CASE ~IrcEof
    <3>1. IrcRead /\ (IF unread' # <<>> THEN todo' = todo ELSE todo' = Tail(todo))
      BY <1>6, <2>3 DEF ServeIrc, More, Served
    <3> QED BY <2>1, <2>2, <2>3, <3>1 DEF LinkMoves, LinkReads
  <2>4. CASE IrcEof
    BY <1>6, <2>1, <2>4 DEF ServeIrc, LinkMoves
  <2> QED BY <2>3, <2>4
<1>7. CASE ServeAccept \/ ServeClient
  <2>1. /\ todo # <<>> /\ Head(todo).kind \notin {"irc", "maintain"} /\ todo' = Tail(todo)
        /\ UNCHANGED <<linkVars, running>>
    BY <1>7 DEF ServeAccept, ServeClient, Serving, Served, OtherLoop
  <2> QED BY <1>1, <1>2, <2>1 DEF LinkMoves, LinkRests
<1>8. CASE ServeMaintain
  <2>1. unread = <<>> /\ running' = running
    BY <1>2, <1>8 DEF ServeMaintain, Serving, OtherLoop
  <2> QED BY <1>8, <2>1 DEF ServeMaintain, LinkMoves, LinkRests
<1>9. CASE Shutdown
  BY <1>9 DEF Shutdown, LinkMoves
<1>10. CASE \E s \in Speakers : SayToClients(s) \/ SayToIrc(s)
  BY <1>10 DEF SayToClients, SayToIrc, LinkMoves, LinkRests
<1>11. CASE Server
  BY <1>11 DEF Server, loopVars, LinkMoves, ServerMoves
<1>12. CASE Signal \/ \E c \in Clients : Programs(c)
  BY <1>12 DEF Signal, Programs, loopVars, LinkMoves, LinkRests
<1>13. CASE UNCHANGED vars
  BY <1>13 DEF vars, loopVars, LinkMoves, LinkRests
<1> QED BY <1>4, <1>5, <1>6, <1>7, <1>8, <1>9, <1>10, <1>11, <1>12, <1>13 DEF Next, Loop

(* Decrypted lines are handled before irc_poll returns.                     *)
LEMMA LinesKept ==
    ASSUME LoopInv, LinkMoves
    PROVE  LinesInHand'
<1>0. LinesInHand
  BY DEF LoopInv
<1>1. CASE LinkRests
  BY <1>0, <1>1 DEF LinkRests, linkVars, LinesInHand
<1>2. CASE TimePasses /\ unread = <<>>
  BY <1>2 DEF TimePasses, LinkTick, LinesInHand
<1>3. CASE LinkReads
  BY <1>3 DEF LinkReads, LinesInHand
<1>4. CASE IrcLost \/ DropsLink \/ IrcConnect(NewFd) \/ IrcDisconnect
  BY <1>4 DEF IrcLost, DropsLink, IrcConnect, IrcDisconnect, LinesInHand
<1>5. CASE (KeepsLink \/ ConnectFails) /\ unread = <<>>
  BY <1>5 DEF KeepsLink, ConnectFails, LinesInHand
<1>6. CASE ServerMoves
  BY <1>0, <1>6 DEF ServerMoves, SrvAnswers, SrvSays, SrvBreaks, LinesInHand
<1> QED BY <1>1, <1>2, <1>3, <1>4, <1>5, <1>6 DEF LinkMoves

-----------------------------------------------------------------------------
Ircs == [fd : Nat, registered : BOOLEAN, pinged : BOOLEAN, idle : Nat,
         backoff : 0..MaxDelay, wait : 0..MaxDelay]
Servers == [up : BOOLEAN, mute : BOOLEAN, wire : Seq(Seq(Lines)),
            owes : {"nothing", "welcome", "pong"}]

(* The back-off stays within its cap, never falls below the first delay,    *)
(* and doubles until it reaches the cap.                                    *)
LEMMA DoubledIs ==
    ASSUME irc \in Ircs, NEW first \in Nat, LostDelay <= first, first <= MaxDelay,
           irc.backoff = 0 \/ irc.backoff >= LostDelay
    PROVE  /\ Doubled(first) \in 0..MaxDelay /\ Doubled(first) >= LostDelay
           /\ \/ Doubled(first) = MaxDelay
              \/ irc.backoff = 0 /\ Doubled(first) = first
              \/ irc.backoff > 0 /\ Doubled(first) = 2 * irc.backoff
<1> DEFINE b == irc.backoff
<1>1. b \in 0..MaxDelay
  BY DEF Ircs
<1>2. Doubled(first) = LET d == IF b = 0 THEN first ELSE b * 2 IN IF d > MaxDelay THEN MaxDelay ELSE d
  BY DEF Doubled
<1> HIDE DEF b
<1>3. b = 0 \/ b >= LostDelay
  BY DEF b
<1>4. CASE b = 0
  BY <1>1, <1>2, <1>4, LinkAssumption DEF b
<1>5. CASE b # 0
  BY <1>1, <1>2, <1>3, <1>5, LinkAssumption DEF b
<1> QED BY <1>4, <1>5

(* The link after each of its steps.                                        *)
LEMMA IrcTyped ==
    ASSUME irc \in Ircs, irc.backoff = 0 \/ irc.backoff >= LostDelay, NewFd \in Nat, LinkMoves
    PROVE  irc' \in Ircs
<1> USE LinkAssumption
<1>1. /\ 0 \in Nat /\ NoFd \in Nat /\ TRUE \in BOOLEAN /\ FALSE \in BOOLEAN
      /\ 0 \in 0..MaxDelay
  BY DEF NoFd
<1>2. CASE LinkRests
  BY <1>2 DEF LinkRests, linkVars
<1>3. CASE TimePasses
  <2>0. PICK d \in 0..MaxPass : LinkTick(d)
    BY <1>3 DEF TimePasses
  <2> DEFINE i == IF Counted THEN irc.idle + d ELSE irc.idle
             w == IF irc.wait > d THEN irc.wait - d ELSE 0
  <2>1. i \in Nat /\ w \in 0..MaxDelay
    <3>1. irc.idle \in Nat /\ irc.wait \in 0..MaxDelay /\ d \in Nat
      BY DEF Ircs
    <3> QED BY <3>1
  <2>2. irc' = [irc EXCEPT !.idle = i, !.wait = w]
    BY <2>0 DEF LinkTick
  <2> HIDE DEF i, w
  <2> QED BY <2>1, <2>2, Zenon DEF Ircs
<1>4. CASE LinkReads
  <2>1. PICK line : HandleLine(line)
    BY <1>4 DEF LinkReads, IrcRead
  <2> DEFINE r == irc.registered \/ line = "001"
             h == [irc EXCEPT !.idle = 0, !.pinged = FALSE]
  <2>2. r \in BOOLEAN
    BY Zenon
  <2>4. h \in Ircs
    BY <1>1, Zenon DEF Ircs
  <2>5. h.registered = irc.registered
    BY DEF Ircs
  <2>6. irc' = [h EXCEPT !.registered = r]
    BY <2>1, <2>5 DEF HandleLine, Heard
  <2> HIDE DEF r, h
  <2> QED BY <2>2, <2>4, <2>6, Zenon DEF Ircs
<1>5. CASE IrcLost \/ DropsLink
  <2> DEFINE d == Doubled(LostDelay)
  <2>1. d \in 0..MaxDelay /\ LostDelay \in 0..MaxDelay
    <3>1. LostDelay \in Nat /\ LostDelay <= LostDelay /\ LostDelay <= MaxDelay
      OBVIOUS
    <3> QED BY <3>1, DoubledIs
  <2>2. PICK b \in 0..MaxDelay : irc' = [irc EXCEPT !.fd = NoFd, !.backoff = b, !.wait = b]
    BY <1>5, <2>1 DEF IrcLost, DropsLink
  <2> QED BY <1>1, <2>2, Zenon DEF Ircs
<1>6. CASE KeepsLink
  <2> DEFINE b == IF irc.registered THEN 0 ELSE irc.backoff
             g == irc.pinged \/ (irc.idle > PingAfter /\ ~irc.pinged)
  <2>1. b \in 0..MaxDelay
    BY DEF Ircs
  <2>2. g \in BOOLEAN
    BY Zenon
  <2>3. irc' = [irc EXCEPT !.backoff = b, !.pinged = g]
    BY <1>6 DEF KeepsLink
  <2> HIDE DEF b, g
  <2> QED BY <2>1, <2>2, <2>3, Zenon DEF Ircs
<1>7. CASE ConnectFails
  <2> DEFINE d == Doubled(FailDelay)
  <2>1. d \in 0..MaxDelay
    <3>1. FailDelay \in Nat /\ LostDelay <= FailDelay /\ FailDelay <= MaxDelay
      OBVIOUS
    <3> QED BY <3>1, DoubledIs
  <2>2. irc' = [irc EXCEPT !.backoff = d, !.wait = d]
    BY <1>7 DEF ConnectFails
  <2> HIDE DEF d
  <2> QED BY <2>1, <2>2, Zenon DEF Ircs
<1>8. CASE IrcConnect(NewFd)
  <2>1. irc' = [irc EXCEPT !.fd = NewFd, !.registered = FALSE, !.pinged = FALSE, !.idle = 0]
    BY <1>8 DEF IrcConnect, Opened
  <2> QED BY <1>1, <2>1, Zenon DEF Ircs
<1>9. CASE IrcDisconnect
  <2>1. irc' = [irc EXCEPT !.fd = NoFd]
    BY <1>9 DEF IrcDisconnect
  <2> QED BY <1>1, <2>1, Zenon DEF Ircs
<1>10. CASE ServerMoves
  BY <1>10 DEF ServerMoves, SrvAnswers, SrvSays, SrvBreaks
<1> QED BY <1>2, <1>3, <1>4, <1>5, <1>6, <1>7, <1>8, <1>9, <1>10 DEF LinkMoves

(* What the server has sent is a list of records with a line or more.       *)
Sendings == {w \in Seq(Seq(Lines)) : \A i \in 1..Len(w) : w[i] # <<>>}

(* A record is added.                                                       *)
LEMMA SendsMore ==
    ASSUME NEW w \in Sendings, NEW rec \in Seq(Lines), rec # <<>>
    PROVE  Append(w, rec) \in Sendings
<1>1. w \in Seq(Seq(Lines)) /\ Len(w) \in Nat
  BY DEF Sendings
<1>2. /\ Append(w, rec) \in Seq(Seq(Lines)) /\ Len(Append(w, rec)) = Len(w) + 1
      /\ \A i \in 1..Len(w) : Append(w, rec)[i] = w[i]
      /\ Append(w, rec)[Len(w) + 1] = rec
  BY <1>1, AppendProperties
<1>3. ASSUME NEW i \in 1..(Len(w) + 1) PROVE Append(w, rec)[i] # <<>>
  <2>1. CASE i = Len(w) + 1
    BY <1>2, <2>1
  <2>2. CASE i # Len(w) + 1
    <3>1. i \in 1..Len(w)
      BY <1>1, <2>2
    <3> QED BY <1>2, <3>1 DEF Sendings
  <2> QED BY <2>1, <2>2
<1> QED BY <1>2, <1>3 DEF Sendings

(* A record is read.                                                        *)
LEMMA SendsLess ==
    ASSUME NEW w \in Sendings, w # <<>>
    PROVE  Tail(w) \in Sendings /\ Head(w) \in Seq(Lines) /\ Head(w) # <<>>
<1> DEFINE t == Tail(w)
<1>1. w \in Seq(Seq(Lines)) /\ Len(w) \in Nat \ {0} /\ Head(w) = w[1] /\ w[1] \in Seq(Lines)
  BY DEF Sendings
<1>2. /\ t \in Seq(Seq(Lines)) /\ Len(t) = Len(w) - 1
      /\ \A i \in 1..Len(t) : t[i] = w[i + 1]
  BY <1>1
<1> HIDE DEF t
<1>3. ASSUME NEW i \in 1..Len(t) PROVE t[i] # <<>>
  <2>1. i + 1 \in 1..Len(w)
    BY <1>1, <1>2
  <2> QED BY <1>2, <2>1 DEF Sendings
<1>4. w[1] # <<>>
  BY <1>1 DEF Sendings
<1> QED BY <1>1, <1>2, <1>3, <1>4 DEF Sendings, t

(* The server and the TLS buffer after each step of the link.               *)
LEMMA ServerTyped ==
    ASSUME server \in Servers, server.wire \in Sendings, unread \in Seq(Lines), LinkMoves
    PROVE  server' \in Servers /\ server'.wire \in Sendings /\ unread' \in Seq(Lines)
<1>0. <<>> \in Sendings /\ <<>> \in Seq(Lines) /\ <<>> \in Seq(Seq(Lines))
  BY DEF Sendings
<1>a. \A w \in Sendings : w \in Seq(Seq(Lines))
  BY DEF Sendings
<1>b. ASSUME NEW s \in Servers, NEW w \in Sendings, NEW o \in {"nothing", "welcome", "pong"}
      PROVE  /\ [s EXCEPT !.wire = w] \in Servers /\ [s EXCEPT !.owes = o] \in Servers
             /\ [s EXCEPT !.wire = w, !.owes = o] \in Servers
  BY <1>a, Zenon DEF Servers
<1>c. ASSUME NEW s \in Servers, NEW w, NEW o
      PROVE  /\ [s EXCEPT !.wire = w].wire = w /\ [s EXCEPT !.owes = o].wire = s.wire
             /\ [s EXCEPT !.wire = w, !.owes = o].wire = w
  BY DEF Servers
<1>d. Down \in Servers /\ Down.wire = <<>>
  <2>1. Down.wire = <<>>
    BY DEF Down
  <2> QED BY <1>0, <2>1, Zenon DEF Down, Servers
<1>1. CASE LinkRests \/ TimePasses \/ ConnectFails
  BY <1>1 DEF LinkRests, linkVars, TimePasses, LinkTick, ConnectFails
<1>2. CASE LinkReads
  <2> DEFINE rec == IF unread # <<>> THEN unread ELSE Head(server.wire)
             line == Head(rec)
             o == IF line = "433" /\ server.up THEN "welcome" ELSE server.owes
             s == [server EXCEPT !.owes = o]
  <2>1. rec \in Seq(Lines) /\ rec # <<>>
    BY <1>2, SendsLess DEF LinkReads, IrcEof
  <2>2. unread' = Tail(rec) /\ server' = IF unread # <<>> THEN s ELSE [s EXCEPT !.wire = Tail(@)]
    BY <1>2 DEF LinkReads, IrcRead, Answered
  <2>3. unread' \in Seq(Lines)
    <3> HIDE DEF rec
    <3> QED BY <2>1, <2>2
  <2>4. o \in {"nothing", "welcome", "pong"}
    BY DEF Servers
  <2> HIDE DEF o
  <2>5. s \in Servers /\ s.wire = server.wire
    BY <1>b, <1>c, <2>4, Zenon
  <2> HIDE DEF s
  <2>6. CASE unread # <<>>
    BY <2>2, <2>3, <2>5, <2>6
  <2>7. CASE unread = <<>>
    <3> DEFINE w == Tail(server.wire)
    <3>1. server.wire # <<>>
      BY <1>2, <2>7 DEF LinkReads, IrcEof
    <3>2. w \in Sendings
      BY <3>1, SendsLess
    <3>3. server' = [s EXCEPT !.wire = w]
      BY <2>2, <2>5, <2>7
    <3> HIDE DEF w
    <3>4. server' \in Servers /\ server'.wire = w
      BY <1>b, <1>c, <2>5, <3>2, <3>3, Zenon
    <3> QED BY <2>3, <3>2, <3>4
  <2> QED BY <2>6, <2>7
<1>3. CASE IrcLost \/ DropsLink \/ IrcDisconnect
  BY <1>0, <1>3, <1>d DEF IrcLost, DropsLink, IrcDisconnect
<1>4. CASE KeepsLink
  <2> DEFINE ping == irc.idle > PingAfter /\ ~irc.pinged
             o == IF ping /\ server.owes = "nothing" THEN "pong" ELSE server.owes
  <2>1. server' = [server EXCEPT !.owes = o] /\ unread' = unread
    BY <1>4 DEF KeepsLink
  <2>2. o \in {"nothing", "welcome", "pong"}
    BY DEF Servers
  <2> HIDE DEF o
  <2>3. server' \in Servers /\ server'.wire = server.wire
    BY <1>b, <1>c, <2>1, <2>2, Zenon
  <2> QED BY <2>1, <2>3
<1>5. CASE IrcConnect(NewFd)
  <2>1. server' = [Down EXCEPT !.up = TRUE, !.owes = "welcome"] /\ unread' = <<>>
    BY <1>5 DEF IrcConnect
  <2>2. server' \in Servers
    BY <1>d, <2>1, Zenon DEF Servers
  <2>3. server'.wire = <<>>
    BY <1>d, <2>1 DEF Servers
  <2> QED BY <1>0, <2>1, <2>2, <2>3
<1>6. CASE ServerMoves
  <2>0. unread' = unread
    BY <1>6 DEF ServerMoves, SrvAnswers, SrvSays, SrvBreaks
  <2>1. ASSUME NEW line \in Lines, Answers(line) PROVE server' \in Servers /\ server'.wire \in Sendings
    <3> DEFINE w == Append(server.wire, <<line>>)
    <3>1. w \in Sendings
      <4>1. <<line>> \in Seq(Lines) /\ <<line>> # <<>>
        OBVIOUS
      <4> QED BY <4>1, SendsMore
    <3>2. server' = [server EXCEPT !.wire = w, !.owes = "nothing"]
      BY <2>1 DEF Answers
    <3> HIDE DEF w
    <3>3. "nothing" \in {"nothing", "welcome", "pong"}
      OBVIOUS
    <3>4. server' \in Servers
      BY <1>b, <3>1, <3>2, <3>3, Zenon
    <3>5. server'.wire = w
      BY <3>2 DEF Servers
    <3> QED BY <3>1, <3>4, <3>5
  <2>2. CASE SrvAnswers
    <3>1. "001" \in Lines /\ "433" \in Lines /\ "PONG" \in Lines
      BY DEF Lines
    <3> QED BY <2>0, <2>1, <2>2, <3>1 DEF SrvAnswers
  <2>3. CASE SrvSays
    <3>1. PICK rec \in {<<"PRIVMSG">>, <<"PING", "PRIVMSG">>} :
            server' = [server EXCEPT !.wire = Append(@, rec)]
      BY <2>3 DEF SrvSays
    <3>2. rec \in Seq(Lines) /\ rec # <<>>
      <4>1. <<"PRIVMSG">> \in Seq(Lines) /\ <<"PING", "PRIVMSG">> \in Seq(Lines)
        BY DEF Lines
      <4>2. <<"PRIVMSG">> # <<>> /\ <<"PING", "PRIVMSG">> # <<>>
        OBVIOUS
      <4> QED BY <4>1, <4>2, Zenon
    <3> DEFINE w == Append(server.wire, rec)
    <3>3. w \in Sendings
      BY <3>2, SendsMore
    <3>4. server' = [server EXCEPT !.wire = w]
      BY <3>1
    <3> HIDE DEF w
    <3>5. server' \in Servers /\ server'.wire = w
      BY <1>b, <1>c, <3>3, <3>4, Zenon
    <3> QED BY <2>0, <3>3, <3>5
  <2>4. CASE SrvBreaks
    <3>1. server' = [server EXCEPT !.up = FALSE] \/ server' = [server EXCEPT !.mute = TRUE]
      BY <2>4 DEF SrvBreaks
    <3>2. server' \in Servers
      <4>1. [server EXCEPT !.up = FALSE] \in Servers /\ [server EXCEPT !.mute = TRUE] \in Servers
        BY Zenon DEF Servers
      <4> QED BY <3>1, <4>1, Zenon
    <3>3. server'.wire = server.wire
      <4>1. CASE server' = [server EXCEPT !.up = FALSE]
        BY <4>1 DEF Servers
      <4>2. CASE server' = [server EXCEPT !.mute = TRUE]
        BY <4>2 DEF Servers
      <4> QED BY <3>1, <4>1, <4>2
    <3> QED BY <2>0, <3>2, <3>3
  <2> QED BY <1>6, <2>2, <2>3, <2>4 DEF ServerMoves
<1> QED BY <1>1, <1>2, <1>3, <1>4, <1>5, <1>6 DEF LinkMoves

(* A connection that ends doubles the delay.                                *)
LEMMA DelayGrows ==
    ASSUME irc \in Ircs, floor \in Nat, BackoffGrows, Ended,
           NEW first \in Nat, LostDelay <= first, first <= MaxDelay
    PROVE  /\ floor' \in Nat
           /\ Doubled(first) \in 0..MaxDelay /\ Doubled(first) >= LostDelay
           /\ Doubled(first) >= MaxDelay \/ Doubled(first) >= floor'
<1> USE LinkAssumption
<1> DEFINE d == Doubled(first)
           b == irc.backoff
           e == floor'
<1>1. /\ d \in 0..MaxDelay /\ d >= LostDelay
      /\ \/ d = MaxDelay
         \/ b = 0 /\ d = first
         \/ b > 0 /\ d = 2 * b
  BY DoubledIs DEF BackoffGrows
<1>2. b \in 0..MaxDelay /\ (b >= MaxDelay \/ b >= floor)
  BY DEF Ircs, BackoffGrows
<1>3. e = IF floor = 0 THEN LostDelay ELSE 2 * floor
  BY DEF Ended
<1> HIDE DEF d, b, e
<1>4. e \in Nat /\ (d >= MaxDelay \/ d >= e)
  <2>1. CASE floor = 0
    BY <1>1, <1>3, <2>1
  <2>2. CASE floor # 0
    BY <1>1, <1>2, <1>3, <2>2
  <2> QED BY <2>1, <2>2
<1> QED BY <1>1, <1>4 DEF d, e

(* The delay due, the quiet time and the back-off.                          *)
LEMMA BackoffKept ==
    ASSUME LoopInv, LinkMoves, NewFd \in Fds
    PROVE  BackoffGrows' /\ floor' \in Nat /\ quiet' \in 0..MaxDelay
<1> USE LinkAssumption
<1>0. /\ irc \in Ircs /\ floor \in Nat /\ quiet \in 0..MaxDelay /\ BackoffGrows
      /\ irc.backoff \in 0..MaxDelay /\ irc.wait \in 0..MaxDelay
  BY DEF LoopInv, TypeOK, LinkTypeOK, Ircs
<1>1. 0 \in Nat /\ 0 \in 0..MaxDelay
  OBVIOUS
<1>2. ASSUME NEW d \in 0..MaxDelay, d >= LostDelay, irc'.backoff = d, irc'.wait = d,
             d >= MaxDelay \/ d >= floor', floor' \in Nat, quiet' = 0, irc'.fd = NoFd
      PROVE  BackoffGrows' /\ floor' \in Nat /\ quiet' \in 0..MaxDelay
  <2>1. quiet' \in 0..MaxDelay
    BY <1>1, <1>2
  <2>2. quiet' + irc'.wait >= irc'.backoff
    BY <1>2
  <2> QED BY <1>2, <2>1, <2>2 DEF BackoffGrows, LinkUp
<1>3. CASE LinkRests
  BY <1>0, <1>3 DEF LinkRests, linkVars, BackoffGrows, LinkUp
<1>4. CASE TimePasses /\ running' = running
  <2>0. PICK d \in 0..MaxPass : LinkTick(d)
    BY <1>4 DEF TimePasses
  <2>1. /\ irc'.fd = irc.fd /\ irc'.registered = irc.registered /\ irc'.backoff = irc.backoff
        /\ irc'.wait = IF irc.wait > d THEN irc.wait - d ELSE 0
        /\ floor' = floor
        /\ quiet' = IF LinkUp THEN quiet ELSE IF quiet + d < MaxDelay THEN quiet + d ELSE MaxDelay
    BY <1>0, <2>0 DEF LinkTick, Ircs
  <2>2. quiet' \in 0..MaxDelay
    BY <1>0, <2>1
  <2>3. running' /\ ~LinkUp' => quiet' + irc'.wait >= irc'.backoff \/ quiet' >= MaxDelay
    <3>1. SUFFICES ASSUME running, ~LinkUp
                   PROVE  quiet' + irc'.wait >= irc'.backoff \/ quiet' >= MaxDelay
      BY <1>4, <2>1 DEF LinkUp
    <3>2. quiet + irc.wait >= irc.backoff \/ quiet >= MaxDelay
      BY <1>0, <3>1 DEF BackoffGrows
    <3> QED BY <1>0, <2>1, <3>1, <3>2
  <2> QED BY <1>0, <2>1, <2>2, <2>3 DEF BackoffGrows, LinkUp
<1>5. CASE LinkReads
  <2>1. PICK line : HandleLine(line)
    BY <1>5 DEF LinkReads, IrcRead
  <2>2. /\ irc'.fd = irc.fd /\ irc'.backoff = irc.backoff /\ irc'.wait = irc.wait
        /\ irc'.registered = (irc.registered \/ line = "001")
        /\ floor' = (IF line = "001" THEN 0 ELSE floor) /\ quiet' = quiet
        /\ running' = running
    BY <1>0, <1>5, <2>1 DEF HandleLine, Heard, Ircs, LinkReads
  <2>3. floor' \in Nat
    BY <1>0, <1>1, <2>2
  <2>4. CASE line = "001"
    BY <1>0, <2>2, <2>3, <2>4 DEF BackoffGrows, LinkUp
  <2>5. CASE line # "001"
    BY <1>0, <2>2, <2>3, <2>5 DEF BackoffGrows, LinkUp
  <2> QED BY <2>4, <2>5
<1>6. CASE IrcLost
  <2> DEFINE d == Doubled(LostDelay)
  <2>1. LostDelay \in Nat /\ LostDelay <= LostDelay /\ LostDelay <= MaxDelay /\ Ended
    BY <1>6 DEF IrcLost
  <2>2. floor' \in Nat /\ d \in 0..MaxDelay /\ d >= LostDelay /\ (d >= MaxDelay \/ d >= floor')
    BY <1>0, <2>1, DelayGrows
  <2>3. irc'.fd = NoFd /\ irc'.backoff = d /\ irc'.wait = d /\ quiet' = 0
    BY <1>0, <1>6 DEF IrcLost, Ircs, Ended
  <2> HIDE DEF d
  <2> QED BY <1>2, <2>2, <2>3
<1>7. CASE LinkUp /\ KeepsLink /\ running' = running
  <2>1. /\ irc'.fd = irc.fd /\ irc'.registered = irc.registered /\ irc'.wait = irc.wait
        /\ irc'.backoff = (IF irc.registered THEN 0 ELSE irc.backoff)
        /\ floor' = floor /\ quiet' = quiet
    BY <1>0, <1>7 DEF KeepsLink, Ircs
  <2>2. irc.registered => floor = 0
    BY <1>0, <1>7 DEF BackoffGrows
  <2> QED BY <1>0, <1>7, <2>1, <2>2 DEF BackoffGrows, LinkUp
<1>8. CASE LinkUp /\ DropsLink
  <2> DEFINE d == IF irc.registered THEN LostDelay ELSE Doubled(LostDelay)
  <2>1. LostDelay \in Nat /\ LostDelay <= LostDelay /\ LostDelay <= MaxDelay /\ Ended
    BY <1>8 DEF DropsLink
  <2>2. /\ floor' \in Nat /\ Doubled(LostDelay) \in 0..MaxDelay
        /\ Doubled(LostDelay) >= LostDelay
        /\ Doubled(LostDelay) >= MaxDelay \/ Doubled(LostDelay) >= floor'
    BY <1>0, <2>1, DelayGrows
  <2>3. irc.registered => floor' = LostDelay
    BY <1>0, <1>8, <2>1 DEF BackoffGrows, Ended
  <2>4. d \in 0..MaxDelay /\ d >= LostDelay /\ (d >= MaxDelay \/ d >= floor')
    BY <2>1, <2>2, <2>3
  <2>5. irc'.fd = NoFd /\ irc'.backoff = d /\ irc'.wait = d /\ quiet' = 0
    BY <1>0, <1>8 DEF DropsLink, Ircs, Ended
  <2> HIDE DEF d
  <2> QED BY <1>2, <2>2, <2>4, <2>5
<1>9. CASE ~LinkUp /\ ConnectFails
  <2> DEFINE d == Doubled(FailDelay)
  <2>1. FailDelay \in Nat /\ LostDelay <= FailDelay /\ FailDelay <= MaxDelay /\ Ended
    BY <1>9 DEF ConnectFails
  <2>2. floor' \in Nat /\ d \in 0..MaxDelay /\ d >= LostDelay /\ (d >= MaxDelay \/ d >= floor')
    BY <1>0, <2>1, DelayGrows
  <2>3. irc'.fd = NoFd /\ irc'.backoff = d /\ irc'.wait = d /\ quiet' = 0
    BY <1>0, <1>9 DEF ConnectFails, Ircs, LinkUp, Ended
  <2> HIDE DEF d
  <2> QED BY <1>2, <2>2, <2>3
<1>10. CASE IrcConnect(NewFd)
  <2>1. /\ irc'.fd = NewFd /\ irc'.registered = FALSE /\ irc'.backoff = irc.backoff
        /\ floor' = floor /\ quiet' = 0
    BY <1>0, <1>10 DEF IrcConnect, Opened, Ircs
  <2>2. NewFd # NoFd
    BY ClientAssumption DEF NoFd
  <2> QED BY <1>0, <1>1, <2>1, <2>2 DEF BackoffGrows, LinkUp
<1>11. CASE IrcDisconnect /\ running' = FALSE
  <2>1. irc'.fd = NoFd /\ irc'.backoff = irc.backoff /\ floor' = floor /\ quiet' = quiet
    BY <1>0, <1>11 DEF IrcDisconnect, Ircs
  <2> QED BY <1>0, <1>11, <2>1 DEF BackoffGrows, LinkUp
<1>12. CASE ServerMoves
  <2>1. irc' = irc /\ floor' = floor /\ quiet' = quiet /\ running' = running
    BY <1>12 DEF ServerMoves, SrvAnswers, SrvSays, SrvBreaks
  <2> QED BY <1>0, <2>1 DEF BackoffGrows, LinkUp
<1> QED BY <1>3, <1>4, <1>5, <1>6, <1>7, <1>8, <1>9, <1>10, <1>11, <1>12 DEF LinkMoves

(* irc_maintain pings a server that has been silent for PingAfter before    *)
(* the next poll(), and a line received takes the PING back.                *)
LEMMA PingKept ==
    ASSUME LoopInv, LinkMoves, NewFd \in Fds
    PROVE  PingInTime' /\ asked' \in BOOLEAN /\ waited' \in Nat /\ longest' \in Nat
<1> USE LinkAssumption
<1>0. /\ irc \in Ircs /\ irc.idle \in Nat /\ irc.pinged \in BOOLEAN
      /\ asked \in BOOLEAN /\ waited \in Nat /\ longest \in Nat /\ PingInTime
  BY DEF LoopInv, TypeOK, LinkTypeOK, Ircs
<1>1. CASE LinkRests
  BY <1>0, <1>1 DEF LinkRests, linkVars, silence, PingInTime, LinkUp
<1>2. CASE TimePasses /\ todo = <<>> /\ todo' # <<>>
  <2>0. PICK d \in 0..MaxPass : LinkTick(d)
    BY <1>2 DEF TimePasses
  <2>1. /\ irc'.fd = irc.fd /\ irc'.pinged = irc.pinged /\ asked' = asked
        /\ irc'.idle = IF Counted THEN irc.idle + d ELSE irc.idle
        /\ waited' = IF Counted /\ asked THEN waited + d ELSE waited
        /\ longest' = IF d > longest THEN d ELSE longest
    BY <1>0, <2>0 DEF LinkTick, Ircs
  <2>2. LinkUp /\ ~irc.pinged => irc.idle <= PingAfter
    BY <1>0, <1>2 DEF PingInTime
  <2>3. d \in Nat /\ longest' \in Nat /\ longest' >= d /\ longest' >= longest
    BY <1>0, <2>1
  <2>4. waited' \in Nat /\ (~asked' => waited' = 0)
    <3>1. waited' \in Nat
      BY <1>0, <2>1, <2>3
    <3>2. ~asked => waited' = waited
      BY <2>1
    <3> QED BY <1>0, <2>1, <3>1, <3>2 DEF PingInTime
  <2>5. ASSUME LinkUp PROVE irc'.idle <= PingAfter + longest' + waited'
    <3>1. irc.idle <= PingAfter + longest + waited
      BY <1>0, <2>5 DEF PingInTime
    <3>2. CASE ~Counted
      <4>1. irc'.idle = irc.idle /\ waited' = waited
        BY <2>1, <3>2
      <4> QED BY <1>0, <2>3, <3>1, <4>1
    <3>3. CASE Counted /\ asked
      <4>1. irc'.idle = irc.idle + d /\ waited' = waited + d
        BY <2>1, <3>3
      <4> QED BY <1>0, <2>3, <3>1, <4>1
    <3>4. CASE Counted /\ ~asked
      <4>1. irc'.idle = irc.idle + d /\ waited' = waited
        BY <2>1, <3>4
      <4>2. irc.idle <= PingAfter
        BY <1>0, <2>2, <2>5, <3>4 DEF PingInTime
      <4> QED BY <1>0, <2>3, <4>1, <4>2
    <3> QED BY <3>2, <3>3, <3>4
  <2>6. irc'.pinged = asked' /\ asked' \in BOOLEAN
    BY <1>0, <2>1 DEF PingInTime
  <2> QED BY <1>2, <2>1, <2>3, <2>4, <2>5, <2>6 DEF PingInTime, LinkUp
<1>3. ASSUME irc'.pinged = FALSE, irc'.idle = 0, NotSilent
      PROVE  PingInTime' /\ asked' \in BOOLEAN /\ waited' \in Nat /\ longest' \in Nat
  <2>1. asked' = FALSE /\ waited' = 0 /\ longest' = 0
    BY <1>3 DEF NotSilent
  <2>2. irc'.idle <= PingAfter /\ irc'.idle <= PingAfter + longest' + waited'
    BY <1>3, <2>1
  <2> QED BY <1>3, <2>1, <2>2 DEF PingInTime
<1>4. CASE LinkReads
  <2>1. PICK line : HandleLine(line)
    BY <1>4 DEF LinkReads, IrcRead
  <2>2. irc'.pinged = FALSE /\ irc'.idle = 0 /\ NotSilent
    BY <1>0, <2>1 DEF HandleLine, Heard, Ircs
  <2> QED BY <1>3, <2>2
<1>5. ASSUME irc'.fd = NoFd, irc'.pinged = irc.pinged, UNCHANGED silence
      PROVE  PingInTime' /\ asked' \in BOOLEAN /\ waited' \in Nat /\ longest' \in Nat
  BY <1>0, <1>5 DEF PingInTime, LinkUp, silence
<1>6. CASE IrcLost \/ DropsLink \/ IrcDisconnect
  <2>1. irc'.fd = NoFd /\ irc'.pinged = irc.pinged /\ UNCHANGED silence
    BY <1>0, <1>6 DEF IrcLost, DropsLink, IrcDisconnect, Ircs
  <2> QED BY <1>5, <2>1
<1>7. CASE LinkUp /\ KeepsLink
  <2> DEFINE ping == irc.idle > PingAfter /\ ~irc.pinged
  <2>1. /\ irc'.pinged = (irc.pinged \/ ping) /\ irc'.idle = irc.idle
        /\ asked' = (asked \/ ping) /\ waited' = (IF ping THEN 0 ELSE waited)
        /\ longest' = longest
    BY <1>0, <1>7 DEF KeepsLink, Ircs
  <2>2. irc.pinged = asked /\ (~asked => waited = 0) /\ irc.idle <= PingAfter + longest + waited
    BY <1>0, <1>7 DEF PingInTime
  <2>3. waited' = waited
    BY <2>1, <2>2
  <2>4. irc'.pinged = asked' /\ asked' \in BOOLEAN
    BY <2>1, <2>2
  <2>5. ~asked' => waited' = 0
    BY <2>1, <2>2, <2>3
  <2>6. ~irc'.pinged => irc'.idle <= PingAfter
    <3>1. irc.idle > PingAfter \/ irc.idle <= PingAfter
      BY <1>0
    <3>2. irc.idle > PingAfter => irc'.pinged
      <4>1. CASE irc.pinged = TRUE
        BY <2>1, <4>1
      <4>2. CASE irc.pinged = FALSE
        BY <2>1, <4>2
      <4> QED BY <1>0, <4>1, <4>2
    <3> QED BY <2>1, <3>1, <3>2
  <2>7. irc'.idle <= PingAfter + longest' + waited'
    BY <2>1, <2>2, <2>3
  <2>8. waited' \in Nat /\ longest' \in Nat
    BY <1>0, <2>1, <2>3
  <2> HIDE DEF ping
  <2> QED BY <2>4, <2>5, <2>6, <2>7, <2>8, Zenon DEF PingInTime
<1>8. CASE ~LinkUp /\ ConnectFails
  <2>1. irc'.fd = NoFd /\ irc'.pinged = irc.pinged /\ UNCHANGED silence
    BY <1>0, <1>8 DEF ConnectFails, Ircs, LinkUp
  <2> QED BY <1>5, <2>1
<1>9. CASE IrcConnect(NewFd)
  <2>1. irc'.pinged = FALSE /\ irc'.idle = 0 /\ NotSilent
    BY <1>0, <1>9 DEF IrcConnect, Opened, Ircs
  <2> QED BY <1>3, <2>1
<1>10. CASE ServerMoves
  <2>1. irc' = irc /\ UNCHANGED silence /\ todo' = todo
    BY <1>10 DEF ServerMoves, SrvAnswers, SrvSays, SrvBreaks
  <2> QED BY <1>0, <2>1 DEF PingInTime, LinkUp, silence
<1> QED BY <1>1, <1>2, <1>4, <1>6, <1>7, <1>8, <1>9, <1>10 DEF LinkMoves

-----------------------------------------------------------------------------
(* Spending from a budget leaves one.                                       *)
LEMMA Spent ==
    ASSUME left \in Budget, NEW k \in {"faults", "taken", "lines", "programs", "msgs", "says"},
           Spend(k)
    PROVE  left' \in Budget
<1>1. left[k] \in Nat /\ left[k] > 0 /\ left' = [left EXCEPT ![k] = left[k] - 1]
  BY DEF Spend, Budget
<1> DEFINE n == left[k] - 1
<1>2. n \in Nat
  BY <1>1
<1>3. left' = [left EXCEPT ![k] = n]
  BY <1>1
<1> HIDE DEF n
<1>4. CASE k = "faults"
  BY <1>2, <1>3, <1>4 DEF Budget
<1>5. CASE k = "taken"
  BY <1>2, <1>3, <1>5 DEF Budget
<1>6. CASE k = "lines"
  BY <1>2, <1>3, <1>6 DEF Budget
<1>7. CASE k = "programs"
  BY <1>2, <1>3, <1>7 DEF Budget
<1>8. CASE k = "msgs"
  BY <1>2, <1>3, <1>8 DEF Budget
<1>9. CASE k = "says"
  BY <1>2, <1>3, <1>9 DEF Budget
<1> QED BY <1>4, <1>5, <1>6, <1>7, <1>8, <1>9

(* What a link step does to the budget: it is kept, or spent once.          *)
LEMMA BudgetKept ==
    ASSUME LoopInv, [Next]_vars
    PROVE  left' \in Budget
<1>0. left \in Budget
  BY DEF LoopInv, TypeOK
<1>1. "faults" \in {"faults", "taken", "lines", "programs", "msgs", "says"}
      /\ "taken" \in {"faults", "taken", "lines", "programs", "msgs", "says"}
      /\ "lines" \in {"faults", "taken", "lines", "programs", "msgs", "says"}
      /\ "programs" \in {"faults", "taken", "lines", "programs", "msgs", "says"}
      /\ "msgs" \in {"faults", "taken", "lines", "programs", "msgs", "says"}
      /\ "says" \in {"faults", "taken", "lines", "programs", "msgs", "says"}
  OBVIOUS
<1>2. \/ left' = left \/ Spend("faults") \/ Spend("taken") \/ Spend("lines")
      \/ Spend("programs") \/ Spend("msgs") \/ Spend("says")
  <2>1. CASE ServeAccept \/ ServeClient \/ Signal \/ Shutdown \/ UNCHANGED vars
    BY <2>1 DEF ServeAccept, ServeClient, Signal, Shutdown, IrcDisconnect, vars
  <2>2. CASE PollReady \/ PollTimeout
    BY <2>2, PollPasses DEF TimePasses, LinkTick
  <2>3. CASE ServeIrc
    BY <2>3 DEF ServeIrc, IrcRead, HandleLine, IrcLost
  <2>4. CASE ServeMaintain
    BY <2>4 DEF ServeMaintain, KeepsLink, DropsLink, ConnectFails, IrcConnect
  <2>5. CASE \E s \in Speakers : SayToClients(s) \/ SayToIrc(s)
    BY <2>5 DEF SayToClients, SayToIrc
  <2>6. CASE Server
    BY <2>6 DEF Server, SrvAnswers, SrvSays, SrvBreaks
  <2>7. CASE \E c \in Clients : Programs(c)
    BY <2>7 DEF Programs
  <2> QED BY <2>1, <2>2, <2>3, <2>4, <2>5, <2>6, <2>7 DEF Next, Loop
<1> QED BY <1>0, <1>1, <1>2, Spent

(* The connections stay listed by client, and the rest keeps its type.      *)
LEMMA RestTyped ==
    ASSUME LoopInv, [Next]_vars, PeersFine'
    PROVE  /\ peer' \in [Clients -> Peers] /\ stop' \in BOOLEAN
           /\ speaking' \in [Speakers -> Nat] /\ running' \in BOOLEAN
<1>0. /\ peer \in [Clients -> Peers] /\ stop \in BOOLEAN /\ irc.fd \in Nat
      /\ speaking \in [Speakers -> Nat] /\ running \in BOOLEAN
  BY DEF LoopInv, TypeOK, ClientTypeOK, LinkTypeOK, Peers
<1>1. SUFFICES /\ peer' = [c \in Clients |-> peer'[c]] /\ stop' \in BOOLEAN
               /\ speaking' \in [Speakers -> Nat] /\ running' \in BOOLEAN
  BY DEF PeersFine, FinePeer
<1>2. peer = [c \in Clients |-> peer[c]]
  BY <1>0
<1>3. CASE /\ peer' = peer /\ stop' = stop
           /\ speaking' = speaking /\ running' = running
  BY <1>0, <1>2, <1>3
<1>4. CASE PollReady \/ PollTimeout \/ ServeIrc \/ ServeMaintain \/ Server \/ UNCHANGED vars
  BY <1>3, <1>4 DEF PollReady, PollTimeout, ServeIrc, ServeMaintain, Server, clientVars, loopVars,
     KeepClients, OtherLoop, vars
<1>5. CASE ServeAccept
  <2>1. PICK c, v : peer' = [peer EXCEPT ![c] = v]
    BY <1>5 DEF ServeAccept, Accept
  <2>2. stop' \in BOOLEAN
    BY <1>5, Zenon DEF ServeAccept, Accept
  <2> QED BY <1>0, <1>5, <2>1, <2>2 DEF ServeAccept, OtherLoop
<1>6. CASE ServeClient
  <2>1. stop' = stop /\ speaking' = speaking /\ running' = running
    BY <1>6 DEF ServeClient, HandleClient, clientVars, OtherLoop
  <2>2. peer' = peer \/ \E c, v : peer' = [peer EXCEPT ![c] = v]
    BY <1>6 DEF ServeClient, HandleClient, Hears, clientVars
  <2> QED BY <1>0, <1>2, <2>1, <2>2
<1>7. CASE Shutdown
  <2>1. /\ peer' = [c \in Clients |-> peer'[c]] /\ stop' = stop /\ speaking' = speaking
        /\ running' = FALSE
    BY <1>7 DEF Shutdown, CloseAll
  <2> QED BY <1>0, <2>1
<1>8. ASSUME NEW s \in Speakers, SayToClients(s) PROVE <1>1!1
  <2>1. /\ peer' = [c \in Clients |-> peer'[c]] /\ stop' = stop /\ running' = running
        /\ speaking' = [speaking EXCEPT ![s] = IF LinkUp THEN irc.fd ELSE Quiet]
    BY <1>8 DEF SayToClients, Broadcast
  <2> QED BY <1>0, <2>1 DEF Quiet
<1>9. ASSUME NEW s \in Speakers, SayToIrc(s) PROVE <1>1!1
  <2>1. peer' = peer \/ \E c, v : peer' = [peer EXCEPT ![c] = v]
    BY <1>9 DEF SayToIrc, Sendf, WriteTo
  <2>2. stop' = stop /\ running' = running /\ speaking' = [speaking EXCEPT ![s] = Quiet]
    BY <1>9 DEF SayToIrc
  <2> QED BY <1>0, <1>2, <2>1, <2>2 DEF Quiet
<1>10. ASSUME NEW c \in Clients, Programs(c) PROVE <1>1!1
  <2>1. speaking' = speaking /\ running' = running /\ stop' = stop
    BY <1>10 DEF Programs, loopVars, TuiStart, CliStart, Connects, TuiSubmit, TuiQuit, ClientReads
  <2>2. \E v : peer' = [peer EXCEPT ![c] = v]
    BY <1>10 DEF Programs, TuiStart, CliStart, Connects, TuiSubmit, TuiQuit, ClientReads, Leaves
  <2> QED BY <1>0, <2>1, <2>2
<1>11. CASE Signal
  BY <1>0, <1>2, <1>11 DEF Signal, loopVars
<1> QED BY <1>4, <1>5, <1>6, <1>7, <1>8, <1>9, <1>10, <1>11 DEF Next, Loop

-----------------------------------------------------------------------------
(* The daemon starts with nothing open, nothing said and no delay.          *)
LEMMA LoopStarts == Init => LoopInv
<1> SUFFICES ASSUME Init PROVE LoopInv
  OBVIOUS
<1> USE LinkAssumption
<1>1. /\ unread = <<>> /\ server = Down /\ todo = <<>> /\ table = <<>> /\ backlog = <<>>
      /\ floor = 0 /\ quiet = 0 /\ asked = FALSE /\ waited = 0 /\ longest = 0 /\ stop = FALSE /\ running = TRUE
      /\ desc = [f \in Fds |-> Nobody] /\ peer = [c \in Clients |-> NotRun]
      /\ speaking = [s \in Speakers |-> Quiet] /\ left \in Budgets
  BY DEF Init, LinkInit, ClientInit
<1>2. /\ irc \in Ircs /\ irc.fd = NoFd /\ irc.pinged = FALSE /\ irc.idle = 0
      /\ irc.backoff = 0 /\ irc.wait = 0
  <2>1. irc = [fd |-> NoFd, registered |-> FALSE, pinged |-> FALSE, idle |-> 0,
               backoff |-> 0, wait |-> 0]
    BY DEF Init, LinkInit
  <2>2. 0 \in Nat /\ 0 \in 0..MaxDelay /\ NoFd \in Nat /\ FALSE \in BOOLEAN
    BY DEF NoFd
  <2>3. irc \in Ircs
    BY <2>1, <2>2, Zenon DEF Ircs
  <2> QED BY <2>1, <2>3
<1>3. server \in Servers /\ server.wire = <<>>
  <2>1. <<>> \in Seq(Seq(Lines))
    OBVIOUS
  <2>2. "nothing" \in {"nothing", "welcome", "pong"} /\ FALSE \in BOOLEAN
    OBVIOUS
  <2>3. server \in Servers
    BY <1>1, <2>1, <2>2, Zenon DEF Down, Servers
  <2> QED BY <1>1, <2>3 DEF Down
<1>4. NotRun \in Peers /\ NotRun.rx = <<>> /\ NotRun.end = "none"
  <2>1. <<>> \in Seq(Commands) /\ <<>> \in Seq(Frames)
    OBVIOUS
  <2>2. "none" \in {"none", "tui", "cli"} /\ FALSE \in BOOLEAN
        /\ "none" \in {"none", "queued", "open", "shut", "closed"}
    OBVIOUS
  <2>3. NotRun \in Peers
    BY <2>1, <2>2, Zenon DEF NotRun, Peers
  <2> QED BY <2>3 DEF NotRun
<1>5. LinkTypeOK
  <2>1. unread \in Seq(Lines) /\ floor \in Nat /\ quiet \in 0..MaxDelay
    BY <1>1
  <2>2. asked \in BOOLEAN /\ waited \in Nat /\ longest \in Nat
    BY <1>1
  <2> QED BY <1>2, <1>3, <2>1, <2>2 DEF LinkTypeOK, Ircs, Servers
<1>6. ClientTypeOK
  <2>1. desc \in [Fds -> Clients \cup {Nobody, IrcPeer}] /\ stop \in BOOLEAN
    BY <1>1
  <2>2. table \in Seq(Fds) /\ backlog \in Seq(Clients)
    BY <1>1
  <2>3. peer \in [Clients -> Peers]
    BY <1>1, <1>4
  <2> QED BY <2>1, <2>2, <2>3 DEF ClientTypeOK, Peers
<1>7. TypeOK
  <2>1. todo \in Seq(Items) /\ left \in Budget
    BY <1>1, LoopAssumption
  <2>2. speaking \in [Speakers -> Nat] /\ running \in BOOLEAN
    BY <1>1 DEF Quiet
  <2> QED BY <1>5, <1>6, <2>1, <2>2 DEF TypeOK, Items
<1>8. RecordsFull /\ LinesInHand /\ PassEnds /\ SnapshotHolds
  <2>1. Len(server.wire) = 0 /\ DOMAIN server.wire = {} /\ DOMAIN todo = {}
    BY <1>1, <1>3
  <2> QED BY <1>1, <2>1 DEF RecordsFull, LinesInHand, PassEnds, SnapshotHolds
<1>9. PingInTime /\ BackoffGrows
  <2>1. ~LinkUp
    BY <1>2 DEF LinkUp
  <2>2. irc.pinged = asked
    BY <1>1, <1>2, Zenon
  <2>3. PingInTime
    BY <1>1, <2>1, <2>2, Zenon DEF PingInTime
  <2> QED BY <1>1, <1>2, <2>1, <2>3 DEF BackoffGrows
<1>10. TableFits
  <2>1. Range(table) = {} /\ DOMAIN table = {} /\ Len(table) = 0
    BY <1>1 DEF Range
  <2>2. Nobody \notin Clients /\ Nobody # IrcPeer /\ NoFd \notin Fds
    BY ClientAssumption DEF Nobody, IrcPeer, NoFd
  <2> QED BY <1>1, <1>2, <2>1, <2>2, ClientAssumption DEF TableFits, IsInjective
<1>11. EndsMatch
  <2>1. DOMAIN backlog = {} /\ Nobody \notin Clients
    BY <1>1, ClientAssumption DEF Nobody
  <2> QED BY <1>1, <1>4, <2>1 DEF EndsMatch, IsInjective
<1>12. PeersFine
  BY <1>1, <1>4 DEF PeersFine, FinePeer, HalfIsLast
<1> QED BY <1>7, <1>8, <1>9, <1>10, <1>11, <1>12 DEF LoopInv

(* Every step keeps the invariant.                                          *)
LEMMA LoopGoesOn == LoopInv /\ [Next]_vars => LoopInv'
<1> SUFFICES ASSUME LoopInv, [Next]_vars PROVE LoopInv'
  OBVIOUS
<1>1. PeersFine' /\ ClientMoves
  BY ClientStep
<1>2. LinkMoves /\ TodoMoves
  BY LinkStep, TodoStep
<1>3. Listing'
  BY <1>1, ListingKept
<1>4. todo' \in Seq(Items) /\ PassEnds' /\ SnapshotHolds'
  BY <1>1, <1>2, SnapshotKept
<1>5. NewFd \in Fds /\ NewFd \in Nat
  BY NewFdIsFree, ClientAssumption, ZenonT(60) DEF LoopInv
<1>6. BackoffGrows' /\ floor' \in Nat /\ quiet' \in 0..MaxDelay
  BY <1>2, <1>5, BackoffKept
<1>7. PingInTime' /\ asked' \in BOOLEAN /\ waited' \in Nat /\ longest' \in Nat
  BY <1>2, <1>5, PingKept
<1>8. LinesInHand'
  BY <1>2, LinesKept
<1>9. irc' \in Ircs
  <2>1. irc \in Ircs /\ (irc.backoff = 0 \/ irc.backoff >= LostDelay)
    BY DEF LoopInv, TypeOK, LinkTypeOK, Ircs, BackoffGrows
  <2> QED BY <1>2, <1>5, <2>1, IrcTyped
<1>10. server' \in Servers /\ server'.wire \in Sendings /\ unread' \in Seq(Lines)
  <2>1. server \in Servers /\ unread \in Seq(Lines)
    BY DEF LoopInv, TypeOK, LinkTypeOK, Servers
  <2>2. server.wire \in Seq(Seq(Lines)) /\ DOMAIN server.wire = 1..Len(server.wire)
    BY <2>1 DEF Servers
  <2>3. server.wire \in Sendings
    BY <2>2 DEF LoopInv, RecordsFull, Sendings
  <2> QED BY <1>2, <2>1, <2>3, ServerTyped
<1>11. RecordsFull'
  <2>1. server'.wire \in Seq(Seq(Lines)) /\ \A i \in 1..Len(server'.wire) : server'.wire[i] # <<>>
    BY <1>10 DEF Sendings
  <2>2. DOMAIN server'.wire = 1..Len(server'.wire)
    BY <2>1
  <2> QED BY <2>1, <2>2 DEF RecordsFull
<1>12. /\ peer' \in [Clients -> Peers] /\ stop' \in BOOLEAN
       /\ speaking' \in [Speakers -> Nat] /\ running' \in BOOLEAN
  BY <1>1, RestTyped
<1>13. LinkTypeOK'
  BY <1>6, <1>7, <1>9, <1>10 DEF LinkTypeOK, Ircs, Servers
<1>14. ClientTypeOK'
  BY <1>3, <1>12 DEF Listing, ClientTypeOK, Peers
<1>15. TypeOK'
  <2>1. left' \in Budget
    BY BudgetKept
  <2> QED BY <1>4, <1>12, <1>13, <1>14, <2>1 DEF TypeOK, Items
<1> QED BY <1>1, <1>3, <1>4, <1>6, <1>7, <1>8, <1>11, <1>15 DEF LoopInv, Listing

(* The loop, its link and its clients keep LoopInv, for every number of     *)
(* clients, descriptors and speakers and for all delays.                    *)
THEOREM LoopInvariant == Spec => []LoopInv
<1> QED BY LoopStarts, LoopGoesOn, PTL DEF Spec

-----------------------------------------------------------------------------
(* The descriptors open are those of the link and of the table: a client    *)
(* refused, gone or broken, a link lost and a daemon that stops leave none  *)
(* behind, and none is closed while in use.                                 *)
THEOREM DescriptorsAreAccounted == Spec => []DescriptorsAccounted
<1>1. ASSUME LoopInv PROVE DescriptorsAccounted
  <2>1. TypeOK /\ TableFits /\ EndsMatch
    BY <1>1 DEF LoopInv
  <2>2. table \in Seq(Fds) /\ Range(table) \subseteq Fds
    BY <2>1 DEF TypeOK, ClientTypeOK, Range
  <2>3. {f \in Fds : desc[f] \in Clients} = Range(table)
    BY <2>1, <2>2 DEF TableFits
  <2>4. {f \in Fds : desc[f] = IrcPeer} = {irc.fd} \ {NoFd}
    <3>1. NoFd \notin Fds
      BY ClientAssumption DEF NoFd
    <3> QED BY <2>1, <3>1 DEF TableFits
  <2>5. ASSUME NEW c \in Clients
        PROVE  (\E f \in Fds : desc[f] = c) <=> c \in Attached
    BY <2>1, <2>2 DEF TableFits, Attached
  <2> QED BY <2>1, <2>3, <2>4, <2>5 DEF DescriptorsAccounted, TableFits, EndsMatch
<1> QED BY <1>1, LoopInvariant, PTL

(* What the clients read stays in step: a frame cut short by a full buffer  *)
(* is the last thing on its connection, and no line meant for the IRC       *)
(* server is among them.                                                    *)
THEOREM FramesAreWhole == Spec => []FramesWhole
<1>1. ASSUME LoopInv PROVE FramesWhole
  <2>1. SUFFICES ASSUME NEW c \in Clients
                 PROVE  /\ \A i \in 1..(Len(peer[c].rx) - 1) : peer[c].rx[i] # "half"
                        /\ "foreign" \notin Range(peer[c].rx)
    BY DEF FramesWhole
  <2> DEFINE rx == peer[c].rx
             n == Len(rx)
  <2>2. n \in Nat /\ DOMAIN rx = 1..n
    BY <1>1 DEF LoopInv, PeersFine, FinePeer, Peers
  <2>3. \A i \in 1..n : rx[i] # "foreign" /\ (rx[i] = "half" => i = n)
    BY <1>1 DEF LoopInv, PeersFine, FinePeer, HalfIsLast
  <2> HIDE DEF rx, n
  <2>4. ASSUME NEW i \in 1..(n - 1) PROVE rx[i] # "half"
    <3>1. i \in 1..n /\ i # n
      BY <2>2
    <3> QED BY <2>3, <3>1
  <2>5. "foreign" \notin Range(rx)
    BY <2>2, <2>3 DEF Range
  <2> QED BY <2>4, <2>5 DEF rx, n
<1> QED BY <1>1, LoopInvariant, PTL

(* No line that BearSSL has decrypted waits through a poll(), which cannot  *)
(* see it: irc_poll reads on while there are any.                           *)
THEOREM NoLineStranded == Spec => []NothingStranded
<1>1. ASSUME LoopInv PROVE NothingStranded
  BY <1>1 DEF LoopInv, LinesInHand, NothingStranded, Polling
<1> QED BY <1>1, LoopInvariant, PTL

(* A descriptor the loop serves is the connection poll() reported: no       *)
(* number is closed and given out again within a pass.                      *)
THEOREM PolledIsServed == Spec => ServedAsPolled
<1>1. ASSUME LoopInv
      PROVE  Serving("client") /\ todo' # todo
               => desc[Head(todo).fd] \in {Head(todo).conn, Nobody}
  <2>1. todo \in Seq(Items) /\ SnapshotHolds
    BY <1>1 DEF LoopInv, TypeOK, Items
  <2>2. todo # <<>> => 1 \in DOMAIN todo /\ Head(todo) = todo[1]
    BY <2>1
  <2> QED BY <2>1, <2>2 DEF Serving, SnapshotHolds
<1> QED BY <1>1, LoopInvariant, PTL DEF ServedAsPolled

(* Attempts without a registration wait ever longer, however connections    *)
(* fail (at once, during registration or in silence): at least LostDelay    *)
(* after the first that ends, and twice as long after each further one, up  *)
(* to MaxDelay.                                                             *)
THEOREM ReconnectsSlowDown == Spec => SlowsDown
<1>1. ASSUME LoopInv, [Next]_vars, Serving("maintain"), ~LinkUp, irc' # irc
      PROVE  quiet >= floor \/ quiet >= MaxDelay
  <2>1. running /\ todo # <<>> /\ Head(todo).kind = "maintain"
    BY <1>1 DEF Serving
  <2>2. irc.wait = 0
    <3>1. CASE Loop
      <4>1. ServeMaintain
        BY <1>1, <2>1, <3>1 DEF Loop, PollReady, PollTimeout, Polling, ServeIrc, ServeAccept,
           ServeClient, Serving, Shutdown
      <4> QED BY <1>1, <4>1 DEF ServeMaintain, linkVars, MayRetry
    <3>2. CASE ~Loop
      BY <1>1, <3>2 DEF Next, SayToClients, SayToIrc, Server, SrvAnswers, SrvSays, SrvBreaks,
         Programs, Signal, vars, linkVars
    <3> QED BY <3>1, <3>2
  <2>3. quiet \in Nat /\ irc.backoff \in Nat /\ floor \in Nat
    BY <1>1, LinkAssumption DEF LoopInv, TypeOK, LinkTypeOK
  <2>4. /\ quiet + irc.wait >= irc.backoff \/ quiet >= MaxDelay
        /\ irc.backoff >= MaxDelay \/ irc.backoff >= floor
    BY <1>1, <2>1 DEF LoopInv, BackoffGrows
  <2> QED BY <2>2, <2>3, <2>4, LinkAssumption
<1> QED BY <1>1, LoopInvariant, PTL DEF Spec, SlowsDown

(* A silent server is left only after a PING that has had its time for an   *)
(* answer, however long the passes of the loop are: DropAfter - PingAfter   *)
(* less what the longest of them exceeds one unit.  None is left unasked    *)
(* unless a pass took longer than DropAfter - PingAfter.                    *)
THEOREM AskedBeforeDropped == Spec => AskedFirst
<1>1. ASSUME LoopInv, [Next]_vars, Serving("maintain"), LinkUp, irc'.fd = NoFd
      PROVE  /\ waited >= DropAfter - PingAfter - (longest - 1)
             /\ asked \/ longest > DropAfter - PingAfter
  <2>1. running /\ todo # <<>> /\ Head(todo).kind = "maintain"
    BY <1>1 DEF Serving
  <2>2. irc.idle > DropAfter
    <3>1. CASE Loop
      <4>1. ServeMaintain
        BY <1>1, <2>1, <3>1 DEF Loop, PollReady, PollTimeout, Polling, ServeIrc, ServeAccept,
           ServeClient, Serving, Shutdown, linkVars, LinkUp
      <4>2. ~KeepsLink
        BY <1>1, LinkKeepsFd DEF LoopInv, TypeOK, LinkUp
      <4> QED BY <1>1, <4>1, <4>2 DEF ServeMaintain, DropsLink, Silent
    <3>2. CASE ~Loop
      BY <1>1, <3>2 DEF Next, SayToClients, SayToIrc, Server, SrvAnswers, SrvSays, SrvBreaks,
         Programs, Signal, vars, linkVars, LinkUp
    <3> QED BY <3>1, <3>2
  <2>3. irc.idle \in Nat /\ waited \in Nat /\ longest \in Nat
    BY <1>1 DEF LoopInv, TypeOK, LinkTypeOK
  <2>4. irc.idle <= PingAfter + longest + waited /\ (~asked => waited = 0)
    BY <1>1 DEF LoopInv, PingInTime
  <2>5. waited >= DropAfter - PingAfter - (longest - 1)
    BY <2>2, <2>3, <2>4, LinkAssumption
  <2>6. waited = 0 => longest > DropAfter - PingAfter
    BY <2>2, <2>3, <2>4, LinkAssumption
  <2> QED BY <2>4, <2>5, <2>6, Zenon
<1> QED BY <1>1, LoopInvariant, PTL DEF Spec, AskedFirst
=============================================================================
