------------------------------ MODULE MainLoop ------------------------------
(***************************************************************************)
(* The main loop of daemon_run: one poll() over the IRC link, the control   *)
(* socket and the attached clients, then what it reported, in that order,   *)
(* then irc_maintain.  Session threads meanwhile show lines to the clients  *)
(* and send them to the link (irc_reply, irc_action).                       *)
(*                                                                         *)
(* The descriptors polled are a snapshot; todo holds what is left to serve  *)
(* of it.  dispatch and plugin_scan, which end each pass, have models of    *)
(* their own.                                                               *)
(***************************************************************************)
EXTENDS IrcLink, TuiClients

CONSTANTS Speakers,  \* session threads
          Budgets    \* bounds: a behaviour keeps to one of them

\* How often the server closes, hangs, is late or refuses, or the loop itself
\* is kept (faults); how often the server finds a nick in use (taken) or sends on its own (lines); programs started, messages
\* they send, lines the sessions say.
Budget == [faults : Nat, taken : Nat, lines : Nat, programs : Nat, msgs : Nat, says : Nat]

ASSUME LoopAssumption == Budgets \subseteq Budget

VARIABLES
    todo,      \* what is left of this pass; empty: in poll()
    speaking,  \* per speaker: the descriptor irc_reply saw, or Quiet
    running    \* FALSE once daemon_run has returned

loopVars == <<todo, speaking, running>>
vars == <<linkVars, clientVars, loopVars, left>>

Quiet == 1000
Item(kind, fd, ready) ==
    [kind |-> kind, fd |-> fd, ready |-> ready,
     conn |-> IF fd \in Fds THEN desc[fd] ELSE Nobody]
Maintain == Item("maintain", NoFd, TRUE)

Init ==
    /\ LinkInit /\ ClientInit
    /\ todo = <<>>
    /\ speaking = [s \in Speakers |-> Quiet]
    /\ running = TRUE
    /\ left \in Budgets

-----------------------------------------------------------------------------
(* poll() returns: the array of descriptors, in the order served, each      *)
(* client with what was reported of it; or nothing after TC_TICK_MS.        *)

ClientReady(f) == Readable(peer[desc[f]])
PolledClients == [i \in DOMAIN table |-> Item("client", table[i], ClientReady(table[i]))]

Polled ==
    (IF LinkReadable THEN <<Item("irc", irc.fd, TRUE)>> ELSE <<>>)
    \o (IF backlog # <<>> THEN <<Item("accept", NoFd, TRUE)>> ELSE <<>>)
    \o PolledClients

SomeReady == LinkReadable \/ backlog # <<>> \/ \E f \in Range(table) : ClientReady(f)

Polling == running /\ ~stop /\ todo = <<>>

PollReady ==
    /\ Polling /\ SomeReady
    /\ \E d \in 0..MaxPass : LinkTick(d)
    /\ todo' = Append(Polled, Maintain)
    /\ UNCHANGED <<clientVars, speaking, running>>

PollTimeout ==
    /\ Polling /\ ~SomeReady
    /\ \E d \in 1..MaxPass : LinkTick(d)
    /\ todo' = <<Maintain>>
    /\ UNCHANGED <<clientVars, speaking, running>>

Serving(kind) == running /\ todo # <<>> /\ Head(todo).kind = kind
Served == todo' = Tail(todo)
OtherLoop == UNCHANGED <<speaking, running>>
Closed(f) == desc' = [desc EXCEPT ![f] = Nobody]
KeepClients == UNCHANGED <<table, backlog, peer, stop>>

ServeIrc ==
    /\ Serving("irc")
    /\ \/ ~IrcEof /\ IrcRead /\ (IF More THEN UNCHANGED todo ELSE Served)
          /\ UNCHANGED clientVars
       \/ IrcEof /\ IrcLost /\ Served /\ Closed(irc.fd) /\ KeepClients
    /\ OtherLoop

ServeAccept ==
    /\ Serving("accept")
    /\ Accept
    /\ Served
    /\ UNCHANGED <<linkVars, left>> /\ OtherLoop

ServeClient ==
    /\ Serving("client")
    /\ IF Head(todo).ready THEN HandleClient(Head(todo).fd) ELSE UNCHANGED clientVars
    /\ Served
    /\ UNCHANGED <<linkVars, left>> /\ OtherLoop

(* irc_maintain: keep or drop a link that is up, else connect when the time *)
(* has come.                                                                *)
ServeMaintain ==
    /\ Serving("maintain")
    /\ \/ LinkUp /\ KeepsLink /\ UNCHANGED clientVars
       \/ LinkUp /\ DropsLink /\ Closed(irc.fd) /\ KeepClients
       \/ ~LinkUp /\ ~MayRetry /\ UNCHANGED <<linkVars, clientVars, left>>
       \/ ~LinkUp /\ MayRetry /\ ConnectFails /\ UNCHANGED clientVars
       \/ /\ ~LinkUp /\ MayRetry /\ IrcConnect(NewFd)
          /\ desc' = [desc EXCEPT ![NewFd] = IrcPeer] /\ KeepClients
    /\ Served
    /\ OtherLoop

(* The loop ends at its condition, and daemon_run closes everything.        *)
Shutdown ==
    /\ running /\ stop /\ todo = <<>>
    /\ running' = FALSE
    /\ IrcDisconnect /\ CloseAll
    /\ UNCHANGED <<todo, speaking>>

-----------------------------------------------------------------------------
(* A session thread: the clients first, then, if the link looked up, one    *)
(* line on it under io_lock, where irc_sendf looks again.                   *)

SayToClients(s) ==
    /\ running /\ speaking[s] = Quiet
    /\ Spend("says")
    /\ Broadcast
    /\ speaking' = [speaking EXCEPT ![s] = IF LinkUp THEN irc.fd ELSE Quiet]
    /\ UNCHANGED <<linkVars, todo, running>>

\* Bytes written to a descriptor reach whatever is open there.
WriteTo(f) ==
    peer' = IF desc[f] \in Clients
            THEN [peer EXCEPT ![desc[f]] = Sent(@, "foreign")] ELSE peer

\* Mutant: irc_sendf writes to the descriptor irc_reply saw.
SendfStale(s) == WriteTo(speaking[s])

Sendf(s) == IF LinkUp THEN WriteTo(irc.fd) ELSE UNCHANGED peer

SayToIrc(s) ==
    /\ running /\ speaking[s] # Quiet
    /\ speaking' = [speaking EXCEPT ![s] = Quiet]
    /\ Sendf(s)
    /\ UNCHANGED <<linkVars, desc, table, backlog, stop, todo, running, left>>

-----------------------------------------------------------------------------
Loop == PollReady \/ PollTimeout \/ ServeIrc \/ ServeAccept \/ ServeClient
        \/ ServeMaintain \/ Shutdown

Server == running /\ (SrvAnswers \/ SrvSays \/ SrvBreaks)
          /\ UNCHANGED <<clientVars, loopVars>>

Programs(c) ==
    /\ \/ running /\ (TuiStart(c) \/ CliStart(c)) /\ Spend("programs")
       \/ TuiSubmit(c) /\ Spend("msgs")
       \/ (TuiQuit(c) \/ ClientReads(c)) /\ UNCHANGED left
    /\ UNCHANGED <<linkVars, loopVars>>

\* SIGTERM or SIGINT.
Signal ==
    /\ running /\ ~stop
    /\ stop' = TRUE
    /\ UNCHANGED <<linkVars, desc, table, backlog, peer, loopVars, left>>

Next ==
    \/ Loop
    \/ \E s \in Speakers : SayToClients(s) \/ SayToIrc(s)
    \/ Server
    \/ \E c \in Clients : Programs(c)
    \/ Signal

Spec == Init /\ [][Next]_vars

(* The main thread is scheduled, a server that is there answers.            *)
FairSpec ==
    /\ Spec
    /\ WF_vars(Loop)
    /\ WF_vars(running /\ SrvAnswers /\ UNCHANGED <<clientVars, loopVars>>)

-----------------------------------------------------------------------------
TypeOK ==
    /\ LinkTypeOK /\ ClientTypeOK
    /\ todo \in Seq([kind : {"irc", "accept", "client", "maintain"}, fd : Nat,
                     ready : BOOLEAN, conn : Clients \cup {Nobody, IrcPeer}])
    /\ speaking \in [Speakers -> Nat]
    /\ running \in BOOLEAN /\ left \in Budget

(* The types; and the descriptors open are those of the link and of the     *)
(* table: none is forgotten when a client is refused, leaves or breaks,     *)
(* when the link is lost or when the daemon stops, and none is closed while *)
(* in use.                                                                  *)
DescriptorsAccounted ==
    /\ TypeOK
    /\ {f \in Fds : desc[f] \in Clients} = Range(table)
    /\ {f \in Fds : desc[f] = IrcPeer} = {irc.fd} \ {NoFd}
    /\ IsInjective(table)
    /\ \A c \in Clients :
         peer[c].end \in {"open", "shut"} <=> c \in Attached

(* What the clients read stays in step: nothing follows a frame that was    *)
(* cut short, and nothing meant for the IRC server reaches a client, though *)
(* the link's descriptor number may have become the client's.               *)
FramesWhole ==
    \A c \in Clients :
      LET rx == peer[c].rx IN
      /\ \A i \in 1..(Len(rx) - 1) : rx[i] # "half"
      /\ "foreign" \notin Range(rx)

(* The descriptor the loop serves is still the connection that poll()       *)
(* reported, or none: a number is not closed and given to another client    *)
(* while the loop works through its snapshot.                               *)
ServedAsPolled ==
    [][Serving("client") /\ todo' # todo
         => desc[Head(todo).fd] \in {Head(todo).conn, Nobody}]_vars

(* What BearSSL has decrypted is handled before the next poll(), which      *)
(* could not see it.                                                        *)
NothingStranded == Polling => unread = <<>>

(* Connections that never complete a registration come ever more slowly:    *)
(* the first after a registered one waits at least LostDelay, and each      *)
(* further one twice as long as the one before had to, up to MaxDelay.      *)
SlowsDown ==
    [][Serving("maintain") /\ ~LinkUp /\ irc' # irc
         => quiet >= floor \/ quiet >= MaxDelay]_vars

(* A link is given up for silence only after a PING sent since the last     *)
(* line received: it has had DropAfter - PingAfter units for its answer,    *)
(* less what the longest pass since then exceeds one.  Only a pass longer   *)
(* than DropAfter - PingAfter can lose a link unasked.                      *)
AskedFirst ==
    [][Serving("maintain") /\ LinkUp /\ irc'.fd = NoFd
         => /\ waited >= DropAfter - PingAfter - (longest - 1)
            /\ asked \/ longest > DropAfter - PingAfter]_vars

(* A server that keeps answering is joined again after every loss.          *)
LinkRecovers == []<>((LinkUp /\ irc.registered) \/ stop)

(* Clients that left, or that could not be written to, do not stay in the   *)
(* table: again and again none of them is there.                            *)
DeadClientsLeave == []<>(\A f \in Range(table) : ~Broken(peer[desc[f]]))
=============================================================================
