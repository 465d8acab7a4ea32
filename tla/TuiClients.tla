----------------------------- MODULE TuiClients -----------------------------
(***************************************************************************)
(* The control socket (sock.c), the daemon's side of its clients (daemon.c) *)
(* and the client programs: the terminal interface (tui.c) and the one-shot *)
(* commands (main.c).  Each client is one run of such a program, with one   *)
(* connection.  A frame is its type; one that was cut short is "half".      *)
(*                                                                         *)
(* desc is the daemon's descriptor table: what is open under each number.   *)
(* A closed number is given out again.                                      *)
(***************************************************************************)
EXTENDS Naturals, Sequences, SequencesExt

CONSTANTS Clients,     \* numbered in the order they start
          Fds,         \* descriptor numbers
          MaxClients,  \* room in tui_clients (8)
          Backlog,     \* listen() backlog (4)
          RxRoom       \* frames a client's socket buffer holds

ASSUME ClientAssumption ==
    /\ Clients \subseteq 1..999 /\ Fds \subseteq Nat \ {0}
    /\ MaxClients \in Nat /\ Backlog \in Nat /\ RxRoom \in Nat
    /\ IsFiniteSet(Fds) /\ Cardinality(Fds) >= MaxClients + 2

Nobody == 0
IrcPeer == 1000
Commands == {"ATTACH", "DETACH", "STATUS", "MSG", "STOP"}
Frames == {"LINE", "REPLY", "GOODBYE", "half", "foreign"}

VARIABLES
    desc,     \* Fds -> the connection open there
    table,    \* tui_clients, n_tui_clients long
    backlog,  \* connections waiting for accept()
    peer,     \* each client and its connection
    stop      \* d->shutdown

clientVars == <<desc, table, backlog, peer, stop>>

\* prog: the program; end: the daemon's end; tx, rx: what is on its way to
\* the daemon and to the client.
NotRun == [prog |-> "none", open |-> FALSE, end |-> "none", tx |-> <<>>, rx |-> <<>>]

\* What nobody will read any more is forgotten.
Settled(p) == [p EXCEPT !.tx = IF p.end = "closed" THEN <<>> ELSE @,
                        !.rx = IF p.open THEN @ ELSE <<>>]

ClientInit ==
    /\ desc = [f \in Fds |-> Nobody]
    /\ table = <<>> /\ backlog = <<>>
    /\ peer = [c \in Clients |-> NotRun]
    /\ stop = FALSE

\* socket and accept take the lowest number that is free.
NewFd == CHOOSE f \in Fds :
           desc[f] = Nobody /\ \A g \in Fds : desc[g] = Nobody => f <= g
Attached == {desc[f] : f \in Range(table)}

-----------------------------------------------------------------------------
(* sock_send to a client: a whole frame, part of one when its buffer stays  *)
(* full for two seconds, nothing when either end has shut the connection.   *)

Broken(p) == ~p.open \/ p.end = "shut"
Full(p) == Len(p.rx) >= RxRoom
Sends(p) == ~Broken(p) /\ ~Full(p)

Sent(p, frame) ==
    IF Broken(p) THEN p
    ELSE [p EXCEPT !.rx = Append(@, IF Full(p) THEN "half" ELSE frame)]

(* daemon_tui_broadcast, under tui_lock: a client that cannot be written to *)
(* is shut down, and the main loop closes it.                               *)

Told(p) ==
    IF Sends(p) THEN Sent(p, "LINE") ELSE [Sent(p, "LINE") EXCEPT !.end = "shut"]

\* Mutant: a client that cannot be written to is closed at once.
BroadcastCloses ==
    LET dead == {f \in Range(table) : ~Sends(peer[desc[f]])} IN
    /\ peer' = [c \in Clients |->
                  IF c \notin Attached THEN peer[c]
                  ELSE IF Sends(peer[c]) THEN Sent(peer[c], "LINE")
                  ELSE [Sent(peer[c], "LINE") EXCEPT !.end = "closed"]]
    /\ table' = SelectSeq(table, LAMBDA f : f \notin dead)
    /\ desc' = [f \in Fds |-> IF f \in dead THEN Nobody ELSE desc[f]]
    /\ UNCHANGED <<backlog, stop>>

Broadcast ==
    /\ peer' = [c \in Clients |-> IF c \in Attached THEN Told(peer[c]) ELSE peer[c]]
    /\ UNCHANGED <<desc, table, backlog, stop>>

-----------------------------------------------------------------------------
(* handle_new_client: accept, read one command (a silent client runs into   *)
(* the two seconds' timeout), serve it, and close unless it attached.       *)

HasRoom == Len(table) < MaxClients

\* Mutant: a client that finds the table full is not closed.
LeaksRefused(c, cmd) == cmd = "ATTACH"

Attaches(c, cmd) == cmd = "ATTACH" /\ HasRoom

Command(c) == IF peer[c].tx = <<>> THEN "HALF" ELSE Head(peer[c].tx)

Greeted(p, cmd, attach) ==
    LET served == [p EXCEPT !.tx = IF p.tx = <<>> THEN p.tx ELSE Tail(p.tx)]
        replied == IF cmd = "STATUS" THEN Sent(served, "REPLY") ELSE served
    IN  IF attach THEN [replied EXCEPT !.end = "open"]
        ELSE Settled([replied EXCEPT !.end = "closed"])

Accept ==
    LET c == Head(backlog)
        cmd == Command(c)
        f == NewFd IN
    /\ backlog # <<>>
    /\ backlog' = Tail(backlog)
    /\ stop' = (stop \/ cmd = "STOP")
    /\ desc' = IF Attaches(c, cmd) THEN [desc EXCEPT ![f] = c] ELSE desc
    /\ table' = IF Attaches(c, cmd) /\ HasRoom THEN Append(table, f) ELSE table
    /\ peer' = [peer EXCEPT ![c] = Greeted(peer[c], cmd, Attaches(c, cmd))]

(* handle_tui_client, under tui_lock: the descriptor is looked up again.    *)
Listed(f) == f \in Range(table)

\* remove_tui_client: the last one takes its place.
Removed(f) ==
    LET i == CHOOSE k \in DOMAIN table : table[k] = f
        n == Len(table)
    IN  [k \in 1..(n - 1) |-> IF k = i THEN table[n] ELSE table[k]]

Hears(c) ==
    LET cmd == Command(c)
        f == CHOOSE g \in Range(table) : desc[g] = c
    IN  IF cmd \in {"HALF", "DETACH"}
        THEN /\ table' = Removed(f)
             /\ desc' = [desc EXCEPT ![f] = Nobody]
             /\ peer' = [peer EXCEPT ![c] = Settled([peer[c] EXCEPT !.end = "closed"])]
        ELSE /\ peer' = [peer EXCEPT ![c].tx = Tail(peer[c].tx)]
             /\ UNCHANGED <<desc, table>>

HandleClient(f) ==
    /\ IF Listed(f) THEN Hears(desc[f]) ELSE UNCHANGED <<desc, table, peer>>
    /\ UNCHANGED <<backlog, stop>>

\* What poll() reports for a listed descriptor.

\* Mutant: only data counts, a hang-up does not.
ReadableData(p) == p.tx # <<>>

Readable(p) == p.tx # <<>> \/ Broken(p)

(* The end of daemon_run: a last frame, and every descriptor closed.        *)
CloseAll ==
    /\ table' = <<>> /\ backlog' = <<>>
    /\ desc' = [f \in Fds |-> Nobody]
    /\ peer' = [c \in Clients |->
                  IF c \in Attached
                  THEN Settled([Sent(peer[c], "GOODBYE") EXCEPT !.end = "closed"])
                  ELSE IF c \in Range(backlog)
                  THEN Settled([peer[c] EXCEPT !.end = "closed"])
                  ELSE peer[c]]
    /\ UNCHANGED stop

-----------------------------------------------------------------------------
(* The client programs.                                                     *)

Connects(c, prog, open, tx) ==
    /\ peer[c].prog = "none"
    /\ \A b \in Clients : b < c => peer[b].prog # "none"
    /\ Len(backlog) < Backlog
    /\ backlog' = Append(backlog, c)
    /\ peer' = [peer EXCEPT ![c] = [prog |-> prog, open |-> open, end |-> "queued",
                                    tx |-> tx, rx |-> <<>>]]
    /\ UNCHANGED <<desc, table, stop>>

\* tui_run sends ATTACH and stays.
TuiStart(c) == Connects(c, "tui", TRUE, <<"ATTACH">>)

\* request: one command, closed at once unless it wants a reply.  irc-info
\* first connects and closes without a word.
CliStart(c) ==
    \/ Connects(c, "cli", TRUE, <<"STATUS">>)
    \/ \E tx \in {<<"MSG">>, <<"STOP">>, <<>>} : Connects(c, "cli", FALSE, tx)

Left(p, last) == Settled([p EXCEPT !.open = FALSE, !.tx = p.tx \o last])
Leaves(c, last) == peer' = [peer EXCEPT ![c] = Left(peer[c], last)]
DaemonGone(c) == peer[c].end \in {"shut", "closed"}

\* handle_submit: a terminal that writes to a connection the daemon has
\* closed dies of SIGPIPE.
TuiSubmit(c) ==
    /\ peer[c].prog = "tui" /\ peer[c].open
    /\ IF DaemonGone(c) THEN Leaves(c, <<>>)
       ELSE peer' = [peer EXCEPT ![c].tx = Append(@, "MSG")]
    /\ UNCHANGED <<desc, table, backlog, stop>>

\* /quit: DETACH and close; or killed: a command cut short counts as none.
TuiQuit(c) ==
    /\ peer[c].prog = "tui" /\ peer[c].open
    /\ \E last \in {<<"DETACH">>, <<>>} :
         Leaves(c, last)
    /\ UNCHANGED <<desc, table, backlog, stop>>

\* poll_events, and the reply of a one-shot command.
Stays(p) == p.prog = "tui" /\ Head(p.rx) # "GOODBYE"

ClientReads(c) ==
    LET p == peer[c]
        whole == p.rx # <<>> /\ Head(p.rx) # "half"
    IN
    /\ p.open
    /\ \/ whole /\ Stays(p) /\ peer' = [peer EXCEPT ![c].rx = Tail(@)]
       \/ (IF whole THEN ~Stays(p) ELSE DaemonGone(c)) /\ Leaves(c, <<>>)
    /\ UNCHANGED <<desc, table, backlog, stop>>

ClientTypeOK ==
    /\ desc \in [Fds -> Clients \cup {Nobody, IrcPeer}]
    /\ table \in Seq(Fds) /\ backlog \in Seq(Clients)
    /\ peer \in [Clients -> [prog : {"none", "tui", "cli"}, open : BOOLEAN,
                             end : {"none", "queued", "open", "shut", "closed"},
                             tx : Seq(Commands), rx : Seq(Frames)]]
    /\ stop \in BOOLEAN
=============================================================================
