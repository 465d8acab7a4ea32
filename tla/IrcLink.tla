------------------------------- MODULE IrcLink -------------------------------
(***************************************************************************)
(* The IRC link: irc.c, and irc_lost and irc_maintain of daemon.c.  The     *)
(* main thread connects, reads and drops the link; the server answers, goes *)
(* silent or closes.  Descriptors are handed in by the module that composes *)
(* the link with the control socket.                                        *)
(*                                                                         *)
(* A line is its command; a TLS record is the sequence of lines it carries  *)
(* (a line cut by a record boundary, which irc_poll keeps in readbuf, is    *)
(* left out); which nick a 433 leads to is left out too.  Time is counted   *)
(* in units: idle is now_ms() - last_rx, wait is irc_retry_at - now, 0 once *)
(* it has passed.  A pass of the main loop takes one unit when poll() times *)
(* out, and more when dispatch or plugin_scan has kept the loop.            *)
(***************************************************************************)
EXTENDS Integers, Sequences

CONSTANTS PingAfter, DropAfter,  \* irc_keepalive: 240 s and 420 s
          LostDelay, FailDelay,  \* first delay after a loss (5) and a failure (30)
          MaxDelay,              \* the cap on both (300)
          MaxPass                \* bound: the longest time between two poll()s

ASSUME LinkAssumption ==
    /\ PingAfter \in Nat /\ DropAfter \in Nat /\ PingAfter < DropAfter
    /\ LostDelay \in Nat \ {0} /\ FailDelay \in Nat /\ LostDelay <= FailDelay
    /\ MaxDelay \in Nat /\ FailDelay <= MaxDelay
    /\ MaxPass \in Nat \ {0}

NoFd == 0
Lines == {"PING", "PONG", "001", "433", "PRIVMSG"}

VARIABLES
    irc,     \* irc_t, with irc_backoff and irc_retry_at
    unread,  \* lines BearSSL has decrypted and irc_poll has not read
    server   \* the other end of the current connection

(* History, read by properties and bounds only. *)
VARIABLES
    floor,   \* LostDelay doubled at each connection that ended unregistered
    quiet,   \* time since the last one ended
    asked,   \* a PING of ours followed the last line received
    waited,  \* time since that PING
    longest, \* the longest pass since the last line received
    left     \* bound: what the environment may still do (see MainLoop)

silence == <<asked, waited, longest>>
linkVars == <<irc, unread, server, floor, quiet, silence>>

Spend(kind) == left[kind] > 0 /\ left' = [left EXCEPT ![kind] = @ - 1]

Down == [up |-> FALSE, mute |-> FALSE, wire |-> <<>>, owes |-> "nothing"]

LinkInit ==
    /\ irc = [fd |-> NoFd, registered |-> FALSE, pinged |-> FALSE, idle |-> 0,
              backoff |-> 0, wait |-> 0]
    /\ unread = <<>>
    /\ server = Down
    /\ floor = 0 /\ quiet = 0
    /\ asked = FALSE /\ waited = 0 /\ longest = 0

LinkUp == irc.fd # NoFd

-----------------------------------------------------------------------------
(* irc_lost, and the failure branch of irc_maintain.                        *)

Doubled(first) ==
    LET d == IF irc.backoff = 0 THEN first ELSE irc.backoff * 2
    IN  IF d > MaxDelay THEN MaxDelay ELSE d

\* History: a connection ends; floor is 0 if it had registered.
Ended == floor' = (IF floor = 0 THEN LostDelay ELSE 2 * floor) /\ quiet' = 0

\* irc_disconnect frees the TLS state and closes the descriptor.
IrcLost ==
    /\ irc' = [irc EXCEPT !.fd = NoFd, !.backoff = Doubled(LostDelay),
                          !.wait = Doubled(LostDelay)]
    /\ unread' = <<>>
    /\ server' = Down
    /\ Ended
    /\ UNCHANGED <<silence, left>>

IrcDisconnect ==
    /\ irc' = [irc EXCEPT !.fd = NoFd]
    /\ unread' = <<>>
    /\ server' = Down
    /\ UNCHANGED <<floor, quiet, silence, left>>

\* History: something was heard.
NotSilent == asked' = FALSE /\ waited' = 0 /\ longest' = 0

(* irc_connect on descriptor fd: the server has to answer NICK and USER.    *)

\* Mutant: a connection that opens resets the back-off.
OpenedAnew(fd) ==
    [irc EXCEPT !.fd = fd, !.registered = FALSE, !.pinged = FALSE, !.idle = 0,
                !.backoff = 0]

Opened(fd) ==
    [irc EXCEPT !.fd = fd, !.registered = FALSE, !.pinged = FALSE, !.idle = 0]

IrcConnect(fd) ==
    /\ irc' = Opened(fd)
    /\ unread' = <<>>
    /\ server' = [Down EXCEPT !.up = TRUE, !.owes = "welcome"]
    /\ quiet' = 0 /\ NotSilent
    /\ UNCHANGED <<floor, left>>

\* No route, no TLS anchors or a failed handshake; the descriptor is closed.
ConnectFails ==
    /\ Spend("faults")
    /\ irc' = [irc EXCEPT !.backoff = Doubled(FailDelay), !.wait = Doubled(FailDelay)]
    /\ Ended
    /\ UNCHANGED <<unread, server, silence>>

-----------------------------------------------------------------------------
(* handle_line.                                                             *)

\* Mutant: a line received does not take back the PING sent before it.
HeardOnly == [irc EXCEPT !.idle = 0]

Heard == [irc EXCEPT !.idle = 0, !.pinged = FALSE]

HandleLine(line) ==
    /\ irc' = [Heard EXCEPT !.registered = @ \/ line = "001"]
    /\ NotSilent
    /\ floor' = IF line = "001" THEN 0 ELSE floor
    /\ UNCHANGED <<quiet, left>>

\* A 433 is answered with another NICK.
Answered(line) == [server EXCEPT !.owes = IF line = "433" /\ server.up
                                          THEN "welcome" ELSE @]

(* irc_poll: one read and its line.  What BearSSL still holds is read by    *)
(* the same call, since poll() cannot see it.                               *)

IrcRead ==
    LET record == IF unread # <<>> THEN unread ELSE Head(server.wire)
        line == Head(record) IN
    /\ unread' = Tail(record)
    /\ server' = IF unread # <<>> THEN Answered(line)
                 ELSE [Answered(line) EXCEPT !.wire = Tail(@)]
    /\ HandleLine(line)

\* Mutant: irc_poll returns after one read.
NeverMore == FALSE

More == unread' # <<>>

\* read_some: the peer closed and everything it sent is read.
IrcEof == unread = <<>> /\ server.wire = <<>>

\* What poll() reports for the descriptor.
LinkReadable == LinkUp /\ (server.wire # <<>> \/ ~server.up)

-----------------------------------------------------------------------------
(* irc_maintain on a link that is up: irc_keepalive pings a silent server   *)
(* and gives up on one that stays silent.                                   *)

\* Mutant: only a link that has registered is given up.
SilentRegistered == irc.registered /\ irc.idle > DropAfter

Silent == irc.idle > DropAfter

KeepsLink ==
    LET ping == irc.idle > PingAfter /\ ~irc.pinged IN
    /\ ~Silent
    /\ irc' = [irc EXCEPT !.backoff = IF irc.registered THEN 0 ELSE @,
                          !.pinged = @ \/ ping]
    /\ asked' = (asked \/ ping) /\ waited' = (IF ping THEN 0 ELSE waited)
    /\ server' = [server EXCEPT !.owes = IF ping /\ @ = "nothing" THEN "pong" ELSE @]
    /\ UNCHANGED <<unread, floor, quiet, longest, left>>

\* A registered link has its back-off reset before it is lost.
DropsLink ==
    LET d == IF irc.registered THEN LostDelay ELSE Doubled(LostDelay) IN
    /\ Silent
    /\ irc' = [irc EXCEPT !.fd = NoFd, !.backoff = d, !.wait = d]
    /\ unread' = <<>>
    /\ server' = Down
    /\ Ended
    /\ UNCHANGED <<silence, left>>

\* now < irc_retry_at
MayRetry == irc.wait = 0

ServerAlive == server.up /\ ~server.mute

(* Time passes.  The server is late when it owes an answer; a pass of more  *)
(* than a unit is one that was kept.  Once the silence is over DropAfter it *)
(* is not counted further (a bound: the same pass ends the link).           *)
Counted == LinkUp /\ irc.idle <= DropAfter

LinkTick(d) ==
    LET late == ServerAlive /\ server.owes # "nothing" IN
    /\ irc' = [irc EXCEPT !.idle = IF Counted THEN @ + d ELSE @,
                          !.wait = IF @ > d THEN @ - d ELSE 0]
    /\ quiet' = IF LinkUp THEN quiet ELSE IF quiet + d < MaxDelay THEN quiet + d ELSE MaxDelay
    /\ waited' = IF Counted /\ asked THEN waited + d ELSE waited
    /\ longest' = IF d > longest THEN d ELSE longest
    /\ IF d > 1 \/ (d = 1 /\ late) THEN Spend("faults") ELSE UNCHANGED left
    /\ UNCHANGED <<unread, server, floor, asked>>

-----------------------------------------------------------------------------
(* The server.                                                              *)

Answers(line) ==
    server' = [server EXCEPT !.wire = Append(@, <<line>>), !.owes = "nothing"]

SrvAnswers ==
    /\ ServerAlive
    /\ \/ server.owes = "welcome" /\ Answers("001") /\ UNCHANGED left
       \/ server.owes = "welcome" /\ Answers("433") /\ Spend("taken")
       \/ server.owes = "pong" /\ Answers("PONG") /\ UNCHANGED left
    /\ UNCHANGED <<irc, unread, floor, quiet, silence>>

\* The owner speaks, alone in a record or right behind the server's own PING.
SrvSays ==
    /\ ServerAlive /\ irc.registered
    /\ Spend("lines")
    /\ \E record \in {<<"PRIVMSG">>, <<"PING", "PRIVMSG">>} :
         server' = [server EXCEPT !.wire = Append(@, record)]
    /\ UNCHANGED <<irc, unread, floor, quiet, silence>>

\* It closes the connection, or vanishes without a word.
SrvBreaks ==
    /\ ServerAlive
    /\ Spend("faults")
    /\ \/ server' = [server EXCEPT !.up = FALSE]
       \/ server' = [server EXCEPT !.mute = TRUE]
    /\ UNCHANGED <<irc, unread, floor, quiet, silence>>

LinkTypeOK ==
    /\ irc \in [fd : Nat, registered : BOOLEAN, pinged : BOOLEAN, idle : Nat,
                backoff : 0..MaxDelay, wait : 0..MaxDelay]
    /\ unread \in Seq(Lines)
    /\ server \in [up : BOOLEAN, mute : BOOLEAN, wire : Seq(Seq(Lines)),
                   owes : {"nothing", "welcome", "pong"}]
    /\ floor \in Nat /\ quiet \in 0..MaxDelay
    /\ asked \in BOOLEAN /\ waited \in Nat /\ longest \in Nat
=============================================================================
