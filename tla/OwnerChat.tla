----------------------------- MODULE OwnerChat ------------------------------
(***************************************************************************)
(* The conversation with the owner: the chat log that all agents share      *)
(* (src/src/session.c) and, per agent, the history it keeps between two      *)
(* sessions (conv, conv_id, conv_seq; src/src/agent.c).  Sessions of         *)
(* different agents run in threads of their own; each chat_* call is atomic  *)
(* under the log's lock, and anything may happen between two calls.  Only    *)
(* sessions that talk to the owner are modelled: the others do not touch     *)
(* the log or the kept history.                                              *)
(*                                                                         *)
(* silence is time(NULL) - last, saturating at Idle.                        *)
(***************************************************************************)
EXTENDS Naturals

CONSTANTS Agents,
          Cap,        \* TC_CHAT_LINES
          Idle,       \* conversation_timeout, in ticks
          ChatFaults, \* whether "memory" can run out
          MaxSeq      \* bound: lines ever added

ASSUME ChatAssumption ==
    /\ Agents # {}      \* daemon_run refuses to start without one
    /\ Cap \in Nat \ {0}
    /\ Idle \in Nat \ {0}
    /\ MaxSeq \in Nat

VARIABLES
    ring, next, n,    \* lines[TC_CHAT_LINES], where the next one goes, how many
    id, seq,          \* of the open conversation, of the newest line
    silence,
    stage, session,   \* per agent: where its session is, its local variables
    convs             \* per agent: the kept history (conv, conv_id, conv_seq)

(* History, read by properties only. *)
VARIABLES
    given,            \* per agent: lines its history was given, or said itself
    lapsed,           \* per agent: the chat fell silent since its session began
    since             \* per agent: the same, since its session ended

chat == <<ring, next, n, id, seq, silence>>
mine == <<stage, session, convs, given>>
chatVars == <<chat, mine, lapsed, since>>

Slots   == 0..Cap - 1
Line    == [seq : 0..MaxSeq, agent : Agents]
NoConv  == [kept |-> FALSE, id |-> 0, seq |-> 0]
NoSession == [kind |-> "irc", id |-> 0, seq |-> 0, resume |-> FALSE, shown |-> {}]

ChatInit ==
    /\ ring = [k \in Slots |-> [seq |-> 0, agent |-> CHOOSE a \in Agents : TRUE]]
    /\ next = 0 /\ n = 0
    /\ id = 0 /\ seq = 0
    /\ silence = Idle
    /\ stage = [a \in Agents |-> "over"]
    /\ session = [a \in Agents |-> NoSession]
    /\ convs = [a \in Agents |-> NoConv]
    /\ given = [a \in Agents |-> {}]
    /\ lapsed = [a \in Agents |-> FALSE]
    /\ since = [a \in Agents |-> FALSE]

-----------------------------------------------------------------------------
(* session.c *)

\* Mutant: the lines go, the conversation stays the same.
ExpireKeepsId(i) == i

\* chat_expire: nothing to close when there are no lines.
Expired == n > 0 /\ silence >= Idle
NewId(i) == i + 1

AfterExpire ==
    IF Expired THEN [next |-> 0, n |-> 0, id |-> NewId(id)]
    ELSE [next |-> next, n |-> n, id |-> id]

ChatId ==
    /\ next' = AfterExpire.next
    /\ n' = AfterExpire.n
    /\ id' = AfterExpire.id
    /\ UNCHANGED <<ring, seq, silence>>

NextSlot(k) == (k + 1) % Cap

ChatAdd(a) ==
    /\ seq < MaxSeq
    /\ seq' = seq + 1
    /\ silence' = 0
    /\ ring' = [ring EXCEPT ![AfterExpire.next] = [seq |-> seq + 1, agent |-> a]]
    /\ next' = NextSlot(AfterExpire.next)
    /\ n' = IF AfterExpire.n < Cap THEN AfterExpire.n + 1 ELSE AfterExpire.n
    /\ id' = AfterExpire.id

\* Mutant: the oldest slot is taken for the next one to write.
FromNext(i) == (next + i) % Cap

\* chat_render: the i-th oldest line, and the lines it prints.
Slot(i) == (next + Cap - n + i) % Cap
Rendered(after, skip) ==
    {ring[Slot(i)].seq : i \in {j \in 0..n - 1 :
        ring[Slot(j)].seq > after /\ ring[Slot(j)].agent \notin skip}}

-----------------------------------------------------------------------------
(* agent.c: the start of a session that talks to the owner.                 *)

Resumes(a, current) == convs[a].kept /\ convs[a].id = current

Open(a, kind) ==
    /\ stage[a] = "over"
    /\ ChatId
    /\ LET resume == Resumes(a, id')
       IN  /\ session' = [session EXCEPT ![a] =
                [kind |-> kind, id |-> id', seq |-> 0, resume |-> resume,
                 shown |-> {}]]
           /\ convs' = IF resume THEN convs ELSE [convs EXCEPT ![a] = NoConv]
           /\ given' = IF resume THEN given ELSE [given EXCEPT ![a] = {}]
    /\ stage' = [stage EXCEPT ![a] = "open"]
    /\ lapsed' = [lapsed EXCEPT ![a] = FALSE]
    /\ UNCHANGED since

\* What it already has, or said itself, is left out of a resumed history.
After(a)   == IF session[a].resume THEN convs[a].seq ELSE 0
Skipped(a) == IF session[a].resume THEN {a} ELSE {}

Render(a) ==
    /\ stage[a] = "open"
    /\ stage' = [stage EXCEPT ![a] = "start"]
    /\ session' = [session EXCEPT ![a].seq = seq,
                                  ![a].shown = Rendered(After(a), Skipped(a))]
    /\ UNCHANGED <<chat, convs, given, lapsed, since>>

\* Nothing is changed yet when memory runs out: a resumed history stays as it
\* was, without the turn that was being built.
NoMemory(a) ==
    /\ "memory" \in ChatFaults
    /\ stage[a] = "start"
    /\ stage' = [stage EXCEPT ![a] = "over"]
    /\ session' = [session EXCEPT ![a] = NoSession]
    /\ UNCHANGED <<chat, convs, given, lapsed, since>>

\* The history is taken over; the owner's own message is logged after the turn
\* that holds it.
Start(a) ==
    /\ stage[a] = "start"
    /\ stage' = [stage EXCEPT ![a] = "run"]
    /\ convs' = [convs EXCEPT ![a] = NoConv]
    /\ IF session[a].kind = "irc" THEN ChatAdd(a) ELSE UNCHANGED chat
    /\ given' = [given EXCEPT ![a] =
         @ \cup session[a].shown \cup seq + 1..seq']
    /\ UNCHANGED <<session, lapsed, since>>

\* A text reply, relayed to the owner.
Say(a) ==
    /\ stage[a] = "run"
    /\ ChatAdd(a)
    /\ given' = [given EXCEPT ![a] = @ \cup {seq + 1}]
    /\ UNCHANGED <<stage, session, convs, lapsed, since>>

\* Mutant: the number of the newest line at the end of the session.
SeqAtEnd(a) == seq

\* The end: a complete exchange that fits is kept, with the conversation and
\* the newest line as they were when the session began.  conv_fit may drop
\* older exchanges to make it fit: their lines have been given all the same,
\* since conv_seq does not go back for them.
SeqToKeep(a) == session[a].seq

ChatEnd(a) ==
    /\ stage[a] = "run"
    /\ stage' = [stage EXCEPT ![a] = "over"]
    /\ session' = [session EXCEPT ![a] = NoSession]
    /\ \/ /\ convs' = [convs EXCEPT ![a] =
                [kept |-> TRUE, id |-> session[a].id, seq |-> SeqToKeep(a)]]
          /\ UNCHANGED given
       \/ /\ given' = [given EXCEPT ![a] = {}]
          /\ UNCHANGED convs
    /\ since' = [since EXCEPT ![a] = FALSE]
    /\ UNCHANGED <<chat, lapsed>>

Tick ==
    /\ silence < Idle
    /\ silence' = silence + 1
    /\ LET quiet == silence + 1 = Idle
       IN  /\ lapsed' = [a \in Agents |-> lapsed[a] \/ quiet]
           /\ since' = [a \in Agents |-> since[a] \/ quiet]
    /\ UNCHANGED <<ring, next, n, id, seq, mine>>

ChatNext ==
    \/ \E a \in Agents :
         \/ \E kind \in {"irc", "other"} : Open(a, kind)
         \/ Render(a) \/ NoMemory(a) \/ Start(a) \/ Say(a) \/ ChatEnd(a)
    \/ Tick

ChatSpec == ChatInit /\ [][ChatNext]_chatVars

-----------------------------------------------------------------------------
(* Properties *)

Sessions == [kind : {"irc", "other"}, id : Nat, seq : 0..MaxSeq,
             resume : BOOLEAN, shown : SUBSET (1..MaxSeq)]

(* The type invariant: the indices of the ring stay inside it.              *)
ChatTypeOK ==
    /\ ring \in [Slots -> Line] /\ next \in Slots /\ n \in 0..Cap
    /\ id \in Nat /\ seq \in 0..MaxSeq /\ silence \in 0..Idle
    /\ stage \in [Agents -> {"over", "open", "start", "run"}]
    /\ session \in [Agents -> Sessions]
    /\ convs \in [Agents -> [kept : BOOLEAN, id : Nat, seq : 0..MaxSeq]]
    /\ given \in [Agents -> SUBSET (1..MaxSeq)]
    /\ lapsed \in [Agents -> BOOLEAN] /\ since \in [Agents -> BOOLEAN]

(* chat_render walks the ring oldest line first: whatever was overwritten   *)
(* or closed before, the i-th line it looks at is the i-th of the last n    *)
(* lines added.  (With the types.)                                          *)
RingInOrder ==
    ChatTypeOK /\ \A i \in 0..n - 1 : ring[Slot(i)].seq + n = seq + 1 + i

(* "each session that answers the owner continues the agent's own history   *)
(* [...] and learns what the other agents said since" (README): a new turn  *)
(* gives every line of the open conversation that the history was never     *)
(* given, and none a second time, although the other agents go on talking   *)
(* between the start of a session, its end and the next one.  (What the     *)
(* history has room to keep of it is AgentSession's conv_fit.)              *)
ShownOnce ==
    [][\A a \in Agents :
         stage[a] = "open" /\ stage'[a] = "start" =>
             /\ session'[a].shown \cap given[a] = {}
             /\ seq + 1 - n..seq \subseteq session'[a].shown \cup given[a]]_chatVars

\* A session of a begins.
Opens(a) == stage[a] = "over" /\ stage'[a] = "open"

(* A session resumes the kept history exactly when the chat did not fall    *)
(* silent for conversation_timeout since the session that left it began,    *)
(* whoever closed the conversation meanwhile.  A log without lines cannot   *)
(* fall silent: chat_expire leaves it open.                                 *)
ResumesWhileOpen ==
    [][\A a \in Agents :
         Opens(a) => (session'[a].resume <=> convs[a].kept /\ ~lapsed[a])]_chatVars

(* "While the conversation is open (a line less than conversation_timeout   *)
(* minutes ago), such a session appends one turn to the agent's previous    *)
(* history" (internals.md): the history a session kept goes on when no such *)
(* silence followed it.                                                     *)
OpenConversationContinues ==
    [][\A a \in Agents :
         Opens(a) /\ convs[a].kept /\ silence < Idle /\ ~since[a] =>
             session'[a].resume]_chatVars
=============================================================================
