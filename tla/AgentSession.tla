---------------------------- MODULE AgentSession ----------------------------
(***************************************************************************)
(* One agent's sessions (src/src/agent.c, agent_run_session): the loop that *)
(* calls the model, runs the tools it asks for, nudges it when it stalls,   *)
(* answers the agents that wrote, and keeps the conversation with the owner *)
(* for the next session.  The model is free: at every call it may fail,     *)
(* refuse, say anything and ask for any tools.                              *)
(*                                                                         *)
(* A tool call is a record: the tool, the recipient when it is a            *)
(* send_message ("-" otherwise), and whether its arguments are an object    *)
(* that fits the schema.  Two calls are the same when the records are: the  *)
(* code compares a 64-bit hash of the name and the arguments.  A history    *)
(* is the sequence of its turns, each reduced to what later code looks at:  *)
(* "user" (text), "results" (a user turn of tool results), "calls" (an      *)
(* assistant turn with tool calls), "assistant" (one without).              *)
(***************************************************************************)
EXTENDS Naturals, Sequences

CONSTANTS Peers,      \* the other agents
          Calls,      \* tool calls the model may make
          Triggers,   \* triggers a session may start from
          Roles,      \* agents: which of "hub", "builder" are set
          TableCap,   \* entries of call_hash
          SentCap,    \* entries of sent_to
          MaxTurns,   \* max_turns
          Faults,     \* which of "memory", "deliver" can happen
          MaxBatch,   \* bound: tool calls in one reply
          ConvMax     \* bound: turns of a kept conversation

ASSUME SessionAssumption ==
    /\ Peers \cap {"owner", "all", "nobody", "-"} = {}
    /\ Calls \subseteq
         [tool : {"send_message", "list_agents", "create_plugin", "read_file",
                  "exec", "plugin", "invented"},
          to   : Peers \cup {"owner", "all", "nobody", "-"},
          args : {"good", "notObject", "badValue"}]
    /\ Triggers \subseteq
         [type : {"irc", "schedule", "mail"},
          mails : SUBSET [from : Peers, reply : BOOLEAN]]
    /\ Roles \subseteq SUBSET {"hub", "builder"}
    /\ TableCap \in Nat \ {0} /\ SentCap \in Nat \ {0}
    /\ MaxTurns \in Nat \ {0} /\ MaxBatch \in Nat \ {0}
    /\ ConvMax \in Nat

VARIABLES
    pc,             \* "llm": before llm_call; "tools": running the calls of a
                    \* reply; "finish": loop left; "over": returned
    trigger, role,  \* what started the session; the agent's configuration
    turn, batch,    \* loop index; tool calls run of the current reply
    messages,       \* the history given to the model
    conv,           \* agent->conv: the kept conversation, <<>> for NULL
    outcome,        \* "completed" or "failed"
    answer, notice  \* last text reply; harness notice for the requester

(* session_state_t *)
VARIABLES
    retryUsed,      \* which of the nudges "builder", "hub", "empty" were used
    pluginDone, pluginFailed, sentMessage, listedAgents,
    blockedRepeats, \* repeated calls refused
    sentTo,         \* agents already messaged
    callCount, nCalls   \* repeated_call's table: count 0 = not in it

(* History, read by properties only. *)
VARIABLES
    runs,           \* per call: how often it got past repeated_call
    marked,         \* per peer: mails of this session marked as an answer
    unmarked,       \* peers this session sent a request to
    unsent          \* requesters whose answer could not be delivered

loop    == <<pc, trigger, role, turn, batch, messages, conv, outcome, answer, notice>>
harness == <<retryUsed, pluginDone, pluginFailed, sentMessage, listedAgents,
             blockedRepeats, sentTo, callCount, nCalls>>
mail    == <<runs, marked, unmarked, unsent>>
vars    == <<loop, harness, mail>>

-----------------------------------------------------------------------------
(* parse_trigger: who waits for an answer, and whether the text goes to the *)
(* owner.                                                                   *)

Requesters(t) ==
    IF t.type # "mail" THEN {} ELSE {m.from : m \in {k \in t.mails : ~k.reply}}

Relay(t) == t.type # "mail" \/ Requesters(t) = {}

\* Before the first session nobody waits for anything.
NoTrigger == [type |-> "irc", mails |-> {}]

Init ==
    /\ pc = "over"
    /\ trigger = NoTrigger
    /\ role \in Roles
    /\ turn = 0 /\ batch = 0
    /\ messages = <<>> /\ conv = <<>>
    /\ outcome = "completed" /\ answer = "none" /\ notice = "none"
    /\ retryUsed = {}
    /\ pluginDone = FALSE /\ pluginFailed = FALSE
    /\ sentMessage = FALSE /\ listedAgents = FALSE
    /\ blockedRepeats = 0
    /\ sentTo = <<>>
    /\ callCount = [c \in Calls |-> 0] /\ nCalls = 0
    /\ runs = [c \in Calls |-> 0]
    /\ marked = [p \in Peers |-> 0]
    /\ unmarked = {} /\ unsent = {}

(* The start of agent_run_session.  A session that talks to the owner goes  *)
(* on with the kept conversation while the chat it belongs to is open, and  *)
(* throws it away otherwise.  Without memory it returns at once, and nobody *)
(* is answered.                                                             *)
Begin(t) ==
    /\ pc = "over"
    /\ trigger' = t
    /\ turn' = 0 /\ batch' = 0
    /\ answer' = "none" /\ notice' = "none"
    /\ retryUsed' = {}
    /\ pluginDone' = FALSE /\ pluginFailed' = FALSE
    /\ sentMessage' = FALSE /\ listedAgents' = FALSE
    /\ blockedRepeats' = 0
    /\ sentTo' = <<>>
    /\ callCount' = [c \in Calls |-> 0] /\ nCalls' = 0
    /\ runs' = [c \in Calls |-> 0]
    /\ marked' = [p \in Peers |-> 0]
    /\ unmarked' = {}
    /\ \E open \in BOOLEAN :              \* conv_id is still the chat's id
         LET resume == Relay(t) /\ conv # <<>> /\ open
         IN  \/ /\ pc' = "llm"
                /\ messages' = (IF resume THEN conv ELSE <<>>) \o <<"user">>
                /\ conv' = IF Relay(t) THEN <<>> ELSE conv
                /\ outcome' = "completed" /\ unsent' = {}
             \/ /\ "memory" \in Faults
                /\ messages' = <<>>
                /\ conv' = IF Relay(t) /\ ~resume THEN <<>> ELSE conv
                /\ outcome' = "failed" /\ unsent' = Requesters(t)
                /\ UNCHANGED pc
    /\ UNCHANGED role

-----------------------------------------------------------------------------
(* Leaving the loop, or going round it once more.                           *)

Break(out) == pc' = "finish" /\ outcome' = out /\ UNCHANGED turn

\* The for statement: the next turn, or max_turns is reached.
Continue ==
    /\ turn' = turn + 1
    /\ pc' = IF turn + 1 < MaxTurns THEN "llm" ELSE "finish"
    /\ notice' = IF turn + 1 < MaxTurns THEN notice ELSE "maxTurns"
    /\ UNCHANGED outcome

\* Mutant: a failed call starts the session's history and turns afresh.
LlmRestarts ==
    /\ pc = "llm"
    /\ turn' = 0 /\ messages' = <<"user">>
    /\ UNCHANGED <<pc, trigger, role, batch, conv, outcome, answer, notice,
                   harness, mail>>

LlmFails ==
    /\ pc = "llm"
    /\ notice' = "llmError"
    /\ Break("failed")
    /\ UNCHANGED <<trigger, role, batch, messages, conv, answer, harness, mail>>

\* The text of a reply: none, some, or some that holds a plugin's code.
Texts == {"none", "words", "code"}
TakeText(text) == answer' = IF text = "none" THEN answer ELSE "text"

\* A reply with neither text nor tools may be an empty turn (not added to the
\* history) or hold only thinking.
Contents(text) == IF text = "none" THEN {<<>>, <<"assistant">>} ELSE {<<"assistant">>}

-----------------------------------------------------------------------------
(* A reply without tool calls.                                              *)

Refusal ==
    /\ pc = "llm"
    /\ \E text \in Texts : \E content \in Contents(text) :
         TakeText(text) /\ messages' = messages \o content
    /\ notice' = "refused"
    /\ Break(outcome)
    /\ UNCHANGED <<trigger, role, batch, conv, harness, mail>>

Nudge(kind, history) ==
    /\ kind \notin retryUsed
    /\ retryUsed' = retryUsed \cup {kind}
    /\ messages' = Append(history, "user")
    /\ Continue
    /\ UNCHANGED pluginDone

Stalled(history) ==
    /\ "builder" \in retryUsed
    /\ messages' = history
    /\ notice' = "stalled"
    /\ Break("failed")
    /\ UNCHANGED <<retryUsed, pluginDone>>

Done(history) ==
    /\ messages' = history
    /\ Break(outcome)
    /\ UNCHANGED <<retryUsed, pluginDone, notice>>

\* after_text_reply for a builder without a plugin yet: code printed as text
\* is compiled all the same.
BuilderReply(text, history) ==
    \/ /\ text = "code"
       /\ \/ /\ pluginDone' = TRUE
             /\ notice' = "plugin"
             /\ messages' = history
             /\ Break(outcome)
             /\ UNCHANGED retryUsed
          \/ Nudge("builder", history)
          \/ Stalled(history)
    \/ /\ text # "code" \/ "memory" \in Faults
       /\ IF trigger.type # "mail" /\ ~pluginFailed
          THEN Done(history)
          ELSE Nudge("builder", history) \/ Stalled(history)

HubStalls == "hub" \in role /\ listedAgents /\ ~sentMessage /\ "hub" \notin retryUsed

OtherReply(text, history) ==
    IF HubStalls THEN Nudge("hub", history)
    ELSE IF text = "none" /\ "empty" \notin retryUsed THEN Nudge("empty", history)
    ELSE Done(history)

TextReply ==
    /\ pc = "llm"
    /\ \E text \in Texts : \E content \in Contents(text) :
         /\ TakeText(text)
         /\ IF "builder" \in role /\ ~pluginDone
            THEN BuilderReply(text, messages \o content)
            ELSE OtherReply(text, messages \o content)
    /\ UNCHANGED <<trigger, role, batch, conv, pluginFailed, sentMessage,
                   listedAgents, blockedRepeats, sentTo, callCount, nCalls, mail>>

-----------------------------------------------------------------------------
(* A reply with tool calls.                                                 *)

ToolReply ==
    /\ pc = "llm"
    /\ \E text \in Texts : TakeText(text)
    /\ messages' = Append(messages, "calls")
    /\ pc' = "tools"
    /\ batch' = 0
    /\ UNCHANGED <<trigger, role, turn, conv, outcome, notice, harness, mail>>

\* tools_to_json and tool_offered; plugins are offered to everyone.
Offered(c) ==
    IF "builder" \in role
    THEN c.tool \in {"read_file", "exec", "create_plugin", "send_message", "plugin"}
    ELSE c.tool \notin {"create_plugin", "invented"}

Limit(c) == IF "builder" \in role /\ c.tool = "read_file" THEN 1 ELSE 2

\* repeated_call: counts the call; TRUE when it must not run again.  A call
\* that finds the table full is not counted.
Tracked(c) == callCount[c] > 0 \/ nCalls < TableCap

\* Mutant: off by one.
RepeatedLate(c) == callCount[c] > Limit(c)

RepeatedCall(c) == callCount[c] > 0 /\ callCount[c] + 1 > Limit(c)

CountCall(c) ==
    /\ callCount' = IF Tracked(c) THEN [callCount EXCEPT ![c] = @ + 1] ELSE callCount
    /\ nCalls' = IF callCount[c] = 0 /\ Tracked(c) THEN nCalls + 1 ELSE nCalls

\* The tail of the loop over tool calls: flags set from the call's name and
\* its result, refused calls included.
NoteResult(c, ok) ==
    /\ pluginFailed' = IF c.tool = "create_plugin" THEN ~ok ELSE pluginFailed
    /\ pluginDone' = (pluginDone \/ (c.tool = "create_plugin" /\ ok))
    /\ notice' = IF c.tool = "create_plugin" /\ ok THEN "plugin" ELSE notice
    /\ listedAgents' = (listedAgents \/ c.tool = "list_agents")
    /\ batch' = batch + 1
    /\ UNCHANGED <<pc, trigger, role, turn, messages, conv, outcome, answer, retryUsed>>

NextCall == pc = "tools" /\ batch < MaxBatch

\* Unknown tool, or arguments that are not an object: refused, not counted.
ToolRejected(c) ==
    /\ NextCall
    /\ ~Offered(c) \/ c.args = "notObject"
    /\ NoteResult(c, FALSE)
    /\ UNCHANGED <<sentMessage, blockedRepeats, sentTo, callCount, nCalls, mail>>

ToolRepeated(c) ==
    /\ NextCall
    /\ Offered(c) /\ c.args # "notObject"
    /\ RepeatedCall(c)
    /\ CountCall(c)
    /\ blockedRepeats' = blockedRepeats + 1
    /\ NoteResult(c, FALSE)
    /\ UNCHANGED <<sentMessage, sentTo, mail>>

Runs(c) ==
    /\ NextCall
    /\ Offered(c) /\ c.args # "notObject"
    /\ ~RepeatedCall(c)
    /\ CountCall(c)
    /\ runs' = [runs EXCEPT ![c] = @ + 1]

\* Any tool but send_message: it may fail, and a built-in one does when an
\* argument does not fit the schema.
ToolRuns(c) ==
    /\ Runs(c)
    /\ c.tool # "send_message"
    /\ \E ok \in {TRUE, FALSE} :
         /\ c.args = "badValue" /\ c.tool # "plugin" => ~ok
         /\ NoteResult(c, ok)
    /\ UNCHANGED <<sentMessage, blockedRepeats, sentTo, marked, unmarked, unsent>>

RememberSent(name) ==
    sentTo' = IF Len(sentTo) < SentCap THEN Append(sentTo, name) ELSE sentTo

\* send_message that is not delivered: bad arguments, an unknown name or the
\* agent's own, a file that cannot be written.
SendFails(c) ==
    /\ Runs(c)
    /\ c.tool = "send_message"
    /\ \/ c.args = "badValue"
       \/ c.to = "nobody"
       \/ c.to \in Peers /\ "deliver" \in Faults
    /\ NoteResult(c, FALSE)
    /\ UNCHANGED <<sentMessage, blockedRepeats, sentTo, marked, unmarked, unsent>>

IsRequester(p) == p \in Requesters(trigger)

SendsTo(c) ==
    /\ Runs(c)
    /\ c.tool = "send_message" /\ c.args = "good"
    /\ c.to \in Peers \cup {"owner"}
    /\ sentMessage' = TRUE
    /\ RememberSent(c.to)
    /\ marked' = IF IsRequester(c.to) THEN [marked EXCEPT ![c.to] = @ + 1] ELSE marked
    /\ unmarked' = IF c.to \in Peers /\ ~IsRequester(c.to)
                   THEN unmarked \cup {c.to} ELSE unmarked
    /\ NoteResult(c, TRUE)
    /\ UNCHANGED <<blockedRepeats, unsent>>

\* "all": every other agent, as requests, failures of single mails ignored.
Broadcasts(c) ==
    /\ Runs(c)
    /\ c.tool = "send_message" /\ c.args = "good" /\ c.to = "all"
    /\ sentMessage' = TRUE
    /\ \E reached \in SUBSET Peers :
         /\ reached = Peers \/ "deliver" \in Faults
         /\ unmarked' = unmarked \cup reached
    /\ NoteResult(c, TRUE)
    /\ UNCHANGED <<blockedRepeats, sentTo, marked, unsent>>

\* Mutant: one refusal too late.
OneMoreBlocked == 4

MaxBlocked == 3

\* The results go into the history as one user turn; a session that keeps
\* repeating itself stops.
ToolsEnd ==
    /\ pc = "tools"
    /\ batch > 0
    /\ messages' = Append(messages, "results")
    /\ IF blockedRepeats >= MaxBlocked
       THEN Break("failed") /\ notice' = "stuck"
       ELSE Continue
    /\ UNCHANGED <<trigger, role, batch, conv, answer, harness, mail>>

-----------------------------------------------------------------------------
(* The end of agent_run_session.                                            *)

\* conv_fit: exchanges are dropped from the second user text on, as many as
\* it takes.  Sizes are not modelled: any number of them may have to go.
\* Mutant: also cuts at tool results, which are user turns too.
UserTurns(m) == {i \in 2..Len(m) : m[i] \in {"user", "results"}}

UserTexts(m) == {i \in 2..Len(m) : m[i] = "user"}

SecondTexts(m) == {i \in UserTexts(m) : \A l \in UserTexts(m) : i <= l}
Cut(m, i, j) == SubSeq(m, 1, i - 1) \o SubSeq(m, j, Len(m))

ConvFits(m) ==
    {m} \cup (UNION {{Cut(m, i, j) : j \in UserTexts(m)} : i \in SecondTexts(m)})

\* deliver_answer: whoever waits and was not written to during the session.
SentToSet == {sentTo[i] : i \in 1..Len(sentTo)}

\* Mutants: any message sent counts as an answer; everyone is answered.
UnlessSent == IF sentMessage THEN {} ELSE Requesters(trigger)
EveryRequester == Requesters(trigger)

Unanswered == Requesters(trigger) \ SentToSet

DeliverAnswer ==
    \E failed \in SUBSET Unanswered :
        /\ failed # {} => \/ "deliver" \in Faults
                          \/ "memory" \in Faults /\ failed = Unanswered
        /\ marked' = [p \in Peers |->
             IF p \in Unanswered \ failed THEN marked[p] + 1 ELSE marked[p]]
        /\ unsent' = failed

\* Only complete exchanges are kept.
Complete == outcome = "completed" /\ messages[Len(messages)] = "assistant"

Finish ==
    /\ pc = "finish"
    /\ DeliverAnswer
    /\ \/ /\ Relay(trigger) /\ Complete
          /\ \E m \in ConvFits(messages) : Len(m) <= ConvMax /\ conv' = m
       \/ UNCHANGED conv                       \* no owner, or it does not fit
    /\ messages' = <<>>
    /\ pc' = "over"
    /\ UNCHANGED <<trigger, role, turn, batch, outcome, answer, notice, harness,
                   runs, unmarked>>

RunTool(c) ==
    \/ ToolRejected(c) \/ ToolRepeated(c) \/ ToolRuns(c)
    \/ SendFails(c) \/ SendsTo(c) \/ Broadcasts(c)

Working ==
    \/ LlmFails \/ Refusal \/ TextReply \/ ToolReply
    \/ \E c \in Calls : RunTool(c)
    \/ ToolsEnd \/ Finish

Next == Working \/ \E t \in Triggers : Begin(t)

Spec == Init /\ [][Next]_vars

(* A session that has begun goes on: llm_call and every tool return, the    *)
(* provider and the children they wait for have timeouts.                   *)
FairSpec == Spec /\ WF_vars(Working)

-----------------------------------------------------------------------------
(* Properties *)

Turns == {"user", "results", "calls", "assistant"}

LoopType ==
    /\ pc \in {"llm", "tools", "finish", "over"}
    /\ trigger \in Triggers \cup {NoTrigger}
    /\ role \in Roles
    /\ turn \in 0..MaxTurns /\ batch \in 0..MaxBatch
    /\ outcome \in {"completed", "failed"}
    /\ answer \in {"none", "text"}
    /\ notice \in {"none", "llmError", "refused", "stalled", "plugin", "stuck", "maxTurns"}

HistoryType == messages \in Seq(Turns) /\ conv \in Seq(Turns)

FlagType ==
    /\ retryUsed \subseteq {"builder", "hub", "empty"}
    /\ pluginDone \in BOOLEAN /\ pluginFailed \in BOOLEAN
    /\ sentMessage \in BOOLEAN /\ listedAgents \in BOOLEAN

TableType ==
    /\ blockedRepeats \in Nat
    /\ sentTo \in Seq(Peers \cup {"owner"}) /\ Len(sentTo) <= SentCap
    /\ callCount \in [Calls -> Nat] /\ nCalls \in 0..TableCap
    /\ runs \in [Calls -> Nat]
    /\ marked \in [Peers -> Nat]
    /\ unmarked \subseteq Peers /\ unsent \subseteq Peers

(* The type invariant: the tables never outgrow their arrays, the turn never *)
(* passes max_turns.                                                         *)
TypeOK == LoopType /\ HistoryType /\ FlagType /\ TableType

(* "Requests from other agents always get an answer, even when a small      *)
(* model forgets send_message or the session fails" (deliver_answer): when  *)
(* a session returns, every agent that waits has a mail marked as an        *)
(* answer, unless that mail itself could not be written or there was no     *)
(* memory - whatever the model did and however the session ended.  (With    *)
(* the types.)                                                              *)
RequestersAnswered ==
    /\ TypeOK
    /\ pc = "over" => \A p \in Requesters(trigger) : marked[p] > 0 \/ p \in unsent

(* The harness adds no second answer to the one the model sent itself,      *)
(* unless sent_to was full and could not remember it.                       *)
NoSecondAnswer ==
    [][pc = "finish" =>
         \A p \in Peers : marked[p] > 0 /\ marked'[p] > marked[p] =>
             Len(sentTo) = SentCap]_vars

(* "Same call (tool and arguments) a third time: Refused" (internals.md):   *)
(* the same call runs at most twice in a session (once for a builder's      *)
(* read_file), unless the table of calls was full when it first came - the  *)
(* document does not mention that exception, the code has it.               *)
RepeatsRefused ==
    \A c \in Calls :
        runs[c] > Limit(c) => callCount[c] = 0 /\ nCalls = TableCap

(* "a session that keeps repeating itself is stopped" (internals.md): after *)
(* three refused repeats the model is not called again.                     *)
StuckStops == pc = "llm" => blockedRepeats < 3

(* What a provider requires of a history, at every call of the model and in *)
(* every kept conversation, however conv_fit shortened it: it starts with a *)
(* user turn, tool calls are followed by their results and results follow   *)
(* their calls, the assistant never speaks twice in a row, and the model is *)
(* called after a user turn only.                                           *)
WellFormed(m) ==
    /\ m[1] = "user"
    /\ \A i \in 1..Len(m) :
         /\ m[i] = "calls" => i < Len(m) /\ m[i + 1] = "results"
         /\ m[i] = "results" => m[i - 1] = "calls"
         /\ m[i] = "assistant" => i = Len(m) \/ m[i + 1] = "user"

HistoryWellFormed ==
    /\ pc = "llm" =>
         WellFormed(messages) /\ messages[Len(messages)] \in {"user", "results"}
    /\ conv # <<>> => WellFormed(conv) /\ conv[Len(conv)] = "assistant"

(* Every session returns: the turns are bounded and no nudge, refusal or    *)
(* failed call goes round the loop for free.                                *)
SessionEnds == pc # "over" ~> pc = "over"

(* "Answering the requester: marked as an answer, so it cannot start a new  *)
(* request (two agents would ping-pong)" (run_tool): a session sends its    *)
(* requester nothing that counts as a request.                              *)
NoPingPong == unmarked \cap Requesters(trigger) = {}
=============================================================================
