---------------------------- MODULE LlmProvider ----------------------------
(***************************************************************************)
(* LLM calls (provider.c): llm_call with the retries of post_retry, and the *)
(* conversation it carries.  The history is kept in Anthropic's blocks; for *)
(* an OpenAI-compatible server append_openai_message converts it, and       *)
(* call_openai converts the reply back.  The session loop (agent.c), which  *)
(* answers every tool call and may add a text, is part of Converse.         *)
(***************************************************************************)
EXTENDS HttpClient, Lists, SequencesExt, FiniteSetsExt

CONSTANTS Providers,  \* subset of {"anthropic", "openai"}
          MaxWait,    \* cap on the wait before a retry (60)
          MaxTurns,   \* bound: replies in one conversation
          MaxCalls,   \* bound: tool calls in one reply
          ServerIds   \* bound: different ids the server gives to tool calls

ASSUME LlmAssumption ==
    MaxWait \in Nat /\ MaxTurns \in Nat /\ MaxCalls \in Nat /\ ServerIds \in Nat

VARIABLES
    call,     \* llm_call: [pc, prov, attempt, waited]
    history,  \* messages: [role, blocks]
    used      \* tool calls so far

(* History of the calls. *)
VARIABLES
    statuses  \* what the requests of the last call returned

llmVars == <<call, history, used, statuses>>

LlmInit ==
    /\ call \in [pc : {"idle"}, prov : Providers, attempt : {0}, waited : {0}]
    /\ history = <<[role |-> "user", blocks |-> <<[type |-> "text", id |-> 0]>>]>>
    /\ used = 0
    /\ statuses = <<>>

-----------------------------------------------------------------------------
(* What a request to the provider has to carry, and what anthropic_auth or  *)
(* openai_auth makes of the headers there are, before every attempt.        *)
Auth == IF call.prov = "anthropic" THEN <<"key", "version">> ELSE <<"key">>

WithAuth(hdrs) ==
    IF call.prov = "anthropic" THEN Added(Added(hdrs, "key"), "version")
    ELSE Added(hdrs, "key")

retryable == {"connect", "proto", "408", "429", "500"}
MaxRetries == 2

Retries(status, attempt) == attempt < MaxRetries /\ status \in retryable

\* retry_after, or 2 << (attempt * 2).
Wait(retryAfter, attempt) ==
    Min({MaxWait, IF retryAfter > 0 THEN retryAfter ELSE 2 * 4^attempt})

\* pc: "idle" before the first call, "ok" and "failed" after one.
LlmStart ==
    /\ turn = "thread" /\ call.pc \in {"idle", "ok", "failed"}
    /\ call' = [call EXCEPT !.pc = "trying", !.attempt = 0, !.waited = 0]
    /\ statuses' = <<>>
    /\ UNCHANGED <<httpVars, history, used>>

\* One attempt, and the wait after it.  A reply that was cut short has status
\* 200 and a body that does not parse.
LlmTry ==
    /\ call.pc = "trying"
    /\ \E status \in Errors \cup Codes :
         /\ DoRequest("thread",
                      [hdrs |-> WithAuth(net["thread"].hdrs), timeout |-> "llm"],
                      Auth, status)
         /\ statuses' = Append(statuses, status)
         /\ \/ status = "200" /\ \E end \in {"ok", "failed"} : call' = [call EXCEPT !.pc = end]
            \/ /\ Retries(status, call.attempt)
               /\ \E retryAfter \in {0, 1, 2 * MaxWait} :
                    call' = [call EXCEPT !.attempt = @ + 1,
                                         !.waited = @ + Wait(retryAfter, call.attempt)]
            \/ /\ status # "200" /\ ~Retries(status, call.attempt)
               /\ call' = [call EXCEPT !.pc = "failed"]
    /\ UNCHANGED <<turn, hop, history, used>>

-----------------------------------------------------------------------------
(* The conversation.  Blocks: a text, or a tool_use or tool_result with the *)
(* id of the call.  Ids: 0 is the empty one, 1..ServerIds are those that    *)
(* the server gives, as they are after the cut to 63 characters; the ones   *)
(* above are random.                                                        *)

Text == [type |-> "text", id |-> 0]
Use(id) == [type |-> "tool_use", id |-> id]
Result(id) == [type |-> "tool_result", id |-> id]
OfType(blocks, type) == Picked(blocks, {i \in DOMAIN blocks : blocks[i].type = type})

\* append_openai_message: the messages that one message becomes.  A tool
\* message carries the id it answers, an assistant the ids it calls.
Oai(role, ids) == [role |-> role, ids |-> ids]
Ids(blocks, type) == LET of == OfType(blocks, type) IN [i \in DOMAIN of |-> of[i].id]

UserText(m) == IF OfType(m.blocks, "text") # <<>> THEN <<Oai("user", <<>>)>> ELSE <<>>
ToolMessages(m) ==
    LET ids == Ids(m.blocks, "tool_result") IN [i \in DOMAIN ids |-> Oai("tool", <<ids[i]>>)]

AppendOpenai(m) ==
    IF m.role = "assistant" THEN <<Oai("assistant", Ids(m.blocks, "tool_use"))>>
    ELSE ToolMessages(m) \o UserText(m)

ToOpenai(h) == FlattenSeq([i \in DOMAIN h |-> AppendOpenai(h[i])])

\* call_openai: the blocks and the tool calls of a reply.  A call without a
\* name is skipped; the id that the server gave is kept, though it may have
\* given it before, and a call without one gets a random id.
ReplyCalls == [named : BOOLEAN, id : 0..ServerIds]

\* Mutant: a call without an id keeps the empty one.
IdEmpty(c, k) == c.id

Id(c, k) == IF c.id = 0 THEN ServerIds + k ELSE c.id

FromOpenai(calls) ==
    LET named == Picked(calls, {i \in DOMAIN calls : calls[i].named})
    IN  [i \in DOMAIN named |-> Id(named[i], used + i)]

\* One turn: the reply, unless it is empty, then what the session loop adds,
\* a result for each tool call or a text.
Converse(text, calls) ==
    LET ids == FromOpenai(calls)
        content == text \o [i \in DOMAIN ids |-> Use(ids[i])]
        answer == IF ids = <<>> THEN <<Text>> ELSE [i \in DOMAIN ids |-> Result(ids[i])]
    IN
    /\ Len(history) < 2 * MaxTurns
    /\ history' = history
         \o (IF content = <<>> THEN <<>> ELSE <<[role |-> "assistant", blocks |-> content]>>)
         \o <<[role |-> "user", blocks |-> answer]>>
    /\ used' = used + Len(ids)
    /\ UNCHANGED <<httpVars, call, statuses>>

-----------------------------------------------------------------------------
\* A plugin runs between two LLM calls; the last one is forgotten.
Between ==
    /\ call.pc # "trying" /\ HttpNext
    /\ call' = [call EXCEPT !.pc = "idle", !.attempt = 0, !.waited = 0]
    /\ statuses' = <<>>
    /\ UNCHANGED <<history, used>>

CallNext == LlmStart \/ LlmTry \/ Between
TalkNext == \E text \in {<<>>, <<Text>>}, calls \in SeqOf(ReplyCalls, MaxCalls) :
              Converse(text, calls)

LlmSpec == HttpInit /\ LlmInit /\ [][CallNext \/ TalkNext]_<<httpVars, llmVars>>

-----------------------------------------------------------------------------
(* Every request carries the headers set since the last request of its      *)
(* process, as many as there is room for, and no other: an LLM call's key   *)
(* is on each of its attempts and on no request of a plugin, a redirected   *)
(* request carries none, and only LLM calls use the long timeout.  An LLM   *)
(* call sends at most three requests, repeats one only after an error that  *)
(* retryable lists, and sleeps at most MaxWait between two.  (A GET that    *)
(* http_get refuses for its long URL is no request: NextCallOnly.)          *)
RequestsClean ==
    /\ sent.hdrs = sent.asked
    /\ sent.timeout = (IF sent.by = "thread" THEN "llm" ELSE "default")
    /\ sent.by = "thread" => sent.asked = Auth
    /\ Len(statuses) <= 3
    /\ \A i \in 1..(Len(statuses) - 1) :
         statuses[i] \in {"connect", "proto", "408", "429", "500"}
    /\ call.waited <= 2 * MaxWait
    /\ call.pc = "ok" => Last(statuses) = "200"

(* "void tc_http_header(const char *name, const char *value); (next call    *)
(* only)" (plugins/_template.c): a request carries no header that was set   *)
(* for an earlier call.                                                     *)
NextCallOnly == ~sent.stale

(* The ids in the messages of one role, one after the other.                *)
IdsOf(s, role) == FlattenSeq([j \in DOMAIN s |-> IF s[j].role = role THEN s[j].ids ELSE <<>>])

(* What an OpenAI-compatible server is sent is a conversation it accepts:   *)
(* every tool call has an id, of its own unless the server itself gave the  *)
(* id twice, and is answered, once, right after the message that made it    *)
(* and in its order, and nothing else is answered.                          *)
TranslationWellFormed ==
    LET s == ToOpenai(history)
        called == IdsOf(s, "assistant") IN
    /\ \A i, j \in DOMAIN called :
         called[i] > 0 /\ (called[i] = called[j] => i = j \/ called[i] <= ServerIds)
    /\ IdsOf(s, "tool") = called
    /\ \A j \in DOMAIN s :
         s[j].role = "assistant" =>
           \A i \in DOMAIN s[j].ids :
             j + i \in DOMAIN s /\ s[j + i] = Oai("tool", <<s[j].ids[i]>>)
=============================================================================
