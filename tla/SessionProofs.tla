---------------------------- MODULE SessionProofs ----------------------------
(***************************************************************************)
(* Proofs about the session loop and its harness, for any tools, triggers,  *)
(* roles and table sizes, and whatever the model replies: every requester   *)
(* is answered, once; repeats are refused; the history stays one that a     *)
(* provider accepts.                                                        *)
(***************************************************************************)
EXTENDS AgentSession, SequenceTheorems, TLAPS

(* The loop is entered again only while turns are left. *)
TurnsLeft == pc \in {"llm", "tools"} => turn < MaxTurns

(* Who was sent a message is remembered while sent_to has room, and a       *)
(* requester that was sent one has an answer.                               *)
AnswersKnown ==
    pc # "over" => \A p \in Peers :
        /\ p \in Requesters(trigger) /\ p \in SentToSet => marked[p] > 0
        /\ marked[p] > 0 => p \in SentToSet \/ Len(sentTo) = SentCap

(* A call in the table ran at most as often as it was counted and allowed;  *)
(* one that is not in it ran only if the table was full.                    *)
RunsCounted ==
    \A c \in Calls :
        /\ callCount[c] > 0 => runs[c] <= callCount[c] /\ runs[c] <= Limit(c)
        /\ callCount[c] = 0 /\ runs[c] > 0 => nCalls = TableCap

(* A history that is well formed, up to tool calls at its end that still    *)
(* have no results.                                                         *)
Chain(m) ==
    /\ Len(m) >= 1 /\ m[1] = "user"
    /\ \A i \in 1..Len(m) - 1 : /\ m[i] = "calls" <=> m[i + 1] = "results"
                                /\ m[i] = "assistant" => m[i + 1] = "user"
Last(m) == m[Len(m)]

HistoryChained ==
    /\ pc = "llm" => Chain(messages) /\ Last(messages) \in {"user", "results"}
    /\ pc = "tools" => Chain(messages) /\ Last(messages) = "calls"
    /\ pc = "finish" => Chain(messages) /\ Last(messages) # "calls"
    /\ conv # <<>> => Chain(conv) /\ Last(conv) = "assistant"

-----------------------------------------------------------------------------
(* Types *)

(* Those who wait for an answer are other agents. *)
LEMMA RequestersArePeers ==
    ASSUME NEW t \in Triggers \cup {NoTrigger}
    PROVE  Requesters(t) \subseteq Peers
<1>1. CASE t = NoTrigger
  BY <1>1 DEF Requesters, NoTrigger
<1>2. CASE t \in Triggers
  <2>1. t.mails \subseteq [from : Peers, reply : BOOLEAN]
    BY <1>2, SessionAssumption DEF SessionAssumption
  <2> QED
    BY <2>1 DEF Requesters
<1> QED
  BY <1>1, <1>2

(* The turn that a reply adds to the history, if any. *)
LEMMA ReplyTurns ==
    ASSUME NEW m \in Seq(Turns), NEW text, NEW content \in Contents(text)
    PROVE  m \o content \in {m, Append(m, "assistant")}
<1>1. content = <<>> \/ content = <<"assistant">>
  BY DEF Contents
<1>2. m \o <<>> = m
  BY ConcatEmptySeq
<1>3. m \o <<"assistant">> = Append(m, "assistant")
  BY AppendIsConcat DEF Turns
<1> QED
  BY <1>1, <1>2, <1>3

\* What a step may write into the notice for the requester.
Notices == {"none", "llmError", "refused", "stalled", "plugin", "stuck", "maxTurns"}

\* The step leaves the loop, or goes round it once more with history h.
Leaves(h) == pc' = "finish" /\ turn' = turn /\ messages' = h
GoesOn(h) ==
    /\ pc' = IF turn + 1 < MaxTurns THEN "llm" ELSE "finish"
    /\ turn' = turn + 1 /\ messages' = h

(* after_text_reply ends the session or nudges the model with one more user *)
(* turn.                                                                    *)
LEMMA TextReplyEffect ==
    ASSUME TypeOK, TextReply
    PROVE  /\ pc = "llm"
           /\ \E h \in {messages, Append(messages, "assistant")} :
                Leaves(h) \/ GoesOn(Append(h, "user"))
           /\ outcome' \in {outcome, "failed"} /\ notice' \in {notice} \cup Notices
           /\ answer' \in {answer, "text"}
           /\ retryUsed' \subseteq retryUsed \cup {"builder", "hub", "empty"}
           /\ pluginDone' \in {pluginDone, TRUE}
           /\ UNCHANGED <<trigger, role, batch, conv, pluginFailed, sentMessage,
                          listedAgents, blockedRepeats, sentTo, callCount, nCalls, mail>>
<1>0. PICK text \in Texts : \E content \in Contents(text) :
        /\ TakeText(text)
        /\ IF "builder" \in role /\ ~pluginDone
           THEN BuilderReply(text, messages \o content)
           ELSE OtherReply(text, messages \o content)
  BY DEF TextReply
<1>1. PICK content \in Contents(text) :
        /\ TakeText(text)
        /\ IF "builder" \in role /\ ~pluginDone
           THEN BuilderReply(text, messages \o content)
           ELSE OtherReply(text, messages \o content)
  BY <1>0
<1> DEFINE h == messages \o content
<1>2. h \in {messages, Append(messages, "assistant")}
  BY ReplyTurns DEF TypeOK, HistoryType
<1>3. ASSUME NEW kind \in {"builder", "hub", "empty"}, Nudge(kind, h)
      PROVE  /\ GoesOn(Append(h, "user"))
             /\ outcome' = outcome /\ notice' \in {notice} \cup Notices
             /\ retryUsed' \subseteq retryUsed \cup {"builder", "hub", "empty"}
             /\ pluginDone' = pluginDone
  BY <1>3 DEF Nudge, Continue, GoesOn, Notices
<1>4. ASSUME Stalled(h) \/ Done(h)
      PROVE  /\ Leaves(h)
             /\ outcome' \in {outcome, "failed"} /\ notice' \in {notice} \cup Notices
             /\ retryUsed' = retryUsed /\ pluginDone' = pluginDone
  BY <1>4 DEF Stalled, Done, Break, Leaves, Notices
<1>5. CASE BuilderReply(text, h)
  <2> HIDE DEF h
  <2>1. CASE /\ pluginDone' = TRUE /\ notice' = "plugin" /\ messages' = h
             /\ Break(outcome) /\ UNCHANGED retryUsed
    BY <1>1, <1>2, <2>1 DEF TextReply, Break, Leaves, TakeText, Notices
  <2>2. CASE Nudge("builder", h)
    BY <1>1, <1>2, <1>3, <2>2 DEF TextReply, TakeText
  <2>3. CASE Stalled(h) \/ Done(h)
    BY <1>1, <1>2, <1>4, <2>3 DEF TextReply, TakeText
  <2> QED
    BY <1>5, <2>1, <2>2, <2>3 DEF BuilderReply
<1>6. CASE OtherReply(text, h)
  <2> HIDE DEF h
  <2>1. CASE Nudge("hub", h) \/ Nudge("empty", h)
    BY <1>1, <1>2, <1>3, <2>1 DEF TextReply, TakeText
  <2>2. CASE Done(h)
    BY <1>1, <1>2, <1>4, <2>2 DEF TextReply, TakeText
  <2> QED
    BY <1>6, <2>1, <2>2 DEF OtherReply
<1> QED
  BY <1>1, <1>5, <1>6

(* A tool call, run or refused, leaves the loop's own state alone.          *)
LEMMA ToolEffect ==
    ASSUME NEW c \in Calls, RunTool(c)
    PROVE  /\ pc = "tools" /\ batch < MaxBatch /\ batch' = batch + 1
           /\ UNCHANGED <<pc, trigger, role, turn, messages, conv, outcome, answer,
                          retryUsed, unsent>>
           /\ notice' \in {notice, "plugin"}
           /\ \E ok \in BOOLEAN :
                /\ pluginFailed' = IF c.tool = "create_plugin" THEN ~ok ELSE pluginFailed
                /\ pluginDone' = (pluginDone \/ (c.tool = "create_plugin" /\ ok))
                /\ listedAgents' = (listedAgents \/ c.tool = "list_agents")
           /\ sentMessage' \in {sentMessage, TRUE}
<1>1. ASSUME NEW ok \in BOOLEAN, NoteResult(c, ok)
      PROVE  /\ batch' = batch + 1
             /\ UNCHANGED <<pc, trigger, role, turn, messages, conv, outcome, answer,
                            retryUsed>>
             /\ notice' \in {notice, "plugin"}
             /\ \E k \in BOOLEAN :
                  /\ pluginFailed' = IF c.tool = "create_plugin" THEN ~k ELSE pluginFailed
                  /\ pluginDone' = (pluginDone \/ (c.tool = "create_plugin" /\ k))
                  /\ listedAgents' = (listedAgents \/ c.tool = "list_agents")
  BY <1>1, Zenon DEF NoteResult
<1>2. NextCall /\ (\E ok \in BOOLEAN : NoteResult(c, ok))
      /\ UNCHANGED unsent /\ sentMessage' \in {sentMessage, TRUE}
  BY Zenon DEF RunTool, ToolRejected, ToolRepeated, ToolRuns, SendFails, SendsTo, Broadcasts,
         Runs, mail
<1> QED
  BY <1>1, <1>2 DEF NextCall

(* conv_fit cuts whole exchanges: what is left is as well formed as what    *)
(* was there, and ends the same way.                                        *)
LEMMA ConvFitsShape ==
    ASSUME NEW m \in Seq(Turns), NEW k \in ConvFits(m)
    PROVE  k \in Seq(Turns) /\ (Chain(m) => Chain(k) /\ Last(k) = Last(m))
<1>1. CASE k = m
  BY <1>1
<1>2. ASSUME NEW i \in UserTexts(m), NEW j \in UserTexts(m),
             k = SubSeq(m, 1, i - 1) \o SubSeq(m, j, Len(m))
      PROVE  k \in Seq(Turns) /\ (Chain(m) => Chain(k) /\ Last(k) = Last(m))
  <2> DEFINE l == SubSeq(m, 1, i - 1)
             r == SubSeq(m, j, Len(m))
             n == Len(m)
  <2>1. n \in Nat /\ \A x \in 1..n : m[x] \in Turns
    BY LenProperties, ElementOfSeq
  <2>2. i \in 2..n /\ j \in 2..n /\ m[i] = "user" /\ m[j] = "user"
    BY DEF UserTexts
  <2>3. /\ l \in Seq(Turns) /\ Len(l) = IF 1 <= i - 1 THEN i - 1 - 1 + 1 ELSE 0
        /\ \A x \in 1..i - 1 - 1 + 1 : l[x] = m[1 + x - 1]
    <3>1. \A x \in 1..i - 1 : m[x] \in Turns
      BY <2>1, <2>2
    <3> QED
      BY <2>1, <2>2, <3>1, SubSeqProperties
  <2>4. /\ r \in Seq(Turns) /\ Len(r) = IF j <= n THEN n - j + 1 ELSE 0
        /\ \A x \in 1..n - j + 1 : r[x] = m[j + x - 1]
    <3>1. \A x \in j..n : m[x] \in Turns
      BY <2>1, <2>2
    <3> QED
      BY <2>1, <2>2, <3>1, SubSeqProperties
  <2> HIDE DEF l, r, n
  <2>5. /\ Len(l) = i - 1 /\ \A x \in 1..i - 1 : l[x] = m[x]
        /\ Len(r) = n - j + 1 /\ \A x \in 1..n - j + 1 : r[x] = m[j + x - 1]
    BY <2>1, <2>2, <2>3, <2>4
  <2>6. /\ k \in Seq(Turns) /\ Len(k) = Len(l) + Len(r)
        /\ \A x \in 1..Len(l) + Len(r) :
             k[x] = IF x <= Len(l) THEN l[x] ELSE r[x - Len(l)]
    BY <1>2, <2>3, <2>4, ConcatProperties DEF l, r, n
  <2>7. /\ Len(k) = i + n - j
        /\ \A x \in 1..i - 1 : k[x] = m[x]
        /\ \A x \in i..i + n - j : k[x] = m[x + j - i]
    <3>1. Len(k) = i + n - j
      BY <2>1, <2>2, <2>5, <2>6
    <3>2. ASSUME NEW x \in 1..i - 1 PROVE k[x] = m[x]
      BY <2>1, <2>2, <2>5, <2>6
    <3>3. ASSUME NEW x \in i..i + n - j PROVE k[x] = m[x + j - i]
      <4>1. x \in 1..Len(l) + Len(r) /\ ~(x <= Len(l)) /\ x - Len(l) \in 1..n - j + 1
        BY <2>1, <2>2, <2>5
      <4>2. k[x] = r[x - Len(l)]
        BY <2>6, <4>1
      <4>3. r[x - Len(l)] = m[j + (x - Len(l)) - 1]
        BY <2>5, <4>1
      <4>4. j + (x - Len(l)) - 1 = x + j - i
        BY <2>1, <2>2, <2>5
      <4> QED
        BY <4>2, <4>3, <4>4
    <3> QED
      BY <3>1, <3>2, <3>3
  <2>8. Last(k) = Last(m)
    BY <2>1, <2>2, <2>7 DEF Last, n
  <2>9. ASSUME Chain(m) PROVE Chain(k)
    <3>0. \A x \in 1..n - 1 : /\ m[x] = "calls" <=> m[x + 1] = "results"
                              /\ m[x] = "assistant" => m[x + 1] = "user"
      BY <2>9 DEF Chain, n
    <3>1. Len(k) >= 1 /\ k[1] = "user"
      BY <2>1, <2>2, <2>7, <2>9 DEF Chain
    <3>2. ASSUME NEW x \in 1..Len(k) - 1
          PROVE  /\ k[x] = "calls" <=> k[x + 1] = "results"
                 /\ k[x] = "assistant" => k[x + 1] = "user"
      <4>1. CASE x < i - 1
        <5>1. k[x] = m[x] /\ k[x + 1] = m[x + 1] /\ x \in 1..n - 1
          BY <2>1, <2>2, <2>7, <4>1
        <5> QED
          BY <3>0, <5>1
      <4>2. CASE x = i - 1
        <5>1. k[x] = m[i - 1] /\ k[x + 1] = m[j] /\ i - 1 \in 1..n - 1
          <6>1. i \in i..i + n - j /\ i + j - i = j /\ x + 1 = i
            BY <2>1, <2>2, <4>2
          <6> QED
            BY <2>1, <2>2, <2>7, <4>2, <6>1
        <5>2. m[i - 1] # "calls"
          <6>1. i - 1 + 1 = i
            BY <2>2
          <6> QED
            BY <2>2, <3>0, <5>1, <6>1
        <5> QED
          BY <2>2, <5>1, <5>2
      <4>3. CASE x >= i
        <5>1. /\ x \in i..i + n - j /\ x + 1 \in i..i + n - j
              /\ x + j - i \in 1..n - 1 /\ x + 1 + j - i = (x + j - i) + 1
          BY <2>1, <2>2, <2>7, <4>3
        <5>2. k[x] = m[x + j - i] /\ k[x + 1] = m[(x + j - i) + 1]
          BY <2>7, <5>1
        <5> QED
          BY <3>0, <5>1, <5>2
      <4> QED
        BY <2>2, <4>1, <4>2, <4>3
    <3> QED
      BY <3>1, <3>2 DEF Chain
  <2> QED
    BY <2>6, <2>8, <2>9
<1>3. ASSUME k # m PROVE \E i, j \in UserTexts(m) : k = Cut(m, i, j)
  BY <1>3 DEF ConvFits, SecondTexts
<1> QED
  BY <1>1, <1>2, <1>3 DEF Cut

(* Every step keeps the types; the turn cannot pass max_turns because the   *)
(* loop is left there.                                                      *)
LEMMA TypeKept ==
    ASSUME TypeOK, TurnsLeft, [Next]_vars
    PROVE  TypeOK' /\ TurnsLeft'
<1>1. /\ MaxTurns \in Nat \ {0} /\ MaxBatch \in Nat \ {0} /\ TableCap \in Nat \ {0}
      /\ SentCap \in Nat \ {0} /\ turn \in Nat /\ turn <= MaxTurns
  <2>1. /\ MaxTurns \in Nat \ {0} /\ MaxBatch \in Nat \ {0} /\ TableCap \in Nat \ {0}
        /\ SentCap \in Nat \ {0}
    BY SessionAssumption, Zenon DEF SessionAssumption
  <2> QED
    BY <2>1 DEF TypeOK, LoopType
<1>2. /\ "user" \in Turns /\ "results" \in Turns /\ "calls" \in Turns
      /\ "assistant" \in Turns
  BY DEF Turns
<1>3. \A m \in Seq(Turns), x \in Turns : Append(m, x) \in Seq(Turns)
  BY AppendProperties
<1>4. ASSUME NEW t \in Triggers, Begin(t) PROVE TypeOK' /\ TurnsLeft'
  <2>1. /\ trigger' = t /\ turn' = 0 /\ batch' = 0 /\ answer' = "none" /\ notice' = "none"
        /\ retryUsed' = {} /\ pluginDone' = FALSE /\ pluginFailed' = FALSE
        /\ sentMessage' = FALSE /\ listedAgents' = FALSE /\ blockedRepeats' = 0
        /\ sentTo' = <<>> /\ callCount' = [c \in Calls |-> 0] /\ nCalls' = 0
        /\ runs' = [c \in Calls |-> 0] /\ marked' = [p \in Peers |-> 0] /\ unmarked' = {}
        /\ role' = role /\ pc' \in {"llm", "over"} /\ outcome' \in {"completed", "failed"}
        /\ unsent' \in {{}, Requesters(t)}
    BY <1>4 DEF Begin
  <2>m. /\ conv' = <<>> \/ conv' = conv
        /\ messages' = <<>> \/ messages' = conv \o <<"user">> \/ messages' = <<>> \o <<"user">>
    BY <1>4 DEF Begin
  <2>2. conv \o <<"user">> \in Seq(Turns) /\ <<>> \o <<"user">> \in Seq(Turns)
    <3>1. <<"user">> \in Seq(Turns) /\ <<>> \in Seq(Turns)
      BY <1>2
    <3> QED
      BY <3>1, ConcatProperties DEF TypeOK, HistoryType
  <2>3. LoopType'
    BY <1>1, <2>1 DEF TypeOK, LoopType
  <2>h. HistoryType'
    <3>1. <<>> \in Seq(Turns) /\ conv \in Seq(Turns)
      BY DEF TypeOK, HistoryType
    <3> QED
      BY <2>m, <2>2, <3>1 DEF HistoryType
  <2>4. FlagType'
    BY <2>1, Zenon DEF FlagType
  <2>5. TableType'
    <3>1. Requesters(t) \subseteq Peers
      BY RequestersArePeers
    <3>2. sentTo' \in Seq(Peers \cup {"owner"}) /\ Len(sentTo') = 0
      BY <2>1
    <3> QED
      BY <1>1, <2>1, <3>1, <3>2 DEF TableType
  <2> QED
    BY <1>1, <2>1, <2>3, <2>h, <2>4, <2>5 DEF TypeOK, TurnsLeft
<1>5. CASE LlmFails
  <2>1. /\ notice' = "llmError" /\ pc' = "finish" /\ outcome' = "failed" /\ turn' = turn
        /\ UNCHANGED <<trigger, role, batch, messages, conv, answer, harness, mail>>
    BY <1>5 DEF LlmFails, Break
  <2> QED
    BY <2>1 DEF TypeOK, LoopType, HistoryType, FlagType, TableType, TurnsLeft, harness, mail
<1>6. CASE Refusal
  <2>1. PICK text \in Texts : \E content \in Contents(text) :
          TakeText(text) /\ messages' = messages \o content
    BY <1>6 DEF Refusal
  <2>2. messages' \in {messages, Append(messages, "assistant")}
        /\ answer' \in {answer, "text"}
    BY <2>1, ReplyTurns DEF TypeOK, HistoryType, TakeText
  <2>3. /\ notice' = "refused" /\ pc' = "finish" /\ outcome' = outcome /\ turn' = turn
        /\ UNCHANGED <<trigger, role, batch, conv, harness, mail>>
    BY <1>6 DEF Refusal, Break
  <2> QED
    BY <1>2, <1>3, <2>2, <2>3
       DEF TypeOK, LoopType, HistoryType, FlagType, TableType, TurnsLeft, harness, mail
<1>7. CASE TextReply
  <2>0. turn < MaxTurns
    BY <1>7, TextReplyEffect DEF TurnsLeft
  <2>a. PICK h \in {messages, Append(messages, "assistant")} :
          Leaves(h) \/ GoesOn(Append(h, "user"))
    BY <1>7, TextReplyEffect
  <2>b. h \in Seq(Turns) /\ Append(h, "user") \in Seq(Turns)
    BY <1>2, <1>3, <2>a DEF TypeOK, HistoryType
  <2>1. messages' \in Seq(Turns) /\ pc' \in {"llm", "finish"} /\ turn' \in 0..MaxTurns
        /\ TurnsLeft'
    BY <1>1, <2>0, <2>a, <2>b DEF Leaves, GoesOn, TurnsLeft
  <2>2. LoopType' /\ HistoryType'
    BY <1>7, <2>1, TextReplyEffect DEF TypeOK, LoopType, HistoryType, Notices
  <2>3. pluginDone' \in BOOLEAN
    BY <1>7, TextReplyEffect, Zenon DEF TypeOK, FlagType
  <2>4. FlagType'
    BY <1>7, <2>3, TextReplyEffect DEF TypeOK, FlagType
  <2>5. TableType'
    BY <1>7, TextReplyEffect DEF TypeOK, TableType, mail
  <2> QED
    BY <2>1, <2>2, <2>4, <2>5 DEF TypeOK
<1>8. CASE ToolReply
  <2>1. /\ answer' \in {answer, "text"} /\ messages' = Append(messages, "calls")
        /\ pc = "llm" /\ pc' = "tools" /\ batch' = 0
        /\ UNCHANGED <<trigger, role, turn, conv, outcome, notice, harness, mail>>
    BY <1>8 DEF ToolReply, TakeText
  <2> QED
    BY <1>1, <1>2, <1>3, <2>1
       DEF TypeOK, LoopType, HistoryType, FlagType, TableType, TurnsLeft, harness, mail
<1>9. ASSUME NEW c \in Calls, RunTool(c) PROVE TypeOK' /\ TurnsLeft'
  <2>1. LoopType' /\ HistoryType' /\ TurnsLeft'
    <3>1. /\ batch < MaxBatch /\ batch' = batch + 1 /\ notice' \in {notice, "plugin"}
          /\ UNCHANGED <<pc, trigger, role, turn, messages, conv, outcome, answer>>
      BY <1>9, ToolEffect
    <3> QED
      BY <1>1, <3>1 DEF TypeOK, LoopType, HistoryType, TurnsLeft
  <2>2. FlagType'
    <3>1. PICK ok \in BOOLEAN :
            /\ pluginFailed' = IF c.tool = "create_plugin" THEN ~ok ELSE pluginFailed
            /\ pluginDone' = (pluginDone \/ (c.tool = "create_plugin" /\ ok))
            /\ listedAgents' = (listedAgents \/ c.tool = "list_agents")
      BY <1>9, ToolEffect
    <3>2. pluginFailed' \in BOOLEAN /\ pluginDone' \in BOOLEAN /\ listedAgents' \in BOOLEAN
      BY <3>1, Zenon DEF TypeOK, FlagType
    <3>3. sentMessage' \in BOOLEAN /\ retryUsed' = retryUsed
      BY <1>9, ToolEffect, Zenon DEF TypeOK, FlagType
    <3> QED
      BY <3>2, <3>3 DEF TypeOK, FlagType
  <2>3. ASSUME CountCall(c) PROVE callCount' \in [Calls -> Nat] /\ nCalls' \in 0..TableCap
    BY <1>1, <2>3 DEF CountCall, Tracked, TypeOK, TableType
  <2>4. CASE ToolRejected(c)
    BY <2>1, <2>2, <2>4 DEF ToolRejected, TypeOK, TableType, mail
  <2>5. CASE ToolRepeated(c)
    BY <2>1, <2>2, <2>3, <2>5 DEF ToolRepeated, TypeOK, TableType, mail
  <2>6. ASSUME Runs(c)
        PROVE  /\ callCount' \in [Calls -> Nat] /\ nCalls' \in 0..TableCap
               /\ runs' \in [Calls -> Nat]
    BY <2>3, <2>6 DEF Runs, TypeOK, TableType
  <2>7. CASE ToolRuns(c) \/ SendFails(c)
    BY <2>1, <2>2, <2>6, <2>7 DEF ToolRuns, SendFails, TypeOK, TableType
  <2>8. CASE SendsTo(c)
    <3>1. sentTo' \in Seq(Peers \cup {"owner"}) /\ Len(sentTo') <= SentCap
      <4>1. Len(sentTo) \in Nat
        BY LenProperties DEF TypeOK, TableType
      <4> DEFINE S == Peers \cup {"owner"}
      <4>a. sentTo \in Seq(S) /\ c.to \in S
        BY <2>8 DEF SendsTo, TypeOK, TableType
      <4> HIDE DEF S
      <4>2. Append(sentTo, c.to) \in Seq(S) /\ Len(Append(sentTo, c.to)) = Len(sentTo) + 1
        BY <4>a, AppendProperties
      <4> USE DEF S
      <4> QED
        BY <1>1, <2>8, <4>1, <4>2 DEF SendsTo, RememberSent, TypeOK, TableType
    <3>2. marked' \in [Peers -> Nat] /\ unmarked' \subseteq Peers
          /\ UNCHANGED <<blockedRepeats, unsent>>
      <4>1. IsRequester(c.to) => c.to \in Peers
        BY RequestersArePeers DEF IsRequester, TypeOK, LoopType
      <4> QED
        BY <2>8, <4>1 DEF SendsTo, TypeOK, TableType
    <3> QED
      BY <2>1, <2>2, <2>6, <2>8, <3>1, <3>2 DEF SendsTo, TypeOK, TableType
  <2>9. CASE Broadcasts(c)
    BY <2>1, <2>2, <2>6, <2>9 DEF Broadcasts, TypeOK, TableType
  <2> QED
    BY <1>9, <2>1, <2>2, <2>4, <2>5, <2>7, <2>8, <2>9 DEF RunTool, TypeOK
<1>10. CASE ToolsEnd
  <2>1. /\ messages' = Append(messages, "results") /\ pc = "tools"
        /\ \/ pc' = "finish" /\ outcome' = "failed" /\ turn' = turn /\ notice' = "stuck"
           \/ /\ turn' = turn + 1 /\ outcome' = outcome
              /\ pc' = IF turn + 1 < MaxTurns THEN "llm" ELSE "finish"
              /\ notice' \in {notice, "maxTurns"}
        /\ UNCHANGED <<trigger, role, batch, conv, answer, harness, mail>>
    BY <1>10 DEF ToolsEnd, Break, Continue
  <2> QED
    BY <1>1, <1>2, <1>3, <2>1
       DEF TypeOK, LoopType, HistoryType, FlagType, TableType, TurnsLeft, harness, mail
<1>11. CASE Finish
  <2>1. /\ messages' = <<>> /\ pc' = "over"
        /\ conv' = conv \/ conv' \in ConvFits(messages)
        /\ UNCHANGED <<trigger, role, turn, batch, outcome, answer, notice, harness,
                       runs, unmarked>>
    BY <1>11 DEF Finish
  <2>2. HistoryType'
    <3>1. conv' \in Seq(Turns) /\ <<>> \in Seq(Turns)
      BY <2>1, ConvFitsShape DEF TypeOK, HistoryType
    <3> QED
      BY <2>1, <3>1 DEF HistoryType
  <2>3. marked' \in [Peers -> Nat] /\ unsent' \subseteq Peers
    <3>1. Unanswered \subseteq Peers
      BY RequestersArePeers DEF Unanswered, TypeOK, LoopType
    <3>2. PICK failed \in SUBSET Unanswered :
            /\ marked' = [p \in Peers |->
                 IF p \in Unanswered \ failed THEN marked[p] + 1 ELSE marked[p]]
            /\ unsent' = failed
      BY <1>11 DEF Finish, DeliverAnswer
    <3> QED
      BY <3>1, <3>2 DEF TypeOK, TableType
  <2> QED
    BY <2>1, <2>2, <2>3 DEF TypeOK, LoopType, FlagType, TableType, TurnsLeft, harness
<1>12. CASE UNCHANGED vars
  BY <1>12 DEF TypeOK, LoopType, HistoryType, FlagType, TableType, TurnsLeft, vars, loop,
               harness, mail
<1> QED
  BY <1>4, <1>5, <1>6, <1>7, <1>8, <1>9, <1>10, <1>11, <1>12 DEF Next, Working

-----------------------------------------------------------------------------
(* Answers *)

(* What sent_to holds after one more name, if it fits.                      *)
LEMMA SentAfter ==
    ASSUME TypeOK, NEW x \in Peers \cup {"owner"}, RememberSent(x)
    PROVE  /\ SentToSet \subseteq SentToSet' /\ SentToSet' \subseteq SentToSet \cup {x}
           /\ x \in SentToSet' \/ Len(sentTo') = SentCap
           /\ Len(sentTo) = SentCap => Len(sentTo') = SentCap
<1>1. Len(sentTo) \in Nat /\ Len(sentTo) <= SentCap /\ SentCap \in Nat
  <2>1. SentCap \in Nat
    BY SessionAssumption, Zenon DEF SessionAssumption
  <2> QED
    BY <2>1, LenProperties DEF TypeOK, TableType
<1>2. CASE Len(sentTo) < SentCap
  <2> DEFINE S == Peers \cup {"owner"}
  <2>1. sentTo \in Seq(S) /\ x \in S /\ sentTo' = Append(sentTo, x)
    BY <1>2 DEF RememberSent, TypeOK, TableType
  <2> HIDE DEF S
  <2>2. /\ Len(sentTo') = Len(sentTo) + 1
        /\ \A i \in 1..Len(sentTo) : sentTo'[i] = sentTo[i]
        /\ sentTo'[Len(sentTo) + 1] = x
    BY <2>1, AppendProperties
  <2>3. \A y : y \in SentToSet' <=> \E i \in 1..Len(sentTo') : y = sentTo'[i]
    BY DEF SentToSet
  <2>4. \A y : y \in SentToSet <=> \E i \in 1..Len(sentTo) : y = sentTo[i]
    BY DEF SentToSet
  <2>5. 1..Len(sentTo') = 1..Len(sentTo) \cup {Len(sentTo) + 1}
    BY <1>1, <2>2
  <2> QED
    BY <1>1, <1>2, <2>2, <2>3, <2>4, <2>5
<1>3. CASE ~(Len(sentTo) < SentCap)
  <2>1. sentTo' = sentTo /\ Len(sentTo) = SentCap
    BY <1>1, <1>3 DEF RememberSent
  <2> QED
    BY <2>1 DEF SentToSet
<1> QED
  BY <1>2, <1>3

(* The harness knows whom the model answered, except when sent_to is full.  *)
LEMMA AnswersKept ==
    ASSUME TypeOK, AnswersKnown, [Next]_vars
    PROVE  AnswersKnown'
<1>1. ASSUME NEW t \in Triggers, Begin(t) PROVE AnswersKnown'
  <2>1. sentTo' = <<>> /\ marked' = [p \in Peers |-> 0]
    BY <1>1 DEF Begin
  <2>2. SentToSet' = {} /\ \A p \in Peers : marked'[p] = 0
    BY <2>1 DEF SentToSet
  <2> QED
    BY <2>2 DEF AnswersKnown
<1>2. ASSUME NEW c \in Calls, SendsTo(c) PROVE AnswersKnown'
  <2>1. /\ c.to \in Peers \cup {"owner"} /\ RememberSent(c.to)
        /\ marked' = IF IsRequester(c.to) THEN [marked EXCEPT ![c.to] = @ + 1] ELSE marked
    BY <1>2 DEF SendsTo
  <2>2. pc = "tools" /\ trigger' = trigger
    BY <1>2, ToolEffect DEF RunTool
  <2>3. ASSUME NEW p \in Peers
        PROVE  /\ p \in Requesters(trigger) /\ p \in SentToSet' => marked'[p] > 0
               /\ marked'[p] > 0 => p \in SentToSet' \/ Len(sentTo') = SentCap
    <3>1. /\ p \in Requesters(trigger) /\ p \in SentToSet => marked[p] > 0
          /\ marked[p] > 0 => p \in SentToSet \/ Len(sentTo) = SentCap
          /\ marked[p] \in Nat
      BY <2>2, <2>3 DEF AnswersKnown, TypeOK, TableType
    <3>2. CASE p = c.to /\ IsRequester(p)
      <4>1. marked'[p] = marked[p] + 1
        BY <2>1, <2>3, <3>2 DEF TypeOK, TableType
      <4> QED
        BY <2>1, <3>1, <3>2, <4>1, SentAfter
    <3>3. CASE ~(p = c.to /\ IsRequester(p))
      <4>1. marked'[p] = marked[p]
        BY <2>1, <2>3, <3>3 DEF TypeOK, TableType
      <4> QED
        BY <2>1, <3>1, <3>3, <4>1, SentAfter DEF IsRequester
    <3> QED
      BY <3>2, <3>3
  <2> QED
    BY <2>2, <2>3 DEF AnswersKnown
<1>3. CASE Finish
  BY <1>3 DEF Finish, AnswersKnown
<1>4. CASE UNCHANGED <<trigger, marked, sentTo>> /\ pc # "over"
  BY <1>4 DEF AnswersKnown, SentToSet
<1>5. CASE TextReply
  BY <1>4, <1>5, TextReplyEffect DEF mail
<1>6. ASSUME NEW c \in Calls, RunTool(c), ~SendsTo(c) PROVE AnswersKnown'
  <2>1. pc = "tools" /\ trigger' = trigger
    BY <1>6, ToolEffect
  <2>2. UNCHANGED <<marked, sentTo>>
    BY <1>6 DEF RunTool, ToolRejected, ToolRepeated, ToolRuns, SendFails, Broadcasts, mail
  <2> QED
    BY <1>4, <2>1, <2>2
<1>7. CASE LlmFails \/ Refusal \/ ToolReply \/ ToolsEnd
  BY <1>4, <1>7 DEF LlmFails, Refusal, ToolReply, ToolsEnd, harness, mail
<1>8. CASE UNCHANGED vars
  BY <1>8 DEF AnswersKnown, SentToSet, vars, loop, harness, mail
<1> QED
  BY <1>1, <1>2, <1>3, <1>5, <1>6, <1>7, <1>8 DEF Next, Working

\* RequestersAnswered without the types.
Answered ==
    pc = "over" => \A p \in Requesters(trigger) : marked[p] > 0 \/ p \in unsent

(* Whoever waits is answered at the end of the session, by the model or by  *)
(* deliver_answer.                                                          *)
LEMMA AnsweredKept ==
    ASSUME TypeOK, AnswersKnown, Answered, [Next]_vars
    PROVE  Answered'
<1>1. ASSUME NEW t \in Triggers, Begin(t) PROVE Answered'
  <2>1. trigger' = t /\ (pc' = "llm" \/ unsent' = Requesters(t))
    BY <1>1 DEF Begin
  <2> QED
    BY <2>1 DEF Answered
<1>2. CASE Finish
  <2>1. PICK failed \in SUBSET Unanswered :
          /\ marked' = [p \in Peers |->
               IF p \in Unanswered \ failed THEN marked[p] + 1 ELSE marked[p]]
          /\ unsent' = failed
    BY <1>2 DEF Finish, DeliverAnswer
  <2>2. trigger' = trigger /\ pc = "finish"
    BY <1>2 DEF Finish
  <2>3. ASSUME NEW p \in Requesters(trigger) PROVE marked'[p] > 0 \/ p \in unsent'
    <3>1. p \in Peers
      BY <2>3, RequestersArePeers DEF TypeOK, LoopType
    <3>2. marked[p] \in Nat
      BY <3>1 DEF TypeOK, TableType
    <3>3. CASE p \in SentToSet
      <4>1. marked[p] > 0
        BY <2>2, <2>3, <3>1, <3>3 DEF AnswersKnown
      <4>2. marked'[p] >= marked[p]
        BY <2>1, <3>1, <3>2
      <4>3. marked'[p] \in Nat
        BY <2>1, <3>1, <3>2
      <4> QED
        BY <3>2, <4>1, <4>2, <4>3
    <3>4. CASE p \notin SentToSet
      <4>1. p \in Unanswered
        BY <2>3, <3>4 DEF Unanswered
      <4> QED
        BY <2>1, <3>1, <3>2, <4>1
    <3> QED
      BY <3>3, <3>4
  <2> QED
    BY <2>2, <2>3 DEF Answered
<1>3. ASSUME pc' # "over" PROVE Answered'
  BY <1>3 DEF Answered
<1>4. CASE TextReply
  BY <1>3, <1>4, TextReplyEffect DEF Leaves, GoesOn
<1>5. ASSUME NEW c \in Calls, RunTool(c) PROVE Answered'
  BY <1>3, <1>5, ToolEffect
<1>6. CASE LlmFails \/ Refusal \/ ToolReply \/ ToolsEnd
  BY <1>3, <1>6 DEF LlmFails, Refusal, ToolReply, ToolsEnd, Break, Continue
<1>7. CASE UNCHANGED vars
  BY <1>7 DEF Answered, vars, loop, mail
<1> QED
  BY <1>1, <1>2, <1>4, <1>5, <1>6, <1>7 DEF Next, Working

-----------------------------------------------------------------------------
(* Repeats *)

(* repeated_call counts every call it can remember before it is run.        *)
LEMMA RunsKept ==
    ASSUME TypeOK, RunsCounted, [Next]_vars
    PROVE  RunsCounted'
<1>0. TableCap \in Nat
  BY SessionAssumption, Zenon DEF SessionAssumption
<1>1. ASSUME NEW t \in Triggers, Begin(t) PROVE RunsCounted'
  <2>1. callCount' = [c \in Calls |-> 0] /\ runs' = [c \in Calls |-> 0]
    BY <1>1 DEF Begin
  <2>2. \A c \in Calls : ~(callCount'[c] > 0) /\ ~(runs'[c] > 0)
    BY <2>1
  <2> QED
    BY <2>2 DEF RunsCounted
<1>2. ASSUME UNCHANGED <<role, callCount, nCalls, runs>> PROVE RunsCounted'
  BY <1>2 DEF RunsCounted, Limit
<1>3. ASSUME NEW c \in Calls, CountCall(c), Runs(c) \/ (RepeatedCall(c) /\ runs' = runs),
             role' = role
      PROVE  RunsCounted'
  <2>1. /\ callCount[c] \in Nat /\ runs[c] \in Nat /\ nCalls \in Nat /\ nCalls <= TableCap
        /\ Limit(c) \in {1, 2}
    BY DEF TypeOK, TableType, Limit
  <2>2. /\ callCount[c] > 0 => runs[c] <= callCount[c] /\ runs[c] <= Limit(c)
        /\ callCount[c] = 0 /\ runs[c] > 0 => nCalls = TableCap
    BY DEF RunsCounted
  <2>3. /\ callCount'[c] = IF Tracked(c) THEN callCount[c] + 1 ELSE callCount[c]
        /\ nCalls' = IF callCount[c] = 0 /\ Tracked(c) THEN nCalls + 1 ELSE nCalls
        /\ \A d \in Calls : d # c => callCount'[d] = callCount[d] /\ runs'[d] = runs[d]
    BY <1>3 DEF CountCall, Runs, TypeOK, TableType
  <2>4. \A d \in Calls : Limit(d)' = Limit(d)
    BY <1>3 DEF Limit
  <2>5. /\ callCount'[c] > 0 => runs'[c] <= callCount'[c] /\ runs'[c] <= Limit(c)
        /\ callCount'[c] = 0 /\ runs'[c] > 0 => nCalls' = TableCap
    <3>1. CASE Runs(c)
      <4>1. runs'[c] = runs[c] + 1 /\ (callCount[c] = 0 \/ callCount[c] + 1 <= Limit(c))
        BY <2>1, <3>1 DEF Runs, RepeatedCall, TypeOK, TableType
      <4> QED
        BY <1>0, <2>1, <2>2, <2>3, <4>1 DEF Tracked
    <3>2. CASE RepeatedCall(c) /\ runs' = runs
      BY <1>0, <2>1, <2>2, <2>3, <3>2 DEF Tracked, RepeatedCall
    <3> QED
      BY <1>3, <3>1, <3>2
  <2>6. nCalls = TableCap => nCalls' = TableCap
    BY <2>1, <2>2, <2>3 DEF Tracked
  <2>7. ASSUME NEW d \in Calls
        PROVE  /\ callCount'[d] > 0 => runs'[d] <= callCount'[d] /\ runs'[d] <= Limit(d)'
               /\ callCount'[d] = 0 /\ runs'[d] > 0 => nCalls' = TableCap
    BY <2>3, <2>4, <2>5, <2>6 DEF RunsCounted
  <2> QED
    BY <2>7 DEF RunsCounted
<1>4. ASSUME NEW c \in Calls, RunTool(c) PROVE RunsCounted'
  <2>1. role' = role
    BY <1>4, ToolEffect
  <2>2. CASE ToolRejected(c)
    BY <1>2, <2>1, <2>2 DEF ToolRejected, mail
  <2>3. CASE ToolRepeated(c)
    BY <1>3, <2>1, <2>3 DEF ToolRepeated, mail
  <2>4. CASE Runs(c)
    BY <1>3, <2>1, <2>4 DEF Runs
  <2> QED
    BY <1>4, <2>2, <2>3, <2>4 DEF RunTool, ToolRuns, SendFails, SendsTo, Broadcasts
<1>5. CASE TextReply
  BY <1>2, <1>5, TextReplyEffect DEF mail
<1>6. CASE LlmFails \/ Refusal \/ ToolReply \/ ToolsEnd \/ Finish \/ UNCHANGED vars
  BY <1>2, <1>6 DEF LlmFails, Refusal, ToolReply, ToolsEnd, Finish, vars, loop, harness, mail
<1> QED
  BY <1>1, <1>4, <1>5, <1>6 DEF Next, Working

(* After three refusals ToolsEnd leaves the loop. *)
LEMMA StuckKept ==
    ASSUME TypeOK, StuckStops, [Next]_vars
    PROVE  StuckStops'
<1>1. ASSUME NEW t \in Triggers, Begin(t) PROVE StuckStops'
  BY <1>1 DEF Begin, StuckStops
<1>2. CASE TextReply
  BY <1>2, TextReplyEffect DEF StuckStops
<1>3. ASSUME NEW c \in Calls, RunTool(c) PROVE StuckStops'
  BY <1>3, ToolEffect DEF StuckStops
<1>4. CASE ToolsEnd
  <2>1. blockedRepeats' = blockedRepeats /\ blockedRepeats \in Nat
        /\ (blockedRepeats >= 3 => pc' = "finish")
    BY <1>4 DEF ToolsEnd, Break, MaxBlocked, harness, TypeOK, TableType
  <2> QED
    BY <2>1 DEF StuckStops
<1>5. CASE LlmFails \/ Refusal \/ ToolReply \/ Finish
  <2>1. pc' # "llm"
    BY <1>5 DEF LlmFails, Refusal, ToolReply, Finish, Break
  <2> QED
    BY <2>1 DEF StuckStops
<1>6. CASE UNCHANGED vars
  BY <1>6 DEF StuckStops, vars, loop, harness
<1> QED
  BY <1>1, <1>2, <1>3, <1>4, <1>5, <1>6 DEF Next, Working

-----------------------------------------------------------------------------
(* The history *)

(* A turn that may follow the last one keeps the history chained.           *)
LEMMA ChainAppend ==
    ASSUME NEW m \in Seq(Turns), Chain(m), NEW x \in Turns,
           Last(m) = "calls" <=> x = "results", Last(m) = "assistant" => x = "user"
    PROVE  /\ Append(m, x) \in Seq(Turns)
           /\ Chain(Append(m, x)) /\ Last(Append(m, x)) = x
<1> DEFINE n == Len(m)
           k == Append(m, x)
<1>1. /\ k \in Seq(Turns) /\ Len(k) = n + 1 /\ k[n + 1] = x /\ \A i \in 1..n : k[i] = m[i]
      /\ n \in Nat
  BY AppendProperties, LenProperties
<1>2. /\ n >= 1 /\ m[1] = "user"
      /\ \A i \in 1..n - 1 : /\ m[i] = "calls" <=> m[i + 1] = "results"
                             /\ m[i] = "assistant" => m[i + 1] = "user"
      /\ m[n] = "calls" <=> x = "results"
      /\ m[n] = "assistant" => x = "user"
  BY DEF Chain, Last
<1> HIDE DEF n, k
<1>3. Len(k) >= 1 /\ k[1] = "user"
  BY <1>1, <1>2
<1>4. ASSUME NEW i \in 1..Len(k) - 1
      PROVE  /\ k[i] = "calls" <=> k[i + 1] = "results"
             /\ k[i] = "assistant" => k[i + 1] = "user"
  <2>1. CASE i = n
    BY <1>1, <1>2, <2>1
  <2>2. CASE i # n
    <3>1. i \in 1..n - 1 /\ i \in 1..n /\ i + 1 \in 1..n
      BY <1>1, <2>2
    <3>2. k[i] = m[i] /\ k[i + 1] = m[i + 1]
      BY <1>1, <3>1
    <3>3. /\ m[i] = "calls" <=> m[i + 1] = "results"
          /\ m[i] = "assistant" => m[i + 1] = "user"
      BY <1>2, <3>1
    <3> QED
      BY <3>2, <3>3
  <2> QED
    BY <2>1, <2>2
<1> QED
  BY <1>1, <1>3, <1>4 DEF Chain, Last, k

(* A chained history whose calls all have results is well formed.           *)
LEMMA ChainWellFormed ==
    ASSUME NEW m \in Seq(Turns), Chain(m), Last(m) # "calls"
    PROVE  WellFormed(m)
<1>1. Len(m) \in Nat
  BY LenProperties
<1>2. ASSUME NEW i \in 1..Len(m)
      PROVE  /\ m[i] = "calls" => i < Len(m) /\ m[i + 1] = "results"
             /\ m[i] = "results" => m[i - 1] = "calls"
             /\ m[i] = "assistant" => i = Len(m) \/ m[i + 1] = "user"
  <2>1. ASSUME i # Len(m)
        PROVE  i < Len(m) /\ (m[i] = "calls" => m[i + 1] = "results")
               /\ (m[i] = "assistant" => m[i + 1] = "user")
    BY <1>1, <2>1 DEF Chain
  <2>2. ASSUME m[i] = "results" PROVE m[i - 1] = "calls"
    <3>1. i # 1
      BY <2>2 DEF Chain
    <3>2. i - 1 \in 1..Len(m) - 1 /\ (i - 1) + 1 = i
      BY <1>1, <3>1
    <3> QED
      BY <2>2, <3>2 DEF Chain
  <2> QED
    BY <2>1, <2>2 DEF Last
<1> QED
  BY <1>2 DEF WellFormed, Chain

(* Nudges, tool results and kept conversations all extend a history in the  *)
(* order a provider accepts.                                                *)
LEMMA HistoryKept ==
    ASSUME TypeOK, HistoryChained, [Next]_vars
    PROVE  HistoryChained'
<1>0. /\ messages \in Seq(Turns) /\ conv \in Seq(Turns)
      /\ "user" \in Turns /\ "results" \in Turns /\ "calls" \in Turns /\ "assistant" \in Turns
  BY DEF TypeOK, HistoryType, Turns
<1>1. ASSUME NEW t \in Triggers, Begin(t) PROVE HistoryChained'
  <2>1. /\ conv' = <<>> \/ conv' = conv
        /\ \/ pc' = "over"
           \/ pc' = "llm" /\ conv # <<>> /\ messages' = conv \o <<"user">>
           \/ pc' = "llm" /\ messages' = <<>> \o <<"user">>
    BY <1>1 DEF Begin
  <2>2. ASSUME conv # <<>>
        PROVE  Chain(conv \o <<"user">>) /\ Last(conv \o <<"user">>) = "user"
    <3>1. conv \o <<"user">> = Append(conv, "user")
      BY <1>0, AppendIsConcat
    <3> QED
      BY <1>0, <2>2, <3>1, ChainAppend DEF HistoryChained
  <2>3. Chain(<<>> \o <<"user">>) /\ Last(<<>> \o <<"user">>) = "user"
    <3>1. <<>> \o <<"user">> = <<"user">>
      BY <1>0
    <3>2. Chain(<<"user">>) /\ Last(<<"user">>) = "user"
      BY DEF Chain, Last
    <3> QED
      BY <3>1, <3>2
  <2>4. conv' # <<>> => Chain(conv') /\ Last(conv') = "assistant"
    BY <2>1 DEF HistoryChained
  <2> QED
    BY <2>1, <2>2, <2>3, <2>4 DEF HistoryChained
<1>2. ASSUME pc = "llm", NEW h \in {messages, Append(messages, "assistant")}
      PROVE  /\ h \in Seq(Turns) /\ Chain(h) /\ Last(h) # "calls"
             /\ Chain(Append(h, "user")) /\ Last(Append(h, "user")) = "user"
  <2>1. Chain(messages) /\ Last(messages) \in {"user", "results"}
    BY <1>2 DEF HistoryChained
  <2>2. h \in Seq(Turns) /\ Chain(h) /\ Last(h) # "calls"
    <3>1. CASE h = messages
      BY <1>0, <2>1, <3>1
    <3>2. CASE h = Append(messages, "assistant")
      BY <1>0, <2>1, <3>2, ChainAppend
    <3> QED
      BY <1>2, <3>1, <3>2
  <2> QED
    BY <1>0, <2>2, ChainAppend
<1>3. CASE TextReply
  <2>1. pc = "llm" /\ conv' = conv
    BY <1>3, TextReplyEffect
  <2>2. PICK h \in {messages, Append(messages, "assistant")} :
          Leaves(h) \/ GoesOn(Append(h, "user"))
    BY <1>3, TextReplyEffect
  <2>3. \/ pc' = "finish" /\ messages' = h
        \/ pc' \in {"llm", "finish"} /\ messages' = Append(h, "user")
    BY <2>2 DEF Leaves, GoesOn
  <2> QED
    BY <1>2, <2>1, <2>2, <2>3 DEF HistoryChained
<1>4. CASE Refusal
  <2>1. PICK text \in Texts : \E content \in Contents(text) :
          messages' = messages \o content
    BY <1>4 DEF Refusal
  <2>2. messages' \in {messages, Append(messages, "assistant")}
    BY <1>0, <2>1, ReplyTurns
  <2>3. pc = "llm" /\ pc' = "finish" /\ conv' = conv
    BY <1>4 DEF Refusal, Break
  <2> QED
    BY <1>2, <2>2, <2>3 DEF HistoryChained
<1>5. CASE LlmFails
  BY <1>5 DEF LlmFails, Break, HistoryChained
<1>6. CASE ToolReply
  <2>1. pc = "llm" /\ pc' = "tools" /\ messages' = Append(messages, "calls") /\ conv' = conv
    BY <1>6 DEF ToolReply
  <2>2. Chain(messages') /\ Last(messages') = "calls"
    BY <1>0, <2>1, ChainAppend DEF HistoryChained
  <2> QED
    BY <2>1, <2>2 DEF HistoryChained
<1>7. ASSUME NEW c \in Calls, RunTool(c) PROVE HistoryChained'
  BY <1>7, ToolEffect DEF HistoryChained
<1>8. CASE ToolsEnd
  <2>1. /\ pc = "tools" /\ pc' \in {"llm", "finish"} /\ conv' = conv
        /\ messages' = Append(messages, "results")
    BY <1>8 DEF ToolsEnd, Break, Continue
  <2>2. Chain(messages') /\ Last(messages') = "results"
    BY <1>0, <2>1, ChainAppend DEF HistoryChained
  <2> QED
    BY <2>1, <2>2 DEF HistoryChained
<1>9. CASE Finish
  <2>1. /\ pc = "finish" /\ pc' = "over"
        /\ conv' = conv \/ (Complete /\ conv' \in ConvFits(messages))
    BY <1>9 DEF Finish
  <2>2. ASSUME Complete, conv' \in ConvFits(messages)
        PROVE  Chain(conv') /\ Last(conv') = "assistant"
    <3>1. Chain(messages) /\ Last(messages) = "assistant"
      BY <2>1, <2>2 DEF HistoryChained, Complete, Last
    <3> QED
      BY <1>0, <2>2, <3>1, ConvFitsShape
  <2> QED
    BY <2>1, <2>2 DEF HistoryChained
<1>10. CASE UNCHANGED vars
  BY <1>10 DEF HistoryChained, vars, loop
<1> QED
  BY <1>1, <1>3, <1>4, <1>5, <1>6, <1>7, <1>8, <1>9, <1>10 DEF Next, Working

-----------------------------------------------------------------------------
SessionInv ==
    TurnsLeft /\ AnswersKnown /\ Answered /\ RunsCounted /\ StuckStops /\ HistoryChained

(* Types and inductive invariant of the session loop, for every behaviour.  *)
THEOREM SessionSafe == Spec => [](TypeOK /\ SessionInv)
<1>1. Init => TypeOK /\ SessionInv
  <2> SUFFICES ASSUME Init PROVE TypeOK /\ SessionInv
    OBVIOUS
  <2>1. /\ MaxTurns \in Nat \ {0} /\ MaxBatch \in Nat \ {0} /\ TableCap \in Nat \ {0}
        /\ SentCap \in Nat \ {0}
    BY SessionAssumption, Zenon DEF SessionAssumption
  <2>2. LoopType /\ HistoryType
    BY <2>1 DEF Init, LoopType, HistoryType
  <2>3. FlagType
    BY Zenon DEF Init, FlagType
  <2>4. TableType
    BY <2>1 DEF Init, TableType
  <2>5. TurnsLeft /\ AnswersKnown /\ StuckStops
    BY DEF Init, TurnsLeft, AnswersKnown, StuckStops
  <2>6. Answered
    BY DEF Init, Answered, Requesters, NoTrigger
  <2>7. RunsCounted
    BY DEF Init, RunsCounted
  <2>8. HistoryChained
    BY DEF Init, HistoryChained
  <2> QED
    BY <2>2, <2>3, <2>4, <2>5, <2>6, <2>7, <2>8 DEF TypeOK, SessionInv
<1>2. TypeOK /\ SessionInv /\ [Next]_vars => (TypeOK /\ SessionInv)'
  BY TypeKept, AnswersKept, AnsweredKept, RunsKept, StuckKept, HistoryKept DEF SessionInv
<1> QED
  BY <1>1, <1>2, PTL DEF Spec

(* Every agent that waits for an answer has one when the session returns,   *)
(* unless it could not be written - whatever the model did.                 *)
THEOREM RequestsAnswered == Spec => []RequestersAnswered
<1>1. TypeOK /\ SessionInv => RequestersAnswered
  BY DEF SessionInv, Answered, RequestersAnswered
<1> QED
  BY <1>1, SessionSafe, PTL

(* The harness answers nobody a second time while sent_to has room.         *)
THEOREM AnsweredOnce == Spec => NoSecondAnswer
<1>1. TypeOK /\ SessionInv /\ [Next]_vars =>
        [pc = "finish" =>
           \A p \in Peers : marked[p] > 0 /\ marked'[p] > marked[p] =>
             Len(sentTo) = SentCap]_vars
  <2> SUFFICES ASSUME TypeOK, SessionInv, [Next]_vars, pc = "finish", NEW p \in Peers,
                      marked[p] > 0, marked'[p] > marked[p]
               PROVE  Len(sentTo) = SentCap
    OBVIOUS
  <2>1. marked[p] \in Nat
    BY DEF TypeOK, TableType
  <2>2. Finish
    <3>1. ~TextReply /\ \A c \in Calls : ~RunTool(c)
      BY TextReplyEffect, ToolEffect
    <3>2. ~UNCHANGED vars
      BY <2>1 DEF vars, mail
    <3>3. ~(LlmFails \/ Refusal \/ ToolReply \/ ToolsEnd)
      BY DEF LlmFails, Refusal, ToolReply, ToolsEnd
    <3>4. ASSUME NEW t \in Triggers, Begin(t) PROVE FALSE
      BY <3>4 DEF Begin
    <3> QED
      BY <3>1, <3>2, <3>3, <3>4 DEF Next, Working
  <2>3. PICK failed \in SUBSET Unanswered :
          marked' = [q \in Peers |->
            IF q \in Unanswered \ failed THEN marked[q] + 1 ELSE marked[q]]
    BY <2>2 DEF Finish, DeliverAnswer
  <2>4. p \notin SentToSet
    BY <2>1, <2>3 DEF Unanswered
  <2> QED
    BY <2>4 DEF SessionInv, AnswersKnown
<1> QED
  BY <1>1, SessionSafe, PTL DEF Spec, NoSecondAnswer

(* No call runs more often than its limit, unless the table of calls was    *)
(* full when it first came.                                                 *)
THEOREM RepeatsAreRefused == Spec => []RepeatsRefused
<1>1. TypeOK /\ SessionInv => RepeatsRefused
  <2> SUFFICES ASSUME TypeOK, SessionInv, NEW c \in Calls, runs[c] > Limit(c)
               PROVE  callCount[c] = 0 /\ nCalls = TableCap
    BY DEF RepeatsRefused
  <2>1. runs[c] \in Nat /\ callCount[c] \in Nat /\ Limit(c) \in {1, 2}
    BY DEF TypeOK, TableType, Limit
  <2> QED
    BY <2>1 DEF SessionInv, RunsCounted
<1> QED
  BY <1>1, SessionSafe, PTL

(* A model that keeps repeating itself is not called again.                 *)
THEOREM StuckSessionsStop == Spec => []StuckStops
<1>1. SessionInv => StuckStops
  BY DEF SessionInv
<1> QED
  BY <1>1, SessionSafe, PTL

(* Every history given to the model, and every conversation kept for the    *)
(* next session, is one that a provider accepts.                            *)
THEOREM HistoriesWellFormed == Spec => []HistoryWellFormed
<1>1. TypeOK /\ SessionInv => HistoryWellFormed
  BY ChainWellFormed DEF TypeOK, HistoryType, SessionInv, HistoryChained,
                         HistoryWellFormed, Last
<1> QED
  BY <1>1, SessionSafe, PTL

-----------------------------------------------------------------------------
(* Why a session ends: the steps it can still take, at most.  A turn is a   *)
(* call of the model, up to MaxBatch tool calls and the end of the tools.   *)
PerTurn == MaxBatch + 2
TurnSteps == (MaxTurns - turn) * PerTurn
StepsLeft ==
    IF pc = "llm" THEN TurnSteps + 1
    ELSE IF pc = "tools" THEN TurnSteps - batch
    ELSE IF pc = "finish" THEN 1 ELSE 0

(* The steps of the turns left, before and after one of them.               *)
LEMMA TurnsShrink ==
    ASSUME NEW k \in Nat, NEW t \in Nat, NEW n \in Nat, t < n
    PROVE  /\ (n - t) * k \in Nat /\ (n - t) * k >= k
           /\ (n - (t + 1)) * k = (n - t) * k - k
<1> DEFINE d == n - (t + 1)
<1>1. d \in Nat /\ n - t = d + 1
  OBVIOUS
<1> HIDE DEF d
<1>2. (d + 1) * k = d * k + k /\ d * k \in Nat
  BY <1>1
<1>3. (n - t) * k = d * k + k
  BY <1>1, <1>2
<1> QED
  BY <1>1, <1>2, <1>3 DEF d

(* No step of a session is free: whatever the model replies, whichever      *)
(* tools it asks for and however often it is nudged or fails, every step    *)
(* uses up one of those that agent_run_session has left.                    *)
LEMMA StepsShrink ==
    ASSUME TypeOK, TurnsLeft, Working
    PROVE  StepsLeft' < StepsLeft
<1>1. /\ MaxTurns \in Nat /\ MaxBatch \in Nat /\ PerTurn \in Nat
      /\ PerTurn = MaxBatch + 2 /\ PerTurn' = PerTurn
  BY SessionAssumption DEF SessionAssumption, PerTurn
<1>2. turn \in Nat /\ batch \in Nat /\ batch <= MaxBatch
  BY <1>1 DEF TypeOK, LoopType
<1>3. ASSUME pc \in {"llm", "tools"}
      PROVE  /\ turn < MaxTurns /\ TurnSteps \in Nat /\ TurnSteps >= PerTurn
             /\ (MaxTurns - (turn + 1)) * PerTurn = TurnSteps - PerTurn
  <2>1. turn < MaxTurns
    BY <1>3 DEF TurnsLeft
  <2> QED
    BY <1>1, <1>2, <2>1, TurnsShrink DEF TurnSteps
<1>4. turn' = turn => TurnSteps' = TurnSteps
  BY <1>1 DEF TurnSteps
<1>5. turn' = turn + 1 => TurnSteps' = (MaxTurns - (turn + 1)) * PerTurn
  BY <1>1 DEF TurnSteps
<1> HIDE DEF PerTurn, TurnSteps
<1>6. ASSUME pc \in {"llm", "tools"}, pc' = "finish" PROVE StepsLeft' < StepsLeft
  <2>1. StepsLeft' = 1
    BY <1>6 DEF StepsLeft
  <2>2. StepsLeft = TurnSteps + 1 \/ StepsLeft = TurnSteps - batch
    BY <1>6 DEF StepsLeft
  <2> QED
    BY <1>1, <1>2, <1>3, <1>6, <2>1, <2>2
<1>7. ASSUME pc \in {"llm", "tools"}, turn' = turn + 1, pc' \in {"llm", "finish"}
      PROVE  StepsLeft' < StepsLeft
  <2>1. CASE pc' = "finish"
    BY <1>6, <1>7, <2>1
  <2>2. CASE pc' = "llm"
    <3>1. StepsLeft' = (TurnSteps - PerTurn) + 1
      BY <1>3, <1>5, <1>7, <2>2 DEF StepsLeft
    <3>2. StepsLeft = TurnSteps + 1 \/ StepsLeft = TurnSteps - batch
      BY <1>7 DEF StepsLeft
    <3> QED
      BY <1>1, <1>2, <1>3, <1>7, <3>1, <3>2
  <2> QED
    BY <1>7, <2>1, <2>2
<1>8. CASE LlmFails \/ Refusal
  BY <1>6, <1>8 DEF LlmFails, Refusal, Break
<1>9. CASE TextReply
  BY <1>6, <1>7, <1>9, TextReplyEffect DEF Leaves, GoesOn
<1>10. CASE ToolReply
  <2>1. pc = "llm" /\ pc' = "tools" /\ turn' = turn /\ batch' = 0
    BY <1>10 DEF ToolReply
  <2>2. StepsLeft' = TurnSteps - 0 /\ StepsLeft = TurnSteps + 1
    BY <1>4, <2>1 DEF StepsLeft
  <2> QED
    BY <1>3, <2>1, <2>2
<1>11. ASSUME NEW c \in Calls, RunTool(c) PROVE StepsLeft' < StepsLeft
  <2>1. pc = "tools" /\ pc' = "tools" /\ turn' = turn /\ batch' = batch + 1
    BY <1>11, ToolEffect
  <2>2. StepsLeft' = TurnSteps - (batch + 1) /\ StepsLeft = TurnSteps - batch
    BY <1>4, <2>1 DEF StepsLeft
  <2> QED
    BY <1>2, <1>3, <2>1, <2>2
<1>12. CASE ToolsEnd
  BY <1>6, <1>7, <1>12 DEF ToolsEnd, Break, Continue
<1>13. CASE Finish
  BY <1>13 DEF Finish, StepsLeft
<1> QED
  BY <1>8, <1>9, <1>10, <1>11, <1>12, <1>13 DEF Working

(* Every session is bounded in advance, for any number of turns and tool    *)
(* calls: it takes at most MaxTurns * (MaxBatch + 2) + 1 steps, for each of *)
(* its steps leaves fewer.  This is the half of SessionEnds that needs no   *)
(* fairness.                                                                *)
THEOREM SessionsRunOut ==
    Spec => /\ [](StepsLeft \in 0..MaxTurns * PerTurn + 1)
            /\ [][Working => StepsLeft' < StepsLeft]_vars
<1>1. TypeOK /\ TurnsLeft => StepsLeft \in 0..MaxTurns * PerTurn + 1
  <2> SUFFICES ASSUME TypeOK, TurnsLeft PROVE StepsLeft \in 0..MaxTurns * PerTurn + 1
    OBVIOUS
  <2>1. MaxTurns \in Nat /\ MaxBatch \in Nat /\ PerTurn = MaxBatch + 2 /\ PerTurn \in Nat
    BY SessionAssumption DEF SessionAssumption, PerTurn
  <2>2. turn \in 0..MaxTurns /\ batch \in 0..MaxBatch
    BY DEF TypeOK, LoopType
  <2> DEFINE d == MaxTurns - turn
  <2>3. d \in Nat /\ MaxTurns = d + turn /\ turn \in Nat
    BY <2>1, <2>2
  <2>4. TurnSteps = d * PerTurn
    BY DEF TurnSteps
  <2> HIDE DEF d, PerTurn
  <2>5. MaxTurns * PerTurn = d * PerTurn + turn * PerTurn
        /\ d * PerTurn \in Nat /\ turn * PerTurn \in Nat
    BY <2>1, <2>3
  <2>6. pc = "tools" => TurnSteps >= PerTurn
    BY <2>1, <2>3, TurnsShrink DEF TurnsLeft, TurnSteps
  <2> DEFINE x == d * PerTurn
             y == turn * PerTurn
  <2>7. TurnSteps = x /\ x \in Nat /\ y \in Nat /\ MaxTurns * PerTurn = x + y
    BY <2>4, <2>5
  <2> HIDE DEF x, y, TurnSteps
  <2>8. StepsLeft \in 0..(x + y) + 1
    BY <2>1, <2>2, <2>6, <2>7 DEF StepsLeft
  <2> QED
    BY <2>7, <2>8
<1>2. TypeOK /\ TurnsLeft /\ [Next]_vars => [Working => StepsLeft' < StepsLeft]_vars
  BY StepsShrink
<1>3. SessionInv => TurnsLeft
  BY DEF SessionInv
<1> QED
  BY <1>1, <1>2, <1>3, SessionSafe, PTL DEF Spec
=============================================================================
