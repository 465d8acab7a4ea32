----------------------------- MODULE CallProofs -----------------------------
(***************************************************************************)
(* Proofs about what a session calls outside the daemon.                    *)
(*                                                                          *)
(* Its requests and those of its plugins, for any room for headers, any     *)
(* number of redirects and any cap on the waits: settings are used up by    *)
(* the request they were made for, and an LLM call keeps to its retries.    *)
(*                                                                          *)
(* Its child processes, for any number of calls and any amount of output: a *)
(* call that returns has reaped its child and left nothing of a command's   *)
(* group behind, has read everything when it was in time, and never times   *)
(* out because of another call's command.                                   *)
(***************************************************************************)
EXTENDS LlmProvider, ChildProcs, SequenceTheorems, TLAPS

ShortSettings == [hdrs : Seq(Headers), timeout : {"default"}]

(* The settings of the session thread are used up between its requests, and *)
(* a plugin's are those it made itself since its last request.              *)
SettingsOwn ==
    /\ net \in [Sides -> ShortSettings]
    /\ turn \in Sides /\ asked \in Seq(Headers)
    /\ net["thread"] = Fresh
    /\ turn = "plugin" => net["plugin"].hdrs = asked

(* The last request carried what it was meant to.                           *)
SentClean ==
    /\ sent.hdrs = sent.asked
    /\ sent.timeout = (IF sent.by = "thread" THEN "llm" ELSE "default")
    /\ sent.by = "thread" => sent.asked = Auth

(* The attempts of an LLM call: each but the last ended in an error that    *)
(* another attempt may mend, and the waits are bounded by their number.     *)
LlmCalls == [pc : {"idle", "trying", "ok", "failed"}, prov : Providers,
             attempt : 0..MaxRetries, waited : Nat]

AttemptsCounted ==
    /\ call \in LlmCalls /\ statuses \in Seq(Errors \cup Codes)
    /\ call.waited <= call.attempt * MaxWait
    /\ call.pc = "trying" => Len(statuses) = call.attempt /\ turn = "thread"
    /\ call.pc # "trying" => Len(statuses) <= MaxRetries + 1
    /\ \A i \in 1..Len(statuses) :
         statuses[i] \in retryable \/ (i = Len(statuses) /\ call.pc # "trying")
    /\ call.pc = "ok" => Len(statuses) > 0 /\ statuses[Len(statuses)] = "200"

CallInv == SettingsOwn /\ SentClean /\ AttemptsCounted

-----------------------------------------------------------------------------
(* One element and another make a pair.                                     *)
LEMMA PairAppended ==
    ASSUME NEW S, NEW x \in S, NEW y \in S
    PROVE  Append(<<x>>, y) = <<x, y>>
<1> DEFINE one == <<x>>
           a == Append(one, y)
           b == <<x, y>>
<1>1. one \in Seq(S) /\ Len(one) = 1 /\ one[1] = x
  OBVIOUS
<1>2. b \in Seq(S) /\ Len(b) = 2 /\ b[1] = x /\ b[2] = y
  OBVIOUS
<1> HIDE DEF one, b
<1>3. a \in Seq(S) /\ Len(a) = Len(one) + 1
  BY <1>1, AppendProperties
<1>4. \A i \in 1..Len(one) : a[i] = one[i]
  BY <1>1, AppendProperties
<1>5. a[Len(one) + 1] = y
  BY <1>1, AppendProperties
<1> HIDE DEF a
<1>6. Len(a) = 2 /\ a[1] = x /\ a[2] = y
  BY <1>1, <1>3, <1>4, <1>5
<1>7. \A i \in 1..2 : a[i] = b[i]
  BY <1>2, <1>6
<1>8. a = b
  BY <1>2, <1>3, <1>6, <1>7, SeqEqual
<1> QED BY <1>8 DEF a, b, one

(* There is room for the headers of either provider.                        *)
LEMMA AuthFits == WithAuth(<<>>) = Auth
<1> DEFINE one == <<"key">>
<1>1. Added(<<>>, "key") = one
  <2>1. Len(<<>>) < MaxHdrs
    BY HttpAssumption
  <2>2. Append(<<>>, "key") = one
    OBVIOUS
  <2> QED BY <2>1, <2>2 DEF Added
<1>2. Added(one, "version") = <<"key", "version">>
  <2>1. Len(one) < MaxHdrs
    BY HttpAssumption
  <2>2. Append(one, "version") = <<"key", "version">>
    <3>1. "key" \in Headers /\ "version" \in Headers
      BY DEF Headers
    <3> QED BY <3>1, PairAppended
  <2> QED BY <2>1, <2>2 DEF Added
<1> QED BY <1>1, <1>2 DEF WithAuth, Auth

(* No wait is longer than the cap.                                          *)
LEMMA WaitBounded ==
    ASSUME NEW after \in Nat, NEW attempt \in 0..1
    PROVE  Wait(after, attempt) \in Nat /\ Wait(after, attempt) <= MaxWait
<1>1. 2 * 4^attempt \in Nat
  <2>1. 4^0 = 1 /\ 4^1 = 4
    OBVIOUS
  <2>2. attempt = 0 \/ attempt = 1
    OBVIOUS
  <2>3. CASE attempt = 0
    BY <2>1, <2>3
  <2>4. CASE attempt = 1
    BY <2>1, <2>4
  <2> QED BY <2>2, <2>3, <2>4
<1> DEFINE w == IF after > 0 THEN after ELSE 2 * 4^attempt
<1>2. w \in Nat
  BY <1>1
<1>3. Wait(after, attempt) = Min({MaxWait, w})
  BY DEF Wait
<1> HIDE DEF w
<1>4. \E x \in {MaxWait, w} : \A y \in {MaxWait, w} : x <= y
  <2>1. CASE w <= MaxWait
    BY <1>2, <2>1, LlmAssumption
  <2>2. CASE MaxWait <= w
    BY <1>2, <2>2, LlmAssumption
  <2> QED BY <1>2, <2>1, <2>2, LlmAssumption
<1>5. Min({MaxWait, w}) \in {MaxWait, w} /\ \A y \in {MaxWait, w} : Min({MaxWait, w}) <= y
  BY <1>4 DEF Min
<1> QED BY <1>2, <1>3, <1>5, LlmAssumption

(* What do_request leaves behind: fresh settings for its process, and       *)
(* nothing or the request with the headers and the timeout it found.        *)
LEMMA RequestMade ==
    ASSUME net \in [Sides -> ShortSettings], NEW p \in Sides, NEW n, NEW meant, NEW status,
           DoRequest(p, n, meant, status)
    PROVE  /\ net' \in [Sides -> ShortSettings] /\ net'[p] = Fresh
           /\ \A q \in Sides \ {p} : net'[q] = net[q]
           /\ asked' = <<>> /\ asked' \in Seq(Headers)
           /\ \/ sent' = NoRequest
              \/ sent' = [by |-> p, hdrs |-> n.hdrs, timeout |-> n.timeout, asked |-> meant,
               stale |-> stale]
<1>1. Fresh \in ShortSettings
  BY DEF Fresh, ShortSettings
<1>2. net' = [net EXCEPT ![p] = Fresh] /\ asked' = <<>>
  BY DEF DoRequest, AfterRequest
<1>3. \/ sent' = NoRequest
      \/ sent' = [by |-> p, hdrs |-> n.hdrs, timeout |-> n.timeout, asked |-> meant,
               stale |-> stale]
  BY DEF DoRequest
<1>4. <<>> \in Seq(Headers)
  OBVIOUS
<1> HIDE DEF Fresh
<1> QED BY <1>1, <1>2, <1>3, <1>4

(* A header more, or as many as there were.                                 *)
LEMMA AddedTyped ==
    ASSUME NEW q \in Seq(Headers), NEW h \in Headers
    PROVE  Added(q, h) \in Seq(Headers)
BY DEF Added

(* The plugin's calls use and use up the plugin's settings only.            *)
LEMMA PluginKeeps ==
    ASSUME SettingsOwn, SentClean, HttpNext, call'.prov = call.prov
    PROVE  SettingsOwn' /\ SentClean'
<1> DEFINE P == net["plugin"]
<1>1. /\ net \in [Sides -> ShortSettings] /\ turn \in Sides /\ asked \in Seq(Headers)
      /\ net["thread"] = Fresh /\ (turn = "plugin" => P.hdrs = asked)
      /\ P \in ShortSettings /\ P.hdrs \in Seq(Headers) /\ P.timeout = "default"
  BY DEF SettingsOwn, ShortSettings, Sides
<1>2. /\ "plugin" \in Sides /\ "thread" \in Sides /\ "thread" # "plugin"
      /\ Fresh.hdrs = <<>> /\ Fresh \in ShortSettings /\ <<>> \in Seq(Headers)
  BY DEF Sides, Fresh, ShortSettings
<1>3. sent' = sent => SentClean'
  BY DEF SentClean, Auth
<1>4. CASE PluginStarts
  <2>1. /\ net' = [net EXCEPT !["plugin"] = Fresh] /\ turn' = "plugin" /\ asked' = <<>>
        /\ sent' = sent
    BY <1>1, <1>4 DEF PluginStarts
  <2> HIDE DEF Fresh
  <2>2. /\ net' \in [Sides -> ShortSettings] /\ net'["thread"] = Fresh /\ net'["plugin"] = Fresh
        /\ asked' \in Seq(Headers)
    BY <1>1, <1>2, <2>1
  <2> QED BY <1>2, <1>3, <2>1, <2>2 DEF SettingsOwn, ShortSettings
<1>5. CASE PluginEnds
  BY <1>1, <1>2, <1>3, <1>5 DEF PluginEnds, SettingsOwn, ShortSettings
<1>6. CASE TcHttpHeader
  <2>1. PICK q \in Seq(Headers) :
          net' = [net EXCEPT !["plugin"].hdrs = q] /\ asked' = q
    <3>1. \A h \in {"mine", "other"} : Added(asked, h) \in Seq(Headers)
      BY <1>1, AddedTyped DEF Headers
    <3>2. P.hdrs = asked
      BY <1>1, <1>6 DEF TcHttpHeader
    <3> QED BY <1>2, <1>6, <3>1, <3>2 DEF TcHttpHeader
  <2>2. turn' = turn /\ sent' = sent
    BY <1>6 DEF TcHttpHeader
  <2>3. [P EXCEPT !.hdrs = q] \in ShortSettings /\ [P EXCEPT !.hdrs = q].hdrs = q
    BY <1>1 DEF ShortSettings
  <2>4. net' = [net EXCEPT !["plugin"] = [P EXCEPT !.hdrs = q]]
    BY <1>1, <1>2, <2>1
  <2> DEFINE S == [P EXCEPT !.hdrs = q]
  <2> HIDE DEF S, P
  <2>5. net' \in [Sides -> ShortSettings] /\ net'["thread"] = Fresh /\ net'["plugin"] = S
    BY <1>1, <1>2, <2>3, <2>4 DEF S
  <2> QED BY <1>1, <1>3, <2>1, <2>2, <2>3, <2>5 DEF SettingsOwn, ShortSettings, S
<1>8. CASE TcHttpGet /\ UrlTooLong
  BY <1>1, <1>2, <1>3, <1>8 DEF TcHttpGet, UrlTooLong, SettingsOwn, ShortSettings
<1>7. CASE TcHttpPost \/ (TcHttpGet /\ GetRequest)
  <2>1. PICK status : DoRequest("plugin", P, asked, status)
    BY <1>7 DEF TcHttpPost, GetRequest
  <2>2. turn = "plugin" /\ turn' = "plugin"
    BY <1>7 DEF TcHttpPost, TcHttpGet
  <2>3. /\ net' \in [Sides -> ShortSettings] /\ net'["plugin"] = Fresh /\ net'["thread"] = Fresh
        /\ asked' = <<>> /\ asked' \in Seq(Headers)
        /\ \/ sent' = NoRequest
           \/ sent' = [by |-> "plugin", hdrs |-> P.hdrs, timeout |-> P.timeout, asked |-> asked,
               stale |-> stale]
    BY <1>1, <1>2, <2>1, RequestMade
  <2>4. SettingsOwn'
    BY <1>2, <2>2, <2>3 DEF SettingsOwn, ShortSettings
  <2>5. SentClean'
    BY <1>1, <2>2, <2>3 DEF SentClean, NoRequest
  <2> QED BY <2>4, <2>5
<1> QED BY <1>4, <1>5, <1>6, <1>7, <1>8 DEF HttpNext, TcHttpGet

(* An attempt of an LLM call finds the thread's settings fresh.             *)
LEMMA TryKeeps ==
    ASSUME SettingsOwn, SentClean, AttemptsCounted, LlmTry, call'.prov = call.prov
    PROVE  SettingsOwn' /\ SentClean'
<1> DEFINE n == [hdrs |-> WithAuth(net["thread"].hdrs), timeout |-> "llm"]
<1>1. /\ net \in [Sides -> ShortSettings] /\ turn = "thread" /\ turn' = "thread"
      /\ net["thread"].hdrs = <<>> /\ "thread" \in Sides
  BY DEF SettingsOwn, ShortSettings, AttemptsCounted, LlmTry, Fresh, Sides
<1>2. n.hdrs = Auth /\ n.timeout = "llm"
  BY <1>1, AuthFits
<1>3. PICK status : DoRequest("thread", n, Auth, status)
  BY DEF LlmTry
<1> HIDE DEF n
<1>4. /\ net' \in [Sides -> ShortSettings] /\ net'["thread"] = Fresh
      /\ asked' \in Seq(Headers)
      /\ \/ sent' = NoRequest
         \/ sent' = [by |-> "thread", hdrs |-> n.hdrs, timeout |-> n.timeout, asked |-> Auth,
               stale |-> stale]
  BY <1>1, <1>3, RequestMade
<1>5. SettingsOwn'
  BY <1>1, <1>4 DEF SettingsOwn, ShortSettings
<1>6. Auth' = Auth
  BY DEF Auth
<1>7. SentClean'
  <2>1. CASE sent' = NoRequest
    BY <2>1 DEF SentClean, NoRequest
  <2>2. CASE sent' = [by |-> "thread", hdrs |-> n.hdrs, timeout |-> n.timeout, asked |-> Auth,
               stale |-> stale]
    BY <1>2, <1>6, <2>2 DEF SentClean
  <2> QED BY <1>4, <2>1, <2>2
<1> QED BY <1>5, <1>7

(* The call's record after each kind of step.                               *)
LEMMA CallUpdates ==
    ASSUME NEW r \in LlmCalls, NEW stage \in {"idle", "trying", "ok", "failed"},
           NEW k \in 0..MaxRetries, NEW w \in Nat
    PROVE  /\ [r EXCEPT !.pc = stage] \in LlmCalls
           /\ [r EXCEPT !.pc = stage, !.attempt = k, !.waited = w] \in LlmCalls
           /\ [r EXCEPT !.attempt = k, !.waited = w] \in LlmCalls
BY DEF LlmCalls

(* A finished attempt is counted, and only an error that another may mend   *)
(* is followed by one.                                                      *)
LEMMA TryCounted ==
    ASSUME AttemptsCounted, LlmTry
    PROVE  AttemptsCounted' /\ call'.prov = call.prov
<1> DEFINE m == Len(statuses)
<1>1. /\ call \in LlmCalls /\ call.attempt \in 0..2 /\ call.waited \in Nat
      /\ statuses \in Seq(Errors \cup Codes) /\ m = call.attempt /\ turn = "thread"
      /\ call.pc = "trying" /\ turn' = turn
      /\ call.waited <= call.attempt * MaxWait
      /\ \A i \in 1..m : statuses[i] \in retryable
  BY DEF AttemptsCounted, LlmTry, LlmCalls, MaxRetries
<1>2. PICK status \in Errors \cup Codes :
        /\ statuses' = Append(statuses, status)
        /\ \/ status = "200" /\ \E end \in {"ok", "failed"} : call' = [call EXCEPT !.pc = end]
           \/ /\ Retries(status, call.attempt)
              /\ \E retryAfter \in {0, 1, 2 * MaxWait} :
                   call' = [call EXCEPT !.attempt = @ + 1,
                                        !.waited = @ + Wait(retryAfter, call.attempt)]
           \/ /\ status # "200" /\ ~Retries(status, call.attempt)
              /\ call' = [call EXCEPT !.pc = "failed"]
  BY DEF LlmTry
<1>3. /\ statuses' \in Seq(Errors \cup Codes) /\ Len(statuses') = m + 1
      /\ m \in Nat
  BY <1>1, <1>2
<1>4. (\A i \in 1..m : statuses'[i] = statuses[i]) /\ statuses'[m + 1] = status
  BY <1>1, <1>2
<1> HIDE DEF m
<1>5. ASSUME NEW i \in 1..Len(statuses') PROVE i = m + 1 \/ statuses'[i] \in retryable
  <2>1. i = m + 1 \/ i \in 1..m
    BY <1>3
  <2> QED BY <1>1, <1>4, <2>1
<1>6. CASE \E end \in {"ok", "failed"} :
             (end = "ok" => status = "200") /\ call' = [call EXCEPT !.pc = end]
  <2>1. PICK end \in {"ok", "failed"} :
          (end = "ok" => status = "200") /\ call' = [call EXCEPT !.pc = end]
    BY <1>6
  <2>2. /\ call' \in LlmCalls /\ call'.pc = end /\ call'.attempt = call.attempt
        /\ call'.waited = call.waited /\ call'.prov = call.prov
    BY <1>1, <2>1 DEF LlmCalls
  <2>3. Len(statuses') <= MaxRetries + 1 /\ Len(statuses') > 0
    BY <1>1, <1>3 DEF MaxRetries
  <2> QED BY <1>1, <1>3, <1>4, <1>5, <2>1, <2>2, <2>3 DEF AttemptsCounted
<1>7. CASE /\ Retries(status, call.attempt)
           /\ \E retryAfter \in {0, 1, 2 * MaxWait} :
                call' = [call EXCEPT !.attempt = @ + 1,
                                     !.waited = @ + Wait(retryAfter, call.attempt)]
  <2>1. PICK after \in {0, 1, 2 * MaxWait} :
          call' = [call EXCEPT !.attempt = @ + 1, !.waited = @ + Wait(after, call.attempt)]
    BY <1>7
  <2>2. call.attempt \in 0..1 /\ status \in retryable /\ after \in Nat
    BY <1>1, <1>7, LlmAssumption DEF Retries, MaxRetries
  <2> DEFINE w == Wait(after, call.attempt)
             k == call.attempt + 1
             v == call.waited + w
  <2>3. w \in Nat /\ w <= MaxWait
    BY <2>2, WaitBounded
  <2>4. call' = [call EXCEPT !.attempt = k, !.waited = v]
    BY <2>1
  <2> HIDE DEF w
  <2>5. k \in 0..MaxRetries /\ v \in Nat /\ v <= k * MaxWait
    <3>1. k \in 0..MaxRetries /\ v \in Nat
      BY <1>1, <2>2, <2>3 DEF MaxRetries
    <3>2. CASE call.attempt = 0
      <4>1. call.attempt * MaxWait = 0 /\ k * MaxWait = MaxWait
        BY <3>2, LlmAssumption
      <4> QED BY <1>1, <2>3, <3>1, <4>1, LlmAssumption
    <3>3. CASE call.attempt = 1
      <4>1. call.attempt * MaxWait = MaxWait /\ k * MaxWait = MaxWait + MaxWait
        BY <3>3, LlmAssumption
      <4> QED BY <1>1, <2>3, <3>1, <4>1, LlmAssumption
    <3> QED BY <2>2, <3>2, <3>3
  <2>6. /\ call' \in LlmCalls /\ call'.pc = "trying" /\ call'.attempt = k
        /\ call'.waited = v /\ call'.prov = call.prov
    <3> HIDE DEF k, v
    <3> QED BY <1>1, <2>4, <2>5 DEF LlmCalls
  <2>7. Len(statuses') = k
    BY <1>1, <1>3
  <2> HIDE DEF k, v
  <2>8. call'.waited <= call'.attempt * MaxWait
    BY <2>5, <2>6
  <2>9. \A i \in 1..Len(statuses') : statuses'[i] \in retryable
    BY <1>4, <1>5, <2>2
  <2> QED BY <1>1, <1>3, <2>6, <2>7, <2>8, <2>9 DEF AttemptsCounted
<1> QED BY <1>2, <1>6, <1>7

(* Every step keeps the invariant.                                          *)
LEMMA CallsGoOn == CallInv /\ [CallNext \/ TalkNext]_<<httpVars, llmVars>> => CallInv'
<1> SUFFICES ASSUME CallInv, [CallNext \/ TalkNext]_<<httpVars, llmVars>> PROVE CallInv'
  OBVIOUS
<1>0. SettingsOwn /\ SentClean /\ AttemptsCounted
  BY DEF CallInv
<1>a. /\ 0 \in 0..MaxRetries /\ 0 \in Nat /\ 0 * MaxWait = 0
      /\ <<>> \in Seq(Errors \cup Codes) /\ Len(<<>>) = 0
  BY LlmAssumption DEF MaxRetries
<1>1. CASE LlmStart
  <2>1. /\ call' = [call EXCEPT !.pc = "trying", !.attempt = 0, !.waited = 0]
        /\ statuses' = <<>> /\ turn' = turn /\ turn = "thread"
        /\ net' = net /\ sent' = sent /\ asked' = asked
    BY <1>1 DEF LlmStart, httpVars
  <2>2. /\ call' \in LlmCalls /\ call'.pc = "trying" /\ call'.attempt = 0 /\ call'.waited = 0
        /\ call'.prov = call.prov
    BY <1>0, <1>a, <2>1 DEF AttemptsCounted, LlmCalls
  <2>3. AttemptsCounted'
    BY <1>a, <2>1, <2>2 DEF AttemptsCounted
  <2>4. SettingsOwn' /\ SentClean'
    BY <1>0, <2>1, <2>2 DEF SettingsOwn, SentClean, Auth
  <2> QED BY <2>3, <2>4 DEF CallInv
<1>2. CASE LlmTry
  BY <1>0, <1>2, TryCounted, TryKeeps DEF CallInv
<1>3. CASE Between
  <2>1. /\ HttpNext /\ statuses' = <<>>
        /\ call' = [call EXCEPT !.pc = "idle", !.attempt = 0, !.waited = 0]
    BY <1>3 DEF Between
  <2>2. /\ call' \in LlmCalls /\ call'.pc = "idle" /\ call'.attempt = 0 /\ call'.waited = 0
        /\ call'.prov = call.prov
    BY <1>0, <1>a, <2>1 DEF AttemptsCounted, LlmCalls
  <2>3. AttemptsCounted'
    BY <1>a, <2>1, <2>2 DEF AttemptsCounted, MaxRetries
  <2> QED BY <1>0, <2>1, <2>2, <2>3, PluginKeeps DEF CallInv
<1>4. CASE TalkNext \/ UNCHANGED <<httpVars, llmVars>>
  <2>1. UNCHANGED <<net, turn, sent, asked, call, statuses>>
    BY <1>4 DEF TalkNext, Converse, httpVars, llmVars
  <2> QED BY <1>0, <2>1 DEF CallInv, SettingsOwn, SentClean, AttemptsCounted, Auth
<1> QED BY <1>1, <1>2, <1>3, <1>4 DEF CallNext

(* Every request carries exactly the headers and the timeout that its       *)
(* process set since the last one: do_request uses them up on every path,   *)
(* refusals included, a plugin inherits none, a redirect repeats none.  An  *)
(* LLM call makes at most three attempts, repeats one only after an error   *)
(* that retryable lists, and waits at most MaxWait between two.             *)
THEOREM RequestsAreClean == LlmSpec => []RequestsClean
<1>1. HttpInit /\ LlmInit => CallInv
  <2> SUFFICES ASSUME HttpInit, LlmInit PROVE CallInv
    OBVIOUS
  <2>1. /\ net = [p \in Sides |-> Fresh] /\ turn = "thread" /\ asked = <<>> /\ sent = NoRequest
        /\ statuses = <<>>
    BY DEF HttpInit, LlmInit
  <2>2. Fresh \in ShortSettings /\ "thread" \in Sides
    BY DEF Fresh, ShortSettings, Sides
  <2>3. SettingsOwn
    BY <2>1, <2>2 DEF SettingsOwn
  <2>4. SentClean
    BY <2>1 DEF SentClean, NoRequest
  <2>5. /\ call \in LlmCalls /\ call.pc = "idle" /\ call.attempt = 0 /\ call.waited = 0
    BY DEF LlmInit, LlmCalls, MaxRetries
  <2>6. 0 * MaxWait = 0 /\ Len(<<>>) = 0 /\ <<>> \in Seq(Errors \cup Codes)
    BY LlmAssumption
  <2>7. AttemptsCounted
    BY <2>1, <2>5, <2>6 DEF AttemptsCounted, MaxRetries
  <2> QED BY <2>3, <2>4, <2>7 DEF CallInv
<1>2. CallInv => RequestsClean
  <2> SUFFICES ASSUME CallInv PROVE RequestsClean
    OBVIOUS
  <2> DEFINE m == Len(statuses)
  <2>1. /\ call.attempt \in 0..2 /\ call.waited \in Nat /\ m \in Nat
        /\ call.waited <= call.attempt * MaxWait
        /\ (call.pc = "trying" => m = call.attempt) /\ (call.pc # "trying" => m <= 3)
        /\ \A i \in 1..m : statuses[i] \in retryable \/ i = m
        /\ (call.pc = "ok" => statuses[m] = "200")
    BY DEF CallInv, AttemptsCounted, LlmCalls, MaxRetries
  <2>2. call.waited <= 2 * MaxWait
    <3>1. call.attempt * MaxWait <= 2 * MaxWait
      <4>1. /\ 0 * MaxWait <= 2 * MaxWait /\ 1 * MaxWait <= 2 * MaxWait
            /\ 2 * MaxWait <= 2 * MaxWait
        BY LlmAssumption
      <4>2. call.attempt = 0 \/ call.attempt = 1 \/ call.attempt = 2
        BY <2>1
      <4> QED BY <4>1, <4>2, Zenon
    <3>2. call.attempt * MaxWait \in Nat
      BY <2>1, LlmAssumption
    <3> QED BY <2>1, <3>1, <3>2, LlmAssumption
  <2> HIDE DEF m
  <2>3. m <= 3
    BY <2>1
  <2>4. ASSUME NEW i \in 1..(m - 1) PROVE statuses[i] \in {"connect", "proto", "408", "429", "500"}
    <3>1. i \in 1..m /\ i # m
      BY <2>1
    <3>2. statuses[i] \in retryable
      BY <2>1, <3>1
    <3> QED BY <3>2 DEF retryable
  <2> QED BY <2>1, <2>2, <2>3, <2>4 DEF RequestsClean, CallInv, SentClean, Last, m
<1> QED BY <1>1, <1>2, CallsGoOn, PTL DEF LlmSpec

-----------------------------------------------------------------------------
(* The child processes.                                                     *)


(* Where the thread is tells what its child may be. *)
Stages ==
    \A c \in Calls :
      /\ pc[c] \in {"idle", "piped"} => child[c] = "none"
      /\ pc[c] \in {"forked", "reading", "waiting", "killing"} =>
           child[c] \in {"forked", "runs", "exited"}
      /\ pc[c] = "reaping" => child[c] = "exited"
      /\ pc[c] = "done" => child[c] \in {"none", "reaped"}
      /\ child[c] \in {"none", "forked"} => job[c] = "none"
      /\ timedOut[c] => late[c] /\ pc[c] \in {"killing", "reaping", "done"}
      /\ pc[c] \in {"killing", "reaping"} => timedOut[c]

(* A command leads a group of its own before its shell runs, and before its *)
(* call can time out; what has been killed with it does not run.            *)
Groups ==
    \A c \in Calls : kind[c] = "exec" =>
      /\ child[c] \in {"runs", "exited", "reaped"} => grouped[c]
      /\ child[c] = "forked" /\ pc[c] # "forked" => grouped[c]
      /\ timedOut[c] /\ pc[c] \in {"reaping", "done"} => job[c] # "runs"

(* Every unit a call's processes wrote is kept, dropped or still in the     *)
(* pipe; nothing is dropped before the room is full; no pipe that has       *)
(* reached its end fills again.                                             *)
Accounted ==
    \A c \in Calls :
      /\ len[c] + dropped[c] + inPipe[c] = written[c]
      /\ dropped[c] > 0 => len[c] = Cap
      /\ pc[c] \in {"idle", "piped", "waiting"} => inPipe[c] = 0
      /\ pc[c] = "waiting" => writers[c] = {}
      /\ pc[c] = "done" /\ ~timedOut[c] => inPipe[c] = 0

(* The pipe of another call: a command's child holds it only until it       *)
(* becomes the shell, and its job never does.                               *)
Foreign ==
    \A c, d \in Calls : c # d /\ kind[d] = "exec" =>
      /\ Child(d) \in writers[c] => child[d] = "forked"
      /\ Job(d) \notin writers[c]

(* Whom a call whose deadline has passed was waiting for. *)
Blamed ==
    \A c \in Calls : late[c] =>
      \/ blame[c] \cap (Own(c) \cup {Daemon}) # {}
      \/ \E d \in Calls : kind[d] # "exec" /\ blame[c] \cap Own(d) # {}

ChildInv == ChildTypeOK /\ Stages /\ Groups /\ Accounted /\ Foreign /\ Blamed

(* A process is the daemon, one call's child or one call's job. *)
LEMMA ProcessesDiffer ==
    /\ \A c, d \in Calls : Child(c) = Child(d) <=> c = d
    /\ \A c, d \in Calls : Job(c) = Job(d) <=> c = d
    /\ \A c, d \in Calls : Child(c) # Job(d)
    /\ \A c \in Calls : Child(c) # Daemon /\ Job(c) # Daemon
    /\ \A c \in Calls : {Daemon, Child(c), Job(c)} \subseteq Processes
  BY DEF Child, Job, Daemon, Processes

(* The program that runs and the threads keep the kinds of values. *)
LEMMA ChildTyped == ChildInv /\ [ChildNext]_childVars => ChildTypeOK'
<1> SUFFICES ASSUME ChildInv, [ChildNext]_childVars PROVE ChildTypeOK'
  OBVIOUS
<1> USE ChildAssumption DEF ChildInv, ChildTypeOK
<1>1. CASE UNCHANGED childVars
  BY <1>1 DEF childVars
<1>2. ASSUME NEW c \in Calls, Thread(c) PROVE ChildTypeOK'
  <2>1. CASE Pipe(c)
    BY <2>1, ProcessesDiffer DEF Pipe, Goes, procVars
  <2>2. CASE Fork(c)
    BY <2>2, ProcessesDiffer DEF Fork, Goes, Inherits
  <2>3. CASE ParentGoesOn(c)
    BY <2>3 DEF ParentGoesOn, Goes
  <2>4. CASE Read(c)
    <3>1. inPipe' \in [Calls -> 0..PipeRoom]
      BY <2>4 DEF Read
    <3>2. len' \in [Calls -> 0..Cap]
      BY <2>4 DEF Read
    <3>3. dropped' \in [Calls -> 0..MaxOut]
      BY <2>4 DEF Read, Accounted
    <3> QED
      BY <2>4, <3>1, <3>2, <3>3 DEF Read, procVars
  <2>5. CASE Eof(c)
    BY <2>5 DEF Eof, Goes, procVars
  <2>6. CASE ReadTimesOut(c) \/ WaitTimesOut(c)
    BY <2>6 DEF ReadTimesOut, WaitTimesOut, TimesOut, Goes, procVars
  <2>7. CASE WaitReaps(c) \/ KilledReaped(c)
    BY <2>7 DEF WaitReaps, KilledReaped, Reaps, Goes
  <2>8. CASE Kill(c)
    BY <2>8 DEF Kill, Goes, LetGo
  <2> QED
    BY <1>2, <2>1, <2>2, <2>3, <2>4, <2>5, <2>6, <2>7, <2>8 DEF Thread
<1>3. ASSUME NEW c \in Calls, Tick(c) PROVE ChildTypeOK'
  <2>1. WaitsFor(c) \subseteq Processes
    BY ProcessesDiffer DEF WaitsFor
  <2> QED
    BY <1>3, <2>1, ProcessesDiffer DEF Tick, procVars
<1>4. ASSUME NEW c \in Calls, Program(c) PROVE ChildTypeOK'
  <2>1. CASE ChildExecs(c)
    BY <2>1 DEF ChildExecs, Joins, ClosesOthers, threadVars
  <2>2. CASE Exits(c)
    BY <2>2 DEF Exits, LetGo, threadVars
  <2>3. CASE JobEnds(c)
    BY <2>3 DEF JobEnds, LetGo, threadVars
  <2>4. CASE Writes(c)
    BY <2>4 DEF Writes, threadVars, procVars
  <2>5. CASE ClosesOutput(c)
    BY <2>5 DEF ClosesOutput, threadVars, procVars
  <2>6. CASE Spawns(c)
    BY <2>6, ProcessesDiffer DEF Spawns, Inherits, threadVars
  <2> QED
    BY <1>4, <2>1, <2>2, <2>3, <2>4, <2>5, <2>6 DEF Program
<1> QED
  BY <1>1, <1>2, <1>3, <1>4 DEF ChildNext

(* Every step of a thread leaves its child where the next step expects it. *)
LEMMA StagesKept == ChildInv /\ [ChildNext]_childVars => Stages'
<1> SUFFICES ASSUME ChildInv, [ChildNext]_childVars PROVE Stages'
  OBVIOUS
<1> USE ChildAssumption DEF ChildInv, ChildTypeOK, Stages
<1>1. CASE UNCHANGED childVars
  BY <1>1 DEF childVars
<1>2. ASSUME NEW c \in Calls, Thread(c) PROVE Stages'
  <2>1. CASE Pipe(c)
    BY <2>1 DEF Pipe, Goes, procVars
  <2>2. CASE Fork(c)
    BY <2>2 DEF Fork, Goes, Inherits
  <2>3. CASE ParentGoesOn(c)
    BY <2>3 DEF ParentGoesOn, Goes
  <2>4. CASE Read(c)
    BY <2>4 DEF Read, procVars
  <2>5. CASE Eof(c)
    BY <2>5 DEF Eof, EndOfFile, Goes, procVars
  <2>6. CASE ReadTimesOut(c)
    BY <2>6 DEF ReadTimesOut, TimesOut, Goes, procVars
  <2>7. CASE WaitReaps(c)
    BY <2>7 DEF WaitReaps, Reaps, Goes
  <2>8. CASE WaitTimesOut(c)
    BY <2>8 DEF WaitTimesOut, WaitIsOver, TimesOut, Goes, procVars
  <2>9. CASE Kill(c)
    BY <2>9 DEF Kill, Killed, Goes, LetGo
  <2>10. CASE KilledReaped(c)
    BY <2>10 DEF KilledReaped, Reaps, Goes
  <2> QED
    BY <1>2, <2>1, <2>2, <2>3, <2>4, <2>5, <2>6, <2>7, <2>8, <2>9, <2>10 DEF Thread
<1>3. ASSUME NEW c \in Calls, Tick(c) PROVE Stages'
  BY <1>3 DEF Tick, Collecting, procVars
<1>4. ASSUME NEW c \in Calls, Program(c) PROVE Stages'
  <2>1. CASE ChildExecs(c)
    BY <2>1 DEF ChildExecs, Joins, ClosesOthers, threadVars
  <2>2. CASE Exits(c)
    BY <2>2 DEF Exits, LetGo, threadVars
  <2>3. CASE JobEnds(c)
    BY <2>3 DEF JobEnds, LetGo, threadVars
  <2>4. CASE Writes(c)
    BY <2>4 DEF Writes, Own, Collecting, threadVars, procVars
  <2>5. CASE ClosesOutput(c)
    BY <2>5 DEF ClosesOutput, threadVars, procVars
  <2>6. CASE Spawns(c)
    BY <2>6 DEF Spawns, Inherits, threadVars
  <2> QED
    BY <1>4, <2>1, <2>2, <2>3, <2>4, <2>5, <2>6 DEF Program
<1> QED
  BY <1>1, <1>2, <1>3, <1>4 DEF ChildNext

(* No step lets a command run, or be killed, outside its group. *)
LEMMA GroupsKept == ChildInv /\ [ChildNext]_childVars => Groups'
<1> SUFFICES ASSUME ChildInv, [ChildNext]_childVars PROVE Groups'
  OBVIOUS
<1> USE ChildAssumption DEF ChildInv, ChildTypeOK, Stages, Groups
<1>1. CASE UNCHANGED childVars
  BY <1>1 DEF childVars
<1>2. ASSUME NEW c \in Calls, Thread(c) PROVE Groups'
  <2>1. CASE Pipe(c)
    BY <2>1 DEF Pipe, Goes, procVars
  <2>2. CASE Fork(c)
    BY <2>2 DEF Fork, Goes, Inherits
  <2>3. CASE ParentGoesOn(c)
    <3>1. \A d \in Calls : grouped[d] => grouped'[d]
      BY <2>3 DEF ParentGoesOn
    <3>2. child[c] = "forked" => grouped'[c]
      BY <2>3 DEF ParentGoesOn
    <3> QED
      BY <2>3, <3>1, <3>2 DEF ParentGoesOn, Goes
  <2>4. CASE Read(c)
    BY <2>4 DEF Read, procVars
  <2>5. CASE Eof(c)
    BY <2>5 DEF Eof, EndOfFile, Goes, procVars
  <2>6. CASE ReadTimesOut(c)
    BY <2>6 DEF ReadTimesOut, TimesOut, Goes, procVars
  <2>7. CASE WaitReaps(c)
    BY <2>7 DEF WaitReaps, Reaps, Goes
  <2>8. CASE WaitTimesOut(c)
    BY <2>8 DEF WaitTimesOut, WaitIsOver, TimesOut, Goes, procVars
  <2>9. CASE Kill(c)
    BY <2>9 DEF Kill, Killed, Goes, LetGo
  <2>10. CASE KilledReaped(c)
    BY <2>10 DEF KilledReaped, Reaps, Goes
  <2> QED
    BY <1>2, <2>1, <2>2, <2>3, <2>4, <2>5, <2>6, <2>7, <2>8, <2>9, <2>10 DEF Thread
<1>3. ASSUME NEW c \in Calls, Tick(c) PROVE Groups'
  BY <1>3 DEF Tick, Collecting, procVars
<1>4. ASSUME NEW c \in Calls, Program(c) PROVE Groups'
  <2>1. CASE ChildExecs(c)
    BY <2>1 DEF ChildExecs, Joins, ClosesOthers, threadVars
  <2>2. CASE Exits(c)
    BY <2>2 DEF Exits, LetGo, threadVars
  <2>3. CASE JobEnds(c)
    BY <2>3 DEF JobEnds, LetGo, threadVars
  <2>4. CASE Writes(c)
    BY <2>4 DEF Writes, Own, Collecting, threadVars, procVars
  <2>5. CASE ClosesOutput(c)
    BY <2>5 DEF ClosesOutput, threadVars, procVars
  <2>6. CASE Spawns(c)
    BY <2>6 DEF Spawns, Inherits, threadVars
  <2> QED
    BY <1>4, <2>1, <2>2, <2>3, <2>4, <2>5, <2>6 DEF Program
<1> QED
  BY <1>1, <1>2, <1>3, <1>4 DEF ChildNext

(* No unit of output is lost or made up by a step. *)
LEMMA AccountedKept == ChildInv /\ [ChildNext]_childVars => Accounted'
<1> SUFFICES ASSUME ChildInv, [ChildNext]_childVars PROVE Accounted'
  OBVIOUS
<1> USE ChildAssumption DEF ChildInv, ChildTypeOK, Stages, Accounted
<1>1. CASE UNCHANGED childVars
  BY <1>1 DEF childVars
<1>2. ASSUME NEW c \in Calls, Thread(c) PROVE Accounted'
  <2>1. CASE Pipe(c)
    BY <2>1 DEF Pipe, Goes, procVars
  <2>2. CASE Fork(c)
    <3>1. ASSUME NEW d \in Calls, writers[d] = {} PROVE writers'[d] = {}
      BY <2>2, <3>1 DEF Fork, Inherits
    <3> QED
      BY <2>2, <3>1 DEF Fork, Goes
  <2>3. CASE ParentGoesOn(c)
    BY <2>3 DEF ParentGoesOn, Goes
  <2>4. CASE Read(c)
    BY <2>4 DEF Read, procVars
  <2>5. CASE Eof(c)
    BY <2>5 DEF Eof, EndOfFile, Goes, procVars
  <2>6. CASE ReadTimesOut(c)
    BY <2>6 DEF ReadTimesOut, TimesOut, Goes, procVars
  <2>7. CASE WaitReaps(c)
    BY <2>7 DEF WaitReaps, Reaps, Goes
  <2>8. CASE WaitTimesOut(c)
    BY <2>8 DEF WaitTimesOut, WaitIsOver, TimesOut, Goes, procVars
  <2>9. CASE Kill(c)
    BY <2>9 DEF Kill, Killed, Goes, LetGo
  <2>10. CASE KilledReaped(c)
    BY <2>10 DEF KilledReaped, Reaps, Goes
  <2> QED
    BY <1>2, <2>1, <2>2, <2>3, <2>4, <2>5, <2>6, <2>7, <2>8, <2>9, <2>10 DEF Thread
<1>3. ASSUME NEW c \in Calls, Tick(c) PROVE Accounted'
  BY <1>3 DEF Tick, Collecting, procVars
<1>4. ASSUME NEW c \in Calls, Program(c) PROVE Accounted'
  <2>1. CASE ChildExecs(c)
    BY <2>1 DEF ChildExecs, Joins, ClosesOthers, threadVars
  <2>2. CASE Exits(c)
    BY <2>2 DEF Exits, LetGo, threadVars
  <2>3. CASE JobEnds(c)
    BY <2>3 DEF JobEnds, LetGo, threadVars
  <2>4. CASE Writes(c)
    <3>1. /\ inPipe'[c] = inPipe[c] + 1 /\ written'[c] = written[c] + 1
          /\ pc[c] \in {"forked", "reading"}
      BY <2>4 DEF Writes, Collecting
    <3>2. \A d \in Calls : d # c => inPipe'[d] = inPipe[d] /\ written'[d] = written[d]
      BY <2>4 DEF Writes
    <3> QED
      BY <2>4, <3>1, <3>2 DEF Writes, threadVars
  <2>5. CASE ClosesOutput(c)
    <3>1. \A d \in Calls : writers'[d] \subseteq writers[d]
      BY <2>5 DEF ClosesOutput
    <3> QED
      BY <2>5, <3>1 DEF ClosesOutput, threadVars, procVars
  <2>6. CASE Spawns(c)
    <3>1. ASSUME NEW d \in Calls, writers[d] = {} PROVE writers'[d] = {}
      <4>1. CASE writers' = Inherits(Child(c), Job(c))
        BY <3>1, <4>1 DEF Inherits
      <4>2. CASE UNCHANGED writers
        BY <3>1, <4>2
      <4> QED BY <2>6, <4>1, <4>2 DEF Spawns
    <3> QED
      BY <2>6, <3>1 DEF Spawns, threadVars
  <2> QED
    BY <1>4, <2>1, <2>2, <2>3, <2>4, <2>5, <2>6 DEF Program
<1> QED
  BY <1>1, <1>2, <1>3, <1>4 DEF ChildNext

(* A fork, an exec or a background job gives no command the pipe of another *)
(* call to keep.                                                            *)
LEMMA ForeignKept == ChildInv /\ [ChildNext]_childVars => Foreign'
<1> SUFFICES ASSUME ChildInv, [ChildNext]_childVars PROVE Foreign'
  OBVIOUS
<1> USE ChildAssumption DEF ChildInv, ChildTypeOK, Stages, Foreign
<1>1. CASE UNCHANGED childVars
  BY <1>1 DEF childVars
<1>2. ASSUME NEW c \in Calls, Thread(c) PROVE Foreign'
  <2>1. CASE Pipe(c)
    BY <2>1, ProcessesDiffer DEF Pipe, Goes, procVars
  <2>2. CASE Fork(c)
    BY <2>2, ProcessesDiffer DEF Fork, Goes, Inherits
  <2>3. CASE ParentGoesOn(c)
    BY <2>3, ProcessesDiffer DEF ParentGoesOn, Goes
  <2>4. CASE Read(c)
    BY <2>4 DEF Read, procVars
  <2>5. CASE Eof(c)
    BY <2>5 DEF Eof, EndOfFile, Goes, procVars
  <2>6. CASE ReadTimesOut(c)
    BY <2>6 DEF ReadTimesOut, TimesOut, Goes, procVars
  <2>7. CASE WaitReaps(c)
    BY <2>7 DEF WaitReaps, Reaps, Goes
  <2>8. CASE WaitTimesOut(c)
    BY <2>8 DEF WaitTimesOut, WaitIsOver, TimesOut, Goes, procVars
  <2>9. CASE Kill(c)
    BY <2>9, ProcessesDiffer DEF Kill, Killed, Goes, LetGo
  <2>10. CASE KilledReaped(c)
    BY <2>10 DEF KilledReaped, Reaps, Goes
  <2> QED
    BY <1>2, <2>1, <2>2, <2>3, <2>4, <2>5, <2>6, <2>7, <2>8, <2>9, <2>10 DEF Thread
<1>3. ASSUME NEW c \in Calls, Tick(c) PROVE Foreign'
  BY <1>3 DEF Tick, Collecting, procVars
<1>4. ASSUME NEW c \in Calls, Program(c) PROVE Foreign'
  <2>1. CASE ChildExecs(c)
    BY <2>1, ProcessesDiffer DEF ChildExecs, Joins, ClosesOthers, threadVars
  <2>2. CASE Exits(c)
    BY <2>2, ProcessesDiffer DEF Exits, LetGo, threadVars
  <2>3. CASE JobEnds(c)
    BY <2>3, ProcessesDiffer DEF JobEnds, LetGo, threadVars
  <2>4. CASE Writes(c)
    BY <2>4 DEF Writes, Own, Collecting, threadVars, procVars
  <2>5. CASE ClosesOutput(c)
    BY <2>5 DEF ClosesOutput, threadVars, procVars
  <2>6. CASE Spawns(c)
    BY <2>6, ProcessesDiffer DEF Spawns, Inherits, threadVars
  <2> QED
    BY <1>4, <2>1, <2>2, <2>3, <2>4, <2>5, <2>6 DEF Program
<1> QED
  BY <1>1, <1>2, <1>3, <1>4 DEF ChildNext

(* The deadline passes while the call waits for itself, for the daemon, or   *)
(* for a plugin or a compile check that inherited its pipe; nothing else is  *)
(* ever blamed.                                                              *)
LEMMA BlamedKept == ChildInv /\ [ChildNext]_childVars => Blamed'
<1> SUFFICES ASSUME ChildInv, [ChildNext]_childVars PROVE Blamed'
  OBVIOUS
<1> USE DEF ChildInv, ChildTypeOK, Blamed
<1>1. ASSUME late' = late, blame' = blame, kind' = kind PROVE Blamed'
  BY <1>1
<1>2. CASE UNCHANGED childVars
  BY <1>1, <1>2 DEF childVars
<1>3. ASSUME NEW c \in Calls, Thread(c) PROVE Blamed'
  BY <1>1, <1>3 DEF Thread, Pipe, Fork, ParentGoesOn, Read, Eof, ReadTimesOut, TimesOut,
                    WaitReaps, WaitTimesOut, Kill, KilledReaped
<1>4. ASSUME NEW c \in Calls, Program(c) PROVE Blamed'
  BY <1>1, <1>4 DEF Program, ChildExecs, Exits, JobEnds, Writes, ClosesOutput, Spawns,
                    threadVars
<1>5. ASSUME NEW c \in Calls, Tick(c) PROVE Blamed'
  <2> DEFINE Explained(b) == \/ b \cap (Own(c) \cup {Daemon}) # {}
                             \/ \E d \in Calls : kind[d] # "exec" /\ b \cap Own(d) # {}
  <2>1. Explained({Daemon})
    OBVIOUS
  <2>2. ASSUME WaitsFor(c) # {} PROVE Explained(WaitsFor(c))
    <3>1. PICK p \in WaitsFor(c) : TRUE
      BY <2>2
    <3>2. CASE p = Child(c) \/ p = Daemon \/ p = Job(c)
      BY <3>1, <3>2 DEF Own
    <3>3. ASSUME p # Child(c), p # Daemon, p # Job(c)
          PROVE  \E d \in Calls : kind[d] # "exec" /\ p \in Own(d)
      <4>1. p \in writers[c] /\ p \notin {Child(d) : d \in {e \in Calls : child[e] = "forked"}}
        BY <3>1, <3>3 DEF WaitsFor
      <4>2. PICK d \in Calls : p = Child(d) \/ p = Job(d)
        BY <3>3, <4>1 DEF Processes
      <4>3. d # c
        BY <3>3, <4>2
      <4>4. kind[d] # "exec"
        BY <4>1, <4>2, <4>3 DEF Foreign
      <4> QED
        BY <4>2, <4>4 DEF Own
    <3> QED
      BY <3>1, <3>2, <3>3
  <2>3. Explained(blame'[c]) /\ kind' = kind
    BY <1>5, <2>1, <2>2 DEF Tick
  <2>4. \A d \in Calls : d # c => late'[d] = late[d] /\ blame'[d] = blame[d]
    BY <1>5 DEF Tick
  <2> QED
    BY <2>3, <2>4
<1> QED
  BY <1>2, <1>3, <1>4, <1>5 DEF ChildNext

(* The inductive invariant holds of every behaviour of the calls. *)
LEMMA ChildInvariant == ChildSpec => []ChildInv
<1>1. ChildInit => ChildInv
  BY ChildAssumption DEF ChildInit, ChildInv, ChildTypeOK, Stages, Groups, Accounted, Foreign,
                         Blamed
<1>2. ChildInv /\ [ChildNext]_childVars => ChildInv'
  BY ChildTyped, StagesKept, GroupsKept, AccountedKept, ForeignKept, BlamedKept DEF ChildInv
<1> QED
  BY <1>1, <1>2, PTL DEF ChildSpec

(* child_collect never leaves a zombie and never signals a process number   *)
(* it has already reaped; when a command times out, killing its group takes *)
(* what it left in the background along.                                    *)
THEOREM CallsCleanUp == ChildSpec => []NoStrayProcess
<1>1. ChildInv => NoStrayProcess
  BY DEF ChildInv, Stages, Groups, NoStrayProcess
<1> QED
  BY <1>1, ChildInvariant, PTL

(* What a tool returns in time is all its processes wrote, cut only at the  *)
(* end of the buffer, however the reads and the writes interleave.          *)
THEOREM OutputIsWhole == ChildSpec => []OutputComplete
<1>1. ChildInv => OutputComplete
  <2> SUFFICES ASSUME ChildInv, NEW c \in Calls, pc[c] = "done", ~timedOut[c]
               PROVE  len[c] + dropped[c] = written[c] /\ (dropped[c] > 0 => len[c] = Cap)
    BY DEF OutputComplete
  <2> QED
    BY ChildAssumption DEF ChildInv, ChildTypeOK, Accounted
<1> QED
  BY <1>1, ChildInvariant, PTL

(* A command closes what it inherited before it runs, so that it is never   *)
(* the reason why another call's read does not see the end of its pipe.     *)
THEOREM CommandsDelayNoOther == ChildSpec => []TimeoutsExplained
<1>1. ChildInv => TimeoutsExplained
  BY DEF ChildInv, Stages, Blamed, TimeoutsExplained
<1> QED
  BY <1>1, ChildInvariant, PTL
=============================================================================
