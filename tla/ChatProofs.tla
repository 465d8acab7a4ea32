----------------------------- MODULE ChatProofs -----------------------------
(***************************************************************************)
(* Proofs about the conversation with the owner, for any number of agents,  *)
(* any size of the log and any conversation_timeout: chat_render walks the  *)
(* ring in order, a session resumes exactly while its conversation is open, *)
(* and a resumed history is shown every new line once.                      *)
(***************************************************************************)
EXTENDS OwnerChat, TLAPS

(* The lines of the open conversation that the ring still holds.            *)
Window == {ring[Slot(i)] : i \in 0..n - 1}

(* The i-th line from the oldest is the i-th of the last n; and a log with  *)
(* no line has been silent for long.                                        *)
Ordered ==
    /\ \A i \in 0..n - 1 : ring[Slot(i)].seq + n = seq + 1 + i
    /\ n <= seq
    /\ n = 0 => silence = Idle

(* The conversation that a new session would be part of.                    *)
CurrentId == AfterExpire.id

(* A session, and a kept history, belongs to that conversation exactly when *)
(* no silence came since the session began.                                 *)
Dated(i, late) == i <= CurrentId /\ (late <=> i # CurrentId)

IdsTellLapses ==
    \A a \in Agents :
        /\ stage[a] # "over" => Dated(session[a].id, lapsed[a])
        /\ convs[a].kept => Dated(convs[a].id, lapsed[a])

\* Of the lines in W, S holds those up to number k and those a said.
Holds(W, S, k, a) == \A l \in W : l.seq \in S <=> l.seq <= k \/ l.agent = a

(* What the history of a was given, at every stage of a session.            *)
Given(a) ==
    /\ given[a] \subseteq 1..seq /\ session[a].shown \subseteq 1..seq
    /\ session[a].seq <= seq /\ convs[a].seq <= seq
    /\ convs[a].kept => Holds(Window, given[a], convs[a].seq, a)
    /\ stage[a] \in {"open", "start"} =>
         IF session[a].resume THEN convs[a].kept ELSE given[a] = {}
    /\ stage[a] = "start" =>
         Holds(Window, given[a] \cup session[a].shown, session[a].seq, a)
    /\ stage[a] = "run" => Holds(Window, given[a], session[a].seq, a) /\ ~convs[a].kept

HistoriesGiven == \A a \in Agents : Given(a)

ChatInv == Ordered /\ IdsTellLapses /\ HistoriesGiven

-----------------------------------------------------------------------------
(* The ring *)

(* What % does to an index that has passed the end of the ring at most once. *)
LEMMA ModRange ==
    ASSUME NEW c \in Nat \ {0}, NEW x \in Nat, x < c + c
    PROVE  x % c = IF x < c THEN x ELSE x - c
<1>1. CASE x < c
  BY <1>1
<1>2. CASE x >= c
  BY <1>2
<1> QED
  BY <1>1, <1>2

(* Where the i-th oldest line is, with m lines before slot w.               *)
Place(w, m, i) == (w + Cap - m + i) % Cap

LEMMA PlaceIs ==
    ASSUME NEW w \in Slots, NEW m \in 0..Cap, NEW i \in 0..m - 1
    PROVE  /\ Place(w, m, i) = IF w + i < m THEN w + Cap - m + i ELSE w + i - m
           /\ Place(w, m, i) \in Slots
<1>1. Cap \in Nat \ {0}
  BY ChatAssumption
<1>2. w \in Nat /\ m \in Nat /\ i \in Nat /\ w < Cap /\ m <= Cap /\ i < m
  BY <1>1 DEF Slots
<1> DEFINE x == w + Cap - m + i
<1>3. x \in Nat /\ x < Cap + Cap
  BY <1>1, <1>2
<1>4. Place(w, m, i) = IF x < Cap THEN x ELSE x - Cap
  <2>1. Place(w, m, i) = x % Cap
    BY DEF Place
  <2> HIDE DEF x
  <2>2. x % Cap = IF x < Cap THEN x ELSE x - Cap
    BY <1>1, <1>3, ModRange
  <2> QED
    BY <2>1, <2>2
<1>5. CASE w + i < m
  <2>1. Place(w, m, i) = w + Cap - m + i
    BY <1>1, <1>2, <1>4, <1>5
  <2> QED
    BY <1>1, <1>2, <1>5, <2>1 DEF Slots
<1>6. CASE w + i >= m
  <2>1. Place(w, m, i) = w + i - m
    BY <1>1, <1>2, <1>4, <1>6
  <2> QED
    BY <1>1, <1>2, <1>6, <2>1 DEF Slots
<1> QED
  BY <1>2, <1>5, <1>6

(* Writing one more line into slot w of a ring that holds m: the newest is  *)
(* then the one written, and the i-th oldest of the others was in the same  *)
(* slot before.  When the ring is full, the oldest line is the one that     *)
(* goes (chat_add).                                                         *)
LEMMA PlaceMoves ==
    ASSUME NEW w \in Slots, NEW m \in 0..Cap,
           NEW m2, m2 = IF m < Cap THEN m + 1 ELSE m,
           NEW i \in 0..m2 - 1
    PROVE  /\ NextSlot(w) \in Slots /\ m2 \in 1..Cap
           /\ i = m2 - 1 => Place(NextSlot(w), m2, i) = w
           /\ i # m2 - 1 =>
                /\ i + (m + 1 - m2) \in 0..m - 1
                /\ Place(NextSlot(w), m2, i) # w
                /\ Place(NextSlot(w), m2, i) = Place(w, m, i + (m + 1 - m2))
<1>1. Cap \in Nat \ {0}
  BY ChatAssumption
<1>2. w \in Nat /\ w < Cap /\ m \in Nat /\ m <= Cap /\ m2 \in Nat
      /\ m2 >= 1 /\ m2 <= Cap /\ i \in Nat /\ i < m2
  BY <1>1 DEF Slots
<1>3. NextSlot(w) = IF w + 1 < Cap THEN w + 1 ELSE 0
  <2> DEFINE x == w + 1
  <2>1. x \in Nat /\ x < Cap + Cap
    BY <1>1, <1>2
  <2>2. x % Cap = IF x < Cap THEN x ELSE x - Cap
    <3> HIDE DEF x
    <3> QED
      BY <1>1, <2>1, ModRange
  <2> QED
    BY <1>1, <1>2, <2>1, <2>2 DEF NextSlot
<1>4. NextSlot(w) \in Slots /\ m2 \in 0..Cap
  BY <1>1, <1>2, <1>3 DEF Slots
<1>5. Place(NextSlot(w), m2, i) =
        IF NextSlot(w) + i < m2 THEN NextSlot(w) + Cap - m2 + i
        ELSE NextSlot(w) + i - m2
  BY <1>4, PlaceIs
<1>6. ASSUME i # m2 - 1
      PROVE  /\ i + (m + 1 - m2) \in 0..m - 1
             /\ Place(NextSlot(w), m2, i) # w
             /\ Place(NextSlot(w), m2, i) = Place(w, m, i + (m + 1 - m2))
  <2> DEFINE j == i + (m + 1 - m2)
  <2>1. j \in 0..m - 1
    BY <1>2, <1>6
  <2>2. Place(w, m, j) = IF w + j < m THEN w + Cap - m + j ELSE w + j - m
    BY <2>1, PlaceIs
  <2> QED
    <3> HIDE DEF j
    <3>1. j = i + (m + 1 - m2) /\ j \in Nat
      BY <1>2, <2>1 DEF j
    <3>2. CASE w + 1 < Cap
      BY <1>1, <1>2, <1>3, <1>5, <1>6, <2>1, <2>2, <3>1, <3>2
    <3>3. CASE w + 1 = Cap
      BY <1>1, <1>2, <1>3, <1>5, <1>6, <2>1, <2>2, <3>1, <3>3
    <3> QED
      BY <1>1, <1>2, <2>1, <3>1, <3>2, <3>3
<1> QED
  BY <1>1, <1>2, <1>3, <1>4, <1>5, <1>6

(* The types of the log alone.                                              *)
LogType ==
    /\ ring \in [Slots -> Line] /\ next \in Slots /\ n \in 0..Cap
    /\ id \in Nat /\ seq \in 0..MaxSeq /\ silence \in 0..Idle

(* Closing a conversation that is over leaves a log in order, with no line  *)
(* or with the lines it had, and the conversation that a session would be   *)
(* part of is the same before and after (chat_expire, run by chat_id).      *)
LEMMA ExpireKeeps ==
    ASSUME LogType, Ordered
    PROVE  /\ AfterExpire.next \in Slots /\ AfterExpire.n \in 0..Cap
           /\ AfterExpire.id \in Nat
           /\ AfterExpire.n <= seq
           /\ AfterExpire.n = 0 => silence = Idle
           /\ \A i \in 0..AfterExpire.n - 1 :
                LET l == ring[Place(AfterExpire.next, AfterExpire.n, i)]
                IN  l \in Window /\ l.seq + AfterExpire.n = seq + 1 + i
<1>1. Cap \in Nat \ {0} /\ Idle \in Nat \ {0} /\ MaxSeq \in Nat
  BY ChatAssumption
<1>2. \A i : Slot(i) = Place(next, n, i)
  BY DEF Slot, Place
<1>3. CASE Expired
  BY <1>1, <1>3 DEF AfterExpire, Expired, LogType, NewId, Slots
<1>4. CASE ~Expired
  <2>1. AfterExpire.next = next /\ AfterExpire.n = n /\ AfterExpire.id = id
    BY <1>4 DEF AfterExpire
  <2> QED
    BY <1>1, <1>2, <2>1 DEF LogType, Ordered, Window
<1> QED
  BY <1>3, <1>4

LEMMA ChatIdKeeps ==
    ASSUME LogType, Ordered, ChatId
    PROVE  /\ LogType' /\ Ordered'
           /\ \A l \in Window' : l \in Window
           /\ CurrentId' = CurrentId /\ id' = CurrentId
<1>1. Cap \in Nat \ {0} /\ Idle \in Nat \ {0} /\ MaxSeq \in Nat
  BY ChatAssumption
<1>2. /\ next' = AfterExpire.next /\ n' = AfterExpire.n /\ id' = AfterExpire.id
      /\ ring' = ring /\ seq' = seq /\ silence' = silence
  BY DEF ChatId
<1>3. \A i : Slot(i)' = Place(next', n', i)
  BY DEF Slot, Place
<1>4. LogType' /\ n' <= seq' /\ (n' = 0 => silence' = Idle)
  BY <1>2, ExpireKeeps DEF LogType
<1>5. \A i \in 0..n' - 1 :
        ring'[Slot(i)'] \in Window /\ ring'[Slot(i)'].seq + n' = seq' + 1 + i
  BY <1>2, <1>3, ExpireKeeps
<1>6. Ordered'
  BY <1>4, <1>5 DEF Ordered
<1>7. \A l \in Window' : l \in Window
  BY <1>5 DEF Window
<1>8. CurrentId' = CurrentId
  <2>1. CASE Expired
    BY <1>1, <1>2, <2>1 DEF CurrentId, AfterExpire, Expired
  <2>2. CASE ~Expired
    BY <1>2, <2>2 DEF CurrentId, AfterExpire, Expired
  <2> QED
    BY <2>1, <2>2
<1> QED
  BY <1>2, <1>4, <1>6, <1>7, <1>8 DEF CurrentId

(* A line added is the newest one, the others were there before, and the    *)
(* log stays in order (chat_add).                                           *)
LEMMA ChatAddKeeps ==
    ASSUME LogType, Ordered, NEW a \in Agents, ChatAdd(a)
    PROVE  /\ LogType' /\ Ordered' /\ seq' = seq + 1
           /\ \A l \in Window' : l \in Window \/ l = [seq |-> seq + 1, agent |-> a]
           /\ CurrentId' = CurrentId
<1> DEFINE w == AfterExpire.next
           m == AfterExpire.n
           new == [seq |-> seq + 1, agent |-> a]
<1>1. Cap \in Nat \ {0} /\ Idle \in Nat \ {0} /\ MaxSeq \in Nat
  BY ChatAssumption
<1>2. /\ next' = NextSlot(w) /\ n' = (IF m < Cap THEN m + 1 ELSE m)
      /\ id' = AfterExpire.id /\ ring' = [ring EXCEPT ![w] = new]
      /\ seq' = seq + 1 /\ seq < MaxSeq /\ silence' = 0
  BY DEF ChatAdd
<1>3. /\ w \in Slots /\ m \in 0..Cap /\ AfterExpire.id \in Nat /\ m <= seq
      /\ \A i \in 0..m - 1 : /\ ring[Place(w, m, i)] \in Window
                             /\ ring[Place(w, m, i)].seq + m = seq + 1 + i
  BY ExpireKeeps
<1> HIDE DEF w, m
<1>4. seq \in Nat /\ seq + 1 \in 0..MaxSeq /\ ring \in [Slots -> Line]
  BY <1>1, <1>2 DEF LogType
<1>5. n' \in 1..Cap /\ next' \in Slots
  <2>1. 0 \in 0..n' - 1
    BY <1>1, <1>2, <1>3
  <2> QED
    BY <1>2, <1>3, <2>1, PlaceMoves
<1>6. ring' \in [Slots -> Line] /\ ring'[w] = new
      /\ \A k \in Slots : k # w => ring'[k] = ring[k]
  BY <1>2, <1>3, <1>4 DEF Line
<1>7. LogType'
  BY <1>1, <1>2, <1>3, <1>4, <1>5, <1>6 DEF LogType
<1>8. \A i : Slot(i)' = Place(next', n', i)
  BY DEF Slot, Place
<1>9. ASSUME NEW i \in 0..n' - 1
      PROVE  /\ ring'[Slot(i)'].seq + n' = seq' + 1 + i
             /\ ring'[Slot(i)'] \in Window \/ ring'[Slot(i)'] = new
  <2>1. CASE i = n' - 1
    <3>1. Slot(i)' = w
      BY <1>2, <1>3, <1>8, <2>1, PlaceMoves
    <3> QED
      BY <1>2, <1>4, <1>5, <1>6, <2>1, <3>1
  <2>2. CASE i # n' - 1
    <3> DEFINE j == i + (m + 1 - n')
    <3>1. j \in 0..m - 1 /\ Slot(i)' # w /\ Slot(i)' = Place(w, m, j)
      BY <1>2, <1>3, <1>8, <2>2, PlaceMoves
    <3> HIDE DEF j
    <3>2. Slot(i)' \in Slots
      BY <1>3, <3>1, PlaceIs
    <3>3. ring'[Slot(i)'] = ring[Place(w, m, j)]
      BY <1>6, <3>1, <3>2
    <3>4. ring[Place(w, m, j)].seq \in Nat
      BY <1>1, <1>4, <3>1, <3>2 DEF Line
    <3>5. ring[Place(w, m, j)].seq + m = seq + 1 + j /\ j = i + (m + 1 - n')
      BY <1>3, <3>1 DEF j
    <3> QED
      BY <1>1, <1>2, <1>3, <1>4, <1>5, <3>1, <3>3, <3>4, <3>5
  <2> QED
    BY <2>1, <2>2
<1>10. Ordered'
  <2>1. n' <= seq' /\ n' # 0
    BY <1>1, <1>2, <1>3, <1>4, <1>5
  <2> QED
    BY <1>9, <2>1 DEF Ordered
<1>11. \A l \in Window' : l \in Window \/ l = new
  BY <1>9 DEF Window
<1>12. CurrentId' = CurrentId
  BY <1>1, <1>2 DEF CurrentId, AfterExpire, Expired
<1> QED
  BY <1>2, <1>7, <1>10, <1>11, <1>12

(* The lines that chat_render can print are numbered from 1 to the newest.  *)
LEMMA WindowNumbered ==
    ASSUME LogType, Ordered
    PROVE  /\ \A l \in Window : l \in Line /\ l.seq \in 1..seq
           /\ \A k \in seq + 1 - n..seq : \E l \in Window : l.seq = k
<1>1. Cap \in Nat \ {0} /\ MaxSeq \in Nat /\ n \in Nat /\ n <= seq /\ seq \in Nat
  BY ChatAssumption DEF LogType, Ordered
<1>2. ASSUME NEW i \in 0..n - 1
      PROVE  ring[Slot(i)] \in Line /\ ring[Slot(i)].seq = seq + 1 + i - n
  <2>1. Slot(i) \in Slots
    BY PlaceIs DEF Slot, Place, LogType
  <2>2. ring[Slot(i)] \in Line /\ ring[Slot(i)].seq \in Nat
    BY <1>1, <2>1 DEF LogType, Line
  <2> QED
    BY <1>1, <2>2 DEF Ordered
<1>3. \A l \in Window : l \in Line /\ l.seq \in 1..seq
  BY <1>1, <1>2 DEF Window
<1>4. ASSUME NEW k \in seq + 1 - n..seq
      PROVE  \E l \in Window : l.seq = k
  <2> DEFINE i == k - (seq + 1 - n)
  <2>1. i \in 0..n - 1 /\ seq + 1 + i - n = k
    BY <1>1
  <2> HIDE DEF i
  <2> QED
    BY <1>2, <2>1 DEF Window
<1> QED
  BY <1>3, <1>4

-----------------------------------------------------------------------------
(* The sessions *)

(* The types of the sessions and of what they keep.                         *)
MineType ==
    /\ stage \in [Agents -> {"over", "open", "start", "run"}]
    /\ session \in [Agents -> Sessions]
    /\ convs \in [Agents -> [kept : BOOLEAN, id : Nat, seq : 0..MaxSeq]]
    /\ given \in [Agents -> SUBSET (1..MaxSeq)]
    /\ lapsed \in [Agents -> BOOLEAN] /\ since \in [Agents -> BOOLEAN]

(* Whatever the agents do, the log stays in order.                          *)
LEMMA LogKept ==
    ASSUME LogType, Ordered, [ChatNext]_chatVars
    PROVE  LogType' /\ Ordered'
<1>1. CASE UNCHANGED chat
  BY <1>1 DEF chat, LogType, Ordered, Slot
<1>2. ASSUME NEW a \in Agents, NEW kind \in {"irc", "other"}, Open(a, kind)
      PROVE  LogType' /\ Ordered'
  BY <1>2, ChatIdKeeps DEF Open
<1>3. ASSUME NEW a \in Agents, Start(a)
      PROVE  LogType' /\ Ordered'
  BY <1>1, <1>3, ChatAddKeeps DEF Start
<1>4. ASSUME NEW a \in Agents, Say(a)
      PROVE  LogType' /\ Ordered'
  BY <1>4, ChatAddKeeps DEF Say
<1>5. CASE Tick
  <2>1. /\ ring' = ring /\ next' = next /\ n' = n /\ id' = id /\ seq' = seq
        /\ silence < Idle /\ silence' = silence + 1
    BY <1>5 DEF Tick
  <2>2. silence' \in 0..Idle /\ n # 0
    BY <2>1, ChatAssumption DEF LogType, Ordered
  <2> QED
    BY <2>1, <2>2 DEF LogType, Ordered, Slot
<1> QED
  BY <1>1, <1>2, <1>3, <1>4, <1>5
  DEF ChatNext, Render, NoMemory, ChatEnd, chatVars

LEMMA TypeSplit == ChatTypeOK <=> LogType /\ MineType
BY DEF ChatTypeOK, LogType, MineType

(* What chat_render prints is numbered from 1.                              *)
LEMMA RenderedIs ==
    ASSUME LogType, Ordered, NEW after, NEW skip
    PROVE  /\ Rendered(after, skip) =
                {l.seq : l \in {x \in Window : x.seq > after /\ x.agent \notin skip}}
           /\ Rendered(after, skip) \subseteq 1..seq
<1>1. Rendered(after, skip) =
        {l.seq : l \in {x \in Window : x.seq > after /\ x.agent \notin skip}}
  BY DEF Rendered, Window
<1> QED
  BY <1>1, WindowNumbered

(* The start of a session, and the lines of its history, are well typed.    *)
LEMMA TypeKept ==
    ASSUME ChatTypeOK, Ordered, [ChatNext]_chatVars
    PROVE  ChatTypeOK'
<1>1. MaxSeq \in Nat
  BY ChatAssumption
<1>2. LogType /\ MineType /\ LogType'
  BY TypeSplit, LogKept
<1>3. seq \in 0..MaxSeq /\ seq' \in 0..MaxSeq /\ id' \in Nat
  BY <1>2 DEF LogType
<1>4. NoConv \in [kept : BOOLEAN, id : Nat, seq : 0..MaxSeq] /\ NoSession \in Sessions
  BY <1>1 DEF NoConv, NoSession, Sessions
<1>5. ASSUME UNCHANGED chatVars
      PROVE  MineType'
  BY <1>2, <1>5, Zenon DEF chatVars, mine, MineType
<1>6. ASSUME NEW a \in Agents, NEW kind \in {"irc", "other"}, Open(a, kind)
      PROVE  MineType'
  <2> DEFINE s == [kind |-> kind, id |-> id', seq |-> 0, resume |-> Resumes(a, id'),
                   shown |-> {}]
  <2>1. s \in Sessions
    <3>1. Resumes(a, id') \in BOOLEAN
      BY <1>2, Zenon DEF Resumes, MineType
    <3> QED
      BY <1>1, <1>3, <3>1 DEF Sessions
  <2>2. session' = [session EXCEPT ![a] = s]
    BY <1>6 DEF Open
  <2> HIDE DEF s
  <2>3. session' \in [Agents -> Sessions]
    BY <1>2, <2>1, <2>2 DEF MineType
  <2>4. convs' = convs \/ convs' = [convs EXCEPT ![a] = NoConv]
    BY <1>6 DEF Open
  <2>5. given' = given \/ given' = [given EXCEPT ![a] = {}]
    BY <1>6 DEF Open
  <2>6. convs' \in [Agents -> [kept : BOOLEAN, id : Nat, seq : 0..MaxSeq]]
    BY <1>2, <1>4, <2>4, Zenon DEF MineType
  <2>7. given' \in [Agents -> SUBSET (1..MaxSeq)]
    BY <1>2, <2>5 DEF MineType
  <2>8. stage' \in [Agents -> {"over", "open", "start", "run"}]
    BY <1>2, <1>6 DEF Open, MineType
  <2>9. lapsed' \in [Agents -> BOOLEAN] /\ since' \in [Agents -> BOOLEAN]
    BY <1>2, <1>6, Zenon DEF Open, MineType
  <2> QED
    BY <2>3, <2>6, <2>7, <2>8, <2>9 DEF MineType
<1>7. ASSUME NEW a \in Agents, Render(a)
      PROVE  MineType'
  <2> DEFINE R == Rendered(After(a), Skipped(a))
  <2>1. R \in SUBSET (1..MaxSeq)
    BY <1>1, <1>2, <1>3, RenderedIs
  <2>2. session' = [session EXCEPT ![a].seq = seq, ![a].shown = R]
    BY <1>7 DEF Render
  <2> HIDE DEF R
  <2>3. session' \in [Agents -> Sessions]
    <3> DEFINE s == [session[a] EXCEPT !.seq = seq, !.shown = R]
    <3>1. session[a] \in Sessions
      BY <1>2, Zenon DEF MineType
    <3>2. s \in Sessions
      BY <1>3, <2>1, <3>1 DEF Sessions
    <3>3. session' = [session EXCEPT ![a] = s]
      BY <2>2
    <3> HIDE DEF s
    <3> QED
      BY <1>2, <3>2, <3>3 DEF MineType
  <2>4. stage' \in [Agents -> {"over", "open", "start", "run"}]
    BY <1>2, <1>7 DEF Render, MineType
  <2> QED
    BY <1>2, <1>7, <2>3, <2>4, Zenon DEF Render, MineType
<1>8. ASSUME NEW a \in Agents, NoMemory(a)
      PROVE  MineType'
  <2>1. stage' \in [Agents -> {"over", "open", "start", "run"}]
    BY <1>2, <1>8 DEF NoMemory, MineType
  <2>2. session' \in [Agents -> Sessions]
    BY <1>2, <1>4, <1>8, Zenon DEF NoMemory, MineType
  <2> QED
    BY <1>2, <1>8, <2>1, <2>2, Zenon DEF NoMemory, MineType
<1>9. ASSUME NEW a \in Agents, Start(a)
      PROVE  MineType'
  <2>1. stage' \in [Agents -> {"over", "open", "start", "run"}]
    BY <1>2, <1>9 DEF Start, MineType
  <2>2. convs' \in [Agents -> [kept : BOOLEAN, id : Nat, seq : 0..MaxSeq]]
    BY <1>2, <1>4, <1>9, Zenon DEF Start, MineType
  <2>3. given' \in [Agents -> SUBSET (1..MaxSeq)]
    <3>1. session[a].shown \in SUBSET (1..MaxSeq)
      BY <1>2, Zenon DEF MineType, Sessions
    <3>2. seq + 1..seq' \subseteq 1..MaxSeq
      BY <1>1, <1>3
    <3>3. given' = [given EXCEPT ![a] = @ \cup session[a].shown \cup seq + 1..seq']
      BY <1>9 DEF Start
    <3> QED
      BY <1>2, <3>1, <3>2, <3>3 DEF MineType
  <2> QED
    BY <1>2, <1>9, <2>1, <2>2, <2>3, Zenon DEF Start, MineType
<1>10. ASSUME NEW a \in Agents, Say(a)
       PROVE  MineType'
  <2>1. seq + 1 \in 1..MaxSeq
    BY <1>1, <1>3, <1>10 DEF Say, ChatAdd
  <2>2. given' \in [Agents -> SUBSET (1..MaxSeq)]
    BY <1>2, <1>10, <2>1 DEF Say, MineType
  <2> QED
    BY <1>2, <1>10, <2>2, Zenon DEF Say, MineType
<1>11. ASSUME NEW a \in Agents, ChatEnd(a)
       PROVE  MineType'
  <2> DEFINE c == [kept |-> TRUE, id |-> session[a].id, seq |-> SeqToKeep(a)]
  <2>1. c \in [kept : BOOLEAN, id : Nat, seq : 0..MaxSeq]
    <3>1. session[a].id \in Nat /\ SeqToKeep(a) \in 0..MaxSeq
      BY <1>2, Zenon DEF MineType, Sessions, SeqToKeep
    <3> QED
      BY <3>1
  <2>2. convs' = [convs EXCEPT ![a] = c] \/ convs' = convs
    BY <1>11 DEF ChatEnd
  <2> HIDE DEF c
  <2>3. convs' \in [Agents -> [kept : BOOLEAN, id : Nat, seq : 0..MaxSeq]]
    BY <1>2, <2>1, <2>2, Zenon DEF MineType
  <2>4. given' = given \/ given' = [given EXCEPT ![a] = {}]
    BY <1>11 DEF ChatEnd
  <2>5. given' \in [Agents -> SUBSET (1..MaxSeq)]
    BY <1>2, <2>4 DEF MineType
  <2>6. session' \in [Agents -> Sessions]
    BY <1>2, <1>4, <1>11, Zenon DEF ChatEnd, MineType
  <2>7. stage' \in [Agents -> {"over", "open", "start", "run"}]
    BY <1>2, <1>11 DEF ChatEnd, MineType
  <2>8. lapsed' \in [Agents -> BOOLEAN] /\ since' \in [Agents -> BOOLEAN]
    BY <1>2, <1>11, Zenon DEF ChatEnd, MineType
  <2> QED
    BY <2>3, <2>5, <2>6, <2>7, <2>8 DEF MineType
<1>12. ASSUME Tick
       PROVE  MineType'
  <2> DEFINE quiet == silence + 1 = Idle
  <2>1. /\ lapsed' = [a \in Agents |-> lapsed[a] \/ quiet]
        /\ since' = [a \in Agents |-> since[a] \/ quiet]
    BY <1>12 DEF Tick
  <2> HIDE DEF quiet
  <2>2. lapsed' \in [Agents -> BOOLEAN] /\ since' \in [Agents -> BOOLEAN]
    BY <1>2, <2>1, Zenon DEF MineType
  <2>3. stage' = stage /\ session' = session /\ convs' = convs /\ given' = given
    BY <1>12 DEF Tick, mine
  <2> QED
    BY <1>2, <2>2, <2>3, Zenon DEF MineType
<1>13. MineType'
  BY <1>5, <1>6, <1>7, <1>8, <1>9, <1>10, <1>11, <1>12 DEF ChatNext
<1> QED
  BY <1>2, <1>13 DEF ChatTypeOK, LogType, MineType

(* Only the silence ends a conversation: whoever opens the log, writes to   *)
(* it or reads it, the conversation a session would be part of is the same. *)
LEMMA OnlySilenceEnds ==
    ASSUME ChatTypeOK, Ordered
    PROVE  /\ CurrentId \in Nat
           /\ Tick => CurrentId' = IF silence + 1 = Idle THEN CurrentId + 1
                                   ELSE CurrentId
           /\ [ChatNext]_chatVars /\ ~Tick => CurrentId' = CurrentId
<1>1. LogType /\ Idle \in Nat \ {0}
  BY TypeSplit, ChatAssumption
<1>2. CurrentId \in Nat
  BY <1>1, ExpireKeeps DEF CurrentId
<1>3. ASSUME Tick
      PROVE  CurrentId' = IF silence + 1 = Idle THEN CurrentId + 1 ELSE CurrentId
  <2>1. n' = n /\ id' = id /\ silence' = silence + 1 /\ silence < Idle
    BY <1>3 DEF Tick
  <2>2. n > 0 /\ silence \in Nat
    BY <1>1, <2>1 DEF LogType, Ordered
  <2> QED
    BY <1>1, <2>1, <2>2 DEF CurrentId, AfterExpire, Expired, NewId
<1>4. ASSUME UNCHANGED chat
      PROVE  CurrentId' = CurrentId
  BY <1>4 DEF chat, CurrentId, AfterExpire, Expired
<1>5. ASSUME [ChatNext]_chatVars, ~Tick
      PROVE  CurrentId' = CurrentId
  BY <1>1, <1>4, <1>5, ChatIdKeeps, ChatAddKeeps
  DEF ChatNext, Open, Render, NoMemory, Start, Say, ChatEnd, chatVars
<1> QED
  BY <1>2, <1>3, <1>5

(* A session that another agent's step leaves alone stays dated as it was.  *)
LEMMA IdsKept ==
    ASSUME ChatTypeOK, Ordered, IdsTellLapses, [ChatNext]_chatVars
    PROVE  IdsTellLapses'
<1>1. MineType /\ CurrentId \in Nat
  BY TypeSplit, OnlySilenceEnds
<1> SUFFICES ASSUME NEW b \in Agents
             PROVE  /\ stage'[b] # "over" => Dated(session[b].id, lapsed[b])'
                    /\ convs'[b].kept => Dated(convs[b].id, lapsed[b])'
  BY DEF IdsTellLapses
<1>2. /\ stage[b] # "over" => Dated(session[b].id, lapsed[b])
      /\ convs[b].kept => Dated(convs[b].id, lapsed[b])
  BY DEF IdsTellLapses
<1>3. /\ session[b].id \in Nat /\ convs[b].id \in Nat
  BY <1>1, Zenon DEF MineType, Sessions
<1>4. ASSUME CurrentId' = CurrentId, UNCHANGED <<stage[b], session[b], convs[b], lapsed[b]>>
      PROVE  /\ stage'[b] # "over" => Dated(session[b].id, lapsed[b])'
             /\ convs'[b].kept => Dated(convs[b].id, lapsed[b])'
  BY <1>2, <1>4 DEF Dated
<1>5. CASE UNCHANGED chatVars
  <2>1. CurrentId' = CurrentId
    BY <1>5 DEF chatVars, chat, CurrentId, AfterExpire, Expired
  <2> QED
    BY <1>4, <1>5, <2>1 DEF chatVars, mine
<1>6. ASSUME ChatNext, ~Tick
      PROVE  CurrentId' = CurrentId
  BY <1>6, OnlySilenceEnds
<1>7. ASSUME NEW a \in Agents, NEW kind \in {"irc", "other"}, Open(a, kind), ~Tick
      PROVE  /\ stage'[b] # "over" => Dated(session[b].id, lapsed[b])'
             /\ convs'[b].kept => Dated(convs[b].id, lapsed[b])'
  <2>1. CurrentId' = CurrentId /\ id' = CurrentId
    BY <1>7, TypeSplit, ChatIdKeeps DEF Open
  <2>2. CASE a = b
    <3>1. session'[b].id = id' /\ lapsed'[b] = FALSE
      BY <1>1, <1>7, <2>2 DEF Open, MineType
    <3>2. convs'[b].kept => convs'[b].id = id'
      <4>1. CASE Resumes(b, id')
        <5>1. convs' = convs
          BY <1>7, <2>2, <4>1 DEF Open
        <5> QED
          BY <4>1, <5>1 DEF Resumes
      <4>2. CASE ~Resumes(b, id')
        <5>1. convs' = [convs EXCEPT ![b] = NoConv]
          BY <1>7, <2>2, <4>2 DEF Open
        <5> QED
          BY <1>1, <5>1 DEF NoConv, MineType
      <4> QED
        BY <4>1, <4>2
    <3> QED
      BY <1>1, <2>1, <3>1, <3>2 DEF Dated
  <2>3. CASE a # b
    BY <1>1, <1>4, <1>7, <2>1, <2>3 DEF Open, MineType
  <2> QED
    BY <2>2, <2>3
<1>8. ASSUME NEW a \in Agents, Render(a), CurrentId' = CurrentId
      PROVE  /\ stage'[b] # "over" => Dated(session[b].id, lapsed[b])'
             /\ convs'[b].kept => Dated(convs[b].id, lapsed[b])'
  <2>1. session'[b].id = session[b].id /\ convs' = convs /\ lapsed' = lapsed
    BY <1>1, <1>8 DEF Render, MineType
  <2>2. stage[b] # "over" \/ stage'[b] = stage[b]
    BY <1>1, <1>8 DEF Render, MineType
  <2> QED
    BY <1>2, <1>8, <2>1, <2>2 DEF Dated
<1>9. ASSUME NEW a \in Agents, NoMemory(a), CurrentId' = CurrentId
      PROVE  /\ stage'[b] # "over" => Dated(session[b].id, lapsed[b])'
             /\ convs'[b].kept => Dated(convs[b].id, lapsed[b])'
  <2>1. convs' = convs /\ lapsed' = lapsed
    BY <1>9 DEF NoMemory
  <2>2. stage'[b] = "over" \/ (stage'[b] = stage[b] /\ session'[b] = session[b])
    BY <1>1, <1>9 DEF NoMemory, MineType
  <2> QED
    BY <1>2, <1>9, <2>1, <2>2 DEF Dated
<1>10. ASSUME NEW a \in Agents, Start(a), CurrentId' = CurrentId
      PROVE  /\ stage'[b] # "over" => Dated(session[b].id, lapsed[b])'
             /\ convs'[b].kept => Dated(convs[b].id, lapsed[b])'
  <2>1. session' = session /\ lapsed' = lapsed
    BY <1>10 DEF Start
  <2>2. stage[b] # "over" \/ stage'[b] = stage[b]
    BY <1>1, <1>10 DEF Start, MineType
  <2>3. convs'[b] = convs[b] \/ ~convs'[b].kept
    BY <1>1, <1>10 DEF Start, MineType, NoConv
  <2> QED
    BY <1>2, <1>10, <2>1, <2>2, <2>3 DEF Dated
<1>11. ASSUME NEW a \in Agents, Say(a), CurrentId' = CurrentId
      PROVE  /\ stage'[b] # "over" => Dated(session[b].id, lapsed[b])'
             /\ convs'[b].kept => Dated(convs[b].id, lapsed[b])'
  BY <1>4, <1>11 DEF Say
<1>12. ASSUME NEW a \in Agents, ChatEnd(a), CurrentId' = CurrentId
      PROVE  /\ stage'[b] # "over" => Dated(session[b].id, lapsed[b])'
             /\ convs'[b].kept => Dated(convs[b].id, lapsed[b])'
  <2>1. stage'[b] = "over" \/ (stage'[b] = stage[b] /\ session'[b] = session[b])
    BY <1>1, <1>12 DEF ChatEnd, MineType
  <2>2. convs'[b] = convs[b] \/ (stage[b] # "over" /\ convs'[b].id = session[b].id)
    BY <1>1, <1>12 DEF ChatEnd, MineType
  <2>3. lapsed' = lapsed
    BY <1>12 DEF ChatEnd
  <2> QED
    BY <1>2, <1>12, <2>1, <2>2, <2>3 DEF Dated
<1>13. CASE Tick
  <2> DEFINE quiet == silence + 1 = Idle
  <2>1. stage' = stage /\ session' = session /\ convs' = convs
        /\ (lapsed'[b] <=> lapsed[b] \/ quiet)
    BY <1>13 DEF Tick, mine
  <2>2. CurrentId' = IF quiet THEN CurrentId + 1 ELSE CurrentId
    BY <1>13, OnlySilenceEnds
  <2> HIDE DEF quiet
  <2> QED
    BY <1>1, <1>2, <1>3, <2>1, <2>2 DEF Dated
<1> QED
  BY <1>5, <1>6, <1>7, <1>8, <1>9, <1>10, <1>11, <1>12, <1>13 DEF ChatNext

(* A history has been given the same part of a log that another agent has   *)
(* written to since, and one more line when the agent wrote it itself.      *)
LEMMA HoldsKept ==
    ASSUME LogType, Ordered, NEW a \in Agents, NEW b \in Agents, ChatAdd(a),
           NEW S, S \subseteq 1..seq, NEW k \in Nat, k <= seq,
           Holds(Window, S, k, b)
    PROVE  /\ a # b => Holds(Window', S, k, b)
           /\ a = b => Holds(Window', S \cup {seq + 1}, k, b)
<1>1. /\ \A l \in Window : l.seq \in 1..seq
      /\ \A l \in Window' : l \in Window \/ l = [seq |-> seq + 1, agent |-> a]
      /\ seq \in Nat
  BY WindowNumbered, ChatAddKeeps, ChatAssumption DEF LogType
<1>2. ASSUME a # b, NEW l \in Window'
      PROVE  l.seq \in S <=> l.seq <= k \/ l.agent = b
  <2>1. CASE l \in Window
    BY <2>1 DEF Holds
  <2>2. CASE l = [seq |-> seq + 1, agent |-> a]
    BY <1>1, <1>2, <2>2
  <2> QED
    BY <1>1, <2>1, <2>2
<1>3. ASSUME a = b, NEW l \in Window'
      PROVE  l.seq \in S \cup {seq + 1} <=> l.seq <= k \/ l.agent = b
  <2>1. CASE l \in Window
    BY <1>1, <2>1 DEF Holds
  <2>2. CASE l = [seq |-> seq + 1, agent |-> a]
    BY <1>3, <2>2
  <2> QED
    BY <1>1, <2>1, <2>2
<1> QED
  BY <1>2, <1>3 DEF Holds

(* A step that writes nothing and leaves b alone leaves b's lines alone.   *)
LEMMA GivenAlone ==
    ASSUME NEW b \in Agents, Given(b), seq' = seq, \A l \in Window' : l \in Window,
           UNCHANGED <<given[b], session[b], convs[b], stage[b]>>
    PROVE  Given(b)'
BY DEF Given, Holds

(* Neither does a line that another agent writes.                           *)
LEMMA GivenOfOthers ==
    ASSUME ChatTypeOK, Ordered, NEW a \in Agents, NEW b \in Agents, a # b,
           Given(b), ChatAdd(a), UNCHANGED <<given[b], session[b], convs[b], stage[b]>>
    PROVE  Given(b)'
<1>1. LogType /\ MineType /\ seq' = seq + 1 /\ seq \in Nat
  BY TypeSplit, ChatAddKeeps, ChatAssumption DEF LogType
<1>2. session[b].seq \in Nat /\ convs[b].seq \in Nat
  <2>1. session[b].seq \in 0..MaxSeq /\ convs[b].seq \in 0..MaxSeq
    BY <1>1, Zenon DEF MineType, Sessions
  <2> QED
    BY <2>1, ChatAssumption
<1>3. /\ given'[b] \subseteq 1..seq' /\ session'[b].shown \subseteq 1..seq'
      /\ session'[b].seq <= seq' /\ convs'[b].seq <= seq'
  BY <1>1, <1>2 DEF Given
<1>4. convs'[b].kept => Holds(Window', given'[b], convs'[b].seq, b)
  BY <1>1, <1>2, HoldsKept DEF Given
<1>5. stage'[b] = "start" =>
        Holds(Window', given'[b] \cup session'[b].shown, session'[b].seq, b)
  <2>1. given[b] \cup session[b].shown \subseteq 1..seq
    BY DEF Given
  <2> QED
    BY <1>1, <1>2, <2>1, HoldsKept DEF Given
<1>6. stage'[b] = "run" => Holds(Window', given'[b], session'[b].seq, b) /\ ~convs'[b].kept
  BY <1>1, <1>2, HoldsKept DEF Given
<1> QED
  BY <1>3, <1>4, <1>5, <1>6 DEF Given

(* A new turn of a gives the lines that its history was never given, all    *)
(* of them and no other.                                                    *)
LEMMA RenderShows ==
    ASSUME ChatTypeOK, Ordered, NEW a \in Agents, Given(a), stage[a] = "open"
    PROVE  LET R == Rendered(After(a), Skipped(a))
           IN  /\ R \subseteq 1..seq /\ R \cap given[a] = {}
               /\ \A l \in Window : l.seq \in given[a] \cup R
<1> DEFINE R == Rendered(After(a), Skipped(a))
<1>1. LogType /\ MineType /\ seq \in Nat
  BY TypeSplit, ChatAssumption DEF LogType
<1>2. /\ R = {l.seq : l \in {x \in Window : x.seq > After(a) /\ x.agent \notin Skipped(a)}}
      /\ R \subseteq 1..seq
  BY <1>1, RenderedIs
<1>3. \A l \in Window : l.seq \in 1..seq
  BY <1>1, WindowNumbered
<1> HIDE DEF R
<1>4. CASE session[a].resume
  <2>1. convs[a].kept /\ Holds(Window, given[a], convs[a].seq, a)
    BY <1>4 DEF Given
  <2>2. After(a) = convs[a].seq /\ Skipped(a) = {a} /\ convs[a].seq \in Nat
    <3>1. convs[a].seq \in 0..MaxSeq
      BY <1>1, Zenon DEF MineType
    <3> QED
      BY <1>4, <3>1, ChatAssumption DEF After, Skipped
  <2>3. R = {l.seq : l \in {x \in Window : x.seq > convs[a].seq /\ x.agent # a}}
    BY <1>2, <2>2
  <2>4. ASSUME NEW l \in Window
        PROVE  /\ l.seq > convs[a].seq /\ l.agent # a => l.seq \notin given[a]
               /\ ~(l.seq > convs[a].seq /\ l.agent # a) => l.seq \in given[a]
    BY <1>3, <2>1, <2>2 DEF Holds
  <2>5. R \cap given[a] = {}
    BY <2>3, <2>4
  <2>6. \A l \in Window : l.seq \in given[a] \cup R
    BY <2>3, <2>4
  <2> QED
    BY <1>2, <2>5, <2>6 DEF R
<1>5. CASE ~session[a].resume
  <2>1. given[a] = {} /\ After(a) = 0 /\ Skipped(a) = {}
    BY <1>5 DEF Given, After, Skipped
  <2>2. \A l \in Window : l.seq \in R
    BY <1>1, <1>2, <1>3, <2>1
  <2> QED
    BY <1>2, <2>1, <2>2 DEF R
<1> QED
  BY <1>4, <1>5

(* What each agent was given, after each step.                              *)
LEMMA GivenKept ==
    ASSUME ChatTypeOK, Ordered, HistoriesGiven, [ChatNext]_chatVars
    PROVE  HistoriesGiven'
<1>1. LogType /\ MineType /\ seq \in Nat
  BY TypeSplit, ChatAssumption DEF LogType
<1> SUFFICES ASSUME NEW b \in Agents
             PROVE  Given(b)'
  BY DEF HistoriesGiven
<1>2. Given(b)
  BY DEF HistoriesGiven
<1>3. session[b].seq \in Nat /\ convs[b].seq \in Nat
  <2>1. session[b].seq \in 0..MaxSeq /\ convs[b].seq \in 0..MaxSeq
    BY <1>1, Zenon DEF MineType, Sessions
  <2> QED
    BY <2>1, ChatAssumption
<1>4. ASSUME UNCHANGED <<ring, next, n, seq>>
      PROVE  seq' = seq /\ Window' = Window
  BY <1>4 DEF Window, Slot
<1>5. CASE UNCHANGED chatVars
  BY <1>2, <1>4, <1>5, GivenAlone DEF chatVars, chat, mine
<1>6. ASSUME NEW a \in Agents, NEW kind \in {"irc", "other"}, Open(a, kind)
      PROVE  Given(b)'
  <2>1. seq' = seq /\ \A l \in Window' : l \in Window
    BY <1>1, <1>6, ChatIdKeeps DEF Open, ChatId
  <2>2. CASE a # b
    BY <1>1, <1>2, <1>6, <2>1, <2>2, GivenAlone DEF Open, MineType
  <2>3. CASE a = b
    <3>1. /\ stage'[b] = "open" /\ session'[b].seq = 0 /\ session'[b].shown = {}
          /\ session'[b].resume = Resumes(b, id')
      BY <1>1, <1>6, <2>3 DEF Open, MineType
    <3>2. CASE Resumes(b, id')
      <4>1. convs' = convs /\ given' = given
        BY <1>6, <2>3, <3>2 DEF Open
      <4>2. convs[b].kept
        BY <3>2 DEF Resumes
      <4> QED
        BY <1>1, <1>2, <2>1, <3>1, <3>2, <4>1, <4>2 DEF Given, Holds
    <3>3. CASE ~Resumes(b, id')
      <4>1. convs' = [convs EXCEPT ![b] = NoConv] /\ given' = [given EXCEPT ![b] = {}]
        BY <1>6, <2>3, <3>3 DEF Open
      <4>2. convs'[b] = NoConv /\ given'[b] = {}
        BY <1>1, <4>1 DEF MineType
      <4> QED
        BY <1>1, <1>2, <2>1, <3>1, <3>3, <4>2 DEF Given, NoConv
    <3> QED
      BY <3>2, <3>3
  <2> QED
    BY <2>2, <2>3
<1>7. ASSUME NEW a \in Agents, Render(a)
      PROVE  Given(b)'
  <2>1. seq' = seq /\ Window' = Window /\ convs' = convs /\ given' = given
    BY <1>4, <1>7 DEF Render, chat
  <2>2. CASE a # b
    BY <1>1, <1>2, <1>7, <2>1, <2>2, GivenAlone DEF Render, MineType
  <2>3. CASE a = b
    <3> DEFINE R == Rendered(After(b), Skipped(b))
    <3>1. stage[b] = "open" /\ session' = [session EXCEPT ![b].seq = seq, ![b].shown = R]
      BY <1>7, <2>3 DEF Render
    <3>2. /\ R \subseteq 1..seq
          /\ \A l \in Window : l.seq \in given[b] \cup R
      BY <1>2, <3>1, RenderShows
    <3> HIDE DEF R
    <3>3. /\ stage'[b] = "start" /\ session'[b].seq = seq /\ session'[b].shown = R
          /\ session'[b].resume = session[b].resume
      <4>1. session[b] \in Sessions /\ session \in [Agents -> Sessions]
        BY <1>1, Zenon DEF MineType
      <4>2. session'[b] = [session[b] EXCEPT !.seq = seq, !.shown = R]
        BY <3>1, <4>1
      <4>3. stage'[b] = "start"
        BY <1>1, <1>7, <2>3 DEF Render, MineType
      <4> QED
        BY <4>1, <4>2, <4>3 DEF Sessions
    <3>4. \A l \in Window : l.seq <= seq
      BY <1>1, WindowNumbered
    <3>5. Holds(Window', given'[b] \cup session'[b].shown, session'[b].seq, b)
      BY <2>1, <3>2, <3>3, <3>4 DEF Holds
    <3> QED
      BY <1>1, <1>2, <2>1, <3>1, <3>2, <3>3, <3>5 DEF Given
  <2> QED
    BY <2>2, <2>3
<1>8. ASSUME NEW a \in Agents, NoMemory(a)
      PROVE  Given(b)'
  <2>1. seq' = seq /\ Window' = Window /\ convs' = convs /\ given' = given
    BY <1>4, <1>8 DEF NoMemory, chat
  <2>2. CASE a # b
    BY <1>1, <1>2, <1>8, <2>1, <2>2, GivenAlone DEF NoMemory, MineType
  <2>3. CASE a = b
    <3>1. stage'[b] = "over" /\ session'[b] = NoSession
      BY <1>1, <1>8, <2>3 DEF NoMemory, MineType
    <3> QED
      BY <1>1, <1>2, <2>1, <3>1 DEF Given, NoSession
  <2> QED
    BY <2>2, <2>3
<1>9. ASSUME NEW a \in Agents, Start(a)
      PROVE  Given(b)'
  <2>1. session' = session /\ (ChatAdd(a) \/ UNCHANGED chat)
    BY <1>9 DEF Start
  <2>2. CASE a # b
    <3>1. UNCHANGED <<given[b], session[b], convs[b], stage[b]>>
      BY <1>1, <1>9, <2>2 DEF Start, MineType
    <3>2. CASE ChatAdd(a)
      BY <1>2, <2>2, <3>1, <3>2, GivenOfOthers
    <3>3. CASE UNCHANGED chat
      BY <1>2, <1>4, <3>1, <3>3, GivenAlone DEF chat
    <3> QED
      BY <2>1, <3>2, <3>3
  <2>3. CASE a = b
    <3> DEFINE S == given[b] \cup session[b].shown
    <3>1. /\ stage[b] = "start" /\ stage'[b] = "run" /\ convs'[b] = NoConv
          /\ given'[b] = S \cup seq + 1..seq'
      BY <1>1, <1>9, <2>3 DEF Start, MineType
    <3>2. /\ S \subseteq 1..seq /\ session[b].seq <= seq
          /\ session[b].shown \subseteq 1..seq
          /\ Holds(Window, S, session[b].seq, b)
      BY <1>2, <3>1 DEF Given
    <3> HIDE DEF S
    <3>3. CASE ChatAdd(a)
      <4>1. seq' = seq + 1
        BY <1>1, <3>3, ChatAddKeeps
      <4>2. given'[b] = S \cup {seq + 1}
        BY <1>1, <3>1, <4>1
      <4>3. Holds(Window', S \cup {seq + 1}, session[b].seq, b)
        BY <1>1, <1>3, <2>3, <3>2, <3>3, HoldsKept
      <4> QED
        BY <1>1, <1>3, <2>1, <3>1, <3>2, <4>1, <4>2, <4>3 DEF Given, NoConv
    <3>4. CASE UNCHANGED chat
      <4>1. seq' = seq /\ Window' = Window
        BY <1>4, <3>4 DEF chat
      <4>2. given'[b] = S
        BY <1>1, <3>1, <4>1
      <4>3. session'[b] = session[b]
        BY <2>1
      <4>4. convs'[b].seq = 0 /\ ~convs'[b].kept
        BY <3>1 DEF NoConv
      <4>5. given'[b] \subseteq 1..seq' /\ Holds(Window', given'[b], session'[b].seq, b)
        BY <3>2, <4>1, <4>2, <4>3
      <4>6. session'[b].shown \subseteq 1..seq' /\ session'[b].seq <= seq'
            /\ convs'[b].seq <= seq'
        BY <1>1, <3>2, <4>1, <4>3, <4>4
      <4> QED
        BY <3>1, <4>4, <4>5, <4>6 DEF Given
    <3> QED
      BY <2>1, <3>3, <3>4
  <2> QED
    BY <2>2, <2>3
<1>10. ASSUME NEW a \in Agents, Say(a)
       PROVE  Given(b)'
  <2>1. CASE a # b
    BY <1>1, <1>2, <1>10, <2>1, GivenOfOthers DEF Say, MineType
  <2>2. CASE a = b
    <3>1. /\ stage[b] = "run" /\ stage' = stage /\ session' = session /\ convs' = convs
          /\ given'[b] = given[b] \cup {seq + 1} /\ ChatAdd(b)
      BY <1>1, <1>10, <2>2 DEF Say, MineType
    <3>2. seq' = seq + 1
      BY <1>1, <3>1, ChatAddKeeps
    <3>3. Holds(Window', given[b] \cup {seq + 1}, session[b].seq, b)
      BY <1>1, <1>2, <1>3, <3>1, HoldsKept DEF Given
    <3> QED
      BY <1>1, <1>2, <1>3, <3>1, <3>2, <3>3 DEF Given
  <2> QED
    BY <2>1, <2>2
<1>11. ASSUME NEW a \in Agents, ChatEnd(a)
       PROVE  Given(b)'
  <2>1. seq' = seq /\ Window' = Window
    BY <1>4, <1>11 DEF ChatEnd, chat
  <2>2. CASE a # b
    BY <1>1, <1>2, <1>11, <2>1, <2>2, GivenAlone DEF ChatEnd, MineType
  <2>3. CASE a = b
    <3>1. stage[b] = "run" /\ stage'[b] = "over" /\ session'[b] = NoSession
      BY <1>1, <1>11, <2>3 DEF ChatEnd, MineType
    <3>2. CASE convs' = convs
      <4>1. given'[b] = {} \/ given'[b] = given[b]
        BY <1>1, <1>11, <2>3 DEF ChatEnd, MineType
      <4> QED
        BY <1>1, <1>2, <2>1, <3>1, <3>2, <4>1 DEF Given, NoSession
    <3>3. CASE convs' # convs
      <4>1. given'[b] = given[b] /\ convs'[b].seq = session[b].seq
        BY <1>1, <1>11, <2>3, <3>3 DEF ChatEnd, MineType, SeqToKeep
      <4> QED
        BY <1>1, <1>2, <2>1, <3>1, <4>1 DEF Given, NoSession
    <3> QED
      BY <3>2, <3>3
  <2> QED
    BY <2>2, <2>3
<1>12. CASE Tick
  BY <1>2, <1>4, <1>12, GivenAlone DEF Tick, mine
<1> QED
  BY <1>5, <1>6, <1>7, <1>8, <1>9, <1>10, <1>11, <1>12 DEF ChatNext

-----------------------------------------------------------------------------
(* Theorems *)

(* The log, the dates of the sessions and the histories are consistent in   *)
(* every state (chat_id, chat_add and chat_render under their lock, and the *)
(* start and the end of agent_run_session between them).                    *)
THEOREM ChatInvariant == ChatSpec => [](ChatTypeOK /\ ChatInv)
<1>1. ChatInit => ChatTypeOK /\ ChatInv
  <2> SUFFICES ASSUME ChatInit
               PROVE  ChatTypeOK /\ ChatInv
    OBVIOUS
  <2>1. /\ Cap \in Nat \ {0} /\ Idle \in Nat \ {0} /\ MaxSeq \in Nat
        /\ (CHOOSE a \in Agents : TRUE) \in Agents
    BY ChatAssumption
  <2>2. /\ n = 0 /\ seq = 0 /\ silence = Idle /\ next = 0 /\ id = 0
        /\ stage = [a \in Agents |-> "over"]
        /\ session = [a \in Agents |-> NoSession]
        /\ convs = [a \in Agents |-> NoConv]
        /\ given = [a \in Agents |-> {}]
        /\ lapsed = [a \in Agents |-> FALSE] /\ since = [a \in Agents |-> FALSE]
    BY DEF ChatInit
  <2>3. LogType
    <3> DEFINE l == [seq |-> 0, agent |-> CHOOSE a \in Agents : TRUE]
    <3>1. l \in Line
      BY <2>1 DEF Line
    <3>2. ring = [k \in Slots |-> l]
      BY DEF ChatInit
    <3> HIDE DEF l
    <3>3. ring \in [Slots -> Line]
      BY <3>1, <3>2
    <3>4. next \in Slots /\ n \in 0..Cap /\ seq \in 0..MaxSeq /\ silence \in 0..Idle
      BY <2>1, <2>2 DEF Slots
    <3> QED
      BY <2>2, <3>3, <3>4 DEF LogType
  <2>4. MineType
    <3>1. NoConv \in [kept : BOOLEAN, id : Nat, seq : 0..MaxSeq] /\ NoSession \in Sessions
      BY <2>1 DEF NoConv, NoSession, Sessions
    <3>2. stage \in [Agents -> {"over", "open", "start", "run"}]
          /\ given \in [Agents -> SUBSET (1..MaxSeq)]
      BY <2>2
    <3>3. /\ session \in [Agents -> Sessions]
          /\ convs \in [Agents -> [kept : BOOLEAN, id : Nat, seq : 0..MaxSeq]]
          /\ lapsed \in [Agents -> BOOLEAN] /\ since \in [Agents -> BOOLEAN]
      BY <2>2, <3>1, Zenon
    <3> QED
      BY <3>2, <3>3 DEF MineType
  <2>5. Ordered
    BY <2>2 DEF Ordered
  <2>6. IdsTellLapses
    BY <2>2 DEF IdsTellLapses, NoConv
  <2>7. HistoriesGiven
    <3> SUFFICES ASSUME NEW a \in Agents
                 PROVE  Given(a)
      BY DEF HistoriesGiven
    <3>1. /\ given[a] = {} /\ stage[a] = "over" /\ ~convs[a].kept
          /\ session[a].shown = {} /\ session[a].seq = 0 /\ convs[a].seq = 0
      BY <2>2 DEF NoConv, NoSession
    <3> QED
      BY <2>2, <3>1 DEF Given
  <2> QED
    BY <2>3, <2>4, <2>5, <2>6, <2>7, TypeSplit DEF ChatInv
<1>2. ChatTypeOK /\ ChatInv /\ [ChatNext]_chatVars => (ChatTypeOK /\ ChatInv)'
  <2> SUFFICES ASSUME ChatTypeOK, ChatInv, [ChatNext]_chatVars
               PROVE  ChatTypeOK' /\ ChatInv'
    OBVIOUS
  <2>1. Ordered /\ IdsTellLapses /\ HistoriesGiven /\ LogType
    BY TypeSplit DEF ChatInv
  <2>2. ChatTypeOK' /\ Ordered'
    BY <2>1, TypeKept, LogKept
  <2>3. IdsTellLapses' /\ HistoriesGiven'
    BY <2>1, IdsKept, GivenKept
  <2> QED
    BY <2>2, <2>3 DEF ChatInv
<1> QED
  BY <1>1, <1>2, PTL DEF ChatSpec

(* For a log of any size, chat_render walks the ring oldest line first,     *)
(* whatever was overwritten or closed before.                               *)
THEOREM LinesInOrder == ChatSpec => []RingInOrder
<1>1. ChatTypeOK /\ ChatInv => RingInOrder
  BY DEF ChatInv, Ordered, RingInOrder
<1> QED
  BY <1>1, ChatInvariant, PTL

(* For any number of agents and any conversation_timeout, a session resumes *)
(* the kept history exactly when no such silence came since the session     *)
(* that left it began: the number of the conversation that                  *)
(* agent_run_session compares with the one it kept tells the two apart.     *)
THEOREM OpenMeansResumed == ChatSpec => ResumesWhileOpen
<1>1. ChatTypeOK /\ ChatInv /\ [ChatNext]_chatVars =>
        [\A a \in Agents :
           Opens(a) => (session'[a].resume <=> convs[a].kept /\ ~lapsed[a])]_chatVars
  <2> SUFFICES ASSUME ChatTypeOK, ChatInv, ChatNext, NEW a \in Agents, Opens(a)
               PROVE  session'[a].resume <=> convs[a].kept /\ ~lapsed[a]
    OBVIOUS
  <2>1. LogType /\ MineType /\ Ordered /\ IdsTellLapses
    BY TypeSplit DEF ChatInv
  <2>2. stage[a] = "over" /\ stage'[a] = "open"
    BY DEF Opens
  <2>3. PICK kind \in {"irc", "other"} : Open(a, kind)
    BY <2>1, <2>2, ZenonT(60)
    DEF ChatNext, Open, Render, NoMemory, Start, Say, ChatEnd, Tick, mine, MineType
  <2>4. id' = CurrentId
    BY <2>1, <2>3, ChatIdKeeps DEF Open
  <2>5. session'[a].resume <=> convs[a].kept /\ convs[a].id = id'
    BY <2>1, <2>3 DEF Open, Resumes, MineType
  <2>6. convs[a].kept => (lapsed[a] <=> convs[a].id # CurrentId)
    BY <2>1 DEF IdsTellLapses, Dated
  <2> QED
    BY <2>4, <2>5, <2>6
<1> QED
  BY <1>1, ChatInvariant, PTL DEF ChatSpec, ResumesWhileOpen

(* A new turn gives every line of the open conversation that the history    *)
(* was never given, and none a second time: the pair that                   *)
(* agent_run_session keeps (the newest line when the session began, and the *)
(* agent's own name to leave out) is enough to tell them, however the       *)
(* sessions of the agents overlap.                                          *)
THEOREM EveryLineOnce == ChatSpec => ShownOnce
<1>1. ChatTypeOK /\ ChatInv /\ [ChatNext]_chatVars =>
        [\A a \in Agents :
           stage[a] = "open" /\ stage'[a] = "start" =>
             /\ session'[a].shown \cap given[a] = {}
             /\ seq + 1 - n..seq \subseteq session'[a].shown \cup given[a]]_chatVars
  <2> SUFFICES ASSUME ChatTypeOK, ChatInv, ChatNext, NEW a \in Agents,
                      stage[a] = "open", stage'[a] = "start"
               PROVE  /\ session'[a].shown \cap given[a] = {}
                      /\ seq + 1 - n..seq \subseteq session'[a].shown \cup given[a]
    OBVIOUS
  <2>1. LogType /\ MineType /\ Ordered /\ Given(a)
    BY TypeSplit DEF ChatInv, HistoriesGiven
  <2>2. Render(a)
    BY <2>1
    DEF ChatNext, Open, Render, NoMemory, Start, Say, ChatEnd, Tick, mine, MineType
  <2>3. session'[a].shown = Rendered(After(a), Skipped(a))
    <3>1. session[a] \in Sessions /\ session \in [Agents -> Sessions]
      BY <2>1, Zenon DEF MineType
    <3> QED
      BY <2>2, <3>1 DEF Render, Sessions
  <2>4. /\ session'[a].shown \cap given[a] = {}
        /\ \A l \in Window : l.seq \in given[a] \cup session'[a].shown
    BY <2>1, <2>3, RenderShows
  <2> QED
    BY <2>1, <2>4, WindowNumbered
<1> QED
  BY <1>1, ChatInvariant, PTL DEF ChatSpec, ShownOnce
=============================================================================
