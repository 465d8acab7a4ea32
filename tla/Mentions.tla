------------------------------ MODULE Mentions ------------------------------
(***************************************************************************)
(* parse_mentions (irc_parse.c): which agent gets which part of a message   *)
(* of the owner.  A message is a sequence of tokens; its text is the        *)
(* positions of the tokens that make it up.  Tokens: "@name" for a known    *)
(* name or "all", "name:" (a mention at the very beginning only), a word    *)
(* (an unknown "@name" or "user@name" is one), and punctuation that         *)
(* set_text strips from the front.                                          *)
(***************************************************************************)
EXTENDS Naturals, Sequences, Lists, SequencesExt, FiniteSetsExt

CONSTANTS Names,        \* agents, without the hub
          MaxMentions,  \* mentions looked for (16)
          MaxRoutes,    \* max_out (8)
          MaxTokens     \* bound: length of a message

ASSUME MentionsAssumption ==
    MaxMentions \in Nat /\ MaxRoutes \in Nat \ {0} /\ MaxTokens \in Nat

VARIABLES msg,     \* the owner's message
          routes   \* what parse_mentions returns for it: [agent, text]

mentionVars == <<msg, routes>>

All == "all"
Hub == "hub"
Token(kind, name) == [kind |-> kind, name |-> name]
Tokens == {Token(kind, name) : kind \in {"at", "colon"}, name \in Names \cup {All}}
          \cup {Token("word", All), Token("punct", All)}

-----------------------------------------------------------------------------
(* The mentions: positions in the message, the first MaxMentions of them.   *)
IsMention(s, i) == s[i].kind = "at" \/ (i = 1 /\ s[i].kind = "colon")

MentionsOf(s) ==
    LET at == Listed({i \in DOMAIN s : IsMention(s, i)})
    IN  SubSeq(at, 1, Min({MaxMentions, Len(at)}))

\* set_text on the tokens from..to.
SetText(s, positions) ==
    LET solid == {k \in DOMAIN positions : s[positions[k]].kind # "punct"}
    IN  IF solid = {} THEN <<>> ELSE SubSeq(positions, Min(solid), Len(positions))

Positions(from, to) == [k \in 1..(to + 1 - from) |-> from + k - 1]

Route(agent, text) == [agent |-> agent, text |-> text]

\* The first @all: the message without it, or with it when nothing is left.
ToAll(s, i) ==
    LET clean == SetText(s, Positions(1, i - 1) \o Positions(i + 1, Len(s)))
    IN  <<Route(All, IF clean # <<>> THEN clean ELSE SetText(s, Positions(1, Len(s))))>>

\* One turn of the last loop.  acc: [out, pending]; the routes behind pending
\* have no text yet.

\* Mutant: a text reaches the last of the mentions without one only.
FilledLast(out, pending, text) ==
    [j \in DOMAIN out |-> IF j > pending /\ j = Len(out) THEN Route(out[j].agent, text) ELSE out[j]]

Filled(out, pending, text) ==
    [j \in DOMAIN out |-> IF j > pending THEN Route(out[j].agent, text) ELSE out[j]]

Segment(s, m, i) ==
    SetText(s, Positions(m[i] + 1, IF i < Len(m) THEN m[i + 1] - 1 ELSE Len(s)))

Turn(s, m, acc, i) ==
    LET text == Segment(s, m, i)
        out == Append(acc.out, Route(s[m[i]].name, text))
    IN  IF Len(acc.out) >= MaxRoutes THEN acc
        ELSE IF text = <<>> THEN [acc EXCEPT !.out = out]
        ELSE [out |-> Filled(out, acc.pending, text), pending |-> Len(out)]

BeforeFirst(s, m) ==
    LET text == SetText(s, Positions(1, m[1] - 1))
    IN  IF text = <<>> THEN <<>> ELSE <<Route(Hub, text)>>

Turns(s, m) ==
    LET first == BeforeFirst(s, m)
        acc[i \in 0..Len(m)] ==
            IF i = 0 THEN [out |-> first, pending |-> Len(first)]
            ELSE Turn(s, m, acc[i - 1], i)
    IN  acc[Len(m)]

ParseMentions(s) ==
    LET m == MentionsOf(s)
        alls == {k \in DOMAIN m : s[m[k]].name = All}
    IN  IF s = <<>> THEN <<>>
        ELSE IF m = <<>> THEN <<Route(Hub, SetText(s, Positions(1, Len(s))))>>
        ELSE IF alls # {} THEN ToAll(s, m[Min(alls)])
        ELSE SubSeq(Turns(s, m).out, 1, Turns(s, m).pending)

-----------------------------------------------------------------------------
MentionsInit == msg = <<>> /\ routes = <<>>

\* The owner types one more token.
Types ==
    /\ Len(msg) < MaxTokens
    /\ \E token \in Tokens : msg' = Append(msg, token)
    /\ routes' = ParseMentions(msg')

MentionsSpec == MentionsInit /\ [][Types]_mentionVars

-----------------------------------------------------------------------------
(* The mentions that count, and the texts that follow the i-th of them.     *)
Counted(s, m) == Min({Len(m), MaxRoutes - Len(BeforeFirst(s, m))})
TextsAfter(s, m, i) == {j \in i..Counted(s, m) : Segment(s, m, j) # <<>>}

(* What the comments of parse_mentions promise, said at once: the text      *)
(* before the first mention goes to the hub; every mentioned agent gets the *)
(* nearest text that follows its mention, of the mentions that count        *)
(* (MaxRoutes of them); one that no text follows gets nothing.  Without a   *)
(* mention the hub gets every word of the message, with @all the agents do. *)
MentionsRouted ==
    LET m == MentionsOf(msg)
        alls == \E k \in DOMAIN m : msg[m[k]].name = All
        served == Listed({i \in 1..Counted(msg, m) : TextsAfter(msg, m, i) # {}})
    IN
    IF m # <<>> /\ ~alls
    THEN routes = BeforeFirst(msg, m) \o [k \in DOMAIN served |->
           Route(msg[m[served[k]]].name, Segment(msg, m, Min(TextsAfter(msg, m, served[k]))))]
    ELSE \A i \in DOMAIN msg :
           msg[i].kind = "word" =>
             Len(routes) = 1 /\ routes[1].agent = (IF alls THEN All ELSE Hub)
             /\ i \in ToSet(routes[1].text)
=============================================================================
