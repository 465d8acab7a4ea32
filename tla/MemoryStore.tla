---------------------------- MODULE MemoryStore ----------------------------
(***************************************************************************)
(* An agent's memory (memory.c): a log of entries, one JSON line each, with *)
(* a cache of the lines that parsed, and the file of facts.  Every          *)
(* operation holds the memory's lock.  Disks fill up, the daemon dies, the  *)
(* owner edits the facts by hand.                                           *)
(*                                                                         *)
(* The log is a sequence of entries, of beginnings of one (Part) and of     *)
(* line ends (Nl).  An entry has its number and the words that a query can  *)
(* match in it.  A key stands for all its spellings in upper and lower      *)
(* case: cJSON finds, replaces and deletes members without regard to case.  *)
(***************************************************************************)
EXTENDS Naturals, FiniteSets, Sequences, Lists, SequencesExt, FiniteSetsExt

CONSTANTS Words,
          Keys, Values,  \* of facts
          MaxEntries,    \* bound: entries added
          MaxTop         \* bound: results asked for (50)

ASSUME MemAssumption == IsFiniteSet(Words) /\ MaxEntries \in Nat /\ MaxTop \in Nat

VARIABLES
    log,       \* memory.jsonl
    cache,     \* m->cache, NoCache for NULL
    facts,     \* facts.json: its contents
    damaged    \* it does not parse as it stands

(* History. *)
VARIABLES
    added,       \* entries given a number
    remembered,  \* entries reported "Remembered" and not cleared since
    hurt,        \* those appended to a line that was never finished
    saved,       \* the facts reported "saved" and not cleared since
    last         \* the last search: [over, query, n, top]

memVars == <<log, cache, facts, damaged, added, remembered, hurt, saved, last>>

NoCache == [loaded |-> FALSE, list |-> <<>>]
Cached(list) == [loaded |-> TRUE, list |-> list]
Part == [kind |-> "part"]
Nl == [kind |-> "nl"]
NoFact == "no fact"
NoFacts == [k \in Keys |-> NoFact]
NoSearch == [over |-> <<>>, query |-> {}, n |-> 1, top |-> <<>>]

MemInit ==
    /\ log = <<>> /\ cache = NoCache
    /\ facts = NoFacts /\ damaged = FALSE
    /\ added = 0 /\ remembered = {} /\ hurt = {} /\ saved = NoFacts
    /\ last = NoSearch

-----------------------------------------------------------------------------
(* load_cache: the lines that begin with a whole entry; cJSON_Parse does    *)
(* not look at what follows one on the same line.                           *)

Begins(i) == i = 1 \/ log[i - 1] = Nl

Parsed == Picked(log, {i \in DOMAIN log : Begins(i) /\ log[i].kind = "entry"})

\* The cache after load_cache; a file that cannot be read leaves it empty.
Loads == IF cache.loaded THEN {cache.list} ELSE {Parsed, <<>>}

-----------------------------------------------------------------------------
(* memory_add: the line reaches the disk whole, or only a beginning of it   *)
(* does and the entry is refused.                                           *)

\* Mutant: the entry is cached and reported whatever reached the disk.
WroteAny(e, out) == TRUE

Wrote(e, out) == out = <<e, Nl>>

Unfinished == log # <<>> /\ Last(log) # Nl

MemoryAdd(words) ==
    LET e == [kind |-> "entry", id |-> added + 1, words |-> words] IN
    /\ added < MaxEntries
    /\ added' = added + 1
    /\ \E out \in {<<e, Nl>>, <<e>>, <<Part>>, <<>>}, loaded \in Loads :
         /\ log' = log \o out
         /\ cache' = Cached(IF Wrote(e, out) THEN Append(loaded, e) ELSE loaded)
         /\ remembered' = IF Wrote(e, out) THEN remembered \cup {e} ELSE remembered
         /\ hurt' = IF Unfinished THEN hurt \cup {e} ELSE hurt
    /\ last' = NoSearch
    /\ UNCHANGED <<facts, damaged, saved>>

(* memory_search: the newest first, each inserted behind those that match   *)
(* at least as many words; without words the newest n.                      *)

Score(e, query) == IF query = {} THEN 1 ELSE Cardinality(e.words \cap query)

Position(top, s, query) ==
    Max({0} \cup {i \in DOMAIN top : Score(top[i], query) >= s})

Insert(top, e, query, n) ==
    LET s == Score(e, query)
        pos == Position(top, s, query)
    IN  IF s = 0 \/ pos >= n THEN top
        ELSE LET longer == InsertAt(top, pos + 1, e)
             IN  SubSeq(longer, 1, Min({n, Len(longer)}))

Top(list, query, n) ==
    LET top[k \in 0..Len(list)] ==
            IF k = 0 THEN <<>>
            ELSE Insert(top[k - 1], list[Len(list) + 1 - k], query, n)
    IN  top[Len(list)]

MemorySearch(query, n) ==
    \E loaded \in Loads :
      /\ cache' = Cached(loaded)
      /\ last' = [over |-> loaded, query |-> query, n |-> n, top |-> Top(loaded, query, n)]
      /\ UNCHANGED <<log, facts, damaged, added, remembered, hurt, saved>>

MemoryClear ==
    /\ cache' = NoCache /\ log' = <<>>
    /\ remembered' = {} /\ last' = NoSearch
    /\ UNCHANGED <<facts, damaged, added, hurt, saved>>

-----------------------------------------------------------------------------
(* facts_set: json_load refuses a file that does not parse, and             *)
(* json_save_atomic replaces the file whole or not at all.                  *)

FactsLoaded == IF damaged THEN {} ELSE {facts}

FactsSet(k, v) ==
    /\ \E f \in FactsLoaded : facts' = [f EXCEPT ![k] = v]
    /\ damaged' = FALSE
    /\ saved' = [saved EXCEPT ![k] = v]
    /\ UNCHANGED <<log, cache, added, remembered, hurt, last>>

FactsClear ==
    /\ facts' = NoFacts /\ damaged' = FALSE
    /\ saved' = NoFacts
    /\ UNCHANGED <<log, cache, added, remembered, hurt, last>>

\* The owner edits facts.json by hand and breaks its syntax, or mends it.
OwnerEdits ==
    /\ damaged' = ~damaged
    /\ UNCHANGED <<log, cache, facts, added, remembered, hurt, saved, last>>

\* The daemon dies, perhaps in the middle of an append, and is started again
\* (bound: an unfinished line is not cut a second time).
MemRestart ==
    /\ cache' = NoCache
    /\ \/ UNCHANGED log
       \/ ~Unfinished /\ Len(log) < 2 * MaxEntries /\ log' = Append(log, Part)
    /\ last' = NoSearch
    /\ UNCHANGED <<facts, damaged, added, remembered, hurt, saved>>

LogNext ==
    \/ \E words \in SUBSET Words : MemoryAdd(words)
    \/ \E query \in SUBSET Words, n \in 1..MaxTop : MemorySearch(query, n)
    \/ MemoryClear \/ MemRestart

FactsNext ==
    \/ \E k \in Keys, v \in Values : FactsSet(k, v)
    \/ FactsClear \/ OwnerEdits

MemSpec == MemInit /\ [][LogNext \/ FactsNext]_memVars

-----------------------------------------------------------------------------
(* What a search should return: the entries at these positions that match,  *)
(* those with more words first, then the newer, and up to n of them: what   *)
(* is left out comes after n others.                                        *)
Matching(list, at, query) == {i \in at : Score(list[i], query) > 0}

Before(list, query, i, j) ==
    LET si == Score(list[i], query)
        sj == Score(list[j], query)
    IN  si > sj \/ (si = sj /\ i > j)

Best(top, list, at, query, n) ==
    \E pick \in [DOMAIN top -> Matching(list, at, query)] :
        /\ \A k \in DOMAIN top : top[k] = list[pick[k]]
        /\ \A k, l \in DOMAIN top : k < l => Before(list, query, pick[k], pick[l])
        /\ Len(top) <= n
        /\ \A i \in Matching(list, at, query) \ {pick[k] : k \in DOMAIN top} :
             Len(top) = n /\ \A k \in DOMAIN top : Before(list, query, pick[k], i)

(* What was reported remembered is on the disk and parses after any         *)
(* restart, in the order it was added, except an entry appended to a line   *)
(* that a full disk or a crash left unfinished.  The facts are those last   *)
(* saved, whatever damage the file went through.  A search returns the best *)
(* of the entries it looked at.                                             *)
MemoryKept ==
    /\ remembered \ hurt \subseteq ToSet(Parsed)
    /\ \A i, j \in DOMAIN Parsed : i < j => Parsed[i].id < Parsed[j].id
    /\ facts = saved
    /\ Best(last.top, last.over, DOMAIN last.over, last.query, last.n)
=============================================================================
