------------------------------- MODULE Lists -------------------------------
(* Loops that pass over a list and keep some of it, as memory.c,            *)
(* provider.c and irc_parse.c have them: the positions kept, in order, and  *)
(* the elements found there.                                                *)
EXTENDS Naturals, FiniteSets, Sequences

\* The numbers of S, the smallest first: the k-th is the one with k up to it.
Listed(S) ==
    [k \in 1..Cardinality(S) |-> CHOOSE i \in S : Cardinality({j \in S : j <= i}) = k]

Picked(list, S) ==
    LET at == Listed(S) IN [k \in DOMAIN at |-> list[at[k]]]
=============================================================================
