----------------------------- MODULE MCMainLoop -----------------------------
(* MainLoop for TLC.  Each behaviour keeps to one of four budgets: a link   *)
(* that fails often and no clients; two clients and lines shown to them;    *)
(* more clients than the table holds; one client while the link fails.      *)
EXTENDS MainLoop

LinkBudget ==
    [faults |-> 3, taken |-> 2, lines |-> 1, programs |-> 0, msgs |-> 0, says |-> 0]
ClientBudget ==
    [faults |-> 0, taken |-> 0, lines |-> 0, programs |-> 2, msgs |-> 1, says |-> 2]
CrowdBudget ==
    [faults |-> 0, taken |-> 0, lines |-> 0, programs |-> 3, msgs |-> 0, says |-> 0]
BothBudget ==
    [faults |-> 1, taken |-> 0, lines |-> 0, programs |-> 1, msgs |-> 1, says |-> 2]
MCBudgets == {LinkBudget, ClientBudget, CrowdBudget, BothBudget}
=============================================================================
