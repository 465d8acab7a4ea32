----------------------------- MODULE MCPlugins -----------------------------
(* The plugin registry for TLC: two names, the second of which is too long  *)
(* for the registry and is cut to the first.                                *)
EXTENDS PluginRegistry

CONSTANTS n1, n2

MCCut == [n \in Names |-> n1]
=============================================================================
