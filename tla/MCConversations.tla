-------------------------- MODULE MCConversations --------------------------
(* The sessions that mail starts, and the conversation with the owner, for  *)
(* TLC.  The two share no state; in a behaviour one of them moves.          *)
EXTENDS MCAgentSession, OwnerChat

VARIABLE part

MCInit == Init /\ ChatInit /\ part \in {"mail", "chat"}

MCNext ==
    \/ part = "mail" /\ Next /\ UNCHANGED <<chatVars, part>>
    \/ part = "chat" /\ ChatNext /\ UNCHANGED <<vars, part>>

MCSpec == MCInit /\ [][MCNext]_<<vars, chatVars, part>>
=============================================================================
