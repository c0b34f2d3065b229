---------------------------- MODULE MCBotController ----------------------------
(* BotController for TLC: one request sets the policy, the other removes the bot *)
(* and connects it again, and both bind it.                                     *)
EXTENDS BotController

CONSTANT Remover

MCMay == [r \in Request |-> IF r = Remover THEN {"reconnect", "delete", "bind"}
                                           ELSE {"bind", "policy"}]
=============================================================================
