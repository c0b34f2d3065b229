--------------------------- MODULE MCBotWorkspace ---------------------------
(* BotWorkspace for TLC: one request deletes the bot, the others do anything. *)
EXTENDS BotWorkspace

CONSTANT Deleter

MCMay == [r \in Request |-> IF r = Deleter THEN {"delete"} ELSE {"choose", "bind", "delete"}]

=============================================================================
