--------------------------- MODULE MCConversation ---------------------------
(* Values of the constants of Conversation: what the messages may be, one   *)
(* after the other.                                                         *)
EXTENDS Conversation

\* Batches: one whose first /send may fail, one whose turn is stopped, one that
\* is full and cancelled.  Prompts whose question is answered by texts, by a text
\* behind an image, or stopped.
Chat == {<<"/batch", "text", "/send", "/send">>,
         <<"/batch", "text", "/send", "/stop">>,
         <<"/batch", "text", "text", "/cancel">>,
         <<"text", "text", "text">>, <<"text", "media", "text">>,
         <<"text", "text", "/stop">>}

\* One batch.
OneBatch == {<<"/batch", "text", "/send">>}
=============================================================================
