---------------------------- MODULE MCTurnStream ----------------------------
(* A small instance of TurnStream for TLC.                                 *)
EXTENDS TurnStream

(* A card and a file row that may share a group, and a row that may not.   *)
MCArriving == {<<"command_execution", "read">>, <<"read", "read">>,
               <<"dynamicToolCall", "other">>}

(* What get_session answers: messages that have no role, or none.          *)
MCHistories == {<<"none", "none">>, <<>>}
=============================================================================
