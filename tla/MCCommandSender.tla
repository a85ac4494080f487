-------------------------- MODULE MCCommandSender --------------------------
(***************************************************************************)
(* CommandSender as TLC checks it.                                         *)
(***************************************************************************)
EXTENDS CommandSender

\* The first command and the third are equal, the second is another.
MCKind == [c \in Commands |-> IF c = 2 THEN 0 ELSE 1]
=============================================================================
