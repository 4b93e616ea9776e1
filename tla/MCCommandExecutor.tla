------------------------- MODULE MCCommandExecutor -------------------------
(* CommandExecutor with model values for the leader and two helpers: one    *)
(* can hold a pipe outside the group while the other ignores TERM in it.    *)
EXTENDS CommandExecutor

CONSTANTS leader, h1, h2
=============================================================================
