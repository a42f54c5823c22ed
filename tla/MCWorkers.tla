----------------------------- MODULE MCWorkers -----------------------------
(* Two runs on one page, a channel of one command.                         *)
EXTENDS Workers

CONSTANTS w1, w2

MCWorkers == {w1, w2}
=============================================================================
