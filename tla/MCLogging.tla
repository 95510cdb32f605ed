------------------------------ MODULE MCLogging ------------------------------
(***************************************************************************)
(* The log for TLC: the least integer, zero, and one with inner zeroes.    *)
(***************************************************************************)
EXTENDS Logging

LoggedNumbers == {-IntHalf, 0, 100}

=============================================================================
