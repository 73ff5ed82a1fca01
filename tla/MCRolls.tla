--------------------------------- MODULE MCRolls ---------------------------------
(***************************************************************************)
(* A small instance of Rolls for TLC: two requests, and bytes that make a  *)
(* five, a six, and (the last) nothing.                                    *)
(***************************************************************************)
EXTENDS Rolls

CONSTANTS r1, r2
=============================================================================
