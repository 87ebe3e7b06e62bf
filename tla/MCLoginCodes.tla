----------------------------- MODULE MCLoginCodes -----------------------------
(***************************************************************************)
(* Instances of LoginCodes for TLC.                                        *)
(***************************************************************************)
EXTENDS LoginCodes, TLC

CONSTANTS h1, h2

TwoHandlers == {h1, h2}
ThreeCodes  == 1..3

Symmetry == Permutations(TwoHandlers)
===============================================================================
