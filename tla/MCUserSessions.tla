---------------------------- MODULE MCUserSessions ----------------------------
(***************************************************************************)
(* Instances of UserSessions for TLC.                                      *)
(***************************************************************************)
EXTENDS UserSessions, TLC

CONSTANTS h1, h2, b1, b2

TwoHandlers == {h1, h2}
TwoBrowsers == {b1, b2}
TwoSessions == {1, 2}

===============================================================================
