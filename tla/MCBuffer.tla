------------------------------ MODULE MCBuffer ------------------------------
(* Small instances of Buffer for TLC.                                      *)
EXTENDS Buffer

MCValues == {-12, 5, 36}
=============================================================================
