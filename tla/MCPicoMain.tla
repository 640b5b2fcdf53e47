----------------------------- MODULE MCPicoMain -----------------------------
(* Small instances of PicoMain for TLC.                                    *)
EXTENDS PicoMain

CONSTANTS u1, u2, bad

(* Two meters on one URL, and one whose URL cannot be parsed. *)
OneUrl == <<<<u1, u1>>, <<u1>>, <<bad>>>>
(* The same URL behind a meter whose URL cannot be parsed. *)
BadFirst == <<<<bad>>, <<u1>>>>
TwoUrls == <<<<u1>>, <<u2>>>>
=============================================================================
