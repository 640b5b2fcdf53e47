----------------------------- MODULE MCPicoSend -----------------------------
(* Small instances of PicoSend for TLC.                                    *)
EXTENDS PicoSend

CONSTANTS c1, c2

TwoMeters == <<<<c1>>, <<c2>>>>
OneMeter == <<<<c1>>>>
OneMeterTwoChannels == <<<<c1, c2>>>>
NoAggregation == [c \in Channels |-> "NONE"]
MaxOnSecond == [c \in Channels |-> IF c = c2 THEN "MAX" ELSE "NONE"]
KeepDuplicates == [c \in Channels |-> 0]
DropDuplicates == [c \in Channels |-> 3]
=============================================================================
