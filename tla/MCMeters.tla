------------------------------ MODULE MCMeters ------------------------------
(* Small instances, for TLC, of the meters, of what one API and the local  *)
(* web interface keep, and of the clock of the Pico.  In each behaviour    *)
(* one part moves and the others stay where they begin.                    *)
EXTENDS MeterS0, MeterD0, MeterOMS, MeterOCR, InfluxDB, LocalInterface, Ntp

S0(blocking, dir, sendZero) == [blocking |-> blocking, dir |-> dir, sendZero |-> sendZero]
MCS0Configs == {S0(TRUE, FALSE, FALSE), S0(TRUE, TRUE, TRUE), S0(FALSE, TRUE, FALSE)}

D0(tty, pull, ack, sync, connect, read) ==
    [tty |-> tty, pull |-> pull, ack |-> ack, sync |-> sync, connect |-> connect, read |-> read]
MCD0Configs == {D0(TRUE, TRUE, "auto", FALSE, "B300", "B300"),
                D0(TRUE, FALSE, "auto", FALSE, "B9600", "B9600"),
                D0(TRUE, TRUE, "fixed", FALSE, "B300", "B9600"),
                D0(FALSE, FALSE, "none", TRUE, "B9600", "B9600")}

T(time_, first, key) == [time |-> time_, first |-> first, key |-> key]
MCTelegrams == <<T(1, TRUE, TRUE), T(0, TRUE, TRUE), T(2, FALSE, TRUE), T(3, TRUE, TRUE)>>

Ocr(v4l2, needle, impulses) == [v4l2 |-> v4l2, needle |-> needle, impulses |-> impulses]
MCOcrConfigs == {Ocr(FALSE, TRUE, TRUE), Ocr(TRUE, FALSE, FALSE), Ocr(FALSE, FALSE, TRUE)}
MCMoves == {-130, 25, 370}
MCErrors == {-3, 0, 3}
MCTurnBounds == <<-220, 1040>>

MCInfluxConfigs == {[duplicates |-> 0, maxBatch |-> 2, maxBuffer |-> 3],
                    [duplicates |-> 2, maxBatch |-> 3, maxBuffer |-> 2]}

MCBufferLengths == {-2, 1}

-----------------------------------------------------------------------------
VARIABLE part

meterVars == <<s0vars, d0vars, omsvars, ocrvars, infvars, localVars, ntpVars, part>>

Parts == {"s0", "d0", "oms", "ocr", "influx", "local", "ntp"}

First(S) == CHOOSE x \in S : TRUE

(* Where it begins, every part waits for its first call.                   *)
MetersInit ==
    /\ part \in Parts
    /\ S0Init /\ (part = "s0" \/ s0conf = First(S0Configs))
    /\ D0Init /\ (part = "d0" \/ d0conf = First(D0Configs))
    /\ OmsInit
    /\ OcrInit /\ (part = "ocr" \/ ocrconf = First(OcrConfigs))
    /\ InfluxInit /\ (part = "influx" \/ infconf = First(InfluxConfigs))
    /\ LocalInit /\ (part = "local" \/ bufferLength = First(BufferLengths))
    /\ NtpInit

S0Part ==
    /\ part = "s0" /\ S0Next
    /\ UNCHANGED <<d0vars, omsvars, ocrvars, infvars, localVars, ntpVars, part>>
D0Part ==
    /\ part = "d0" /\ D0Next
    /\ UNCHANGED <<s0vars, omsvars, ocrvars, infvars, localVars, ntpVars, part>>
OmsPart ==
    /\ part = "oms" /\ OmsNext
    /\ UNCHANGED <<s0vars, d0vars, ocrvars, infvars, localVars, ntpVars, part>>
OcrPart ==
    /\ part = "ocr" /\ OcrNext
    /\ UNCHANGED <<s0vars, d0vars, omsvars, infvars, localVars, ntpVars, part>>
InfluxPart ==
    /\ part = "influx" /\ InfluxNext
    /\ UNCHANGED <<s0vars, d0vars, omsvars, ocrvars, localVars, ntpVars, part>>
LocalPart ==
    /\ part = "local" /\ LocalNext
    /\ UNCHANGED <<s0vars, d0vars, omsvars, ocrvars, infvars, ntpVars, part>>
NtpPart ==
    /\ part = "ntp" /\ NtpNext
    /\ UNCHANGED <<s0vars, d0vars, omsvars, ocrvars, infvars, localVars, part>>

MetersNext ==
    S0Part \/ D0Part \/ OmsPart \/ OcrPart \/ InfluxPart \/ LocalPart \/ NtpPart

MetersSpec == MetersInit /\ [][MetersNext]_meterVars /\ S0Fairness /\ D0Fairness
=============================================================================
