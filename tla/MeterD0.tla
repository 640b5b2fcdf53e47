------------------------------- MODULE MeterD0 -------------------------------
(***************************************************************************)
(* The parser of IEC 62056-21 telegrams: one call of read() takes bytes,   *)
(* one after the other, until the end of a telegram, an error or a         *)
(* timeout.  What outlives a call is the acknowledgement and the speed     *)
(* that belongs to it, both computed from the meter's first answer, and    *)
(* the speed of the port.  The bytes are inputs, kept as the classes the   *)
(* parser tells apart.                                                     *)
(***************************************************************************)
EXTENDS Integers

CONSTANTS
    D0Configs,      \* the options to consider
    IdLen, ObisLen, ValueLen, UnitLen,      \* the lengths of the buffers
    MaxReadings,    \* max_readings
    SyncLimit       \* D0_BUFFER_LENGTH

VendorLen == 3
Speeds == {"B300", "B9600"}

(* A serial device or a socket; pullseq and ackseq (none, auto, or one     *)
(* that asks for the speed baudrate_read); wait_sync; baudrate.            *)
D0Config ==
    [tty : BOOLEAN, pull : BOOLEAN, ack : {"none", "auto", "fixed"}, sync : BOOLEAN,
     connect : Speeds, read : Speeds]

ASSUME D0Assumption ==
    /\ D0Configs \subseteq D0Config
    /\ {IdLen, ObisLen, ValueLen, UnitLen} \subseteq Nat \ {0}
    /\ MaxReadings \in Nat /\ SyncLimit \in Nat

Bytes == {"slash", "bang", "quest", "nl", "stx", "open", "star", "close",
          "alpha", "zero", "five", "bin"}

VARIABLES
    d0conf,         \* the options
    d0pc,           \* closed, idle, sync (waits for the first end), top, byte
    syncEnd,        \* _wait_sync_end
    skipped,        \* bytes skipped so far
    ackSpeed,       \* the speed _ack asks for, "none" while it is empty
    readSpeed,      \* _baudrate_read
    port,           \* the speed of the port, as far as it was set
    told,           \* history: the speed this call's acknowledgement asked for
    context, byteIterator, tuples,
    baudrate,       \* the speed the meter announces
    obisFirst,      \* what obis_code begins with: nothing, a valid or an invalid byte
    hasValue,       \* value is not empty
    late,           \* more than _read_timeout_s since start_time
    halt            \* "silent" or "noise": all that still comes, "cancel": shutdown

d0vars == <<d0conf, d0pc, syncEnd, skipped, ackSpeed, readSpeed, port, told, context,
            byteIterator, tuples, baudrate, obisFirst, hasValue, late, halt>>

portVars == <<d0conf, syncEnd, skipped, ackSpeed, readSpeed, port, told, halt>>
fieldVars == <<baudrate, obisFirst, hasValue>>

D0Init ==
    /\ d0conf \in D0Configs
    /\ d0pc = "closed"
    /\ syncEnd = d0conf.sync /\ skipped = 0
    /\ ackSpeed = (IF d0conf.ack = "fixed" THEN d0conf.read ELSE "none")
    /\ readSpeed = d0conf.read /\ port = "none" /\ told = "none"
    /\ context = "START" /\ byteIterator = 0 /\ tuples = 0 /\ baudrate = "none"
    /\ obisFirst = "none" /\ hasValue = FALSE
    /\ late = FALSE /\ halt = "no"

(* The port gets the speed of the option, which a socket does not have.    *)
OpenDevice == d0conf.tty /\ port' = d0conf.connect
OpenSocket == ~d0conf.tty /\ UNCHANGED port

(* A failure ends the meter.                                               *)
D0Open ==
    /\ d0pc = "closed"
    /\ \/ d0pc' = "idle" /\ (OpenDevice \/ OpenSocket)
       \/ d0pc' = "failed" /\ UNCHANGED port
    /\ UNCHANGED <<d0conf, syncEnd, skipped, ackSpeed, readSpeed, told, halt, fieldVars, context,
                   byteIterator, tuples, late>>

(* A pull sequence goes out with the speed of the option.                  *)
D0Read ==
    /\ d0pc = "idle" /\ halt # "cancel"
    /\ d0pc' = IF syncEnd THEN "sync" ELSE "top"
    /\ port' = IF d0conf.pull THEN d0conf.connect ELSE port
    /\ told' = "none"
    /\ context' = "START" /\ byteIterator' = 0 /\ tuples' = 0 /\ baudrate' = "none"
    /\ late' = FALSE /\ skipped' = 0 /\ obisFirst' = "none" /\ hasValue' = FALSE
    /\ UNCHANGED <<d0conf, syncEnd, ackSpeed, readSpeed, halt>>

-----------------------------------------------------------------------------
(* The bytes of the meter, the clock, and what read(2) returns. *)

(* Noise begins and ends no telegram; it may come in any context.          *)
Noise == Bytes \ {"slash", "bang", "quest"}

Sent(b) == halt # "silent" /\ (halt = "noise" => b \in Noise)

(* The meter stops in the middle of anything and leaves a silent or a      *)
(* noisy line, or the reading thread is cancelled ...                      *)
Halt ==
    /\ halt = "no" /\ halt' \in {"silent", "noise", "cancel"}
    /\ UNCHANGED <<d0conf, d0pc, syncEnd, skipped, ackSpeed, readSpeed, port, told, context,
                   byteIterator, tuples, late, fieldVars>>

TimePasses ==
    /\ d0pc \in {"sync", "top", "byte"} /\ ~late /\ late' = TRUE
    /\ UNCHANGED <<portVars, fieldVars, d0pc, context, byteIterator, tuples>>

(* wait_sync: bytes up to the first "!" are skipped, a limited number.     *)
(* A read error counts as a byte; the end of file, or a serial device with *)
(* nothing to read, leaves the loop for this call.                         *)
SkipByte(b) ==
    /\ d0pc = "sync" /\ (b = "bang" => Sent(b))
    /\ skipped' = IF b = "bang" THEN skipped ELSE skipped + 1
    /\ syncEnd' = (b # "bang" /\ skipped' <= SyncLimit)
    /\ d0pc' = IF syncEnd' THEN "sync" ELSE "top"
    /\ UNCHANGED <<d0conf, ackSpeed, readSpeed, port, told, halt, context, byteIterator,
                   tuples, late, fieldVars>>

SyncNothing ==
    /\ d0pc = "sync" /\ d0pc' = "top"
    /\ UNCHANGED <<portVars, fieldVars, context, byteIterator, tuples, late>>

(* ... which it notices between two calls and before every byte.           *)
Cancelled ==
    /\ halt = "cancel" /\ d0pc \in {"idle", "top"}
    /\ d0pc' = "ended"
    /\ UNCHANGED <<portVars, fieldVars, context, byteIterator, tuples, late>>

(* The timeout is checked before every byte.                               *)
CheckTimeout ==
    /\ d0pc = "top" /\ halt # "cancel"
    /\ d0pc' = IF late THEN "idle" ELSE "byte"
    /\ UNCHANGED <<portVars, fieldVars, context, byteIterator, tuples, late>>

(* A serial device has nothing after 5 s, a socket at the end of file only.*)
NoByte ==
    /\ d0pc = "byte" /\ d0pc' = "top"
    /\ UNCHANGED <<portVars, fieldVars, context, byteIterator, tuples, late>>

ReadError ==
    /\ d0pc = "byte" /\ d0pc' = "idle"
    /\ UNCHANGED <<portVars, fieldVars, context, byteIterator, tuples, late>>

-----------------------------------------------------------------------------
(* A byte has been read.  Ahead of the contexts, "/" where a field begins  *)
(* and "?" and "!" anywhere change the context.                            *)

Context(b) ==
    IF b = "slash" /\ byteIterator = 0 THEN "VENDOR"
    ELSE IF b \in {"quest", "bang"} THEN "END" ELSE context

Iterator(b) == IF b \in {"quest", "bang"} /\ context # "END" THEN 0 ELSE byteIterator

(* Mutant: every byte counts as progress. *)
TakeMutant(b) ==
    /\ d0pc = "byte" /\ Sent(b)
    /\ late' = FALSE

(* A byte resets the timeout unless it comes ahead of a telegram.          *)
Take(b) ==
    /\ d0pc = "byte" /\ Sent(b)
    /\ late' = IF context # "START" THEN FALSE ELSE late

Go(c, i) == d0pc' = "top" /\ context' = c /\ byteIterator' = i

(* Mutant: one byte too many. *)
StoreMutant(c, i, len) == Go(c, IF i <= len THEN i + 1 ELSE i)

(* A byte more in the field's buffer, or too much data.                    *)
Store(c, i, len) == Go(c, IF i < len THEN i + 1 ELSE i)

InStart(b) ==
    /\ Take(b) /\ Context(b) = "START"
    /\ Go("START", byteIterator)
    /\ UNCHANGED <<portVars, fieldVars, tuples>>

(* Three letters; a line end or another "/" begins again.                  *)
InVendor(b) ==
    /\ Take(b) /\ Context(b) = "VENDOR"
    /\ \/ b \in {"slash", "nl"} /\ Go("VENDOR", 0) /\ tuples' = 0
       \/ /\ b = "alpha"
          /\ IF byteIterator + 1 >= VendorLen THEN Go("BAUDRATE", 0) ELSE Go("VENDOR", byteIterator + 1)
          /\ UNCHANGED tuples
       \/ b \notin {"slash", "nl", "alpha"} /\ d0pc' = "idle" /\ UNCHANGED <<context, byteIterator, tuples>>
    /\ UNCHANGED <<portVars, fieldVars>>

InBaudrate(b) ==
    /\ Take(b) /\ Context(b) = "BAUDRATE"
    /\ baudrate' = IF b = "five" THEN "B9600" ELSE "B300"
    /\ Go("IDENTIFICATION", 0)
    /\ UNCHANGED <<portVars, obisFirst, hasValue, tuples>>

InIdentification(b) ==
    /\ Take(b) /\ Context(b) = "IDENTIFICATION"
    /\ \/ b = "nl" /\ Go("ACK", 0)
       \/ b \in {"stx", "bin"} /\ Go("IDENTIFICATION", byteIterator)
       \/ b \notin {"nl", "stx", "bin"} /\ Store("IDENTIFICATION", byteIterator, IdLen)
    /\ UNCHANGED <<portVars, fieldVars, tuples>>

(* Mutant: the speed computed is not kept for the next call. *)
AcknowledgeMutant ==
    LET ask == IF ackSpeed = "none" THEN baudrate ELSE ackSpeed
        new == IF ackSpeed = "none" THEN baudrate ELSE readSpeed
    IN /\ ackSpeed' = ask /\ told' = ask
       /\ port' = IF new # d0conf.connect THEN new ELSE port
       /\ UNCHANGED readSpeed

(* The acknowledgement is made once, and its speed kept with it; it goes   *)
(* out with the old speed, then the port changes.  (Asked for speed 0, the *)
(* code sets 300 where termios wants B300: the port keeps its speed.)      *)
Acknowledge ==
    LET ask == IF ackSpeed = "none" THEN baudrate ELSE ackSpeed
        new == IF ackSpeed = "none" THEN baudrate ELSE readSpeed
    IN /\ ackSpeed' = ask /\ told' = ask /\ readSpeed' = new
       /\ port' = IF new # d0conf.connect /\ ~(ask = "B300" /\ d0conf.ack = "auto") THEN new ELSE port

InAck(b) ==
    /\ Take(b) /\ Context(b) = "ACK"
    /\ IF d0conf.ack # "none" THEN Acknowledge
       ELSE UNCHANGED <<ackSpeed, told, readSpeed, port>>
    /\ Go("OBIS_CODE", byteIterator) /\ baudrate' = "none"
    /\ UNCHANGED <<d0conf, syncEnd, skipped, halt, obisFirst, hasValue, tuples>>

InObisCode(b) ==
    /\ Take(b) /\ Context(b) = "OBIS_CODE"
    /\ \/ b \in {"nl", "stx"} /\ Go("OBIS_CODE", byteIterator) /\ UNCHANGED obisFirst
       \/ /\ b = "open" /\ Go("VALUE", 0)
          /\ obisFirst' = IF byteIterator = 0 THEN "none" ELSE obisFirst
       \/ /\ b \notin {"nl", "stx", "open"} /\ Store("OBIS_CODE", byteIterator, ObisLen)
          /\ obisFirst' = IF byteIterator > 0 THEN obisFirst
                          ELSE IF b \in {"zero", "five"} THEN "valid" ELSE "invalid"
    /\ UNCHANGED <<portVars, baudrate, hasValue, tuples>>

(* The line is complete: its reading is stored when there is room and the  *)
(* code and the value make sense (the code's parser may refuse it).  The   *)
(* buffers are not read again before they are filled.                      *)
EndLine(value) ==
    /\ Go("OBIS_CODE", 0)
    /\ \/ /\ tuples < MaxReadings /\ obisFirst = "valid" /\ value
          /\ tuples' = tuples + 1
       \/ UNCHANGED tuples
    /\ obisFirst' = "none" /\ hasValue' = FALSE

InValue(b) ==
    /\ Take(b) /\ Context(b) = "VALUE"
    /\ \/ b = "close" /\ EndLine(byteIterator > 0)
       \/ /\ b = "star" /\ Go("UNIT", 0)
          /\ hasValue' = (byteIterator > 0)
          /\ UNCHANGED <<tuples, obisFirst>>
       \/ /\ b \notin {"close", "star"} /\ Store("VALUE", byteIterator, ValueLen)
          /\ UNCHANGED <<hasValue, tuples, obisFirst>>
    /\ UNCHANGED <<portVars, baudrate>>

InUnit(b) ==
    /\ Take(b) /\ Context(b) = "UNIT"
    /\ \/ b = "close" /\ EndLine(hasValue)
       \/ b # "close" /\ Store("UNIT", byteIterator, UnitLen) /\ UNCHANGED <<tuples, obisFirst, hasValue>>
    /\ UNCHANGED <<portVars, baudrate>>

(* "!" ends the call, "?!" is an echo of the pull sequence (byte_iterator  *)
(* is above 0 after a "?" only); STX begins the data, "/" a telegram; the  *)
(* rest is skipped, as long as it comes.                                   *)
InEnd(b) ==
    /\ Take(b) /\ Context(b) = "END"
    /\ LET i == Iterator(b) IN
       \/ b = "bang" /\ i = 0 /\ d0pc' = "idle" /\ context' = "END" /\ byteIterator' = 0
       \/ b = "bang" /\ i > 0 /\ Go("VENDOR", 0)
       \/ b = "quest" /\ Go("END", 1)
       \/ b = "stx" /\ Go("OBIS_CODE", 0)
       \/ b = "slash" /\ Go("VENDOR", 0)
       \/ b \notin {"bang", "quest", "stx", "slash"} /\ Go("END", 0)
    /\ obisFirst' = "none" /\ hasValue' = FALSE
    /\ UNCHANGED <<portVars, baudrate, tuples>>

Parse(b) ==
    \/ InStart(b) \/ InVendor(b) \/ InBaudrate(b) \/ InIdentification(b) \/ InAck(b)
    \/ InObisCode(b) \/ InValue(b) \/ InUnit(b) \/ InEnd(b)

D0Next ==
    \/ D0Open \/ D0Read \/ Halt \/ Cancelled \/ TimePasses
    \/ SyncNothing \/ CheckTimeout \/ NoByte \/ ReadError
    \/ \E b \in Bytes : SkipByte(b) \/ Parse(b)

(* The clock runs up to the timeout where no byte resets it, and read(2)   *)
(* on a serial device returns after 5 s.                                   *)
D0Fairness ==
    /\ WF_d0vars(TimePasses /\ (context = "START" \/ halt = "silent"))
    /\ WF_d0vars((CheckTimeout \/ Cancelled))
    /\ WF_d0vars(d0conf.tty /\ (NoByte \/ ReadError \/ \E b \in Bytes : Parse(b)))
    /\ WF_d0vars(d0conf.tty /\ (SyncNothing \/ \E b \in Bytes : SkipByte(b)))

D0Spec == D0Init /\ [][D0Next]_d0vars

-----------------------------------------------------------------------------
(* Properties. *)

Length(c) ==
    CASE c = "VENDOR" -> VendorLen - 1
      [] c = "IDENTIFICATION" -> IdLen
      [] c = "OBIS_CODE" -> ObisLen
      [] c = "VALUE" -> ValueLen
      [] c = "UNIT" -> UnitLen
      [] c = "END" -> 1
      [] OTHER -> 0

(* Whatever bytes come, byte_iterator is inside the buffer of its context, *)
(* the terminating zero included, and no more readings are stored than the *)
(* caller has room for.                                                    *)
D0Bounds == byteIterator \in 0 .. Length(context) /\ tuples \in 0 .. MaxReadings

(* After the acknowledgement the serial port has the speed the meter was   *)
(* asked for, in the first call and in every later one.  Left out: an      *)
(* automatic acknowledgement of speed 0, for which the code sets 300 where *)
(* termios wants B300, on a port that was opened with another speed.       *)
SpeedRefused == d0conf.ack = "auto" /\ told = "B300" /\ d0conf.connect # "B300"

AckSpeed ==
    d0conf.tty /\ told # "none" /\ context \in {"OBIS_CODE", "VALUE", "UNIT"}
        => port = told \/ SpeedRefused

(* A call on a serial device returns by its timeout when the line falls    *)
(* silent, wherever in a telegram, and when only noise comes before a      *)
(* telegram has begun, which does not reset the timeout; at shutdown it    *)
(* ends whatever the meter sends.  Noise in any other context may keep the *)
(* call for ever: each byte there starts the timeout again.                *)
ReadReturns ==
    /\ (halt = "silent" /\ d0conf.tty /\ d0pc # "closed") ~> (d0pc \in {"idle", "failed"})
    /\ (halt = "noise" /\ context = "START" /\ d0conf.tty /\ d0pc # "closed")
         ~> (d0pc \in {"idle", "failed"})
    /\ (halt = "cancel" /\ d0conf.tty /\ d0pc # "closed") ~> (d0pc \in {"ended", "failed"})

=============================================================================
