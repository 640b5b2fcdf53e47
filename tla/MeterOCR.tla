------------------------------ MODULE MeterOCR ------------------------------
(***************************************************************************)
(* The meter that reads the dials of another one from pictures.  Two       *)
(* needles show the hundredths and the tenths of a turn; or a light        *)
(* flashes.  What the scan of a picture finds is an input: the angle of    *)
(* every needle, a bit off, or nothing.  Angles are in tenths of a digit,  *)
(* values in hundredths of a turn.                                         *)
(***************************************************************************)
EXTENDS Integers

CONSTANTS
    OcrConfigs,     \* the options to consider
    Moves,          \* what the dial may turn between two pictures, less than half a turn
    Errors,         \* how much the scan of a needle may be off
    HalfNeedle,     \* half the width of a needle
    TurnBounds,     \* bounds: how far the dial turns back and forth
    NoReads,        \* _last_reads is 0
    NotANumber      \* the value of a picture without a needle, in _last_reads

(* v4l2_dev; the recognizer; impulses: 0, or 100 a turn and 1 a flash.     *)
OcrConfig == [v4l2 : BOOLEAN, needle : BOOLEAN, impulses : BOOLEAN]

ASSUME OcrAssumption ==
    /\ OcrConfigs \subseteq OcrConfig
    /\ Moves \subseteq -450..450 /\ Errors \subseteq -3..3 /\ HalfNeedle \in 0..10
    /\ TurnBounds \in Int \X Int /\ {NoReads, NotANumber} \cap 0..100 = {}

VARIABLES
    ocrconf,    \* the options
    ocrpc,      \* open, read and close
    skipFrames, \* _v4l2_skip_frames
    skip,       \* frames still to skip
    queued,     \* capture buffers the driver has
    written,    \* an event waits at _notify_fd
    forced,     \* _forced_file_changed
    turn,       \* where the dial really is, from its first picture on
    light,      \* how bright the box is
    lastState,  \* _last_state of the light
    lastReads,  \* the value in _last_reads
    seen,       \* history: where the dial was in the last picture
    total,      \* history: the first value and the impulses since
    sawDark     \* history: the light was off since the last impulse

ocrvars == <<ocrconf, ocrpc, skipFrames, skip, queued, written, forced, turn, light, lastState,
             lastReads, seen, total, sawDark>>

inputVars == <<turn, light>>
readsVars == <<lastState, lastReads, seen, total, sawDark>>

Buffers == 2
MaxSkip == 1        \* bound: the camera is twice as fast as asked for

OcrInit ==
    /\ ocrconf \in OcrConfigs
    /\ ocrpc = "closed" /\ skipFrames = 0 /\ skip = 0 /\ queued = 0 /\ written = FALSE /\ forced = TRUE
    /\ turn = 0 /\ light = "dark" /\ lastState = FALSE
    /\ lastReads = NoReads /\ seen = 0
    /\ total = 0 /\ sawDark = TRUE

-----------------------------------------------------------------------------
(* open and close *)

Capabilities == {"capture", "streaming", "time per frame", "yuyv"}
Settings == {"frame rate", "format", "two buffers", "stream"}

CheckCapV4L2Dev(device) == Capabilities \subseteq device

(* Of a camera that is faster than asked for some frames are skipped.      *)
InitV4L2Dev(device) ==
    /\ Settings \subseteq device
    /\ queued' = Buffers
    /\ skipFrames' \in 0..MaxSkip

(* The file can be opened; or the camera has and grants what is needed.    *)
OcrOpen ==
    /\ ocrpc = "closed"
    /\ \E device \in SUBSET (Capabilities \cup Settings) :
         IF ocrconf.v4l2 /\ CheckCapV4L2Dev(device) /\ Settings \subseteq device
         THEN ocrpc' = "idle" /\ InitV4L2Dev(device)
         ELSE /\ ocrpc' \in (IF ocrconf.v4l2 THEN {"failed"} ELSE {"idle", "failed"})
              /\ UNCHANGED <<queued, skipFrames>>
    /\ UNCHANGED <<ocrconf, skip, written, forced, inputVars, readsVars>>

OcrClose ==
    /\ ocrpc = "idle"
    /\ ocrpc' = "ended" /\ queued' = 0
    /\ UNCHANGED <<ocrconf, skipFrames, skip, written, forced, inputVars, readsVars>>

(* Between two pictures the dial turns, or the light changes; what writes  *)
(* the file causes an event.                                               *)
OcrInput ==
    /\ ocrpc = "idle" /\ ~written
    /\ written' = ~ocrconf.v4l2
    /\ IF ocrconf.needle THEN /\ turn = seen
                              /\ turn' \in {turn + m : m \in Moves} \cap TurnBounds[1]..TurnBounds[2]
                              /\ UNCHANGED light
       ELSE light' \in {"dark", "dim", "bright"} /\ UNCHANGED turn
    /\ UNCHANGED <<ocrconf, skipFrames, ocrpc, skip, queued, forced, readsVars>>

-----------------------------------------------------------------------------
(* The needles *)

(* The middle of the needle, as the scan around its circle finds it: a     *)
(* needle across zero gets an angle below zero.                            *)
Found(position, error) ==
    LET p == (position + error) % 100
    IN  IF p > 100 - HalfNeedle THEN p - 100 ELSE p

(* nr and fnr; division truncates towards zero.                            *)
Digit(found) == IF found < 0 THEN 0 ELSE found \div 10
Angle(found) == IF found < 0 THEN found + 100 ELSE found

(* debounce: close to the digit seen before it stays.                      *)
Debounce(prev, fnr) ==
    LET new == fnr \div 10
        back == fnr - 10 * prev
        stays == CASE prev = 0 -> (new = 9 /\ fnr > 95) \/ (new = 1 /\ fnr < 15)
                   [] prev = 9 -> (new = 0 /\ fnr < 5) \/ (new = 8 /\ fnr >= 85)
                   [] OTHER -> (back > 0 /\ back < 15) \/ (back <= 0 /\ -back < 5)
    IN  IF stays THEN prev ELSE new

(* Mutant: the angle is not corrected by the smaller digit. *)
RoundMutant(fnr, smaller) ==
    LET nr == fnr \div 10 IN nr % 10

(* roundBasedOnSmallerDigits: `smaller` tenths of this digit have passed.  *)
Round(fnr, smaller) ==
    LET nr == IF smaller < 5 THEN (fnr + 5 - smaller) \div 10
              ELSE IF fnr < smaller - 5 THEN 9 ELSE (fnr - smaller + 5) \div 10
    IN  IF nr >= 10 THEN 0 ELSE nr

(* The needle of the hundredths is marked as the last digit; the boxes are *)
(* sorted, it comes first.                                                 *)
Needles(errors) ==
    LET small == Found(turn % 100, errors[1])
        large == Found((turn \div 10) % 100, errors[2])
        digit == IF lastReads = NoReads THEN Digit(small)
                 ELSE Debounce(IF lastReads = NotANumber THEN 0 ELSE lastReads % 10, Angle(small))
    IN  digit + 10 * Round(Angle(large), digit)

(* calcImpulses: more than half a turn is a wrap.                          *)
CalcImpulses(value, old) ==
    LET imp == value - old
    IN  IF imp > 50 THEN imp - 100 ELSE IF imp < -50 THEN imp + 100 ELSE imp

(* The unrolled value the counting starts from.                            *)
Nearest(value) == value + 100 * ((turn + 499 - 10 * value) \div 1000)

(* Without a needle in the picture the value is no number, and what was    *)
(* read before is given up.  If there was nothing before, that value is    *)
(* kept, and the next one makes no impulse of it: lrint of a NaN is cut to *)
(* 0 where a long is longer than an int.  Otherwise the change goes out as *)
(* impulses, except after the start.                                       *)
ReadNeedles ==
    /\ ocrconf.needle
    /\ seen' = turn
    /\ \/ /\ lastReads' = IF ocrconf.impulses /\ lastReads = NoReads THEN NotANumber ELSE NoReads
          /\ total' = 0
       \/ \E errors \in Errors \X Errors :
            LET value == Needles(errors)
            IN  /\ lastReads' = value
                /\ total' = IF lastReads \in {NoReads, NotANumber} THEN Nearest(value)
                            ELSE total + CalcImpulses(value, lastReads)
    /\ UNCHANGED <<lastState, sawDark>>

-----------------------------------------------------------------------------
(* The light *)

(* Mutant: the light is off as soon as it is not bright. *)
EdgeMutant == light = "bright"

(* On above _EDGE_HIGH, off below _EDGE_LOW.                               *)
Edge == light = "bright" \/ (lastState /\ light # "dark")

(* The rising edge is a reading, with impulses only if there were readings *)
(* before, even none.                                                      *)
ReadLight ==
    /\ ~ocrconf.needle
    /\ lastState' = Edge
    /\ LET rising == Edge /\ ~lastState
           impulse == rising /\ (ocrconf.impulses => lastReads # NoReads)
       IN  /\ lastReads' = IF rising THEN 1 ELSE 0
           /\ total' = IF impulse THEN 1 ELSE 0
           /\ sawDark' = ((sawDark /\ ~impulse) \/ light = "dark")
    /\ UNCHANGED seen

-----------------------------------------------------------------------------
(* read *)

(* Nothing was written since: no picture is read.                          *)
FileChanged ==
    /\ ocrpc = "idle" /\ ~ocrconf.v4l2 /\ (written \/ forced)
    /\ written' = FALSE /\ forced' = FALSE
    /\ ocrpc' \in {"recognize", "idle"}     \* or there is no picture in it
    /\ UNCHANGED <<ocrconf, skipFrames, skip, queued, inputVars, readsVars>>

CaptureFrames ==
    /\ ocrpc = "idle" /\ ocrconf.v4l2
    /\ ocrpc' = "select" /\ skip' = skipFrames + 1
    /\ UNCHANGED <<ocrconf, skipFrames, queued, written, forced, inputVars, readsVars>>

(* A frame, or a timeout or an error, after which read returns nothing.    *)
SelectFrame ==
    /\ ocrpc = "select"
    /\ \/ queued > 0 /\ ocrpc' = "dequeue"
       \/ ocrpc' = "idle"
    /\ UNCHANGED <<ocrconf, skipFrames, skip, queued, written, forced, inputVars, readsVars>>

(* A frame to skip is given back at once, the last one when it is copied.  *)
ReadV4l2Frame(enough, requeued) ==
    /\ ocrpc = "dequeue"
    /\ queued' = IF requeued THEN queued ELSE queued - 1
    /\ skip' = skip - 1
    /\ ocrpc' = IF skip > 1 THEN "select" ELSE IF requeued /\ enough THEN "recognize" ELSE "idle"

OcrFrame ==
    /\ \E enough, requeued \in BOOLEAN : ReadV4l2Frame(enough, requeued)
    /\ UNCHANGED <<ocrconf, skipFrames, written, forced, inputVars, readsVars>>

Recognize ==
    /\ ocrpc = "recognize" /\ ocrpc' = "idle"
    /\ ReadNeedles \/ ReadLight
    /\ UNCHANGED <<ocrconf, skipFrames, skip, queued, written, forced, inputVars>>

OcrNext ==
    OcrOpen \/ OcrClose \/ OcrInput \/ FileChanged \/ CaptureFrames \/ SelectFrame \/ OcrFrame
    \/ Recognize

OcrSpec == OcrInit /\ [][OcrNext]_ocrvars

-----------------------------------------------------------------------------
(* Properties. *)

(* However the dial turns back and forth, over zero too, and whatever the  *)
(* scans are off, the impulses add up to what it turned: the value is      *)
(* within two digits of the dial, and never a turn or a tenth away.        *)
(* Premise: it turns by less than half between two pictures that are read. *)
ImpulsesTrack ==
    ocrconf.needle /\ ocrconf.impulses /\ lastReads \notin {NoReads, NotANumber} =>
        10 * total - seen \in -20..20

(* A flash is counted once, however its brightness flickers: between two   *)
(* impulses the light was off.                                             *)
FlashOnce == [][~ocrconf.needle /\ ocrpc = "recognize" /\ total' = 1 => sawDark]_ocrvars

=============================================================================
