----------------------------- MODULE MeterProofs ------------------------------
(***************************************************************************)
(* The meters, for every set of options and every bound: the impulses of   *)
(* S0 and the time of its readings, the buffers of the D0 parser and the   *)
(* speed of its port, the telegrams of OMS, and the light and the needles  *)
(* of OCR.                                                                 *)
(***************************************************************************)
EXTENDS MeterS0, MeterD0, MeterOMS, MeterOCR, TLAPS

-----------------------------------------------------------------------------
(* S0: the impulses. *)

Places == {"closed", "failed", "idle", "sleep", "loadNeg", "subPos", "subNeg", "time",
           "stamp", "overflow", "overflow2", "return", "cancelled"}

Tallies == [Dirs -> Int]

S0Type ==
    /\ rdpc \in Places
    /\ imp \in Tallies /\ counted \in Tallies /\ returned \in Tallies /\ got \in Tallies

S0Inv == S0Type /\ ImpulsesConserved

(* The counter thread adds to the counter and to the count alike.          *)
LEMMA CountKeeps ==
    ASSUME S0Inv, UNCHANGED <<rdpc, got, returned>>,
           CountImpulse \/ UNCHANGED <<imp, counted>>
    PROVE  S0Inv'
<1>1. CASE UNCHANGED <<imp, counted>>
  BY <1>1 DEF S0Inv, S0Type, ImpulsesConserved, InFlight
<1>2. ASSUME NEW d \in Dirs, Count(d)
      PROVE  S0Inv'
  <2>1. /\ imp' = [imp EXCEPT ![d] = @ + 1]
        /\ counted' = [counted EXCEPT ![d] = @ + 1]
    BY <1>2 DEF Count
  <2>2. S0Type'
    BY <2>1 DEF S0Inv, S0Type, Tallies
  <2>3. \A e \in Dirs : InFlight(e)' = InFlight(e)
    BY DEF InFlight
  <2>4. ASSUME NEW e \in Dirs
        PROVE  counted'[e] = imp'[e] + InFlight(e) + returned[e]
    <3>1. /\ InFlight(e) \in Int
          /\ counted[e] \in Int /\ imp[e] \in Int /\ returned[e] \in Int
          /\ counted[e] = imp[e] + InFlight(e) + returned[e]
      BY DEF S0Inv, S0Type, Tallies, ImpulsesConserved, InFlight
    <3>2. /\ imp'[e] = IF e = d THEN imp[e] + 1 ELSE imp[e]
          /\ counted'[e] = IF e = d THEN counted[e] + 1 ELSE counted[e]
      BY <2>1 DEF S0Inv, S0Type, Tallies
    <3> QED BY <3>1, <3>2
  <2> QED BY <2>2, <2>3, <2>4 DEF S0Inv, ImpulsesConserved
<1>3. CASE CountImpulse
  BY <1>2, <1>3 DEF CountImpulse, Dirs
<1> QED BY <1>1, <1>3

(* A step of read that leaves the tallies alone and moves between places   *)
(* where the same impulses are on their way.                               *)
LEMMA MoveKeeps ==
    ASSUME S0Inv, UNCHANGED <<imp, counted, returned>>, rdpc' \in Places, got' \in Tallies,
           \A d \in Dirs : InFlight(d)' = InFlight(d)
    PROVE  S0Inv'
  BY DEF S0Inv, S0Type, ImpulsesConserved

(* What is taken from the counter is on its way from then on.              *)
LEMMA SubtractKeeps ==
    ASSUME S0Inv,
           \/ Subtract("pos", "subPos", "subNeg")
           \/ Subtract("neg", "subNeg", "time")
    PROVE  S0Inv'
<1> USE DEF S0Inv, S0Type, Tallies, ReadVars
<1>1. ASSUME NEW d \in Dirs, NEW from, NEW to \in Places, Subtract(d, from, to),
             InFlight(d) = 0,
             \A e \in Dirs : InFlight(e)' = IF e = d THEN got[d] ELSE InFlight(e)
      PROVE  S0Inv'
  <2>1. /\ imp' = [imp EXCEPT ![d] = @ - got[d]] /\ rdpc' = to
        /\ UNCHANGED <<counted, returned, got>>
    BY <1>1 DEF Subtract
  <2>2. S0Type'
    BY <2>1
  <2>3. ASSUME NEW e \in Dirs
        PROVE  counted[e] = imp'[e] + InFlight(e)' + returned[e]
    <3>1. /\ InFlight(e) \in Int
          /\ counted[e] \in Int /\ imp[e] \in Int /\ returned[e] \in Int /\ got[e] \in Int
          /\ counted[e] = imp[e] + InFlight(e) + returned[e]
      BY DEF ImpulsesConserved, InFlight
    <3>2. imp'[e] = IF e = d THEN imp[e] - got[e] ELSE imp[e]
      BY <2>1
    <3>3. InFlight(e)' = IF e = d THEN got[e] ELSE InFlight(e)
      BY <1>1
    <3> QED BY <3>1, <3>2, <3>3, <1>1
  <2> QED BY <2>1, <2>2, <2>3 DEF ImpulsesConserved
<1>2. CASE Subtract("pos", "subPos", "subNeg")
  <2>1. rdpc = "subPos" /\ rdpc' = "subNeg" /\ got' = got
    BY <1>2 DEF Subtract
  <2>2. /\ InFlight("pos") = 0
        /\ \A e \in Dirs : InFlight(e)' = IF e = "pos" THEN got["pos"] ELSE InFlight(e)
    BY <2>1 DEF InFlight, Dirs
  <2> QED BY <1>1, <1>2, <2>2 DEF Dirs, Places
<1>3. CASE Subtract("neg", "subNeg", "time")
  <2>1. rdpc = "subNeg" /\ rdpc' = "time" /\ got' = got
    BY <1>3 DEF Subtract
  <2>2. /\ InFlight("neg") = 0
        /\ \A e \in Dirs : InFlight(e)' = IF e = "neg" THEN got["neg"] ELSE InFlight(e)
    BY <2>1 DEF InFlight, Dirs
  <2> QED BY <1>1, <1>3, <2>2 DEF Dirs, Places
<1> QED BY <1>2, <1>3

(* The readings carry what was on its way.                                 *)
LEMMA ReturnKeeps ==
    ASSUME S0Inv, Return
    PROVE  S0Inv'
<1> USE DEF S0Inv, S0Type, Tallies, ReadVars
<1>1. /\ rdpc = "return" /\ rdpc' = "idle" /\ got' = NoImpulses
      /\ returned' = [d \in Dirs |-> returned[d] + got[d]]
      /\ UNCHANGED <<imp, counted>>
  BY DEF Return
<1>2. S0Type'
  BY <1>1 DEF Places, NoImpulses
<1>3. ASSUME NEW d \in Dirs
      PROVE  counted[d] = imp[d] + InFlight(d)' + returned'[d]
  <2>1. /\ counted[d] \in Int /\ imp[d] \in Int /\ returned[d] \in Int /\ got[d] \in Int
        /\ counted[d] = imp[d] + got[d] + returned[d]
    BY <1>1 DEF ImpulsesConserved, InFlight
  <2>2. InFlight(d)' = 0 /\ returned'[d] = returned[d] + got[d]
    BY <1>1 DEF InFlight
  <2> QED BY <2>1, <2>2
<1> QED BY <1>1, <1>2, <1>3 DEF ImpulsesConserved

LEMMA S0InitInv == S0Init => S0Inv
  BY DEF S0Init, S0Inv, S0Type, Places, Tallies, NoImpulses, ImpulsesConserved, InFlight

LEMMA S0Inductive ==
    ASSUME S0Inv, [S0Next]_s0vars
    PROVE  S0Inv'
<1> USE DEF S0Inv, S0Type
<1>1. CASE UNCHANGED s0vars
  BY <1>1 DEF s0vars, ImpulsesConserved, InFlight
<1>2. CASE S0Open
  BY <1>2, MoveKeeps DEF S0Open, Places, InFlight
<1>3. CASE S0Tick
  BY <1>3, CountKeeps DEF S0Tick
<1>4. CASE Counter
  <2>1. UNCHANGED <<rdpc, got, returned>> /\ (CountImpulse \/ UNCHANGED <<imp, counted>>)
    BY <1>4 DEF Counter, CounterVars, CounterStart, CounterStop, WaitForImpulse, StampImpulse,
                CheckStatus, Poll
  <2> QED BY <2>1, CountKeeps
<1>5. CASE S0Read \/ LoadPos \/ LoadNeg
  <2>1. /\ UNCHANGED <<imp, counted, returned>>
        /\ rdpc \in {"idle", "sleep", "loadNeg"}
        /\ rdpc' \in {"sleep", "loadNeg", "subPos"} \/ (rdpc' = "time" /\ got' = NoImpulses)
    BY <1>5 DEF S0Read, LoadPos, LoadNeg, ReadVars
  <2>2. got' \in Tallies
    BY <1>5 DEF S0Read, LoadPos, LoadNeg, Tallies
  <2>3. \A d \in Dirs : InFlight(d)' = 0 /\ InFlight(d) = 0
    BY <2>1 DEF InFlight, NoImpulses
  <2> QED BY <2>1, <2>2, <2>3, MoveKeeps DEF Places
<1>6. CASE Subtract("pos", "subPos", "subNeg") \/ Subtract("neg", "subNeg", "time")
  BY <1>6, SubtractKeeps
<1>7. CASE TakeTime \/ TakeStamp \/ MoveRef \/ MoveMs
  <2>1. /\ UNCHANGED <<imp, counted, returned, got>>
        /\ rdpc \in {"time", "stamp", "overflow", "overflow2"}
        /\ rdpc' \in {"stamp", "return", "overflow", "overflow2"}
    BY <1>7 DEF TakeTime, TakeStamp, MoveRef, MoveMs, ReadVars
  <2>2. \A d \in Dirs : InFlight(d)' = got[d] /\ InFlight(d) = got[d]
    BY <2>1 DEF InFlight
  <2> QED BY <2>1, <2>2, MoveKeeps DEF Places
<1>8. CASE Return
  BY <1>8, ReturnKeeps
<1>9. CASE S0Cancel \/ S0Close
  BY <1>9, MoveKeeps DEF S0Cancel, S0Close, ReadVars, Places, InFlight
<1> QED BY <1>1, <1>2, <1>3, <1>4, <1>5, <1>6, <1>7, <1>8, <1>9 DEF S0Next, Collect

(* However the counter thread (MeterS0::counter_thread) interleaves with   *)
(* MeterS0::read, which loads the two counters one after the other and     *)
(* subtracts later what it has loaded, no impulse is lost or returned      *)
(* twice.                                                                  *)
THEOREM ImpulsesAreConserved == S0Spec => []ImpulsesConserved
<1>1. S0Spec => []S0Inv
  BY S0InitInv, S0Inductive, PTL DEF S0Spec
<1>2. S0Inv => ImpulsesConserved
  BY DEF S0Inv
<1> QED BY <1>1, <1>2, PTL

-----------------------------------------------------------------------------
(* S0: the time of the readings. *)

(* The time of the last impulse, to which check_ref_for_overflow has added *)
(* the limit already between its two steps.                                *)
LastStamp == IF rdpc = "overflow2" THEN ref + ms - RefLimit ELSE ref + ms

(* Neither of the two cases in which the time may go back.                 *)
Orderly == ~raced /\ ~s0conf.sendZero

Stamping == {"stamp", "overflow", "overflow2"}

TimeType ==
    /\ now \in Int /\ ref \in Int /\ ms \in Int
    /\ req \in Int /\ lastRead \in Int /\ lastImp \in Int

Placed ==
    /\ cpc = "off" => ms = 0 /\ rdpc \in {"closed", "failed"}
    /\ rdpc \in {"subPos", "subNeg", "time"} => ~IsZero \/ s0conf.sendZero
    /\ ~s0conf.blocking => rdpc \notin Stamping

Polled ==
    ~s0conf.blocking => lastImp <= now /\ (rdpc = "return" => lastImp <= req /\ req <= now)

Stamped ==
    s0conf.blocking /\ Orderly =>
        /\ lastImp <= LastStamp /\ LastStamp <= now
        /\ rdpc \in {"overflow", "overflow2", "return"} => lastImp <= req /\ req <= LastStamp

TimeInv == TimeType /\ Placed /\ Polled /\ Stamped

LEMMA TimeInit == S0Init => TimeInv
  BY DEF S0Init, TimeInv, TimeType, Placed, Polled, Stamped, LastStamp, Stamping, IsZero

(* The steps that leave the time alone, or only let it pass.               *)
LEMMA TimeAlone ==
    ASSUME TimeInv, UNCHANGED <<s0conf, ref, ms, lastImp, raced>>, now <= now', now' \in Int,
           lastRead' \in Int, req' \in Int, Placed', LastStamp' = LastStamp,
           rdpc' \in {"overflow", "overflow2", "return"} => rdpc' = rdpc /\ req' = req
    PROVE  TimeInv'
<1> USE DEF TimeInv, TimeType
<1>1. TimeType' /\ LastStamp \in Int
  BY S0Assumption DEF LastStamp
<1>2. Polled'
  BY DEF Polled
<1>3. Stamped'
  BY <1>1 DEF Stamped, Orderly
<1> QED BY <1>1, <1>2, <1>3

LEMMA StampKeepsTime ==
    ASSUME TimeInv, StampImpulse
    PROVE  TimeInv'
<1> USE DEF TimeInv, TimeType
<1>1. /\ UNCHANGED <<s0conf, now, ref, rdpc, req, got, lastRead, lastImp>>
      /\ cpc = "stamp" /\ cpc' = "status" /\ ms' = now - ref /\ raced' = (raced \/ rdpc = "overflow2")
  BY DEF StampImpulse, CounterVars
<1>2. TimeType'
  BY <1>1
<1>3. Placed' /\ Polled'
  BY <1>1 DEF Placed, Polled, Stamping, IsZero
<1>4. Stamped'
  <2>1. CASE raced \/ rdpc = "overflow2"
    BY <1>1, <2>1 DEF Stamped, Orderly
  <2>2. CASE ~raced /\ rdpc # "overflow2"
    <3>1. LastStamp' = now
      BY <1>1, <2>2 DEF LastStamp
    <3>2. s0conf.blocking /\ Orderly' =>
            lastImp <= LastStamp /\ LastStamp <= now /\ (rdpc = "return" \/ rdpc = "overflow" => req <= LastStamp /\ lastImp <= req)
      BY <1>1, <2>2 DEF Stamped, Orderly
    <3>3. LastStamp \in Int
      BY S0Assumption DEF LastStamp
    <3> QED BY <1>1, <2>2, <3>1, <3>2, <3>3 DEF Stamped
  <2> QED BY <2>1, <2>2
<1> QED BY <1>2, <1>3, <1>4

LEMMA CollectKeepsTime ==
    ASSUME TimeInv, TakeTime \/ TakeStamp \/ MoveRef \/ MoveMs \/ Return
    PROVE  TimeInv'
<1> USE DEF TimeInv, TimeType
<1>0. RefLimit \in Int
  BY S0Assumption
<1>1. UNCHANGED <<s0conf, now, cpc, raced>>
  BY DEF TakeTime, TakeStamp, MoveRef, MoveMs, Return, ReadVars
<1>2. CASE TakeTime
  <2>1. /\ UNCHANGED <<got, ms, lastRead, lastImp>>
        /\ rdpc = "time" /\ req' = now
        /\ IF s0conf.blocking THEN rdpc' = "stamp" ELSE rdpc' = "return"
        /\ ref' \in Int /\ (~s0conf.sendZero => ref' = ref)
    BY <1>2 DEF TakeTime, Placed
  <2>2. TimeType' /\ Placed'
    BY <1>1, <2>1 DEF Placed, Stamping
  <2>3. Polled'
    BY <1>1, <2>1 DEF Polled
  <2>4. Stamped'
    BY <1>1, <2>1 DEF Stamped, Orderly, LastStamp
  <2> QED BY <2>2, <2>3, <2>4
<1>3. CASE TakeStamp
  <2>1. /\ UNCHANGED <<got, ref, ms, lastImp>> /\ lastRead' = req /\ req' = ref + ms
        /\ rdpc = "stamp" /\ rdpc' \in {"overflow", "return"}
    BY <1>3 DEF TakeStamp
  <2>2. TimeType' /\ Placed' /\ Polled'
    BY <1>1, <2>1 DEF Placed, Polled, Stamping
  <2>3. Stamped'
    BY <1>1, <2>1 DEF Stamped, Orderly, LastStamp
  <2> QED BY <2>2, <2>3
<1>4. CASE MoveRef \/ MoveMs
  <2>1. LastStamp' = LastStamp /\ ref' \in Int /\ ms' \in Int
    BY <1>0, <1>4 DEF MoveRef, MoveMs, LastStamp
  <2>2. /\ UNCHANGED <<got, req, lastRead, lastImp>>
        /\ rdpc \in {"overflow", "overflow2"} /\ rdpc' \in {"overflow2", "return"}
    BY <1>4 DEF MoveRef, MoveMs
  <2>3. s0conf.blocking /\ cpc # "off"
    BY <2>2 DEF Placed, Stamping
  <2>4. TimeType' /\ Placed' /\ Polled'
    BY <1>1, <2>1, <2>2, <2>3 DEF Placed, Polled
  <2>5. Stamped'
    BY <1>1, <2>1, <2>2 DEF Stamped, Orderly
  <2> QED BY <2>4, <2>5
<1>5. CASE Return
  <2>1. /\ UNCHANGED <<ref, ms, req>> /\ rdpc = "return" /\ rdpc' = "idle" /\ lastImp' = req
        /\ lastRead' \in {lastRead, req}
    BY <1>5 DEF Return
  <2>2. TimeType' /\ Placed' /\ Polled'
    BY <1>1, <2>1 DEF Placed, Polled, Stamping
  <2>3. Stamped'
    BY <1>1, <2>1 DEF Stamped, Orderly, LastStamp
  <2> QED BY <2>2, <2>3
<1> QED BY <1>2, <1>3, <1>4, <1>5

LEMMA TimeInductive ==
    ASSUME TimeInv, [S0Next]_s0vars
    PROVE  TimeInv'
<1>0. TimeType /\ Placed
  BY DEF TimeInv
<1>1. CASE S0Open
  <2>1. /\ rdpc = "closed" /\ cpc = "off" /\ UNCHANGED <<s0conf, now, ms, req, got, raced>>
        /\ \/ rdpc' = "idle" /\ cpc' = "start" /\ lastRead' = now /\ lastImp' = now /\ ref' = now
           \/ rdpc' = "failed" /\ UNCHANGED <<cpc, lastRead, lastImp, ref>>
    BY <1>1 DEF S0Open
  <2>2. ms = 0
    BY <1>0, <2>1 DEF Placed
  <2>3. TimeType' /\ Placed'
    BY <1>0, <2>1 DEF TimeType, Placed, Stamping
  <2>4. Polled' /\ Stamped'
    BY <1>0, <2>1, <2>2 DEF TimeInv, TimeType, Polled, Stamped, LastStamp, Orderly
  <2> QED BY <2>3, <2>4 DEF TimeInv
<1>2. CASE S0Tick
  <2>1. /\ UNCHANGED <<s0conf, cpc, rdpc, ref, ms, req, got, lastRead, lastImp, raced>> /\ now' = now + 1
    BY <1>2 DEF S0Tick
  <2>2. Placed' /\ LastStamp' = LastStamp
    BY <1>0, <2>1 DEF Placed, LastStamp, IsZero
  <2> QED BY <1>0, <2>1, <2>2, TimeAlone DEF TimeType
<1>3. CASE CounterStart \/ CounterStop \/ WaitForImpulse \/ CheckStatus \/ Poll
  <2>1. UNCHANGED <<s0conf, now, rdpc, ref, ms, req, got, lastRead, lastImp, raced>> /\ cpc' # "off"
    BY <1>3 DEF CounterStart, CounterStop, WaitForImpulse, CheckStatus, Poll, CounterVars
  <2>2. Placed' /\ LastStamp' = LastStamp
    BY <1>0, <2>1 DEF Placed, LastStamp, IsZero
  <2> QED BY <1>0, <2>1, <2>2, TimeAlone DEF TimeType
<1>4. CASE S0Read \/ LoadPos \/ LoadNeg
  <2>1. /\ UNCHANGED <<s0conf, now, cpc, ref, ms, lastRead, lastImp, raced>>
        /\ rdpc \in {"idle", "sleep", "loadNeg"} /\ rdpc' \in {"sleep", "loadNeg", "subPos", "time"}
        /\ req' \in {req, req + 1, lastRead + 1}
        /\ rdpc' \in {"subPos", "time"} => ~IsZero' \/ s0conf.sendZero
    BY <1>4 DEF S0Read, LoadPos, LoadNeg, ReadVars, IsZero
  <2>2. Placed'
    BY <1>0, <2>1 DEF Placed, Stamping
  <2>3. LastStamp' = LastStamp /\ req' \in Int
    BY <1>0, <2>1 DEF LastStamp, TimeType
  <2> QED BY <1>0, <2>1, <2>2, <2>3, TimeAlone DEF TimeType
<1>5. CASE Subtract("pos", "subPos", "subNeg") \/ Subtract("neg", "subNeg", "time")
  <2>1. /\ UNCHANGED <<s0conf, now, cpc, ref, ms, req, got, lastRead, lastImp, raced>>
        /\ rdpc \in {"subPos", "subNeg"} /\ rdpc' \in {"subNeg", "time"}
    BY <1>5 DEF Subtract, ReadVars
  <2>2. Placed' /\ LastStamp' = LastStamp
    BY <1>0, <2>1 DEF Placed, LastStamp, IsZero, Stamping
  <2> QED BY <1>0, <2>1, <2>2, TimeAlone DEF TimeType
<1>6. CASE S0Cancel \/ S0Close
  <2>1. /\ UNCHANGED <<s0conf, now, cpc, ref, ms, req, got, lastRead, lastImp, raced>>
        /\ rdpc \in {"idle", "sleep", "cancelled"} /\ rdpc' \in {"cancelled", "closed"}
    BY <1>6 DEF S0Cancel, S0Close, ReadVars
  <2>2. Placed' /\ LastStamp' = LastStamp
    BY <1>0, <2>1 DEF Placed, LastStamp, IsZero, Stamping
  <2> QED BY <1>0, <2>1, <2>2, TimeAlone DEF TimeType
<1>7. CASE UNCHANGED s0vars
  BY <1>7 DEF s0vars, TimeInv, TimeType, Placed, Polled, Stamped, LastStamp, Orderly, IsZero
<1> QED BY <1>1, <1>2, <1>3, <1>4, <1>5, <1>6, <1>7, StampKeepsTime, CollectKeepsTime
        DEF S0Next, Counter, Collect

(* The readings of MeterS0::read carry times that do not go back, although *)
(* counter_thread stamps impulses at any time and check_ref_for_overflow   *)
(* moves the reference in two steps: outside the two cases named, the last *)
(* impulse that was stamped is never before the one returned last.         *)
THEOREM ReadingsMoveForward == S0Spec => TimeForward
<1>1. S0Spec => []TimeInv
  BY TimeInit, TimeInductive, PTL DEF S0Spec
<1>2. TimeInv => (rdpc = "return" /\ ~raced /\ ~s0conf.sendZero => req >= lastImp)
  <2> SUFFICES ASSUME TimeInv, rdpc = "return", ~raced, ~s0conf.sendZero
               PROVE  req >= lastImp
    OBVIOUS
  <2>1. lastImp <= req
    BY DEF TimeInv, Polled, Stamped, Orderly
  <2> QED BY <2>1 DEF TimeInv, TimeType
<1> QED BY <1>1, <1>2, PTL DEF TimeForward

-----------------------------------------------------------------------------
(* D0: the buffers. *)

Fields == {"START", "VENDOR", "BAUDRATE", "IDENTIFICATION", "ACK", "OBIS_CODE",
           "VALUE", "UNIT", "END"}

BoundsInv == context \in Fields /\ D0Bounds

(* Room(c, i): byte_iterator may have the value i in the context c.        *)
Room(c, i) == c \in Fields /\ i \in 0 .. Length(c)

LEMMA LengthNat ==
    ASSUME NEW c \in Fields
    PROVE  Length(c) \in Nat
  BY D0Assumption DEF Fields, Length, VendorLen

(* A byte more in a buffer leaves room for the terminating zero.           *)
LEMMA StoreFits ==
    ASSUME NEW c \in Fields, NEW i \in 0 .. Length(c), Store(c, i, Length(c))
    PROVE  Room(context', byteIterator')
<1>1. Length(c) \in Nat
  BY LengthNat
<1> QED BY <1>1 DEF Store, Go, Room

(* The end of a line stores a reading when there is room.                  *)
LEMMA EndLineFits ==
    ASSUME NEW value, tuples \in 0 .. MaxReadings, EndLine(value)
    PROVE  tuples' \in 0 .. MaxReadings /\ Room(context', byteIterator')
<1>1. context' = "OBIS_CODE" /\ byteIterator' = 0
  BY DEF EndLine, Go
<1>2. Room(context', byteIterator')
  BY <1>1, LengthNat DEF Room, Fields
<1>3. tuples' \in 0 .. MaxReadings
  BY D0Assumption DEF EndLine
<1> QED BY <1>2, <1>3

(* Ahead of the contexts the iterator is inside the new context as well.   *)
LEMMA ContextFits ==
    ASSUME BoundsInv, NEW b \in Bytes
    PROVE  /\ Room(Context(b), Iterator(b))
           /\ Context(b) \notin {"VENDOR", "END"} => Context(b) = context
           /\ Context(b) # "END" => Room(Context(b), byteIterator)
<1>1. \A c \in Fields : Length(c) \in Nat
  BY LengthNat
<1>2. Length("END") = 1 /\ "END" \in Fields /\ "VENDOR" \in Fields
  BY DEF Length, Fields
<1> QED BY <1>1, <1>2 DEF BoundsInv, D0Bounds, Room, Context, Iterator

LEMMA ParseFits ==
    ASSUME BoundsInv, NEW b \in Bytes, Parse(b)
    PROVE  BoundsInv'
<1> SUFFICES Room(context', byteIterator') /\ tuples' \in 0 .. MaxReadings
  BY DEF BoundsInv, D0Bounds, Room
<1>0. /\ context \in Fields /\ byteIterator \in 0 .. Length(context)
      /\ tuples \in 0 .. MaxReadings /\ MaxReadings \in Nat
  BY D0Assumption DEF BoundsInv, D0Bounds
<1>c. /\ Room(Context(b), Iterator(b))
      /\ Context(b) \notin {"VENDOR", "END"} => Context(b) = context
      /\ Context(b) # "END" => Room(Context(b), byteIterator)
  BY ContextFits
<1>z. \A c \in Fields : Room(c, 0)
  BY LengthNat DEF Room
<1>l. /\ Length("VENDOR") = 2 /\ Length("IDENTIFICATION") = IdLen /\ Length("OBIS_CODE") = ObisLen
      /\ Length("VALUE") = ValueLen /\ Length("UNIT") = UnitLen /\ Length("END") = 1
      /\ Length("ACK") = 0
  BY DEF Length, VendorLen
<1>1. CASE InStart(b)
  BY <1>0, <1>c, <1>1 DEF InStart, Go
<1>2. CASE InVendor(b)
  <2>1. byteIterator \in 0 .. 2 /\ Context(b) = "VENDOR"
    BY <1>c, <1>l, <1>2 DEF InVendor, Room
  <2>2. CASE b \in {"slash", "nl"} /\ Go("VENDOR", 0) /\ tuples' = 0
    BY <1>0, <1>z, <2>2 DEF Go, Fields
  <2>3. CASE /\ b = "alpha" /\ UNCHANGED tuples
             /\ IF byteIterator + 1 >= VendorLen THEN Go("BAUDRATE", 0)
                ELSE Go("VENDOR", byteIterator + 1)
    BY <1>0, <1>z, <1>l, <2>1, <2>3 DEF Go, Fields, Room, VendorLen
  <2>4. CASE UNCHANGED <<context, byteIterator, tuples>>
    BY <1>0, <2>4 DEF Room
  <2> QED BY <1>2, <2>2, <2>3, <2>4 DEF InVendor
<1>3. CASE InBaudrate(b)
  BY <1>0, <1>z, <1>3 DEF InBaudrate, Go, Fields
<1>4. CASE InIdentification(b)
  <2>1. byteIterator \in 0 .. Length("IDENTIFICATION") /\ "IDENTIFICATION" \in Fields /\ tuples' = tuples
    BY <1>c, <1>4 DEF InIdentification, Room
  <2>2. CASE Go("ACK", 0) \/ Go("IDENTIFICATION", byteIterator)
    BY <1>0, <1>z, <2>1, <2>2 DEF Go, Fields, Room
  <2>3. CASE Store("IDENTIFICATION", byteIterator, IdLen)
    BY <1>0, <1>l, <2>1, <2>3, StoreFits
  <2> QED BY <1>4, <2>2, <2>3 DEF InIdentification
<1>5. CASE InAck(b)
  <2>1. byteIterator = 0
    BY <1>c, <1>l, <1>5 DEF InAck, Room
  <2> QED BY <1>0, <1>z, <1>5, <2>1 DEF InAck, Go, Fields
<1>6. CASE InObisCode(b)
  <2>1. byteIterator \in 0 .. Length("OBIS_CODE") /\ "OBIS_CODE" \in Fields /\ tuples' = tuples
    BY <1>c, <1>6 DEF InObisCode, Room
  <2>2. CASE Go("OBIS_CODE", byteIterator) \/ Go("VALUE", 0)
    BY <1>0, <1>z, <2>1, <2>2 DEF Go, Fields, Room
  <2>3. CASE Store("OBIS_CODE", byteIterator, ObisLen)
    BY <1>0, <1>l, <2>1, <2>3, StoreFits
  <2> QED BY <1>6, <2>2, <2>3 DEF InObisCode
<1>7. CASE InValue(b)
  <2>1. byteIterator \in 0 .. Length("VALUE") /\ "VALUE" \in Fields
    BY <1>c, <1>7 DEF InValue, Room
  <2>2. CASE EndLine(byteIterator > 0)
    BY <1>0, <2>2, EndLineFits
  <2>3. CASE Go("UNIT", 0) /\ UNCHANGED tuples
    BY <1>0, <1>z, <2>3 DEF Go, Fields
  <2>4. CASE Store("VALUE", byteIterator, ValueLen) /\ UNCHANGED tuples
    BY <1>0, <1>l, <2>1, <2>4, StoreFits
  <2> QED BY <1>7, <2>2, <2>3, <2>4 DEF InValue
<1>8. CASE InUnit(b)
  <2>1. byteIterator \in 0 .. Length("UNIT") /\ "UNIT" \in Fields
    BY <1>c, <1>8 DEF InUnit, Room
  <2>2. CASE EndLine(hasValue)
    BY <1>0, <2>2, EndLineFits
  <2>3. CASE Store("UNIT", byteIterator, UnitLen) /\ UNCHANGED tuples
    BY <1>0, <1>l, <2>1, <2>3, StoreFits
  <2> QED BY <1>8, <2>2, <2>3 DEF InUnit
<1>9. CASE InEnd(b)
  <2>1. tuples' = tuples /\ context' \in {"END", "VENDOR", "OBIS_CODE"} /\ byteIterator' \in {0, 1}
        /\ (byteIterator' = 1 => context' = "END")
    BY <1>9 DEF InEnd, Go
  <2> QED BY <1>0, <1>z, <1>l, <2>1 DEF Room, Fields
<1> QED BY <1>1, <1>2, <1>3, <1>4, <1>5, <1>6, <1>7, <1>8, <1>9 DEF Parse

LEMMA BoundsInit == D0Init => BoundsInv
  BY D0Assumption DEF D0Init, BoundsInv, D0Bounds, Fields, Length

LEMMA BoundsInductive ==
    ASSUME BoundsInv, [D0Next]_d0vars
    PROVE  BoundsInv'
<1>1. ASSUME UNCHANGED <<context, byteIterator, tuples>>
      PROVE  BoundsInv'
  BY <1>1 DEF BoundsInv, D0Bounds
<1>2. CASE D0Read
  BY <1>2, D0Assumption DEF D0Read, BoundsInv, D0Bounds, Fields, Length
<1>3. ASSUME NEW b \in Bytes, Parse(b)
      PROVE  BoundsInv'
  BY <1>3, ParseFits
<1>4. ASSUME NEW b \in Bytes, SkipByte(b)
      PROVE  BoundsInv'
  BY <1>1, <1>4 DEF SkipByte
<1>5. CASE UNCHANGED d0vars \/ D0Open \/ Halt \/ Cancelled \/ TimePasses \/ SyncNothing
           \/ CheckTimeout \/ NoByte \/ ReadError
  BY <1>1, <1>5 DEF d0vars, D0Open, Halt, Cancelled, TimePasses, SyncNothing, CheckTimeout,
                    NoByte, ReadError
<1> QED BY <1>2, <1>3, <1>4, <1>5 DEF D0Next

(* Whatever bytes a meter sends, MeterD0::read writes inside its buffers   *)
(* and into the room the caller gave.                                      *)
THEOREM D0StaysInBounds == D0Spec => []D0Bounds
<1>1. D0Spec => []BoundsInv
  BY BoundsInit, BoundsInductive, PTL DEF D0Spec
<1>2. BoundsInv => D0Bounds
  BY DEF BoundsInv
<1> QED BY <1>1, <1>2, PTL

-----------------------------------------------------------------------------
(* The speed. *)

Opened == d0pc \notin {"closed", "failed"}

(* What is kept from call to call: the speed of the acknowledgement is the *)
(* speed to read with, and the port has it or the one it was opened with.  *)
SpeedInv ==
    /\ d0conf \in D0Configs
    /\ context \in {"IDENTIFICATION", "ACK"} => baudrate \in Speeds
    /\ d0conf.ack = "fixed" => ackSpeed = readSpeed
    /\ ackSpeed # "none" => ackSpeed = readSpeed
    /\ ackSpeed \in Speeds \cup {"none"}
    /\ Opened /\ d0conf.tty => port = d0conf.connect \/ (port = ackSpeed /\ ackSpeed # "none")
    /\ told # "none" => /\ d0conf.ack # "none" /\ told = ackSpeed /\ told \in Speeds
                        /\ d0conf.tty => port = told \/ SpeedRefused
                        /\ Opened

LEMMA ConfigType ==
    ASSUME d0conf \in D0Configs
    PROVE  /\ d0conf.read \in Speeds /\ d0conf.connect \in Speeds
           /\ d0conf.ack \in {"none", "auto", "fixed"} /\ d0conf.tty \in BOOLEAN
  BY D0Assumption DEF D0Config

LEMMA SpeedInit == D0Init => SpeedInv
<1> SUFFICES ASSUME D0Init PROVE SpeedInv
  OBVIOUS
<1>1. d0conf.read \in Speeds /\ d0conf.ack \in {"none", "auto", "fixed"}
  BY ConfigType DEF D0Init
<1> QED BY <1>1 DEF D0Init, SpeedInv, Speeds, Opened

(* The acknowledgement is sent with its speed, then the port is set.       *)
LEMMA AcknowledgeKeeps ==
    ASSUME SpeedInv, NEW b \in Bytes, InAck(b)
    PROVE  SpeedInv'
<1>1. /\ context' = "OBIS_CODE" /\ d0conf' = d0conf /\ d0pc' = "top"
      /\ context = "ACK" /\ d0pc = "byte"
  BY DEF InAck, Go, Context, Take
<1>2. /\ baudrate \in Speeds /\ d0conf.connect \in Speeds
      /\ d0conf.ack \in {"none", "auto", "fixed"} /\ d0conf \in D0Configs
  BY <1>1, ConfigType DEF SpeedInv
<1>3. CASE d0conf.ack = "none"
  BY <1>1, <1>2, <1>3 DEF InAck, SpeedInv, SpeedRefused, Opened
<1>4. CASE d0conf.ack # "none"
  <2> DEFINE ask == IF ackSpeed = "none" THEN baudrate ELSE ackSpeed
  <2>1. ask \in Speeds /\ ask # "none"
    BY <1>2 DEF SpeedInv, Speeds
  <2>2. /\ ackSpeed' = ask /\ told' = ask /\ readSpeed' = ask
        /\ port' = IF ask # d0conf.connect /\ ~(ask = "B300" /\ d0conf.ack = "auto")
                   THEN ask ELSE port
    BY <1>4 DEF InAck, Acknowledge, SpeedInv
  <2>3. d0conf.tty => port = d0conf.connect \/ (port = ackSpeed /\ ackSpeed # "none")
    BY <1>1, <1>2 DEF SpeedInv, Speeds, Opened
  <2>4. ASSUME d0conf.tty
        PROVE  port' = ask \/ SpeedRefused'
    <3>1. CASE ask = d0conf.connect
      BY <2>2, <2>3, <2>4, <3>1
    <3>2. CASE ask # d0conf.connect /\ ask = "B300" /\ d0conf.ack = "auto"
      BY <1>1, <2>2, <3>2 DEF SpeedRefused
    <3>3. CASE ask # d0conf.connect /\ ~(ask = "B300" /\ d0conf.ack = "auto")
      BY <2>2, <3>3
    <3> QED BY <3>1, <3>2, <3>3
  <2>5. d0conf.tty => port' = d0conf.connect \/ port' = ask
    BY <2>2, <2>3
  <2> QED BY <1>1, <1>2, <1>4, <2>1, <2>2, <2>4, <2>5 DEF SpeedInv, Opened
<1> QED BY <1>3, <1>4

LEMMA SpeedInductive ==
    ASSUME SpeedInv, [D0Next]_d0vars
    PROVE  SpeedInv'
<1>0. UNCHANGED d0vars => UNCHANGED <<d0conf, ackSpeed, readSpeed, port, told, d0pc, context, baudrate>>
  BY DEF d0vars
(* Steps that leave the port and the acknowledgement alone.                *)
<1>1. ASSUME UNCHANGED <<d0conf, ackSpeed, readSpeed, port, told>>,
             Opened' <=> Opened,
             context' \in {"IDENTIFICATION", "ACK"} => baudrate' \in Speeds
      PROVE  SpeedInv'
  BY <1>1 DEF SpeedInv, SpeedRefused
<1>2. CASE D0Open
  BY <1>2 DEF D0Open, OpenDevice, OpenSocket, fieldVars, SpeedInv, SpeedRefused, Opened
<1>3. CASE D0Read
  BY <1>3 DEF D0Read, SpeedInv, SpeedRefused, Opened
<1>4. CASE UNCHANGED d0vars \/ Halt \/ Cancelled \/ TimePasses \/ SyncNothing
           \/ CheckTimeout \/ NoByte \/ ReadError
  <2>1. /\ UNCHANGED <<d0conf, ackSpeed, readSpeed, port, told, context, baudrate>>
        /\ Opened' <=> Opened
    BY <1>0, <1>4 DEF Halt, Cancelled, TimePasses, SyncNothing, CheckTimeout, NoByte, ReadError,
                portVars, fieldVars, Opened
  <2> QED BY <1>1, <2>1 DEF SpeedInv
<1>5. ASSUME NEW b \in Bytes, SkipByte(b)
      PROVE  SpeedInv'
  <2>1. /\ UNCHANGED <<d0conf, ackSpeed, readSpeed, port, told, context, baudrate>>
        /\ Opened' <=> Opened
    BY <1>5 DEF SkipByte, fieldVars, Opened
  <2> QED BY <1>1, <2>1 DEF SpeedInv
<1>6. ASSUME NEW b \in Bytes, Parse(b)
      PROVE  SpeedInv'
  <2>1. CASE InAck(b)
    BY <2>1, AcknowledgeKeeps
  <2>2. CASE InBaudrate(b)
    <3>1. /\ UNCHANGED <<d0conf, ackSpeed, readSpeed, port, told>> /\ baudrate' \in Speeds
          /\ d0pc = "byte" /\ d0pc' = "top"
      BY <2>2 DEF InBaudrate, Take, Go, portVars, Speeds
    <3> QED BY <1>1, <3>1 DEF Opened
  <2>3. CASE InIdentification(b)
    <3>1. /\ UNCHANGED <<d0conf, ackSpeed, readSpeed, port, told, baudrate>>
          /\ d0pc = "byte" /\ d0pc' = "top" /\ context = "IDENTIFICATION"
      BY <2>3 DEF InIdentification, Take, Go, Store, portVars, fieldVars, Context
    <3> QED BY <1>1, <3>1 DEF SpeedInv, Opened
  <2>4. CASE InStart(b) \/ InVendor(b) \/ InObisCode(b) \/ InValue(b) \/ InUnit(b) \/ InEnd(b)
    <3>1. UNCHANGED <<d0conf, ackSpeed, readSpeed, port, told, baudrate>> /\ d0pc = "byte"
      BY <2>4 DEF InStart, InVendor, InObisCode, InValue, InUnit, InEnd, Take, portVars, fieldVars
    <3>2. d0pc' \in {"top", "idle"} /\ (context' \notin {"IDENTIFICATION", "ACK"} \/ context' = context)
      BY <2>4 DEF InStart, InVendor, InObisCode, InValue, InUnit, InEnd, Go, Store, EndLine
    <3> QED BY <1>1, <3>1, <3>2 DEF SpeedInv, Opened
  <2> QED BY <1>6, <2>1, <2>2, <2>3, <2>4 DEF Parse
<1> QED BY <1>2, <1>3, <1>4, <1>5, <1>6 DEF D0Next

(* The speed computed from the meter's first answer is kept with the       *)
(* acknowledgement (_ack and _baudrate_read), and the port follows it in   *)
(* every call.                                                             *)
THEOREM PortHasSpeed == D0Spec => []AckSpeed
<1>1. D0Spec => []SpeedInv
  BY SpeedInit, SpeedInductive, PTL DEF D0Spec
<1>2. SpeedInv => AckSpeed
  BY DEF SpeedInv, AckSpeed
<1> QED BY <1>1, <1>2, PTL

-----------------------------------------------------------------------------
(* OMS: a telegram becomes one reading. *)

Times(k) == Telegrams[k].time

(* A telegram the property is about: it can be decrypted, its time is set  *)
(* and comes ahead of the value.                                           *)
Known(k) == Telegrams[k].key /\ Telegrams[k].first /\ Times(k) # 0

(* No telegram before has its time.                                        *)
NewTime(k) == \A j \in 1 .. k - 1 : Times(j) # Times(k)

OmsType ==
    /\ cur \in 1 .. Len(Telegrams) + 1
    /\ stored \in [Numbers -> 0 .. 2]
    /\ lastTimestamp \in Nat /\ ret \in Nat
    /\ full \subseteq Numbers /\ heard \subseteq Numbers

(* Telegrams still to come left no trace ...                               *)
NothingYet == \A k \in Numbers : k > cur => stored[k] = 0 /\ k \notin full /\ k \notin heard

(* ... the time remembered is that of one that was sent ...                *)
TimeSent == lastTimestamp # 0 => \E j \in Numbers : j <= cur /\ Times(j) = lastTimestamp

(* ... and the one being sent has been remembered, if it was evaluated:    *)
(* that is what keeps its repetition from becoming a second reading.       *)
Remembered ==
    /\ \A k \in Numbers : Known(k) /\ cur = k /\ (stored[k] # 0 \/ k \in full) => lastTimestamp = Times(k)
    /\ \A k \in Numbers : Known(k) /\ cur = k /\ NewTime(k) /\ lastTimestamp = Times(k)
                              => stored[k] # 0 \/ k \in full
    /\ \A k \in heard : k < cur

OmsInv == OmsType /\ NothingYet /\ TimeSent /\ Remembered /\ OmsOnce

LEMMA TelegramType ==
    ASSUME NEW k \in Numbers
    PROVE  Times(k) \in Nat /\ Len(Telegrams) \in Nat /\ k \in Nat /\ 0 < k /\ k <= Len(Telegrams)
<1>1. Telegrams \in Seq(Telegram)
  BY OmsAssumption
<1>2. Len(Telegrams) \in Nat /\ Telegrams[k] \in Telegram
  BY <1>1 DEF Numbers
<1> QED BY <1>2 DEF Numbers, Telegram, Times

LEMMA LenNat == Len(Telegrams) \in Nat
  BY OmsAssumption

LEMMA OmsInitInv == OmsInit => OmsInv
  BY LenNat DEF OmsInit, OmsInv, OmsType, NothingYet, TimeSent, Remembered, OmsOnce, Known, Times, Numbers

(* What evaluating telegram cur leaves behind.                             *)
LEMMA EvaluateFacts ==
    ASSUME OmsInv, cur \in Numbers, Evaluate(cur)
    PROVE  /\ stored' \in [Numbers -> 0 .. 2] /\ lastTimestamp' \in Nat /\ ret' \in Nat
           /\ full' \subseteq Numbers
           /\ \A k \in Numbers : k # cur => stored'[k] = stored[k] /\ (k \in full' <=> k \in full)
           /\ cur \in full => cur \in full'
           /\ lastTimestamp' = lastTimestamp \/ (lastTimestamp' = Times(cur) /\ Times(cur) # 0)
           /\ Known(cur) => lastTimestamp' = Times(cur)
           /\ Known(cur) /\ lastTimestamp = Times(cur) => stored' = stored /\ full' = full
           /\ Known(cur) /\ lastTimestamp # Times(cur) =>
                 \/ stored'[cur] # 0 /\ (stored[cur] = 0 => stored'[cur] = 1)
                 \/ cur \in full' /\ stored'[cur] = stored[cur]
<1> DEFINE t == Telegrams[cur]
<1>0. Times(cur) \in Nat
  BY TelegramType
<1> USE DEF OmsInv, OmsType
<1>1. CASE ~t.key
  BY <1>1 DEF Evaluate, Known
<1>2. CASE t.key
  <2>1. lastTimestamp' = IF Times(cur) # 0 THEN Times(cur) ELSE lastTimestamp
    BY <1>2 DEF Evaluate, Times
  <2>2. CASE t.first /\ Duplicate(t)
    <3>1. UNCHANGED <<ret, stored, full>> /\ lastTimestamp = Times(cur)
      BY <1>2, <2>2 DEF Evaluate, Duplicate, Times
    <3> QED BY <1>0, <2>1, <3>1 DEF Known
  <2>3. CASE ~(t.first /\ Duplicate(t))
    <3>1. StoreValue(cur)
      BY <1>2, <2>3 DEF Evaluate
    <3>2. Known(cur) => lastTimestamp # Times(cur)
      BY <2>3 DEF Known, Duplicate, Times
    <3>3. CASE ret < OmsRoom
      <4>1. /\ ret' = ret + 1 /\ full' = full
            /\ stored' = [stored EXCEPT ![cur] = IF @ = 0 THEN 1 ELSE 2]
        BY <3>1, <3>3 DEF StoreValue
      <4>2. /\ stored' \in [Numbers -> 0 .. 2] /\ stored'[cur] # 0
            /\ stored[cur] = 0 => stored'[cur] = 1
            /\ \A k \in Numbers : k # cur => stored'[k] = stored[k]
        BY <4>1
      <4> QED BY <1>0, <2>1, <3>2, <4>1, <4>2 DEF Known
    <3>4. CASE ~(ret < OmsRoom)
      BY <1>0, <2>1, <3>1, <3>2, <3>4 DEF StoreValue, Known
    <3> QED BY <3>3, <3>4
  <2> QED BY <2>2, <2>3
<1> QED BY <1>1, <1>2

(* A telegram that is repeated or followed by the next one.                *)
LEMMA ReceiveKeeps ==
    ASSUME OmsInv, Receive
    PROVE  OmsInv'
<1> USE DEF OmsInv
<1>1. cur \in Numbers /\ Evaluate(cur)
  BY DEF Receive
<1>2. \/ cur' = cur + 1 /\ heard' = heard \cup {cur}
      \/ cur' \in {cur, cur + 1} /\ UNCHANGED heard
  BY DEF Receive
<1>3. /\ Times(cur) \in Nat /\ Len(Telegrams) \in Nat /\ cur \in Nat /\ cur <= Len(Telegrams)
      /\ \A k \in Numbers : Times(k) \in Nat /\ k \in Nat
  BY <1>1, TelegramType
<1>4. cur' \in {cur, cur + 1} /\ cur' \in Nat /\ heard \subseteq heard' /\ heard' \subseteq heard \cup {cur}
      /\ (cur \in heard' => cur' = cur + 1 \/ cur \in heard)
  BY <1>2, <1>3
<1>n. cur \notin heard
  BY <1>3 DEF Remembered, OmsType
<1> DEFINE Facts ==
      /\ stored' \in [Numbers -> 0 .. 2] /\ lastTimestamp' \in Nat /\ ret' \in Nat
      /\ full' \subseteq Numbers
      /\ \A k \in Numbers : k # cur => stored'[k] = stored[k] /\ (k \in full' <=> k \in full)
      /\ cur \in full => cur \in full'
      /\ lastTimestamp' = lastTimestamp \/ (lastTimestamp' = Times(cur) /\ Times(cur) # 0)
      /\ Known(cur) => lastTimestamp' = Times(cur)
      /\ Known(cur) /\ lastTimestamp = Times(cur) => stored' = stored /\ full' = full
      /\ Known(cur) /\ lastTimestamp # Times(cur) =>
            \/ stored'[cur] # 0 /\ (stored[cur] = 0 => stored'[cur] = 1)
            \/ cur \in full' /\ stored'[cur] = stored[cur]
<1>5. Facts
  BY <1>1, EvaluateFacts
<1>6. OmsType'
  BY <1>1, <1>3, <1>4, <1>5 DEF OmsType
<1>7. NothingYet'
  BY <1>3, <1>4, <1>5 DEF NothingYet
<1>8. TimeSent'
  BY <1>1, <1>3, <1>4, <1>5 DEF TimeSent
(* The telegram that comes next, if its time is new, is not remembered.    *)
<1>9. ASSUME NEW k \in Numbers, Known(k), NewTime(k), cur < k
      PROVE  lastTimestamp' # Times(k) /\ lastTimestamp # Times(k)
  <2>1. \A j \in Numbers : j <= cur => Times(j) # Times(k)
    BY <1>3, <1>9 DEF NewTime, Numbers
  <2>2. lastTimestamp # Times(k)
    BY <1>9, <2>1 DEF TimeSent, Known
  <2> QED BY <1>1, <1>3, <1>5, <2>1, <2>2
<1>10. Remembered'
  <2>1. ASSUME NEW k \in Numbers, Known(k), cur' = k, stored'[k] # 0 \/ k \in full'
        PROVE  lastTimestamp' = Times(k)
    <3>1. CASE k = cur
      BY <1>5, <2>1, <3>1
    <3>2. CASE k # cur
      BY <1>3, <1>4, <1>5, <2>1, <3>2 DEF NothingYet
    <3> QED BY <3>1, <3>2
  <2>2. ASSUME NEW k \in Numbers, Known(k), cur' = k, NewTime(k), lastTimestamp' = Times(k)
        PROVE  stored'[k] # 0 \/ k \in full'
    <3>1. k = cur
      BY <1>3, <1>4, <1>9, <2>2
    <3> QED BY <1>5, <2>2, <3>1 DEF Remembered
  <2>3. \A k \in heard' : k < cur'
    BY <1>1, <1>2, <1>3, <1>4, <1>n DEF Remembered, OmsType
  <2> QED BY <2>1, <2>2, <2>3 DEF Remembered, Known, NewTime, Times
<1>11. OmsOnce'
  <2>1. ASSUME NEW k \in Numbers, Known(k)
        PROVE  stored'[k] <= 1
    <3>1. CASE k # cur
      BY <1>5, <2>1, <3>1 DEF OmsOnce, Known, Times
    <3>2. CASE k = cur
      BY <1>5, <2>1, <3>2 DEF OmsOnce, Known, Times, Remembered, OmsType
    <3> QED BY <3>1, <3>2
  <2>2. ASSUME NEW k \in Numbers, Known(k), k \in heard' \ full', NewTime(k)
        PROVE  stored'[k] = 1
    <3>1. CASE k # cur
      <4>1. k \in heard \ full
        BY <1>4, <1>5, <2>2, <3>1
      <4> QED BY <1>5, <2>2, <3>1, <4>1 DEF OmsOnce, Known, Times, NewTime
    <3>2. CASE k = cur
      <4>1. stored'[k] # 0
        BY <1>5, <2>2, <3>2 DEF Remembered
      <4>2. stored'[k] \in 0 .. 2
        BY <1>5
      <4> QED BY <2>1, <2>2, <4>1, <4>2
    <3> QED BY <3>1, <3>2
  <2> QED BY <2>1, <2>2 DEF OmsOnce, Known, Times, NewTime
<1> QED BY <1>6, <1>7, <1>8, <1>10, <1>11

LEMMA OmsInductive ==
    ASSUME OmsInv, [OmsNext]_omsvars
    PROVE  OmsInv'
<1>1. CASE Receive
  BY <1>1, ReceiveKeeps
<1>2. CASE UNCHANGED omsvars \/ OmsOpen \/ OmsRead \/ NoFrame \/ ReceiveNke \/ OmsClose
  <2>1. UNCHANGED <<cur, lastTimestamp, stored, full, heard>> /\ (ret' = ret \/ ret' = 0)
    BY <1>2 DEF omsvars, OmsOpen, OmsRead, NoFrame, ReceiveNke, OmsClose
  <2> QED
    BY <2>1 DEF OmsInv, OmsType, NothingYet, TimeSent, Remembered, OmsOnce, Known, NewTime, Times
<1> QED BY <1>1, <1>2 DEF OmsNext

(* Repeated telegrams are known by the meter's time alone                  *)
(* (MeterOMS::read): none becomes two readings, however the                *)
(* acknowledgements are lost, and one that was acknowledged becomes one.   *)
THEOREM OmsReadsOnce == OmsSpec => []OmsOnce
<1>1. OmsSpec => []OmsInv
  BY OmsInitInv, OmsInductive, PTL DEF OmsSpec
<1>2. OmsInv => OmsOnce
  BY DEF OmsInv
<1> QED BY <1>1, <1>2, PTL

-----------------------------------------------------------------------------
(* OCR: the light. *)

(* Since the last impulse the light was off, or it is on since that one.   *)
LightInv == lastState \in BOOLEAN /\ (~ lastState => sawDark)

LEMMA LightInductive ==
    ASSUME LightInv, [OcrNext]_ocrvars
    PROVE  LightInv'
<1>1. CASE Recognize
  <2>1. CASE ReadLight
    <3>1. lastState' = Edge /\ Edge \in BOOLEAN
      BY <2>1 DEF ReadLight, Edge
    <3>2. ASSUME ~ Edge
          PROVE  sawDark'
      BY <2>1, <3>2 DEF ReadLight, LightInv, Edge
    <3> QED BY <3>1, <3>2 DEF LightInv
  <2>2. CASE ReadNeedles
    BY <2>2 DEF LightInv, ReadNeedles
  <2> QED BY <1>1, <2>1, <2>2 DEF Recognize
<1>2. CASE UNCHANGED ocrvars \/ OcrOpen \/ OcrClose \/ OcrInput \/ FileChanged \/ CaptureFrames
           \/ SelectFrame \/ OcrFrame
  <2>1. UNCHANGED <<lastState, sawDark>>
    BY <1>2 DEF ocrvars, readsVars, OcrOpen, OcrClose, OcrInput, FileChanged, CaptureFrames,
                SelectFrame, OcrFrame
  <2> QED BY <2>1 DEF LightInv
<1> QED BY <1>1, <1>2 DEF OcrNext

LEMMA FlashStep ==
    ASSUME LightInv, [OcrNext]_ocrvars
    PROVE  [~ocrconf.needle /\ ocrpc = "recognize" /\ total' = 1 => sawDark]_ocrvars
<1> SUFFICES ASSUME OcrNext, ~ocrconf.needle, ocrpc = "recognize", total' = 1
             PROVE  sawDark
  OBVIOUS
<1>1. ReadLight
  BY DEF OcrNext, OcrOpen, OcrClose, OcrInput, FileChanged, CaptureFrames, SelectFrame, OcrFrame,
         ReadV4l2Frame, Recognize, ReadNeedles
<1>2. ~ lastState
  BY <1>1 DEF ReadLight
<1> QED BY <1>2 DEF LightInv

(* However the light flickers, an impulse is counted only if it was off    *)
(* since the one before (RecognizerBinary::recognize, MeterOCR::read).     *)
THEOREM FlashesCountOnce == OcrSpec => FlashOnce
<1>1. OcrInit => LightInv
  BY DEF OcrInit, LightInv
<1>2. LightInv /\ [OcrNext]_ocrvars =>
          [~ocrconf.needle /\ ocrpc = "recognize" /\ total' = 1 => sawDark]_ocrvars
  BY FlashStep
<1>3. LightInv /\ [OcrNext]_ocrvars => LightInv'
  BY LightInductive
<1> QED BY <1>1, <1>2, <1>3, PTL DEF OcrSpec, FlashOnce

-----------------------------------------------------------------------------
(* OCR: the needles. *)

Digits == 0 .. 9
Angles == 0 .. 99
Slips == -3 .. 3
Wraps == {-1, 0, 1}

(* The digit d of a dial stands for the position x, in tenths of a digit:  *)
(* j is the turn of the needle over zero, forth or back.                   *)
Shows(d, j, x) == 10 * d + 100 * j - x \in -19 .. 14

(* The value stands for where the dial is, whole turns apart.              *)
Near(value, k, at) == 10 * (value + 100 * k) - at \in -20 .. 20

SmallAt(at) == at % 100
LargeAt(at) == (at \div 10) % 100
Slipped(x, e) == (x + e) % 100

Written(at, k, a, b, c) ==
    /\ at = 1000 * k + 100 * a + 10 * b + c
    /\ SmallAt(at) = 10 * b + c /\ LargeAt(at) = 10 * a + b

LEMMA TurnDigits ==
    ASSUME NEW at \in Int
    PROVE  \E k \in Int, a, b, c \in Digits : Written(at, k, a, b, c)
<1> DEFINE k == at \div 1000
           a == (at % 1000) \div 100
           b == ((at % 1000) \div 10) % 10
           c == (at % 1000) % 10
<1>1. k \in Int /\ a \in 0 .. 9 /\ b \in 0 .. 9 /\ c \in 0 .. 9
      /\ at = 1000 * k + 100 * a + 10 * b + c
  OBVIOUS
<1>2. at % 100 = 10 * b + c
  OBVIOUS
<1>3. at \div 10 = 100 * k + 10 * a + b
  BY <1>1
<1>4. (at \div 10) % 100 = 10 * a + b
  <2> HIDE DEF k, a, b, c
  <2> QED BY <1>1, <1>3
<1> HIDE DEF k, a, b, c
<1>5. Written(at, k, a, b, c)
  BY <1>1, <1>2, <1>4 DEF Written, SmallAt, LargeAt
<1> QED BY <1>1, <1>5 DEF Digits

LEMMA AngleFound ==
    ASSUME NEW x \in Angles, NEW e \in Slips, HalfNeedle \in 0 .. 10
    PROVE  Angle(Found(x, e)) = Slipped(x, e) /\ Slipped(x, e) \in Angles
BY DEF Angle, Found, Angles, Slips, Slipped

LEMMA FirstDigit ==
    ASSUME NEW x \in Angles, NEW e \in Slips, HalfNeedle \in 0 .. 10
    PROVE  Digit(Found(x, e)) \in Digits /\ \E j \in Wraps : Shows(Digit(Found(x, e)), j, x)
BY DEF Digit, Found, Shows, Angles, Slips, Wraps, Digits

(* The digit before may keep the needle a bit longer, never a whole digit. *)
LEMMA NextDigit ==
    ASSUME NEW x \in Angles, NEW e \in Slips, NEW prev \in Digits
    PROVE  /\ Debounce(prev, Slipped(x, e)) \in Digits
           /\ \E j \in Wraps : Shows(Debounce(prev, Slipped(x, e)), j, x)
<1> DEFINE f == Slipped(x, e)
           d == Debounce(prev, f)
<1>1. f \in 0 .. 99 /\ \E h \in {-1, 0, 1} : f = x + e + 100 * h
  BY DEF Slipped, Angles, Slips
<1> HIDE DEF f
<1>2. d \in 0 .. 9 /\ \E i \in {-1, 0, 1} : 10 * d + 100 * i - f \in -14 .. 9
  BY <1>1, SMTT(30) DEF Debounce, Digits
<1> HIDE DEF d
<1>3. PICK i \in {-1, 0, 1} : 10 * d + 100 * i - f \in -14 .. 9
  BY <1>2
<1>4. PICK h \in {-1, 0, 1} : f = x + e + 100 * h
  BY <1>1
<1>5. 10 * d + 100 * (i - h) - x \in -19 .. 14 /\ i - h \in {-1, 0, 1}
  BY <1>2, <1>3, <1>4 DEF Angles, Slips
<1> QED BY <1>2, <1>5 DEF Shows, Wraps, Digits, d, f

(* The tenths follow the hundredths over zero, in either direction.        *)
LEMMA LargeDigit ==
    ASSUME NEW a \in Digits, NEW b \in Digits, NEW c \in Digits, NEW d \in Digits,
           NEW j \in Wraps, NEW e \in Slips, Shows(d, j, 10 * b + c)
    PROVE  Round(Slipped(10 * a + b, e), d) = (a + j) % 10
BY SMTT(60) DEF Round, Digits, Wraps, Slips, Slipped, Shows

LEMMA TwoNeedles ==
    ASSUME NEW at \in Int, NEW d \in Digits, NEW j \in Wraps, Shows(d, j, SmallAt(at)),
           NEW e \in Slips
    PROVE  LET value == d + 10 * Round(Slipped(LargeAt(at), e), d)
           IN  value \in Angles /\ \E k \in Int : Near(value, k, at)
<1>1. PICK k \in Int, a, b, c \in Digits : Written(at, k, a, b, c)
  BY TurnDigits
<1> DEFINE f == Slipped(LargeAt(at), e)
           r == Round(f, d)
<1>2. Shows(d, j, 10 * b + c) /\ f = Slipped(10 * a + b, e)
  BY <1>1 DEF Written
<1>3. r = (a + j) % 10
  BY <1>2, LargeDigit
<1> HIDE DEF f, r
<1>4. PICK m \in {-1, 0, 1} : (a + j) % 10 = a + j + 10 * m /\ (a + j) % 10 \in 0 .. 9
  BY DEF Digits, Wraps
<1>5. r = a + j + 10 * m /\ r \in 0 .. 9
  BY <1>3, <1>4
<1>6. at = 1000 * k + 100 * a + 10 * b + c /\ 10 * d + 100 * j - (10 * b + c) \in -19 .. 14
  BY <1>1, <1>2 DEF Written, Shows
<1>7. /\ a \in 0 .. 9 /\ b \in 0 .. 9 /\ c \in 0 .. 9 /\ d \in 0 .. 9 /\ j \in {-1, 0, 1}
      /\ e \in -3 .. 3
  BY DEF Digits, Wraps, Slips
<1>8. 10 * ((d + 10 * r) + 100 * (k - m)) = 10 * d + 100 * j + 100 * a + 1000 * k
  BY <1>5, <1>7
<1>9. k - m \in Int /\ 10 * ((d + 10 * r) + 100 * (k - m)) - at \in -20 .. 20
  BY <1>6, <1>7, <1>8
<1>10. d + 10 * r \in 0 .. 99
  BY <1>5, <1>7
<1> QED BY <1>9, <1>10 DEF Near, Angles, r, f

LEMMA SmallNeedle ==
    ASSUME NEW x \in Angles, NEW e \in Slips, HalfNeedle \in 0 .. 10,
           NEW old, old \in {NoReads, NotANumber} \/ old \in Angles
    PROVE  LET small == Found(x, e)
               d == IF old = NoReads THEN Digit(small)
                    ELSE Debounce(IF old = NotANumber THEN 0 ELSE old % 10, Angle(small))
           IN  d \in Digits /\ \E j \in Wraps : Shows(d, j, x)
<1> DEFINE small == Found(x, e)
           prev == IF old = NotANumber THEN 0 ELSE old % 10
           d == IF old = NoReads THEN Digit(small) ELSE Debounce(prev, Angle(small))
<1>1. CASE old = NoReads
  <2>1. d = Digit(small)
    BY <1>1
  <2> QED BY <2>1, FirstDigit
<1>2. CASE old # NoReads
  <2>1. prev \in Digits
    BY <1>2 DEF Digits, Angles
  <2>2. d = Debounce(prev, Slipped(x, e))
    BY <1>2, AngleFound
  <2> HIDE DEF prev, d
  <2>3. d \in Digits /\ \E j \in Wraps : Shows(d, j, x)
    BY <2>1, <2>2, NextDigit
  <2> QED BY <2>3 DEF d, prev
<1> QED BY <1>1, <1>2

LEMMA NeedlesNear ==
    ASSUME turn \in Int, HalfNeedle \in 0 .. 10,
           lastReads \in {NoReads, NotANumber} \/ lastReads \in Angles,
           NEW e1 \in Slips, NEW e2 \in Slips
    PROVE  /\ Needles(<<e1, e2>>) \in Angles
           /\ \E k \in Int : Near(Needles(<<e1, e2>>), k, turn)
<1> DEFINE x == SmallAt(turn)
           y == LargeAt(turn)
           small == Found(x, e1)
           d == IF lastReads = NoReads THEN Digit(small)
                ELSE Debounce(IF lastReads = NotANumber THEN 0 ELSE lastReads % 10, Angle(small))
<1>1. x \in Angles /\ y \in Angles
  BY DEF SmallAt, LargeAt, Angles
<1>2. Needles(<<e1, e2>>) = d + 10 * Round(Angle(Found(y, e2)), d)
  BY DEF Needles, SmallAt, LargeAt
<1>3. d \in Digits /\ \E j \in Wraps : Shows(d, j, x)
  BY <1>1, SmallNeedle
<1>4. PICK j \in Wraps : Shows(d, j, x)
  BY <1>3
<1>5. Angle(Found(y, e2)) = Slipped(y, e2)
  BY <1>1, AngleFound
<1> HIDE DEF d
<1>6. /\ d + 10 * Round(Slipped(y, e2), d) \in Angles
      /\ \E k \in Int : Near(d + 10 * Round(Slipped(y, e2), d), k, turn)
  BY <1>3, <1>4, TwoNeedles
<1> QED BY <1>2, <1>5, <1>6

-----------------------------------------------------------------------------
(* OCR: the impulses follow the dial. *)

Close(from, to) == to - from \in -450 .. 450

(* The number read before, and the impulses since the first: both stand    *)
(* for where the dial was in the last picture.                             *)
Tracks ==
    lastReads \in {NoReads, NotANumber} \/
    /\ lastReads \in Angles /\ total \in Int
    /\ \E k \in Int : total = lastReads + 100 * k
    /\ 10 * total - seen \in -20 .. 20

NeedleInv ==
    /\ turn \in Int /\ seen \in Int
    /\ Close(seen, turn)
    /\ Tracks

(* Less than half a turn apart, the difference is unrolled the right way.  *)
LEMMA Unrolled ==
    ASSUME NEW old \in Angles, NEW value \in Angles, NEW i \in Int, NEW k \in Int,
           NEW from \in Int, NEW to \in Int, Close(from, to), Near(old, i, from), Near(value, k, to)
    PROVE  (old + 100 * i) + CalcImpulses(value, old) = value + 100 * k
<1> DEFINE n == k - i
<1>1. old \in 0 .. 99 /\ value \in 0 .. 99 /\ n \in Int /\ k = i + n
  BY DEF Angles
<1>2. 10 * (value + 100 * k) - 10 * (old + 100 * i) \in -490 .. 490
  BY <1>1 DEF Near, Close
<1> HIDE DEF n
<1>3. value - old + 100 * n \in -49 .. 49
  BY <1>1, <1>2
<1>4. n \in {-1, 0, 1}
  BY <1>1, <1>3
<1>5. CalcImpulses(value, old) = value - old + 100 * n
  BY <1>1, <1>3, <1>4 DEF CalcImpulses
<1> QED BY <1>1, <1>5

LEMMA NearestNear ==
    ASSUME turn \in Int, NEW value \in Angles, NEW k \in Int, Near(value, k, turn)
    PROVE  Nearest(value) = value + 100 * k
BY DEF Nearest, Near, Angles

LEMMA ReadNeedlesTracks ==
    ASSUME NeedleInv, ReadNeedles, UNCHANGED turn
    PROVE  NeedleInv'
<1>1. turn' \in Int /\ seen' \in Int /\ Close(seen, turn)' /\ seen' = turn
  BY DEF NeedleInv, ReadNeedles, Close
<1>2. CASE lastReads' \in {NoReads, NotANumber}
  BY <1>1, <1>2 DEF NeedleInv, Tracks
<1>3. ASSUME lastReads' \notin {NoReads, NotANumber}
      PROVE  Tracks'
  <2>1. PICK errors \in Errors \X Errors :
            /\ lastReads' = Needles(errors)
            /\ total' = IF lastReads \in {NoReads, NotANumber} THEN Nearest(Needles(errors))
                        ELSE total + CalcImpulses(Needles(errors), lastReads)
    BY <1>3 DEF ReadNeedles
  <2> DEFINE e1 == errors[1]
             e2 == errors[2]
             value == Needles(errors)
  <2>2. errors = <<e1, e2>> /\ e1 \in Errors /\ e2 \in Errors
    OBVIOUS
  <2> HIDE DEF e1, e2
  <2>3. Errors \subseteq Slips /\ HalfNeedle \in 0 .. 10
    BY OcrAssumption DEF OcrAssumption, Slips
  <2>4. turn \in Int /\ (lastReads \in {NoReads, NotANumber} \/ lastReads \in Angles)
    BY DEF NeedleInv, Tracks
  <2>5. value \in Angles /\ \E k \in Int : Near(value, k, turn)
    BY <2>2, <2>3, <2>4, NeedlesNear
  <2> HIDE DEF value
  <2>6. PICK k \in Int : Near(value, k, turn)
    BY <2>5
  <2>7. total' = value + 100 * k
    <3>1. CASE lastReads \in {NoReads, NotANumber}
      BY <2>1, <2>4, <2>5, <2>6, <3>1, NearestNear DEF value
    <3>2. CASE lastReads \notin {NoReads, NotANumber}
      <4>1. PICK i \in Int : total = lastReads + 100 * i
        BY <3>2 DEF NeedleInv, Tracks
      <4>2. lastReads \in Angles /\ seen \in Int /\ Close(seen, turn)
        BY <3>2 DEF NeedleInv, Tracks
      <4>3. Near(lastReads, i, seen)
        BY <3>2, <4>1 DEF NeedleInv, Tracks, Near
      <4>4. (lastReads + 100 * i) + CalcImpulses(value, lastReads) = value + 100 * k
        BY <2>4, <2>5, <2>6, <4>2, <4>3, Unrolled
      <4>5. total' = total + CalcImpulses(value, lastReads)
        BY <2>1, <3>2 DEF value
      <4> QED BY <4>1, <4>4, <4>5
    <3> QED BY <3>1, <3>2
  <2>8. value \in Int
    BY <2>5 DEF Angles
  <2>9. total' \in Int /\ 10 * total' - seen' \in -20 .. 20
    BY <1>1, <2>6, <2>7, <2>8 DEF Near
  <2>10. lastReads' = value
    BY <2>1 DEF value
  <2> QED BY <2>5, <2>7, <2>9, <2>10 DEF Tracks
<1> QED BY <1>1, <1>2, <1>3 DEF NeedleInv

LEMMA NeedleInductive ==
    ASSUME ocrconf.needle => NeedleInv, [OcrNext]_ocrvars
    PROVE  (ocrconf.needle => NeedleInv)'
<1> SUFFICES ASSUME ocrconf'.needle
             PROVE  NeedleInv'
  OBVIOUS
<1>1. ocrconf' = ocrconf
  BY DEF OcrNext, ocrvars, OcrOpen, OcrClose, OcrInput, FileChanged, CaptureFrames, SelectFrame,
         OcrFrame, Recognize
<1>2. NeedleInv
  BY <1>1
<1>3. CASE OcrInput
  <2>1. PICK m \in Moves : turn' = turn + m /\ turn = seen
    BY <1>1, <1>3 DEF OcrInput
  <2>2. m \in -450 .. 450 /\ UNCHANGED <<seen, lastReads, total>>
    BY <1>3, OcrAssumption DEF OcrAssumption, OcrInput, readsVars
  <2> QED BY <1>2, <2>1, <2>2 DEF NeedleInv, Tracks, Close
<1>4. CASE Recognize
  <2>1. ReadNeedles /\ UNCHANGED turn
    BY <1>1, <1>4 DEF Recognize, ReadLight, inputVars
  <2> QED BY <1>2, <2>1, ReadNeedlesTracks
<1>5. CASE UNCHANGED ocrvars \/ OcrOpen \/ OcrClose \/ FileChanged \/ CaptureFrames \/ SelectFrame
           \/ OcrFrame
  <2>1. UNCHANGED <<turn, seen, lastReads, total>>
    BY <1>5 DEF ocrvars, inputVars, readsVars, OcrOpen, OcrClose, FileChanged, CaptureFrames,
                SelectFrame, OcrFrame
  <2> QED BY <1>2, <2>1 DEF NeedleInv, Tracks, Close
<1> QED BY <1>3, <1>4, <1>5 DEF OcrNext

(* Turning forth and back by less than half a turn between two pictures,   *)
(* however the scans slip by up to three tenths of a digit, the impulses   *)
(* never lose a turn or a tenth of one (RecognizerNeedle::recognize,       *)
(* debounce, roundBasedOnSmallerDigits, MeterOCR::calcImpulses).           *)
THEOREM ImpulsesFollow == OcrSpec => []ImpulsesTrack
<1>1. OcrInit => (ocrconf.needle => NeedleInv)
  BY DEF OcrInit, NeedleInv, Tracks, Close
<1>2. (ocrconf.needle => NeedleInv) /\ [OcrNext]_ocrvars => (ocrconf.needle => NeedleInv)'
  BY NeedleInductive
<1>3. (ocrconf.needle => NeedleInv) => ImpulsesTrack
  BY DEF ImpulsesTrack, NeedleInv, Tracks
<1> QED BY <1>1, <1>2, <1>3, PTL DEF OcrSpec

=============================================================================
