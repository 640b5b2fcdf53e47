------------------------------- MODULE Buffer -------------------------------
(***************************************************************************)
(* The Buffer of one channel in the build without threads: MeterMap::read  *)
(* pushes readings, MeterMap::sendData aggregates and cleans the buffer,   *)
(* and then the API object takes the readings over, or leaves them because *)
(* it is busy; readings left behind are aggregated again next time.        *)
(* Without threads no operation sees a reading that is marked deleted, so  *)
(* such readings are gone from buf at once.  Times are in seconds.         *)
(***************************************************************************)
EXTENDS Integers, Sequences, FiniteSetsExt

CONSTANTS
    Modes,          \* the values of option "aggmode" to consider
    AggTime,        \* aggtime if aggFixedInterval is set, else 0
    AlwaysTaken,    \* the modes in which the API is never busy
    Times, Values,  \* what readings are made of
    NoReading,      \* _last_avg is NULL
    MaxReads        \* bound: number of readings

Reading == [time : Nat, value : Int]

ASSUME BufferAssumption ==
    /\ Modes \subseteq {"NONE", "MAX", "AVG", "SUM"}
    /\ AlwaysTaken \subseteq Modes
    /\ AggTime \in Nat /\ MaxReads \in Nat
    /\ Times \subseteq Nat /\ Values \subseteq Int
    /\ NoReading \notin Reading

VARIABLES
    mode,       \* _aggmode
    buf,        \* _sent
    lastAvg,    \* _last_avg
    pc,         \* "read", or "sent" between aggregation and Channel::sendData
    raw,        \* history: every reading pushed
    taken,      \* history: so many of them are reflected in what the API took
    takenSum    \* history: the sum of the values the API took

vars == <<mode, buf, lastAvg, pc, raw, taken, takenSum>>

TypeOK ==
    /\ mode \in Modes
    /\ buf \in Seq(Reading)
    /\ lastAvg \in Reading \cup {NoReading}
    /\ pc \in {"read", "sent"}
    /\ raw \in Seq(Reading) /\ Len(raw) <= MaxReads
    /\ taken \in 0..Len(raw)
    /\ takenSum \in Int

Init ==
    /\ mode \in Modes
    /\ buf = <<>>
    /\ lastAvg = NoReading
    /\ pc = "read"
    /\ raw = <<>>
    /\ taken = 0
    /\ takenSum = 0

(* The sum of f[1] .. f[n]. *)
SumTo(f, n) ==
    LET sum[i \in 0..n] == IF i = 0 THEN 0 ELSE sum[i - 1] + f[i] IN sum[n]

Total(b) == SumTo([i \in DOMAIN b |-> b[i].value], Len(b))

(* AVG takes the readings to be in the order of time; the other modes do   *)
(* not depend on it.                                                       *)
Push ==
    /\ pc = "read" /\ Len(raw) < MaxReads
    /\ \E t \in Times, v \in Values :
          /\ mode = "AVG" /\ raw # <<>> => raw[Len(raw)].time < t
          /\ buf' = Append(buf, [time |-> t, value |-> v])
          /\ raw' = Append(raw, [time |-> t, value |-> v])
    /\ UNCHANGED <<mode, lastAvg, pc, taken, takenSum>>

-----------------------------------------------------------------------------
(* Buffer::aggregate *)

(* Mutant: takes the last reading pushed for the latest one. *)
LatestMutant(b) == b[Len(b)]

(* The first of the latest readings. *)
Latest(b) == b[CHOOSE i \in DOMAIN b : \A j \in DOMAIN b :
                  b[j].time < b[i].time \/ (b[j].time = b[i].time /\ i <= j)]

(* Every value counts for the time until the next reading. *)
Weighted(s) ==
    SumTo([i \in 1..Len(s) - 1 |-> s[i].value * (s[i + 1].time - s[i].time)], Len(s) - 1)

Timespan(s) == s[Len(s)].time - s[1].time

Average(b) ==
    LET s == IF lastAvg = NoReading THEN b ELSE <<lastAvg>> \o b
    IN  IF Timespan(s) > 0 THEN Weighted(s) \div Timespan(s) ELSE Latest(b).value

AggregateValue(b) ==
    CASE mode = "MAX" -> Max({b[i].value : i \in DOMAIN b})
      [] mode = "SUM" -> Total(b)
      [] mode = "AVG" -> Average(b)

(* Mutant: names an interval by the start of the one before. *)
FixedMutant(t) == IF AggTime > 0 THEN AggTime * ((t - AggTime) \div AggTime) ELSE t

Fixed(t) == IF AggTime > 0 THEN AggTime * (t \div AggTime) ELSE t

(* Mutant: remembers the reading after its value was replaced. *)
SendDataMutant ==
    /\ pc = "read"
    /\ pc' = "sent"
    /\ IF mode = "NONE" \/ buf = <<>>
       THEN UNCHANGED <<buf, lastAvg>>
       ELSE /\ buf' = <<[time |-> Fixed(Latest(buf).time), value |-> AggregateValue(buf)]>>
            /\ lastAvg' = IF mode = "AVG" THEN [Latest(buf) EXCEPT !.value = buf'[1].value]
                          ELSE lastAvg
    /\ UNCHANGED <<mode, raw, taken, takenSum>>

SendData ==
    /\ pc = "read"
    /\ pc' = "sent"
    /\ IF mode = "NONE" \/ buf = <<>>
       THEN UNCHANGED <<buf, lastAvg>>
       ELSE /\ buf' = <<[time |-> Fixed(Latest(buf).time), value |-> AggregateValue(buf)]>>
            /\ lastAvg' = IF mode = "AVG" THEN Latest(buf) ELSE lastAvg
    /\ UNCHANGED <<mode, raw, taken, takenSum>>

(* Mutant: the readings taken over are not cleaned. *)
TakeMutant ==
    /\ pc = "sent"
    /\ pc' = "read"
    /\ taken' = Len(raw)
    /\ takenSum' = takenSum + Total(buf)
    /\ UNCHANGED <<mode, buf, lastAvg, raw>>

(* The API takes everything over and the buffer is cleaned ... *)
Take ==
    /\ pc = "sent"
    /\ pc' = "read"
    /\ buf' = <<>>
    /\ taken' = Len(raw)
    /\ takenSum' = takenSum + Total(buf)
    /\ UNCHANGED <<mode, lastAvg, raw>>

(* ... or it returns early: connecting, or waiting for a response.         *)
Leave ==
    /\ pc = "sent" /\ mode \notin AlwaysTaken
    /\ pc' = "read"
    /\ UNCHANGED <<mode, buf, lastAvg, raw, taken, takenSum>>

Next == Push \/ SendData \/ Take \/ Leave

Spec == Init /\ [][Next]_vars

-----------------------------------------------------------------------------
(* Properties. *)

(* The readings an aggregate stands for. *)
Pending == SubSeq(raw, taken + 1, Len(raw))

(* The time of the latest pending reading, fixed to the interval. *)
PendingTime == Fixed(Max({Pending[i].time : i \in DOMAIN Pending}))

(* The value the meter showed at time t. *)
ValueAt(t) ==
    LET before == {i \in DOMAIN raw : raw[i].time <= t}
    IN  raw[CHOOSE i \in before : \A j \in before : raw[j].time <= raw[i].time].value

Integral(from, to) == SumTo([s \in 1..to - from |-> ValueAt(from + s - 1)], to - from)

(* In modes MAX and SUM, what waits for the API after sendData is a single *)
(* reading that carries the latest time and the maximum or sum of all the  *)
(* readings since the API last took some, however often the aggregate was  *)
(* left behind and aggregated again (Buffer::aggregate, MeterMap::sendData).*)
AggregateExact ==
    pc = "sent" /\ Pending # <<>> /\ mode \in {"MAX", "SUM"} =>
        buf = <<[time |-> PendingTime,
                 value |-> IF mode = "SUM" THEN Total(Pending)
                           ELSE Max({Pending[i].value : i \in DOMAIN Pending})]>>

(* In mode SUM nothing is counted twice or forgotten between push and      *)
(* api_json_tuples, over the whole life of the buffer.                     *)
SumConserved ==
    mode \in {"SUM", "NONE"} => takenSum + Total(buf) = Total(raw)

(* "we need to consider the last tuple from last aggregate call as well    *)
(* and use this value as the starting point": an average is that of what   *)
(* the meter showed at every moment since the reading taken before, so     *)
(* that the averages make up its integral (Buffer::aggregate, mode AVG).   *)
AverageTiles ==
    pc = "sent" /\ Pending # <<>> /\ mode = "AVG" =>
        LET from == raw[IF taken = 0 THEN 1 ELSE taken].time
            to == raw[Len(raw)].time
        IN  /\ Len(buf) = 1 /\ buf[1].time = Fixed(to)
            /\ IF from = to THEN buf[1].value = raw[Len(raw)].value
                            ELSE buf[1].value = Integral(from, to) \div (to - from)
=============================================================================
