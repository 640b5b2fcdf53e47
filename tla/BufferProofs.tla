---------------------------- MODULE BufferProofs -----------------------------
(***************************************************************************)
(* The buffer of a channel, for every number of readings, every time and   *)
(* value, and every interval: its types, that sums are conserved, that an  *)
(* aggregate is exact however often it is aggregated again, and that       *)
(* averages make up the integral of what the meter showed.                 *)
(***************************************************************************)
EXTENDS Buffer, Induction, SequenceTheorems

-----------------------------------------------------------------------------
(* Sums. *)

Adds(g, f, n) ==
    g \in [0 .. n -> Int] /\ g[0] = 0 /\ \A i \in 1 .. n : g[i] = g[i - 1] + f[i]

LEMMA SumToIs ==
    ASSUME NEW n \in Nat, NEW f, \A i \in 1 .. n : f[i] \in Int
    PROVE  \E g : Adds(g, f, n) /\ SumTo(f, n) = g[n]
<1> DEFINE step == [i \in 1 .. n |-> [x \in Int |-> x + f[i]]]
           Eq(h) == h = [i \in 0 .. n |-> IF i = 0 THEN 0 ELSE h[i - 1] + f[i]]
           sum == CHOOSE h : Eq(h)
<1>1. step \in [1 .. n -> [Int -> Int]]
  OBVIOUS
<1>2. PICK g \in [0 .. n -> Int] : Recursion(g, 0, step, n)
  <2>1. 0 \in Int
    OBVIOUS
  <2> HIDE DEF step
  <2> QED BY <1>1, <2>1, RecursionExists
<1>3. \A i \in 1 .. n : i - 1 \in 0 .. n /\ g[i - 1] \in Int
  OBVIOUS
<1>4. g[0] = 0 /\ \A i \in 1 .. n : g[i] = g[i - 1] + f[i]
  BY <1>2, <1>3 DEF Recursion
<1> HIDE DEF step
<1>5. Eq(g)
  BY <1>4
<1>6. Eq(sum)
  <2> HIDE DEF Eq
  <2> QED BY <1>5
<1>7. SumTo(f, n) = sum[n]
  BY DEF SumTo
<1> HIDE DEF sum
<1>8. sum[0] = 0 /\ \A i \in 1 .. n : sum[i] = sum[i - 1] + f[i]
  BY <1>6
<1>9. \A i \in 0 .. n : sum[i] = g[i]
  <2>1. Alike(sum, g, n)
    BY <1>4, <1>8 DEF Alike
  <2> QED BY <2>1, RecursionUnique
<1>10. SumTo(f, n) = g[n]
  BY <1>7, <1>9
<1> QED BY <1>4, <1>10 DEF Adds

LEMMA SumToInt ==
    ASSUME NEW n \in Nat, NEW f, \A i \in 1 .. n : f[i] \in Int
    PROVE  SumTo(f, n) \in Int
BY SumToIs DEF Adds

LEMMA SumToZero ==
    ASSUME NEW f
    PROVE  SumTo(f, 0) = 0
<1>1. \A i \in 1 .. 0 : f[i] \in Int
  OBVIOUS
<1>2. PICK g : Adds(g, f, 0) /\ SumTo(f, 0) = g[0]
  BY <1>1, SumToIs
<1> QED BY <1>2 DEF Adds

LEMMA SumToNext ==
    ASSUME NEW n \in Nat, NEW f, NEW h, \A i \in 1 .. n + 1 : h[i] \in Int,
           \A i \in 1 .. n : f[i] = h[i]
    PROVE  SumTo(h, n + 1) = SumTo(f, n) + h[n + 1]
<1>1. \A i \in 1 .. n : f[i] \in Int
  OBVIOUS
<1>2. PICK a : Adds(a, f, n) /\ SumTo(f, n) = a[n]
  BY <1>1, SumToIs
<1>3. PICK b : Adds(b, h, n + 1) /\ SumTo(h, n + 1) = b[n + 1]
  BY SumToIs
<1>4. Alike(a, b, n)
  BY <1>2, <1>3 DEF Adds, Alike
<1>5. a[n] = b[n]
  BY <1>4, RecursionUnique
<1>6. b[n + 1] = b[n] + h[n + 1]
  BY <1>3 DEF Adds
<1> QED BY <1>2, <1>3, <1>5, <1>6

LEMMA TotalInt ==
    ASSUME NEW b \in Seq(Reading)
    PROVE  Total(b) \in Int
<1> DEFINE f == [i \in DOMAIN b |-> b[i].value]
<1>1. Len(b) \in Nat /\ DOMAIN b = 1 .. Len(b)
      /\ \A i \in 1 .. Len(b) : b[i] \in Reading /\ f[i] = b[i].value
  OBVIOUS
<1>2. Total(b) = SumTo(f, Len(b))
  BY DEF Total
<1> HIDE DEF f
<1>3. \A i \in 1 .. Len(b) : f[i] \in Int
  BY <1>1 DEF Reading
<1> QED BY <1>1, <1>2, <1>3, SumToInt

LEMMA TotalEmpty == Total(<< >>) = 0
BY SumToZero DEF Total

LEMMA TotalAppend ==
    ASSUME NEW b \in Seq(Reading), NEW r \in Reading
    PROVE  Total(Append(b, r)) = Total(b) + r.value
<1> DEFINE c == Append(b, r)
           n == Len(b)
           f == [i \in DOMAIN b |-> b[i].value]
           h == [i \in DOMAIN c |-> c[i].value]
<1>1. n \in Nat /\ DOMAIN b = 1 .. n /\ DOMAIN c = 1 .. n + 1 /\ Len(c) = n + 1
  OBVIOUS
<1>2. c[n + 1] = r /\ \A i \in 1 .. n : c[i] = b[i]
  OBVIOUS
<1>3. Total(b) = SumTo(f, n) /\ Total(c) = SumTo(h, n + 1)
  BY <1>1 DEF Total
<1>4. \A i \in 1 .. n : f[i] = b[i].value /\ h[i] = b[i].value
  <2> HIDE DEF c, n
  <2> QED BY <1>1, <1>2
<1>5. h[n + 1] = r.value
  <2> HIDE DEF c, n
  <2> QED BY <1>1, <1>2
<1>6. \A i \in 1 .. n + 1 : h[i] \in Int
  <2>1. \A i \in 1 .. n : b[i] \in Reading
    OBVIOUS
  <2> HIDE DEF c, n, f, h
  <2> QED BY <1>1, <1>4, <1>5, <2>1 DEF Reading
<1> HIDE DEF c, n, f, h
<1>7. Total(c) = Total(b) + r.value
  BY <1>1, <1>3, <1>4, <1>5, <1>6, SumToNext
<1> QED BY <1>7 DEF c

LEMMA TotalOne ==
    ASSUME NEW r \in Reading
    PROVE  Total(<<r>>) = r.value
<1>1. << >> \in Seq(Reading) /\ <<r>> = Append(<< >>, r) /\ r.value \in Int
  BY DEF Reading
<1>2. Total(Append(<< >>, r)) = Total(<< >>) + r.value
  BY <1>1, TotalAppend
<1> QED BY <1>1, <1>2, TotalEmpty

-----------------------------------------------------------------------------
(* Greatest values, latest readings and intervals. *)

ValuesOf(b) == {b[i].value : i \in DOMAIN b}
TimesOf(b) == {b[i].time : i \in DOMAIN b}
IsMax(S, m) == m \in S /\ \A x \in S : x <= m

LEMMA MaxIs ==
    ASSUME NEW S \in SUBSET Int, NEW m, IsMax(S, m)
    PROVE  Max(S) = m
<1>1. m \in S /\ \A y \in S : m >= y
  BY DEF IsMax
<1> DEFINE x == Max(S)
<1>2. x \in S /\ \A y \in S : x >= y
  BY <1>1 DEF Max
<1> HIDE DEF x
<1>3. x = m
  BY <1>1, <1>2
<1> QED BY <1>3 DEF x

LEMMA MaxExists ==
    ASSUME NEW b \in Seq(Reading), b # << >>
    PROVE  /\ \E m \in Int : IsMax(ValuesOf(b), m)
           /\ \E t \in Nat : IsMax(TimesOf(b), t)
<1> DEFINE n == Len(b)
           f == [i \in 1 .. n |-> b[i].value]
           h == [i \in 1 .. n |-> b[i].time]
<1>1. n \in Nat \ {0} /\ DOMAIN b = 1 .. n /\ \A i \in 1 .. n : b[i] \in Reading
  OBVIOUS
<1> HIDE DEF n
<1>2. \A i \in 1 .. n : f[i] \in Int /\ h[i] \in Int /\ h[i] \in Nat
  BY <1>1 DEF Reading
<1>3. \A i \in 1 .. n : f[i] = b[i].value /\ h[i] = b[i].time
  OBVIOUS
<1> HIDE DEF f, h
<1>4. PICK i \in 1 .. n : \A j \in 1 .. n : f[j] <= f[i]
  BY <1>1, <1>2, GreatestValue
<1>5. PICK k \in 1 .. n : \A j \in 1 .. n : h[j] <= h[k]
  BY <1>1, <1>2, GreatestValue
<1>6. f[i] \in Int /\ IsMax(ValuesOf(b), f[i])
  BY <1>1, <1>2, <1>3, <1>4 DEF IsMax, ValuesOf
<1>7. h[k] \in Nat /\ IsMax(TimesOf(b), h[k])
  BY <1>1, <1>2, <1>3, <1>5 DEF IsMax, TimesOf
<1> QED BY <1>6, <1>7

LEMMA LatestIs ==
    ASSUME NEW b \in Seq(Reading), NEW t \in Nat, IsMax(TimesOf(b), t)
    PROVE  Latest(b) \in Reading /\ Latest(b).time = t
<1> DEFINE S == {i \in DOMAIN b : b[i].time = t}
           First(i) == \A j \in DOMAIN b :
                           b[j].time < b[i].time \/ (b[j].time = b[i].time /\ i <= j)
           k == CHOOSE i \in DOMAIN b : First(i)
<1>1. DOMAIN b = 1 .. Len(b) /\ Len(b) \in Nat /\ \A i \in DOMAIN b : b[i] \in Reading
  OBVIOUS
<1>2. \A i \in DOMAIN b : b[i].time \in Nat /\ b[i].time <= t
  BY <1>1 DEF IsMax, TimesOf, Reading
<1>3. S # {} /\ S \in SUBSET Nat
  BY <1>1 DEF IsMax, TimesOf
<1>4. PICK i \in S : \A j \in S : i <= j
  <2> HIDE DEF S
  <2> QED BY <1>3, LeastMember
<1>5. First(i)
  BY <1>2, <1>4
<1>6. k \in DOMAIN b /\ First(k)
  <2> HIDE DEF First
  <2> QED BY <1>4, <1>5
<1>7. Latest(b) = b[k]
  BY DEF Latest
<1> HIDE DEF k
<1>8. b[k].time = t
  <2>1. i \in DOMAIN b /\ b[i].time = t
    OBVIOUS
  <2>2. t < b[k].time \/ b[k].time = t
    BY <1>6, <2>1
  <2>3. b[k].time \in Nat /\ b[k].time <= t
    BY <1>2, <1>6
  <2> QED BY <2>2, <2>3
<1> QED BY <1>1, <1>6, <1>7, <1>8

LEMMA FixedIs ==
    ASSUME NEW s \in Nat, NEW t \in Nat
    PROVE  /\ Fixed(t) \in Nat
           /\ Fixed(Fixed(t)) = Fixed(t)
           /\ s <= t => Fixed(s) <= Fixed(t)
BY BufferAssumption DEF BufferAssumption, Fixed

-----------------------------------------------------------------------------
(* Types. *)

LEMMA ReadingIs ==
    ASSUME NEW r \in Reading
    PROVE  r.time \in Nat /\ r.time \in Int /\ r.value \in Int
BY DEF Reading

LEMMA WeightedInt ==
    ASSUME NEW s \in Seq(Reading), s # << >>
    PROVE  Weighted(s) \in Int /\ Timespan(s) \in Int
<1> DEFINE n == Len(s) - 1
           f == [i \in 1 .. n |-> s[i].value * (s[i + 1].time - s[i].time)]
<1>1. n \in Nat /\ \A i \in 1 .. n + 1 : s[i] \in Reading
  OBVIOUS
<1>2. Weighted(s) = SumTo(f, n)
  BY DEF Weighted
<1>3. Timespan(s) = s[n + 1].time - s[1].time
  BY DEF Timespan
<1> HIDE DEF n
<1>4. \A i \in 1 .. n : f[i] \in Int
  <2> TAKE i \in 1 .. n
  <2>1. i \in 1 .. n + 1 /\ i + 1 \in 1 .. n + 1
    BY <1>1
  <2>2. s[i].value \in Int /\ s[i].time \in Int /\ s[i + 1].time \in Int
    BY <1>1, <2>1, ReadingIs
  <2> QED BY <2>2
<1> HIDE DEF f
<1>5. Weighted(s) \in Int
  BY <1>1, <1>2, <1>4, SumToInt
<1>6. Timespan(s) \in Int
  <2>1. n + 1 \in 1 .. n + 1 /\ 1 \in 1 .. n + 1
    BY <1>1
  <2>2. s[n + 1].time \in Int /\ s[1].time \in Int
    BY <1>1, <2>1, ReadingIs
  <2> QED BY <1>3, <2>2
<1> QED BY <1>5, <1>6

LEMMA AggregateTypes ==
    ASSUME TypeOK, mode # "NONE", buf # << >>
    PROVE  AggregateValue(buf) \in Int /\ Latest(buf) \in Reading /\ Fixed(Latest(buf).time) \in Nat
<1>1. buf \in Seq(Reading) /\ lastAvg \in Reading \cup {NoReading}
  BY DEF TypeOK
<1>2. PICK m \in Int : IsMax(ValuesOf(buf), m)
  BY <1>1, MaxExists
<1>3. PICK t \in Nat : IsMax(TimesOf(buf), t)
  BY <1>1, MaxExists
<1>4. Latest(buf) \in Reading /\ Latest(buf).time = t
  BY <1>1, <1>3, LatestIs
<1>5. Fixed(Latest(buf).time) \in Nat
  BY <1>4, FixedIs
<1>6. ASSUME mode = "MAX"
      PROVE  AggregateValue(buf) \in Int
  <2>1. AggregateValue(buf) = Max(ValuesOf(buf))
    BY <1>6 DEF AggregateValue, ValuesOf
  <2>2. ValuesOf(buf) \in SUBSET Int
    <3>1. \A i \in DOMAIN buf : buf[i] \in Reading
      BY <1>1
    <3> QED BY <3>1, ReadingIs DEF ValuesOf
  <2> QED BY <1>2, <2>1, <2>2, MaxIs
<1>7. ASSUME mode = "SUM"
      PROVE  AggregateValue(buf) \in Int
  BY <1>1, <1>7, TotalInt DEF AggregateValue
<1>8. ASSUME mode = "AVG"
      PROVE  AggregateValue(buf) \in Int
  <2> DEFINE s == IF lastAvg = NoReading THEN buf ELSE <<lastAvg>> \o buf
  <2>1. s \in Seq(Reading) /\ s # << >>
    BY <1>1
  <2>2. AggregateValue(buf) =
            IF Timespan(s) > 0 THEN Weighted(s) \div Timespan(s) ELSE Latest(buf).value
    BY <1>8 DEF AggregateValue, Average
  <2> HIDE DEF s
  <2>3. Weighted(s) \in Int /\ Timespan(s) \in Int
    BY <2>1, WeightedInt
  <2>4. Latest(buf).value \in Int
    BY <1>4 DEF Reading
  <2> QED BY <2>2, <2>3, <2>4
<1>9. mode \in {"MAX", "SUM", "AVG"}
  BY BufferAssumption DEF BufferAssumption, TypeOK
<1> QED BY <1>4, <1>5, <1>6, <1>7, <1>8, <1>9

(* What sendData leaves in the buffer. *)
LEMMA SendDataIs ==
    ASSUME TypeOK, SendData, mode # "NONE", buf # << >>
    PROVE  \E r \in Reading :
               /\ buf' = <<r>> /\ r.time = Fixed(Latest(buf).time) /\ r.value = AggregateValue(buf)
               /\ lastAvg' \in {lastAvg, Latest(buf)}
<1> DEFINE r == [time |-> Fixed(Latest(buf).time), value |-> AggregateValue(buf)]
<1>1. AggregateValue(buf) \in Int /\ Fixed(Latest(buf).time) \in Nat
  BY AggregateTypes
<1>2. r \in Reading
  BY <1>1 DEF Reading
<1>3. buf' = <<r>> /\ lastAvg' \in {lastAvg, Latest(buf)}
  BY DEF SendData
<1>4. r.time = Fixed(Latest(buf).time) /\ r.value = AggregateValue(buf)
  OBVIOUS
<1> HIDE DEF r
<1> QED BY <1>2, <1>3, <1>4

LEMMA PushIs ==
    ASSUME TypeOK, Push
    PROVE  \E r \in Reading : buf' = Append(buf, r) /\ raw' = Append(raw, r)
<1>1. PICK t \in Times, v \in Values :
          /\ buf' = Append(buf, [time |-> t, value |-> v])
          /\ raw' = Append(raw, [time |-> t, value |-> v])
  BY DEF Push
<1>2. [time |-> t, value |-> v] \in Reading
  BY BufferAssumption DEF BufferAssumption, Reading
<1> QED BY <1>1, <1>2

LEMMA TypeInductive ==
    ASSUME TypeOK, [Next]_vars
    PROVE  TypeOK'
<1>1. CASE Push
  <2>1. PICK r \in Reading : buf' = Append(buf, r) /\ raw' = Append(raw, r)
    BY <1>1, PushIs
  <2>2. buf \in Seq(Reading) /\ raw \in Seq(Reading) /\ taken \in 0 .. Len(raw)
        /\ Len(raw) < MaxReads /\ MaxReads \in Nat
    BY <1>1, BufferAssumption DEF BufferAssumption, TypeOK, Push
  <2>3. buf' \in Seq(Reading) /\ raw' \in Seq(Reading) /\ Len(raw') = Len(raw) + 1
    BY <2>1, <2>2
  <2>4. taken' \in 0 .. Len(raw') /\ Len(raw') <= MaxReads
    BY <1>1, <2>2, <2>3 DEF Push
  <2> QED BY <1>1, <2>3, <2>4 DEF TypeOK, Push
<1>2. CASE SendData
  <2>1. CASE mode = "NONE" \/ buf = << >>
    BY <1>2, <2>1 DEF TypeOK, SendData
  <2>2. CASE mode # "NONE" /\ buf # << >>
    <3>1. PICK r \in Reading : buf' = <<r>> /\ lastAvg' \in {lastAvg, Latest(buf)}
      BY <1>2, <2>2, SendDataIs
    <3>2. Latest(buf) \in Reading
      BY <2>2, AggregateTypes
    <3>3. buf' \in Seq(Reading)
      BY <3>1
    <3>4. lastAvg' \in Reading \cup {NoReading}
      BY <3>1, <3>2 DEF TypeOK
    <3> QED BY <1>2, <3>3, <3>4 DEF TypeOK, SendData
  <2> QED BY <2>1, <2>2
<1>3. CASE Take
  <2>1. Total(buf) \in Int
    BY TotalInt DEF TypeOK
  <2>2. Len(raw) \in 0 .. Len(raw)
    BY DEF TypeOK
  <2> QED BY <1>3, <2>1, <2>2 DEF TypeOK, Take
<1>4. CASE Leave \/ UNCHANGED vars
  BY <1>4 DEF TypeOK, Leave, vars
<1> QED BY <1>1, <1>2, <1>3, <1>4 DEF Next

(* An aggregate is a reading again, a single one, whatever was aggregated  *)
(* (Buffer::aggregate): there is always a latest reading and a greatest    *)
(* value, and the average is taken of a sequence that is not empty.        *)
THEOREM BufferTypeCorrect == Spec => []TypeOK
<1>1. Init => TypeOK
  BY BufferAssumption DEF BufferAssumption, Init, TypeOK
<1> QED BY <1>1, TypeInductive, PTL DEF Spec

-----------------------------------------------------------------------------
(* Sums are conserved. *)

LEMMA SumStep ==
    ASSUME TypeOK, SumConserved, [Next]_vars
    PROVE  SumConserved'
<1> SUFFICES ASSUME mode' \in {"SUM", "NONE"}
             PROVE  takenSum' + Total(buf') = Total(raw')
  BY DEF SumConserved
<1>1. mode' = mode
  BY DEF Next, Push, SendData, Take, Leave, vars
<1>2. /\ takenSum + Total(buf) = Total(raw) /\ takenSum \in Int
      /\ Total(buf) \in Int /\ Total(raw) \in Int
      /\ buf \in Seq(Reading) /\ raw \in Seq(Reading)
  BY <1>1, TotalInt DEF SumConserved, TypeOK
<1>3. CASE Push
  <2>1. PICK r \in Reading : buf' = Append(buf, r) /\ raw' = Append(raw, r)
    BY <1>3, PushIs
  <2>2. Total(buf') = Total(buf) + r.value /\ Total(raw') = Total(raw) + r.value
    BY <1>2, <2>1, TotalAppend
  <2>3. takenSum' = takenSum /\ r.value \in Int
    BY <1>3, ReadingIs DEF Push
  <2> QED BY <1>2, <2>2, <2>3
<1>4. CASE SendData
  <2>1. takenSum' = takenSum /\ raw' = raw
    BY <1>4 DEF SendData
  <2>2. CASE mode = "NONE" \/ buf = << >>
    BY <1>2, <1>4, <2>1, <2>2 DEF SendData
  <2>3. CASE mode # "NONE" /\ buf # << >>
    <3>1. PICK r \in Reading : buf' = <<r>> /\ r.value = AggregateValue(buf)
      BY <1>4, <2>3, SendDataIs
    <3>2. AggregateValue(buf) = Total(buf)
      BY <1>1, <2>3 DEF AggregateValue
    <3>3. Total(buf') = Total(buf)
      BY <3>1, <3>2, TotalOne
    <3> QED BY <1>2, <2>1, <3>3
  <2> QED BY <2>2, <2>3
<1>5. CASE Take
  <2>1. takenSum' = takenSum + Total(buf) /\ buf' = << >> /\ raw' = raw
    BY <1>5 DEF Take
  <2>2. Total(buf') = 0
    BY <2>1, TotalEmpty
  <2> QED BY <1>2, <2>1, <2>2
<1>6. CASE Leave \/ UNCHANGED vars
  <2>1. takenSum' = takenSum /\ buf' = buf /\ raw' = raw
    BY <1>6 DEF Leave, vars
  <2> QED BY <1>2, <2>1
<1> QED BY <1>3, <1>4, <1>5, <1>6 DEF Next

(* In mode SUM an aggregate that is left behind is summed up again with    *)
(* what came since (Buffer::aggregate, MeterMap::sendData): nothing is     *)
(* counted twice and nothing is lost.                                      *)
THEOREM SumsAreConserved == Spec => []SumConserved
<1>1. Init => SumConserved
  BY TotalEmpty DEF Init, SumConserved
<1> QED BY <1>1, SumStep, BufferTypeCorrect, PTL DEF Spec

-----------------------------------------------------------------------------
(* Aggregates are exact. *)

(* The buffer b stands for the readings p: it is empty with them, it names *)
(* the same interval, has the same sum and the same greatest value.        *)
SameEmpty(b, p) == b = << >> <=> p = << >>
SameTime(b, p) ==
    \E s, t \in Nat : IsMax(TimesOf(b), s) /\ IsMax(TimesOf(p), t) /\ Fixed(s) = Fixed(t)
SameSum(b, p) == Total(b) = Total(p)
SameMax(b, p) == \E m \in Int : IsMax(ValuesOf(b), m) /\ IsMax(ValuesOf(p), m)

LEMMA AppendSets ==
    ASSUME NEW b \in Seq(Reading), NEW r \in Reading
    PROVE  /\ TimesOf(Append(b, r)) = TimesOf(b) \cup {r.time}
           /\ ValuesOf(Append(b, r)) = ValuesOf(b) \cup {r.value}
           /\ Append(b, r) \in Seq(Reading) /\ Append(b, r) # << >>
<1> DEFINE c == Append(b, r)
           n == Len(b)
<1>1. n \in Nat /\ DOMAIN b = 1 .. n /\ DOMAIN c = 1 .. n + 1
      /\ c[n + 1] = r /\ \A i \in 1 .. n : c[i] = b[i]
  OBVIOUS
<1>2. c \in Seq(Reading)
  OBVIOUS
<1>3. c # << >>
  <2>1. Len(c) = Len(b) + 1 /\ Len(b) \in Nat
    OBVIOUS
  <2>2. Len(c) # 0 /\ Len(<< >>) = 0
    BY <2>1
  <2> QED BY <2>2
<1> HIDE DEF c, n
<1>4. TimesOf(c) = TimesOf(b) \cup {r.time}
  BY <1>1 DEF TimesOf
<1>5. ValuesOf(c) = ValuesOf(b) \cup {r.value}
  BY <1>1 DEF ValuesOf
<1> QED BY <1>2, <1>3, <1>4, <1>5 DEF c

LEMMA OneSets ==
    ASSUME NEW r
    PROVE  TimesOf(<<r>>) = {r.time} /\ ValuesOf(<<r>>) = {r.value}
BY DEF TimesOf, ValuesOf

LEMMA MaxWith ==
    ASSUME NEW S \in SUBSET Int, NEW m \in Int, IsMax(S, m), NEW x \in Int
    PROVE  IsMax(S \cup {x}, IF x <= m THEN m ELSE x)
BY DEF IsMax

LEMMA SetsInt ==
    ASSUME NEW b \in Seq(Reading)
    PROVE  ValuesOf(b) \in SUBSET Int /\ TimesOf(b) \in SUBSET Int
<1>1. \A i \in DOMAIN b : b[i] \in Reading
  OBVIOUS
<1> QED BY <1>1, ReadingIs DEF ValuesOf, TimesOf

LEMMA SameTimeAppend ==
    ASSUME NEW b \in Seq(Reading), NEW p \in Seq(Reading), NEW r \in Reading,
           SameTime(b, p) \/ (b = << >> /\ p = << >>)
    PROVE  SameTime(Append(b, r), Append(p, r))
<1> DEFINE x == r.time
<1>1. x \in Nat /\ x \in Int
  BY ReadingIs
<1>2. /\ TimesOf(Append(b, r)) = TimesOf(b) \cup {x} /\ TimesOf(b) \in SUBSET Int
      /\ TimesOf(Append(p, r)) = TimesOf(p) \cup {x} /\ TimesOf(p) \in SUBSET Int
  BY AppendSets, SetsInt
<1> HIDE DEF x
<1>3. CASE b = << >> /\ p = << >>
  <2>1. TimesOf(b) = {} /\ TimesOf(p) = {}
    BY <1>3 DEF TimesOf
  <2>2. IsMax(TimesOf(Append(b, r)), x) /\ IsMax(TimesOf(Append(p, r)), x)
    BY <1>1, <1>2, <2>1 DEF IsMax
  <2> QED BY <1>1, <2>2 DEF SameTime
<1>4. CASE SameTime(b, p)
  <2>1. PICK s \in Nat, t \in Nat :
            IsMax(TimesOf(b), s) /\ IsMax(TimesOf(p), t) /\ Fixed(s) = Fixed(t)
    BY <1>4 DEF SameTime
  <2> DEFINE s2 == IF x <= s THEN s ELSE x
             t2 == IF x <= t THEN t ELSE x
  <2>2. s \in Int /\ t \in Int
    OBVIOUS
  <2>3. IsMax(TimesOf(b) \cup {x}, s2) /\ IsMax(TimesOf(p) \cup {x}, t2)
    BY <1>1, <1>2, <2>1, <2>2, MaxWith
  <2>4. s2 \in Nat /\ t2 \in Nat
    BY <1>1
  <2>5. Fixed(s2) = Fixed(t2)
    <3>1. /\ Fixed(s) \in Nat /\ Fixed(t) \in Nat /\ Fixed(x) \in Nat
          /\ s <= x => Fixed(s) <= Fixed(x)
          /\ x <= s => Fixed(x) <= Fixed(s)
          /\ t <= x => Fixed(t) <= Fixed(x)
          /\ x <= t => Fixed(x) <= Fixed(t)
      BY <1>1, FixedIs
    <3>2. CASE x <= s /\ x <= t
      BY <2>1, <3>2
    <3>3. CASE ~ (x <= s) /\ ~ (x <= t)
      BY <3>3
    <3>4. CASE x <= s /\ ~ (x <= t)
      <4>1. Fixed(x) <= Fixed(s) /\ Fixed(t) <= Fixed(x)
        BY <1>1, <3>1, <3>4
      <4>2. Fixed(s) = Fixed(x)
        BY <2>1, <3>1, <4>1
      <4> QED BY <3>4, <4>2
    <3>5. CASE ~ (x <= s) /\ x <= t
      <4>1. Fixed(x) <= Fixed(t) /\ Fixed(s) <= Fixed(x)
        BY <1>1, <3>1, <3>5
      <4>2. Fixed(t) = Fixed(x)
        BY <2>1, <3>1, <4>1
      <4> QED BY <3>5, <4>2
    <3> QED BY <3>2, <3>3, <3>4, <3>5
  <2> HIDE DEF s2, t2
  <2> QED BY <1>2, <2>3, <2>4, <2>5 DEF SameTime
<1> QED BY <1>3, <1>4

LEMMA SameMaxAppend ==
    ASSUME NEW b \in Seq(Reading), NEW p \in Seq(Reading), NEW r \in Reading,
           SameMax(b, p) \/ (b = << >> /\ p = << >>)
    PROVE  SameMax(Append(b, r), Append(p, r))
<1> DEFINE x == r.value
<1>1. x \in Int
  BY ReadingIs
<1>2. /\ ValuesOf(Append(b, r)) = ValuesOf(b) \cup {x} /\ ValuesOf(b) \in SUBSET Int
      /\ ValuesOf(Append(p, r)) = ValuesOf(p) \cup {x} /\ ValuesOf(p) \in SUBSET Int
  BY AppendSets, SetsInt
<1> HIDE DEF x
<1>3. CASE b = << >> /\ p = << >>
  <2>1. ValuesOf(b) = {} /\ ValuesOf(p) = {}
    BY <1>3 DEF ValuesOf
  <2>2. IsMax(ValuesOf(Append(b, r)), x) /\ IsMax(ValuesOf(Append(p, r)), x)
    BY <1>1, <1>2, <2>1 DEF IsMax
  <2> QED BY <1>1, <2>2 DEF SameMax
<1>4. CASE SameMax(b, p)
  <2>1. PICK m \in Int : IsMax(ValuesOf(b), m) /\ IsMax(ValuesOf(p), m)
    BY <1>4 DEF SameMax
  <2> DEFINE m2 == IF x <= m THEN m ELSE x
  <2>2. IsMax(ValuesOf(Append(b, r)), m2) /\ IsMax(ValuesOf(Append(p, r)), m2)
    BY <1>1, <1>2, <2>1, MaxWith
  <2>3. m2 \in Int
    BY <1>1
  <2> HIDE DEF m2
  <2> QED BY <2>2, <2>3 DEF SameMax
<1> QED BY <1>3, <1>4

(* One reading with the interval and the sum, or the greatest value, of b  *)
(* stands for all that b stands for.                                       *)
LEMMA AggregateStands ==
    ASSUME NEW b \in Seq(Reading), NEW p \in Seq(Reading), b # << >>, NEW r \in Reading,
           SameTime(b, p), r.time = Fixed(Latest(b).time)
    PROVE  /\ SameTime(<<r>>, p) /\ Fixed(r.time) = r.time
           /\ SameSum(b, p) /\ r.value = Total(b) => SameSum(<<r>>, p)
           /\ SameMax(b, p) /\ r.value = Max(ValuesOf(b)) => SameMax(<<r>>, p)
<1>1. TimesOf(<<r>>) = {r.time} /\ ValuesOf(<<r>>) = {r.value} /\ Total(<<r>>) = r.value
  BY OneSets, TotalOne
<1>2. r.time \in Nat /\ r.value \in Int
  BY ReadingIs
<1>3. PICK s \in Nat, t \in Nat :
          IsMax(TimesOf(b), s) /\ IsMax(TimesOf(p), t) /\ Fixed(s) = Fixed(t)
  BY DEF SameTime
<1>4. r.time = Fixed(s) /\ Fixed(r.time) = Fixed(s)
  <2>1. Latest(b).time = s
    BY <1>3, LatestIs
  <2> QED BY <2>1, FixedIs
<1>5. IsMax({r.time}, r.time) /\ IsMax({r.value}, r.value)
  BY <1>2 DEF IsMax
<1>6. SameTime(<<r>>, p)
  BY <1>1, <1>2, <1>3, <1>4, <1>5 DEF SameTime
<1>7. ASSUME SameSum(b, p), r.value = Total(b)
      PROVE  SameSum(<<r>>, p)
  BY <1>1, <1>7 DEF SameSum
<1>8. ASSUME SameMax(b, p), r.value = Max(ValuesOf(b))
      PROVE  SameMax(<<r>>, p)
  <2>1. PICK m \in Int : IsMax(ValuesOf(b), m) /\ IsMax(ValuesOf(p), m)
    BY <1>8 DEF SameMax
  <2>2. r.value = m
    BY <1>8, <2>1, SetsInt, MaxIs
  <2> QED BY <1>1, <1>5, <2>1, <2>2 DEF SameMax
<1> QED BY <1>4, <1>6, <1>7, <1>8

(* The pending readings: none are left when the API takes them, and one is *)
(* added with every push.                                                  *)
LEMMA PendingIs ==
    ASSUME TypeOK
    PROVE  Pending \in Seq(Reading)
<1>1. /\ raw \in Seq(Reading) /\ taken + 1 \in 1 .. Len(raw) + 1
      /\ Len(raw) \in taken + 1 - 1 .. Len(raw)
  BY DEF TypeOK
<1> QED BY <1>1 DEF Pending

LEMMA SuffixAppend ==
    ASSUME NEW s \in Seq(Reading), NEW r \in Reading, NEW k \in 0 .. Len(s)
    PROVE  SubSeq(Append(s, r), k + 1, Len(Append(s, r))) = Append(SubSeq(s, k + 1, Len(s)), r)
<1> DEFINE n == Len(s)
           c == Append(s, r)
           u == SubSeq(c, k + 1, n + 1)
           v == SubSeq(s, k + 1, n)
<1>1. /\ n \in Nat /\ c \in Seq(Reading) /\ Len(c) = n + 1
      /\ c[n + 1] = r /\ \A i \in 1 .. n : c[i] = s[i]
  OBVIOUS
<1>2. k + 1 \in 1 .. n + 1 /\ n + 1 \in k .. n + 1 /\ n \in k .. n /\ k \in 0 .. n
  BY <1>1
<1>3. /\ u \in Seq(Reading) /\ Len(u) = n + 1 - k
      /\ \A i \in 1 .. n + 1 - k : u[i] = c[k + i]
  <2> HIDE DEF c, n
  <2> QED BY <1>1, <1>2
<1>4. v \in Seq(Reading) /\ Len(v) = n - k /\ \A i \in 1 .. n - k : v[i] = s[k + i]
  BY <1>1, <1>2
<1> HIDE DEF c, u, v
<1>5. /\ Append(v, r) \in Seq(Reading) /\ Len(Append(v, r)) = n + 1 - k
      /\ Append(v, r)[n + 1 - k] = r /\ \A i \in 1 .. n - k : Append(v, r)[i] = v[i]
  BY <1>1, <1>2, <1>4
<1>6. ASSUME NEW i \in 1 .. n + 1 - k
      PROVE  u[i] = Append(v, r)[i]
  <2>1. CASE i = n + 1 - k
    BY <1>1, <1>2, <1>3, <1>5, <2>1
  <2>2. CASE i # n + 1 - k
    <3>1. i \in 1 .. n - k /\ k + i \in 1 .. n
      BY <1>2, <2>2
    <3> QED BY <1>1, <1>3, <1>4, <1>5, <3>1
  <2> QED BY <2>1, <2>2
<1>7. u = Append(v, r)
  <2> HIDE DEF n
  <2> QED BY <1>3, <1>5, <1>6, SeqEqual
<1> QED BY <1>1, <1>7 DEF c, u, v

LEMMA SuffixEmpty ==
    ASSUME NEW s \in Seq(Reading)
    PROVE  SubSeq(s, Len(s) + 1, Len(s)) = << >>
OBVIOUS

(* The buffer, with what is left of earlier aggregates, and the pending    *)
(* readings agree in all that an aggregate depends on.                     *)
AggregateInv ==
    mode \in {"MAX", "SUM"} =>
        /\ SameEmpty(buf, Pending)
        /\ buf # << >> => SameTime(buf, Pending)
        /\ mode = "SUM" => SameSum(buf, Pending)
        /\ mode = "MAX" /\ buf # << >> => SameMax(buf, Pending)
        /\ pc = "sent" /\ buf # << >> =>
               \E r \in Reading : buf = <<r>> /\ Fixed(r.time) = r.time

LEMMA AggregateStep ==
    ASSUME TypeOK, AggregateInv, [Next]_vars
    PROVE  AggregateInv'
<1> SUFFICES ASSUME mode' \in {"MAX", "SUM"}
             PROVE  AggregateInv'
  BY DEF AggregateInv
<1>1. mode' = mode
  BY DEF Next, Push, SendData, Take, Leave, vars
<1>2. buf \in Seq(Reading) /\ raw \in Seq(Reading) /\ taken \in 0 .. Len(raw)
      /\ Pending \in Seq(Reading)
  BY PendingIs DEF TypeOK
<1>3. /\ SameEmpty(buf, Pending)
      /\ buf # << >> => SameTime(buf, Pending)
      /\ mode = "SUM" => SameSum(buf, Pending)
      /\ mode = "MAX" /\ buf # << >> => SameMax(buf, Pending)
      /\ pc = "sent" /\ buf # << >> => \E r \in Reading : buf = <<r>> /\ Fixed(r.time) = r.time
  BY <1>1 DEF AggregateInv
<1>4. CASE Push
  <2>1. PICK r \in Reading : buf' = Append(buf, r) /\ raw' = Append(raw, r)
    BY <1>4, PushIs
  <2>2. Pending' = Append(Pending, r)
    <3>1. Pending' = SubSeq(raw', taken + 1, Len(raw'))
      BY <1>4 DEF Push, Pending
    <3> QED BY <1>2, <2>1, <3>1, SuffixAppend DEF Pending
  <2>3. pc' # "sent"
    BY <1>4 DEF Push
  <2>4. SameEmpty(buf', Pending')
    BY <1>2, <2>1, <2>2, AppendSets DEF SameEmpty
  <2>5. SameTime(buf, Pending) \/ (buf = << >> /\ Pending = << >>)
    BY <1>3 DEF SameEmpty
  <2>6. SameTime(buf', Pending')
    BY <1>2, <2>1, <2>2, <2>5, SameTimeAppend
  <2>7. ASSUME mode = "SUM"
        PROVE  SameSum(buf', Pending')
    BY <1>2, <1>3, <2>1, <2>2, <2>7, TotalAppend DEF SameSum
  <2>8. ASSUME mode = "MAX"
        PROVE  SameMax(buf', Pending')
    <3>1. SameMax(buf, Pending) \/ (buf = << >> /\ Pending = << >>)
      BY <1>3, <2>8 DEF SameEmpty
    <3> QED BY <1>2, <2>1, <2>2, <3>1, SameMaxAppend
  <2> QED BY <1>1, <2>3, <2>4, <2>6, <2>7, <2>8 DEF AggregateInv, SameEmpty, SameTime, SameSum, SameMax
<1>5. CASE SendData
  <2>1. Pending' = Pending
    BY <1>5 DEF SendData, Pending
  <2>2. CASE buf = << >>
    <3>1. buf' = buf
      BY <1>5, <2>2 DEF SendData
    <3> QED BY <1>1, <1>3, <2>1, <2>2, <3>1 DEF AggregateInv
  <2>3. CASE buf # << >>
    <3>1. mode # "NONE"
      BY <1>1
    <3>2. PICK r \in Reading :
              buf' = <<r>> /\ r.time = Fixed(Latest(buf).time) /\ r.value = AggregateValue(buf)
      BY <1>5, <2>3, <3>1, SendDataIs
    <3>3. /\ mode = "SUM" => r.value = Total(buf)
          /\ mode = "MAX" => r.value = Max(ValuesOf(buf))
      BY <3>2 DEF AggregateValue, ValuesOf
    <3>4. /\ SameTime(<<r>>, Pending) /\ Fixed(r.time) = r.time
          /\ SameSum(buf, Pending) /\ r.value = Total(buf) => SameSum(<<r>>, Pending)
          /\ SameMax(buf, Pending) /\ r.value = Max(ValuesOf(buf)) => SameMax(<<r>>, Pending)
      BY <1>2, <1>3, <2>3, <3>2, AggregateStands
    <3>5. SameEmpty(<<r>>, Pending)
      BY <1>3, <2>3 DEF SameEmpty
    <3> QED BY <1>1, <1>3, <2>1, <2>3, <3>2, <3>3, <3>4, <3>5 DEF AggregateInv
  <2> QED BY <2>2, <2>3
<1>6. CASE Take
  <2>1. buf' = << >> /\ Pending' = SubSeq(raw, Len(raw) + 1, Len(raw))
    BY <1>6 DEF Take, Pending
  <2>2. Pending' = << >>
    BY <1>2, <2>1, SuffixEmpty
  <2> QED BY <2>1, <2>2 DEF AggregateInv, SameEmpty, SameSum
<1>7. CASE Leave \/ UNCHANGED vars
  <2>1. buf' = buf /\ Pending' = Pending /\ (pc' = pc \/ pc' = "read")
    BY <1>7 DEF Leave, vars, Pending
  <2> QED BY <1>1, <1>3, <2>1 DEF AggregateInv
<1> QED BY <1>4, <1>5, <1>6, <1>7 DEF Next

LEMMA AggregateIsExact ==
    ASSUME TypeOK, AggregateInv
    PROVE  AggregateExact
<1> SUFFICES ASSUME pc = "sent", Pending # << >>, mode \in {"MAX", "SUM"}
             PROVE  buf = <<[time |-> PendingTime,
                             value |-> IF mode = "SUM" THEN Total(Pending)
                                       ELSE Max({Pending[i].value : i \in DOMAIN Pending})]>>
  BY DEF AggregateExact
<1>1. buf # << >>
  BY DEF AggregateInv, SameEmpty
<1>2. PICK r \in Reading : buf = <<r>> /\ Fixed(r.time) = r.time
  BY <1>1 DEF AggregateInv
<1>3. /\ Pending \in Seq(Reading) /\ ValuesOf(Pending) \in SUBSET Int
      /\ TimesOf(Pending) \in SUBSET Int
  BY PendingIs, SetsInt
<1>4. TimesOf(buf) = {r.time} /\ ValuesOf(buf) = {r.value} /\ Total(buf) = r.value
  BY <1>2, OneSets, TotalOne
<1>5. r.time = PendingTime
  <2>1. PICK s \in Nat, t \in Nat :
            IsMax(TimesOf(buf), s) /\ IsMax(TimesOf(Pending), t) /\ Fixed(s) = Fixed(t)
    BY <1>1 DEF AggregateInv, SameTime
  <2>2. s = r.time
    BY <1>4, <2>1 DEF IsMax
  <2>3. Max(TimesOf(Pending)) = t
    BY <1>3, <2>1, MaxIs
  <2>4. PendingTime = Fixed(t)
    BY <2>3 DEF PendingTime, TimesOf
  <2> QED BY <1>2, <2>1, <2>2, <2>4
<1>6. ASSUME mode = "SUM"
      PROVE  r.value = Total(Pending)
  BY <1>4, <1>6 DEF AggregateInv, SameSum
<1>7. ASSUME mode = "MAX"
      PROVE  r.value = Max({Pending[i].value : i \in DOMAIN Pending})
  <2>1. PICK m \in Int : IsMax(ValuesOf(buf), m) /\ IsMax(ValuesOf(Pending), m)
    BY <1>1, <1>7 DEF AggregateInv, SameMax
  <2>2. m = r.value
    BY <1>4, <2>1 DEF IsMax
  <2>3. Max(ValuesOf(Pending)) = m
    BY <1>3, <2>1, MaxIs
  <2> QED BY <2>2, <2>3 DEF ValuesOf
<1> DEFINE v == IF mode = "SUM" THEN Total(Pending)
                ELSE Max({Pending[i].value : i \in DOMAIN Pending})
<1>8. r.value = v
  BY <1>6, <1>7
<1> HIDE DEF v
<1>9. r = [time |-> PendingTime, value |-> v]
  BY <1>5, <1>8 DEF Reading
<1> QED BY <1>2, <1>9 DEF v

(* An aggregate that the API leaves behind is aggregated again with what   *)
(* came since, its time cut to the interval once more: it is the maximum   *)
(* or the sum of all the readings all the same, at the time of the latest  *)
(* (Buffer::aggregate, MeterMap::sendData).                                *)
THEOREM AggregatesAreExact == Spec => []AggregateExact
<1>1. Init => AggregateInv
  <2>1. ASSUME Init
        PROVE  Pending = << >>
    <3>1. << >> \in Seq(Reading) /\ Len(<< >>) = 0
      OBVIOUS
    <3>2. Pending = SubSeq(<< >>, Len(<< >>) + 1, Len(<< >>))
      BY <2>1, <3>1 DEF Init, Pending
    <3> QED BY <3>1, <3>2, SuffixEmpty
  <2> QED BY <2>1 DEF Init, AggregateInv, SameEmpty, SameSum
<1> QED BY <1>1, AggregateStep, AggregateIsExact, BufferTypeCorrect, PTL DEF Spec

-----------------------------------------------------------------------------
(* Averages are those of what the meter showed. *)

Rising(s) == \A i, j \in DOMAIN s : i < j => s[i].time < s[j].time

LEMMA LatestLast ==
    ASSUME NEW b \in Seq(Reading), b # << >>, Rising(b)
    PROVE  Latest(b) = b[Len(b)]
<1> DEFINE n == Len(b)
           First(i) == \A j \in DOMAIN b :
                           b[j].time < b[i].time \/ (b[j].time = b[i].time /\ i <= j)
           k == CHOOSE i \in DOMAIN b : First(i)
<1>1. /\ n \in Nat /\ DOMAIN b = 1 .. n /\ n \in 1 .. n
      /\ \A i \in 1 .. n : b[i] \in Reading
  OBVIOUS
<1>2. Latest(b) = b[k]
  BY DEF Latest
<1> HIDE DEF n
<1>3. \A i \in 1 .. n : b[i].time \in Int
  BY <1>1, ReadingIs
<1>4. First(n)
  <2> SUFFICES ASSUME NEW j \in 1 .. n
               PROVE  b[j].time < b[n].time \/ (b[j].time = b[n].time /\ n <= j)
    BY <1>1
  <2>1. j = n \/ j < n
    BY <1>1
  <2> QED BY <1>1, <2>1 DEF Rising
<1>5. ASSUME NEW i \in 1 .. n, First(i)
      PROVE  i = n
  <2>1. b[n].time < b[i].time \/ (b[n].time = b[i].time /\ i <= n)
    BY <1>1, <1>5
  <2>2. i < n => b[i].time < b[n].time
    BY <1>1 DEF Rising
  <2> QED BY <1>1, <1>3, <2>1, <2>2
<1>6. k \in 1 .. n /\ First(k)
  <2> HIDE DEF First
  <2> QED BY <1>1, <1>4
<1>7. k = n
  <2> HIDE DEF k
  <2> QED BY <1>5, <1>6
<1> QED BY <1>2, <1>7 DEF n

(* A meter shows a value until the next reading.                           *)
LEMMA ShownValue ==
    ASSUME raw \in Seq(Reading), Rising(raw), NEW i \in DOMAIN raw, NEW t \in Int,
           raw[i].time <= t, i + 1 \in DOMAIN raw => t < raw[i + 1].time
    PROVE  ValueAt(t) = raw[i].value
<1> DEFINE n == Len(raw)
           before == {j \in DOMAIN raw : raw[j].time <= t}
           Last(j) == \A k \in before : raw[k].time <= raw[j].time
           c == CHOOSE j \in before : Last(j)
<1>1. n \in Nat /\ DOMAIN raw = 1 .. n /\ \A j \in 1 .. n : raw[j].time \in Int
  BY ReadingIs
<1>2. ValueAt(t) = raw[c].value
  BY DEF ValueAt
<1> HIDE DEF n
<1>3. ASSUME NEW j \in 1 .. n, raw[j].time <= t
      PROVE  j <= i
  <2> SUFFICES ASSUME i < j
               PROVE  FALSE
    BY <1>1
  <2>1. i + 1 \in 1 .. n /\ (i + 1 = j \/ i + 1 < j)
    BY <1>1
  <2>2. raw[i + 1].time <= raw[j].time
    BY <1>1, <2>1 DEF Rising
  <2> QED BY <1>1, <1>3, <2>1, <2>2
<1>4. i \in before /\ Last(i)
  <2>1. ASSUME NEW k \in 1 .. n, raw[k].time <= t
        PROVE  raw[k].time <= raw[i].time
    <3>1. k = i \/ k < i
      BY <1>1, <1>3, <2>1
    <3>2. k < i => raw[k].time < raw[i].time
      BY <1>1 DEF Rising
    <3> QED BY <1>1, <3>1, <3>2
  <2> QED BY <1>1, <2>1
<1>5. c \in before /\ Last(c)
  <2> HIDE DEF Last, before
  <2> QED BY <1>4
<1>6. c = i
  <2> HIDE DEF c
  <2>1. c \in 1 .. n /\ raw[c].time <= t /\ raw[i].time <= raw[c].time
    BY <1>1, <1>4, <1>5
  <2>2. c = i \/ c < i
    BY <1>1, <1>3, <2>1
  <2>3. c < i => raw[c].time < raw[i].time
    BY <1>1, <2>1 DEF Rising
  <2> QED BY <1>1, <2>1, <2>2, <2>3
<1> QED BY <1>2, <1>6

LEMMA Distributes ==
    ASSUME NEW v \in Int, NEW d \in Int
    PROVE  v * (d + 1) = v * d + v /\ v * 0 = 0 /\ v * d \in Int
OBVIOUS

Ints(f, k) == \A i \in 1 .. k : f[i] \in Int

Level(f, m, d, v) == \A i \in m + 1 .. m + d : f[i] = v

(* Adding the same value d times.                                          *)
LEMMA SumToStretch ==
    ASSUME NEW m \in Nat, NEW d \in Nat, NEW f, NEW v \in Int,
           Ints(f, m), Level(f, m, d, v)
    PROVE  SumTo(f, m + d) = SumTo(f, m) + v * d
<1> DEFINE S == {e \in 0 .. d : SumTo(f, m + e) = SumTo(f, m) + v * e}
<1>1. \A i \in 1 .. m + d : f[i] \in Int
  <2> TAKE i \in 1 .. m + d
  <2>1. i \in 1 .. m \/ i \in m + 1 .. m + d
    OBVIOUS
  <2> QED BY <2>1 DEF Ints, Level
<1>2. SumTo(f, m) \in Int
  BY SumToInt DEF Ints
<1>3. 0 \in S
  BY <1>2, Distributes
<1>4. ASSUME NEW e \in 0 .. d - 1, e \in S
      PROVE  e + 1 \in S
  <2>1. /\ m + e \in Nat /\ (m + e) + 1 = m + (e + 1) /\ e + 1 \in 0 .. d
        /\ m + (e + 1) \in m + 1 .. m + d /\ e \in Int
    OBVIOUS
  <2>2. \A i \in 1 .. (m + e) + 1 : f[i] \in Int
    <3> TAKE i \in 1 .. (m + e) + 1
    <3>1. i \in 1 .. m + d
      OBVIOUS
    <3> QED BY <1>1, <3>1
  <2>3. SumTo(f, (m + e) + 1) = SumTo(f, m + e) + f[(m + e) + 1]
    BY <2>1, <2>2, SumToNext
  <2>4. f[m + (e + 1)] = v
    BY <2>1 DEF Level
  <2>5. SumTo(f, m + e) = SumTo(f, m) + v * e
    BY <1>4
  <2>6. v * (e + 1) = v * e + v /\ v * e \in Int
    BY <2>1, Distributes
  <2>7. SumTo(f, m + (e + 1)) = SumTo(f, m) + v * (e + 1)
    BY <1>2, <2>1, <2>3, <2>4, <2>5, <2>6
  <2> QED BY <2>1, <2>7
<1>5. d \in S
  <2> HIDE DEF S
  <2>1. 0 .. d \subseteq S
    BY <1>3, <1>4, BoundedInduction
  <2> QED BY <2>1
<1> QED BY <1>5

(* The moments T[0] .. T[k], with the value V[j] until the j-th; the value *)
(* F[q] at the q-th moment from T[0] on, and W[j], V[j] weighted by how    *)
(* long it was shown.  Up to each T[j] both add up to the same.            *)
Steps(T, V, k) ==
    \A j \in 1 .. k : T[j - 1] \in Int /\ T[j] \in Int /\ T[j - 1] <= T[j] /\ V[j] \in Int

Shows(F, T, V, k) ==
    \A j \in 1 .. k : \A q \in T[j - 1] - T[0] + 1 .. T[j] - T[0] : F[q] = V[j]

Weighs(W, T, V, k) == \A j \in 1 .. k : W[j] = V[j] * (T[j] - T[j - 1])

Tiled(F, T, W, j) ==
    /\ T[j] - T[0] \in Nat
    /\ Ints(F, T[j] - T[0])
    /\ Ints(W, j)
    /\ SumTo(F, T[j] - T[0]) = SumTo(W, j)

OneMore(F, W, j, m, d, v) ==
    /\ j \in Nat /\ m \in Nat /\ d \in Nat /\ v \in Int
    /\ Ints(F, m) /\ Level(F, m, d, v)
    /\ Ints(W, j) /\ W[j + 1] = v * d
    /\ SumTo(F, m) = SumTo(W, j)

LEMMA TilesOne ==
    ASSUME NEW F, NEW W, NEW j, NEW m, NEW d, NEW v, OneMore(F, W, j, m, d, v)
    PROVE  /\ Ints(F, m + d)
           /\ Ints(W, j + 1)
           /\ SumTo(F, m + d) = SumTo(W, j + 1)
<1>0. /\ j \in Nat /\ m \in Nat /\ d \in Nat /\ v \in Int
      /\ Ints(F, m) /\ Level(F, m, d, v)
      /\ Ints(W, j) /\ W[j + 1] = v * d
      /\ SumTo(F, m) = SumTo(W, j)
  BY DEF OneMore
<1>1. SumTo(F, m + d) = SumTo(F, m) + v * d
  BY <1>0, SumToStretch
<1>2. Ints(F, m + d)
  <2> SUFFICES ASSUME NEW q \in 1 .. m + d
               PROVE  F[q] \in Int
    BY DEF Ints
  <2>1. q \in 1 .. m \/ q \in m + 1 .. m + d
    BY <1>0
  <2> QED BY <1>0, <2>1 DEF Ints, Level
<1>3. \A i \in 1 .. j + 1 : W[i] \in Int
  <2> TAKE i \in 1 .. j + 1
  <2>1. i \in 1 .. j \/ i = j + 1
    BY <1>0
  <2>2. v * d \in Int
    BY <1>0, Distributes
  <2> QED BY <1>0, <2>1, <2>2 DEF Ints
<1>4. SumTo(W, j + 1) = SumTo(W, j) + W[j + 1]
  BY <1>0, <1>3, SumToNext
<1> QED BY <1>0, <1>1, <1>2, <1>3, <1>4 DEF Ints

LEMMA TilesNext ==
    ASSUME NEW F, NEW T, NEW V, NEW W, NEW j \in Nat, T[0] \in Int,
           Steps(T, V, j + 1), Shows(F, T, V, j + 1), Weighs(W, T, V, j + 1), Tiled(F, T, W, j)
    PROVE  Tiled(F, T, W, j + 1)
<1> DEFINE m == T[j] - T[0]
           d == T[j + 1] - T[j]
           v == V[j + 1]
<1>1. j + 1 \in 1 .. j + 1 /\ (j + 1) - 1 = j
  OBVIOUS
<1>2. T[j] \in Int /\ T[j + 1] \in Int /\ T[j] <= T[j + 1] /\ v \in Int
  BY <1>1 DEF Steps
<1>3. m \in Nat /\ d \in Nat /\ m + d = T[j + 1] - T[0]
  BY <1>2 DEF Tiled
<1>4. Level(F, m, d, v)
  BY <1>1, <1>3 DEF Shows, Level
<1>5. W[j + 1] = v * d
  BY <1>1 DEF Weighs
<1>6. Ints(F, m) /\ Ints(W, j) /\ SumTo(F, m) = SumTo(W, j)
  BY DEF Tiled
<1>7. OneMore(F, W, j, m, d, v)
  BY <1>2, <1>3, <1>4, <1>5, <1>6 DEF OneMore
<1> HIDE DEF m, d, v
<1>8. /\ Ints(F, m + d)
      /\ Ints(W, j + 1)
      /\ SumTo(F, m + d) = SumTo(W, j + 1)
  BY <1>7, TilesOne
<1>9. m + d \in Nat
  BY <1>3
<1> QED BY <1>3, <1>8, <1>9 DEF Tiled

LEMMA TilesAll ==
    ASSUME NEW F, NEW T, NEW V, NEW W, NEW k \in Nat, T[0] \in Int,
           Steps(T, V, k), Shows(F, T, V, k), Weighs(W, T, V, k)
    PROVE  SumTo(F, T[k] - T[0]) = SumTo(W, k)
<1> DEFINE S == {j \in 0 .. k : Tiled(F, T, W, j)}
<1>1. 0 \in S
  <2>1. T[0] - T[0] = 0 /\ SumTo(F, 0) = 0 /\ SumTo(W, 0) = 0 /\ 1 .. 0 = {}
    BY SumToZero
  <2> QED BY <2>1 DEF Tiled, Ints
<1>2. ASSUME NEW j \in 0 .. k - 1, j \in S
      PROVE  j + 1 \in S
  <2>1. j \in Nat /\ j + 1 \in 0 .. k /\ 1 .. j + 1 \subseteq 1 .. k
    OBVIOUS
  <2>2. Steps(T, V, j + 1) /\ Shows(F, T, V, j + 1) /\ Weighs(W, T, V, j + 1)
    BY <2>1 DEF Steps, Shows, Weighs
  <2>3. Tiled(F, T, W, j)
    BY <1>2
  <2> QED BY <2>1, <2>2, <2>3, TilesNext
<1>3. k \in S
  <2> HIDE DEF S
  <2>1. 0 .. k \subseteq S
    BY <1>1, <1>2, BoundedInduction
  <2> QED BY <2>1
<1> QED BY <1>3 DEF Tiled

LEMMA TailIndex ==
    ASSUME NEW n \in Nat, NEW a \in 1 .. n, NEW k \in Nat, n = a + k, NEW j \in 1 .. k
    PROVE  /\ j \in 0 .. k /\ j - 1 \in 0 .. k /\ (j - 1) + 1 = j
           /\ a + (j - 1) \in 1 .. n /\ a + j \in 1 .. n
           /\ (a + (j - 1)) + 1 = a + j /\ a + (j - 1) < a + j
           /\ a + (j - 1) = a \/ a < a + (j - 1)
           /\ a + j = n \/ a + j < n
OBVIOUS

LEMMA Between ==
    ASSUME NEW from \in Int, NEW to \in Int, NEW t1 \in Int, NEW t2 \in Int,
           from <= t1, t2 <= to, NEW q \in t1 - from + 1 .. t2 - from
    PROVE  /\ q \in 1 .. to - from /\ from + q - 1 \in Int
           /\ t1 <= from + q - 1 /\ from + q - 1 < t2
OBVIOUS

(* s is what is left of raw from the a-th on.                              *)
Suffix(s, a, k) ==
    /\ Len(raw) = a + k /\ Len(s) = k + 1
    /\ \A i \in 0 .. k : s[i + 1] = raw[a + i]

(* The readings from one on, seen as the loop of aggregate sees them.      *)
LEMMA WeightedIsIntegral ==
    ASSUME raw \in Seq(Reading), Rising(raw), NEW a \in DOMAIN raw,
           NEW s, NEW k \in Nat, Suffix(s, a, k)
    PROVE  /\ Weighted(s) = Integral(raw[a].time, raw[Len(raw)].time)
           /\ Timespan(s) = raw[Len(raw)].time - raw[a].time
<1> DEFINE n == Len(raw)
           from == raw[a].time
           to == raw[n].time
           T == [j \in 0 .. k |-> raw[a + j].time]
           V == [j \in 1 .. k |-> s[j].value]
           W == [i \in 1 .. k |-> s[i].value * (s[i + 1].time - s[i].time)]
           F == [q \in 1 .. to - from |-> ValueAt(from + q - 1)]
<1>1. n \in Nat /\ DOMAIN raw = 1 .. n /\ \A i \in 1 .. n : raw[i] \in Reading
  OBVIOUS
<1>2. n = a + k /\ Len(s) = k + 1 /\ \A i \in 0 .. k : s[i + 1] = raw[a + i]
  BY DEF Suffix
<1>3. Integral(from, to) = SumTo(F, to - from)
  BY DEF Integral
<1>4. Weighted(s) = SumTo(W, k)
  <2>1. Len(s) - 1 = k
    BY <1>2
  <2> QED BY <2>1 DEF Weighted
<1>5. \A i \in 1 .. n : raw[i].time \in Int /\ raw[i].value \in Int
  BY <1>1, ReadingIs
<1>6. \A x, y \in 1 .. n : x < y => raw[x].time < raw[y].time
  BY <1>1 DEF Rising
<1>7. a \in 1 .. n
  BY <1>1
<1>8. Timespan(s) = to - from
  <2>1. a + 0 = a /\ 0 + 1 = 1 /\ 0 \in 0 .. k /\ k \in 0 .. k
    BY <1>7
  <2>2. s[1] = raw[a] /\ s[k + 1] = raw[n]
    BY <1>2, <2>1
  <2> QED BY <1>2, <2>2 DEF Timespan
<1> HIDE DEF n
<1>9. n \in 1 .. n /\ 0 \in 0 .. k /\ k \in 0 .. k
  BY <1>1, <1>2, <1>7
<1>10. ASSUME NEW j \in 1 .. k
       PROVE  /\ j \in 0 .. k /\ j - 1 \in 0 .. k /\ (j - 1) + 1 = j
              /\ a + (j - 1) \in 1 .. n /\ a + j \in 1 .. n
              /\ (a + (j - 1)) + 1 = a + j /\ a + (j - 1) < a + j
              /\ a + (j - 1) = a \/ a < a + (j - 1)
              /\ a + j = n \/ a + j < n
  <2>1. n \in Nat
    BY <1>1
  <2>2. n = a + k
    BY <1>2
  <2> QED BY ONLY k \in Nat, <1>7, <2>1, <2>2, j \in 1 .. k, TailIndex
<1>11. from \in Int /\ to \in Int
  BY <1>5, <1>7, <1>9
<1>12. T[0] = from /\ T[k] = to
  <2>1. a + 0 = a
    BY <1>7
  <2> QED BY <1>2, <1>9, <2>1
<1>13. ASSUME NEW j \in 1 .. k
       PROVE  /\ T[j - 1] = raw[a + (j - 1)].time /\ T[j] = raw[a + j].time
              /\ V[j] = raw[a + (j - 1)].value /\ s[j].value = raw[a + (j - 1)].value
              /\ W[j] = V[j] * (T[j] - T[j - 1])
  <2>1. T[j - 1] = raw[a + (j - 1)].time /\ T[j] = raw[a + j].time
    BY <1>10
  <2>2. s[(j - 1) + 1] = raw[a + (j - 1)] /\ s[j + 1] = raw[a + j]
    BY <1>2, <1>10
  <2>3. s[j] = raw[a + (j - 1)]
    BY <1>10, <2>2
  <2> QED BY <2>1, <2>2, <2>3
<1>14. \A q \in 1 .. to - from : F[q] = ValueAt(from + q - 1)
  OBVIOUS
<1>15. ASSUME NEW j \in 1 .. k
       PROVE  from <= T[j - 1] /\ T[j] <= to
  <2> DEFINE x == a + (j - 1)
             y == a + j
  <2>1. /\ x \in 1 .. n /\ y \in 1 .. n
        /\ x = a \/ a < x
        /\ y = n \/ y < n
    BY <1>10
  <2>2. T[j - 1] = raw[x].time /\ T[j] = raw[y].time
    BY <1>13
  <2> HIDE DEF x, y, T
  <2>3. raw[x].time \in Int /\ raw[y].time \in Int
    BY <1>5, <2>1
  <2>4. CASE x = a
    <3>1. y = n \/ raw[y].time < raw[n].time
      BY <1>6, <1>9, <2>1
    <3> QED BY ONLY <1>11, <2>2, <2>3, <2>4, <3>1
  <2>5. CASE a < x
    <3>1. raw[a].time < raw[x].time
      BY <1>6, <1>7, <2>1, <2>5
    <3>2. y = n \/ raw[y].time < raw[n].time
      BY <1>6, <1>9, <2>1
    <3> QED BY ONLY <1>11, <2>2, <2>3, <3>1, <3>2
  <2> QED BY <2>1, <2>4, <2>5
<1> HIDE DEF T, V, W, F, from, to
<1>16. ASSUME NEW j \in 1 .. k
       PROVE  /\ T[j - 1] \in Int /\ T[j] \in Int /\ T[j - 1] <= T[j] /\ V[j] \in Int
              /\ T[j - 1] < T[j]
  <2> DEFINE x == a + (j - 1)
             y == a + j
  <2>1. x \in 1 .. n /\ y \in 1 .. n /\ x < y
    BY <1>10
  <2>2. T[j - 1] = raw[x].time /\ T[j] = raw[y].time /\ V[j] = raw[x].value
    BY <1>13
  <2> HIDE DEF x, y
  <2>3. raw[x].time < raw[y].time
    BY <1>6, <2>1
  <2>4. raw[x].time \in Int /\ raw[y].time \in Int /\ raw[x].value \in Int
    BY <1>5, <2>1
  <2> QED BY ONLY <2>2, <2>3, <2>4
<1>17. Steps(T, V, k)
  BY <1>16 DEF Steps
<1>18. Weighs(W, T, V, k)
  BY <1>13 DEF Weighs
<1>19. ASSUME NEW j \in 1 .. k, NEW q \in T[j - 1] - from + 1 .. T[j] - from
       PROVE  F[q] = V[j]
  <2> DEFINE t == from + q - 1
             x == a + (j - 1)
  <2>1. T[j - 1] \in Int /\ T[j] \in Int
    BY <1>16
  <2>2. from <= T[j - 1] /\ T[j] <= to
    BY <1>15
  <2>3. q \in 1 .. to - from /\ t \in Int /\ T[j - 1] <= t /\ t < T[j]
    BY <1>11, <2>1, <2>2, Between
  <2>4. F[q] = ValueAt(t)
    BY <1>14, <2>3
  <2>5. x \in 1 .. n /\ x + 1 = a + j
    BY <1>10
  <2>6. raw[x].time = T[j - 1] /\ raw[x + 1].time = T[j] /\ V[j] = raw[x].value
    BY <1>13, <2>5
  <2>7. x \in DOMAIN raw
    BY <1>1, <2>5
  <2> HIDE DEF t, x
  <2>8. raw[x].time <= t /\ t < raw[x + 1].time
    BY <2>3, <2>6
  <2>9. ValueAt(t) = raw[x].value
    BY <2>3, <2>7, <2>8, ShownValue
  <2> QED BY <2>4, <2>6, <2>9
<1>20. Shows(F, T, V, k)
  BY <1>12, <1>19 DEF Shows
<1>21. SumTo(F, T[k] - T[0]) = SumTo(W, k)
  BY <1>11, <1>12, <1>17, <1>18, <1>20, TilesAll
<1> QED BY <1>3, <1>4, <1>8, <1>12, <1>21 DEF from, to, n

LEMMA TailIs ==
    ASSUME NEW s \in Seq(Reading), NEW k \in 0 .. Len(s), NEW p, p = SubSeq(s, k + 1, Len(s))
    PROVE  /\ p \in Seq(Reading) /\ Len(p) = Len(s) - k
           /\ \A i \in 1 .. Len(s) - k : p[i] = s[k + i]
<1> DEFINE n == Len(s)
           v == SubSeq(s, k + 1, n)
<1>1. k + 1 \in 1 .. n + 1 /\ n \in k .. n /\ k \in 0 .. n
  OBVIOUS
<1>2. v \in Seq(Reading) /\ Len(v) = n - k /\ \A i \in 1 .. n - k : v[i] = s[k + i]
  BY <1>1
<1> QED BY <1>2

LEMMA ConsIs ==
    ASSUME NEW p \in Seq(Reading), NEW r \in Reading, NEW q, q = <<r>> \o p
    PROVE  q[1] = r /\ Len(q) = Len(p) + 1 /\ \A i \in 1 .. Len(p) : q[i + 1] = p[i]
OBVIOUS

(* What the average is taken of: the reading before, if there is one, and  *)
(* the pending ones.                                                       *)
LEMMA AveragedAre ==
    ASSUME raw \in Seq(Reading), NEW n \in Nat, n = Len(raw), NEW m \in Nat, m < n,
           NEW p, p \in Seq(Reading), Len(p) = n - m, \A i \in 1 .. n - m : p[i] = raw[m + i]
    PROVE  /\ p # << >> /\ p[Len(p)] = raw[n]
           /\ Rising(raw) => Rising(p)
           /\ m = 0 => Suffix(p, 1, n - 1)
           /\ m # 0 => Suffix(<<raw[m]>> \o p, m, n - m)
<1>1. DOMAIN raw = 1 .. n /\ \A i \in 1 .. n : raw[i] \in Reading
  OBVIOUS
<1>2. n - m \in Nat /\ n - m \in 1 .. n - m /\ m + (n - m) = n /\ n - m # 0
  OBVIOUS
<1>3. p # << >> /\ p[Len(p)] = raw[n]
  BY <1>2
<1>4. ASSUME Rising(raw)
      PROVE  Rising(p)
  <2> SUFFICES ASSUME NEW i \in 1 .. n - m, NEW j \in 1 .. n - m, i < j
               PROVE  p[i].time < p[j].time
    BY DEF Rising
  <2>1. m + i \in 1 .. n /\ m + j \in 1 .. n /\ m + i < m + j
    OBVIOUS
  <2>2. raw[m + i].time < raw[m + j].time
    BY <1>1, <1>4, <2>1 DEF Rising
  <2>3. p[i] = raw[m + i] /\ p[j] = raw[m + j]
    OBVIOUS
  <2> QED BY ONLY <2>2, <2>3
<1>5. ASSUME m = 0
      PROVE  Suffix(p, 1, n - 1)
  <2>1. n = 1 + (n - 1) /\ Len(p) = (n - 1) + 1
    BY <1>5
  <2>2. ASSUME NEW i \in 0 .. n - 1
        PROVE  p[i + 1] = raw[1 + i]
    <3>1. i + 1 \in 1 .. n - m /\ m + (i + 1) = 1 + i
      BY <1>5
    <3> QED BY <3>1
  <2> QED BY <2>1, <2>2 DEF Suffix
<1>6. ASSUME m # 0
      PROVE  Suffix(<<raw[m]>> \o p, m, n - m)
  <2> DEFINE q == <<raw[m]>> \o p
  <2>1. n = m + (n - m) /\ m \in 1 .. n
    BY <1>6
  <2>2. raw[m] \in Reading
    BY <1>1, <2>1
  <2>3. q[1] = raw[m] /\ Len(q) = (n - m) + 1 /\ \A i \in 1 .. n - m : q[i + 1] = p[i]
    <3>1. q = <<raw[m]>> \o p
      OBVIOUS
    <3> HIDE DEF q
    <3>2. q[1] = raw[m] /\ Len(q) = Len(p) + 1 /\ \A i \in 1 .. Len(p) : q[i + 1] = p[i]
      BY ONLY p \in Seq(Reading), <2>2, <3>1, ConsIs
    <3> QED BY <3>2
  <2> HIDE DEF q
  <2>4. ASSUME NEW i \in 0 .. n - m
        PROVE  q[i + 1] = raw[m + i]
    <3>1. CASE i = 0
      BY <2>3, <3>1
    <3>2. CASE i # 0
      <4>1. i \in 1 .. n - m
        BY <3>2
      <4> QED BY <2>3, <4>1
    <3> QED BY <3>1, <3>2
  <2>5. Suffix(q, m, n - m)
    BY <2>1, <2>3, <2>4 DEF Suffix
  <2> QED BY <2>5 DEF q
<1> QED BY <1>3, <1>4, <1>5, <1>6

From == raw[IF taken = 0 THEN 1 ELSE taken].time

To == raw[Len(raw)].time

LastShown(n) == IF n = 0 THEN NoReading ELSE raw[n]

(* What aggregate computes when the last average was taken with the last   *)
(* reading taken over.                                                     *)
LEMMA AverageIs ==
    ASSUME TypeOK, mode = "AVG", Rising(raw), buf = Pending, buf # << >>,
           lastAvg = LastShown(taken)
    PROVE  /\ Latest(buf) = raw[Len(raw)] /\ Latest(buf).time = To
           /\ From = To => AggregateValue(buf) = raw[Len(raw)].value
           /\ From # To => AggregateValue(buf) = Integral(From, To) \div (To - From)
<1> DEFINE n == Len(raw)
           a == IF taken = 0 THEN 1 ELSE taken
           s == IF lastAvg = NoReading THEN buf ELSE <<lastAvg>> \o buf
<1>1. raw \in Seq(Reading) /\ n \in Nat /\ taken \in 0 .. n
  BY DEF TypeOK
<1>2. DOMAIN raw = 1 .. n /\ \A i \in 1 .. n : raw[i] \in Reading
  BY <1>1
<1>3. buf \in Seq(Reading) /\ Len(buf) = n - taken /\ \A i \in 1 .. n - taken : buf[i] = raw[taken + i]
  BY <1>1, TailIs DEF Pending
<1>4. n = Len(raw)
  OBVIOUS
<1>5. a \in 1 .. n /\ taken < n /\ taken \in Nat /\ n - a \in Nat /\ n \in 1 .. n
  <2>1. n # taken
    BY <1>3
  <2> QED BY <1>1, <2>1
<1> HIDE DEF n
<1>6. buf[Len(buf)] = raw[n] /\ Rising(buf)
  BY <1>1, <1>3, <1>4, <1>5, AveragedAre
<1>7. /\ taken = 0 => Suffix(buf, 1, n - 1)
      /\ taken # 0 => Suffix(<<raw[taken]>> \o buf, taken, n - taken)
  BY <1>1, <1>3, <1>4, <1>5, AveragedAre
<1>8. Suffix(s, a, n - a)
  <2>1. CASE taken = 0
    BY <1>7, <2>1 DEF LastShown
  <2>2. CASE taken # 0
    <3>1. taken \in 1 .. n
      BY <1>1, <2>2
    <3>2. raw[taken] \in Reading /\ raw[taken] # NoReading
      BY <1>2, <3>1, BufferAssumption DEF BufferAssumption
    <3>3. s = <<raw[taken]>> \o buf /\ a = taken
      BY <2>2, <3>2 DEF LastShown
    <3> QED BY <1>7, <2>2, <3>3
  <2> QED BY <2>1, <2>2
<1>9. AggregateValue(buf) =
          IF Timespan(s) > 0 THEN Weighted(s) \div Timespan(s) ELSE Latest(buf).value
  BY DEF AggregateValue, Average
<1>10. Latest(buf) = raw[n]
  BY <1>3, <1>6, LatestLast
<1>11. From = raw[a].time /\ To = raw[n].time
  BY <1>4 DEF From, To
<1> HIDE DEF s, a
<1>12. Weighted(s) = Integral(From, To) /\ Timespan(s) = To - From
  <2>1. a \in DOMAIN raw
    BY <1>2, <1>5
  <2> DEFINE k == n - a
  <2>2. k \in Nat /\ Suffix(s, a, k)
    BY <1>5, <1>8
  <2> HIDE DEF k
  <2>3. /\ Weighted(s) = Integral(raw[a].time, raw[Len(raw)].time)
        /\ Timespan(s) = raw[Len(raw)].time - raw[a].time
    BY <1>1, <2>1, <2>2, WeightedIsIntegral
  <2> QED BY <1>4, <1>11, <2>3
<1>13. From \in Int /\ To \in Int /\ (From = To \/ From < To)
  <2>1. a = n \/ a < n
    BY <1>1, <1>5
  <2>2. raw[a].time \in Int /\ raw[n].time \in Int
    BY <1>2, <1>5, ReadingIs
  <2>3. a < n => raw[a].time < raw[n].time
    BY <1>2, <1>5 DEF Rising
  <2> QED BY <1>11, <2>1, <2>2, <2>3
<1>14. ASSUME From = To
       PROVE  AggregateValue(buf) = raw[n].value
  <2>1. ~ (Timespan(s) > 0)
    BY <1>12, <1>13, <1>14
  <2> QED BY <1>9, <1>10, <2>1
<1>15. ASSUME From # To
       PROVE  AggregateValue(buf) = Integral(From, To) \div (To - From)
  <2>1. Timespan(s) > 0
    BY <1>12, <1>13, <1>15
  <2>2. AggregateValue(buf) = Weighted(s) \div Timespan(s)
    BY <1>9, <2>1
  <2> QED BY <1>12, <2>2
<1> QED BY <1>4, <1>10, <1>11, <1>14, <1>15

(* _last_avg is the last reading of the last average, and the buffer holds *)
(* the readings since, until they become the next one.                     *)
AverageInv ==
    mode = "AVG" =>
        /\ Rising(raw)
        /\ pc = "read" => buf = Pending /\ lastAvg = LastShown(taken)
        /\ pc = "sent" => lastAvg = LastShown(Len(raw)) /\ (Pending = << >> => buf = << >>)

LEMMA RisingAppend ==
    ASSUME NEW s \in Seq(Reading), Rising(s), NEW r \in Reading,
           s # << >> => s[Len(s)].time < r.time
    PROVE  Rising(Append(s, r))
<1> DEFINE n == Len(s)
           c == Append(s, r)
<1>1. n \in Nat /\ DOMAIN s = 1 .. n /\ \A i \in 1 .. n : s[i].time \in Int
  BY ReadingIs
<1>2. DOMAIN c = 1 .. n + 1 /\ c[n + 1] = r /\ \A i \in 1 .. n : c[i] = s[i]
  OBVIOUS
<1>3. r.time \in Int
  BY ReadingIs
<1>4. n # 0 => s[n].time < r.time
  BY <1>1
<1> HIDE DEF n, c
<1>5. ASSUME NEW i \in 1 .. n, NEW j \in 1 .. n + 1, i < j
      PROVE  c[i].time < c[j].time
  <2>1. CASE j = n + 1
    <3>1. i = n \/ i < n
      BY <1>1
    <3>2. n # 0 /\ n \in 1 .. n
      BY <1>1
    <3>3. i < n => s[i].time < s[n].time
      BY <1>1, <3>2 DEF Rising
    <3>4. c[i].time = s[i].time /\ c[j].time = r.time
      BY <1>2, <2>1
    <3>5. s[i].time \in Int /\ s[n].time \in Int
      BY <1>1, <3>2
    <3>6. s[i].time < r.time
      <4>1. CASE i = n
        BY <1>4, <3>2, <4>1
      <4>2. CASE i < n
        <5>1. s[i].time < s[n].time /\ s[n].time < r.time
          BY <1>4, <3>2, <3>3, <4>2
        <5> QED BY ONLY <1>3, <3>5, <5>1
      <4> QED BY <3>1, <4>1, <4>2
    <3> QED BY <3>4, <3>6
  <2>2. CASE j # n + 1
    <3>1. j \in 1 .. n
      BY <1>1, <2>2
    <3>2. s[i].time < s[j].time
      BY <1>1, <1>5, <3>1 DEF Rising
    <3> QED BY <1>2, <3>1, <3>2
  <2> QED BY <2>1, <2>2
<1>6. ASSUME NEW i \in 1 .. n + 1, NEW j \in 1 .. n + 1, i < j
      PROVE  i \in 1 .. n
  BY <1>1, <1>6
<1> QED BY <1>2, <1>5, <1>6 DEF Rising, c

LEMMA AverageStep ==
    ASSUME TypeOK, AverageInv, [Next]_vars, "AVG" \in AlwaysTaken
    PROVE  AverageInv'
<1> SUFFICES ASSUME mode' = "AVG"
             PROVE  /\ Rising(raw')
                    /\ pc' = "read" => buf' = Pending' /\ lastAvg' = LastShown(taken)'
                    /\ pc' = "sent" => /\ lastAvg' = LastShown(Len(raw))'
                                       /\ Pending' = << >> => buf' = << >>
  BY DEF AverageInv, Rising
<1>1. mode = "AVG"
  BY DEF Next, Push, SendData, Take, Leave, vars
<1>2. /\ Rising(raw)
      /\ pc = "read" => buf = Pending /\ lastAvg = LastShown(taken)
      /\ pc = "sent" => lastAvg = LastShown(Len(raw)) /\ (Pending = << >> => buf = << >>)
  BY <1>1 DEF AverageInv
<1>3. raw \in Seq(Reading) /\ taken \in 0 .. Len(raw) /\ pc \in {"read", "sent"}
  BY DEF TypeOK
<1>4. CASE Push
  <2>1. PICK t \in Times, v \in Values :
            /\ raw # << >> => raw[Len(raw)].time < t
            /\ buf' = Append(buf, [time |-> t, value |-> v])
            /\ raw' = Append(raw, [time |-> t, value |-> v])
    BY <1>1, <1>4 DEF Push
  <2> DEFINE r == [time |-> t, value |-> v]
  <2>2. r \in Reading /\ r.time = t
    BY BufferAssumption DEF BufferAssumption, Reading
  <2>3. buf' = Append(buf, r) /\ raw' = Append(raw, r) /\ (raw # << >> => raw[Len(raw)].time < r.time)
    BY <2>1
  <2> HIDE DEF r
  <2>4. Rising(raw')
    BY <1>2, <1>3, <2>2, <2>3, RisingAppend
  <2>5. Pending' = Append(Pending, r)
    <3>1. Pending' = SubSeq(raw', taken + 1, Len(raw'))
      BY <1>4 DEF Push, Pending
    <3> QED BY <1>3, <2>2, <2>3, <3>1, SuffixAppend DEF Pending
  <2>6. buf' = Pending' /\ pc' = "read"
    BY <1>2, <1>4, <2>3, <2>5 DEF Push
  <2>7. lastAvg' = LastShown(taken)'
    <3>1. taken' = taken /\ lastAvg' = lastAvg /\ lastAvg = LastShown(taken)
      BY <1>2, <1>4 DEF Push
    <3>2. CASE taken = 0
      BY <3>1, <3>2 DEF LastShown
    <3>3. CASE taken # 0
      <4>1. taken \in 1 .. Len(raw)
        BY <1>3, <3>3
      <4>2. raw'[taken] = raw[taken]
        BY <1>3, <2>2, <2>3, <4>1
      <4> QED BY <3>1, <3>3, <4>2 DEF LastShown
    <3> QED BY <3>2, <3>3
  <2> QED BY <2>4, <2>6, <2>7
<1>5. CASE SendData
  <2>1. raw' = raw /\ taken' = taken /\ pc = "read" /\ pc' = "sent"
    BY <1>5 DEF SendData
  <2>2. Pending' = Pending /\ LastShown(Len(raw))' = LastShown(Len(raw))
    BY <2>1 DEF Pending, LastShown
  <2>3. CASE buf = << >>
    <3>1. buf' = << >> /\ lastAvg' = lastAvg
      BY <1>5, <2>3 DEF SendData
    <3>2. taken = Len(raw)
      <4>1. Len(Pending) = Len(raw) - taken
        BY <1>3, TailIs DEF Pending
      <4>2. Len(Pending) = 0
        BY <1>2, <2>1, <2>3
      <4> QED BY <1>3, <4>1, <4>2
    <3> QED BY <1>2, <2>1, <2>2, <3>1, <3>2
  <2>4. CASE buf # << >>
    <3>1. lastAvg' = Latest(buf)
      BY <1>1, <1>5, <2>4 DEF SendData
    <3>2. Latest(buf) = raw[Len(raw)]
      BY <1>1, <1>2, <2>1, <2>4, AverageIs
    <3>3. raw # << >> /\ Pending # << >>
      <4>1. Pending = SubSeq(raw, taken + 1, Len(raw)) /\ Pending # << >>
        BY <1>2, <2>1, <2>4 DEF Pending
      <4>2. Len(Pending) = Len(raw) - taken /\ Pending \in Seq(Reading)
        BY <1>3, TailIs DEF Pending
      <4>3. Len(Pending) # 0
        BY <4>1, <4>2
      <4> QED BY <1>3, <4>1, <4>2, <4>3
    <3>4. LastShown(Len(raw)) = raw[Len(raw)]
      <4>1. Len(raw) # 0
        BY <1>3, <3>3
      <4> QED BY <4>1 DEF LastShown
    <3> QED BY <1>2, <2>1, <2>2, <3>1, <3>2, <3>3, <3>4
  <2> QED BY <2>3, <2>4
<1>6. CASE Take
  <2>1. /\ buf' = << >> /\ Pending' = SubSeq(raw, Len(raw) + 1, Len(raw))
        /\ raw' = raw /\ taken' = Len(raw) /\ lastAvg' = lastAvg /\ pc = "sent" /\ pc' = "read"
    BY <1>6 DEF Take, Pending
  <2>2. Pending' = << >>
    BY <1>3, <2>1, SuffixEmpty
  <2>3. LastShown(taken)' = LastShown(Len(raw))
    BY <2>1 DEF LastShown
  <2> QED BY <1>2, <2>1, <2>2, <2>3
<1>7. CASE Leave
  BY <1>1, <1>7 DEF Leave
<1>8. CASE UNCHANGED vars
  <2>1. /\ buf' = buf /\ raw' = raw /\ taken' = taken /\ lastAvg' = lastAvg /\ pc' = pc
    BY <1>8 DEF vars
  <2>2. /\ Pending' = Pending /\ LastShown(taken)' = LastShown(taken)
        /\ LastShown(Len(raw))' = LastShown(Len(raw))
    BY <2>1 DEF Pending, LastShown
  <2> QED BY <1>2, <2>1, <2>2
<1> QED BY <1>4, <1>5, <1>6, <1>7, <1>8 DEF Next

LEMMA AverageIsTiled ==
    ASSUME TypeOK, AverageInv, AverageTiles, [Next]_vars, "AVG" \in AlwaysTaken
    PROVE  AverageTiles'
<1> DEFINE Tiling ==
               /\ Len(buf) = 1 /\ buf[1].time = Fixed(To)
               /\ From = To => buf[1].value = raw[Len(raw)].value
               /\ From # To => buf[1].value = Integral(From, To) \div (To - From)
<1>1. AverageTiles <=> (pc = "sent" /\ Pending # << >> /\ mode = "AVG" => Tiling)
  BY DEF AverageTiles, From, To
<1>2. AverageTiles' <=> (pc' = "sent" /\ Pending' # << >> /\ mode' = "AVG" => Tiling')
  BY DEF AverageTiles, From, To
<1> SUFFICES ASSUME pc' = "sent", Pending' # << >>, mode' = "AVG"
             PROVE  Tiling'
  BY <1>2
<1>3. mode = "AVG" /\ raw' = raw /\ taken' = taken /\ (SendData \/ UNCHANGED vars)
  BY DEF Next, Push, SendData, Take, Leave, vars
<1>4. /\ Pending' = Pending /\ From' = From /\ To' = To
  BY <1>3 DEF Pending, From, To
<1>5. Integral(From, To)' = Integral(From, To)
  <2>1. \A t : ValueAt(t)' = ValueAt(t)
    BY <1>3 DEF ValueAt
  <2> DEFINE F == [s \in 1 .. To - From |-> ValueAt(From + s - 1)]
  <2>2. F' = F
    BY <1>4, <2>1
  <2>3. Integral(From, To) = SumTo(F, To - From) /\ Integral(From, To)' = SumTo(F', To' - From')
    BY DEF Integral
  <2> HIDE DEF F
  <2> QED BY <1>4, <2>2, <2>3
<1>6. CASE SendData
  <2>1. pc = "read" /\ Rising(raw) /\ buf = Pending /\ lastAvg = LastShown(taken)
    BY <1>3, <1>6 DEF AverageInv, SendData
  <2>2. buf # << >>
    BY <1>4, <2>1
  <2>3. /\ Latest(buf).time = To
        /\ From = To => AggregateValue(buf) = raw[Len(raw)].value
        /\ From # To => AggregateValue(buf) = Integral(From, To) \div (To - From)
    BY <1>3, <2>1, <2>2, AverageIs
  <2>4. PICK r \in Reading :
            buf' = <<r>> /\ r.time = Fixed(Latest(buf).time) /\ r.value = AggregateValue(buf)
    BY <1>3, <1>6, <2>2, SendDataIs
  <2>5. Len(buf') = 1 /\ buf'[1] = r /\ Fixed(To)' = Fixed(To)
    BY <1>4, <2>4 DEF Fixed
  <2> QED BY <1>3, <1>4, <1>5, <2>3, <2>4, <2>5
<1>7. CASE UNCHANGED vars
  <2>1. buf' = buf /\ pc' = pc /\ Fixed(To)' = Fixed(To)
    BY <1>4, <1>7 DEF vars, Fixed
  <2>2. Tiling
    BY <1>1, <1>3, <1>4, <2>1
  <2> QED BY <1>3, <1>4, <1>5, <2>1, <2>2
<1> QED BY <1>3, <1>6, <1>7

(* As long as the API takes every average over, each one is that of what   *)
(* the meter showed since the reading taken over before, at any spacing of *)
(* the readings: the last reading of an average is the first of the next   *)
(* (Buffer::aggregate, mode AVG).                                          *)
THEOREM AveragesTile ==
    ASSUME "AVG" \in AlwaysTaken
    PROVE  Spec => []AverageTiles
<1>1. Init => AverageInv /\ AverageTiles
  <2> SUFFICES ASSUME Init
               PROVE  AverageInv /\ AverageTiles
    OBVIOUS
  <2>1. << >> \in Seq(Reading) /\ Len(<< >>) = 0 /\ DOMAIN << >> = {}
    OBVIOUS
  <2>2. Pending = SubSeq(<< >>, Len(<< >>) + 1, Len(<< >>))
    BY <2>1 DEF Init, Pending
  <2>3. Pending = << >>
    BY <2>1, <2>2, SuffixEmpty
  <2> QED BY <2>1, <2>3 DEF Init, AverageInv, AverageTiles, Rising, LastShown
<1>2. TypeOK /\ AverageInv /\ AverageTiles /\ [Next]_vars => AverageInv' /\ AverageTiles'
  BY AverageStep, AverageIsTiled
<1> QED BY <1>1, <1>2, BufferTypeCorrect, PTL DEF Spec

=============================================================================
