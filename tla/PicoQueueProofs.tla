--------------------------- MODULE PicoQueueProofs ---------------------------
(***************************************************************************)
(* PicoSend loses no reading and opens no gap, and a connection that the   *)
(* code takes for free is free; it implements Delivery.                    *)
(***************************************************************************)
EXTENDS PicoSendProofs

-----------------------------------------------------------------------------
(* Facts about a queue of timestamps and its chunks. *)

Increasing(q) == \A i, j \in DOMAIN q : i < j => q[i] < q[j]

(* The tuples of a body (MAX_CHUNK_SIZE) are a front of the queue.         *)
LEMMA ChunkIsFront ==
    ASSUME NEW q \in Seq(Nat)
    PROVE  /\ Chunk(q) \in Seq(Nat) /\ Len(Chunk(q)) <= Len(q)
           /\ \A i \in 1..Len(Chunk(q)) : Chunk(q)[i] = q[i]
           /\ q # <<>> => Len(Chunk(q)) >= 1
           /\ Range(Chunk(q)) \subseteq Range(q)
<1>1. MaxChunkSize \in Nat \ {0}
  BY VolkszaehlerAssumption
<1>2. /\ Chunk(q) \in Seq(Nat) /\ Len(Chunk(q)) <= Len(q)
      /\ \A i \in 1..Len(Chunk(q)) : Chunk(q)[i] = q[i]
      /\ q # <<>> => Len(Chunk(q)) >= 1
  <2>1. CASE Len(q) <= MaxChunkSize
    BY <2>1 DEF Chunk
  <2>2. CASE ~ (Len(q) <= MaxChunkSize)
    <3>1. Chunk(q) = SubSeq(q, 1, MaxChunkSize) /\ MaxChunkSize \in 1..Len(q)
      BY <1>1, <2>2 DEF Chunk
    <3>2. Chunk(q) \in Seq(Nat) /\ Len(Chunk(q)) = MaxChunkSize
      BY <1>1, <3>1
    <3>3. \A i \in 1..MaxChunkSize : Chunk(q)[i] = q[i]
      BY <1>1, <3>1
    <3> QED  BY <1>1, <2>2, <3>2, <3>3
  <2> QED  BY <2>1, <2>2
<1>3. Range(Chunk(q)) \subseteq Range(q)
  <2> DEFINE n == Len(Chunk(q))
  <2>1. DOMAIN Chunk(q) = 1..n /\ DOMAIN q = 1..Len(q) /\ n \in Nat /\ Len(q) \in Nat
    BY <1>2
  <2>2. \A i \in 1..n : i \in DOMAIN q /\ Chunk(q)[i] = q[i]
    BY <1>2, <2>1
  <2> QED  BY <2>1, <2>2 DEF Range
<1> QED  BY <1>2, <1>3

(* What a success leaves is an increasing rest, and nothing but the chunk  *)
(* is given up.                                                            *)
LEMMA SuccessIsRest ==
    ASSUME NEW q \in Seq(Nat), Increasing(q)
    PROVE  /\ Increasing(AfterSuccess(q))
           /\ Range(AfterSuccess(q)) \subseteq Range(q)
           /\ Range(q) \subseteq Range(Chunk(q)) \cup Range(AfterSuccess(q))
<1>1. MaxChunkSize \in Nat \ {0}
  BY VolkszaehlerAssumption
<1>2. CASE Len(q) <= MaxChunkSize
  BY <1>2 DEF AfterSuccess, Chunk, Range, Increasing
<1>3. CASE ~ (Len(q) <= MaxChunkSize)
  <2> DEFINE r == SubSeq(q, MaxChunkSize + 1, Len(q))
  <2>1. /\ AfterSuccess(q) = r /\ r \in Seq(Nat) /\ Len(r) = Len(q) - MaxChunkSize
        /\ \A i \in 1..Len(r) : r[i] = q[i + MaxChunkSize]
    <3>1. AfterSuccess(q) = r
      BY <1>3 DEF AfterSuccess
    <3>2. MaxChunkSize + 1 \in 1..Len(q) /\ Len(q) \in Nat
      BY <1>1, <1>3
    <3>3. r \in Seq(Nat) /\ Len(r) = Len(q) - MaxChunkSize
      BY <1>1, <3>2
    <3>4. \A i \in 1..Len(r) : r[i] = q[i + MaxChunkSize]
      BY <1>1, <3>2, <3>3
    <3> QED  BY <3>1, <3>3, <3>4
  <2> HIDE DEF r
  <2>2. /\ DOMAIN r = 1..Len(r) /\ Len(q) \in Nat
        /\ \A i \in 1..Len(r) : i + MaxChunkSize \in DOMAIN q
    BY <1>1, <1>3, <2>1
  <2>3. Increasing(r)
    <3>1. \A i, j \in 1..Len(r) : i < j => i + MaxChunkSize < j + MaxChunkSize
      BY <1>1, <2>1
    <3> QED  BY <2>1, <2>2, <3>1 DEF Increasing
  <2>4. Range(r) \subseteq Range(q)
    BY <2>1, <2>2 DEF Range
  <2>5. /\ Chunk(q) \in Seq(Nat) /\ Len(Chunk(q)) = MaxChunkSize
        /\ \A i \in 1..MaxChunkSize : Chunk(q)[i] = q[i]
    BY <1>1, <1>3 DEF Chunk
  <2>6. ASSUME NEW k \in 1..Len(q)
        PROVE  q[k] \in Range(Chunk(q)) \cup Range(r)
    <3>1. CASE k <= MaxChunkSize
      <4>1. k \in 1..MaxChunkSize
        BY <1>1, <3>1
      <4>2. DOMAIN Chunk(q) = 1..MaxChunkSize
        <5>1. Chunk(q) \in Seq(Nat) /\ Len(Chunk(q)) = MaxChunkSize
          BY <2>5
        <5>2. DOMAIN Chunk(q) = 1..Len(Chunk(q))
          BY <5>1
        <5> QED  BY <5>1, <5>2
      <4>3. k \in DOMAIN Chunk(q) /\ Chunk(q)[k] = q[k]
        BY <2>5, <4>1, <4>2
      <4>4. q[k] \in Range(Chunk(q))
        BY <4>3 DEF Range
      <4> QED  BY <4>4
    <3>2. CASE k > MaxChunkSize
      <4>1. k - MaxChunkSize \in 1..Len(r) /\ (k - MaxChunkSize) + MaxChunkSize = k
        BY <1>1, <2>1, <2>2, <3>2
      <4>2. k - MaxChunkSize \in DOMAIN r /\ r[k - MaxChunkSize] = q[k]
        BY <2>1, <4>1
      <4> QED  BY <4>1, <4>2 DEF Range
    <3> QED  BY <1>1, <3>1, <3>2
  <2>7. Range(q) \subseteq Range(Chunk(q)) \cup Range(r)
    <3>1. DOMAIN q = 1..Len(q)
      OBVIOUS
    <3>2. \A x \in Range(q) : \E k \in 1..Len(q) : x = q[k]
      BY <3>1 DEF Range
    <3> QED  BY <2>6, <3>2
  <2> QED  BY <2>1, <2>3, <2>4, <2>7
<1> QED  BY <1>1, <1>2, <1>3

(* So it is when an exception drops the first value alone.                 *)
LEMMA TailIsRest ==
    ASSUME NEW q \in Seq(Nat), Increasing(q), q # <<>>
    PROVE  /\ Increasing(Tail(q))
           /\ Range(Tail(q)) \subseteq Range(q)
           /\ Range(q) \subseteq {q[1]} \cup Range(Tail(q))
<1>1. /\ Tail(q) \in Seq(Nat) /\ Len(Tail(q)) = Len(q) - 1 /\ Len(q) \in Nat \ {0}
      /\ \A i \in 1..Len(Tail(q)) : Tail(q)[i] = q[i + 1]
  OBVIOUS
<1>2. Increasing(Tail(q))
  <2>1. ASSUME NEW i \in 1..Len(Tail(q)), NEW j \in 1..Len(Tail(q)), i < j
        PROVE  Tail(q)[i] < Tail(q)[j]
    <3>1. i + 1 \in DOMAIN q /\ j + 1 \in DOMAIN q /\ i + 1 < j + 1
      BY <1>1, <2>1
    <3> QED  BY <1>1, <3>1 DEF Increasing
  <2>2. DOMAIN Tail(q) = 1..Len(Tail(q))
    BY <1>1
  <2> QED  BY <2>1, <2>2 DEF Increasing
<1>3. Range(Tail(q)) \subseteq Range(q)
  BY <1>1 DEF Range
<1>4. ASSUME NEW k \in DOMAIN q
      PROVE  q[k] \in {q[1]} \cup Range(Tail(q))
  <2>1. CASE k # 1
    <3>1. k - 1 \in 1..Len(Tail(q)) /\ Tail(q)[k - 1] = q[k]
      BY <1>1, <2>1
    <3>2. k - 1 \in DOMAIN Tail(q)
      BY <1>1, <3>1
    <3> QED  BY <3>1, <3>2 DEF Range
  <2> QED  BY <2>1
<1> QED  BY <1>2, <1>3, <1>4 DEF Range

(* api_json_tuples appends newer timestamps: the queue stays increasing.   *)
LEMMA AppendIncreases ==
    ASSUME NEW q \in Seq(Nat), NEW t \in Nat, Increasing(q), \A u \in Range(q) : u < t
    PROVE  /\ Increasing(Append(q, t))
           /\ Range(Append(q, t)) = Range(q) \cup {t}
<1>1. /\ Append(q, t) \in Seq(Nat) /\ Len(Append(q, t)) = Len(q) + 1 /\ Len(q) \in Nat
      /\ \A i \in 1..Len(q) : Append(q, t)[i] = q[i]
      /\ Append(q, t)[Len(q) + 1] = t
  OBVIOUS
<1>2. \A i \in 1..Len(q) : q[i] < t
  BY DEF Range
<1>3. Increasing(Append(q, t))
  BY <1>1, <1>2 DEF Increasing
<1>4. Range(Append(q, t)) \subseteq Range(q) \cup {t}
  BY <1>1 DEF Range
<1>5. Range(q) \subseteq Range(Append(q, t))
  BY <1>1 DEF Range
<1>6. t \in Range(Append(q, t))
  BY <1>1 DEF Range
<1> QED  BY <1>3, <1>4, <1>5, <1>6

-----------------------------------------------------------------------------
(* The queue, what was accepted and what is stored. *)

DataInv == QueueInv /\ NoLoss /\ NoGaps /\ BodyInv

(* A step that moves neither readings nor requests keeps DataInv.          *)
LEMMA DataFrame ==
    ASSUME DataInv,
           UNCHANGED <<values, last_timestamp, outputData, accepted, stored>>,
           orphans' \subseteq orphans
    PROVE  DataInv'
BY DEF DataInv, QueueInv, NoLoss, NoGaps, BodyInv, Complete

(* Taking over a reading newer than all before it.                         *)
LEMMA DataTuple ==
    ASSUME TypeOK, DataInv, Tuple
    PROVE  DataInv'
<1> DEFINE c == ch  r == Head(buf[c])
<1>1. c \in Channels /\ r \in Reading
  BY CursorType DEF Tuple, TypeOK, MainTypeOK
<1>2. /\ TakeOver(c, r) /\ UNCHANGED <<stored, orphans>>
  BY DEF Tuple, netVars
<1>3. CASE ~ Wanted(c, r)
  BY <1>2, <1>3, DataFrame DEF TakeOver, vzVars
<1>4. CASE Wanted(c, r)
  <2> DEFINE t == r.time
  <2>1. /\ values' = [values EXCEPT ![c] = Append(@, t)]
        /\ last_timestamp' = [last_timestamp EXCEPT ![c] = t]
        /\ accepted' = [accepted EXCEPT ![c] = @ \cup {t}]
        /\ outputData' = outputData
    BY <1>2, <1>4 DEF TakeOver
  <2>2. t \in Nat /\ last_timestamp[c] < t
    BY <1>1, <1>4 DEF Wanted, Reading
  <2> HIDE DEF t, r, c
  <2>3. /\ values \in [Channels -> Seq(Nat)] /\ last_timestamp \in [Channels -> Nat]
        /\ accepted \in [Channels -> SUBSET Nat]
    BY DEF TypeOK, VzTypeOK
  <2>4. \A u \in accepted[c] : u < t
    <3>1. \A u \in accepted[c] : u \in Nat /\ u <= last_timestamp[c]
      BY <1>1, <2>3 DEF DataInv, QueueInv
    <3> QED  BY <1>1, <2>2, <2>3, <3>1
  <2>5. Increasing(values[c]) /\ values[c] \in Seq(Nat) /\ \A u \in Range(values[c]) : u < t
    BY <1>1, <2>3, <2>4 DEF DataInv, QueueInv, Increasing
  <2>6. /\ Increasing(values'[c]) /\ Range(values'[c]) = Range(values[c]) \cup {t}
        /\ accepted'[c] = accepted[c] \cup {t} /\ last_timestamp'[c] = t
    BY <1>1, <2>1, <2>2, <2>3, <2>5, AppendIncreases
  <2>7. \A d \in Channels \ {c} : /\ values'[d] = values[d] /\ accepted'[d] = accepted[d]
                                  /\ last_timestamp'[d] = last_timestamp[d]
    BY <2>1, <2>3
  <2>8. QueueInv'
    <3>1. ASSUME NEW d \in Channels
          PROVE  /\ Increasing(values'[d]) /\ Range(values'[d]) \subseteq accepted'[d]
                 /\ stored'[d] \subseteq accepted'[d]
                 /\ \A u \in accepted'[d] : u <= last_timestamp'[d]
      <4>1. CASE d = c
        <5>1. Range(values[c]) \subseteq accepted[c] /\ stored[c] \subseteq accepted[c]
          BY <1>1 DEF DataInv, QueueInv
        <5>2. \A u \in accepted[c] \cup {t} : u <= t
          BY <1>1, <2>2, <2>3, <2>4
        <5> QED  BY <1>2, <2>6, <4>1, <5>1, <5>2
      <4>2. CASE d # c
        BY <1>2, <2>7, <4>2 DEF DataInv, QueueInv, Increasing
      <4> QED  BY <4>1, <4>2
    <3> QED  BY <3>1 DEF QueueInv, Increasing
  <2>9. NoLoss'
    <3>1. ASSUME NEW d \in Channels
          PROVE  accepted'[d] \subseteq Range(values'[d]) \cup stored'[d]
      <4>1. CASE d = c
        BY <1>1, <1>2, <2>6, <4>1 DEF DataInv, NoLoss
      <4>2. CASE d # c
        BY <1>2, <2>7, <4>2 DEF DataInv, NoLoss
      <4> QED  BY <4>1, <4>2
    <3> QED  BY <3>1 DEF NoLoss
  <2>10. ASSUME NEW d \in Channels, NEW u \in accepted'[d], NEW s \in accepted[d], u < s
         PROVE  u \in accepted[d]
    <3>1. CASE d = c /\ u = t
      BY <2>2, <2>3, <2>4, <2>10, <3>1
    <3>2. CASE ~ (d = c /\ u = t)
      BY <1>1, <2>6, <2>7, <2>10, <3>2
    <3> QED  BY <3>1, <3>2
  <2>11. NoGaps'
    BY <1>2, <2>10 DEF DataInv, NoGaps, QueueInv
  <2>12. ASSUME NEW d \in Channels, NEW body, Complete(d, body)
         PROVE  Complete(d, body)'
    <3>1. accepted[d] \subseteq accepted'[d]
      BY <1>1, <2>6, <2>7
    <3> QED  BY <1>2, <2>10, <2>12, <3>1 DEF Complete
  <2>13. BodyInv'
    <3>1. \A q \in orphans : q.ch \in Channels
      BY DEF TypeOK, NetTypeOK, Request
    <3> QED  BY <1>2, <2>1, <2>12, <3>1 DEF DataInv, BodyInv, Complete
  <2> QED  BY <2>8, <2>9, <2>11, <2>13 DEF DataInv
<1> QED  BY <1>3, <1>4

(* The body is a front of the queue, so it leaves nothing older out.       *)
LEMMA DataBody ==
    ASSUME TypeOK, DataInv, Body
    PROVE  DataInv' /\ BodyOfQueue(ch)'
<1> DEFINE c == ch
<1>1. c \in Channels /\ values[c] \in Seq(Nat) /\ outputData \in [Channels -> Seq(Nat)]
  BY CursorType DEF TypeOK, VzTypeOK
<1>2. /\ outputData' = IF values[c] = <<>> THEN outputData
                       ELSE [outputData EXCEPT ![c] = Chunk(values[c])]
      /\ UNCHANGED <<values, last_timestamp, accepted, stored, orphans, mi, ki>>
  BY DEF Body, BuildBody, netVars, Goto, OnlyPC
<1>3. c' = c
  BY <1>2 DEF ch
<1> HIDE DEF c
<1>4. CASE values[c] = <<>>
  <2>1. DataInv'
    BY <1>2, <1>4, DataFrame
  <2> QED  BY <1>2, <1>3, <1>4, <2>1 DEF BodyOfQueue, c
<1>5. CASE values[c] # <<>>
  <2>1. /\ Range(Chunk(values[c])) \subseteq Range(values[c])
        /\ \A i \in 1..Len(Chunk(values[c])) : Chunk(values[c])[i] = values[c][i]
        /\ Len(Chunk(values[c])) <= Len(values[c]) /\ Chunk(values[c]) \in Seq(Nat)
    BY <1>1, ChunkIsFront
  <2>2. Complete(c, Chunk(values[c]))
    <3>1. Range(values[c]) \subseteq accepted[c]
      BY <1>1 DEF DataInv, QueueInv
    <3>2. ASSUME NEW t \in Range(Chunk(values[c])), NEW u \in accepted[c], u < t,
                 u \notin stored[c]
          PROVE  u \in Range(Chunk(values[c]))
      <4>1. PICK i \in 1..Len(Chunk(values[c])) : t = values[c][i]
        BY <2>1 DEF Range
      <4>2. DOMAIN values[c] = 1..Len(values[c]) /\ Len(values[c]) \in Nat
        BY <1>1
      <4>3. u \in Range(values[c])
        BY <1>1, <3>2 DEF DataInv, NoLoss
      <4>4. PICK j \in 1..Len(values[c]) : u = values[c][j]
        BY <4>3, <4>2 DEF Range
      <4>5. j < i
        <5>1. \A k, l \in 1..Len(values[c]) : k < l => values[c][k] < values[c][l]
          BY <1>1, <4>2 DEF DataInv, QueueInv
        <5>2. i \in 1..Len(values[c])
          BY <2>1, <4>2
        <5>3. \A k \in 1..Len(values[c]) : values[c][k] \in Nat
          BY <1>1
        <5> QED  BY <3>2, <4>1, <4>4, <5>1, <5>2, <5>3
      <4>6. j \in 1..Len(Chunk(values[c]))
        BY <2>1, <4>5
      <4> QED  BY <2>1, <4>4, <4>6 DEF Range
    <3> QED  BY <2>1, <3>1, <3>2 DEF Complete
  <2>3. outputData'[c] = Chunk(values[c]) /\ \A d \in Channels \ {c} : outputData'[d] = outputData[d]
    BY <1>1, <1>2, <1>5
  <2>4. \A body : \A d \in Channels : Complete(d, body) => Complete(d, body)'
    BY <1>2 DEF Complete
  <2>5. BodyInv'
    <3>1. \A d \in Channels : Complete(d, outputData'[d])
      BY <2>2, <2>3 DEF DataInv, BodyInv
    <3>2. \A q \in orphans : q.ch \in Channels
      BY DEF TypeOK, NetTypeOK, Request
    <3> QED  BY <1>2, <3>1, <3>2 DEF DataInv, BodyInv, Complete
  <2>6. QueueInv' /\ NoLoss' /\ NoGaps'
    BY <1>2 DEF DataInv, QueueInv, NoLoss, NoGaps
  <2> QED  BY <1>2, <1>3, <2>3, <2>5, <2>6 DEF DataInv, BodyOfQueue, c
<1> QED  BY <1>4, <1>5

(* The middleware stores a body that leaves nothing older out.             *)
LEMMA DataCommit ==
    ASSUME TypeOK, DataInv,
           NEW r \in Request, Complete(r.ch, r.body), Commit(r),
           UNCHANGED <<values, last_timestamp, outputData, accepted>>,
           orphans' \subseteq orphans
    PROVE  DataInv'
<1>1. r.ch \in Channels /\ stored \in [Channels -> SUBSET Nat]
  BY DEF Request, TypeOK, NetTypeOK
<1>2. /\ stored'[r.ch] = stored[r.ch] \cup Range(r.body)
      /\ \A d \in Channels \ {r.ch} : stored'[d] = stored[d]
  BY <1>1 DEF Commit
<1>3. \A d \in Channels : stored[d] \subseteq stored'[d]
  BY <1>2
<1>4. QueueInv'
  <2>1. \A d \in Channels : stored'[d] \subseteq accepted[d]
    BY <1>2 DEF Complete, DataInv, QueueInv
  <2> QED  BY <2>1 DEF DataInv, QueueInv
<1>5. NoLoss'
  BY <1>3 DEF DataInv, NoLoss
<1>6. NoGaps'
  <2>1. ASSUME NEW d \in Channels, NEW t \in stored'[d], NEW u \in accepted[d], u < t
        PROVE  u \in stored'[d]
    <3>1. CASE d = r.ch /\ t \in Range(r.body)
      BY <1>2, <2>1, <3>1 DEF Complete
    <3>2. CASE t \in stored[d]
      BY <1>3, <2>1, <3>2 DEF DataInv, NoGaps
    <3> QED  BY <1>2, <3>1, <3>2
  <2> QED  BY <2>1 DEF NoGaps
<1>7. BodyInv'
  <2>1. \A body : \A d \in Channels : Complete(d, body) => Complete(d, body)'
    BY <1>3 DEF Complete
  <2>2. \A q \in orphans : q.ch \in Channels
    BY DEF TypeOK, NetTypeOK, Request
  <2> QED  BY <2>1, <2>2 DEF DataInv, BodyInv, Complete
<1> QED  BY <1>4, <1>5, <1>6, <1>7 DEF DataInv

(* Requests of a dropped connection were built when they left nothing out. *)
LEMMA DataDisconnect ==
    ASSUME DataInv, IdleInv, AnswerInv, Disconnect, reqs \in Seq(Request),
           UNCHANGED <<values, last_timestamp, outputData, accepted, stored>>
    PROVE  DataInv'
<1>1. \A r \in Range(reqs) : Complete(r.ch, r.body)
  <2>1. TAKE r \in Range(reqs)
  <2>2. PICK i \in 1..Len(reqs) : r = reqs[i]
    BY <2>1 DEF Range
  <2>3. reqs # <<>> /\ r = Head(reqs)
    BY <2>2 DEF IdleInv
  <2>4. r.ch = channel /\ r.body = outputData[channel] /\ channel \in Channels
    BY <2>3 DEF AnswerInv, Idle
  <2> QED  BY <2>4 DEF DataInv, BodyInv
<1>2. orphans' = orphans \cup Range(reqs)
  BY DEF Disconnect
<1>3. QueueInv' /\ NoLoss' /\ NoGaps'
  BY DEF DataInv, QueueInv, NoLoss, NoGaps
<1>4. BodyInv'
  BY <1>1, <1>2 DEF DataInv, BodyInv, Complete
<1> QED  BY <1>3, <1>4 DEF DataInv

(* If the middleware holds any reading of the body that was refused, it    *)
(* holds the first one, which api_parse_exception drops.                   *)
LEMMA FirstStored ==
    ASSUME TypeOK, DataInv, NEW c \in Channels, values[c] # <<>>,
           Range(Chunk(values[c])) \cap stored[c] # {}
    PROVE  values[c][1] \in stored[c]
<1>1. values[c] \in Seq(Nat)
  BY DEF TypeOK, VzTypeOK
<1>2. DOMAIN values[c] = 1..Len(values[c]) /\ Len(values[c]) \in Nat \ {0}
  BY <1>1
<1>3. PICK i \in DOMAIN values[c] : values[c][i] \in stored[c]
  <2>1. Range(Chunk(values[c])) \subseteq Range(values[c])
    BY <1>1, ChunkIsFront
  <2> QED  BY <2>1 DEF Range
<1>4. CASE i # 1
  <2>1. 1 \in DOMAIN values[c] /\ 1 < i
    BY <1>2, <1>3, <1>4
  <2>2. values[c][1] < values[c][i]
    BY <1>3, <2>1 DEF DataInv, QueueInv
  <2>3. values[c][1] \in accepted[c]
    BY <2>1 DEF DataInv, QueueInv, Range
  <2> QED  BY <1>3, <2>2, <2>3 DEF DataInv, NoGaps
<1> QED  BY <1>3, <1>4

(* An answer gives up nothing but stored readings.                         *)
LEMMA DataProcess ==
    ASSUME TypeOK, DataInv, AnswerInv, Process
    PROVE  DataInv'
<1> DEFINE c == ch
<1>1. c \in Channels /\ values \in [Channels -> Seq(Nat)]
  BY CursorType DEF TypeOK, VzTypeOK
<1>2. /\ channel = ch /\ Truthful(ch, data) /\ BodyOfQueue(ch)
  BY DEF AnswerInv, Answered, Process, At
<1>3. /\ values' = [values EXCEPT ![c] =
            IF data.http = 200 THEN AfterSuccess(@) ELSE AfterException(@, data.payload)]
      /\ UNCHANGED <<last_timestamp, outputData, accepted, stored, orphans>>
  BY <1>2 DEF Process, ProcessResponse, Truthful, netVars
<1>4. Truthful(c, data) /\ (values[c] = <<>> \/ outputData[c] = Chunk(values[c]))
  BY <1>2 DEF BodyOfQueue
<1> HIDE DEF c
<1>5. Increasing(values[c]) /\ values[c] \in Seq(Nat)
  BY <1>1 DEF DataInv, QueueInv, Increasing
<1>6. /\ Increasing(values'[c]) /\ Range(values'[c]) \subseteq Range(values[c])
      /\ Range(values[c]) \subseteq Range(values'[c]) \cup stored[c]
  <2>1. CASE data.http = 200
    <3>1. values'[c] = AfterSuccess(values[c])
      BY <1>1, <1>3, <2>1
    <3>2. values[c] # <<>> => Range(Chunk(values[c])) \subseteq stored[c]
      BY <1>4, <2>1 DEF Truthful
    <3>3. values[c] = <<>> => Range(values[c]) = {}
      BY DEF Range
    <3> QED  BY <1>5, <3>1, <3>2, <3>3, SuccessIsRest
  <2>2. CASE data.http # 200 /\ data.payload = "dup" /\ values[c] # <<>>
    <3>1. values'[c] = Tail(values[c])
      BY <1>1, <1>3, <2>2 DEF AfterException
    <3>2. values[c][1] \in stored[c]
      BY <1>1, <1>4, <2>2, FirstStored DEF Truthful
    <3> QED  BY <1>5, <2>2, <3>1, <3>2, TailIsRest
  <2>3. CASE data.http # 200 /\ ~ (data.payload = "dup" /\ values[c] # <<>>)
    <3>1. values'[c] = values[c]
      BY <1>1, <1>3, <2>3 DEF AfterException
    <3> QED  BY <1>5, <3>1
  <2> QED  BY <2>1, <2>2, <2>3
<1>7. \A d \in Channels \ {c} : values'[d] = values[d]
  BY <1>1, <1>3
<1>8. QueueInv'
  <2>1. ASSUME NEW d \in Channels
        PROVE  Increasing(values'[d]) /\ Range(values'[d]) \subseteq accepted[d]
    BY <1>6, <1>7 DEF DataInv, QueueInv, Increasing
  <2> QED  BY <1>3, <2>1 DEF DataInv, QueueInv, Increasing
<1>9. NoLoss'
  BY <1>3, <1>6, <1>7 DEF DataInv, NoLoss
<1>10. NoGaps' /\ BodyInv'
  BY <1>3 DEF DataInv, NoGaps, BodyInv, Complete
<1> QED  BY <1>2, <1>8, <1>9, <1>10 DEF DataInv

-----------------------------------------------------------------------------
(* The connection. *)

(* A channel loop that goes on passes none of the points where the code    *)
(* relies on the connection.                                               *)
LEMMA NextChannelGoes ==
    ASSUME TypeOK, NextChannel
    PROVE  pc' \in {"sendData", "checkResponse", "meter", "loop"} /\ st' = st
BY NextChannelType

(* The main loop calls connect() with an unconnected pcb only, and         *)
(* waits for the resolver while lwIP owes it a call (LwipIF::connect).     *)
LEMMA ConnectMain ==
    ASSUME TypeOK, ConnectInv, Main
    PROVE  ConnectInv'
<1> USE DEF ConnectInv, At, Goto, OnlyPC, OnlyPCAndSt
<1>1. TypeOK /\ (NextChannel => pc' \in {"sendData", "checkResponse", "meter", "loop"})
  BY NextChannelGoes
<1>2. pcb \in {"none", "new", "connecting", "up"} /\ dnsPending \in BOOLEAN
  BY DEF TypeOK, LwipTypeOK
<1>3. CASE UNCHANGED <<pcb, dnsPending, connectInitiated>> /\ pc # "resolve" /\ pc' \notin {"connect", "resolve"}
  BY <1>2, <1>3
<1>4. CASE ReadMeter \/ StartRound
  BY <1>4 DEF ReadMeter, StartRound, lwipVars
<1>5. CASE VisitMeter
  BY <1>5 DEF VisitMeter, ToNextMeter, lwipVars
<1>6. CASE SendData
  BY <1>6 DEF SendData, lwipVars
<1>7. CASE Send
  <2>1. pc' \in {"reconnect", "tuples", "checkResponse", "sendData", "meter", "loop"}
    BY <1>1, <1>7 DEF Send, TypeOK, LwipTypeOK
  <2> QED  BY <1>3, <1>7, <2>1 DEF Send, lwipVars
<1>8. CASE Reconnect
  BY <1>8 DEF Reconnect, DropConnection, DeletePCB
<1>9. CASE Connect
  <2>1. ReturnFromConnect => pc' \notin {"connect", "resolve"}
    BY <1>1 DEF ReturnFromConnect
  <2>2. InitPCB \in {"none", "new"} /\ ~ dnsPending
    BY <1>9 DEF Connect, InitPCB
  <2> QED  BY <1>9, <2>1, <2>2 DEF Connect, ConnectOK, ConnectError, ConnectPending
<1>10. CASE Resolve
  BY <1>1, <1>10 DEF Resolve, ConnectResolved, ReturnFromConnect
<1>11. CASE Tuple \/ Body \/ Return \/ Process
  BY <1>11 DEF Tuple, Body, Return, Process, lwipVars
<1>12. CASE PostRequest \/ Write \/ Switch
  BY <1>12 DEF PostRequest, Write, Switch
<1>13. CASE Posted
  BY <1>1, <1>13 DEF Posted
<1>14. CASE CheckResponse \/ SetReady
  BY <1>1, <1>14 DEF CheckResponse, SetReady
<1> QED  BY <1>4, <1>5, <1>6, <1>7, <1>8, <1>9, <1>10, <1>11, <1>12, <1>13, <1>14 DEF Main

(* The callbacks leave that to the main loop: vz_altcp_dns_found and the   *)
(* others only ever give up or complete a connection.                      *)
LEMMA ConnectCallback ==
    ASSUME TypeOK, ConnectInv, Callback, UNCHANGED mainVars
    PROVE  ConnectInv'
BY DEF ConnectInv, Callback, DnsFound, Connected, Poll, ConnectionError, RecvClosed,
       RecvData, StartConnect, DeletePCB, mainVars, TypeOK, LwipTypeOK

(* A callback that frees the connection empties it (vz_altcp_recv,         *)
(* vz_altcp_err, vz_altcp_poll).                                           *)
LEMMA IdleCallback ==
    ASSUME TypeOK, ConnectInv, IdleInv, Callback, UNCHANGED mainVars
    PROVE  IdleInv'
<1> USE DEF IdleInv, Idle, TakenForFree, mainVars
<1>1. CASE DnsFound
  BY <1>1 DEF DnsFound, StartConnect, ConnectInv, netVars
<1>2. CASE Connected
  BY <1>2 DEF Connected, netVars
<1>3. CASE Poll
  BY <1>3 DEF Poll, netVars
<1>4. CASE ConnectionError
  BY <1>4 DEF ConnectionError, Disconnect
<1>5. CASE RecvClosed
  BY <1>5 DEF RecvClosed, DeletePCB, Disconnect
<1>6. CASE RecvData
  BY <1>6 DEF RecvData, TypeOK, NetTypeOK
<1> QED  BY <1>1, <1>2, <1>3, <1>4, <1>5, <1>6 DEF Callback

(* Serving a request answers it in one piece (Middleware, Serve).          *)
LEMMA ServeAnswers ==
    ASSUME WholeAnswers, TypeOK, IdleInv, Serve
    PROVE  /\ reqs # <<>> /\ reqs' = <<>>
           /\ \E verdict \in {"ok", "dup", "fail"} :
                 /\ resps' = <<Answer(verdict)>>
                 /\ verdict = "ok"  => Commit(Head(reqs))
                 /\ verdict = "dup" => Known(Head(reqs))
                 /\ verdict # "ok"  => UNCHANGED stored
<1>1. reqs # <<>> /\ reqs \in Seq(Request) /\ reqs' = Tail(reqs) /\ Len(reqs) <= 1
  BY DEF Serve, IdleInv, TypeOK, NetTypeOK
<1>2. reqs' = <<>>
  BY <1>1
<1>3. resps = <<>>
  BY <1>1 DEF IdleInv
<1>4. PICK verdict \in {"ok", "dup", "fail"} :
        /\ verdict = "dup" => Known(Head(reqs))
        /\ IF verdict = "ok" THEN Commit(Head(reqs)) ELSE UNCHANGED stored
        /\ \E pieces \in Deliveries(verdict) : resps' = resps \o pieces
  BY DEF Serve
<1>5. Deliveries(verdict) = {<<Answer(verdict)>>}
  BY DEF Deliveries, WholeAnswers
<1>6. resps' = <<Answer(verdict)>>
  BY <1>3, <1>4, <1>5
<1> QED  BY <1>1, <1>2, <1>4, <1>6

(* The middleware keeps the connection as free as it was (World).          *)
LEMMA IdleWorld ==
    ASSUME WholeAnswers, TypeOK, IdleInv, World, UNCHANGED mainVars
    PROVE  IdleInv'
<1> USE DEF IdleInv, Idle, TakenForFree, mainVars, lwipVars
<1>1. CASE Serve
  <2>1. reqs # <<>> /\ reqs' = <<>> /\ \E x : resps' = <<x>>
    BY <1>1, ServeAnswers
  <2>2. Len(reqs') = 0 /\ Len(resps') = 1
    BY <2>1
  <2>3. ~ TakenForFree
    BY <2>1
  <2>4. UNCHANGED <<state, pcb, pc, st>>
    BY DEF World
  <2>5. ~ TakenForFree'
    BY <2>3, <2>4
  <2>6. /\ state' = "RETRY" => pc' = "return" \/ (pc' = "posted" /\ st' = "RETRY")
        /\ pc' = "tuples" => state' # "REPLIED"
    BY <2>4
  <2> QED  BY <2>1, <2>2, <2>5, <2>6
<1>2. CASE ServeOrphan
  BY <1>2 DEF World, ServeOrphan
<1> QED  BY <1>1, <1>2 DEF World

(* The main loop posts only on a free connection, and takes none for free  *)
(* that is not (Volkszaehler::send, LwipIF::postRequest).                  *)
LEMMA IdleMain ==
    ASSUME WholeAnswers, TypeOK, ConnectInv, IdleInv, Main
    PROVE  IdleInv'
<1> USE DEF IdleInv, Idle, TakenForFree, At, Goto, OnlyPC, OnlyPCAndSt, lwipVars, netVars
<1>1. NextChannel => pc' \in {"sendData", "checkResponse", "meter", "loop"} /\ st' = st
  BY NextChannelGoes
<1>2. CASE ReadMeter \/ StartRound
  BY <1>2 DEF ReadMeter, StartRound
<1>3. CASE VisitMeter
  BY <1>3 DEF VisitMeter, ToNextMeter
<1>4. CASE SendData
  BY <1>4 DEF SendData
<1>5. CASE Send
  <2>1. /\ pc' \in {"reconnect", "tuples", "checkResponse", "sendData", "meter", "loop"}
        /\ pc' = "tuples" => state = "READY"
        /\ st' = st
    BY <1>1, <1>5 DEF Send, TypeOK, LwipTypeOK
  <2> QED  BY <1>5, <2>1 DEF Send
<1>6. CASE Reconnect
  BY <1>6 DEF Reconnect, DropConnection, DeletePCB, Disconnect
<1>7. CASE Connect
  <2>1. Idle /\ UNCHANGED <<reqs, resps>>
    BY <1>7 DEF Connect, ConnectInv, ConnectOK, ConnectError, ConnectPending
  <2>2. state' \in {"INIT", "DNS", "CONNECTING"} /\ pc' # "tuples"
    BY <1>1, <1>7 DEF Connect, ConnectOK, ConnectError, ConnectPending, StartConnect,
                      ReturnFromConnect
  <2> QED  BY <2>1, <2>2
<1>8. CASE Resolve
  BY <1>1, <1>8 DEF Resolve, ConnectResolved, ReturnFromConnect
<1>9. CASE Tuple \/ Body
  BY <1>9 DEF Tuple, Body
<1>10. CASE PostRequest
  BY <1>10 DEF PostRequest
<1>11. CASE Write
  <2>1. Idle /\ pc' = "switch" /\ UNCHANGED pcb /\ state # "RETRY"
    BY <1>11 DEF Write
  <2>2. PICK result \in {"OK", "MEM", "ERR"} :
          /\ SendRequest([ch |-> ch, body |-> outputData[ch]], result)
          /\ st' = result
    BY <1>11 DEF Write
  <2>3. CASE UNCHANGED <<state, netVars>>
    BY <2>1, <2>3
  <2>4. CASE ~ UNCHANGED <<state, netVars>>
    <3>1. /\ pcb = "up" /\ state' = "SENDING" /\ result # "MEM" /\ UNCHANGED resps
          /\ reqs' = Append(reqs, [ch |-> ch, body |-> outputData[ch]])
      BY <2>2, <2>4 DEF SendRequest, Transmit, WholeAnswers
    <3>2. Len(reqs') = 1 /\ Len(resps') = 0
      BY <2>1, <3>1
    <3> QED  BY <2>1, <2>2, <3>1, <3>2
  <2> QED  BY <2>3, <2>4
<1>12. CASE Switch
  BY <1>12 DEF Switch, StateAfter, TypeOK, MainTypeOK
<1>13. CASE Return
  BY <1>13 DEF Return
<1>14. CASE Posted
  BY <1>1, <1>14 DEF Posted
<1>15. CASE CheckResponse
  BY <1>1, <1>15 DEF CheckResponse
<1>16. CASE Process
  BY <1>16 DEF Process
<1>17. CASE SetReady
  BY <1>1, <1>17 DEF SetReady
<1> QED  BY <1>2, <1>3, <1>4, <1>5, <1>6, <1>7, <1>8, <1>9, <1>10, <1>11, <1>12, <1>13,
            <1>14, <1>15, <1>16, <1>17 DEF Main

-----------------------------------------------------------------------------
(* What the logger believes of the request under way. *)

(* A step that neither posts nor takes an answer keeps AnswerInv.          *)
LEMMA AnswerFrame ==
    ASSUME AnswerInv,
           UNCHANGED <<values, outputData, channel, data, stored>>,
           UNCHANGED <<reqs, resps>> \/ Idle',
           Answered' => Answered,
           pc' \notin {"processResponse", "postRequest", "write"}
    PROVE  AnswerInv'
BY DEF AnswerInv, Idle, Truthful, BodyOfQueue

(* An answer that was true stays true, as the middleware forgets nothing.  *)
LEMMA TruthfulStays ==
    ASSUME NEW c \in Channels, NEW piece, Truthful(c, piece),
           stored[c] \subseteq stored'[c], UNCHANGED outputData
    PROVE  Truthful(c, piece)'
BY DEF Truthful

(* Storing a body adds to what is stored (Middleware, Commit).             *)
LEMMA CommitAdds ==
    ASSUME TypeOK, NEW r \in Request, Commit(r)
    PROVE  /\ \A c \in Channels : stored[c] \subseteq stored'[c]
           /\ Range(r.body) \subseteq stored'[r.ch]
<1>1. r.ch \in Channels /\ stored \in [Channels -> SUBSET Nat]
  BY DEF TypeOK, NetTypeOK, Request
<1> QED  BY <1>1 DEF Commit

(* vz_altcp_recv hands over the one answer to the last request posted.     *)
LEMMA AnswerCallback ==
    ASSUME TypeOK, IdleInv, AnswerInv, Callback, UNCHANGED <<mainVars, vzVars>>
    PROVE  AnswerInv'
<1>1. UNCHANGED <<values, outputData, pc, mi, ki>>
  BY DEF mainVars, vzVars
<1>2. ch' = ch
  BY <1>1 DEF ch
<1>3. CASE RecvData
  <2>1. /\ resps # <<>> /\ resps' = Tail(resps) /\ data' = Head(resps)
        /\ UNCHANGED <<channel, reqs, stored>> /\ resps \in Seq(Piece)
    BY <1>3 DEF RecvData, TypeOK, NetTypeOK
  <2>2. reqs = <<>> /\ Len(resps) <= 1 /\ ~ TakenForFree
    BY <2>1 DEF IdleInv, Idle
  <2>3. resps' = <<>> /\ data' \in Piece
    BY <2>1, <2>2
  <2>4. pc' \notin {"processResponse", "write"}
    BY <1>1, <2>2 DEF TakenForFree
  <2>5. channel \in Channels /\ BodyOfQueue(channel) /\ Truthful(channel, Head(resps))
    BY <2>1 DEF AnswerInv, Idle
  <2> QED  BY <1>1, <1>2, <2>1, <2>2, <2>3, <2>4, <2>5
           DEF AnswerInv, Idle, Answered, Truthful, BodyOfQueue
<1>4. CASE ~ RecvData
  <2>1. UNCHANGED <<channel, data, stored>> /\ (UNCHANGED <<reqs, resps>> \/ Idle')
    BY <1>4 DEF Callback, DnsFound, Connected, Poll, ConnectionError, RecvClosed, DeletePCB,
                Disconnect, netVars, Idle
  <2>2. state' = state \/ state' # "REPLIED"
    BY <1>4 DEF Callback, DnsFound, Connected, Poll, ConnectionError, RecvClosed, StartConnect
  <2>3. Answered' => Answered
    BY <1>1, <2>2 DEF Answered
  <2> QED  BY <1>1, <1>2, <2>1, <2>3 DEF AnswerInv, Idle, Truthful, BodyOfQueue
<1> QED  BY <1>3, <1>4

(* The middleware's answer is true of the body it answers (Serve).         *)
LEMMA AnswerWorld ==
    ASSUME WholeAnswers, TypeOK, IdleInv, AnswerInv, World, UNCHANGED <<mainVars, vzVars>>
    PROVE  AnswerInv'
<1>1. UNCHANGED <<values, outputData, pc, mi, ki, channel, data, state>>
  BY DEF mainVars, vzVars, World, lwipVars
<1>2. ch' = ch /\ (Answered' <=> Answered)
  BY <1>1 DEF ch, Answered
<1>3. CASE Serve
  <2>1. PICK verdict \in {"ok", "dup", "fail"} :
          /\ resps' = <<Answer(verdict)>>
          /\ verdict = "ok"  => Commit(Head(reqs))
          /\ verdict = "dup" => Known(Head(reqs))
          /\ verdict # "ok"  => UNCHANGED stored
    BY <1>3, ServeAnswers
  <2>2. reqs # <<>> /\ reqs' = <<>>
    BY <1>3, ServeAnswers
  <2>3. /\ channel \in Channels /\ BodyOfQueue(channel)
        /\ Head(reqs) = [ch |-> channel, body |-> outputData[channel]]
    BY <2>2 DEF AnswerInv, Idle
  <2>4. Head(reqs) \in Request
    BY <2>2 DEF TypeOK, NetTypeOK
  <2>5. /\ stored[channel] \subseteq stored'[channel]
        /\ verdict = "ok" => Range(outputData[channel]) \subseteq stored'[channel]
    BY <2>1, <2>3, <2>4, CommitAdds
  <2>6. verdict = "dup" => Range(outputData[channel]) \cap stored[channel] # {}
    BY <2>1, <2>3 DEF Known
  <2>7. Truthful(channel, Answer(verdict))'
    BY <1>1, <2>1, <2>5, <2>6 DEF Truthful, Answer
  <2>8. ~ Idle /\ ~ TakenForFree
    BY <2>2 DEF IdleInv, Idle
  <2>9. ~ Answered' /\ pc' \notin {"processResponse", "write"}
    BY <1>1, <1>2, <2>8 DEF Answered, TakenForFree
  <2>10. Head(resps') = Answer(verdict)
    BY <2>1
  <2> QED  BY <1>1, <1>2, <2>2, <2>3, <2>7, <2>9, <2>10 DEF AnswerInv, BodyOfQueue, Truthful
<1>4. CASE ServeOrphan
  <2>1. UNCHANGED <<reqs, resps>> /\ \A c \in Channels : stored[c] \subseteq stored'[c]
    <3>1. PICK r \in orphans : Commit(r) \/ UNCHANGED stored
      BY <1>4 DEF ServeOrphan
    <3>2. r \in Request
      BY DEF TypeOK, NetTypeOK
    <3> QED  BY <1>4, <3>1, <3>2, CommitAdds DEF ServeOrphan
  <2>2. resps # <<>> => Truthful(channel, Head(resps))'
    BY <1>1, <2>1, TruthfulStays DEF AnswerInv, Idle
  <2>3. Answered => Truthful(channel, data)'
    BY <1>1, <2>1, TruthfulStays DEF AnswerInv
  <2> QED  BY <1>1, <1>2, <2>1, <2>2, <2>3 DEF AnswerInv, Idle, BodyOfQueue, Truthful
<1> QED  BY <1>3, <1>4 DEF World

(* The main loop posts a front of _values, and changes _values only when   *)
(* no request or answer refers to them.                                    *)
LEMMA AnswerMain ==
    ASSUME WholeAnswers, TypeOK, DataInv, ConnectInv, IdleInv, AnswerInv, Main
    PROVE  AnswerInv'
<1> USE DEF At, Goto, OnlyPC, OnlyPCAndSt
<1>1. NextChannel => pc' \in {"sendData", "checkResponse", "meter", "loop"}
  BY NextChannelGoes
<1>2. CASE ReadMeter \/ StartRound \/ VisitMeter \/ SendData
  BY <1>2, AnswerFrame DEF ReadMeter, StartRound, VisitMeter, SendData, ToNextMeter, Answered,
                           vzVars, lwipVars, netVars
<1>3. CASE Send
  <2>1. pc' \in {"reconnect", "tuples", "checkResponse", "sendData", "meter", "loop"}
    BY <1>1, <1>3 DEF Send, TypeOK, LwipTypeOK
  <2> QED  BY <1>3, <2>1, AnswerFrame DEF Send, Answered, vzVars, lwipVars, netVars
<1>4. CASE Reconnect
  BY <1>4, AnswerFrame DEF Reconnect, DropConnection, DeletePCB, Disconnect, Answered, Idle, vzVars
<1>5. CASE Connect
  <2>1. pc' \notin {"processResponse", "postRequest", "write"} /\ state' # "REPLIED"
    BY <1>1, <1>5 DEF Connect, ConnectOK, ConnectError, ConnectPending, StartConnect,
                      ReturnFromConnect
  <2>2. UNCHANGED <<channel, data, netVars, vzVars>>
    BY <1>5 DEF Connect, ConnectOK, ConnectError, ConnectPending
  <2> QED  BY <2>1, <2>2, AnswerFrame DEF Answered, vzVars, netVars
<1>6. CASE Resolve
  BY <1>1, <1>6, AnswerFrame DEF Resolve, ConnectResolved, ReturnFromConnect, Answered, vzVars,
                                 netVars
<1>7. CASE Tuple
  <2>1. Idle /\ state # "REPLIED"
    BY <1>7 DEF Tuple, IdleInv, TakenForFree
  <2> QED  BY <1>7, <2>1 DEF Tuple, AnswerInv, Idle, Answered, lwipVars, netVars
<1>8. CASE Body
  <2>1. Idle /\ state # "REPLIED"
    BY <1>8 DEF Body, IdleInv, TakenForFree
  <2>2. BodyOfQueue(ch)'
    BY <1>8, DataBody
  <2> QED  BY <1>8, <2>1, <2>2 DEF Body, AnswerInv, Idle, Answered, lwipVars, netVars
<1>9. CASE PostRequest
  <2>1. UNCHANGED <<mi, ki, values, outputData, data, stored, reqs, resps, state>>
    BY <1>9 DEF PostRequest, vzVars, netVars
  <2>2. ch' = ch
    BY <2>1 DEF ch
  <2>3. CASE state = "READY"
    <3>1. pc' = "write" /\ channel' = ch /\ Idle /\ BodyOfQueue(ch)
      BY <1>9, <2>3 DEF PostRequest, IdleInv, TakenForFree, AnswerInv
    <3> QED  BY <2>1, <2>2, <2>3, <3>1 DEF AnswerInv, Idle, Answered, BodyOfQueue
  <2>4. CASE state # "READY"
    BY <1>9, <2>1, <2>4, AnswerFrame DEF PostRequest, Answered
  <2> QED  BY <2>3, <2>4
<1>10. CASE Write
  <2>1. /\ pc = "write" /\ pc' = "switch" /\ Idle /\ BodyOfQueue(ch) /\ channel = ch
        /\ UNCHANGED <<values, outputData, channel, data>>
    BY <1>10 DEF Write, IdleInv, TakenForFree, AnswerInv, vzVars
  <2>2. CASE UNCHANGED <<state, netVars>>
    BY <2>1, <2>2, AnswerFrame DEF Answered, netVars
  <2>3. CASE ~ UNCHANGED <<state, netVars>>
    <3>1. /\ state' = "SENDING" /\ UNCHANGED <<resps, stored>>
          /\ reqs' = Append(reqs, [ch |-> ch, body |-> outputData[ch]])
      BY <1>10, <2>3 DEF Write, SendRequest, Transmit
    <3>2. Head(reqs') = [ch |-> channel, body |-> outputData[channel]] /\ resps' = <<>>
      BY <2>1, <3>1 DEF Idle
    <3>3. channel \in Channels
      BY <2>1, CursorType DEF TypeOK
    <3> QED  BY <2>1, <3>1, <3>2, <3>3 DEF AnswerInv, Answered, BodyOfQueue
  <2> QED  BY <2>2, <2>3
<1>11. CASE Switch
  BY <1>11, AnswerFrame DEF Switch, StateAfter, Answered, TypeOK, MainTypeOK, vzVars, netVars
<1>12. CASE Return
  BY <1>12, AnswerFrame DEF Return, Answered, vzVars, lwipVars, netVars
<1>13. CASE Posted
  BY <1>1, <1>13, AnswerFrame DEF Posted, Answered, vzVars, netVars
<1>14. CASE CheckResponse
  <2>1. UNCHANGED <<channel, data, values, outputData, stored, reqs, resps>>
    BY <1>14 DEF CheckResponse, vzVars, netVars
  <2>2. Answered' => Answered
    BY <1>1, <1>14 DEF CheckResponse, Answered
  <2>3. CASE pc' = "processResponse"
    <3>1. channel = ch /\ Answered /\ UNCHANGED <<mi, ki>>
      BY <1>1, <1>14, <2>3 DEF CheckResponse, Answered
    <3>2. ch' = ch
      BY <3>1 DEF ch
    <3> QED  BY <2>1, <2>2, <2>3, <3>1, <3>2 DEF AnswerInv, Idle, Truthful, BodyOfQueue
  <2>4. CASE pc' # "processResponse"
    BY <1>1, <1>14, <2>1, <2>2, <2>4, AnswerFrame DEF CheckResponse
  <2> QED  BY <2>3, <2>4
<1>15. CASE Process
  <2>1. Idle
    BY <1>15 DEF Process, IdleInv, TakenForFree
  <2> QED  BY <1>15, <2>1 DEF Process, AnswerInv, Idle, Answered, lwipVars, netVars
<1>16. CASE SetReady
  BY <1>1, <1>16, AnswerFrame DEF SetReady, Answered, vzVars, netVars
<1> QED  BY <1>2, <1>3, <1>4, <1>5, <1>6, <1>7, <1>8, <1>9, <1>10, <1>11, <1>12, <1>13,
            <1>14, <1>15, <1>16 DEF Main

-----------------------------------------------------------------------------
(* The inductive invariant. *)

(* Whoever moves, no reading is lost and no gap opens.                     *)
LEMMA DataStep ==
    ASSUME WholeAnswers, TypeOK, DataInv, IdleInv, AnswerInv, [Next]_vars
    PROVE  DataInv'
<1> USE DEF vzVars, lwipVars, netVars
<1>1. reqs \in Seq(Request) /\ orphans \subseteq Request
  BY DEF TypeOK, NetTypeOK
<1>2. CASE Main
  <2>1. CASE Tuple \/ Body \/ Process
    BY <2>1, DataTuple, DataBody, DataProcess
  <2>2. CASE Reconnect
    BY <1>1, <2>2, DataDisconnect DEF Reconnect, DropConnection, DeletePCB
  <2>3. CASE ~ (Tuple \/ Body \/ Process \/ Reconnect)
    <3>1. UNCHANGED <<values, last_timestamp, outputData, accepted, stored, orphans>>
      BY <1>2, <2>3 DEF Main, ReadMeter, StartRound, VisitMeter, SendData, Send, Connect,
         ConnectOK, ConnectError, ConnectPending, Resolve, ConnectResolved, PostRequest, Write,
         SendRequest, Switch, Return, Posted, CheckResponse, SetReady
    <3> QED  BY <3>1, DataFrame
  <2> QED  BY <2>1, <2>2, <2>3
<1>3. CASE Interrupt
  <2>1. UNCHANGED <<values, last_timestamp, outputData, accepted>>
    BY <1>3 DEF Interrupt
  <2>2. CASE ConnectionError \/ RecvClosed
    BY <1>1, <2>1, <2>2, DataDisconnect DEF ConnectionError, RecvClosed, DeletePCB
  <2>3. CASE ~ (ConnectionError \/ RecvClosed)
    <3>1. UNCHANGED <<stored, orphans>>
      BY <1>3, <2>3 DEF Interrupt, Callback, DnsFound, Connected, Poll, RecvData
    <3> QED  BY <2>1, <3>1, DataFrame
  <2> QED  BY <2>2, <2>3
<1>4. CASE Network
  <2>1. UNCHANGED <<values, last_timestamp, outputData, accepted>>
    BY <1>4 DEF Network
  <2>2. CASE Serve
    <3>1. reqs # <<>> /\ (Commit(Head(reqs)) \/ UNCHANGED stored) /\ UNCHANGED orphans
      BY <2>2 DEF Serve
    <3>2. /\ Head(reqs) \in Request
          /\ Complete(Head(reqs).ch, Head(reqs).body)
      BY <1>1, <3>1 DEF AnswerInv, Idle, DataInv, BodyInv
    <3> QED  BY <2>1, <3>1, <3>2, DataCommit, DataFrame
  <2>3. CASE ServeOrphan
    <3>1. PICK r \in orphans : orphans' = orphans \ {r} /\ (Commit(r) \/ UNCHANGED stored)
      BY <2>3 DEF ServeOrphan
    <3>2. r \in Request /\ Complete(r.ch, r.body)
      BY <1>1 DEF DataInv, BodyInv
    <3> QED  BY <2>1, <3>1, <3>2, DataCommit, DataFrame
  <2> QED  BY <1>4, <2>2, <2>3 DEF Network, World
<1>5. CASE UNCHANGED vars
  BY <1>5, DataFrame DEF vars
<1> QED  BY <1>2, <1>3, <1>4, <1>5 DEF Next

(* The logger starts with nothing taken over and nothing under way.        *)
LEMMA InvInit ==
    ASSUME Init
    PROVE  Inv
<1> USE DEF Init, VzInit, LwipInit, NetInit
<1>1. TypeOK
  BY TypeInit
<1>2. \A c \in Channels : values[c] = <<>> /\ outputData[c] = <<>> /\ accepted[c] = {}
                          /\ stored[c] = {}
  OBVIOUS
<1>3. Range(<<>>) = {}
  BY DEF Range
<1>4. QueueInv /\ NoLoss /\ NoGaps /\ BodyInv
  BY <1>2, <1>3 DEF QueueInv, NoLoss, NoGaps, BodyInv, Complete
<1>5. ConnectInv /\ IdleInv /\ AnswerInv
  BY DEF ConnectInv, IdleInv, Idle, AnswerInv, Answered
<1> QED  BY <1>1, <1>4, <1>5 DEF Inv

(* Every step of the main loop, of a callback or of the network keeps it.  *)
LEMMA InvStep ==
    ASSUME WholeAnswers, Inv, [Next]_vars
    PROVE  Inv'
<1> USE DEF Inv
<1>1. DataInv
  BY DEF DataInv
<1>2. TypeOK' /\ DataInv'
  BY <1>1, TypeStep, DataStep
<1>3. ConnectInv' /\ IdleInv' /\ AnswerInv'
  <2>1. CASE Main
    BY <1>1, <2>1, ConnectMain, IdleMain, AnswerMain
  <2>2. CASE Interrupt
    BY <2>2, ConnectCallback, IdleCallback, AnswerCallback DEF Interrupt
  <2>3. CASE Network
    <3>1. ConnectInv'
      BY <2>3 DEF ConnectInv, Network, World, lwipVars, mainVars
    <3> QED  BY <2>3, <3>1, IdleWorld, AnswerWorld DEF Network
  <2>4. CASE UNCHANGED vars
    BY <2>4 DEF vars, mainVars, vzVars, lwipVars, netVars, ConnectInv, IdleInv, AnswerInv, Idle,
                TakenForFree, Answered, Truthful, BodyOfQueue, ch
  <2> QED  BY <2>1, <2>2, <2>3, <2>4 DEF Next
<1> QED  BY <1>2, <1>3 DEF DataInv

(* With answers in one piece and no ERR_MEM from altcp_output, the main    *)
(* loop, its callbacks and the network keep the inductive invariant.       *)
THEOREM InvHolds ==
    ASSUME WholeAnswers
    PROVE  Spec => []Inv
<1>1. Init => Inv
  BY InvInit
<1>2. Inv /\ [Next]_vars => Inv'
  BY InvStep
<1> QED  BY <1>1, <1>2, PTL DEF Spec

(* No reading taken over is ever lost, though answers and connections are  *)
(* (processResponse, api_parse_exception).                                 *)
THEOREM NoReadingLost ==
    ASSUME WholeAnswers
    PROVE  Spec => []NoLoss
<1>1. Inv => NoLoss
  BY DEF Inv
<1> QED  BY <1>1, InvHolds, PTL

(* The middleware gets a channel's readings in their order, whatever late  *)
(* requests it still serves (api_json_tuples, MAX_CHUNK_SIZE).             *)
THEOREM InOrder ==
    ASSUME WholeAnswers
    PROVE  Spec => []NoGaps
<1>1. Inv => NoGaps
  BY DEF Inv
<1> QED  BY <1>1, InvHolds, PTL

(* In VZ_SRV_READY nothing is outstanding, so a request is never pipelined *)
(* behind another one (LwipIF::postRequest).                               *)
THEOREM ReadyMeansIdle ==
    ASSUME WholeAnswers
    PROVE  Spec => []ReadyIsIdle
<1>1. Inv => ReadyIsIdle
  BY DEF Inv, IdleInv, TakenForFree, Idle, ReadyIsIdle
<1> QED  BY <1>1, InvHolds, PTL

-----------------------------------------------------------------------------
(* PicoSend implements the delivery promise of module Delivery. *)

(* The timestamps a reading may have when it is taken over. *)
Stamps == Times \cup {Fixed(t) : t \in Times}

BufferInv == \A c \in Channels : \A i \in DOMAIN buf[c] : buf[c][i].time \in Stamps

(* Fixing a timestamp twice is fixing it once (Buffer::aggregate runs over *)
(* what an earlier run left in the buffer).                                *)
LEMMA FixedTwice ==
    ASSUME NEW t \in Nat
    PROVE  Fixed(Fixed(t)) = Fixed(t)
<1>1. AggFixed \in Nat
  BY PicoAssumption
<1>2. CASE AggFixed > 0
  <2> DEFINE k == t \div AggFixed
  <2>1. k \in Nat
    BY <1>1, <1>2
  <2>2. Fixed(t) = AggFixed * k
    BY <1>2 DEF Fixed
  <2>3. (AggFixed * k) \div AggFixed = k
    BY <1>1, <1>2, <2>1
  <2> QED  BY <1>2, <2>2, <2>3 DEF Fixed
<1> QED  BY <1>1, <1>2 DEF Fixed

(* A timestamp the meters deliver, fixed or not, stays one when it is      *)
(* fixed (Buffer::aggregate).                                              *)
LEMMA FixedStamp ==
    ASSUME NEW t \in Stamps
    PROVE  Fixed(t) \in Stamps
<1>1. CASE t \in Times
  BY <1>1 DEF Stamps
<1>2. CASE t \notin Times
  <2>1. PICK u \in Times : t = Fixed(u)
    BY <1>2 DEF Stamps
  <2>2. Fixed(t) = t
    BY <2>1, FixedTwice, PicoAssumption
  <2> QED  BY <2>2
<1> QED  BY <1>1, <1>2

(* Reading, aggregating and taking over leave such timestamps in the       *)
(* channel buffers (MeterMap::read, Buffer::aggregate, api_json_tuples).   *)
LEMMA BufferStep ==
    ASSUME TypeOK, BufferInv, [Next]_vars
    PROVE  BufferInv'
<1> DEFINE Stamped(b) == \A i \in DOMAIN b : b[i].time \in Stamps
<1>1. ASSUME NEW c \in Channels, NEW b, buf' = [buf EXCEPT ![c] = b], Stamped(b)
      PROVE  BufferInv'
  <2>1. ASSUME NEW d \in Channels
        PROVE  Stamped(buf'[d])
    <3>1. buf'[d] = IF d = c THEN b ELSE buf[d]
      BY <1>1 DEF TypeOK, MainTypeOK
    <3> QED  BY <1>1, <3>1 DEF BufferInv
  <2> QED  BY <2>1 DEF BufferInv
<1>2. /\ ch \in Channels
      /\ \A c \in Channels : buf[c] \in Seq(Reading) /\ Stamped(buf[c])
  BY CursorType DEF TypeOK, MainTypeOK, BufferInv
<1> HIDE DEF Stamped
<1>3. CASE ReadMeter
  <2>1. PICK c \in Channels, t \in Times, v \in Values :
          buf' = [buf EXCEPT ![c] = Append(@, [time |-> t, value |-> v])]
    BY <1>3 DEF ReadMeter
  <2>2. Stamped(Append(buf[c], [time |-> t, value |-> v]))
    <3>1. t \in Stamps
      BY DEF Stamps
    <3> QED  BY <1>2, <3>1 DEF Stamped
  <2>3. buf' = [buf EXCEPT ![c] = Append(buf[c], [time |-> t, value |-> v])]
    BY <2>1
  <2> QED  BY <1>1, <2>2, <2>3
<1>4. CASE SendData
  <2>1. PICK b \in Aggregates(ch, buf[ch]) : buf' = [buf EXCEPT ![ch] = b]
    BY <1>4 DEF SendData
  <2>2. CASE b = buf[ch]
    BY <1>1, <1>2, <2>1, <2>2
  <2>3. CASE b # buf[ch]
    <3>1. PICK i \in DOMAIN buf[ch], v \in Values :
            b = <<[time |-> Fixed(buf[ch][i].time), value |-> v]>>
      BY <2>1, <2>3 DEF Aggregates
    <3>2. Fixed(buf[ch][i].time) \in Stamps
      BY <1>2, FixedStamp DEF Stamped
    <3>3. Stamped(b)
      BY <3>1, <3>2 DEF Stamped
    <3> QED  BY <1>1, <1>2, <2>1, <3>3
  <2> QED  BY <2>2, <2>3
<1>5. CASE Tuple
  <2>1. buf' = [buf EXCEPT ![ch] = Tail(buf[ch])] /\ buf[ch] # <<>>
    BY <1>5 DEF Tuple
  <2>2. /\ Tail(buf[ch]) \in Seq(Reading) /\ Len(Tail(buf[ch])) = Len(buf[ch]) - 1
        /\ \A i \in 1..Len(Tail(buf[ch])) : Tail(buf[ch])[i] = buf[ch][i + 1]
        /\ \A i \in 1..Len(Tail(buf[ch])) : i + 1 \in DOMAIN buf[ch]
    BY <1>2, <2>1
  <2>3. Stamped(Tail(buf[ch]))
    BY <1>2, <2>2 DEF Stamped
  <2> QED  BY <1>1, <1>2, <2>1, <2>3
<1>6. CASE UNCHANGED buf
  BY <1>6 DEF BufferInv
<1>7. CASE Connect \/ Resolve \/ Send
  <2>1. UNCHANGED buf
    BY <1>7 DEF Connect, Resolve, Send, ReturnFromConnect, NextChannel, Goto, OnlyPC, TypeOK, LwipTypeOK
  <2> QED  BY <1>6, <2>1
<1>8. CASE Main /\ ~ (ReadMeter \/ SendData \/ Tuple \/ Connect \/ Resolve \/ Send)
  <2>1. UNCHANGED buf
    BY <1>8 DEF Main, StartRound, VisitMeter, Reconnect, NextChannel, Body, PostRequest, Write,
       Switch, Return, Posted, CheckResponse, Process, SetReady, Goto, OnlyPC, OnlyPCAndSt
  <2> QED  BY <1>6, <2>1
<1> QED  BY <1>3, <1>4, <1>5, <1>6, <1>7, <1>8 DEF Next, Interrupt, Network, mainVars, vars

-----------------------------------------------------------------------------
(* The steps of the promise. *)

(* api_json_tuples accepts a reading.                                      *)
LEMMA TupleAccepts ==
    ASSUME TypeOK, DataInv, BufferInv, Tuple
    PROVE  [Promise!Next]_(Promise!vars)
<1> DEFINE c == ch  r == Head(buf[c])
<1>1. c \in Channels /\ r \in Reading /\ buf[c] \in Seq(Reading) /\ buf[c] # <<>>
  BY CursorType DEF Tuple, TypeOK, MainTypeOK
<1>2. r.time \in Stamps
  BY <1>1 DEF BufferInv
<1>3. TakeOver(c, r) /\ UNCHANGED stored
  BY DEF Tuple, netVars
<1> HIDE DEF c, r
<1>4. CASE Wanted(c, r)
  <2>1. /\ values' = [values EXCEPT ![c] = Append(@, r.time)]
        /\ accepted' = [accepted EXCEPT ![c] = @ \cup {r.time}]
    BY <1>3, <1>4 DEF TakeOver
  <2>2. last_timestamp[c] \in Nat /\ r.time \in Nat /\ last_timestamp[c] < r.time
    BY <1>1, <1>4 DEF Wanted, Reading, TypeOK, VzTypeOK
  <2>3. \A u \in accepted[c] : u < r.time
    <3>1. \A u \in accepted[c] : u \in Nat /\ u <= last_timestamp[c]
      BY <1>1 DEF DataInv, QueueInv, TypeOK, VzTypeOK
    <3> QED  BY <2>2, <3>1
  <2>4. Promise!Accept(c, r.time)
    BY <1>3, <2>1, <2>3 DEF Promise!Accept
  <2> QED  BY <1>1, <1>2, <2>4 DEF Promise!Next, Stamps
<1>5. CASE ~ Wanted(c, r)
  BY <1>3, <1>5 DEF TakeOver, vzVars, Promise!vars
<1> QED  BY <1>4, <1>5

(* processResponse releases a front of the queue, all of it stored.        *)
LEMMA ProcessReleases ==
    ASSUME TypeOK, DataInv, AnswerInv, Process
    PROVE  [Promise!Next]_(Promise!vars)
<1> DEFINE c == ch  q == values[c]
<1>1. c \in Channels /\ values \in [Channels -> Seq(Nat)] /\ q \in Seq(Nat)
  BY CursorType DEF TypeOK, VzTypeOK
<1>2. /\ Truthful(c, data) /\ (q = <<>> \/ outputData[c] = Chunk(q))
  BY DEF AnswerInv, Answered, Process, At, BodyOfQueue
<1>3. /\ values' = [values EXCEPT ![c] =
            IF data.http = 200 THEN AfterSuccess(q) ELSE AfterException(q, data.payload)]
      /\ UNCHANGED <<accepted, stored>>
  BY <1>2 DEF Process, ProcessResponse, Truthful, netVars
<1> HIDE DEF c
<1>4. ASSUME NEW n \in 1..Len(q), \A i \in 1..n : q[i] \in stored[c],
             values' = [values EXCEPT ![c] = SubSeq(q, n + 1, Len(q))]
      PROVE  Promise!Next
  BY <1>1, <1>3, <1>4 DEF Promise!Next, Promise!Release
<1>5. CASE values' = values
  BY <1>3, <1>5 DEF Promise!vars
<1>6. CASE data.http = 200 /\ q # <<>>
  <2> DEFINE n == Len(Chunk(q))
  <2>1. MaxChunkSize \in Nat \ {0}
    BY VolkszaehlerAssumption
  <2>2. n \in 1..Len(q)
    BY <1>1, <1>6, ChunkIsFront
  <2>3. \A i \in 1..n : q[i] \in stored[c]
    <3>1. Range(Chunk(q)) \subseteq stored[c]
      BY <1>2, <1>6 DEF Truthful
    <3>2. DOMAIN Chunk(q) = 1..n /\ \A i \in 1..n : Chunk(q)[i] = q[i]
      BY <1>1, ChunkIsFront
    <3> QED  BY <3>1, <3>2 DEF Range
  <2>4. AfterSuccess(q) = SubSeq(q, n + 1, Len(q))
    <3>1. CASE Len(q) <= MaxChunkSize
      <4>1. n = Len(q) /\ AfterSuccess(q) = <<>>
        BY <3>1 DEF AfterSuccess, Chunk
      <4>2. SubSeq(q, Len(q) + 1, Len(q)) = <<>>
        BY <1>1
      <4> QED  BY <4>1, <4>2
    <3>2. CASE ~ (Len(q) <= MaxChunkSize)
      <4>1. AfterSuccess(q) = SubSeq(q, MaxChunkSize + 1, Len(q)) /\ Chunk(q) = SubSeq(q, 1, MaxChunkSize)
        BY <3>2 DEF AfterSuccess, Chunk
      <4>2. n = MaxChunkSize
        BY <1>1, <2>1, <3>2, <4>1
      <4> QED  BY <4>1, <4>2
    <3> QED  BY <3>1, <3>2
  <2>5. values' = [values EXCEPT ![c] = SubSeq(q, n + 1, Len(q))]
    BY <1>3, <1>6, <2>4
  <2> HIDE DEF n
  <2>6. Promise!Next
    BY <1>4, <2>2, <2>3, <2>5
  <2> QED  BY <2>6
<1>7. CASE data.http # 200 /\ data.payload = "dup" /\ q # <<>>
  <2>1. q[1] \in stored[c]
    BY <1>1, <1>2, <1>7, FirstStored DEF Truthful
  <2>2. 1 \in 1..Len(q) /\ Tail(q) = SubSeq(q, 1 + 1, Len(q))
    BY <1>1, <1>7
  <2>3. values' = [values EXCEPT ![c] = SubSeq(q, 1 + 1, Len(q))]
    BY <1>3, <1>7, <2>2 DEF AfterException
  <2>4. \A i \in 1..1 : q[i] \in stored[c]
    BY <2>1
  <2>5. Promise!Next
    BY <1>4, <2>2, <2>3, <2>4
  <2> QED  BY <2>5
<1>8. CASE ~ (data.http = 200 /\ q # <<>>) /\ ~ (data.http # 200 /\ data.payload = "dup" /\ q # <<>>)
  <2>1. AfterSuccess(<<>>) = <<>>
    BY VolkszaehlerAssumption DEF AfterSuccess
  <2>2. values' = [values EXCEPT ![c] = q]
    BY <1>3, <1>8, <2>1 DEF AfterException
  <2> QED  BY <1>1, <1>5, <2>2
<1> QED  BY <1>5, <1>6, <1>7, <1>8

(* The middleware stores a batch of new readings that leaves none out.     *)
LEMMA CommitStores ==
    ASSUME NEW r \in Request, Complete(r.ch, r.body), ~ Known(r), Commit(r),
           UNCHANGED <<values, accepted>>
    PROVE  Promise!Next
<1> DEFINE batch == Range(r.body)
<1>1. r.ch \in Channels /\ batch \subseteq accepted[r.ch] \ stored[r.ch]
  BY DEF Request, Complete, Known
<1>2. Promise!Store(r.ch, batch)
  BY <1>1 DEF Promise!Store, Complete, Commit
<1> QED  BY <1>1, <1>2 DEF Promise!Next

(* Every step of PicoSend is a step of the promise, or none.               *)
LEMMA DeliveryStep ==
    ASSUME WholeAnswers, Inv, BufferInv, [Next]_vars
    PROVE  [Promise!Next]_(Promise!vars)
<1> USE DEF vzVars, lwipVars, netVars
<1>1. TypeOK /\ DataInv /\ IdleInv /\ AnswerInv
  BY DEF Inv, DataInv
<1>2. CASE UNCHANGED <<values, accepted, stored>>
  BY <1>2 DEF Promise!vars
<1>3. CASE Tuple \/ Process
  BY <1>1, <1>3, TupleAccepts, ProcessReleases
<1>4. CASE Main /\ ~ (Tuple \/ Process)
  <2>1. UNCHANGED <<values, accepted, stored>>
    BY <1>4 DEF Main, ReadMeter, StartRound, VisitMeter, SendData, Send, Reconnect, DropConnection,
       Connect, ConnectOK, ConnectError, ConnectPending, Resolve, ConnectResolved, Body, BuildBody,
       PostRequest, Write, SendRequest, Switch, Return, Posted, CheckResponse, SetReady
  <2> QED  BY <1>2, <2>1
<1>5. CASE Interrupt
  <2>1. UNCHANGED <<values, accepted, stored>>
    BY <1>5 DEF Interrupt, Callback, DnsFound, Connected, Poll, ConnectionError, RecvClosed, RecvData
  <2> QED  BY <1>2, <2>1
<1>6. CASE Network
  <2>1. UNCHANGED <<values, accepted>>
    BY <1>6 DEF Network
  <2>2. CASE Serve /\ ~ UNCHANGED stored
    <3>1. reqs # <<>> /\ ~ Known(Head(reqs)) /\ Commit(Head(reqs))
      BY <2>2 DEF Serve
    <3>2. /\ Head(reqs) \in Request
          /\ Complete(Head(reqs).ch, Head(reqs).body)
      BY <1>1, <3>1 DEF AnswerInv, Idle, DataInv, BodyInv, TypeOK, NetTypeOK
    <3> QED  BY <2>1, <3>1, <3>2, CommitStores
  <2>3. CASE ServeOrphan /\ ~ UNCHANGED stored
    <3>1. PICK r \in orphans : ~ Known(r) /\ Commit(r)
      BY <2>3 DEF ServeOrphan
    <3>2. r \in Request /\ Complete(r.ch, r.body)
      BY <1>1 DEF DataInv, BodyInv, TypeOK, NetTypeOK
    <3> QED  BY <2>1, <3>1, <3>2, CommitStores
  <2> QED  BY <1>2, <1>6, <2>1, <2>2, <2>3 DEF Network, World
<1>7. CASE UNCHANGED vars
  BY <1>2, <1>7 DEF vars
<1> QED  BY <1>3, <1>4, <1>5, <1>6, <1>7 DEF Next

(* What Volkszaehler::send, checkResponse and the connection do together   *)
(* is what module Delivery promises.                                       *)
THEOREM KeepsPromise ==
    ASSUME WholeAnswers
    PROVE  Spec => Delivers
<1>1. Init => BufferInv
  BY DEF Init, BufferInv
<1>2. Init => Promise!Init
  BY DEF Init, VzInit, NetInit, Promise!Init
<1>3. Inv /\ BufferInv /\ [Next]_vars => BufferInv'
  BY BufferStep DEF Inv
<1>4. Inv /\ BufferInv /\ [Next]_vars => [Promise!Next]_(Promise!vars)
  BY DeliveryStep
<1> QED  BY <1>1, <1>2, <1>3, <1>4, InvHolds, PTL DEF Spec, Delivers, Promise!Spec

=============================================================================
