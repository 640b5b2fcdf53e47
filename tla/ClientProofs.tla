---------------------------- MODULE ClientProofs ----------------------------
(***************************************************************************)
(* The clients beside the readings' way to the middleware, for all their   *)
(* options and bounds: the clock that the NTP client corrects, what the    *)
(* MQTT client has announced, the readings that the InfluxDB API keeps,    *)
(* and the window that the local web interface serves.                     *)
(***************************************************************************)
EXTENDS Ntp, Mqtt, InfluxDB, LocalInterface, Induction

-----------------------------------------------------------------------------
(* NTP. *)

NtpType ==
    /\ utc \in Int /\ sysTime \in Int /\ since \in Int /\ since <= utc
    /\ theTime \in Int /\ ntpTime \in Int
    /\ sysRefTS \in Int /\ lastUtc \in Int /\ lastTimeSync \in Int
    /\ answers \subseteq [query : Nat, time : Int]
    /\ asked \subseteq Nat /\ query \in Nat

(* Unless an answer was under way when the query began, whatever comes in  *)
(* was said since: the answers under way, and what queryTime has kept.     *)
Said(time) == time = 0 \/ time \in since .. utc

AnswersFresh ==
    ~stray => /\ \A a \in answers : Said(a.time)
              /\ Said(theTime)
              /\ ntppc = "got" => Said(ntpTime)

NtpInv == NtpType /\ AnswersFresh /\ ClockSynced

LEMMA NtpInitInv == NtpInit => NtpInv
  BY NtpAssumption DEF NtpInit, NtpInv, NtpType, AnswersFresh, Said, ClockSynced

LEMMA NtpInductive ==
    ASSUME NtpInv, [NtpNext]_ntpVars
    PROVE  NtpInv'
<1> USE DEF NtpInv, NtpType, AnswersFresh, Said, ClockSynced, clockVars, queryVars, netVars, wifiVars
<1>1. CASE NtpTick
  BY <1>1 DEF NtpTick
<1>2. CASE QueryTime
  <2>1. /\ UNCHANGED <<utc, sysTime, answers, sysRefTS, lastUtc, lastTimeSync>>
        /\ query' = query + 1 /\ theTime' = 0 /\ ntpTime' = 0 /\ since' = utc /\ stray' = (answers # {})
    BY <1>2 DEF QueryTime
  <2>2. asked' = asked \/ asked' = asked \cup {query + 1}
    BY <1>2 DEF QueryTime
  <2>3. NtpType'
    <3>1. query' \in Nat /\ asked' \subseteq Nat
      <4>1. query + 1 \in Nat /\ asked \subseteq Nat
        OBVIOUS
      <4> HIDE DEF NtpInv, NtpType, AnswersFresh, ClockSynced
      <4> QED BY <2>1, <2>2, <4>1
    <3>2. since' \in Int /\ since' <= utc' /\ theTime' \in Int /\ ntpTime' \in Int
      BY <2>1
    <3> QED BY <2>1, <3>1, <3>2
  <2>4. AnswersFresh'
    BY <2>1
  <2> QED BY <2>1, <2>3, <2>4
<1>3. CASE ServerAnswers
  <2>1. PICK q \in asked, time \in {utc, 0} :
          asked' = asked \ {q} /\ answers' = answers \cup {[query |-> q, time |-> time]}
    BY <1>3 DEF ServerAnswers
  <2>2. /\ UNCHANGED <<utc, sysTime, since, stray, theTime, ntppc, ntpTime, query>>
        /\ UNCHANGED <<sysRefTS, lastUtc, lastTimeSync>>
    BY <1>3 DEF ServerAnswers
  <2>3. [query |-> q, time |-> time] \in [query : Nat, time : Int] /\ Said(time)
    BY <2>1
  <2> QED BY <2>1, <2>2, <2>3
<1>4. CASE PacketLost
  BY <1>4 DEF PacketLost
<1>5. CASE NtpRecv \/ NtpFailed
  BY <1>5 DEF NtpRecv, NtpFailed, Result
<1>6. CASE WaitEnds
  BY <1>6 DEF WaitEnds, Result
<1>7. CASE WifiInit \/ SyncTime
  <2>1. /\ UNCHANGED <<utc, sysTime, since, stray, asked, answers, query, theTime, ntpTime>>
        /\ ntppc' # "got"
    BY <1>7 DEF WifiInit, SyncTime
  <2> DEFINE Synced == /\ lastUtc' = ntpTime /\ lastTimeSync' = sysTime /\ sysRefTS' \in Int
                       /\ sysRefTS' + sysTime \in {ntpTime, ntpTime + 1}
  <2>2. CASE ntpTime = 0
    <3>1. UNCHANGED <<sysRefTS, lastUtc, lastTimeSync>>
      BY <1>7, <2>2 DEF WifiInit, SyncTime
    <3> QED BY <2>1, <3>1
  <2>3. CASE WifiInit /\ ntpTime # 0
    <3>1. /\ lastUtc' = ntpTime /\ lastTimeSync' = sysTime
          /\ sysRefTS' = ntpTime - sysTime \/ sysRefTS' = ntpTime - sysTime + 1
      BY <2>3 DEF WifiInit
    <3>2. Synced
      BY <3>1
    <3> QED BY <2>1, <3>2
  <2>4. CASE SyncTime /\ ntpTime # 0
    <3>1. /\ lastUtc' = ntpTime /\ lastTimeSync' = sysTime
          /\ sysRefTS' = sysRefTS + (ntpTime - lastUtc) - (sysTime - lastTimeSync)
          /\ sysRefTS + lastTimeSync = lastUtc \/ sysRefTS + lastTimeSync = lastUtc + 1
      BY <2>4 DEF SyncTime
    <3>2. Synced
      BY <3>1
    <3> QED BY <2>1, <3>2
  <2> QED BY <1>7, <2>2, <2>3, <2>4
<1>8. CASE UNCHANGED ntpVars
  BY <1>8 DEF ntpVars
<1> QED BY <1>1, <1>2, <1>3, <1>4, <1>5, <1>6, <1>7, <1>8 DEF NtpNext

(* However often VzPicoWifi synchronises its clock, whatever packets get   *)
(* lost or late, and whatever the clock of the system does: at the last    *)
(* synchronisation it showed what the server had said, to the second, and  *)
(* NtpClient::queryTime returned no time from before the query, unless an  *)
(* earlier answer was still under way.                                     *)
THEOREM ClockIsSynced == NtpSpec => []ClockSynced
<1>1. NtpSpec => []NtpInv
  BY NtpInitInv, NtpInductive, PTL DEF NtpSpec
<1>2. NtpInv => ClockSynced
  BY DEF NtpInv
<1> QED BY <1>1, <1>2, PTL

-----------------------------------------------------------------------------
(* MQTT. *)

MqttInv ==
    /\ announced \subseteq MqttChannels
    /\ accepted \in [MqttChannels -> SUBSET Announcements]
    /\ AnnouncedIsKnown

LEMMA MqttInitInv == MqttInit => MqttInv
  BY DEF MqttInit, MqttInv, AnnouncedIsKnown

LEMMA MqttInductive ==
    ASSUME MqttInv, [MqttNext]_mqvars
    PROVE  MqttInv'
<1>1. ASSUME NEW c \in MqttChannels, NEW aggregate \in BOOLEAN, Publish(c, aggregate)
      PROVE  MqttInv'
  <2>1. CASE c \in announced
    BY <1>1, <2>1 DEF Publish, Announce, MqttInv, AnnouncedIsKnown
  <2>2. CASE c \notin announced
    <3>1. PICK ok \in SUBSET Announcements :
            /\ accepted' = [accepted EXCEPT ![c] = @ \cup ok]
            /\ announced' = IF ok = {} THEN announced ELSE announced \cup {c}
      BY <1>1, <2>2 DEF Publish, Announce, Accepts
    <3>2. accepted[c] = {}
      BY <2>2 DEF MqttInv, AnnouncedIsKnown
    <3> QED BY <3>1, <3>2 DEF MqttInv, AnnouncedIsKnown
  <2> QED BY <2>1, <2>2
<1>2. ASSUME UNCHANGED ChannelVars
      PROVE  MqttInv'
  BY <1>2 DEF ChannelVars, MqttInv, AnnouncedIsKnown
<1>3. CASE Construct \/ BrokerChanges \/ MqttLoop \/ ReadersEnd \/ EndMqttThread \/ DestroyClient
           \/ UNCHANGED mqvars
  BY <1>2, <1>3 DEF Construct, BrokerChanges, MqttLoop, LoopConnack, LoopFails, Reconnect, LoopEnds,
                    ReadersEnd, EndMqttThread, DestroyClient, mqvars, ChannelVars
<1> QED BY <1>1, <1>3 DEF MqttNext

(* MqttClient::publish sets _announced when the broker has accepted one of *)
(* the values that identify the channel, and not before, wherever the      *)
(* connection breaks.                                                      *)
THEOREM AnnouncementsAreKnown == MqttSpec => []AnnouncedIsKnown
<1>1. MqttInit /\ [][MqttNext]_mqvars => []MqttInv
  BY MqttInitInv, MqttInductive, PTL
<1>2. MqttInv => AnnouncedIsKnown
  BY DEF MqttInv
<1> QED BY <1>1, <1>2, PTL DEF MqttSpec

-----------------------------------------------------------------------------
(* What cleaning a buffer leaves. *)

Sorted(s) == \A i, j \in DOMAIN s : i < j => s[i].id < s[j].id

(* The sequence k is what cleaning the first n of s, of items I, leaves.   *)
LeftOf(I, k, s, n) ==
    /\ k \in Seq(I) /\ Sorted(k)
    /\ \A x \in DOMAIN k : \E j \in 1 .. n : k[x] = s[j]
    /\ \A j \in 1 .. n : ~ s[j].deleted => s[j].id \in IdsOf(k)

LEMMA LeftSkip ==
    ASSUME NEW I, NEW s \in Seq(I), NEW n \in 0 .. Len(s) - 1, NEW k, LeftOf(I, k, s, n), s[n + 1].deleted
    PROVE  LeftOf(I, k, s, n + 1)
<1>1. \A j \in 1 .. n + 1 : j \in 1 .. n \/ j = n + 1
  OBVIOUS
<1>2. \A j \in 1 .. n : j \in 1 .. n + 1
  OBVIOUS
<1> QED BY <1>1, <1>2 DEF LeftOf

LEMMA LeftKeep ==
    ASSUME NEW I, NEW s \in Seq(I), Sorted(s), NEW n \in 0 .. Len(s) - 1, NEW k, LeftOf(I, k, s, n)
    PROVE  LeftOf(I, Append(k, s[n + 1]), s, n + 1)
<1> DEFINE r == s[n + 1]
           m == Len(k)
           c == Append(k, r)
<1>1. n + 1 \in DOMAIN s /\ r \in I
  OBVIOUS
<1>2. k \in Seq(I) /\ m \in Nat /\ DOMAIN k = 1 .. m
  BY DEF LeftOf
<1>3. c \in Seq(I) /\ DOMAIN c = 1 .. m + 1 /\ c[m + 1] = r /\ \A x \in 1 .. m : c[x] = k[x]
  BY <1>1, <1>2
<1> HIDE DEF c, m
<1>4. \A x \in 1 .. m : \E j \in 1 .. n : k[x] = s[j]
  BY <1>2 DEF LeftOf
<1>5. \A x \in 1 .. m : k[x].id < r.id
  <2> TAKE x \in 1 .. m
  <2>1. PICK j \in 1 .. n : k[x] = s[j]
    BY <1>4
  <2>2. j \in DOMAIN s /\ j < n + 1
    OBVIOUS
  <2> QED BY <1>1, <2>1, <2>2 DEF Sorted
<1>6. Sorted(c)
  <2> SUFFICES ASSUME NEW i \in 1 .. m + 1, NEW j \in 1 .. m + 1, i < j
               PROVE  c[i].id < c[j].id
    BY <1>3 DEF Sorted
  <2>1. i \in 1 .. m
    BY <1>2
  <2>2. CASE j = m + 1
    BY <1>3, <1>5, <2>1, <2>2
  <2>3. CASE j # m + 1
    <3>1. j \in 1 .. m
      BY <1>2, <2>3
    <3> QED BY <1>2, <1>3, <2>1, <3>1 DEF LeftOf, Sorted
  <2> QED BY <2>2, <2>3
<1>7. \A x \in DOMAIN c : \E j \in 1 .. n + 1 : c[x] = s[j]
  <2> SUFFICES ASSUME NEW x \in 1 .. m + 1
               PROVE  \E j \in 1 .. n + 1 : c[x] = s[j]
    BY <1>3
  <2>1. CASE x = m + 1
    <3>1. n + 1 \in 1 .. n + 1
      OBVIOUS
    <3> QED BY <1>3, <2>1, <3>1
  <2>2. CASE x # m + 1
    <3>1. x \in 1 .. m
      BY <1>2, <2>2
    <3>2. PICK j \in 1 .. n : k[x] = s[j]
      BY <1>4, <3>1
    <3>3. j \in 1 .. n + 1
      OBVIOUS
    <3> QED BY <1>3, <3>1, <3>2, <3>3
  <2> QED BY <2>1, <2>2
<1>8. r.id \in IdsOf(c) /\ IdsOf(k) \subseteq IdsOf(c)
  BY <1>2, <1>3 DEF IdsOf
<1>9. \A j \in 1 .. n + 1 : ~ s[j].deleted => s[j].id \in IdsOf(c)
  <2> TAKE j \in 1 .. n + 1
  <2>1. j \in 1 .. n \/ j = n + 1
    OBVIOUS
  <2> QED BY <1>8, <2>1 DEF LeftOf
<1> QED BY <1>3, <1>6, <1>7, <1>9 DEF LeftOf, c

LEMMA CleanedLeft ==
    ASSUME NEW I, NEW s \in Seq(I), Sorted(s)
    PROVE  LeftOf(I, Cleaned(s), s, Len(s))
<1> DEFINE n == Len(s)
           A == Seq(I)
           none == << >>
           Next(k, i) == IF s[i].deleted THEN k ELSE Append(k, s[i])
           step == [i \in 1 .. n |-> [x \in A |-> Next(x, i)]]
           Eq(h) == h = [i \in 0 .. n |-> IF i = 0 THEN none ELSE Next(h[i - 1], i)]
           kept == CHOOSE h : Eq(h)
<1>1. n \in Nat /\ none \in A
  OBVIOUS
<1>2. \A i \in 1 .. n : \A x \in A : Next(x, i) \in A
  OBVIOUS
<1>3. Cleaned(s) = kept[n]
  BY DEF Cleaned
<1>4. LeftOf(I, none, s, 0)
  BY DEF LeftOf, Sorted
<1>5. ASSUME NEW i \in 0 .. n - 1, NEW k, LeftOf(I, k, s, i)
      PROVE  LeftOf(I, Next(k, i + 1), s, i + 1)
  <2>1. CASE s[i + 1].deleted
    BY <1>5, <2>1, LeftSkip
  <2>2. CASE ~ s[i + 1].deleted
    BY <1>5, <2>2, LeftKeep
  <2> QED BY <2>1, <2>2
<1> HIDE DEF n, A, none, Next
<1>6. step \in [1 .. n -> [A -> A]]
  BY <1>2
<1>7. PICK g \in [0 .. n -> A] : Recursion(g, none, step, n)
  <2> HIDE DEF step
  <2> QED BY <1>1, <1>6, RecursionExists
<1>8. \A i \in 1 .. n : i - 1 \in 0 .. n /\ g[i - 1] \in A
  BY <1>1
<1>9. g[0] = none /\ \A i \in 1 .. n : g[i] = Next(g[i - 1], i)
  BY <1>7, <1>8 DEF Recursion
<1> HIDE DEF step
<1>10. Eq(g)
  BY <1>1, <1>9
<1>11. Eq(kept)
  <2> HIDE DEF Eq
  <2> QED BY <1>10
<1> HIDE DEF kept
<1>12. kept[0] = none /\ \A i \in 1 .. n : kept[i] = Next(kept[i - 1], i)
  BY <1>1, <1>11
<1> DEFINE S == {i \in 0 .. n : LeftOf(I, kept[i], s, i)}
<1>13. 0 \in S
  BY <1>1, <1>4, <1>12
<1>14. ASSUME NEW i \in 0 .. n - 1, i \in S
       PROVE  i + 1 \in S
  <2>1. i + 1 \in 1 .. n /\ i + 1 \in 0 .. n /\ (i + 1) - 1 = i
    BY <1>1
  <2>2. kept[i + 1] = Next(kept[i], i + 1)
    BY <1>12, <2>1
  <2> QED BY <1>5, <1>14, <2>1, <2>2
<1>15. n \in S
  <2> HIDE DEF S
  <2>1. 0 .. n \subseteq S
    BY <1>1, <1>13, <1>14, BoundedInduction
  <2> QED BY <1>1, <2>1
<1> QED BY <1>3, <1>15 DEF n

-----------------------------------------------------------------------------
(* InfluxDB: what the loop over the buffer makes of it. *)

Item == [id : Nat, value : InfluxValues, deleted : BOOLEAN]

Accs == [lines : Seq(Nat), last : Nat, sent : InfluxValues \cup {0},
         seen : SUBSET Nat, dups : SUBSET Nat]

Full(acc) == Len(acc.lines) >= infconf.maxBatch

(* What is accounted for apart from the buffer: a reading that was looked  *)
(* at must be among it, and so must one that is older than the last that   *)
(* was sent, since it will not be sent any more.                           *)
Handled == server \cup repeated \cup failed \cup ToSet(body)

Passed(acc) ==
    \A k \in IdsOf(ibuf) :
        k \in acc.seen \/ k < acc.last => k \in Handled \cup ToSet(acc.lines) \cup acc.dups

Through(acc, n) ==
    /\ acc \in Accs /\ acc.last <= pushed
    /\ ~ Full(acc) => \A j \in 1 .. n : ibuf[j].id \in acc.seen
    /\ Passed(acc)

LEMMA ToSetAppend ==
    ASSUME NEW I, NEW s \in Seq(I), NEW e \in I
    PROVE  ToSet(Append(s, e)) = ToSet(s) \cup {e}
<1> DEFINE n == Len(s)
           t == Append(s, e)
<1>1. /\ n \in Nat /\ DOMAIN s = 1 .. n /\ DOMAIN t = 1 .. n + 1
      /\ t[n + 1] = e /\ \A i \in 1 .. n : t[i] = s[i]
  OBVIOUS
<1> HIDE DEF n, t
<1>2. ToSet(t) = ToSet(s) \cup {e}
  BY <1>1 DEF ToSet
<1> QED BY <1>2 DEF t

LEMMA ItemIs ==
    ASSUME NEW r \in Item
    PROVE  r.id \in Nat /\ r.value \in InfluxValues
BY DEF Item

LEMMA FilterIs ==
    ASSUME NEW acc \in Accs, NEW r \in Item
    PROVE  LET f == Filter(acc, r) IN
           \/ Full(acc) /\ f = acc
           \/ /\ ~ Full(acc) /\ f \in Accs /\ f.seen = acc.seen \cup {r.id}
              /\ \/ f.lines = Append(acc.lines, r.id) /\ f.last = r.id /\ f.dups = acc.dups
                 \/ f.lines = acc.lines /\ f.last = acc.last /\ f.dups = acc.dups \cup {r.id}
                 \/ /\ f.lines = acc.lines /\ f.last = acc.last /\ f.dups = acc.dups
                    /\ r.id < acc.last
<1> DEFINE f == Filter(acc, r)
           new == infconf.duplicates = 0 \/ acc.sent = 0
                    \/ r.id >= acc.last + infconf.duplicates \/ r.value # acc.sent
           line == acc.last <= r.id /\ new
           old == acc.last <= r.id /\ ~new
           lines == IF line THEN Append(acc.lines, r.id) ELSE acc.lines
           last == IF line THEN r.id ELSE acc.last
           sent == IF line /\ infconf.duplicates > 0 THEN r.value ELSE acc.sent
           seen == acc.seen \cup {r.id}
           dups == IF old THEN acc.dups \cup {r.id} ELSE acc.dups
           g == [lines |-> lines, last |-> last, sent |-> sent, seen |-> seen, dups |-> dups]
<1>1. f = IF Full(acc) THEN acc ELSE g
  BY DEF Filter, Full
<1>2. CASE Full(acc)
  BY <1>1, <1>2
<1>3. CASE ~ Full(acc)
  <2>1. f = g
    BY <1>1, <1>3
  <2>2. r.id \in Nat /\ r.value \in InfluxValues
    BY ItemIs
  <2>3. /\ acc.lines \in Seq(Nat) /\ acc.last \in Nat /\ acc.sent \in InfluxValues \cup {0}
        /\ acc.seen \in SUBSET Nat /\ acc.dups \in SUBSET Nat
    BY DEF Accs
  <2> HIDE DEF new
  <2>4. \/ line /\ ~ old
        \/ ~ line /\ old
        \/ ~ line /\ ~ old /\ r.id < acc.last
    BY <2>2, <2>3
  <2> HIDE DEF line, old
  <2>5. \/ lines = Append(acc.lines, r.id) /\ last = r.id /\ dups = acc.dups
        \/ lines = acc.lines /\ last = acc.last /\ dups = acc.dups \cup {r.id}
        \/ lines = acc.lines /\ last = acc.last /\ dups = acc.dups /\ r.id < acc.last
    BY <2>4
  <2>6. lines \in Seq(Nat) /\ last \in Nat
    BY <2>2, <2>3
  <2>7. sent \in InfluxValues \cup {0}
    BY <2>2, <2>3
  <2>8. seen \in SUBSET Nat /\ dups \in SUBSET Nat
    BY <2>2, <2>3
  <2> HIDE DEF lines, last, sent, seen, dups
  <2>9. g \in Accs
    BY <2>6, <2>7, <2>8 DEF Accs
  <2>10. /\ g.lines = lines /\ g.last = last /\ g.seen = seen /\ g.dups = dups
    OBVIOUS
  <2>11. seen = acc.seen \cup {r.id}
    BY DEF seen
  <2> HIDE DEF g, f
  <2> QED BY <1>3, <2>1, <2>5, <2>9, <2>10, <2>11 DEF f
<1> QED BY <1>2, <1>3

LEMMA FilterPasses ==
    ASSUME ibuf \in Seq(Item), Sorted(ibuf), pushed \in Nat,
           \A j \in DOMAIN ibuf : ibuf[j].id <= pushed,
           NEW n \in 0 .. Len(ibuf) - 1, NEW acc, Through(acc, n)
    PROVE  Through(Filter(acc, ibuf[n + 1]), n + 1)
<1> DEFINE r == ibuf[n + 1]
           f == Filter(acc, r)
<1>1. n + 1 \in DOMAIN ibuf /\ DOMAIN ibuf = 1 .. Len(ibuf) /\ r \in Item
  OBVIOUS
<1>2. r.id \in Nat /\ r.id <= pushed
  BY <1>1, ItemIs
<1>3. acc \in Accs /\ acc.last \in Nat /\ acc.lines \in Seq(Nat)
  BY DEF Through, Accs
<1>4. CASE Full(acc) /\ f = acc
  BY <1>4 DEF Through
<1>5. CASE ~ Full(acc)
  <2> HIDE DEF r, f
  <2>1. /\ f \in Accs /\ f.seen = acc.seen \cup {r.id}
        /\ \/ f.lines = Append(acc.lines, r.id) /\ f.last = r.id /\ f.dups = acc.dups
           \/ f.lines = acc.lines /\ f.last = acc.last /\ f.dups = acc.dups \cup {r.id}
           \/ f.lines = acc.lines /\ f.last = acc.last /\ f.dups = acc.dups /\ r.id < acc.last
    BY <1>1, <1>3, <1>5, FilterIs DEF f
  <2>2. \A j \in 1 .. n + 1 : ibuf[j].id \in f.seen
    <3> TAKE j \in 1 .. n + 1
    <3>1. j \in 1 .. n \/ j = n + 1
      OBVIOUS
    <3> QED BY <1>5, <2>1, <3>1 DEF Through, r
  <2>3. f.last <= pushed
    BY <1>2, <2>1 DEF Through
  <2>4. ToSet(acc.lines) \subseteq ToSet(f.lines)
        /\ (f.lines = Append(acc.lines, r.id) => r.id \in ToSet(f.lines))
    <3>1. CASE f.lines = acc.lines
      <4>1. acc.lines # Append(acc.lines, r.id)
        <5>1. Len(Append(acc.lines, r.id)) = Len(acc.lines) + 1 /\ Len(acc.lines) \in Nat
          BY <1>2, <1>3
        <5> QED BY <5>1
      <4> QED BY <3>1, <4>1
    <3>2. CASE f.lines = Append(acc.lines, r.id)
      <4>1. acc.lines \in Seq(Nat) /\ r.id \in Nat
        BY <1>2, <1>3
      <4>2. ToSet(Append(acc.lines, r.id)) = ToSet(acc.lines) \cup {r.id}
        BY <4>1, ToSetAppend
      <4> QED BY <3>2, <4>2
    <3> QED BY <2>1, <3>1, <3>2
  <2>5. ASSUME NEW k \in IdsOf(ibuf), k \in f.seen \/ k < f.last
        PROVE  k \in Handled \cup ToSet(f.lines) \cup f.dups
    <3>1. PICK j \in DOMAIN ibuf : ibuf[j].id = k
      BY DEF IdsOf
    <3>2. k \in acc.seen \/ k < acc.last => k \in Handled \cup ToSet(f.lines) \cup f.dups
      BY <2>1, <2>4 DEF Through, Passed
    <3>3. CASE k = r.id
      BY <2>1, <2>4, <3>2, <3>3
    <3>4. CASE k # r.id /\ k \in f.seen
      BY <2>1, <3>2, <3>4
    <3>5. CASE k # r.id /\ k < f.last
      <4>1. CASE f.last = acc.last
        BY <3>2, <3>5, <4>1
      <4>2. CASE f.last = r.id
        <5>1. j \in Nat /\ ibuf[j] \in Item /\ ibuf[j].id \in Nat
          BY <1>1, ItemIs
        <5>2. ~ (n + 1 < j)
          <6>1. n + 1 < j => r.id < k
            BY <1>1, <3>1 DEF Sorted, r
          <6> QED BY <1>2, <3>1, <3>5, <4>2, <5>1, <6>1
        <5>3. j # n + 1
          BY <3>1, <3>5 DEF r
        <5>4. j \in 1 .. n
          BY <1>1, <5>1, <5>2, <5>3
        <5>5. k \in acc.seen
          BY <1>5, <3>1, <5>4 DEF Through
        <5> QED BY <3>2, <5>5
      <4> QED BY <2>1, <4>1, <4>2
    <3> QED BY <2>5, <3>3, <3>4, <3>5
  <2> QED BY <2>1, <2>2, <2>3, <2>5 DEF Through, Passed, f, r
<1>6. (Full(acc) /\ f = acc) \/ ~ Full(acc)
  BY <1>1, <1>3, FilterIs
<1> QED BY <1>4, <1>5, <1>6

LEMMA FilteredIs ==
    ASSUME ibuf \in Seq(Item), Sorted(ibuf), pushed \in Nat, infLast \in 0 .. pushed,
           \A j \in DOMAIN ibuf : ibuf[j].id <= pushed,
           lastSent \in InfluxValues \cup {0},
           \A k \in IdsOf(ibuf) : k < infLast => k \in Handled
    PROVE  Through(Filtered, Len(ibuf))
<1> DEFINE n == Len(ibuf)
           start == [lines |-> << >>, last |-> infLast, sent |-> lastSent, seen |-> {}, dups |-> {}]
           step == [i \in 1 .. n |-> [a \in Accs |-> Filter(a, ibuf[i])]]
           Eq(h) == h = [i \in 0 .. n |-> IF i = 0 THEN start ELSE Filter(h[i - 1], ibuf[i])]
           after == CHOOSE h : Eq(h)
<1>1. n \in Nat /\ \A i \in 1 .. n : ibuf[i] \in Item
  OBVIOUS
<1>2. Filtered = after[n]
  BY DEF Filtered
<1>3. start \in Accs
  BY DEF Accs
<1>4. Through(start, 0)
  <2>1. start.last = infLast /\ start.seen = {}
    OBVIOUS
  <2> HIDE DEF start
  <2>2. start.last <= pushed /\ \A j \in 1 .. 0 : ibuf[j].id \in start.seen
    BY <2>1
  <2> QED BY <1>3, <2>1, <2>2 DEF Through, Passed
<1>5. ASSUME NEW i \in 0 .. n - 1, NEW acc, Through(acc, i)
      PROVE  Through(Filter(acc, ibuf[i + 1]), i + 1)
  BY <1>5, FilterPasses
<1> HIDE DEF n, start
<1>6. \A i \in 1 .. n : \A a \in Accs : Filter(a, ibuf[i]) \in Accs
  <2> TAKE i \in 1 .. n
  <2> TAKE a \in Accs
  <2> QED BY <1>1, FilterIs
<1>7. step \in [1 .. n -> [Accs -> Accs]]
  BY <1>6
<1>8. PICK g \in [0 .. n -> Accs] : Recursion(g, start, step, n)
  <2> HIDE DEF step
  <2> QED BY <1>1, <1>3, <1>7, RecursionExists
<1>9. \A i \in 1 .. n : i - 1 \in 0 .. n /\ g[i - 1] \in Accs
  BY <1>1
<1>10. g[0] = start /\ \A i \in 1 .. n : g[i] = Filter(g[i - 1], ibuf[i])
  BY <1>8, <1>9 DEF Recursion
<1> HIDE DEF step
<1>11. Eq(g)
  BY <1>1, <1>10
<1>12. Eq(after)
  <2> HIDE DEF Eq
  <2> QED BY <1>11
<1> HIDE DEF after
<1>13. after[0] = start /\ \A i \in 1 .. n : after[i] = Filter(after[i - 1], ibuf[i])
  <2>1. 0 \in 0 .. n /\ \A i \in 1 .. n : i \in 0 .. n /\ i # 0
    BY <1>1
  <2> QED BY <1>12, <2>1, Zenon
<1> DEFINE S == {i \in 0 .. n : Through(after[i], i)}
<1>14. 0 \in S
  BY <1>1, <1>4, <1>13
<1>15. ASSUME NEW i \in 0 .. n - 1, i \in S
       PROVE  i + 1 \in S
  <2>1. i + 1 \in 1 .. n /\ i + 1 \in 0 .. n /\ (i + 1) - 1 = i
    BY <1>1
  <2>2. after[i + 1] = Filter(after[i], ibuf[i + 1])
    BY <1>13, <2>1
  <2> QED BY <1>5, <1>15, <2>1, <2>2
<1>16. n \in S
  <2> HIDE DEF S
  <2>1. 0 .. n \subseteq S
    BY <1>1, <1>14, <1>15, BoundedInduction
  <2> QED BY <1>1, <2>1
<1> QED BY <1>2, <1>16 DEF n

-----------------------------------------------------------------------------
(* InfluxDB: every reading is accounted for. *)

InfluxType ==
    /\ infconf \in InfluxConfigs /\ pushed \in Nat /\ infLast \in 0 .. pushed
    /\ lastSent \in InfluxValues \cup {0}

BufferOrdered ==
    /\ ibuf \in Seq(Item) /\ Sorted(ibuf)
    /\ \A j \in DOMAIN ibuf : ibuf[j].id <= pushed

BodyIs == body \in Seq(Nat) /\ (infpc # "perform" => body = << >>)

(* What the buffer may forget: what is marked, or will not be sent again.  *)
Settled ==
    /\ \A j \in DOMAIN ibuf : ibuf[j].deleted => ibuf[j].id \in Handled
    /\ \A k \in IdsOf(ibuf) : k < infLast => k \in Handled

InfluxInv == InfluxType /\ BufferOrdered /\ BodyIs /\ Settled /\ InfluxKept

(* Accounted for: InfluxKept says so of every reading.                     *)
Accounted == IdsOf(ibuf) \cup server \cup dropped \cup repeated \cup failed

LEMMA KeptIs == InfluxKept <=> 1 .. pushed \subseteq Accounted
BY DEF InfluxKept, Lost, Accounted

LEMMA InfluxInitInv == InfluxInit => InfluxInv
<1> SUFFICES ASSUME InfluxInit
             PROVE  InfluxInv
  OBVIOUS
<1>1. InfluxType /\ BodyIs
  BY InfluxAssumption DEF InfluxInit, InfluxType, BodyIs
<1>2. ibuf = << >> /\ pushed = 0
  BY DEF InfluxInit
<1>3. BufferOrdered
  BY <1>2 DEF BufferOrdered, Sorted
<1>4. Settled
  BY <1>2 DEF Settled, IdsOf
<1>5. InfluxKept
  BY <1>2, KeptIs
<1> QED BY <1>1, <1>3, <1>4, <1>5 DEF InfluxInv

LEMMA PushKeeps ==
    ASSUME InfluxInv, NEW v \in InfluxValues, InfluxPush(v)
    PROVE  InfluxInv'
<1> DEFINE r == [id |-> pushed + 1, value |-> v, deleted |-> FALSE]
           n == Len(ibuf)
<1>1. /\ ibuf \in Seq(Item) /\ pushed \in Nat /\ infLast \in 0 .. pushed
      /\ \A j \in DOMAIN ibuf : ibuf[j].id <= pushed
  BY DEF InfluxInv, InfluxType, BufferOrdered
<1>2. ibuf' = Append(ibuf, r) /\ pushed' = pushed + 1
      /\ UNCHANGED <<infconf, infpc, body, infLast, lastSent, server, dropped, repeated, failed>>
  BY DEF InfluxPush
<1>3. r \in Item /\ r.id = pushed + 1 /\ ~ r.deleted
  BY <1>1 DEF Item
<1> HIDE DEF r
<1>4. /\ n \in Nat /\ DOMAIN ibuf = 1 .. n /\ DOMAIN ibuf' = 1 .. n + 1 /\ ibuf' \in Seq(Item)
      /\ ibuf'[n + 1] = r /\ \A j \in 1 .. n : ibuf'[j] = ibuf[j]
  BY <1>1, <1>2, <1>3
<1> HIDE DEF n
<1>5. \A j \in 1 .. n : ibuf[j] \in Item /\ ibuf[j].id \in Nat /\ ibuf[j].id <= pushed
  BY <1>1, <1>4, ItemIs
<1>6. \A j \in 1 .. n + 1 : j \in 1 .. n \/ j = n + 1
  BY <1>4
<1>7. InfluxType'
  BY <1>1, <1>2 DEF InfluxInv, InfluxType
<1>8. \A j \in DOMAIN ibuf' : ibuf'[j].id <= pushed'
  BY <1>1, <1>2, <1>3, <1>4, <1>5, <1>6
<1>9. Sorted(ibuf')
  <2> SUFFICES ASSUME NEW i \in 1 .. n + 1, NEW j \in 1 .. n + 1, i < j
               PROVE  ibuf'[i].id < ibuf'[j].id
    BY <1>4 DEF Sorted
  <2>1. i \in 1 .. n
    BY <1>4
  <2>2. CASE j = n + 1
    BY <1>1, <1>3, <1>4, <1>5, <2>1, <2>2
  <2>3. CASE j \in 1 .. n
    BY <1>4, <2>1, <2>3 DEF InfluxInv, BufferOrdered, Sorted
  <2> QED BY <1>6, <2>2, <2>3
<1>10. IdsOf(ibuf') = IdsOf(ibuf) \cup {pushed + 1}
  BY <1>3, <1>4, <1>6 DEF IdsOf
<1>11. Handled' = Handled
  BY <1>2 DEF Handled
<1>12. Settled'
  <2>1. \A j \in DOMAIN ibuf' : ibuf'[j].deleted => ibuf'[j].id \in Handled
    BY <1>3, <1>4, <1>6 DEF InfluxInv, Settled
  <2>2. \A k \in IdsOf(ibuf') : k < infLast' => k \in Handled
    BY <1>1, <1>2, <1>10 DEF InfluxInv, Settled
  <2> QED BY <1>11, <2>1, <2>2 DEF Settled
<1>13. InfluxKept'
  <2>1. 1 .. pushed' = 1 .. pushed \cup {pushed + 1}
    BY <1>1, <1>2
  <2>2. Accounted' = Accounted \cup {pushed + 1}
    BY <1>2, <1>10 DEF Accounted
  <2>3. 1 .. pushed' \subseteq Accounted'
    BY <2>1, <2>2, KeptIs DEF InfluxInv
  <2> QED BY <2>3 DEF InfluxKept, Lost, Accounted
<1>14. BodyIs'
  BY <1>2 DEF InfluxInv, BodyIs
<1> QED BY <1>4, <1>7, <1>8, <1>9, <1>12, <1>13, <1>14 DEF InfluxInv, BufferOrdered

LEMMA SuffixIs ==
    ASSUME NEW s \in Seq(Item), Sorted(s), NEW n \in 1 .. Len(s)
    PROVE  LET t == SubSeq(s, n + 1, Len(s))
               p == SubSeq(s, 1, n)
           IN  /\ t \in Seq(Item) /\ Sorted(t)
               /\ \A x \in DOMAIN t : \E j \in DOMAIN s : t[x] = s[j]
               /\ IdsOf(s) \subseteq IdsOf(p) \cup IdsOf(t)
<1> DEFINE m == Len(s)
           t == SubSeq(s, n + 1, m)
           p == SubSeq(s, 1, n)
<1>1. m \in Nat /\ DOMAIN s = 1 .. m /\ n \in 1 .. m
  OBVIOUS
<1>2. /\ t \in Seq(Item) /\ DOMAIN t = 1 .. m - n
      /\ \A x \in 1 .. m - n : t[x] = s[x + n]
  <2>1. \A x \in 1 .. m - n : s[x + n] \in Item
    BY <1>1
  <2>2. t = [x \in 1 .. m - n |-> s[x + n]]
    BY <1>1
  <2>3. m - n \in Nat
    BY <1>1
  <2> HIDE DEF t, m
  <2>4. t \in Seq(Item)
    BY <2>1, <2>2, <2>3
  <2> QED BY <2>2, <2>4
<1>3. DOMAIN p = 1 .. n /\ \A x \in 1 .. n : p[x] = s[x]
  BY <1>1
<1> HIDE DEF m, t, p
<1>4. \A x \in 1 .. m - n : x + n \in 1 .. m
  BY <1>1
<1>5. Sorted(t)
  <2> SUFFICES ASSUME NEW i \in 1 .. m - n, NEW j \in 1 .. m - n, i < j
               PROVE  s[i + n].id < s[j + n].id
    BY <1>2 DEF Sorted
  <2>1. i + n < j + n
    BY <1>1
  <2> QED BY <1>1, <1>4, <2>1 DEF Sorted
<1>6. \A x \in DOMAIN t : \E j \in DOMAIN s : t[x] = s[j]
  BY <1>1, <1>2, <1>4
<1>7. IdsOf(s) \subseteq IdsOf(p) \cup IdsOf(t)
  <2> SUFFICES ASSUME NEW j \in 1 .. m
               PROVE  s[j].id \in IdsOf(p) \cup IdsOf(t)
    BY <1>1 DEF IdsOf
  <2>1. CASE j \in 1 .. n
    BY <1>3, <2>1 DEF IdsOf
  <2>2. CASE j \notin 1 .. n
    <3>1. j - n \in 1 .. m - n /\ (j - n) + n = j
      BY <1>1, <2>2
    <3> QED BY <1>2, <3>1 DEF IdsOf
  <2> QED BY <2>1, <2>2
<1> QED BY <1>2, <1>5, <1>6, <1>7 DEF m, t, p

(* Cleaning the buffer, or what is left of it, forgets nothing that is not *)
(* accounted for.                                                          *)
LEMMA CleaningKeeps ==
    ASSUME InfluxInv, NEW s \in Seq(Item), Sorted(s),
           \A x \in DOMAIN s : \E j \in DOMAIN ibuf : s[x] = ibuf[j]
    PROVE  LET c == Cleaned(s) IN
           /\ c \in Seq(Item) /\ Sorted(c)
           /\ \A j \in DOMAIN c : c[j].id <= pushed
           /\ \A j \in DOMAIN c : c[j].deleted => c[j].id \in Handled
           /\ IdsOf(c) \subseteq IdsOf(ibuf)
           /\ IdsOf(s) \subseteq IdsOf(c) \cup Handled
<1> DEFINE c == Cleaned(s)
           n == Len(s)
<1>1. n \in Nat /\ DOMAIN s = 1 .. n
  OBVIOUS
<1>2. LeftOf(Item, c, s, n)
  BY CleanedLeft
<1> HIDE DEF c, n
<1>3. c \in Seq(Item) /\ Sorted(c)
  BY <1>2 DEF LeftOf
<1>4. ASSUME NEW x \in DOMAIN c
      PROVE  \E j \in DOMAIN ibuf : c[x] = ibuf[j]
  BY <1>1, <1>2 DEF LeftOf
<1>5. \A x \in DOMAIN c : c[x].id <= pushed
  BY <1>4 DEF InfluxInv, BufferOrdered
<1>6. \A x \in DOMAIN c : c[x].deleted => c[x].id \in Handled
  BY <1>4 DEF InfluxInv, Settled
<1>7. IdsOf(c) \subseteq IdsOf(ibuf)
  BY <1>4 DEF IdsOf
<1>8. IdsOf(s) \subseteq IdsOf(c) \cup Handled
  <2> SUFFICES ASSUME NEW j \in 1 .. n
               PROVE  s[j].id \in IdsOf(c) \cup Handled
    BY <1>1 DEF IdsOf
  <2>1. CASE s[j].deleted
    BY <1>1, <2>1 DEF InfluxInv, Settled
  <2>2. CASE ~ s[j].deleted
    BY <1>2, <2>2 DEF LeftOf
  <2> QED BY <2>1, <2>2
<1> QED BY <1>3, <1>5, <1>6, <1>7, <1>8 DEF c

LEMMA UndeletedIs ==
    ASSUME NEW s \in Seq(Item), Sorted(s)
    PROVE  LET u == Undeleted(s) IN
           /\ u \in Seq(Item) /\ Sorted(u) /\ IdsOf(u) = IdsOf(s)
           /\ DOMAIN u = DOMAIN s
           /\ \A j \in DOMAIN u : u[j].id = s[j].id /\ ~ u[j].deleted
<1> DEFINE n == Len(s)
           u == Undeleted(s)
<1>1. n \in Nat /\ DOMAIN s = 1 .. n /\ \A j \in 1 .. n : s[j] \in Item
  OBVIOUS
<1>2. DOMAIN u = 1 .. n /\ \A j \in 1 .. n : u[j] = [s[j] EXCEPT !.deleted = FALSE]
  BY <1>1 DEF Undeleted
<1>3. u = [j \in 1 .. n |-> u[j]]
  BY <1>1 DEF Undeleted
<1> HIDE DEF n, u
<1>4. ASSUME NEW j \in 1 .. n
      PROVE  u[j] \in Item /\ u[j].id = s[j].id /\ ~ u[j].deleted
  <2>1. s[j] \in Item /\ u[j] = [s[j] EXCEPT !.deleted = FALSE]
    BY <1>1, <1>2
  <2> QED BY <2>1 DEF Item
<1>5. u \in Seq(Item)
  BY <1>1, <1>3, <1>4
<1>6. Sorted(u)
  BY <1>1, <1>2, <1>4 DEF Sorted
<1>7. IdsOf(u) = IdsOf(s)
  BY <1>1, <1>2, <1>4 DEF IdsOf
<1> QED BY <1>1, <1>2, <1>4, <1>5, <1>6, <1>7 DEF u

LEMMA TrimKeeps ==
    ASSUME InfluxInv, TrimBuffer
    PROVE  InfluxInv'
<1>1. /\ infpc = "idle" /\ infpc' = "build" /\ body = << >>
      /\ UNCHANGED <<infconf, pushed, body, infLast, lastSent, server, repeated, failed>>
  BY DEF InfluxInv, BodyIs, TrimBuffer
<1>2. InfluxType' /\ BodyIs'
  BY <1>1 DEF InfluxInv, InfluxType, BodyIs
<1>3. Handled' = Handled
  BY <1>1 DEF Handled
<1>4. CASE UNCHANGED <<ibuf, dropped>>
  <2>1. BufferOrdered'
    BY <1>1, <1>4 DEF InfluxInv, BufferOrdered
  <2>2. Settled'
    BY <1>1, <1>3, <1>4 DEF InfluxInv, Settled
  <2>3. InfluxKept'
    BY <1>1, <1>4 DEF InfluxInv, InfluxKept, Lost
  <2> QED BY <1>2, <2>1, <2>2, <2>3 DEF InfluxInv
<1>5. CASE Len(ibuf) > infconf.maxBuffer
  <2> DEFINE n == Len(ibuf) - infconf.maxBuffer
             s == SubSeq(ibuf, n + 1, Len(ibuf))
             p == SubSeq(ibuf, 1, n)
  <2>1. ibuf' = Cleaned(s) /\ dropped' = dropped \cup IdsOf(p)
    BY <1>5 DEF TrimBuffer
  <2>2. ibuf \in Seq(Item) /\ Sorted(ibuf)
    BY DEF InfluxInv, BufferOrdered
  <2>3. n \in 1 .. Len(ibuf)
    <3>1. infconf.maxBuffer \in Nat
      BY InfluxAssumption DEF InfluxInv, InfluxType, InfluxConfig
    <3>2. Len(ibuf) \in Nat
      BY <2>2
    <3> QED BY <1>5, <3>1, <3>2
  <2> HIDE DEF n
  <2>4. /\ s \in Seq(Item) /\ Sorted(s)
        /\ \A x \in DOMAIN s : \E j \in DOMAIN ibuf : s[x] = ibuf[j]
        /\ IdsOf(ibuf) \subseteq IdsOf(p) \cup IdsOf(s)
    BY <2>2, <2>3, SuffixIs
  <2> HIDE DEF s, p
  <2>5. /\ ibuf' \in Seq(Item) /\ Sorted(ibuf')
        /\ \A j \in DOMAIN ibuf' : ibuf'[j].id <= pushed
        /\ \A j \in DOMAIN ibuf' : ibuf'[j].deleted => ibuf'[j].id \in Handled
        /\ IdsOf(ibuf') \subseteq IdsOf(ibuf)
        /\ IdsOf(s) \subseteq IdsOf(ibuf') \cup Handled
    BY <2>1, <2>4, CleaningKeeps
  <2>6. BufferOrdered'
    BY <1>1, <2>5 DEF BufferOrdered
  <2>7. Settled'
    BY <1>1, <1>3, <2>5 DEF InfluxInv, Settled
  <2>8. InfluxKept'
    <3>1. Handled \subseteq server \cup repeated \cup failed
      BY <1>1 DEF Handled, ToSet
    <3>2. Accounted \subseteq Accounted'
      BY <1>1, <2>1, <2>4, <2>5, <3>1 DEF Accounted
    <3>3. 1 .. pushed' \subseteq Accounted'
      BY <1>1, <3>2, KeptIs DEF InfluxInv
    <3> QED BY <3>3 DEF InfluxKept, Lost, Accounted
  <2> QED BY <1>2, <2>6, <2>7, <2>8 DEF InfluxInv
<1> QED BY <1>4, <1>5 DEF TrimBuffer

LEMMA BuildKeeps ==
    ASSUME InfluxInv, BuildRequest
    PROVE  InfluxInv'
<1> DEFINE all == Filtered
           n == Len(ibuf)
           mark(r) == [r EXCEPT !.deleted = @ \/ r.id \in all.seen]
<1>1. infpc = "build" /\ body = << >>
  BY DEF InfluxInv, BodyIs, BuildRequest
<1>2. /\ body' = all.lines /\ infLast' = all.last /\ lastSent' = all.sent
      /\ repeated' = repeated \cup all.dups
      /\ infpc' = IF all.lines = << >> THEN "idle" ELSE "perform"
      /\ UNCHANGED <<infconf, pushed, server, dropped, failed>>
  BY DEF BuildRequest
<1>3. /\ ibuf \in Seq(Item) /\ Sorted(ibuf) /\ pushed \in Nat /\ infLast \in 0 .. pushed
      /\ lastSent \in InfluxValues \cup {0}
      /\ \A j \in DOMAIN ibuf : ibuf[j].id <= pushed
      /\ \A k \in IdsOf(ibuf) : k < infLast => k \in Handled
  BY DEF InfluxInv, InfluxType, BufferOrdered, Settled
<1>4. n \in Nat /\ DOMAIN ibuf = 1 .. n /\ \A j \in 1 .. n : ibuf[j] \in Item
  BY <1>3
<1>5. ibuf' = [j \in 1 .. n |-> mark(ibuf[j])]
  BY <1>4 DEF BuildRequest
<1>6. /\ all \in Accs /\ all.last <= pushed
      /\ Passed(all)
  BY <1>3, FilteredIs DEF Through
<1> HIDE DEF all, n
<1>7. all.lines \in Seq(Nat) /\ all.last \in Nat /\ all.sent \in InfluxValues \cup {0}
  BY <1>6 DEF Accs
<1>8. \A r \in Item : mark(r) \in Item /\ mark(r).id = r.id /\ mark(r).deleted = (r.deleted \/ r.id \in all.seen)
  BY DEF Item
<1> HIDE DEF mark
<1>9. /\ ibuf' \in Seq(Item) /\ DOMAIN ibuf' = 1 .. n
      /\ \A j \in 1 .. n : ibuf'[j].id = ibuf[j].id
                           /\ ibuf'[j].deleted = (ibuf[j].deleted \/ ibuf[j].id \in all.seen)
  <2>1. ibuf' \in Seq(Item)
    BY <1>4, <1>5, <1>8
  <2> QED BY <1>4, <1>5, <1>8, <2>1
<1>10. IdsOf(ibuf') = IdsOf(ibuf)
  BY <1>4, <1>9 DEF IdsOf
<1>11. InfluxType'
  BY <1>2, <1>3, <1>6, <1>7 DEF InfluxInv, InfluxType
<1>12. BufferOrdered'
  <2>1. Sorted(ibuf')
    BY <1>3, <1>4, <1>9 DEF Sorted
  <2>2. \A j \in DOMAIN ibuf' : ibuf'[j].id <= pushed'
    BY <1>2, <1>3, <1>4, <1>9
  <2> QED BY <1>9, <2>1, <2>2 DEF BufferOrdered
<1>13. BodyIs'
  BY <1>2, <1>7 DEF BodyIs
<1>14. Handled \cup ToSet(all.lines) \cup all.dups \subseteq Handled'
  <2>1. ToSet(body) = {}
    BY <1>1 DEF ToSet
  <2> QED BY <1>2, <2>1 DEF Handled
<1>15. Settled'
  <2>1. ASSUME NEW j \in 1 .. n, ibuf'[j].deleted
        PROVE  ibuf'[j].id \in Handled'
    <3>1. CASE ibuf[j].deleted
      BY <1>4, <1>9, <1>14, <3>1 DEF InfluxInv, Settled
    <3>2. CASE ibuf[j].id \in all.seen
      <4>1. ibuf[j].id \in IdsOf(ibuf)
        BY <1>4 DEF IdsOf
      <4> QED BY <1>6, <1>9, <1>14, <3>2, <4>1 DEF Passed
    <3> QED BY <1>9, <2>1, <3>1, <3>2
  <2>2. ASSUME NEW k \in IdsOf(ibuf'), k < infLast'
        PROVE  k \in Handled'
    BY <1>2, <1>6, <1>10, <1>14, <2>2 DEF Passed
  <2> QED BY <1>9, <2>1, <2>2 DEF Settled
<1>16. InfluxKept'
  BY <1>2, <1>10 DEF InfluxInv, InfluxKept, Lost
<1> QED BY <1>11, <1>12, <1>13, <1>15, <1>16 DEF InfluxInv

LEMMA InsertKeeps ==
    ASSUME InfluxInv, PerformInsert
    PROVE  InfluxInv'
<1>1. /\ infpc' = "idle" /\ body' = << >>
      /\ UNCHANGED <<infconf, pushed, infLast, lastSent, dropped, repeated>>
  BY DEF PerformInsert
<1>2. /\ ibuf \in Seq(Item) /\ Sorted(ibuf) /\ pushed \in Nat
      /\ \A j \in DOMAIN ibuf : ibuf[j].id <= pushed
  BY DEF InfluxInv, InfluxType, BufferOrdered
<1>3. InfluxType' /\ BodyIs'
  BY <1>1 DEF InfluxInv, InfluxType, BodyIs
<1>4. CASE /\ server' = server \cup ToSet(body)
           /\ ibuf' = Cleaned(ibuf) /\ UNCHANGED failed
  <2>1. /\ ibuf' \in Seq(Item) /\ Sorted(ibuf')
        /\ \A j \in DOMAIN ibuf' : ibuf'[j].id <= pushed
        /\ \A j \in DOMAIN ibuf' : ibuf'[j].deleted => ibuf'[j].id \in Handled
        /\ IdsOf(ibuf') \subseteq IdsOf(ibuf)
        /\ IdsOf(ibuf) \subseteq IdsOf(ibuf') \cup Handled
    BY <1>2, <1>4, CleaningKeeps
  <2>2. Handled' = Handled
    BY <1>1, <1>4 DEF Handled, ToSet
  <2>3. Handled \subseteq server' \cup repeated' \cup failed'
    BY <1>1, <1>4 DEF Handled
  <2>4. BufferOrdered'
    BY <1>1, <2>1 DEF BufferOrdered
  <2>5. Settled'
    BY <1>1, <2>1, <2>2 DEF InfluxInv, Settled
  <2>6. InfluxKept'
    <3>1. Accounted \subseteq Accounted'
      BY <1>1, <1>4, <2>1, <2>3 DEF Accounted
    <3>2. 1 .. pushed' \subseteq Accounted'
      BY <1>1, <3>1, KeptIs DEF InfluxInv
    <3> QED BY <3>2 DEF InfluxKept, Lost, Accounted
  <2> QED BY <1>3, <2>4, <2>5, <2>6 DEF InfluxInv
<1>5. CASE /\ server' \in {server, server \cup ToSet(body)}
           /\ ibuf' = Undeleted(ibuf)
           /\ failed' = failed \cup ToSet(body)
  <2>1. /\ ibuf' \in Seq(Item) /\ Sorted(ibuf') /\ IdsOf(ibuf') = IdsOf(ibuf)
        /\ DOMAIN ibuf' = DOMAIN ibuf
        /\ \A j \in DOMAIN ibuf' : ibuf'[j].id = ibuf[j].id /\ ~ ibuf'[j].deleted
    BY <1>2, <1>5, UndeletedIs
  <2>2. Handled \subseteq Handled'
    BY <1>1, <1>5 DEF Handled
  <2>3. BufferOrdered'
    BY <1>1, <1>2, <2>1 DEF BufferOrdered
  <2>4. Settled'
    BY <1>1, <2>1, <2>2 DEF InfluxInv, Settled
  <2>5. InfluxKept'
    BY <1>1, <1>5, <2>1 DEF InfluxInv, InfluxKept, Lost
  <2> QED BY <1>3, <2>3, <2>4, <2>5 DEF InfluxInv
<1> QED BY <1>4, <1>5 DEF PerformInsert

LEMMA InfluxInductive ==
    ASSUME InfluxInv, [InfluxNext]_infvars
    PROVE  InfluxInv'
<1>1. ASSUME NEW v \in InfluxValues, InfluxPush(v)
      PROVE  InfluxInv'
  BY <1>1, PushKeeps
<1>2. CASE UNCHANGED infvars
  BY <1>2 DEF infvars, InfluxInv, InfluxType, BufferOrdered, BodyIs, Settled, Handled,
              InfluxKept, Lost
<1> QED BY <1>1, <1>2, TrimKeeps, BuildKeeps, InsertKeeps DEF InfluxNext

(* What InfluxDB::send marks in the buffer it has put in the request, or   *)
(* holds back as a duplicate, or has sent before: whenever the buffer is   *)
(* cleaned no other reading goes with it, but the oldest for want of room. *)
THEOREM ReadingsAreKept == InfluxSpec => []InfluxKept
<1>1. InfluxInit /\ [][InfluxNext]_infvars => []InfluxInv
  BY InfluxInitInv, InfluxInductive, PTL
<1>2. InfluxInv => InfluxKept
  BY DEF InfluxInv
<1> QED BY <1>1, <1>2, PTL DEF InfluxSpec

-----------------------------------------------------------------------------
(* The web interface: suffixes of a sequence. *)

Suffix(s, n) == SubSeq(s, n + 1, Len(s))

LEMMA SuffixAt ==
    ASSUME NEW I, NEW s \in Seq(I), NEW n \in 0 .. Len(s)
    PROVE  /\ Suffix(s, n) = [x \in 1 .. Len(s) - n |-> s[x + n]]
           /\ Suffix(s, n) \in Seq(I) /\ Len(Suffix(s, n)) = Len(s) - n
<1> DEFINE m == Len(s)
           t == Suffix(s, n)
<1>1. m \in Nat /\ n \in 0 .. m /\ m - n \in Nat /\ \A x \in 1 .. m : s[x] \in I
  OBVIOUS
<1>2. t = [x \in 1 .. m - n |-> s[x + n]]
  BY <1>1 DEF Suffix
<1>3. \A x \in 1 .. m - n : x + n \in 1 .. m
  BY <1>1
<1> HIDE DEF t, m
<1>4. t \in Seq(I)
  BY <1>1, <1>2, <1>3
<1>5. Len(t) = m - n
  BY <1>1, <1>2
<1> QED BY <1>2, <1>4, <1>5 DEF t, m

LEMMA SuffixOfSuffix ==
    ASSUME NEW I, NEW s \in Seq(I), NEW n \in 0 .. Len(s), NEW k \in 0 .. Len(s) - n
    PROVE  Suffix(Suffix(s, n), k) = Suffix(s, n + k)
<1> DEFINE m == Len(s)
           t == Suffix(s, n)
<1>1. m \in Nat /\ n \in 0 .. m /\ k \in 0 .. m - n /\ n + k \in 0 .. m
  OBVIOUS
<1>2. t \in Seq(I) /\ Len(t) = m - n /\ t = [x \in 1 .. m - n |-> s[x + n]]
  BY SuffixAt
<1> HIDE DEF t, m
<1>3. Suffix(t, k) = [x \in 1 .. (m - n) - k |-> t[x + k]]
  <2>1. t \in Seq(I) /\ k \in 0 .. Len(t)
    BY <1>1, <1>2
  <2>2. Suffix(t, k) = [x \in 1 .. Len(t) - k |-> t[x + k]]
    BY <2>1, SuffixAt
  <2> QED BY <1>2, <2>2
<1>4. Suffix(s, n + k) = [x \in 1 .. m - (n + k) |-> s[x + (n + k)]]
  BY <1>1, SuffixAt DEF m
<1>5. 1 .. m - (n + k) = 1 .. (m - n) - k
  BY <1>1
<1>6. \A x \in 1 .. (m - n) - k : t[x + k] = s[x + (n + k)]
  <2> TAKE x \in 1 .. (m - n) - k
  <2>1. x + k \in 1 .. m - n /\ (x + k) + n = x + (n + k)
    BY <1>1
  <2> QED BY <1>2, <2>1
<1> QED BY <1>3, <1>4, <1>5, <1>6 DEF t

LEMMA SuffixAppend ==
    ASSUME NEW I, NEW s \in Seq(I), NEW n \in 0 .. Len(s), NEW d \in I
    PROVE  Suffix(Append(s, d), n) = Append(Suffix(s, n), d)
<1> DEFINE m == Len(s)
           t == Suffix(s, n)
           a == Append(s, d)
<1>1. m \in Nat /\ n \in 0 .. m /\ n \in 0 .. m + 1
  OBVIOUS
<1>2. a \in Seq(I) /\ Len(a) = m + 1 /\ a[m + 1] = d /\ \A x \in 1 .. m : a[x] = s[x]
  OBVIOUS
<1>3. t \in Seq(I) /\ Len(t) = m - n /\ t = [x \in 1 .. m - n |-> s[x + n]]
  BY SuffixAt
<1> HIDE DEF t, m, a
<1>4. Suffix(a, n) = [x \in 1 .. (m + 1) - n |-> a[x + n]]
  <2>1. n \in 0 .. Len(a)
    BY <1>1, <1>2
  <2>2. Suffix(a, n) = [x \in 1 .. Len(a) - n |-> a[x + n]]
    BY <1>2, <2>1, SuffixAt
  <2> QED BY <1>2, <2>2
<1>5. Append(t, d) = [x \in 1 .. (m - n) + 1 |-> IF x = (m - n) + 1 THEN d ELSE t[x]]
  BY <1>1, <1>3
<1>6. 1 .. (m + 1) - n = 1 .. (m - n) + 1
  BY <1>1
<1>7. \A x \in 1 .. (m - n) + 1 : a[x + n] = IF x = (m - n) + 1 THEN d ELSE t[x]
  <2> TAKE x \in 1 .. (m - n) + 1
  <2>1. CASE x = (m - n) + 1
    <3>1. x + n = m + 1
      BY <1>1, <2>1
    <3> QED BY <1>2, <2>1, <3>1
  <2>2. CASE x # (m - n) + 1
    <3>1. x \in 1 .. m - n /\ x + n \in 1 .. m
      BY <1>1, <2>2
    <3> QED BY <1>2, <1>3, <2>2, <3>1
  <2> QED BY <2>1, <2>2
<1> QED BY <1>4, <1>5, <1>6, <1>7 DEF t, a

-----------------------------------------------------------------------------
(* The web interface: what a request reads. *)

Waiting == [id : Nat, t : Int, deleted : BOOLEAN]
Copy == [id : Nat, t : Int]

LocalType ==
    /\ bufferLength \in Int /\ localNow \in Int /\ made \in Nat
    /\ minT \in [{"round", "request"} -> Int]
    /\ roundpc = "lock" \/ request = "lock" => bufferLength >= 0

ChannelIs ==
    /\ channel \in Seq(Waiting) /\ Sorted(channel)
    /\ \A r \in ToSet(channel) : r.id \in 1 .. made /\ r.t <= localNow

WalkedIs ==
    /\ walked \in Seq(Copy)
    /\ \A w \in ToSet(walked) : w.id <= made /\ w.t <= localNow

(* The clock does not go back.                                             *)
Stamps ==
    \A r \in ToSet(channel) : \A q \in ToSet(channel) \cup ToSet(walked) :
        q.id < r.id => q.t <= r.t

(* What no API has taken was copied before any reading after it, and when  *)
(* the walk has passed it.                                                 *)
Copied ==
    \A r \in ToSet(channel) : ~ r.deleted =>
        /\ (\E w \in ToSet(walked) : r.id <= w.id) => r.id \in IdsOf(walked)
        /\ roundpc = "walk" /\ (it = 0 \/ r.id < it) => r.id \in IdsOf(walked)

Found ==
    /\ \A r \in ToSet(channel) : r.deleted => r.id \in IdsOf(walked) \cup early
    /\ 1 .. made \subseteq IdsOf(walked) \cup early \cup IdsOf(channel)

Ordered ==
    EachOnce => \A x, y \in DOMAIN walked :
        x < y => walked[x].id < walked[y].id /\ walked[x].t <= walked[y].t

(* The last readings that were copied: at least as many as there must be,  *)
(* and no more unless there is a walk.                                     *)
Counted(n) ==
    /\ localbuffer = Suffix(walked, n)
    /\ n > 0 => Len(walked) - n >= - bufferLength
    /\ roundpc \notin {"walk", "undefined"} => Len(walked) - n <= - bufferLength

Timed(n) == expired = 1 .. n /\ localbuffer = Suffix(walked, n)

Served ==
    /\ bufferLength < 0 => \E n \in 0 .. Len(walked) : Counted(n)
    /\ bufferLength >= 0 /\ EachOnce => \E n \in 0 .. Len(walked) : Timed(n)

LocalInv ==
    LocalType /\ ChannelIs /\ WalkedIs /\ Stamps /\ Copied /\ Found /\ Ordered /\ Served

LEMMA IdsAre ==
    ASSUME NEW s
    PROVE  /\ \A r \in ToSet(s) : r.id \in IdsOf(s)
           /\ \A k \in IdsOf(s) : \E r \in ToSet(s) : r.id = k
BY DEF IdsOf, ToSet

LEMMA WaitingIs ==
    ASSUME NEW r \in Waiting
    PROVE  r.id \in Nat /\ r.t \in Int
BY DEF Waiting

LEMMA CopyIs ==
    ASSUME NEW w \in Copy
    PROVE  w.id \in Nat /\ w.t \in Int
BY DEF Copy

LEMMA LocalInitInv == LocalInit => LocalInv
<1> SUFFICES ASSUME LocalInit
             PROVE  LocalInv
  OBVIOUS
<1>1. /\ bufferLength \in BufferLengths /\ localNow = 0 /\ made = 0
      /\ roundpc = "read" /\ request = "none"
      /\ minT = [thread \in {"round", "request"} |-> 0]
      /\ channel = << >> /\ walked = << >> /\ localbuffer = << >> /\ expired = {}
  BY DEF LocalInit
<1>2. bufferLength \in Int
  BY <1>1, LocalAssumption
<1>3. LocalType
  BY <1>1, <1>2 DEF LocalType
<1>4. ToSet(channel) = {} /\ ToSet(walked) = {}
  BY <1>1 DEF ToSet
<1>5. ChannelIs
  BY <1>1, <1>4 DEF ChannelIs, Sorted
<1>6. WalkedIs /\ Stamps /\ Copied
  BY <1>1, <1>4 DEF WalkedIs, Stamps, Copied
<1>7. Found
  BY <1>1, <1>4 DEF Found
<1>8. Ordered
  BY <1>1 DEF Ordered
<1>9. Served
  <2>1. Len(walked) = 0 /\ Suffix(walked, 0) = << >> /\ 0 \in 0 .. Len(walked)
    BY <1>1 DEF Suffix
  <2>2. bufferLength < 0 => Counted(0)
    BY <1>1, <1>2, <2>1 DEF Counted
  <2>3. Timed(0)
    BY <1>1, <2>1 DEF Timed
  <2> QED BY <2>1, <2>2, <2>3 DEF Served
<1> QED BY <1>3, <1>5, <1>6, <1>7, <1>8, <1>9 DEF LocalInv

(* Cleaning the channel's buffer takes away what is marked, nothing else.  *)
LEMMA CleaningLeaves ==
    ASSUME LocalInv, channel' = Cleaned(channel),
           UNCHANGED <<made, localNow, it, walked, early>>,
           roundpc' = "walk" => roundpc = "walk"
    PROVE  ChannelIs' /\ Stamps' /\ Copied' /\ Found'
<1> DEFINE n == Len(channel)
           c == channel'
<1>1. channel \in Seq(Waiting) /\ Sorted(channel)
  BY DEF LocalInv, ChannelIs
<1>2. n \in Nat /\ DOMAIN channel = 1 .. n
  BY <1>1
<1>3. LeftOf(Waiting, c, channel, n)
  BY <1>1, CleanedLeft
<1> HIDE DEF n
<1>4. c \in Seq(Waiting) /\ Sorted(c)
  BY <1>3 DEF LeftOf
<1>5. ToSet(c) \subseteq ToSet(channel)
  BY <1>2, <1>3 DEF LeftOf, ToSet
<1>6. \A r \in ToSet(channel) : ~ r.deleted => r.id \in IdsOf(c)
  BY <1>2, <1>3 DEF LeftOf, ToSet
<1>7. ChannelIs'
  BY <1>4, <1>5 DEF LocalInv, ChannelIs
<1>8. Stamps'
  BY <1>5 DEF LocalInv, Stamps
<1>9. Copied'
  BY <1>5 DEF LocalInv, Copied
<1>10. Found'
  <2>1. \A k \in IdsOf(channel) : k \in IdsOf(walked) \cup early \cup IdsOf(c)
    BY <1>6, IdsAre DEF LocalInv, Found
  <2>2. 1 .. made \subseteq IdsOf(walked) \cup early \cup IdsOf(c)
    BY <2>1 DEF LocalInv, Found
  <2>3. \A r \in ToSet(c) : r.deleted => r.id \in IdsOf(walked) \cup early
    BY <1>5 DEF LocalInv, Found
  <2> QED BY <2>2, <2>3 DEF Found
<1> QED BY <1>7, <1>8, <1>9, <1>10

(* Where every reading is copied once they are in the order of their time, *)
(* and the readings that are too old are the first ones.                   *)
LEMMA ShrinkingServes ==
    ASSUME LocalInv, bufferLength >= 0, NEW min \in Int, ShrinkLocalbuffer(min),
           UNCHANGED <<bufferLength, walked>>
    PROVE  Served'
<1> SUFFICES ASSUME EachOnce
             PROVE  (\E n \in 0 .. Len(walked) : Timed(n))'
  BY DEF Served, EachOnce, LocalInv, LocalType
<1> DEFINE m == Len(walked)
           old == {i \in DOMAIN walked : walked[i].t < min}
           stay == {i \in DOMAIN localbuffer : localbuffer[i].t >= min}
           first == CHOOSE i \in stay : \A j \in stay : i <= j
<1>1. /\ localbuffer' = IF stay = {} THEN << >> ELSE SubSeq(localbuffer, first, Len(localbuffer))
      /\ expired' = expired \cup old
  BY DEF ShrinkLocalbuffer
<1>2. walked \in Seq(Copy)
  BY DEF LocalInv, WalkedIs
<1>3. m \in Nat /\ DOMAIN walked = 1 .. m /\ \A x \in 1 .. m : walked[x].t \in Int
  BY <1>2, CopyIs
<1>4. \A x, y \in 1 .. m : x < y => walked[x].t <= walked[y].t
  BY <1>3 DEF LocalInv, Ordered
<1>5. PICK n \in 0 .. m : Timed(n)
  BY DEF LocalInv, Served
<1>6. expired = 1 .. n /\ localbuffer = Suffix(walked, n)
  BY <1>5 DEF Timed
<1>7. /\ localbuffer = [x \in 1 .. m - n |-> walked[x + n]]
      /\ localbuffer \in Seq(Copy) /\ Len(localbuffer) = m - n
  BY <1>2, <1>6, SuffixAt
<1>8. old = {i \in 1 .. m : walked[i].t < min}
  BY <1>3
<1>9. DOMAIN localbuffer = 1 .. m - n
      /\ \A i \in 1 .. m - n : i + n \in 1 .. m /\ localbuffer[i] = walked[i + n]
  BY <1>3, <1>7
<1>10. stay = {i \in 1 .. m - n : walked[i + n].t >= min}
  BY <1>9
<1> HIDE DEF m, old, stay, first
<1>11. CASE stay = {}
  <2>1. Suffix(walked, m) = << >>
    <3>1. m \in 0 .. Len(walked)
      BY <1>3 DEF m
    <3>2. Suffix(walked, m) \in Seq(Copy) /\ Len(Suffix(walked, m)) = Len(walked) - m
      BY <1>2, <3>1, SuffixAt
    <3>3. Len(Suffix(walked, m)) = 0
      BY <1>3, <3>2 DEF m
    <3> QED BY <3>2, <3>3
  <2>2. ASSUME NEW i \in 1 .. m, i \notin 1 .. n
        PROVE  i \in old
    <3>1. i - n \in 1 .. m - n /\ (i - n) + n = i
      BY <1>3, <2>2
    <3>2. ~ (walked[i].t >= min)
      BY <1>10, <1>11, <3>1
    <3> QED BY <1>3, <1>8, <3>2
  <2>3. expired' = 1 .. m
    <3>1. 1 .. n \subseteq 1 .. m /\ old \subseteq 1 .. m
      BY <1>3, <1>8
    <3> QED BY <1>1, <1>6, <2>2, <3>1
  <2>4. localbuffer' = Suffix(walked, m)
    BY <1>1, <1>11, <2>1
  <2>5. m \in 0 .. Len(walked)
    BY <1>3 DEF m
  <2> QED BY <2>3, <2>4, <2>5 DEF Timed, Suffix
<1>12. CASE stay # {}
  <2>1. stay \in SUBSET Nat
    BY <1>3, <1>10
  <2>2. first \in stay /\ \A j \in stay : first <= j
    BY <1>12, <2>1, LeastMember DEF first
  <2>3. first \in 1 .. m - n /\ walked[first + n].t >= min /\ first + n \in 1 .. m
    BY <1>9, <1>10, <2>2
  <2> DEFINE k == n + (first - 1)
  <2>4. first - 1 \in 0 .. m - n /\ k \in 0 .. m /\ (first - 1) + 1 = first
    BY <1>3, <2>3
  <2>5. localbuffer' = Suffix(walked, k)
    <3>1. localbuffer' = Suffix(localbuffer, first - 1)
      BY <1>1, <1>12, <2>4 DEF Suffix
    <3> QED BY <1>2, <1>6, <2>4, <3>1, SuffixOfSuffix DEF m
  <2>6. ASSUME NEW i \in 1 .. k
        PROVE  i \in 1 .. n \cup old
    <3>1. CASE i \in 1 .. n
      BY <3>1
    <3>2. CASE i \notin 1 .. n
      <4>1. /\ i - n \in 1 .. m - n /\ (i - n) + n = i /\ i - n < first
            /\ i \in 1 .. m /\ first \in Int
        BY <1>3, <2>3, <2>6, <3>2
      <4>2. i - n \notin stay
        BY <2>2, <4>1
      <4>3. ~ (walked[i].t >= min)
        BY <1>10, <4>1, <4>2
      <4> QED BY <1>3, <1>8, <4>1, <4>3
    <3> QED BY <3>1, <3>2
  <2>7. ASSUME NEW i \in 1 .. n \cup old
        PROVE  i \in 1 .. k
    <3>1. CASE i \in 1 .. n
      BY <1>3, <2>3, <3>1
    <3>2. CASE i \in old
      <4>1. i \in 1 .. m /\ walked[i].t < min
        BY <1>8, <3>2
      <4>2. i # first + n
        BY <1>3, <2>3, <4>1
      <4>3. ~ (first + n < i)
        <5>1. first + n < i => walked[first + n].t <= walked[i].t
          BY <1>4, <2>3, <4>1
        <5> QED BY <1>3, <2>3, <4>1, <5>1
      <4> QED BY <1>3, <2>3, <4>1, <4>2, <4>3
    <3> QED BY <2>7, <3>1, <3>2
  <2>8. expired' = 1 .. k
    <3> HIDE DEF k
    <3> QED BY <1>1, <1>6, <2>6, <2>7
  <2>9. k \in 0 .. Len(walked)
    BY <2>4 DEF m
  <2> HIDE DEF k
  <2> QED BY <2>5, <2>8, <2>9 DEF Timed, Suffix
<1> QED BY <1>11, <1>12

(* What stays when the buffers and what was copied do.                     *)
LEMMA BuffersStay ==
    ASSUME LocalInv, localNow' >= localNow, localNow' \in Int,
           UNCHANGED <<channel, made, it, walked, early>>,
           roundpc' = "walk" => roundpc = "walk"
    PROVE  ChannelIs' /\ WalkedIs' /\ Stamps' /\ Copied' /\ Found' /\ Ordered'
<1>1. channel \in Seq(Waiting) /\ walked \in Seq(Copy) /\ localNow \in Int
  BY DEF LocalInv, LocalType, ChannelIs, WalkedIs
<1>2. ASSUME NEW r \in ToSet(channel)
      PROVE  r.t <= localNow'
  <2>1. r \in Waiting /\ r.t <= localNow
    BY <1>1, <1>2 DEF LocalInv, ChannelIs, ToSet
  <2> QED BY <1>1, <2>1, WaitingIs
<1>3. ASSUME NEW w \in ToSet(walked)
      PROVE  w.t <= localNow'
  <2>1. w \in Copy /\ w.t <= localNow
    BY <1>1, <1>3 DEF LocalInv, WalkedIs, ToSet
  <2> QED BY <1>1, <2>1, CopyIs
<1>4. ChannelIs'
  BY <1>2 DEF LocalInv, ChannelIs
<1>5. WalkedIs'
  BY <1>3 DEF LocalInv, WalkedIs
<1>6. Stamps'
  BY DEF LocalInv, Stamps
<1>7. Copied'
  BY DEF LocalInv, Copied
<1>8. Found'
  BY DEF LocalInv, Found
<1>9. Ordered'
  BY DEF LocalInv, Ordered, EachOnce
<1> QED BY <1>4, <1>5, <1>6, <1>7, <1>8, <1>9

LEMMA WindowStays ==
    ASSUME LocalInv, UNCHANGED <<bufferLength, localbuffer, walked, expired>>,
           roundpc' \notin {"walk", "undefined"} => roundpc \notin {"walk", "undefined"}
    PROVE  Served'
<1>1. ASSUME NEW n \in 0 .. Len(walked), Counted(n)
      PROVE  Counted(n)'
  BY <1>1 DEF Counted, Suffix
<1>2. ASSUME NEW n \in 0 .. Len(walked), Timed(n)
      PROVE  Timed(n)'
  BY <1>2 DEF Timed, Suffix
<1> QED BY <1>1, <1>2 DEF LocalInv, Served, EachOnce

LEMMA TickInv ==
    ASSUME LocalInv, LocalTick
    PROVE  LocalInv'
<1>1. localNow' = localNow + 1
      /\ UNCHANGED <<bufferLength, channel, made, roundpc, it, localbuffer, taken, request,
                     minT, walked, expired, early>>
  BY DEF LocalTick
<1>2. LocalType' /\ localNow' >= localNow /\ localNow' \in Int
  BY <1>1 DEF LocalInv, LocalType
<1>3. Served'
  BY <1>1, WindowStays
<1> QED BY <1>1, <1>2, <1>3, BuffersStay DEF LocalInv

LEMMA PushInv ==
    ASSUME LocalInv, PushReading
    PROVE  LocalInv'
<1> DEFINE r == [id |-> made + 1, t |-> localNow, deleted |-> FALSE]
           n == Len(channel)
<1>1. /\ roundpc = "read" /\ made' = made + 1 /\ channel' = Append(channel, r)
      /\ UNCHANGED <<bufferLength, localNow, roundpc, it, localbuffer, taken, request, minT,
                     walked, expired, early>>
  BY DEF PushReading
<1>2. channel \in Seq(Waiting) /\ Sorted(channel) /\ made \in Nat /\ localNow \in Int
      /\ walked \in Seq(Copy)
  BY DEF LocalInv, LocalType, ChannelIs, WalkedIs
<1>3. r \in Waiting /\ r.id = made + 1 /\ r.t = localNow /\ ~ r.deleted
  BY <1>2 DEF Waiting
<1> HIDE DEF r
<1>4. /\ n \in Nat /\ DOMAIN channel = 1 .. n /\ DOMAIN channel' = 1 .. n + 1
      /\ channel' \in Seq(Waiting) /\ channel'[n + 1] = r
      /\ \A j \in 1 .. n : channel'[j] = channel[j]
  BY <1>1, <1>2, <1>3
<1>5. ToSet(channel') = ToSet(channel) \cup {r}
  BY <1>1, <1>2, <1>3, ToSetAppend
<1>6. ASSUME NEW q \in ToSet(channel)
      PROVE  q.id \in 1 .. made /\ q.t <= localNow /\ q.id \in Nat /\ q.t \in Int
  <2>1. q \in Waiting
    BY <1>2, <1>6 DEF ToSet
  <2> QED BY <1>6, <2>1, WaitingIs DEF LocalInv, ChannelIs
<1>7. ASSUME NEW w \in ToSet(walked)
      PROVE  w.id <= made /\ w.t <= localNow /\ w.id \in Nat /\ w.t \in Int
  <2>1. w \in Copy
    BY <1>2, <1>7 DEF ToSet
  <2> QED BY <1>7, <2>1, CopyIs DEF LocalInv, WalkedIs
<1>8. \A j \in 1 .. n : channel[j] \in ToSet(channel)
  BY <1>4 DEF ToSet
<1> HIDE DEF n
<1>9. LocalType'
  BY <1>1, <1>2 DEF LocalInv, LocalType
<1>10. Sorted(channel')
  <2> SUFFICES ASSUME NEW i \in 1 .. n + 1, NEW j \in 1 .. n + 1, i < j
               PROVE  channel'[i].id < channel'[j].id
    BY <1>4 DEF Sorted
  <2>1. i \in 1 .. n /\ (j = n + 1 \/ j \in 1 .. n)
    BY <1>4
  <2>2. CASE j = n + 1
    <3>1. channel[i].id \in 1 .. made
      BY <1>6, <1>8, <2>1
    <3> QED BY <1>2, <1>3, <1>4, <2>1, <2>2, <3>1
  <2>3. CASE j \in 1 .. n
    BY <1>2, <1>4, <2>1, <2>3 DEF Sorted
  <2> QED BY <2>1, <2>2, <2>3
<1>11. ChannelIs'
  <2>1. ASSUME NEW q \in ToSet(channel')
        PROVE  q.id \in 1 .. made' /\ q.t <= localNow'
    <3>1. CASE q = r
      BY <1>1, <1>2, <1>3, <3>1
    <3>2. CASE q \in ToSet(channel)
      BY <1>1, <1>2, <1>6, <3>2
    <3> QED BY <1>5, <2>1, <3>1, <3>2
  <2> QED BY <1>4, <1>10, <2>1 DEF ChannelIs
<1>12. WalkedIs'
  <2>1. ASSUME NEW w \in ToSet(walked)
        PROVE  w.id <= made' /\ w.t <= localNow'
    BY <1>1, <1>2, <1>7
  <2> QED BY <1>1, <1>2, <2>1 DEF WalkedIs
<1>13. Stamps'
  <2> SUFFICES ASSUME NEW p \in ToSet(channel'),
                      NEW q \in ToSet(channel') \cup ToSet(walked), q.id < p.id
               PROVE  q.t <= p.t
    BY <1>1 DEF Stamps
  <2>1. CASE p = r
    BY <1>2, <1>3, <1>5, <1>6, <1>7, <2>1
  <2>2. CASE p \in ToSet(channel) /\ q = r
    BY <1>2, <1>3, <1>6, <2>2
  <2>3. CASE p \in ToSet(channel) /\ q \in ToSet(channel) \cup ToSet(walked)
    BY <2>3 DEF LocalInv, Stamps
  <2> QED BY <1>5, <2>1, <2>2, <2>3
<1>14. Copied'
  <2>1. ~ (\E w \in ToSet(walked) : r.id <= w.id)
    BY <1>2, <1>3, <1>7
  <2>2. roundpc' # "walk"
    BY <1>1
  <2> QED BY <1>1, <1>5, <2>1, <2>2 DEF LocalInv, Copied
<1>15. Found'
  <2>1. IdsOf(channel') = IdsOf(channel) \cup {made + 1}
    BY <1>3, <1>5, IdsAre
  <2>2. 1 .. made' = 1 .. made \cup {made + 1}
    BY <1>1, <1>2
  <2>3. 1 .. made' \subseteq IdsOf(walked) \cup early \cup IdsOf(channel')
    BY <2>1, <2>2 DEF LocalInv, Found
  <2>4. \A q \in ToSet(channel') : q.deleted => q.id \in IdsOf(walked) \cup early
    BY <1>3, <1>5 DEF LocalInv, Found
  <2> QED BY <1>1, <2>3, <2>4 DEF Found
<1>16. Ordered'
  BY <1>1 DEF LocalInv, Ordered, EachOnce
<1>17. Served'
  BY <1>1, WindowStays
<1> QED BY <1>9, <1>11, <1>12, <1>13, <1>14, <1>15, <1>16, <1>17 DEF LocalInv

LEMMA CleanInv ==
    ASSUME LocalInv, CleanChannel \/ EraseMarked
    PROVE  LocalInv'
<1>1. /\ channel' = Cleaned(channel)
      /\ UNCHANGED <<bufferLength, localNow, made, it, localbuffer, request, minT, walked,
                     expired, early>>
      /\ roundpc' = "walk" => roundpc = "walk"
      /\ roundpc' \notin {"walk", "undefined"} => roundpc \notin {"walk", "undefined"}
      /\ roundpc' = "lock" => roundpc = "lock"
  BY DEF CleanChannel, EraseMarked
<1>2. LocalType'
  BY <1>1 DEF LocalInv, LocalType
<1>3. ChannelIs' /\ Stamps' /\ Copied' /\ Found'
  BY <1>1, CleaningLeaves
<1>4. WalkedIs'
  BY <1>1 DEF LocalInv, WalkedIs
<1>5. Ordered'
  BY <1>1 DEF LocalInv, Ordered, EachOnce
<1>6. Served'
  BY <1>1, WindowStays
<1> QED BY <1>2, <1>3, <1>4, <1>5, <1>6 DEF LocalInv

LEMMA WaitInv ==
    ASSUME LocalInv, ShrinkBegin \/ HandleRequest \/ JsonTuples
    PROVE  LocalInv'
<1>1. /\ UNCHANGED <<bufferLength, localNow, channel, made, it, localbuffer, walked, expired, early>>
      /\ roundpc' = "walk" => roundpc = "walk"
      /\ roundpc' \notin {"walk", "undefined"} => roundpc \notin {"walk", "undefined"}
  BY DEF ShrinkBegin, HandleRequest, JsonTuples
<1>2. bufferLength \in Int /\ localNow \in Int /\ minT \in [{"round", "request"} -> Int]
  BY DEF LocalInv, LocalType
<1>3. minT' \in [{"round", "request"} -> Int]
  BY <1>2 DEF ShrinkBegin, HandleRequest, JsonTuples, ComputeLimit
<1>4. roundpc' = "lock" \/ request' = "lock" => bufferLength >= 0
  BY DEF LocalInv, LocalType, ShrinkBegin, HandleRequest, JsonTuples
<1>5. LocalType'
  BY <1>1, <1>3, <1>4 DEF LocalInv, LocalType
<1>6. Served'
  BY <1>1, WindowStays
<1>7. localNow' >= localNow
  BY <1>1, <1>2
<1> QED BY <1>1, <1>2, <1>5, <1>6, <1>7, BuffersStay DEF LocalInv

LEMMA ShrinkInv ==
    ASSUME LocalInv, ShrinkRound \/ ShrinkRequest
    PROVE  LocalInv'
<1>1. /\ UNCHANGED <<bufferLength, localNow, channel, made, it, minT, walked, early>>
      /\ roundpc' = "walk" => roundpc = "walk"
      /\ roundpc' = "lock" => roundpc = "lock"
      /\ request' = "lock" => request = "lock"
  BY DEF ShrinkRound, ShrinkRequest
<1>2. bufferLength >= 0
  BY DEF LocalInv, LocalType, ShrinkRound, ShrinkRequest
<1>3. minT["round"] \in Int /\ minT["request"] \in Int /\ localNow \in Int
  BY DEF LocalInv, LocalType
<1>4. PICK min \in Int : ShrinkLocalbuffer(min)
  BY <1>3 DEF ShrinkRound, ShrinkRequest
<1>5. Served'
  BY <1>1, <1>2, <1>4, ShrinkingServes
<1>6. LocalType'
  BY <1>1 DEF LocalInv, LocalType
<1>7. localNow' >= localNow /\ localNow' \in Int
  BY <1>1, <1>3
<1> QED BY <1>1, <1>5, <1>6, <1>7, BuffersStay DEF LocalInv

LEMMA MarkInv ==
    ASSUME LocalInv, MarkAll
    PROVE  LocalInv'
<1> DEFINE n == Len(channel)
           marked(r) == [r EXCEPT !.deleted = TRUE]
<1>1. /\ early' = early \cup (IdsOf(channel) \ IdsOf(walked))
      /\ UNCHANGED <<bufferLength, localNow, made, roundpc, it, localbuffer, request, minT, walked,
                     expired>>
  BY DEF MarkAll
<1>2. channel \in Seq(Waiting) /\ Sorted(channel)
  BY DEF LocalInv, ChannelIs
<1>3. n \in Nat /\ DOMAIN channel = 1 .. n /\ \A j \in 1 .. n : channel[j] \in Waiting
  BY <1>2
<1>4. channel' = [j \in 1 .. n |-> marked(channel[j])]
  BY <1>3 DEF MarkAll
<1>5. \A r \in Waiting : marked(r) \in Waiting /\ marked(r).id = r.id /\ marked(r).t = r.t
                         /\ marked(r).deleted
  BY DEF Waiting
<1> HIDE DEF n, marked
<1>6. channel' \in Seq(Waiting)
  BY <1>3, <1>4, <1>5
<1>7. /\ DOMAIN channel' = 1 .. n
      /\ \A j \in 1 .. n : /\ channel'[j].id = channel[j].id /\ channel'[j].t = channel[j].t
                           /\ channel'[j].deleted
  BY <1>3, <1>4, <1>5
<1>8. \A r \in ToSet(channel') : r.deleted /\ \E q \in ToSet(channel) : q.id = r.id /\ q.t = r.t
  BY <1>3, <1>7 DEF ToSet
<1>9. IdsOf(channel') = IdsOf(channel)
  BY <1>3, <1>7 DEF IdsOf
<1>10. LocalType'
  BY <1>1 DEF LocalInv, LocalType
<1>11. ChannelIs'
  <2>1. Sorted(channel')
    BY <1>2, <1>3, <1>7 DEF Sorted
  <2>2. \A r \in ToSet(channel') : r.id \in 1 .. made /\ r.t <= localNow
    BY <1>8 DEF LocalInv, ChannelIs
  <2> QED BY <1>1, <1>6, <2>1, <2>2 DEF ChannelIs
<1>12. WalkedIs' /\ Ordered'
  BY <1>1 DEF LocalInv, WalkedIs, Ordered, EachOnce
<1>13. Stamps'
  <2> SUFFICES ASSUME NEW r \in ToSet(channel'),
                      NEW q \in ToSet(channel') \cup ToSet(walked), q.id < r.id
               PROVE  q.t <= r.t
    BY <1>1 DEF Stamps
  <2>1. PICK p \in ToSet(channel) : p.id = r.id /\ p.t = r.t
    BY <1>8
  <2>2. PICK o \in ToSet(channel) \cup ToSet(walked) : o.id = q.id /\ o.t = q.t
    BY <1>8
  <2> QED BY <2>1, <2>2 DEF LocalInv, Stamps
<1>14. Copied'
  BY <1>8 DEF Copied
<1>15. Found'
  <2>1. \A r \in ToSet(channel') : r.id \in IdsOf(walked) \cup early'
    BY <1>1, <1>9, IdsAre
  <2>2. 1 .. made \subseteq IdsOf(walked) \cup early' \cup IdsOf(channel')
    BY <1>1, <1>9 DEF LocalInv, Found
  <2> QED BY <1>1, <2>1, <2>2 DEF Found
<1>16. Served'
  BY <1>1, WindowStays
<1> QED BY <1>10, <1>11, <1>12, <1>13, <1>14, <1>15, <1>16 DEF LocalInv

LEMMA BeginInv ==
    ASSUME LocalInv, AddBegin
    PROVE  LocalInv'
<1>1. /\ roundpc = "add" /\ roundpc' = "walk" /\ it' = FirstOf(channel)
      /\ UNCHANGED <<bufferLength, localNow, channel, made, localbuffer, request, minT, walked,
                     expired, early>>
  BY DEF AddBegin
<1>2. channel \in Seq(Waiting) /\ Sorted(channel)
  BY DEF LocalInv, ChannelIs
<1>3. ASSUME NEW r \in ToSet(channel)
      PROVE  it' # 0 /\ ~ (r.id < it')
  <2>1. PICK j \in DOMAIN channel : channel[j] = r
    BY DEF ToSet
  <2>2. 1 \in DOMAIN channel /\ j \in Nat /\ (j = 1 \/ 1 < j)
    BY <1>2
  <2>3. channel[1] \in ToSet(channel) /\ channel[1] \in Waiting /\ r \in Waiting
    BY <1>2, <2>1, <2>2 DEF ToSet
  <2>4. it' = channel[1].id
    BY <1>1, <1>2, <2>2 DEF FirstOf
  <2>5. channel[1].id \in 1 .. made /\ channel[1].id \in Nat /\ r.id \in Nat
    BY <2>3, WaitingIs DEF LocalInv, ChannelIs
  <2>6. j = 1 \/ channel[1].id < r.id
    BY <1>2, <2>1, <2>2 DEF Sorted
  <2> QED BY <2>1, <2>4, <2>5, <2>6
<1>4. LocalType'
  BY <1>1 DEF LocalInv, LocalType
<1>5. ChannelIs' /\ WalkedIs' /\ Stamps'
  BY <1>1 DEF LocalInv, ChannelIs, WalkedIs, Stamps
<1>6. Copied'
  BY <1>1, <1>3 DEF LocalInv, Copied
<1>7. Found' /\ Ordered'
  BY <1>1 DEF LocalInv, Found, Ordered, EachOnce
<1>8. Served'
  BY <1>1, WindowStays
<1> QED BY <1>4, <1>5, <1>6, <1>7, <1>8 DEF LocalInv

(* The walk goes from reading i to the next, or to the end.                *)
LEMMA WalkMoves ==
    ASSUME LocalInv, NEW i \in DOMAIN channel, channel[i].id = it,
           it' = FirstOf(SubSeq(channel, i + 1, Len(channel)))
    PROVE  \A r \in ToSet(channel) : it' = 0 \/ r.id < it' => r.id <= it
<1> DEFINE n == Len(channel)
           rest == SubSeq(channel, i + 1, n)
<1>1. channel \in Seq(Waiting) /\ Sorted(channel)
  BY DEF LocalInv, ChannelIs
<1>2. n \in Nat /\ DOMAIN channel = 1 .. n /\ i \in 1 .. n /\ i \in 0 .. n
      /\ \A j \in 1 .. n : channel[j].id \in 1 .. made
  BY <1>1 DEF LocalInv, ChannelIs, ToSet
<1>3. rest = [x \in 1 .. n - i |-> channel[x + i]] /\ rest \in Seq(Waiting)
  BY <1>1, <1>2, SuffixAt DEF Suffix
<1>4. made \in Nat
  BY DEF LocalInv, LocalType
<1>5. it' = FirstOf(rest)
  OBVIOUS
<1> HIDE DEF n, rest
<1>6. SUFFICES ASSUME NEW j \in 1 .. n, it' = 0 \/ channel[j].id < it'
               PROVE  channel[j].id <= it
  BY <1>2 DEF ToSet
<1>7. CASE j \in 1 .. i
  <2>1. j = i \/ (j \in DOMAIN channel /\ j < i)
    BY <1>2, <1>7
  <2>2. j = i \/ channel[j].id < channel[i].id
    BY <1>1, <2>1 DEF Sorted
  <2> QED BY <1>2, <1>4, <2>2
<1>8. CASE j \notin 1 .. i
  <2>1. i < j /\ 1 \in 1 .. n - i /\ i + 1 \in 1 .. n /\ 1 + i = i + 1
    BY <1>2, <1>8
  <2>2. rest # << >> /\ rest[1] = channel[i + 1]
    <3>1. DOMAIN rest = 1 .. n - i
      BY <1>3
    <3>2. 1 \in DOMAIN rest /\ DOMAIN << >> = {}
      BY <2>1, <3>1
    <3> QED BY <1>3, <2>1, <3>2
  <2>3. it' = channel[i + 1].id
    BY <1>5, <2>2 DEF FirstOf
  <2>4. j = i + 1 \/ channel[i + 1].id < channel[j].id
    <3>1. j = i + 1 \/ i + 1 < j
      BY <1>2, <2>1
    <3> QED BY <1>1, <1>2, <2>1, <3>1 DEF Sorted
  <2>5. channel[i + 1].id \in 1 .. made /\ channel[j].id \in 1 .. made
    BY <1>2, <2>1
  <2>6. channel[i + 1].id \in Int /\ channel[i + 1].id # 0 /\ channel[j].id \in Int
    BY <1>4, <2>5
  <2>7. CASE j = i + 1
    BY <1>6, <2>3, <2>6, <2>7
  <2>8. CASE channel[i + 1].id < channel[j].id
    BY <1>6, <2>3, <2>6, <2>8
  <2> QED BY <2>4, <2>7, <2>8
<1> QED BY <1>7, <1>8

(* A reading that is copied comes after all that were, if none of them is  *)
(* the same.                                                               *)
LEMMA CopyKeeps ==
    ASSUME LocalInv, NEW r \in ToSet(channel), ~ r.deleted,
           walked' = Append(walked, [id |-> r.id, t |-> r.t])
    PROVE  /\ walked' \in Seq(Copy)
           /\ ToSet(walked') = ToSet(walked) \cup {[id |-> r.id, t |-> r.t]}
           /\ IdsOf(walked') = IdsOf(walked) \cup {r.id}
           /\ EachOnce' => EachOnce
           /\ Ordered'
<1> DEFINE d == [id |-> r.id, t |-> r.t]
           m == Len(walked)
<1>1. channel \in Seq(Waiting) /\ walked \in Seq(Copy)
  BY DEF LocalInv, ChannelIs, WalkedIs
<1>2. r \in Waiting
  BY <1>1 DEF ToSet
<1>3. r.id \in Nat /\ r.t \in Int
  BY <1>2, WaitingIs
<1>4. d \in Copy /\ d.id = r.id /\ d.t = r.t
  BY <1>3 DEF Copy
<1>5. walked' = Append(walked, d)
  OBVIOUS
<1> HIDE DEF d
<1>6. /\ walked' \in Seq(Copy) /\ m \in Nat /\ DOMAIN walked = 1 .. m
      /\ DOMAIN walked' = 1 .. m + 1 /\ walked'[m + 1] = d
      /\ \A x \in 1 .. m : walked'[x] = walked[x] /\ walked[x] \in Copy
  BY <1>1, <1>4, <1>5
<1>7. ToSet(walked') = ToSet(walked) \cup {d}
  BY <1>1, <1>4, <1>5, ToSetAppend
<1>8. IdsOf(walked') = IdsOf(walked) \cup {r.id}
  BY <1>4, <1>7, IdsAre
<1> HIDE DEF m
<1>9. EachOnce' => EachOnce
  <2> SUFFICES ASSUME EachOnce', NEW x \in 1 .. m, NEW y \in 1 .. m, walked[x].id = walked[y].id
               PROVE  x = y
    BY <1>6 DEF EachOnce
  <2>1. x \in 1 .. m + 1 /\ y \in 1 .. m + 1
    BY <1>6
  <2>2. walked'[x].id = walked'[y].id
    BY <1>6
  <2> QED BY <1>6, <2>1, <2>2 DEF EachOnce
<1>10. ASSUME EachOnce', NEW x \in 1 .. m
       PROVE  walked[x].id < d.id /\ walked[x].t <= d.t
  <2>1. walked[x] \in ToSet(walked) /\ walked[x] \in Copy
    BY <1>6 DEF ToSet
  <2>2. walked[x].id \in Nat
    BY <2>1, CopyIs
  <2>3. r.id \notin IdsOf(walked)
    <3> SUFFICES ASSUME NEW y \in 1 .. m, walked[y].id = r.id
                 PROVE  FALSE
      BY <1>6 DEF IdsOf
    <3>1. y \in 1 .. m + 1 /\ m + 1 \in 1 .. m + 1 /\ y # m + 1
      BY <1>6
    <3>2. walked'[y].id = walked'[m + 1].id
      BY <1>4, <1>6
    <3> QED BY <1>6, <1>10, <3>1, <3>2 DEF EachOnce
  <2>4. ~ (r.id <= walked[x].id)
    BY <2>1, <2>3 DEF LocalInv, Copied
  <2>5. walked[x].id < r.id
    BY <1>3, <2>2, <2>4
  <2>6. walked[x].t <= r.t
    BY <2>1, <2>5 DEF LocalInv, Stamps
  <2> QED BY <1>4, <2>5, <2>6
<1>11. Ordered'
  <2> SUFFICES ASSUME EachOnce', NEW x \in 1 .. m + 1, NEW y \in 1 .. m + 1, x < y
               PROVE  walked'[x].id < walked'[y].id /\ walked'[x].t <= walked'[y].t
    BY <1>6 DEF Ordered
  <2>1. x \in 1 .. m /\ (y = m + 1 \/ y \in 1 .. m)
    BY <1>6
  <2>2. CASE y = m + 1
    BY <1>6, <1>10, <2>1, <2>2
  <2>3. CASE y \in 1 .. m
    BY <1>6, <1>9, <2>1, <2>3 DEF LocalInv, Ordered
  <2> QED BY <2>1, <2>2, <2>3
<1> QED BY <1>6, <1>7, <1>8, <1>9, <1>11 DEF d

LEMMA AddInv ==
    ASSUME LocalInv, AddReading
    PROVE  LocalInv'
<1>1. PICK i \in DOMAIN channel :
        /\ channel[i].id = it
        /\ it' = FirstOf(SubSeq(channel, i + 1, Len(channel)))
        /\ IF channel[i].deleted THEN UNCHANGED <<localbuffer, walked>>
           ELSE LET d == [id |-> channel[i].id, t |-> channel[i].t]
                IN localbuffer' = Append(localbuffer, d) /\ walked' = Append(walked, d)
  BY DEF AddReading
<1> DEFINE r == channel[i]
           d == [id |-> r.id, t |-> r.t]
<1>2. roundpc = "walk" /\ it # 0
      /\ UNCHANGED <<bufferLength, localNow, channel, made, roundpc, request, minT, expired, early>>
  BY DEF AddReading
<1>3. channel \in Seq(Waiting) /\ Sorted(channel) /\ walked \in Seq(Copy)
  BY DEF LocalInv, ChannelIs, WalkedIs
<1>4. r \in ToSet(channel) /\ r \in Waiting
  BY <1>3 DEF ToSet
<1>5. r.id \in Nat /\ r.t \in Int /\ r.id <= made /\ r.t <= localNow
  BY <1>4, WaitingIs DEF LocalInv, ChannelIs, LocalType
<1>6. \A q \in ToSet(channel) : it' = 0 \/ q.id < it' => q.id <= it
  BY <1>1, WalkMoves
<1>7. LocalType'
  BY <1>2 DEF LocalInv, LocalType
<1>8. ChannelIs'
  BY <1>2 DEF LocalInv, ChannelIs
<1>9. ASSUME NEW q \in ToSet(channel), ~ q.deleted, it' = 0 \/ q.id < it'
      PROVE  q.id \in IdsOf(walked) \/ q = r
  <2>1. q.id <= it /\ r.id = it
    BY <1>1, <1>6, <1>9
  <2>2. PICK j \in DOMAIN channel : channel[j] = q
    BY DEF ToSet
  <2>3. q \in Waiting /\ q.id \in Nat
    BY <1>3, <2>2, WaitingIs
  <2>4. CASE q.id = it
    <3>1. i \in Nat /\ j \in Nat
      BY <1>3, <2>2
    <3>2. ~ (i < j) /\ ~ (j < i)
      BY <1>3, <1>5, <2>1, <2>2, <2>4 DEF Sorted
    <3> QED BY <2>2, <3>1, <3>2
  <2>5. CASE q.id # it
    <3>1. q.id < it
      BY <1>5, <2>1, <2>3, <2>5
    <3> QED BY <1>2, <1>9, <3>1 DEF LocalInv, Copied
  <2> QED BY <2>4, <2>5
<1> HIDE DEF r
<1>10. CASE r.deleted
  <2>1. UNCHANGED <<localbuffer, walked>>
    BY <1>1, <1>10 DEF r
  <2>2. WalkedIs' /\ Stamps' /\ Ordered'
    BY <1>2, <2>1 DEF LocalInv, WalkedIs, Stamps, Ordered, EachOnce
  <2>3. Found'
    BY <1>2, <2>1 DEF LocalInv, Found
  <2>4. Copied'
    BY <1>2, <1>9, <1>10, <2>1 DEF LocalInv, Copied
  <2>5. Served'
    BY <1>2, <2>1, WindowStays
  <2> QED BY <1>7, <1>8, <2>2, <2>3, <2>4, <2>5 DEF LocalInv
<1>11. CASE ~ r.deleted
  <2>1. walked' = Append(walked, d) /\ localbuffer' = Append(localbuffer, d)
    BY <1>1, <1>11 DEF r
  <2>2. d \in Copy /\ d.id = r.id /\ d.t = r.t
    BY <1>5 DEF Copy
  <2>3. /\ walked' \in Seq(Copy) /\ ToSet(walked') = ToSet(walked) \cup {d}
        /\ IdsOf(walked') = IdsOf(walked) \cup {r.id}
        /\ (EachOnce' => EachOnce) /\ Ordered'
    BY <1>4, <1>11, <2>1, CopyKeeps
  <2> HIDE DEF d
  <2>4. WalkedIs'
    BY <1>2, <1>5, <2>2, <2>3 DEF LocalInv, WalkedIs
  <2>5. Stamps'
    <3>1. ASSUME NEW p \in ToSet(channel),
                 NEW q \in ToSet(channel) \cup ToSet(walked) \cup {d}, q.id < p.id
          PROVE  q.t <= p.t
      <4>1. CASE q = d
        BY <1>4, <2>2, <3>1, <4>1 DEF LocalInv, Stamps
      <4>2. CASE q # d
        BY <3>1, <4>2 DEF LocalInv, Stamps
      <4> QED BY <4>1, <4>2
    <3> QED BY <1>2, <2>3, <3>1 DEF Stamps
  <2>6. Copied'
    <3> SUFFICES ASSUME NEW q \in ToSet(channel), ~ q.deleted,
                        \/ \E w \in ToSet(walked) \cup {d} : q.id <= w.id
                        \/ it' = 0 \/ q.id < it'
                 PROVE  q.id \in IdsOf(walked) \cup {r.id}
      BY <1>2, <2>3 DEF Copied
    <3>1. CASE \E w \in ToSet(walked) : q.id <= w.id
      BY <3>1 DEF LocalInv, Copied
    <3>2. CASE q.id <= d.id
      <4>1. q \in Waiting /\ q.id \in Nat
        BY <1>3, WaitingIs DEF ToSet
      <4>2. q.id = r.id \/ q.id < it
        BY <1>1, <1>5, <2>2, <3>2, <4>1 DEF r
      <4> QED BY <1>2, <4>2 DEF LocalInv, Copied
    <3>3. CASE it' = 0 \/ q.id < it'
      BY <1>9, <3>3
    <3> QED BY <3>1, <3>2, <3>3
  <2>7. Found'
    BY <1>2, <2>3 DEF LocalInv, Found
  <2>8. Served'
    <3>1. ASSUME NEW n \in 0 .. Len(walked)
          PROVE  /\ n \in 0 .. Len(walked') /\ Len(walked') = Len(walked) + 1
                 /\ localbuffer = Suffix(walked, n) => localbuffer' = Suffix(walked', n)
      <4>1. Len(walked') = Len(walked) + 1 /\ Len(walked) \in Nat
        BY <1>3, <2>1, <2>2
      <4>2. Suffix(Append(walked, d), n) = Append(Suffix(walked, n), d)
        BY <1>3, <2>2, SuffixAppend
      <4> QED BY <2>1, <4>1, <4>2
    <3>2. bufferLength \in Int /\ Len(walked) \in Nat
      BY <1>3 DEF LocalInv, LocalType
    <3>3. ASSUME NEW n \in 0 .. Len(walked), Counted(n)
          PROVE  Counted(n)'
      BY <1>2, <3>1, <3>2, <3>3 DEF Counted, Suffix
    <3>4. ASSUME NEW n \in 0 .. Len(walked), Timed(n)
          PROVE  Timed(n)'
      BY <1>2, <3>1, <3>4 DEF Timed, Suffix
    <3> QED BY <1>2, <2>3, <3>1, <3>3, <3>4 DEF LocalInv, Served
  <2> QED BY <1>7, <1>8, <2>3, <2>4, <2>5, <2>6, <2>7, <2>8 DEF LocalInv
<1> QED BY <1>10, <1>11

LEMMA LastOfSuffix ==
    ASSUME NEW k \in Nat \ {0}, walked \in Seq(Copy), NEW n \in 0 .. Len(walked),
           n > 0 => Len(walked) - n >= k
    PROVE  \E p \in 0 .. Len(walked) :
             /\ LastOf(Suffix(walked, n), k) = Suffix(walked, p)
             /\ p > 0 => Len(walked) - p >= k
             /\ Len(walked) - p <= k
<1> DEFINE m == Len(walked)
           s == Suffix(walked, n)
<1>1. m \in Nat /\ n \in 0 .. m
  OBVIOUS
<1>2. s \in Seq(Copy) /\ Len(s) = m - n
  BY SuffixAt
<1> HIDE DEF m, s
<1>3. CASE Len(s) > k
  <2> DEFINE e == Len(s) - k
  <2>1. e \in 0 .. m - n /\ n + e \in 0 .. m /\ m - (n + e) = k
    BY <1>1, <1>2, <1>3
  <2>2. LastOf(s, k) = Suffix(s, e)
    BY <1>3 DEF LastOf, Suffix
  <2> HIDE DEF e
  <2>3. Suffix(s, e) = Suffix(walked, n + e)
    BY <2>1, SuffixOfSuffix DEF s, m
  <2>4. m - (n + e) >= k /\ m - (n + e) <= k
    BY <2>1
  <2> QED BY <2>1, <2>2, <2>3, <2>4 DEF s, m
<1>4. CASE ~ (Len(s) > k)
  <2>1. LastOf(s, k) = SubSeq(s, 1, Len(s))
    BY <1>4 DEF LastOf
  <2>2. SubSeq(s, 1, Len(s)) = s
    BY <1>2
  <2>3. m - n <= k
    BY <1>1, <1>2, <1>4
  <2> QED BY <2>1, <2>2, <2>3 DEF s, m
<1> QED BY <1>3, <1>4

LEMMA EndInv ==
    ASSUME LocalInv, AddEnd
    PROVE  LocalInv'
<1>1. /\ roundpc = "walk" /\ roundpc' = "read"
      /\ localbuffer' = IF bufferLength < 0 THEN LastOf(localbuffer, - bufferLength) ELSE localbuffer
      /\ UNCHANGED <<bufferLength, localNow, channel, made, it, request, minT, walked, expired, early>>
  BY DEF AddEnd
<1>2. LocalType' /\ localNow' >= localNow /\ localNow' \in Int
  BY <1>1 DEF LocalInv, LocalType
<1>3. ChannelIs' /\ WalkedIs' /\ Stamps' /\ Copied' /\ Found' /\ Ordered'
  BY <1>1, <1>2, BuffersStay
<1>4. Served'
  <2>1. CASE bufferLength >= 0
    <3>1. localbuffer' = localbuffer
      BY <1>1, <2>1 DEF LocalInv, LocalType
    <3>2. ASSUME NEW n \in 0 .. Len(walked), Timed(n)
          PROVE  Timed(n)'
      BY <1>1, <3>1, <3>2 DEF Timed, Suffix
    <3>3. ~ (bufferLength < 0)
      BY <2>1 DEF LocalInv, LocalType
    <3> QED BY <1>1, <2>1, <3>2, <3>3 DEF LocalInv, Served, EachOnce
  <2>2. CASE bufferLength < 0
    <3>1. - bufferLength \in Nat \ {0} /\ bufferLength \in Int
      BY <2>2 DEF LocalInv, LocalType
    <3>2. walked \in Seq(Copy)
      BY DEF LocalInv, WalkedIs
    <3>3. PICK n \in 0 .. Len(walked) : Counted(n)
      BY <2>2 DEF LocalInv, Served
    <3>4. localbuffer = Suffix(walked, n) /\ (n > 0 => Len(walked) - n >= - bufferLength)
      BY <3>3 DEF Counted
    <3>5. PICK p \in 0 .. Len(walked) :
            /\ LastOf(Suffix(walked, n), - bufferLength) = Suffix(walked, p)
            /\ p > 0 => Len(walked) - p >= - bufferLength
            /\ Len(walked) - p <= - bufferLength
      BY <3>1, <3>2, <3>4, LastOfSuffix
    <3>6. localbuffer' = Suffix(walked, p)
      BY <1>1, <2>2, <3>4, <3>5
    <3>7. Counted(p)'
      BY <1>1, <3>5, <3>6 DEF Counted, Suffix
    <3>8. ~ (bufferLength >= 0)
      BY <2>2, <3>1
    <3> QED BY <1>1, <3>7, <3>8 DEF Served
  <2> QED BY <2>1, <2>2 DEF LocalInv, LocalType
<1> QED BY <1>2, <1>3, <1>4 DEF LocalInv

LEMMA LocalInductive ==
    ASSUME LocalInv, [LocalNext]_localVars
    PROVE  LocalInv'
<1>1. CASE UNCHANGED localVars
  BY <1>1 DEF localVars, LocalInv, LocalType, ChannelIs, WalkedIs, Stamps, Copied, Found,
              Ordered, EachOnce, Served, Counted, Timed, Suffix
<1> QED BY <1>1, TickInv, PushInv, CleanInv, WaitInv, ShrinkInv, MarkInv, BeginInv, AddInv, EndInv
        DEF LocalNext

LEMMA ServesWindow == LocalInv => WindowServed
<1> SUFFICES ASSUME LocalInv
             PROVE  WindowServed
  OBVIOUS
<1>1. bufferLength \in Int /\ walked \in Seq(Copy)
  BY DEF LocalInv, LocalType, WalkedIs
<1>2. ASSUME Unlocked, roundpc # "undefined", bufferLength < 0
      PROVE  Window
  <2>1. PICK n \in 0 .. Len(walked) : Counted(n)
    BY <1>2 DEF LocalInv, Served
  <2> DEFINE k == - bufferLength
             m == Len(walked)
  <2>2. k \in Nat /\ m \in Nat /\ n \in 0 .. m
    BY <1>1, <1>2
  <2>3. localbuffer = Suffix(walked, n) /\ (n > 0 => m - n >= k) /\ m - n <= k
    BY <1>2, <2>1 DEF Counted, Unlocked
  <2> HIDE DEF m
  <2>4. CASE m > k
    <3>1. n = m - k
      BY <2>2, <2>3, <2>4
    <3>2. LastOf(walked, k) = SubSeq(walked, m - k + 1, m)
      BY <2>4 DEF LastOf, m
    <3> QED BY <1>2, <2>3, <3>1, <3>2 DEF Window, Suffix, m
  <2>5. CASE ~ (m > k)
    <3>1. n = 0 /\ n + 1 = 1
      BY <2>2, <2>3, <2>5
    <3>2. LastOf(walked, k) = SubSeq(walked, 1, m)
      BY <2>5 DEF LastOf, m
    <3> QED BY <1>2, <2>3, <3>1, <3>2 DEF Window, Suffix, m
  <2> QED BY <2>4, <2>5
<1>3. ASSUME bufferLength >= 0, EachOnce
      PROVE  Window
  BY <1>1, <1>3 DEF LocalInv, Served, Timed, Suffix, Window
<1>4. roundpc = "read" => 1 .. made \subseteq IdsOf(walked) \cup early \cup IdsOf(channel)
  BY DEF LocalInv, Found
<1> QED BY <1>1, <1>2, <1>3, <1>4 DEF WindowServed

(* What add_ch_to_localbuffer copies and shrink_localbuffer takes away,    *)
(* while the logging thread marks and erases and with a limit that another *)
(* thread computed before it waited for the lock, is what a request may    *)
(* expect.                                                                 *)
THEOREM WindowIsServed == LocalSpec => []WindowServed
<1>1. LocalInit /\ [][LocalNext]_localVars => []LocalInv
  BY LocalInitInv, LocalInductive, PTL
<1> QED BY <1>1, ServesWindow, PTL DEF LocalSpec

=============================================================================
