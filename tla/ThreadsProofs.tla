---------------------------- MODULE ThreadsProofs ----------------------------
(* What happens to the readings of the daemon's threads, that none of them *)
(* outlives the push list, and where the threads may stand, for all        *)
(* meters, channels, configurations and middlewares.                       *)
EXTENDS Threads, Induction

(* The buffers and what was counted have their types; in a channel that    *)
(* does not aggregate every entry is one reading that was never taken.     *)
BufType ==
    /\ buf \in [Channels -> SUBSET Entry]
    /\ count \in [Channels -> Nat]
    /\ taken \in [Channels -> SUBSET Nat]
    /\ again \in [Channels -> SUBSET Nat]

EachOnce(c) ==
    /\ taken[c] \subseteq 1 .. count[c]
    /\ \A e \in buf[c] : ~e.deleted /\ \E n \in 1 .. count[c] : n \notin taken[c] /\ e.ids = {n}

BufInv ==
    /\ BufType
    /\ NothingLost
    /\ CountedOnce
    /\ \A c \in Channels \ Aggregated : EachOnce(c)

-----------------------------------------------------------------------------
(* What the operations make of one buffer. *)

LEMMA LiveTwice == \A b : Live(Live(b)) = Live(b)
  BY DEF Live

(* Aggregation keeps the readings of the entries that are not deleted.     *)
LEMMA AggregateKeepsIds ==
    ASSUME NEW b \in SUBSET Entry
    PROVE  Aggregate(b) \in SUBSET Entry /\ Ids(Live(Aggregate(b))) = Ids(Live(b))
<1>1. CASE Live(b) = {}
  BY <1>1 DEF Aggregate
<1>2. CASE Live(b) # {}
  <2> DEFINE latest == CHOOSE e \in Live(b) : TRUE
             sum == [ids |-> UNION {e.ids : e \in Live(b)}, deleted |-> FALSE]
             marked == {[ids |-> e.ids, deleted |-> TRUE] : e \in b \ {latest}}
  <2> HIDE DEF latest
  <2>1. Aggregate(b) = {sum} \cup marked
    BY <1>2 DEF Aggregate, latest
  <2>2. UNION {e.ids : e \in Live(b)} \subseteq Nat
    BY DEF Live, Entry
  <2>3. sum \in Entry
    BY <2>2 DEF Entry
  <2>4. marked \subseteq Entry
    <3>1. ASSUME NEW e \in b
          PROVE  [ids |-> e.ids, deleted |-> TRUE] \in Entry
      BY DEF Entry
    <3> QED BY <3>1
  <2>5. Live({sum} \cup marked) = {sum}
    BY DEF Live
  <2>6. Ids({sum}) = Ids(Live(b))
    BY DEF Ids
  <2> QED BY <2>1, <2>3, <2>4, <2>5, <2>6
<1> QED BY <1>1, <1>2

-----------------------------------------------------------------------------
(* The steps of the reading thread. *)

(* A step that leaves readings and entries alone.                          *)
LEMMA NoBufferStep ==
    ASSUME BufInv, UNCHANGED <<buf, count, taken, again>>
    PROVE  BufInv'
  BY DEF BufInv, BufType, NothingLost, CountedOnce, EachOnce

(* An operation f on one buffer that keeps the live readings.              *)
LEMMA BufferStep ==
    ASSUME BufInv, UNCHANGED <<count, taken, again>>,
           NEW c, NEW b,
           buf' = [buf EXCEPT ![c] = b],
           c \in Channels => b \in SUBSET Entry /\ Ids(Live(b)) = Ids(Live(buf[c])),
           c \in Channels \ Aggregated => b \subseteq buf[c]
    PROVE  BufInv'
<1> USE DEF BufInv, BufType
<1>1. BufType'
  OBVIOUS
<1>2. ASSUME NEW d \in Channels
      PROVE  Ids(Live(buf'[d])) = Ids(Live(buf[d]))
  BY <1>2
<1>3. NothingLost'
  BY <1>2 DEF NothingLost
<1>4. CountedOnce'
  BY DEF CountedOnce
<1>5. ASSUME NEW d \in Channels \ Aggregated
      PROVE  EachOnce(d)'
  <2>1. buf'[d] \subseteq buf[d]
    OBVIOUS
  <2> QED BY <2>1 DEF EachOnce
<1> QED BY <1>1, <1>3, <1>4, <1>5

LEMMA PushKeeps ==
    ASSUME BufInv, NEW m \in Meters, Push(m)
    PROVE  BufInv'
<1> USE DEF BufInv, BufType
<1> DEFINE c == FirstFresh(m)
           e == [ids |-> {count[c] + 1}, deleted |-> FALSE]
<1> HIDE DEF c
<1>1. /\ buf' = [buf EXCEPT ![c] = @ \cup {e}]
      /\ count' = [count EXCEPT ![c] = @ + 1]
      /\ UNCHANGED <<taken, again>>
  BY DEF Push, c
<1>2. CASE c \notin Channels
  <2>1. buf' = buf /\ count' = count
    BY <1>1, <1>2
  <2> QED BY <1>1, <2>1, NoBufferStep
<1>3. CASE c \in Channels
  <2>1. count[c] \in Nat /\ e \in Entry
    BY <1>3 DEF Entry
  <2>2. BufType'
    <3> HIDE DEF e
    <3>1. buf[c] \cup {e} \in SUBSET Entry /\ count[c] + 1 \in Nat
      BY <1>3, <2>1
    <3> QED BY <1>1, <1>3, <3>1
  <2>3. ASSUME NEW d \in Channels
        PROVE  1 .. count'[d] \subseteq taken[d] \cup Ids(Live(buf'[d]))
    <3>0. 1 .. count[d] \subseteq taken[d] \cup Ids(Live(buf[d]))
      BY DEF NothingLost
    <3>1. CASE d # c
      BY <1>1, <3>0, <3>1
    <3>2. CASE d = c
      <4>1. count'[c] = count[c] + 1 /\ buf'[c] = buf[c] \cup {e}
        BY <1>1, <1>3
      <4>2. Live(buf'[c]) = Live(buf[c]) \cup {e}
        BY <4>1 DEF Live
      <4>3. Ids(Live(buf'[c])) = Ids(Live(buf[c])) \cup {count[c] + 1}
        <5>1. e.ids = {count[c] + 1}
          OBVIOUS
        <5> HIDE DEF e
        <5> QED BY <4>2, <5>1 DEF Ids
      <4>4. 1 .. count'[c] \subseteq (1 .. count[c]) \cup {count[c] + 1}
        BY <2>1, <4>1
      <4> QED BY <3>0, <3>2, <4>3, <4>4
    <3> QED BY <3>1, <3>2
  <2>4. NothingLost'
    BY <1>1, <2>3 DEF NothingLost
  <2>5. CountedOnce'
    BY <1>1 DEF CountedOnce
  <2>6. ASSUME NEW d \in Channels \ Aggregated
        PROVE  EachOnce(d)'
    <3>0. EachOnce(d)
      OBVIOUS
    <3>1. CASE d # c
      <4>1. buf'[d] = buf[d] /\ count'[d] = count[d] /\ taken'[d] = taken[d]
        BY <1>1, <3>1
      <4> QED BY <3>0, <4>1 DEF EachOnce
    <3>2. CASE d = c
      <4>1. count'[d] = count[d] + 1 /\ buf'[d] = buf[d] \cup {e} /\ taken'[d] = taken[d]
        BY <1>1, <1>3, <3>2
      <4>2. count[d] + 1 \notin taken[d] /\ 1 .. count[d] \subseteq 1 .. count'[d]
            /\ count[d] + 1 \in 1 .. count'[d]
        BY <2>1, <3>0, <3>2, <4>1 DEF EachOnce
      <4>3. e.ids = {count[d] + 1} /\ ~e.deleted
        BY <3>2
      <4> QED BY <3>0, <4>1, <4>2, <4>3 DEF EachOnce
    <3> QED BY <3>1, <3>2
  <2> QED BY <2>2, <2>4, <2>5, <2>6
<1> QED BY <1>2, <1>3

LEMMA ReadingKeeps ==
    ASSUME BufInv, NEW m \in Meters, ReadingThread(m)
    PROVE  BufInv'
<1> DEFINE c == Chan(m)
<1>0. c \in Channels => buf[c] \in SUBSET Entry
  BY DEF BufInv, BufType
<1>1. CASE Push(m)
  BY <1>1, PushKeeps
<1>2. CASE AggregateBuffer(m) /\ c \in Aggregated
  <2>1. buf' = [buf EXCEPT ![c] = Aggregate(buf[c])] /\ UNCHANGED <<count, taken, again>>
    BY <1>2 DEF AggregateBuffer
  <2>2. c \in Channels => /\ Aggregate(buf[c]) \in SUBSET Entry
                          /\ Ids(Live(Aggregate(buf[c]))) = Ids(Live(buf[c]))
    BY <1>0, AggregateKeepsIds
  <2> HIDE DEF c
  <2> QED BY <1>2, <2>1, <2>2, BufferStep
<1>3. CASE CleanBuffer(m)
  <2>1. buf' = [buf EXCEPT ![c] = Live(buf[c])] /\ UNCHANGED <<count, taken, again>>
    BY <1>3 DEF CleanBuffer
  <2>2. /\ c \in Channels => Live(buf[c]) \in SUBSET Entry /\ Ids(Live(Live(buf[c]))) = Ids(Live(buf[c]))
        /\ Live(buf[c]) \subseteq buf[c]
    BY <1>0, LiveTwice DEF Live
  <2> HIDE DEF c
  <2> QED BY <2>1, <2>2, BufferStep
<1>4. CASE \/ ReadTop(m) \/ ReadMeter(m) \/ ReadThrows(m) \/ NextRead(m) \/ HaveNewValues(m) \/ Notify(m)
           \/ (AggregateBuffer(m) /\ c \notin Aggregated)
  BY <1>4, NoBufferStep
     DEF ReadTop, ReadMeter, ReadThrows, NextRead, HaveNewValues, Notify, AggregateBuffer, bufVars
<1> QED BY <1>1, <1>2, <1>3, <1>4 DEF ReadingThread

-----------------------------------------------------------------------------
(* The steps of the logging thread. *)

LEMMA TakeKeeps ==
    ASSUME BufInv, NEW c \in Channels, TakeValues(c)
    PROVE  BufInv'
<1> USE DEF BufInv, BufType
<1>1. /\ taken' = [taken EXCEPT ![c] = @ \cup Ids(buf[c])]
      /\ again' = [again EXCEPT ![c] = @ \cup Twice(buf[c]) \cup (Ids(buf[c]) \cap taken[c])]
      /\ buf' = [buf EXCEPT ![c] = {}]
      /\ count' = count
  BY DEF TakeValues
<1>2. Ids(buf[c]) \subseteq Nat /\ Twice(buf[c]) \subseteq Ids(buf[c])
  BY DEF Ids, Twice, Entry
<1>3. BufType'
  BY <1>1, <1>2
<1>4. ASSUME NEW d \in Channels
      PROVE  1 .. count[d] \subseteq taken'[d] \cup Ids(Live(buf'[d]))
  <2>0. 1 .. count[d] \subseteq taken[d] \cup Ids(Live(buf[d]))
    BY DEF NothingLost
  <2>1. CASE d # c
    BY <1>1, <2>0, <2>1
  <2>2. CASE d = c
    <3>1. Ids(Live(buf[c])) \subseteq Ids(buf[c])
      BY DEF Ids, Live
    <3>2. taken'[c] = taken[c] \cup Ids(buf[c])
      BY <1>1
    <3> QED BY <2>0, <2>2, <3>1, <3>2
  <2> QED BY <2>1, <2>2
<1>5. NothingLost'
  BY <1>1, <1>4 DEF NothingLost
<1>6. ASSUME c \notin Aggregated
      PROVE  Twice(buf[c]) = {} /\ Ids(buf[c]) \cap taken[c] = {} /\ Ids(buf[c]) \subseteq 1 .. count[c]
  <2>1. \A e \in buf[c] : ~e.deleted /\ \E n \in 1 .. count[c] : n \notin taken[c] /\ e.ids = {n}
    BY <1>6 DEF EachOnce
  <2>2. Ids(buf[c]) \cap taken[c] = {} /\ Ids(buf[c]) \subseteq 1 .. count[c]
    BY <2>1 DEF Ids
  <2>3. ASSUME NEW e \in buf[c], NEW f \in buf[c], NEW i \in e.ids \cap f.ids
        PROVE  e = f
    <3>1. e.ids = {i} /\ f.ids = {i} /\ e.deleted = f.deleted
      BY <2>1 DEF Entry
    <3>2. /\ e = [ids |-> e.ids, deleted |-> e.deleted]
          /\ f = [ids |-> f.ids, deleted |-> f.deleted]
      BY DEF Entry
    <3> QED BY <3>1, <3>2
  <2>4. Twice(buf[c]) = {}
    BY <2>3 DEF Twice
  <2> QED BY <2>2, <2>4
<1>7. CountedOnce'
  <2>1. ASSUME NEW d \in Channels \ Aggregated
        PROVE  again'[d] = {}
    <3>1. again[d] = {}
      BY DEF CountedOnce
    <3>2. CASE d = c
      BY <1>1, <1>6, <3>1, <3>2
    <3>3. CASE d # c
      BY <1>1, <3>1, <3>3
    <3> QED BY <3>2, <3>3
  <2> QED BY <2>1 DEF CountedOnce
<1>8. ASSUME NEW d \in Channels \ Aggregated
      PROVE  EachOnce(d)'
  <2>0. EachOnce(d)
    OBVIOUS
  <2>1. CASE d = c
    <3>1. buf'[d] = {} /\ taken'[d] = taken[d] \cup Ids(buf[d]) /\ count'[d] = count[d]
      BY <1>1, <2>1
    <3> QED BY <1>6, <2>0, <2>1, <3>1 DEF EachOnce
  <2>2. CASE d # c
    <3>1. buf'[d] = buf[d] /\ taken'[d] = taken[d] /\ count'[d] = count[d]
      BY <1>1, <2>2
    <3> QED BY <2>0, <3>1 DEF EachOnce
  <2> QED BY <2>1, <2>2
<1> QED BY <1>3, <1>5, <1>7, <1>8

LEMMA LoggingKeeps ==
    ASSUME BufInv, NEW c \in Channels, LoggingThread(c)
    PROVE  BufInv'
<1>1. CASE TakeValues(c)
  BY <1>1, TakeKeeps
<1>2. CASE \/ LookForValues(c) \/ ClearNewValues(c) \/ DieWaiting(c)
           \/ ObtainSession(c) \/ DieSending(c) \/ Perform(c)
  BY <1>2, NoBufferStep
     DEF LookForValues, ClearNewValues, DieWaiting, ObtainSession, DieSending, Perform, bufVars
<1> QED BY <1>1, <1>2 DEF LoggingThread

-----------------------------------------------------------------------------
(* The whole daemon. *)

LEMMA BufInit == ThreadsInit => BufInv
  BY DEF ThreadsInit, NoThreads, BufInv, BufType, NothingLost, CountedOnce, EachOnce, Entry

LEMMA BufInductive ==
    ASSUME BufInv, [ThreadsNext]_threadVars
    PROVE  BufInv'
<1>1. ASSUME NEW m \in Meters, ReadingThread(m)
      PROVE  BufInv'
  BY <1>1, ReadingKeeps
<1>2. ASSUME NEW c \in Channels, LoggingThread(c)
      PROVE  BufInv'
  BY <1>2, LoggingKeeps
<1>3. CASE UNCHANGED threadVars \/ Main \/ SignalQuit \/ PushThreadStep
  <2>1. UNCHANGED bufVars
    BY <1>3 DEF threadVars, Main, Starting, Supervise, Finishing, SignalQuit, PushThreadStep
  <2> QED BY <2>1, NoBufferStep DEF bufVars
<1> QED BY <1>1, <1>2, <1>3 DEF ThreadsNext

LEMMA BufAlways == ThreadsSpec => []BufInv
<1>1. ThreadsInit /\ [][ThreadsNext]_threadVars => []BufInv
  BY BufInit, BufInductive, PTL
<1> QED BY <1>1 DEF ThreadsSpec

(* Whatever Buffer::push, aggregate and clean of the reading thread and    *)
(* the API of the logging thread do to a buffer between each other, no     *)
(* reading vanishes before the API has taken it.                           *)
THEOREM NoReadingLost == ThreadsSpec => []NothingLost
<1>1. BufInv => NothingLost
  BY DEF BufInv
<1> QED BY <1>1, BufAlways, PTL

(* A channel that does not aggregate hands every reading over once.        *)
THEOREM NoReadingTwice == ThreadsSpec => []CountedOnce
<1>1. BufInv => CountedOnce
  BY DEF BufInv
<1> QED BY <1>1, BufAlways, PTL

-----------------------------------------------------------------------------
(* The end of the daemon. *)

(* A reading thread that can still move belongs to a meter that is running,*)
(* and the main program passes the meters only when none is.               *)
JoinInv ==
    /\ rpc \in [Meters -> ReadPlaces] /\ running \in [Meters -> BOOLEAN]
    /\ \A m \in Meters : running[m] \/ rpc[m] \in {"off", "dead"}
    /\ mpc \in {"endPush", "joinPush", "sessions", "done"} => \A m \in Meters : ~running[m]
    /\ pushList = "deleted" => mpc \in {"sessions", "done"}

LEMMA JoinInit == ThreadsInit => JoinInv
<1> SUFFICES ASSUME ThreadsInit PROVE JoinInv
  OBVIOUS
<1>1. /\ rpc = [m \in Meters |-> "off"] /\ running = [m \in Meters |-> FALSE]
      /\ mpc = "start"
  BY DEF ThreadsInit, NoThreads
<1>2. pushList = "none" \/ pushList = "made"
  BY DEF ThreadsInit, NoThreads, PushInit
<1> QED BY <1>1, <1>2 DEF JoinInv, ReadPlaces

LEMMA JoinInductive ==
    ASSUME JoinInv, [ThreadsNext]_threadVars
    PROVE  JoinInv'
<1> USE DEF JoinInv
<1>1. ASSUME UNCHANGED <<rpc, running, mpc, pushList>>
      PROVE  JoinInv'
  BY <1>1
<1>2. ASSUME NEW m \in Meters, ReadingThread(m)
      PROVE  JoinInv'
  <2>1. UNCHANGED <<running, mpc, pushList>>
    BY <1>2 DEF ReadingThread, mainVars
  <2>2. \/ rpc' = rpc
        \/ rpc[m] \notin {"off", "dead"} /\ \E to \in ReadPlaces : rpc' = [rpc EXCEPT ![m] = to]
    BY <1>2 DEF ReadingThread, ReadTop, ReadMeter, ReadThrows, Push, NextRead, AggregateBuffer,
                CleanBuffer, HaveNewValues, Notify, At, ReadPlaces
  <2> QED BY <2>1, <2>2
<1>3. ASSUME NEW c \in Channels, LoggingThread(c)
      PROVE  JoinInv'
  BY <1>1, <1>3 DEF LoggingThread, mainVars, readVars, pushVars
<1>4. CASE Starting
  <2>1. mpc = "start" /\ UNCHANGED pushList
    BY <1>4 DEF Starting, StartMeter, OpenFails, Started, pushVars
  <2>2. mpc' \in {"start", "loop", "exited"}
    BY <1>4 DEF Starting, StartMeter, OpenFails, Started
  <2>3. \/ UNCHANGED <<rpc, running>>
        \/ rpc' = [rpc EXCEPT ![Meter] = "top"] /\ running' = [running EXCEPT ![Meter] = TRUE]
    BY <1>4 DEF Starting, StartMeter, OpenFails, Started
  <2> QED BY <2>1, <2>2, <2>3 DEF ReadPlaces
<1>5. CASE Supervise
  <2>1. UNCHANGED <<rpc, pushList>>
    BY <1>5 DEF Supervise, readVars, pushVars
  <2>2. CASE MainLoop
    BY <2>1, <2>2 DEF MainLoop
  <2>3. CASE NextMeter
    BY <2>1, <2>3 DEF NextMeter
  <2>4. CASE CancelChannel \/ JoinChannel \/ CancelReader
    BY <2>1, <2>4 DEF CancelChannel, JoinChannel, CancelReader
  <2>5. CASE JoinReader
    BY <2>1, <2>5 DEF JoinReader
  <2> QED BY <1>5, <2>2, <2>3, <2>4, <2>5 DEF Supervise
<1>6. CASE Finishing
  <2>1. UNCHANGED <<rpc, running>>
    BY <1>6 DEF Finishing, readVars
  <2> QED BY <1>6, <2>1 DEF Finishing, EndPush, JoinPush, DeleteSessions
<1>7. CASE SignalQuit
  BY <1>1, <1>7 DEF SignalQuit, readVars
<1>8. CASE PushThreadStep
  <2>1. UNCHANGED pushList
    BY <1>8 DEF PushThreadStep, PushNext, PushTop, PushWoken, PushTimeout, PushGetSession,
                PushPerform, TakeNext
  <2> QED BY <1>1, <1>8, <2>1 DEF PushThreadStep, mainVars, readVars
<1>9. CASE UNCHANGED threadVars
  BY <1>1, <1>9 DEF threadVars, mainVars, readVars, pushVars
<1> QED BY <1>2, <1>3, <1>4, <1>5, <1>6, <1>7, <1>8, <1>9 DEF ThreadsNext, Main

(* MeterMap::cancel joins every reading thread that was started, so that   *)
(* main() deletes pushDataList when none is left to add to it.             *)
THEOREM ListOutlivesReaders == ThreadsSpec => []NoUseAfterDelete
<1>1. ThreadsInit /\ [][ThreadsNext]_threadVars => []JoinInv
  BY JoinInit, JoinInductive, PTL
<1>2. JoinInv => NoUseAfterDelete
  BY DEF JoinInv, NoUseAfterDelete
<1> QED BY <1>1, <1>2, PTL DEF ThreadsSpec

-----------------------------------------------------------------------------
(* The types. *)

(* A thread is at a channel of its meter when it publishes, and at a       *)
(* server of the list when it pushes.                                      *)
Publishing == {"aggregate", "clean1", "have", "clean2", "notify"}

LEMMA ConfigType ==
    ASSUME conf \in Configs
    PROVE  /\ \A m \in Meters : ChannelsOf[m] \in Seq(Channels) /\ ChannelSet(m) \subseteq Channels
           /\ MeterOrder \in Seq(Meters) /\ Len(MeterOrder) \in Nat
           /\ mi \in 1 .. Len(MeterOrder) => Meter \in Meters
           /\ conf.servers \in Seq(Keys)
<1>1. conf \in Config
  BY ThreadsAssumption
<1>2. /\ \A m \in Meters : ChannelsOf[m] \in Seq(Channels)
      /\ MeterOrder \in Seq(Meters) /\ conf.servers \in Seq(Keys)
  BY <1>1 DEF Config, ChannelsOf, MeterOrder
<1>3. ASSUME NEW m \in Meters
      PROVE  ChannelSet(m) \subseteq Channels
  BY <1>2 DEF ChannelSet
<1> QED BY <1>2, <1>3 DEF Meter

(* The variables of one kind of thread that another leaves alone keep      *)
(* their types.                                                            *)
MainType ==
    /\ conf \in Configs /\ servers = conf.servers
    /\ mpc \in MainPlaces /\ mi \in Nat /\ mi >= 1 /\ ki \in Nat /\ ki >= 1
    /\ endFlag \in BOOLEAN /\ cancelledThreads \in BOOLEAN
    /\ running \in [Meters -> BOOLEAN]
    /\ cancelled \in SUBSET (Meters \cup Channels)

ReadType ==
    /\ rpc \in [Meters -> ReadPlaces]
    /\ rk \in [Meters -> Nat]
    /\ \A m \in Meters : rk[m] = 1 \/ rk[m] \in DOMAIN ChannelsOf[m]
    /\ fresh \in [Meters -> SUBSET Channels]
    /\ \A m \in Meters : fresh[m] \subseteq ChannelSet(m)
    /\ \A m \in Meters : rpc[m] \in Publishing => rk[m] \in DOMAIN ChannelsOf[m]

LogType ==
    /\ lpc \in [Channels -> LogPlaces]
    /\ lock \in [Channels -> Channels \cup {NoThread}]
    /\ newValues \in [Channels -> BOOLEAN]

PushType ==
    /\ pushList \in {"none", "made", "deleted"} /\ next \in SUBSET Channels /\ endThread \in BOOLEAN
    /\ ppc \in {"top", "timed", "send", "perform", "ended"} /\ dataMap \in SUBSET Channels
    /\ si \in Nat /\ (ppc \in {"send", "perform"} => si \in DOMAIN servers)

SessionType ==
    /\ holder \in [Keys -> Channels \cup {PushThread, NoThread}] /\ inUse \in SUBSET Keys

ThreadsType == MainType /\ ReadType /\ LogType /\ BufType /\ PushType /\ SessionType

LEMMA TypesAreOK == ThreadsType => TypeOK
  BY DEF ThreadsType, TypeOK, MainType, ReadType, LogType, BufType, PushType, SessionType

LEMMA TypeInit == ThreadsInit => ThreadsType
<1> SUFFICES ASSUME ThreadsInit
             PROVE  ThreadsType
  OBVIOUS
<1>1. MainType
  <2>1. /\ conf \in Configs /\ servers = conf.servers /\ mpc = "start" /\ mi = 1 /\ ki = 1
        /\ endFlag = FALSE /\ cancelledThreads = FALSE
        /\ running = [m \in Meters |-> FALSE] /\ cancelled = {}
    BY DEF ThreadsInit, NoThreads
  <2>2. running \in [Meters -> BOOLEAN]
    BY <2>1
  <2>3. mpc \in MainPlaces /\ mi \in Nat /\ mi >= 1 /\ ki \in Nat /\ ki >= 1
    BY <2>1 DEF MainPlaces
  <2>4. endFlag \in BOOLEAN /\ cancelledThreads \in BOOLEAN /\ cancelled \in SUBSET (Meters \cup Channels)
    BY <2>1
  <2> QED BY <2>1, <2>2, <2>3, <2>4 DEF MainType
<1>2. ReadType
  BY DEF ThreadsInit, NoThreads, ReadType, ReadPlaces, Publishing
<1>3. LogType
  BY DEF ThreadsInit, NoThreads, LogType, LogPlaces
<1>4. BufType
  BY BufInit DEF BufInv
<1>5. PushType /\ SessionType
  BY DEF ThreadsInit, NoThreads, PushInit, SessionsInit, PushType, SessionType
<1> QED BY <1>1, <1>2, <1>3, <1>4, <1>5 DEF ThreadsType

(* The reading thread pushes for a channel of its meter.                   *)
LEMMA FirstFreshIs ==
    ASSUME NEW m \in Meters, ChannelsOf[m] \in Seq(Channels),
           fresh[m] # {}, fresh[m] \subseteq ChannelSet(m)
    PROVE  FirstFresh(m) \in fresh[m]
<1> DEFINE S == {i \in DOMAIN ChannelsOf[m] : ChannelsOf[m][i] \in fresh[m]}
           Is(i) == ChannelsOf[m][i] \in fresh[m] /\ \A j \in 1 .. i - 1 : ChannelsOf[m][j] \notin fresh[m]
<1>1. S # {} /\ S \in SUBSET Nat
  BY DEF ChannelSet
<1>2. PICK i \in S : \A k \in S : i <= k
  <2> HIDE DEF S
  <2> QED BY <1>1, LeastMember
<1>3. i \in DOMAIN ChannelsOf[m] /\ Is(i)
  <2>1. \A j \in 1 .. i - 1 : j \in DOMAIN ChannelsOf[m] /\ ~ (i <= j)
    BY <1>2
  <2> QED BY <1>2, <2>1
<1>4. Is(CHOOSE j \in DOMAIN ChannelsOf[m] : Is(j))
  <2> HIDE DEF Is
  <2> QED BY <1>3
<1> QED BY <1>4 DEF FirstFresh

LEMMA ReadingTypes ==
    ASSUME ThreadsType, NEW m \in Meters, ReadingThread(m), BufType'
    PROVE  ThreadsType'
<1>0. MainType /\ ReadType /\ LogType /\ PushType /\ SessionType
  BY DEF ThreadsType
<1>1. /\ UNCHANGED <<conf, servers, mpc, mi, ki, endFlag, cancelledThreads, running, cancelled>>
      /\ UNCHANGED <<holder, inUse, pushList, endThread, ppc, dataMap, si>>
  BY DEF ReadingThread, config, mainVars, sessionVars
<1>2. MainType' /\ SessionType' /\ (next' \in SUBSET Channels => PushType')
  BY <1>0, <1>1 DEF MainType, SessionType, PushType
<1>3. /\ ChannelsOf[m] \in Seq(Channels) /\ ChannelSet(m) \subseteq Channels
      /\ ChannelsOf' = ChannelsOf /\ \A k \in Meters : ChannelSet(k)' = ChannelSet(k)
  BY <1>0, <1>1, ConfigType DEF MainType, ChannelsOf, ChannelSet
<1>4. next' \in SUBSET Channels
  <2>1. CASE Push(m)
    <3>1. FirstFresh(m) \in Channels
      BY <1>0, <1>3, <2>1, FirstFreshIs DEF Push, ReadType
    <3> QED BY <1>0, <2>1, <3>1 DEF Push, Add, PushType
  <2>2. CASE ~Push(m)
    <3>1. next' = next
      BY <2>2 DEF ReadingThread, ReadTop, ReadMeter, ReadThrows, NextRead, AggregateBuffer,
                  CleanBuffer, HaveNewValues, Notify
    <3> QED BY <1>0, <3>1 DEF PushType
  <2> QED BY <2>1, <2>2
<1>5. LogType'
  <2>1. lock' = lock
    BY DEF ReadingThread, ReadTop, ReadMeter, ReadThrows, Push, NextRead, AggregateBuffer,
           CleanBuffer, HaveNewValues, Notify, bufVars
  <2>2. newValues' = newValues \/ newValues' = [newValues EXCEPT ![Chan(m)] = TRUE]
    BY DEF ReadingThread, ReadTop, ReadMeter, ReadThrows, Push, NextRead, AggregateBuffer,
           CleanBuffer, HaveNewValues, Notify, bufVars
  <2>3. lpc' = lpc \/ lpc' = [lpc EXCEPT ![Chan(m)] = IF @ = "waiting" THEN "wait" ELSE @]
    BY DEF ReadingThread, Notify
  <2>4. newValues' \in [Channels -> BOOLEAN]
    BY <1>0, <2>2 DEF LogType
  <2>5. lpc' \in [Channels -> LogPlaces]
    BY <1>0, <2>3 DEF LogType, LogPlaces
  <2> QED BY <1>0, <2>1, <2>4, <2>5 DEF LogType
<1>6. ReadType'
  <2> USE <1>0, <1>3 DEF ReadType
  <2>1. CASE ReadTop(m) \/ ReadThrows(m)
    BY <2>1 DEF ReadTop, ReadThrows, At, ReadPlaces, Publishing
  <2>2. CASE ReadMeter(m)
    <3>1. /\ rpc' = [rpc EXCEPT ![m] = "push"] /\ rk' = rk
          /\ \E new \in SUBSET ChannelSet(m) : fresh' = [fresh EXCEPT ![m] = new]
      BY <2>2 DEF ReadMeter, At
    <3> QED BY <3>1 DEF ReadPlaces, Publishing
  <2>3. CASE Push(m)
    <3>1. UNCHANGED <<rpc, rk>> /\ \E c : fresh' = [fresh EXCEPT ![m] = @ \ {c}]
      BY <2>3 DEF Push
    <3> QED BY <3>1
  <2>4. CASE NextRead(m)
    <3>1. /\ UNCHANGED <<rk, fresh>>
          /\ \/ rpc' = [rpc EXCEPT ![m] = "top"]
             \/ rpc' = [rpc EXCEPT ![m] = "aggregate"] /\ ChannelsOf[m] # <<>>
      BY <2>4 DEF NextRead, At
    <3>2. ChannelsOf[m] # <<>> => rk[m] \in DOMAIN ChannelsOf[m]
      OBVIOUS
    <3> QED BY <3>1, <3>2 DEF ReadPlaces, Publishing
  <2>5. CASE AggregateBuffer(m) \/ CleanBuffer(m) \/ HaveNewValues(m)
    <3>1. /\ UNCHANGED <<rk, fresh>> /\ rpc[m] \in Publishing
          /\ \E to \in Publishing : rpc' = [rpc EXCEPT ![m] = to]
      BY <2>5 DEF AggregateBuffer, CleanBuffer, HaveNewValues, At, Publishing
    <3> QED BY <3>1 DEF ReadPlaces, Publishing
  <2>6. CASE Notify(m)
    <3>1. rk[m] \in DOMAIN ChannelsOf[m] /\ fresh' = fresh
      BY <2>6 DEF Notify, At, Publishing
    <3>2. \/ rpc' = [rpc EXCEPT ![m] = "top"] /\ rk' = [rk EXCEPT ![m] = 1]
          \/ /\ rpc' = [rpc EXCEPT ![m] = "aggregate"] /\ rk' = [rk EXCEPT ![m] = @ + 1]
             /\ rk[m] # Len(ChannelsOf[m])
      BY <2>6 DEF Notify, At
    <3>3. PICK to \in {"top", "aggregate"}, n \in Nat :
            /\ rpc' = [rpc EXCEPT ![m] = to] /\ rk' = [rk EXCEPT ![m] = n]
            /\ n = 1 \/ n \in DOMAIN ChannelsOf[m]
            /\ to = "aggregate" => n \in DOMAIN ChannelsOf[m]
      <4>1. rk[m] # Len(ChannelsOf[m]) => rk[m] + 1 \in DOMAIN ChannelsOf[m]
        BY <3>1
      <4>2. rk[m] + 1 \in Nat
        OBVIOUS
      <4> QED BY <3>2, <4>1, <4>2
    <3> QED BY <3>1, <3>3 DEF ReadPlaces, Publishing
  <2>7. \/ ReadTop(m) \/ ReadThrows(m) \/ ReadMeter(m) \/ Push(m) \/ NextRead(m)
        \/ AggregateBuffer(m) \/ CleanBuffer(m) \/ HaveNewValues(m) \/ Notify(m)
    BY DEF ReadingThread
  <2> HIDE <1>0, <1>3 DEF ReadType
  <2> QED BY <2>1, <2>2, <2>3, <2>4, <2>5, <2>6, <2>7
<1> QED BY <1>2, <1>4, <1>5, <1>6 DEF ThreadsType

LEMMA LoggingTypes ==
    ASSUME ThreadsType, NEW c \in Channels, LoggingThread(c), BufType'
    PROVE  ThreadsType'
<1>0. MainType /\ ReadType /\ LogType /\ PushType /\ SessionType
  BY DEF ThreadsType
<1>1. /\ UNCHANGED <<conf, servers, mpc, mi, ki, endFlag, cancelledThreads, running, cancelled>>
      /\ UNCHANGED <<rpc, rk, fresh, pushList, next, endThread, ppc, dataMap, si>>
  BY DEF LoggingThread, config, mainVars, readVars, pushVars
<1>2. MainType' /\ ReadType' /\ PushType'
  BY <1>0, <1>1 DEF MainType, ReadType, PushType, ChannelsOf, ChannelSet
<1>3. \E to \in LogPlaces : lpc' = [lpc EXCEPT ![c] = to]
  BY DEF LoggingThread, LookForValues, ClearNewValues, DieWaiting, TakeValues, ObtainSession,
         DieSending, Perform, From, LogPlaces
<1>4. lock' = lock \/ \E t \in {NoThread, c} : lock' = [lock EXCEPT ![c] = t]
  BY DEF LoggingThread, LookForValues, ClearNewValues, DieWaiting, TakeValues, ObtainSession,
         DieSending, Perform, bufVars
<1>5. newValues' = newValues \/ newValues' = [newValues EXCEPT ![c] = FALSE]
  BY DEF LoggingThread, LookForValues, ClearNewValues, DieWaiting, TakeValues, ObtainSession,
         DieSending, Perform, bufVars
<1>6. LogType'
  <2>1. newValues' \in [Channels -> BOOLEAN]
    BY <1>0, <1>5 DEF LogType
  <2>2. lpc' \in [Channels -> LogPlaces]
    BY <1>0, <1>3 DEF LogType
  <2>3. lock' \in [Channels -> Channels \cup {NoThread}]
    BY <1>0, <1>4 DEF LogType
  <2> QED BY <2>1, <2>2, <2>3 DEF LogType
<1>7. SessionType'
  <2>1. Key[c] \in Keys
    BY ThreadsAssumption
  <2>2. UNCHANGED sessionVars \/ GetSession(c, Key[c]) \/ ReturnSession(Key[c])
    BY DEF LoggingThread, LookForValues, ClearNewValues, DieWaiting, TakeValues, ObtainSession,
           DieSending, Perform, bufVars
  <2> QED BY <1>0, <2>1, <2>2 DEF SessionType, sessionVars, GetSession, ReturnSession
<1> QED BY <1>2, <1>6, <1>7 DEF ThreadsType

LEMMA PushThreadTypes ==
    ASSUME ThreadsType, PushThreadStep, BufType'
    PROVE  ThreadsType'
<1>0. MainType /\ ReadType /\ LogType /\ PushType /\ SessionType
  BY DEF ThreadsType
<1>1. /\ UNCHANGED <<conf, servers, mpc, mi, ki, endFlag, cancelledThreads, running, cancelled>>
      /\ UNCHANGED <<rpc, rk, fresh, lpc, lock, newValues>>
      /\ servers # <<>> /\ PushNext
  BY DEF PushThreadStep, config, mainVars, readVars, bufVars
<1>2. MainType' /\ ReadType' /\ LogType'
  BY <1>0, <1>1 DEF MainType, ReadType, LogType, ChannelsOf, ChannelSet
<1>3. servers \in Seq(Keys) /\ 1 \in DOMAIN servers
  BY <1>0, <1>1, ConfigType DEF MainType
<1>4. PushType'
  <2> USE <1>0, <1>1, <1>3 DEF PushType
  <2>1. CASE PushTop \/ PushWoken
    BY <2>1 DEF PushTop, PushWoken, TakeNext
  <2>2. CASE PushTimeout \/ PushGetSession
    BY <2>2 DEF PushTimeout, PushGetSession
  <2>3. CASE PushPerform
    BY <2>3 DEF PushPerform
  <2> QED BY <2>1, <2>2, <2>3 DEF PushNext
<1>5. SessionType'
  <2>1. ppc \in {"send", "perform"} => servers[si] \in Keys
    BY <1>0, <1>3 DEF PushType
  <2>2. UNCHANGED sessionVars \/ (ppc = "send" /\ GetSession(PushThread, servers[si]))
        \/ (ppc = "perform" /\ ReturnSession(servers[si]))
    BY <1>1 DEF PushNext, PushGetSession, PushPerform
  <2> QED BY <1>0, <2>1, <2>2 DEF SessionType, sessionVars, GetSession, ReturnSession
<1> QED BY <1>2, <1>4, <1>5 DEF ThreadsType

LEMMA MainTypes ==
    ASSUME ThreadsType, Main \/ SignalQuit, BufType'
    PROVE  ThreadsType'
<1>0. MainType /\ ReadType /\ LogType /\ PushType /\ SessionType
  BY DEF ThreadsType
<1>1. /\ UNCHANGED <<conf, servers, rk, fresh, lock, newValues, next, ppc, dataMap, si, holder, inUse>>
      /\ ChannelsOf' = ChannelsOf /\ \A m \in Meters : ChannelSet(m)' = ChannelSet(m)
  <2>1. UNCHANGED <<conf, servers, rk, fresh, lock, newValues, next, ppc, dataMap, si, holder, inUse>>
    BY DEF Main, Starting, Supervise, Finishing, SignalQuit, config, readVars, bufVars, pushVars, sessionVars
  <2> QED BY <2>1 DEF ChannelsOf, ChannelSet
<1>2. /\ MeterOrder \in Seq(Meters) /\ Len(MeterOrder) \in Nat
      /\ mi \in 1 .. Len(MeterOrder) => Meter \in Meters /\ ChannelsOf[Meter] \in Seq(Channels)
  BY <1>0, ConfigType DEF MainType
<1>3. SessionType'
  BY <1>0, <1>1 DEF SessionType
<1>4. CASE Starting
  <2>1. /\ UNCHANGED <<ki, endFlag, cancelledThreads, cancelled, pushList, endThread>>
        /\ mi' \in {1, mi, mi + 1} /\ mpc' \in {"start", "loop", "exited"}
    BY <1>4 DEF Starting, StartMeter, OpenFails, Started, pushVars
  <2>2. running' = running \/ running' = [running EXCEPT ![Meter] = TRUE]
    BY <1>4 DEF Starting, StartMeter, OpenFails, Started
  <2>3. rpc' = rpc \/ rpc' = [rpc EXCEPT ![Meter] = "top"]
    BY <1>4 DEF Starting, StartMeter, OpenFails, Started
  <2>4. lpc' = lpc \/ lpc' = [c \in Channels |-> IF c \in ChannelSet(Meter) THEN "wait" ELSE lpc[c]]
    BY <1>4 DEF Starting, StartMeter, OpenFails, Started
  <2>5. running' \in [Meters -> BOOLEAN]
    BY <1>0, <2>2 DEF MainType
  <2>6. MainType'
    BY <1>0, <1>1, <2>1, <2>5 DEF MainType, MainPlaces
  <2>7. ReadType'
    BY <1>0, <1>1, <2>3 DEF ReadType, ReadPlaces, Publishing
  <2>8. LogType'
    BY <1>0, <1>1, <2>4 DEF LogType, LogPlaces
  <2>9. PushType'
    BY <1>0, <1>1, <2>1 DEF PushType
  <2> QED BY <1>3, <2>6, <2>7, <2>8, <2>9 DEF ThreadsType
<1>5. CASE Supervise
  <2>1. UNCHANGED <<rpc, lpc, pushList, endThread>>
    BY <1>5 DEF Supervise, readVars, pushVars
  <2>2. ReadType' /\ LogType' /\ PushType'
    BY <1>0, <1>1, <2>1 DEF ReadType, LogType, PushType
  <2>3. /\ mi' \in {1, mi, mi + 1} /\ ki' \in {1, ki, ki + 1} /\ mpc' \in MainPlaces
        /\ endFlag' = endFlag /\ cancelledThreads' \in {TRUE, cancelledThreads}
        /\ running' = running \/ running' = [running EXCEPT ![Meter] = FALSE]
    BY <1>0, <1>5 DEF MainType, MainPlaces, Supervise, MainLoop, NextMeter, CancelChannel, JoinChannel,
                      CancelReader, JoinReader
  <2>4. cancelled' \in SUBSET (Meters \cup Channels)
    <3>1. CASE CancelChannel
      <4>1. mi \in 1 .. Len(MeterOrder) /\ ki \in 1 .. Len(ChannelsOf[Meter])
        BY <1>0, <1>2, <3>1 DEF CancelChannel, MainType
      <4>2. ChannelsOf[Meter][ki] \in Channels
        BY <1>2, <4>1
      <4> QED BY <1>0, <3>1, <4>2 DEF CancelChannel, MainType
    <3>2. CASE CancelReader
      <4>1. mi \in 1 .. Len(MeterOrder)
        BY <1>0, <1>2, <3>2 DEF CancelReader, MainType
      <4> QED BY <1>0, <1>2, <3>2, <4>1 DEF CancelReader, MainType
    <3>3. CASE MainLoop \/ NextMeter \/ JoinChannel \/ JoinReader
      BY <1>0, <3>3 DEF MainLoop, NextMeter, JoinChannel, JoinReader, MainType
    <3> QED BY <1>5, <3>1, <3>2, <3>3 DEF Supervise
  <2>5. running' \in [Meters -> BOOLEAN]
    BY <1>0, <2>3 DEF MainType
  <2>6. MainType'
    <3>1. cancelledThreads' \in BOOLEAN /\ endFlag' \in BOOLEAN
      BY <1>0, <2>3 DEF MainType
    <3>2. mi' \in Nat /\ mi' >= 1 /\ ki' \in Nat /\ ki' >= 1
      BY <1>0, <2>3 DEF MainType
    <3> QED BY <1>0, <1>1, <2>3, <2>4, <2>5, <3>1, <3>2 DEF MainType
  <2> QED BY <1>3, <2>2, <2>6 DEF ThreadsType
<1>6. CASE Finishing \/ SignalQuit
  <2>1. /\ UNCHANGED <<mi, ki, cancelledThreads, running, cancelled, rpc, lpc>>
        /\ endFlag' \in {TRUE, endFlag} /\ endThread' \in {TRUE, endThread}
        /\ pushList' \in {"deleted", pushList} /\ mpc' \in {mpc, "sessions", "joinPush", "done"}
    BY <1>6 DEF Finishing, EndPush, JoinPush, DeleteSessions, SignalQuit, readVars
  <2>2. MainType'
    <3>1. mpc' \in MainPlaces
      BY <1>0, <2>1 DEF MainType, MainPlaces
    <3>2. endFlag' \in BOOLEAN
      BY <1>0, <2>1 DEF MainType
    <3> QED BY <1>0, <1>1, <2>1, <3>1, <3>2 DEF MainType
  <2>3. ReadType' /\ LogType' /\ PushType'
    BY <1>0, <1>1, <2>1 DEF ReadType, LogType, PushType
  <2> QED BY <1>3, <2>2, <2>3 DEF ThreadsType
<1> QED BY <1>4, <1>5, <1>6 DEF Main

LEMMA TypeInductive ==
    ASSUME ThreadsType, [ThreadsNext]_threadVars, BufInv'
    PROVE  ThreadsType'
<1>1. BufType'
  BY DEF BufInv
<1>2. CASE UNCHANGED threadVars
  <2>1. /\ UNCHANGED <<conf, servers, mpc, mi, ki, endFlag, cancelledThreads, running, cancelled>>
        /\ UNCHANGED <<rpc, rk, fresh, lpc, lock, newValues>>
        /\ UNCHANGED <<pushList, next, endThread, ppc, dataMap, si, holder, inUse>>
    BY <1>2 DEF threadVars, config, mainVars, readVars, bufVars, pushVars, sessionVars
  <2>2. MainType' /\ ReadType' /\ LogType' /\ PushType' /\ SessionType'
    BY <2>1 DEF ThreadsType, MainType, ReadType, LogType, PushType, SessionType, ChannelsOf, ChannelSet
  <2> QED BY <1>1, <2>2 DEF ThreadsType
<1> QED BY <1>1, <1>2, ReadingTypes, LoggingTypes, PushThreadTypes, MainTypes DEF ThreadsNext

(* Whatever the main program (vzlogger.cpp, MeterMap, MapContainer), the   *)
(* reading and logging threads (threads.cpp) and the push thread do, every *)
(* variable has its type; above all, the main program never names a meter  *)
(* or a channel that does not exist, and the push thread no server.        *)
THEOREM ThreadsTypeCorrect == ThreadsSpec => []TypeOK
<1>1. ThreadsInit /\ [][ThreadsNext]_threadVars /\ []BufInv => []ThreadsType
  BY TypeInit, TypeInductive, PTL
<1> QED BY <1>1, BufAlways, TypesAreOK, PTL DEF ThreadsSpec

=============================================================================
