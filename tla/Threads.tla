------------------------------- MODULE Threads -------------------------------
(***************************************************************************)
(* The daemon on Linux: the main program, one reading thread per meter,    *)
(* one logging thread per channel and the push thread (PushData), with the *)
(* buffer of each channel, its mutex, its flag _newValues and its          *)
(* condition variable.  A section under a mutex is one step, unless a      *)
(* thread that writes without the mutex could see inside.  A reading is    *)
(* its number in its channel; an entry of a buffer stands for a set of     *)
(* readings, one before aggregation.  A channel names its logging thread,  *)
(* a meter its reading thread.                                             *)
(***************************************************************************)
EXTENDS PushData, FiniteSets

CONSTANTS
    Meters,
    Channels,
    Configs,        \* the configurations to consider
    Aggregated,     \* channels with an aggmode
    Key,            \* the URL of the middleware of each channel
    Skip            \* meters with "allowskip"

(* channels: those of each meter; order: that of the meters; servers: the  *)
(* push middlewares; maxPush bounds the readings of each channel.          *)
Config == [channels : [Meters -> Seq(Channels)], order : Seq(Meters),
           servers : Seq(Keys), maxPush : [Channels -> Nat]]

ASSUME ThreadsAssumption ==
    /\ NoThread \notin Channels \cup {PushThread}
    /\ Configs \subseteq Config
    /\ Key \in [Channels -> Keys]

VARIABLES
    conf,               \* the configuration
    mpc, mi, ki,        \* the main program, its meter and channel
    endFlag,            \* mainLoopEndThreads
    cancelledThreads,
    running,            \* _thread_running of each meter
    cancelled,          \* threads pthread_cancel was called for
    rpc, rk,            \* the reading thread of each meter and its channel
    fresh,              \* channels its last readings are for
    lpc,                \* the logging thread of each channel
    lock,               \* owner of the mutex of the buffer, between steps
    newValues,          \* _newValues
    buf,                \* _sent
    count,              \* history: readings pushed
    taken,              \* history: readings the API has taken
    again               \* history: readings it has taken twice

config == <<conf, servers>>
mainVars == <<mpc, mi, ki, endFlag, cancelledThreads, running>>
readVars == <<rpc, rk, fresh>>
bufVars == <<lock, newValues, buf, count, taken, again>>
threadVars == <<config, mainVars, cancelled, readVars, lpc, bufVars, pushVars, sessionVars>>

(* No thread but the main program exists.                                  *)
NoThreads ==
    /\ conf \in Configs
    /\ mi = 1 /\ ki = 1
    /\ endFlag = FALSE /\ cancelledThreads = FALSE
    /\ running = [m \in Meters |-> FALSE]
    /\ cancelled = {}
    /\ rpc = [m \in Meters |-> "off"]
    /\ rk = [m \in Meters |-> 1]
    /\ fresh = [m \in Meters |-> {}]
    /\ lpc = [c \in Channels |-> "off"]
    /\ lock = [c \in Channels |-> NoThread]
    /\ newValues = [c \in Channels |-> FALSE]
    /\ buf = [c \in Channels |-> {}]
    /\ count = [c \in Channels |-> 0]
    /\ taken = [c \in Channels |-> {}]
    /\ again = [c \in Channels |-> {}]
    /\ servers = conf.servers
    /\ PushInit /\ SessionsInit

ThreadsInit == mpc = "start" /\ NoThreads

ChannelsOf == conf.channels

MeterOrder == conf.order

ChannelSet(m) == {ChannelsOf[m][i] : i \in DOMAIN ChannelsOf[m]}

(* The process has not ended. *)
Alive == mpc \notin {"exited", "done"}

-----------------------------------------------------------------------------
(* The reading thread. *)

Chan(m) == ChannelsOf[m][rk[m]]

(* The step of meter m is from one place to another. *)
At(m, from, to) == rpc[m] = from /\ rpc' = [rpc EXCEPT ![m] = to]

(* A safe point: the only place where the thread can be cancelled.         *)
ReadTop(m) ==
    /\ At(m, "top", IF m \in cancelled THEN "dead" ELSE "reading")
    /\ UNCHANGED <<rk, fresh, bufVars, next>>

(* Meter::read returns readings for some channels, or none ...             *)
ReadMeter(m) ==
    /\ At(m, "reading", "push")
    /\ \E new \in SUBSET {c \in ChannelSet(m) : count[c] < conf.maxPush[c]} :
          fresh' = [fresh EXCEPT ![m] = new]
    /\ UNCHANGED <<rk, bufVars, next>>

(* ... or throws, which ends the thread, or it is cancelled in a section   *)
(* that is CANCELLABLE.                                                    *)
ReadThrows(m) ==
    /\ At(m, "reading", "dead")
    /\ UNCHANGED <<rk, fresh, bufVars, next>>

(* The first of the channels that its readings are for.                    *)
FirstFresh(m) == ChannelsOf[m][CHOOSE i \in DOMAIN ChannelsOf[m] :
    /\ ChannelsOf[m][i] \in fresh[m]
    /\ \A j \in 1..i - 1 : ChannelsOf[m][j] \notin fresh[m]]

Push(m) ==
    /\ rpc[m] = "push" /\ fresh[m] # {}
    /\ LET c == FirstFresh(m)
       IN  /\ lock[c] = NoThread
           /\ buf' = [buf EXCEPT ![c] = @ \cup {[ids |-> {count[c] + 1}, deleted |-> FALSE]}]
           /\ count' = [count EXCEPT ![c] = @ + 1]
           /\ fresh' = [fresh EXCEPT ![m] = @ \ {c}]
           /\ IF pushList = "made" THEN Add(c) ELSE UNCHANGED next
    /\ UNCHANGED <<rpc, rk, lock, newValues, taken, again>>

(* The aggregation time goes on, or it is over.                            *)
NextRead(m) ==
    /\ fresh[m] = {}
    /\ At(m, "push", "top") \/ (ChannelsOf[m] # <<>> /\ At(m, "push", "aggregate"))
    /\ UNCHANGED <<rk, fresh, bufVars, next>>

Live(b) == {e \in b : ~e.deleted}

(* The entries that are not deleted make one, which replaces the latest;   *)
(* the others are marked.  Which one is latest does not matter here.       *)
Aggregate(b) ==
    IF Live(b) = {} THEN b
    ELSE LET latest == CHOOSE e \in Live(b) : TRUE
         IN  {[ids |-> UNION {e.ids : e \in Live(b)}, deleted |-> FALSE]}
             \cup {[ids |-> e.ids, deleted |-> TRUE] : e \in b \ {latest}}

AggregateBuffer(m) ==
    LET c == Chan(m)
    IN  /\ IF c \in Aggregated
           THEN /\ lock[c] = NoThread
                /\ At(m, "aggregate", "clean1")
                /\ buf' = [buf EXCEPT ![c] = Aggregate(@)]
           ELSE At(m, "aggregate", "have") /\ UNCHANGED buf
        /\ UNCHANGED <<rk, fresh, lock, newValues, count, taken, again, next>>

(* Mutant: clean() removes the entries that are not deleted as well. *)
CleanBufferMutant(m) ==
    /\ lock[Chan(m)] = NoThread
    /\ At(m, "clean1", "have") \/ At(m, "clean2", "notify")
    /\ buf' = [buf EXCEPT ![Chan(m)] = {}]
    /\ UNCHANGED <<rk, fresh, lock, newValues, count, taken, again, next>>

CleanBuffer(m) ==
    /\ lock[Chan(m)] = NoThread
    /\ At(m, "clean1", "have") \/ At(m, "clean2", "notify")
    /\ buf' = [buf EXCEPT ![Chan(m)] = Live(@)]
    /\ UNCHANGED <<rk, fresh, lock, newValues, count, taken, again, next>>

(* have_newValues, without the mutex. *)
HaveNewValues(m) ==
    /\ At(m, "have", "clean2")
    /\ newValues' = [newValues EXCEPT ![Chan(m)] = TRUE]
    /\ UNCHANGED <<rk, fresh, lock, buf, count, taken, again, next>>

(* Mutant: the index of the channel is not reset after the last. *)
NotifyMutant(m) ==
    LET c == Chan(m)
        last == rk[m] = Len(ChannelsOf[m])
    IN  /\ lock[c] = NoThread
        /\ At(m, "notify", IF last THEN "top" ELSE "aggregate")
        /\ rk' = [rk EXCEPT ![m] = @ + 1]
        /\ lpc' = [lpc EXCEPT ![c] = IF @ = "waiting" THEN "wait" ELSE @]
        /\ UNCHANGED <<fresh, bufVars, next>>

(* Channel::notify wakes the logging thread.                               *)
Notify(m) ==
    LET c == Chan(m)
        last == rk[m] = Len(ChannelsOf[m])
    IN  /\ lock[c] = NoThread
        /\ At(m, "notify", IF last THEN "top" ELSE "aggregate")
        /\ rk' = [rk EXCEPT ![m] = IF last THEN 1 ELSE @ + 1]
        /\ lpc' = [lpc EXCEPT ![c] = IF @ = "waiting" THEN "wait" ELSE @]
        /\ UNCHANGED <<fresh, bufVars, next>>

ReadingThread(m) ==
    /\ Alive
    /\ \/ /\ \/ ReadTop(m) \/ ReadMeter(m) \/ ReadThrows(m) \/ Push(m) \/ NextRead(m)
             \/ AggregateBuffer(m) \/ CleanBuffer(m) \/ HaveNewValues(m)
          /\ UNCHANGED lpc
       \/ Notify(m)
    /\ UNCHANGED <<config, mainVars, cancelled, sessionVars, pushList, endThread, ppc, dataMap, si>>

-----------------------------------------------------------------------------
(* The logging thread. *)

From(c, from, to) == lpc[c] = from /\ lpc' = [lpc EXCEPT ![c] = to]

(* Channel::wait: the flag is looked at under the mutex; a thread that is  *)
(* cancelled ends where it would begin to wait, and keeps the mutex ...    *)
LookForValues(c) ==
    /\ lpc[c] = "wait" /\ lock[c] = NoThread
    /\ lpc' = [lpc EXCEPT ![c] = IF newValues[c] THEN "clear"
                                 ELSE IF c \in cancelled THEN "dead" ELSE "waiting"]
    /\ lock' = [lock EXCEPT ![c] = IF lpc'[c] = "waiting" THEN NoThread ELSE c]
    /\ UNCHANGED <<newValues, buf, count, taken, again, sessionVars>>

(* ... and cleared; HaveNewValues may come between.                        *)
ClearNewValues(c) ==
    /\ From(c, "clear", "send")
    /\ newValues' = [newValues EXCEPT ![c] = FALSE]
    /\ lock' = [lock EXCEPT ![c] = NoThread]
    /\ UNCHANGED <<buf, count, taken, again, sessionVars>>

(* ... or when it is waiting: it locks the mutex before it ends.           *)
DieWaiting(c) ==
    /\ c \in cancelled /\ lock[c] = NoThread
    /\ From(c, "waiting", "dead")
    /\ lock' = [lock EXCEPT ![c] = c]
    /\ UNCHANGED <<newValues, buf, count, taken, again, sessionVars>>

Ids(b) == UNION {e.ids : e \in b}

Twice(b) == {i \in Ids(b) : \E e, f \in b : e # f /\ i \in e.ids \cap f.ids}

(* Mutant: the entries that were taken are neither marked nor cleaned. *)
TakeValuesMutant(c) ==
    /\ lock[c] = NoThread
    /\ From(c, "send", IF buf[c] = {} THEN "wait" ELSE "session")
    /\ taken' = [taken EXCEPT ![c] = @ \cup Ids(buf[c])]
    /\ again' = [again EXCEPT ![c] = @ \cup Twice(buf[c]) \cup (Ids(buf[c]) \cap taken[c])]
    /\ UNCHANGED <<lock, newValues, buf, count, sessionVars>>

(* Volkszaehler::send, without its filter for timestamps.  It takes the    *)
(* marked entries too, marks all, and cleans in a second section, before   *)
(* which nobody minds the marked ones: one step here.                      *)
TakeValues(c) ==
    /\ lock[c] = NoThread
    /\ From(c, "send", IF buf[c] = {} THEN "wait" ELSE "session")
    /\ taken' = [taken EXCEPT ![c] = @ \cup Ids(buf[c])]
    /\ again' = [again EXCEPT ![c] = @ \cup Twice(buf[c]) \cup (Ids(buf[c]) \cap taken[c])]
    /\ buf' = [buf EXCEPT ![c] = {}]
    /\ UNCHANGED <<lock, newValues, count, sessionVars>>

ObtainSession(c) ==
    /\ From(c, "session", "perform")
    /\ GetSession(c, Key[c])
    /\ UNCHANGED bufVars

(* pthread_testcancel for every second of waiting for the session, or a    *)
(* cancellation inside curl_easy_perform, which keeps the session.         *)
DieSending(c) ==
    /\ c \in cancelled
    /\ From(c, "session", "dead") \/ From(c, "perform", "dead")
    /\ UNCHANGED <<bufVars, sessionVars>>

(* Mutant: the flag is cleared once more when the request is over. *)
PerformMutant(c) ==
    /\ From(c, "perform", "wait")
    /\ ReturnSession(Key[c])
    /\ newValues' = [newValues EXCEPT ![c] = FALSE]
    /\ UNCHANGED <<lock, buf, count, taken, again>>

(* The request returns, by its timeout at the latest.                      *)
Perform(c) ==
    /\ From(c, "perform", "wait")
    /\ ReturnSession(Key[c])
    /\ UNCHANGED bufVars

LoggingThread(c) ==
    /\ Alive
    /\ \/ LookForValues(c) \/ ClearNewValues(c) \/ DieWaiting(c)
       \/ TakeValues(c) \/ ObtainSession(c) \/ DieSending(c) \/ Perform(c)
    /\ UNCHANGED <<config, mainVars, cancelled, readVars, pushVars>>

-----------------------------------------------------------------------------
(* The main program. *)

Meter == MeterOrder[mi]

(* The signal handler for SIGINT, SIGTERM and SIGHUP.                      *)
SignalQuit ==
    /\ Alive /\ ~endFlag
    /\ endFlag' = TRUE /\ endThread' = TRUE
    /\ UNCHANGED <<config, mpc, mi, ki, cancelledThreads, running, cancelled, readVars, lpc, bufVars,
                   pushList, next, ppc, dataMap, si, sessionVars>>

(* MeterMap::start: the threads of the meter and its channels run ...      *)
StartMeter ==
    /\ mpc = "start" /\ mi <= Len(MeterOrder)
    /\ mi' = mi + 1
    /\ rpc' = [rpc EXCEPT ![Meter] = "top"]
    /\ lpc' = [c \in Channels |-> IF c \in ChannelSet(Meter) THEN "wait" ELSE lpc[c]]
    /\ running' = [running EXCEPT ![Meter] = TRUE]
    /\ UNCHANGED mpc

(* ... or the meter cannot be opened: it is skipped, or everything ends.   *)
OpenFails ==
    /\ mpc = "start" /\ mi <= Len(MeterOrder)
    /\ IF Meter \in Skip THEN mi' = mi + 1 /\ UNCHANGED mpc
       ELSE mpc' = "exited" /\ UNCHANGED mi
    /\ UNCHANGED <<rpc, lpc, running>>

(* It goes on with at least one functional meter.                          *)
Started ==
    /\ mpc = "start" /\ mi > Len(MeterOrder)
    /\ mpc' = IF \E m \in Meters : running[m] THEN "loop" ELSE "exited"
    /\ mi' = 1
    /\ UNCHANGED <<rpc, lpc, running>>

Starting ==
    /\ StartMeter \/ OpenFails \/ Started
    /\ UNCHANGED <<config, ki, endFlag, cancelledThreads, cancelled, rk, fresh, bufVars, pushVars, sessionVars>>

(* Once a second: nothing runs any more, or the meters must be cancelled.  *)
MainLoop ==
    /\ mpc = "loop"
    /\ IF endFlag /\ ~cancelledThreads
       THEN mpc' = "cancel" /\ cancelledThreads' = TRUE
       ELSE /\ \A m \in Meters : ~running[m]
            /\ mpc' = "endPush" /\ UNCHANGED cancelledThreads
    /\ UNCHANGED <<mi, ki, endFlag, running, cancelled>>

(* MapContainer: the next meter that runs, and back to the main loop.      *)
NextMeter ==
    /\ mpc = "cancel" /\ (mi <= Len(MeterOrder) => ~running[Meter])
    /\ IF mi > Len(MeterOrder) THEN mpc' = "loop" /\ mi' = 1
       ELSE mi' = mi + 1 /\ UNCHANGED mpc
    /\ UNCHANGED <<ki, endFlag, cancelledThreads, running, cancelled>>

(* MeterMap::cancel: every logging thread is cancelled and joined ...      *)
CancelChannel ==
    /\ mpc = "cancel" /\ mi <= Len(MeterOrder) /\ running[Meter] /\ ki <= Len(ChannelsOf[Meter])
    /\ cancelled' = cancelled \cup {ChannelsOf[Meter][ki]}
    /\ mpc' = "joinChannel"
    /\ UNCHANGED <<mi, ki, endFlag, cancelledThreads, running>>

JoinChannel ==
    /\ mpc = "joinChannel" /\ lpc[ChannelsOf[Meter][ki]] = "dead"
    /\ mpc' = "cancel" /\ ki' = ki + 1
    /\ UNCHANGED <<mi, endFlag, cancelledThreads, running, cancelled>>

(* ... then the reading thread; then the meter is closed.                  *)
CancelReader ==
    /\ mpc = "cancel" /\ mi <= Len(MeterOrder) /\ running[Meter] /\ ki > Len(ChannelsOf[Meter])
    /\ cancelled' = cancelled \cup {Meter}
    /\ mpc' = "joinReader"
    /\ UNCHANGED <<mi, ki, endFlag, cancelledThreads, running>>

(* Mutant: the reading thread is not joined. *)
JoinReaderMutant ==
    /\ mpc = "joinReader"
    /\ running' = [running EXCEPT ![Meter] = FALSE]
    /\ mpc' = "cancel" /\ mi' = mi + 1 /\ ki' = 1
    /\ UNCHANGED <<endFlag, cancelledThreads, cancelled>>

JoinReader ==
    /\ mpc = "joinReader" /\ rpc[Meter] = "dead"
    /\ running' = [running EXCEPT ![Meter] = FALSE]
    /\ mpc' = "cancel" /\ mi' = mi + 1 /\ ki' = 1
    /\ UNCHANGED <<endFlag, cancelledThreads, cancelled>>

Supervise ==
    /\ MainLoop \/ NextMeter \/ CancelChannel \/ JoinChannel \/ CancelReader \/ JoinReader
    /\ UNCHANGED <<config, readVars, lpc, bufVars, pushVars, sessionVars>>

(* The push thread is told to end, joined, and its list is deleted.        *)
EndPush ==
    /\ mpc = "endPush"
    /\ IF servers = <<>> THEN mpc' = "sessions" /\ UNCHANGED endThread
       ELSE endThread' = TRUE /\ mpc' = "joinPush"
    /\ UNCHANGED pushList

JoinPush ==
    /\ mpc = "joinPush" /\ ppc = "ended"
    /\ pushList' = "deleted" /\ mpc' = "sessions"
    /\ UNCHANGED endThread

(* The destructor of CurlSessionProvider does not wait for a session in    *)
(* use for more than five rounds.                                          *)
DeleteSessions ==
    /\ mpc = "sessions"
    /\ mpc' = "done"
    /\ UNCHANGED <<endThread, pushList>>

Finishing ==
    /\ EndPush \/ JoinPush \/ DeleteSessions
    /\ UNCHANGED <<config, mi, ki, endFlag, cancelledThreads, running, cancelled, readVars, lpc, bufVars,
                   next, ppc, dataMap, si, sessionVars>>

Main == Starting \/ Supervise \/ Finishing

PushThreadStep ==
    /\ Alive /\ servers # <<>> /\ PushNext
    /\ UNCHANGED <<config, mainVars, cancelled, readVars, lpc, bufVars>>

ThreadsNext ==
    \/ Main \/ SignalQuit \/ PushThreadStep
    \/ \E m \in Meters : ReadingThread(m)
    \/ \E c \in Channels : LoggingThread(c)

(* Every thread runs; Meter::read and curl_easy_perform return; a session  *)
(* that is given back again and again is obtained by each who waits; a     *)
(* cancelled logging thread that finds no new values again and again ends. *)
ThreadsFairness ==
    /\ WF_threadVars(Main) /\ WF_threadVars(PushThreadStep)
    /\ SF_threadVars(PushThreadStep /\ PushGetSession)
    /\ \A m \in Meters : WF_threadVars(ReadingThread(m))
    /\ \A c \in Channels :
          /\ WF_threadVars(LoggingThread(c))
          /\ SF_threadVars(LoggingThread(c) /\ lpc[c] = "session")
          /\ SF_threadVars(LoggingThread(c) /\ lpc[c] = "wait" /\ lpc'[c] = "dead")

ThreadsSpec == ThreadsInit /\ [][ThreadsNext]_threadVars /\ ThreadsFairness

-----------------------------------------------------------------------------
(* Properties. *)

Entry == [ids : SUBSET Nat, deleted : BOOLEAN]

ReadPlaces == {"off", "top", "reading", "push", "aggregate", "clean1", "have", "clean2", "notify", "dead"}
LogPlaces == {"off", "wait", "waiting", "clear", "send", "session", "perform", "dead"}
MainPlaces == {"start", "loop", "cancel", "joinChannel", "joinReader", "endPush", "joinPush",
               "sessions", "done", "exited"}

TypeOK ==
    /\ conf \in Configs /\ servers = conf.servers
    /\ mpc \in MainPlaces /\ mi \in Nat /\ ki \in Nat
    /\ endFlag \in BOOLEAN /\ cancelledThreads \in BOOLEAN
    /\ running \in [Meters -> BOOLEAN]
    /\ cancelled \in SUBSET (Meters \cup Channels)
    /\ rpc \in [Meters -> ReadPlaces]
    /\ \A m \in Meters : rk[m] = 1 \/ rk[m] \in DOMAIN ChannelsOf[m]
    /\ fresh \in [Meters -> SUBSET Channels]
    /\ lpc \in [Channels -> LogPlaces]
    /\ lock \in [Channels -> Channels \cup {NoThread}]
    /\ newValues \in [Channels -> BOOLEAN]
    /\ buf \in [Channels -> SUBSET Entry]
    /\ count \in [Channels -> Nat]
    /\ taken \in [Channels -> SUBSET Nat] /\ again \in [Channels -> SUBSET Nat]
    /\ pushList \in {"none", "made", "deleted"} /\ next \in SUBSET Channels /\ endThread \in BOOLEAN
    /\ ppc \in {"top", "timed", "send", "perform", "ended"} /\ dataMap \in SUBSET Channels /\ si \in Nat
    /\ holder \in [Keys -> Channels \cup {PushThread, NoThread}] /\ inUse \in SUBSET Keys

(* Whatever the threads do to the buffer between and beside each other:    *)
(* each reading pushed was taken by the API or is in an entry that waits   *)
(* to be taken.                                                            *)
NothingLost ==
    \A c \in Channels : 1..count[c] \subseteq taken[c] \cup Ids(Live(buf[c]))

(* A reading of a channel without aggregation is never sent twice.  (With  *)
(* aggregation it is, when the logging thread takes the marked entries     *)
(* between aggregate and clean.)                                           *)
CountedOnce == \A c \in Channels \ Aggregated : again[c] = {}

(* The list is deleted when no reading thread is left that could add to it. *)
NoUseAfterDelete ==
    pushList = "deleted" => \A m \in Meters : rpc[m] \in {"off", "dead"}

Readings == UNION {{c} \X (1..cf.maxPush[c]) : c \in Channels, cf \in Configs}

(* Once its reading thread has begun to publish, what a channel has pushed *)
(* is sent, unless the daemon ends: no wake-up is lost.                    *)
PublishedIsSent ==
    \A m \in Meters : \A r \in Readings : LET c == r[1] n == r[2] IN
        (rpc[m] = "aggregate" /\ rk[m] = 1 /\ c \in ChannelSet(m) /\ n <= count[c])
            ~> (n \in taken[c] \/ endFlag)

(* What is added for the push servers is handed to the push thread.        *)
AddedIsPushed ==
    \A c \in Channels : (c \in next) ~> (c \in dataMap \/ endThread)

(* The reading thread waits for the mutex of a buffer that a cancelled     *)
(* logging thread has locked for ever, while the main program joins it ... *)
ReaderBlocked ==
    /\ mpc = "joinReader"
    /\ rpc[Meter] \in {"push", "aggregate", "clean1", "clean2", "notify"}
    /\ \E c \in ChannelSet(Meter) : lock[c] = c /\ lpc[c] = "dead"

(* ... or the push thread waits for a session that a logging thread was    *)
(* cancelled in, as both send to the same URL.                             *)
PushBlocked ==
    /\ mpc = "joinPush" /\ ppc = "send"
    /\ \E c \in Channels : holder[servers[si]] = c /\ lpc[c] = "dead"

(* The logging thread has nothing to do, or it waits for others.           *)
Rests(c) ==
    \/ lpc[c] \in {"off", "waiting", "session", "perform", "dead"}
    \/ lpc[c] = "wait" /\ ~newValues[c]

(* The signal ends the daemon, unless it meets one of the two deadlocks.   *)
(* It takes meters that are slower than their logging threads: one that    *)
(* always finds new values, though none to send, is never cancelled.       *)
ShutdownEnds ==
    (\A c \in Channels : []<>Rests(c))
        => (endFlag ~> (~Alive \/ ReaderBlocked \/ PushBlocked))
=============================================================================
