-------------------------------- MODULE Ntp ---------------------------------
(***************************************************************************)
(* The NTP client of the Pico and the clock it corrects: queryTime waits   *)
(* while lwIP and a timer call back.  Its server is always given as an     *)
(* address, which the resolver answers at once.  The system's clock counts *)
(* from its start and may be too fast or too slow.                         *)
(***************************************************************************)
EXTENDS Integers

CONSTANTS
    Epoch,          \* the time when the system starts
    MaxUtc,         \* bound: the time
    MaxQueries,     \* bound: queries
    MaxDrift        \* bound: how far off the system's clock gets

ASSUME NtpAssumption ==
    Epoch \in Nat \ {0} /\ MaxUtc \in Nat /\ MaxQueries \in Nat /\ MaxDrift \in Nat

VARIABLES
    utc, sysTime,   \* the time, and time(NULL)
    ntppc,          \* off, idle, wait (for the answer), got (queryTime has returned), panic
    requestSent,    \* request_sent
    alarm,          \* the alarm of ntp_resend_alarm is set
    theTime,        \* theTime
    ntpTime,        \* what queryTime has returned
    query,          \* the number of the query
    asked,          \* requests under way, by their query
    answers,        \* answers under way: the query they are for, and their time, 0 if invalid
    sysRefTS, lastUtc, lastTimeSync,    \* of VzPicoWifi; lastUtc is 0 before init
    since,          \* history: when the query began
    stray           \* history: an answer to an earlier query was under way then

clockVars == <<utc, sysTime>>
queryVars == <<requestSent, alarm, theTime>>
netVars == <<asked, answers>>
wifiVars == <<sysRefTS, lastUtc, lastTimeSync>>
ntpVars == <<clockVars, ntppc, queryVars, ntpTime, query, netVars, wifiVars, since, stray>>

NtpInit ==
    /\ utc = Epoch /\ sysTime = 0
    /\ ntppc = "off" /\ requestSent = FALSE /\ alarm = FALSE /\ theTime = 0 /\ ntpTime = 0
    /\ query = 0 /\ asked = {} /\ answers = {}
    /\ sysRefTS = 0 /\ lastUtc = 0 /\ lastTimeSync = 0
    /\ since = 0 /\ stray = FALSE

(* A second passes; the system's clock may miss it or count it twice.      *)
NtpTick ==
    /\ utc < MaxUtc /\ utc' = utc + 1
    /\ sysTime' \in {t \in sysTime .. sysTime + 2 :
                        t - (utc' - Epoch) \in -MaxDrift .. MaxDrift}
    /\ UNCHANGED <<ntppc, queryVars, ntpTime, query, netVars, wifiVars, since, stray>>

(* result(): a valid answer is kept; the alarm is cancelled.               *)
Result(time) ==
    /\ theTime' = IF time # 0 THEN time ELSE theTime
    /\ alarm' = FALSE /\ requestSent' = FALSE

(* queryTime begins: the request goes out, with an alarm if the timers     *)
(* have room for it; or the address is refused.                            *)
QueryTime ==
    /\ ntppc \in {"off", "idle"} /\ query < MaxQueries
    /\ query' = query + 1
    /\ theTime' = 0 /\ ntpTime' = 0 /\ since' = utc /\ stray' = (answers # {})
    /\ \/ /\ ~requestSent /\ requestSent' = TRUE /\ alarm' \in BOOLEAN
          /\ asked' = asked \cup {query + 1}
          /\ ntppc' = "wait"
       \/ /\ ~requestSent /\ alarm' = FALSE /\ UNCHANGED <<requestSent, asked>>
          /\ ntppc' = "got"
    /\ UNCHANGED <<clockVars, answers, wifiVars>>

(* The server answers, or its answer makes no sense; packets get lost.     *)
ServerAnswers ==
    \E q \in asked, time \in {utc, 0} :
        /\ asked' = asked \ {q} /\ answers' = answers \cup {[query |-> q, time |-> time]}
        /\ UNCHANGED <<clockVars, ntppc, queryVars, ntpTime, query, wifiVars, since, stray>>

PacketLost ==
    /\ \/ \E q \in asked : asked' = asked \ {q} /\ UNCHANGED answers
       \/ \E a \in answers : answers' = answers \ {a} /\ UNCHANGED asked
    /\ UNCHANGED <<clockVars, ntppc, queryVars, ntpTime, query, wifiVars, since, stray>>

(* ntp_recv: whatever it was asked for, at any time.                       *)
NtpRecv ==
    /\ \E a \in answers : Result(a.time) /\ answers' = answers \ {a}
    /\ UNCHANGED <<clockVars, ntppc, ntpTime, query, asked, wifiVars, since, stray>>

(* ntp_failed_handler, the alarm.                                          *)
NtpFailed ==
    /\ alarm /\ Result(0)
    /\ UNCHANGED <<clockVars, ntppc, ntpTime, query, netVars, wifiVars, since, stray>>

(* The wait is over, or has lasted too long.                               *)
WaitEnds ==
    /\ ntppc = "wait" /\ ntppc' = "got" /\ ntpTime' = theTime
    /\ IF requestSent THEN Result(0) ELSE UNCHANGED queryVars
    /\ UNCHANGED <<clockVars, query, netVars, wifiVars, since, stray>>

(* The first query: without a time the main program gives up.  Up to a     *)
(* second passes between the two looks at the clock.                       *)
WifiInit ==
    /\ ntppc = "got" /\ lastUtc = 0
    /\ IF ntpTime = 0 THEN ntppc' = "panic" /\ UNCHANGED wifiVars
       ELSE /\ ntppc' = "idle" /\ lastUtc' = ntpTime
            /\ lastTimeSync' = sysTime
            /\ sysRefTS' \in {ntpTime - sysTime, ntpTime - sysTime + 1}
    /\ UNCHANGED <<clockVars, queryVars, ntpTime, query, netVars, since, stray>>

(* Mutant: the time of the last synchronisation is not kept. *)
SyncTimeMutant ==
    /\ ntppc = "got" /\ lastUtc # 0 /\ ntppc' = "idle"
    /\ IF ntpTime = 0 THEN UNCHANGED wifiVars
       ELSE /\ sysRefTS' = sysRefTS + (ntpTime - lastUtc) - (sysTime - lastTimeSync)
            /\ lastUtc' = ntpTime /\ UNCHANGED lastTimeSync
    /\ UNCHANGED <<clockVars, queryVars, ntpTime, query, netVars, since, stray>>

(* What the server's clock and the system's have moved since the last time *)
(* is compared.                                                            *)
SyncTime ==
    /\ ntppc = "got" /\ lastUtc # 0 /\ ntppc' = "idle"
    /\ IF ntpTime = 0 THEN UNCHANGED wifiVars
       ELSE /\ sysRefTS' = sysRefTS + (ntpTime - lastUtc) - (sysTime - lastTimeSync)
            /\ lastUtc' = ntpTime /\ lastTimeSync' = sysTime
    /\ UNCHANGED <<clockVars, queryVars, ntpTime, query, netVars, since, stray>>

NtpNext ==
    \/ NtpTick \/ QueryTime \/ ServerAnswers \/ PacketLost \/ NtpRecv \/ NtpFailed
    \/ WaitEnds \/ WifiInit \/ SyncTime

NtpSpec == NtpInit /\ [][NtpNext]_ntpVars

-----------------------------------------------------------------------------
(* Properties. *)

(* However often the time was synchronised or a query failed, and however  *)
(* far the system's clock has drifted in between, the corrected clock      *)
(* showed at the last synchronisation what the server had said, to the     *)
(* second; and the server had said it after the query began, unless an     *)
(* answer to an earlier query was still under way.                         *)
ClockSynced ==
    /\ lastUtc # 0 => sysRefTS + lastTimeSync \in {lastUtc, lastUtc + 1}
    /\ ntppc = "got" /\ ntpTime # 0 /\ ~stray => ntpTime \in since .. utc

=============================================================================
