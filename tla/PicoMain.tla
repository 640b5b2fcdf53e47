------------------------------ MODULE PicoMain ------------------------------
(***************************************************************************)
(* The rounds of the Pico's main loop (vzlogger_pico.cpp, main): reading   *)
(* due meters, sending and checking for answers, and around this turning   *)
(* WiFi and the clock speed up and down.  PicoSend looks into the protocol *)
(* of one connection with WiFi always on; here a connection is only its    *)
(* state, and there is one per middleware URL.  WiFi, lwIP and time move   *)
(* between any two steps of the main loop.                                 *)
(* Seconds are abstracted to what the loop asks of them: whether a meter   *)
(* is due, far from due, and whether sendDataInterval has passed.          *)
(***************************************************************************)
EXTENDS Naturals, Sequences

CONSTANTS
    Urls,       \* middleware URLs
    BadUrls,    \* those the constructor of Volkszaehler cannot parse
    Meters,     \* for each meter in order, the URLs of its channels
    Scheduled,  \* sendDataInterval > 0
    StopsWifi,  \* wifiStopTime > 0
    Throttles,  \* lowCPUfactor > 0
    MaxReads    \* bound on the number of meter reads that bring readings

ASSUME MainAssumption ==
    /\ BadUrls \subseteq Urls
    /\ Meters # <<>> /\ Meters \in Seq(Seq(Urls) \ {<<>>})
    /\ {Scheduled, StopsWifi, Throttles} \subseteq BOOLEAN
    /\ MaxReads \in Nat

MeterIds == DOMAIN Meters
Channels == UNION {{<<m, k>> : k \in DOMAIN Meters[m]} : m \in MeterIds}
Url(c) == Meters[c[1]][c[2]]
NoChannel == <<>>

VARIABLES
    wifi,       \* "off", "down" (initialized, not connected), "up"
    cpu,        \* clock speed
    conn,       \* state of the LwipIF instance of a URL
    asker,      \* channel of its last request
    api,        \* channels that have their API object
    buf,        \* channels with readings in the buffer
    reads,      \* meter reads so far
    elapsed,    \* sendDataInterval has passed since sendDataComplete
    (* Local variables of main: *)
    pc, mi, ki,
    sendDue,        \* nextSend <= 0
    nextDue,        \* 0, at most wifiStopTime, or more
    fullSpeed,      \* clockSpeedIsDefault
    isSending, wasSending,
    syncTime,
    caught          \* an exception ended the reading and sending of this round

envVars == <<wifi, cpu, conn, asker, api, buf, reads, elapsed>>
locals == <<sendDue, nextDue, fullSpeed, isSending, wasSending, syncTime, caught>>
vars == <<envVars, pc, mi, ki, locals>>

PCs == {"start", "read", "visit", "enable", "sendData", "send", "check", "checked",
        "complete", "sync", "disable", "speed", "sleep"}

TypeOK ==
    /\ wifi \in {"off", "down", "up"}
    /\ cpu \in {"default", "low"}
    /\ conn \in [Urls -> {"INIT", "CONNECTING", "READY", "SENDING", "REPLIED"}]
    /\ asker \in [Urls -> Channels \cup {NoChannel}]
    /\ api \subseteq Channels
    /\ buf \subseteq Channels
    /\ reads \in 0..MaxReads
    /\ elapsed \in BOOLEAN
    /\ pc \in PCs
    /\ mi \in MeterIds
    /\ ki \in DOMAIN Meters[mi]
    /\ nextDue \in {"none", "near", "far"}
    /\ sendDue \in BOOLEAN /\ fullSpeed \in BOOLEAN
    /\ isSending \in BOOLEAN /\ wasSending \in BOOLEAN
    /\ syncTime \in BOOLEAN /\ caught \in BOOLEAN

(* Startup is over: WiFi is connected, the time is known.                  *)
Init ==
    /\ wifi = "up" /\ cpu = "default"
    /\ conn = [u \in Urls |-> "INIT"]
    /\ asker = [u \in Urls |-> NoChannel]
    /\ api = {} /\ buf = {} /\ reads = 0
    /\ elapsed = ~ Scheduled
    /\ pc = "start" /\ mi = 1 /\ ki = 1
    /\ sendDue = FALSE /\ nextDue = "none" /\ fullSpeed = TRUE
    /\ isSending = FALSE /\ wasSending = FALSE
    /\ syncTime = FALSE /\ caught = FALSE

At(p) == pc = p

(* The channel the main loop works on, and its URL. *)
ch == <<mi, ki>>
url == Meters[mi][ki]

Initialized == wifi # "off"
Busy(u) == conn[u] \notin {"READY", "INIT"}
IsBusy(m) == \E c \in api : c[1] = m /\ Busy(Url(c))
ReadyToSend(m) == \E c \in buf : c[1] = m

(* The loop over the meters goes on, or leads to step p. *)
NextMeter(same, p) ==
    /\ IF mi < Len(Meters) THEN mi' = mi + 1 /\ pc' = same
                           ELSE mi' = 1 /\ pc' = p
    /\ ki' = 1

(* Mutant: goes one channel too far. *)
NextChannelMutant(same) ==
    IF ki <= Len(Meters[mi]) THEN ki' = ki + 1 /\ pc' = same /\ UNCHANGED mi
    ELSE ki' = 1 /\ pc' = "checked" /\ UNCHANGED mi

(* The channel loop of meter mi goes on, or leads to step p. *)
NextChannel(same) ==
    IF ki < Len(Meters[mi]) THEN ki' = ki + 1 /\ pc' = same /\ UNCHANGED mi
    ELSE IF same = "sendData" THEN NextMeter("visit", "complete")
    ELSE ki' = 1 /\ pc' = "checked" /\ UNCHANGED mi

-----------------------------------------------------------------------------
(* Mutants: main believes of the speed what it did in the last round; the  *)
(* last round's isSendingData is kept; nothing is sent in a round that     *)
(* starts at low speed.                                                    *)
StartRoundStale ==
    /\ At("start")
    /\ wasSending' = isSending /\ isSending' = FALSE
    /\ sendDue' = elapsed /\ nextDue' = "none" /\ caught' = FALSE
    /\ pc' = "read"
    /\ UNCHANGED <<envVars, mi, ki, syncTime, fullSpeed>>

StartRoundSending ==
    /\ At("start")
    /\ wasSending' = isSending /\ UNCHANGED isSending
    /\ sendDue' = elapsed /\ nextDue' = "none" /\ caught' = FALSE
    /\ fullSpeed' = (cpu = "default")
    /\ pc' = "read"
    /\ UNCHANGED <<envVars, mi, ki, syncTime>>

StartRoundAsleep ==
    /\ At("start")
    /\ wasSending' = isSending /\ isSending' = FALSE
    /\ sendDue' = (elapsed /\ cpu = "default") /\ nextDue' = "none" /\ caught' = FALSE
    /\ fullSpeed' = (cpu = "default")
    /\ pc' = "read"
    /\ UNCHANGED <<envVars, mi, ki, syncTime>>

StartRound ==
    /\ At("start")
    /\ wasSending' = isSending /\ isSending' = FALSE
    /\ sendDue' = elapsed
    /\ nextDue' = "none"
    /\ fullSpeed' = (cpu = "default")
    /\ caught' = FALSE
    /\ pc' = "read"
    /\ UNCHANGED <<envVars, mi, ki, syncTime>>

(* Where full speed is needed, it is set unless main believes it is on.    *)
ToFullSpeed ==
    /\ cpu' = IF fullSpeed THEN cpu ELSE "default"
    /\ fullSpeed' = TRUE

(* A due meter is read at full speed; the reading brings something for     *)
(* some of its channels, or nothing.                                       *)
ReadMeter ==
    /\ At("read")
    /\ ToFullSpeed
    /\ \E new \in SUBSET {c \in Channels : c[1] = mi} :
          /\ new # {} => reads < MaxReads
          /\ reads' = IF new = {} THEN reads ELSE reads + 1
          /\ buf' = buf \cup new
    /\ NextMeter("read", "visit")
    /\ UNCHANGED <<wifi, conn, asker, api, elapsed, sendDue, nextDue, isSending,
                   wasSending, syncTime, caught>>

(* The others tell when they will be due. *)
SkipMeter ==
    /\ At("read")
    /\ \E due \in {"near", "far"} :
          nextDue' = IF nextDue = "none" \/ due = "near" THEN due ELSE nextDue
    /\ NextMeter("read", "visit")
    /\ UNCHANGED <<envVars, sendDue, fullSpeed, isSending, wasSending, syncTime, caught>>

(* Sending needs full speed and WiFi; otherwise a busy meter is checked.   *)
VisitMeter ==
    /\ At("visit")
    /\ IF ReadyToSend(mi) /\ sendDue
       THEN /\ ToFullSpeed
            /\ pc' = IF wifi = "up" THEN "sendData" ELSE "enable"
            /\ UNCHANGED <<mi, ki>>
       ELSE /\ IF IsBusy(mi) THEN pc' = "check" /\ UNCHANGED <<mi, ki>>
                             ELSE NextMeter("visit", "complete")
            /\ UNCHANGED <<cpu, fullSpeed>>
    /\ UNCHANGED <<wifi, conn, asker, api, buf, reads, elapsed, sendDue, nextDue,
                   isSending, wasSending, syncTime, caught>>

(* wifi.enable(): connected at some try, or given up and disabled. *)
EnableOK ==
    /\ At("enable")
    /\ wifi' = "up"
    /\ pc' = "sendData"
    /\ UNCHANGED <<cpu, conn, asker, api, buf, reads, elapsed, mi, ki, locals>>

EnableFails ==
    /\ At("enable")
    /\ wifi' = "off"
    /\ NextMeter("visit", "complete")
    /\ UNCHANGED <<cpu, conn, asker, api, buf, reads, elapsed, locals>>

(* Channel::sendData creates the API object.  Its constructor connects if  *)
(* nobody did before; for a URL it cannot parse it throws, and main        *)
(* catches this outside the loop over the meters.                          *)
CreateApi ==
    /\ At("sendData") /\ url \notin BadUrls
    /\ api' = api \cup {ch}
    /\ \/ UNCHANGED conn
       \/ /\ ch \notin api /\ conn[url] = "INIT"
          /\ conn' = [conn EXCEPT ![url] = "CONNECTING"]
    /\ pc' = "send"
    /\ UNCHANGED <<wifi, cpu, asker, buf, reads, elapsed, mi, ki, locals>>

CreateApiThrows ==
    /\ At("sendData") /\ url \in BadUrls
    /\ caught' = TRUE
    /\ pc' = "complete" /\ mi' = 1 /\ ki' = 1
    /\ UNCHANGED <<envVars, sendDue, nextDue, fullSpeed, isSending, wasSending, syncTime>>

(* What Volkszaehler::send leaves of the connection (see PicoSend): it     *)
(* waits, connects again, posts the readings, or takes its own answer.     *)
Posts == conn[url] = "READY" /\ ch \in buf

SendResults ==
    CASE conn[url] = "INIT"       -> {"INIT", "CONNECTING"}
      [] conn[url] = "CONNECTING" -> {"CONNECTING", "INIT"}
      [] conn[url] = "SENDING"    -> {"SENDING", "CONNECTING", "INIT"}
      [] conn[url] = "READY"      -> IF Posts THEN {"SENDING", "READY", "INIT"} ELSE {"READY"}
      [] conn[url] = "REPLIED"    -> IF asker[url] = ch THEN {"READY", "INIT"} ELSE {"REPLIED"}

(* After the last channel isSendingData is set. *)
Send ==
    /\ At("send")
    /\ \E s \in SendResults : conn' = [conn EXCEPT ![url] = s]
    /\ IF Posts THEN buf' = buf \ {ch} /\ asker' = [asker EXCEPT ![url] = ch]
                ELSE UNCHANGED <<buf, asker>>
    /\ NextChannel("sendData")
    /\ isSending' = (isSending \/ ki = Len(Meters[mi]))
    /\ UNCHANGED <<wifi, cpu, api, reads, elapsed, sendDue, nextDue, fullSpeed,
                   wasSending, syncTime, caught>>

CheckResponse ==
    /\ At("check")
    /\ IF ch \in api /\ conn[url] = "REPLIED" /\ asker[url] = ch
       THEN \E s \in {"READY", "INIT"} : conn' = [conn EXCEPT ![url] = s]
       ELSE UNCHANGED conn
    /\ NextChannel("check")
    /\ UNCHANGED <<wifi, cpu, asker, api, buf, reads, elapsed, locals>>

(* Mutant: a meter that was not asked to send does not count. *)
CheckedMutant ==
    /\ At("checked")
    /\ NextMeter("visit", "complete")
    /\ UNCHANGED <<envVars, locals>>

(* "Data sent, but no response yet - make sure, WiFi does not go down".    *)
Checked ==
    /\ At("checked")
    /\ isSending' = IsBusy(mi)
    /\ NextMeter("visit", "complete")
    /\ UNCHANGED <<envVars, sendDue, nextDue, fullSpeed, wasSending, syncTime, caught>>

-----------------------------------------------------------------------------
(* With WiFi on: remember when sending was complete ...                    *)
WifiBlock == fullSpeed /\ Initialized

Complete ==
    /\ At("complete")
    /\ IF WifiBlock
       THEN /\ pc' = "sync"
            /\ elapsed' = IF wasSending /\ ~ isSending THEN ~ Scheduled ELSE elapsed
       ELSE pc' = "speed" /\ UNCHANGED elapsed
    /\ UNCHANGED <<wifi, cpu, conn, asker, api, buf, reads, mi, ki, locals>>

(* ... ask for the time, which may take a minute ...                       *)
SyncTime ==
    /\ At("sync")
    /\ syncTime' = (syncTime /\ wifi # "up")
    /\ pc' = "disable"
    /\ UNCHANGED <<envVars, mi, ki, sendDue, nextDue, fullSpeed, isSending, wasSending, caught>>

(* ... and turn WiFi off if it is not needed.                              *)
Unneeded == ~ isSending /\ StopsWifi /\ (nextDue = "far" \/ Scheduled)

Disable ==
    /\ At("disable")
    /\ wifi' = IF Unneeded THEN "off" ELSE wifi
    /\ pc' = "speed"
    /\ UNCHANGED <<cpu, conn, asker, api, buf, reads, elapsed, mi, ki, locals>>

ReduceSpeed ==
    /\ At("speed")
    /\ cpu' = IF fullSpeed /\ ~ Initialized /\ Throttles THEN "low" ELSE cpu
    /\ pc' = "sleep"
    /\ UNCHANGED <<wifi, conn, asker, api, buf, reads, elapsed, mi, ki, locals>>

(* In some rounds (ntpSyncCycles) the time is to be synchronised.          *)
Sleep ==
    /\ At("sleep")
    /\ syncTime' \in {syncTime, TRUE}
    /\ pc' = "start"
    /\ UNCHANGED <<envVars, mi, ki, sendDue, nextDue, fullSpeed, isSending, wasSending, caught>>

-----------------------------------------------------------------------------
(* The world: callbacks need an initialized WiFi, answers a connected one. *)
OnlyConn == UNCHANGED <<wifi, cpu, asker, api, buf, reads, elapsed, pc, mi, ki, locals>>

Callback(u) ==
    /\ Initialized
    /\ \/ conn[u] # "INIT" /\ conn' = [conn EXCEPT ![u] = "INIT"]
       \/ wifi = "up" /\ conn[u] = "CONNECTING" /\ conn' = [conn EXCEPT ![u] = "READY"]
       \/ wifi = "up" /\ conn[u] = "SENDING" /\ conn' = [conn EXCEPT ![u] = "REPLIED"]
    /\ OnlyConn

(* Connecting and sending end: lwIP's retransmissions and vz_altcp_poll.   *)
Progress(u) == conn[u] \in {"CONNECTING", "SENDING"} /\ Callback(u)

LinkChanges ==
    /\ Initialized
    /\ wifi' = IF wifi = "up" THEN "down" ELSE "up"
    /\ UNCHANGED <<cpu, conn, asker, api, buf, reads, elapsed, pc, mi, ki, locals>>

Elapse ==
    /\ ~ elapsed
    /\ elapsed' = TRUE
    /\ UNCHANGED <<wifi, cpu, conn, asker, api, buf, reads, pc, mi, ki, locals>>

Main ==
    \/ StartRound \/ ReadMeter \/ SkipMeter \/ VisitMeter \/ EnableOK \/ EnableFails
    \/ CreateApi \/ CreateApiThrows \/ Send \/ CheckResponse \/ Checked
    \/ Complete \/ SyncTime \/ Disable \/ ReduceSpeed \/ Sleep

Next == Main \/ LinkChanges \/ Elapse \/ \E u \in Urls : Callback(u)

Spec == Init /\ [][Next]_vars

(* The main loop runs, connecting and sending end, time passes; and an     *)
(* access point that is tried again and again is found at last.            *)
FairSpec ==
    /\ Spec
    /\ WF_vars(Main)
    /\ \A u \in Urls : WF_vars(Progress(u))
    /\ WF_vars(Elapse)
    /\ \A m \in MeterIds : SF_vars(EnableOK /\ mi = m)

-----------------------------------------------------------------------------
(* "WiFi does not work right on lower speeds": WiFi is never on at low     *)
(* speed, and what main believes of the speed is true while it uses it     *)
(* (clockSpeedIsDefault).                                                  *)
WifiAtFullSpeed ==
    /\ Initialized => cpu = "default"
    /\ pc \notin {"start", "sleep"} => (fullSpeed <=> cpu = "default")

(* WiFi is not turned off at the end of a round while a connection is in   *)
(* use (isSendingData stands for all meters), unless an exception cut the  *)
(* round.                                                                  *)
AnswerKeepsWifi ==
    [][Disable /\ wifi' = "off" /\ ~ caught => \A u \in Urls : conn[u] \notin {"SENDING", "REPLIED"}]_vars

(* Why it holds with a single usable URL (proved in PicoMainProofs): a busy *)
(* connection belongs to a meter main still visits in this round, or it is *)
(* known in isSendingData.                                                 *)
OneUsableUrl == \A u, v \in Urls \ BadUrls : u = v

OwnerInv ==
    /\ \A c \in api : Url(c) \notin BadUrls
    /\ \A u \in Urls : Busy(u) => \E c \in api : Url(c) = u
    /\ pc = "send" => ch \in api
    /\ pc \in {"check", "checked"} => \E c \in api : c[1] = mi

Known(u) == isSending \/ ~ Initialized \/ \E c \in api : Url(c) = u /\ c[1] >= mi

RoundInv ==
    /\ pc \in {"visit", "check", "checked"} => \A u \in Urls : Busy(u) => Known(u)
    /\ pc \in {"complete", "sync", "disable"} =>
          caught \/ isSending \/ ~ Initialized \/ \A u \in Urls : ~ Busy(u)
    /\ pc \in {"sync", "disable"} => Initialized

MainInv == TypeOK /\ OwnerInv /\ RoundInv

(* Every meter with readings gets its turn at the connection.              *)
EveryMeterSends ==
    \A m \in MeterIds : ReadyToSend(m) ~> (~ ReadyToSend(m) \/ (At("sendData") /\ mi = m))

(* WiFi goes off once nothing is left to send (wifiStopTime,               *)
(* sendDataInterval).                                                      *)
WifiGoesOff == Initialized ~> (~ Initialized \/ buf # {})
=============================================================================
