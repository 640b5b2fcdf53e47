--------------------------- MODULE PicoMainProofs ---------------------------
(***************************************************************************)
(* Proofs about PicoMain: the clock speed, and with a single usable URL    *)
(* that WiFi stays on while an answer is expected.                         *)
(***************************************************************************)
EXTENDS PicoMain, TLAPS

-----------------------------------------------------------------------------
(* The clock speed. *)

(* What main relies on when it turns WiFi on: VisitMeter has just set the  *)
(* speed.                                                                  *)
SpeedInv == WifiAtFullSpeed /\ (pc = "enable" => fullSpeed)

(* Every step keeps the speed right for what comes next.                   *)
LEMMA SpeedStep == SpeedInv /\ [Next]_vars => SpeedInv'
<1> SUFFICES ASSUME SpeedInv, [Next]_vars PROVE SpeedInv'
  OBVIOUS
<1> USE DEF SpeedInv, WifiAtFullSpeed, Initialized, At, envVars, locals
<1>1. CASE StartRound
  BY <1>1 DEF StartRound
<1>2. CASE ReadMeter
  BY <1>2 DEF ReadMeter, ToFullSpeed, NextMeter
<1>3. CASE SkipMeter
  BY <1>3 DEF SkipMeter, NextMeter
<1>4. CASE VisitMeter
  BY <1>4 DEF VisitMeter, ToFullSpeed, NextMeter
<1>5. CASE EnableOK
  BY <1>5 DEF EnableOK
<1>6. CASE EnableFails
  BY <1>6 DEF EnableFails, NextMeter
<1>7. CASE CreateApi \/ CreateApiThrows
  BY <1>7 DEF CreateApi, CreateApiThrows
<1>8. CASE Send \/ CheckResponse
  BY <1>8 DEF Send, CheckResponse, NextChannel, NextMeter
<1>9. CASE Checked
  BY <1>9 DEF Checked, NextMeter
<1>10. CASE Complete \/ SyncTime
  BY <1>10 DEF Complete, SyncTime, WifiBlock
<1>14. CASE Disable
  BY <1>14 DEF Disable
<1>15. CASE ReduceSpeed \/ Sleep
  BY <1>15 DEF ReduceSpeed, Sleep
<1>11. CASE LinkChanges \/ Elapse
  BY <1>11 DEF LinkChanges, Elapse
<1>12. CASE \E u \in Urls : Callback(u)
  BY <1>12 DEF Callback, OnlyConn
<1>13. CASE UNCHANGED vars
  BY <1>13 DEF vars
<1> QED  BY <1>1, <1>2, <1>3, <1>4, <1>5, <1>6, <1>7, <1>8, <1>9, <1>10, <1>11,
            <1>12, <1>13, <1>14, <1>15 DEF Next, Main

(* WiFi is never on at low speed, and while main uses clockSpeedIsDefault  *)
(* it is what the hardware does (setCpuSpeedDefault, setCpuSpeedLow,       *)
(* wifi.enable, wifi.disable in main).                                     *)
THEOREM FullSpeed == Spec => []WifiAtFullSpeed
<1>1. Init => SpeedInv
  BY DEF Init, SpeedInv, WifiAtFullSpeed
<1>2. SpeedInv => WifiAtFullSpeed
  BY DEF SpeedInv
<1> QED  BY <1>1, <1>2, SpeedStep, PTL DEF Spec

-----------------------------------------------------------------------------
(* Type correctness. *)

(* Every meter has a channel. *)
LEMMA MetersType ==
    /\ MeterIds = 1..Len(Meters) /\ Len(Meters) \in Nat \ {0}
    /\ \A m \in MeterIds :
          /\ Meters[m] \in Seq(Urls)
          /\ Len(Meters[m]) \in Nat \ {0}
          /\ DOMAIN Meters[m] = 1..Len(Meters[m])
<1>1. Meters \in Seq(Seq(Urls) \ {<<>>}) /\ Meters # <<>>
  BY MainAssumption
<1>2. MeterIds = 1..Len(Meters) /\ Len(Meters) \in Nat \ {0}
  BY <1>1 DEF MeterIds
<1>3. ASSUME NEW m \in MeterIds
      PROVE  /\ Meters[m] \in Seq(Urls)
             /\ Len(Meters[m]) \in Nat \ {0}
             /\ DOMAIN Meters[m] = 1..Len(Meters[m])
  <2>1. Meters[m] \in Seq(Urls) \ {<<>>}
    BY <1>1, <1>2
  <2> QED  BY <2>1
<1> QED  BY <1>2, <1>3

(* A channel is named by its meter and its place there. *)
LEMMA ChannelType ==
    ASSUME NEW c \in Channels
    PROVE  c[1] \in MeterIds /\ Url(c) \in Urls
<1>1. PICK m \in MeterIds : c \in {<<m, k>> : k \in DOMAIN Meters[m]}
  BY DEF Channels
<1>2. PICK k \in DOMAIN Meters[m] : c = <<m, k>>
  BY <1>1
<1>3. Meters[m][k] \in Urls
  BY MetersType
<1> QED  BY <1>2, <1>3 DEF Url

(* The cursor of main points to a channel. *)
LEMMA CursorType ==
    ASSUME TypeOK
    PROVE  /\ ch \in Channels /\ ch[1] = mi
           /\ Url(ch) = url /\ url \in Urls
<1>1. mi \in MeterIds /\ ki \in DOMAIN Meters[mi]
  BY DEF TypeOK
<1>2. ch \in Channels /\ ch[1] = mi
  BY <1>1 DEF Channels, ch
<1>3. Url(ch) = url
  BY DEF Url, ch, url
<1> QED  BY <1>2, <1>3, ChannelType

(* The loop over the meters stays within them. *)
LEMMA NextMeterType ==
    ASSUME NEW same, NEW p, mi \in MeterIds, NextMeter(same, p)
    PROVE  /\ mi' \in MeterIds /\ ki' \in DOMAIN Meters[mi']
           /\ \/ pc' = same /\ mi' = mi + 1 /\ mi < Len(Meters)
              \/ pc' = p /\ mi' = 1 /\ mi = Len(Meters)
<1>1. mi \in 1..Len(Meters) /\ Len(Meters) \in Nat \ {0}
  BY MetersType
<1>2. /\ mi' \in 1..Len(Meters) /\ ki' = 1
      /\ \/ pc' = same /\ mi' = mi + 1 /\ mi < Len(Meters)
         \/ pc' = p /\ mi' = 1 /\ mi = Len(Meters)
  BY <1>1 DEF NextMeter
<1>3. DOMAIN Meters[mi'] = 1..Len(Meters[mi']) /\ Len(Meters[mi']) \in Nat \ {0}
  BY <1>2, MetersType
<1> QED  BY <1>2, <1>3, MetersType

(* The channel loop stays within the meter's channels. *)
LEMMA NextChannelType ==
    ASSUME NEW same, same \in {"sendData", "check"}, NextChannel(same),
           mi \in MeterIds, ki \in DOMAIN Meters[mi]
    PROVE  /\ mi' \in MeterIds /\ ki' \in DOMAIN Meters[mi']
           /\ \/ pc' = same /\ mi' = mi /\ ki < Len(Meters[mi])
              \/ /\ same = "sendData" /\ ki = Len(Meters[mi])
                 /\ NextMeter("visit", "complete")
              \/ same = "check" /\ pc' = "checked" /\ mi' = mi
<1>1. ki \in 1..Len(Meters[mi]) /\ Len(Meters[mi]) \in Nat \ {0}
      /\ DOMAIN Meters[mi] = 1..Len(Meters[mi])
  BY MetersType
<1>2. CASE ki < Len(Meters[mi])
  BY <1>1, <1>2 DEF NextChannel
<1>3. CASE ~ (ki < Len(Meters[mi])) /\ same = "sendData"
  BY <1>1, <1>3, NextMeterType DEF NextChannel
<1>4. CASE ~ (ki < Len(Meters[mi])) /\ same = "check"
  BY <1>1, <1>4 DEF NextChannel
<1> QED  BY <1>2, <1>3, <1>4

(* The state of a connection is one of those its functions set. *)
LEMMA SendResultsType ==
    ASSUME TypeOK, NEW s \in SendResults
    PROVE  s \in {"INIT", "CONNECTING", "READY", "SENDING", "REPLIED"}
<1>1. conn[url] \in {"INIT", "CONNECTING", "READY", "SENDING", "REPLIED"}
  BY CursorType DEF TypeOK
<1> QED  BY <1>1 DEF SendResults, Posts

(* Every step keeps the types. *)
LEMMA TypeStep == TypeOK /\ [Next]_vars => TypeOK'
<1> SUFFICES ASSUME TypeOK, [Next]_vars PROVE TypeOK'
  OBVIOUS
<1>0. ch \in Channels /\ url \in Urls /\ mi \in MeterIds /\ ki \in DOMAIN Meters[mi]
  BY CursorType DEF TypeOK
<1> USE DEF TypeOK, envVars, locals, PCs
<1>1. CASE StartRound
  BY <1>1 DEF StartRound
<1>2. CASE ReadMeter
  <2>1. NextMeter("read", "visit")
    BY <1>2 DEF ReadMeter
  <2>2. cpu' \in {"default", "low"} /\ fullSpeed' \in BOOLEAN
    BY <1>2 DEF ReadMeter, ToFullSpeed
  <2>3. buf' \subseteq Channels
    BY <1>2 DEF ReadMeter
  <2>4. reads' \in 0..MaxReads
    BY <1>2, MainAssumption DEF ReadMeter
  <2> QED  BY <1>2, <1>0, <2>1, <2>2, <2>3, <2>4, NextMeterType DEF ReadMeter
<1>3. CASE SkipMeter
  <2>1. NextMeter("read", "visit")
    BY <1>3 DEF SkipMeter
  <2>2. nextDue' \in {"none", "near", "far"}
    BY <1>3 DEF SkipMeter
  <2> QED  BY <1>3, <1>0, <2>1, <2>2, NextMeterType DEF SkipMeter
<1>4. CASE VisitMeter
  <2>1. cpu' \in {"default", "low"} /\ fullSpeed' \in BOOLEAN
    BY <1>4 DEF VisitMeter, ToFullSpeed
  <2>2. pc' \in PCs /\ mi' \in MeterIds /\ ki' \in DOMAIN Meters[mi']
    BY <1>4, <1>0, NextMeterType DEF VisitMeter
  <2> QED  BY <1>4, <2>1, <2>2 DEF VisitMeter
<1>5. CASE EnableOK
  BY <1>5 DEF EnableOK
<1>6. CASE EnableFails
  <2>1. NextMeter("visit", "complete")
    BY <1>6 DEF EnableFails
  <2> QED  BY <1>6, <1>0, <2>1, NextMeterType DEF EnableFails
<1>7. CASE CreateApi
  <2>1. conn' \in [Urls -> {"INIT", "CONNECTING", "READY", "SENDING", "REPLIED"}]
    BY <1>7 DEF CreateApi
  <2>2. api' \subseteq Channels
    BY <1>7, <1>0 DEF CreateApi
  <2> QED  BY <1>7, <2>1, <2>2 DEF CreateApi
<1>8. CASE CreateApiThrows
  <2>1. 1 \in MeterIds /\ 1 \in DOMAIN Meters[1]
    BY MetersType
  <2> QED  BY <1>8, <2>1 DEF CreateApiThrows
<1>9. CASE Send
  <2>1. conn' \in [Urls -> {"INIT", "CONNECTING", "READY", "SENDING", "REPLIED"}]
    BY <1>9, SendResultsType DEF Send
  <2>2. asker' \in [Urls -> Channels \cup {NoChannel}] /\ buf' \subseteq Channels
    BY <1>9, <1>0 DEF Send
  <2>3. NextChannel("sendData") /\ isSending' \in BOOLEAN
    BY <1>9 DEF Send
  <2>4. mi' \in MeterIds /\ ki' \in DOMAIN Meters[mi'] /\ pc' \in PCs
    BY <1>0, <2>3, NextChannelType, NextMeterType
  <2> QED  BY <1>9, <2>1, <2>2, <2>3, <2>4 DEF Send
<1>10. CASE CheckResponse
  <2>1. conn' \in [Urls -> {"INIT", "CONNECTING", "READY", "SENDING", "REPLIED"}]
    BY <1>10 DEF CheckResponse
  <2>2. mi' \in MeterIds /\ ki' \in DOMAIN Meters[mi'] /\ pc' \in PCs
    BY <1>10, <1>0, NextChannelType DEF CheckResponse
  <2> QED  BY <1>10, <2>1, <2>2 DEF CheckResponse
<1>11. CASE Checked
  <2>1. NextMeter("visit", "complete") /\ isSending' \in BOOLEAN
    BY <1>11 DEF Checked, IsBusy
  <2> QED  BY <1>11, <1>0, <2>1, NextMeterType DEF Checked
<1>12. CASE Complete
  <2>1. elapsed' \in BOOLEAN
    BY <1>12 DEF Complete
  <2> QED  BY <1>12, <2>1 DEF Complete
<1>13. CASE SyncTime
  <2>1. syncTime' \in BOOLEAN
    BY <1>13, Zenon DEF SyncTime
  <2> QED  BY <1>13, <2>1 DEF SyncTime
<1>14. CASE Disable
  <2>1. wifi' \in {"off", "down", "up"}
    BY <1>14 DEF Disable
  <2> QED  BY <1>14, <2>1 DEF Disable
<1>15. CASE ReduceSpeed
  <2>1. cpu' \in {"default", "low"}
    BY <1>15 DEF ReduceSpeed
  <2> QED  BY <1>15, <2>1 DEF ReduceSpeed
<1>16. CASE Sleep
  <2>1. syncTime' \in BOOLEAN
    BY <1>16 DEF Sleep
  <2> QED  BY <1>16, <2>1 DEF Sleep
<1>17. CASE LinkChanges
  <2>1. wifi' \in {"off", "down", "up"}
    BY <1>17 DEF LinkChanges
  <2> QED  BY <1>17, <2>1 DEF LinkChanges
<1>20. CASE Elapse
  BY <1>20 DEF Elapse
<1>18. ASSUME NEW u \in Urls, Callback(u) PROVE TypeOK'
  <2>1. conn' \in [Urls -> {"INIT", "CONNECTING", "READY", "SENDING", "REPLIED"}]
    BY <1>18 DEF Callback
  <2> QED  BY <1>18, <2>1 DEF Callback, OnlyConn
<1>19. CASE UNCHANGED vars
  BY <1>19 DEF vars
<1> QED  BY <1>1, <1>2, <1>3, <1>4, <1>5, <1>6, <1>7, <1>8, <1>9, <1>10, <1>11, <1>12,
            <1>13, <1>14, <1>15, <1>16, <1>17, <1>18, <1>19, <1>20 DEF Next, Main

-----------------------------------------------------------------------------
(* Whose connection it is. *)

(* A step that touches neither connections nor API objects keeps the       *)
(* owners if it gets to the loops of a meter in the right way.             *)
LEMMA OwnerKept ==
    ASSUME OwnerInv, UNCHANGED <<conn, api>>,
           pc' # "send" \/ UNCHANGED <<pc, mi, ki>>,
           \/ pc' \notin {"check", "checked"}
           \/ pc \in {"check", "checked"} /\ mi' = mi
           \/ IsBusy(mi) /\ mi' = mi
    PROVE  OwnerInv'
BY DEF OwnerInv, Busy, IsBusy, ch

(* No step makes a connection busy without an API object that uses it.     *)
LEMMA OwnerStep == TypeOK /\ OwnerInv /\ [Next]_vars => OwnerInv'
<1> SUFFICES ASSUME TypeOK, OwnerInv, [Next]_vars PROVE OwnerInv'
  OBVIOUS
<1>0. /\ ch \in Channels /\ ch[1] = mi /\ Url(ch) = url /\ url \in Urls
      /\ mi \in MeterIds /\ ki \in DOMAIN Meters[mi]
      /\ conn \in [Urls -> {"INIT", "CONNECTING", "READY", "SENDING", "REPLIED"}]
  BY CursorType DEF TypeOK
<1> USE DEF envVars, locals, At
<1>1. CASE StartRound \/ Complete \/ SyncTime \/ Disable \/ ReduceSpeed \/ Sleep
  BY <1>1, OwnerKept DEF StartRound, Complete, SyncTime, Disable, ReduceSpeed, Sleep
<1>2. CASE ReadMeter \/ SkipMeter
  <2>1. NextMeter("read", "visit") /\ UNCHANGED <<conn, api>>
    BY <1>2 DEF ReadMeter, SkipMeter
  <2> QED  BY <1>0, <2>1, NextMeterType, OwnerKept
<1>3. CASE VisitMeter
  <2>1. CASE ReadyToSend(mi) /\ sendDue
    BY <1>3, <2>1, OwnerKept DEF VisitMeter
  <2>2. CASE ~ (ReadyToSend(mi) /\ sendDue) /\ IsBusy(mi)
    BY <1>3, <2>2, OwnerKept DEF VisitMeter
  <2>3. CASE ~ (ReadyToSend(mi) /\ sendDue) /\ ~ IsBusy(mi)
    <3>1. NextMeter("visit", "complete") /\ UNCHANGED <<conn, api>>
      BY <1>3, <2>3 DEF VisitMeter
    <3> QED  BY <1>0, <3>1, NextMeterType, OwnerKept
  <2> QED  BY <2>1, <2>2, <2>3
<1>4. CASE EnableOK \/ CreateApiThrows
  BY <1>4, OwnerKept DEF EnableOK, CreateApiThrows
<1>5. CASE EnableFails \/ Checked
  <2>1. NextMeter("visit", "complete") /\ UNCHANGED <<conn, api>>
    BY <1>5 DEF EnableFails, Checked
  <2> QED  BY <1>0, <2>1, NextMeterType, OwnerKept
<1>6. CASE CreateApi
  <2>1. /\ url \notin BadUrls /\ api' = api \cup {ch}
        /\ pc' = "send" /\ UNCHANGED <<mi, ki>>
        /\ \A u \in Urls : u # url => conn'[u] = conn[u]
    BY <1>6, <1>0 DEF CreateApi
  <2>2. \A c \in api' : Url(c) \notin BadUrls
    BY <1>0, <2>1 DEF OwnerInv
  <2>3. \A u \in Urls : Busy(u)' => \E c \in api' : Url(c) = u
    BY <1>0, <2>1 DEF OwnerInv, Busy
  <2>4. ch' \in api'
    BY <2>1 DEF ch
  <2> QED  BY <2>1, <2>2, <2>3, <2>4 DEF OwnerInv
<1>7. CASE Send
  <2>1. /\ ch \in api /\ api' = api /\ NextChannel("sendData")
        /\ \A u \in Urls : u # url => conn'[u] = conn[u]
    BY <1>7, <1>0 DEF Send, OwnerInv
  <2>2. pc' \notin {"send", "check", "checked"}
    BY <2>1, <1>0, NextChannelType, NextMeterType
  <2>3. \A u \in Urls : Busy(u)' => \E c \in api' : Url(c) = u
    BY <1>0, <2>1 DEF OwnerInv, Busy
  <2> QED  BY <2>1, <2>2, <2>3 DEF OwnerInv
<1>8. CASE CheckResponse
  <2>1. /\ api' = api /\ NextChannel("check") /\ pc = "check"
        /\ \A u \in Urls : conn'[u] \in {conn[u], "READY", "INIT"}
    BY <1>8, <1>0 DEF CheckResponse
  <2>2. pc' \in {"check", "checked"} /\ mi' = mi
    BY <2>1, <1>0, NextChannelType
  <2>3. \A u \in Urls : Busy(u)' => Busy(u)
    BY <2>1 DEF Busy
  <2> QED  BY <2>1, <2>2, <2>3 DEF OwnerInv
<1>9. CASE LinkChanges \/ Elapse
  BY <1>9, OwnerKept DEF LinkChanges, Elapse
<1>10. ASSUME NEW v \in Urls, Callback(v) PROVE OwnerInv'
  <2>1. UNCHANGED <<api, pc, mi, ki>>
    BY <1>10 DEF Callback, OnlyConn
  <2>2. \A u \in Urls : Busy(u)' => Busy(u)
    BY <1>0, <1>10 DEF Callback, Busy
  <2> QED  BY <2>1, <2>2 DEF OwnerInv, ch
<1>11. CASE UNCHANGED vars
  BY <1>11, OwnerKept DEF vars
<1> QED  BY <1>1, <1>2, <1>3, <1>4, <1>5, <1>6, <1>7, <1>8, <1>9, <1>10, <1>11 DEF Next, Main

-----------------------------------------------------------------------------
(* WiFi and answers. *)

(* Callbacks make no idle connection busy, and a changing link leaves WiFi *)
(* initialized.                                                            *)
LEMMA RoundKept ==
    ASSUME RoundInv, UNCHANGED <<pc, mi, api, isSending, caught>>,
           Initialized' <=> Initialized,
           \A u \in Urls : Busy(u)' => Busy(u)
    PROVE  RoundInv'
BY DEF RoundInv, Known

(* Outside the loop and the end of the round nothing is claimed.           *)
LEMMA RoundElsewhere ==
    ASSUME pc' \notin {"visit", "check", "checked", "complete", "sync", "disable"}
    PROVE  RoundInv'
BY DEF RoundInv

(* When the loop leaves a meter, every busy connection must be known to    *)
(* isSending or belong to a meter to come.                                 *)
LEMMA LeaveMeter ==
    ASSUME TypeOK, OwnerInv, NextMeter("visit", "complete"), api' = api,
           \A u \in Urls : Busy(u)' =>
               isSending' \/ ~ Initialized' \/ \E c \in api : Url(c) = u /\ c[1] > mi
    PROVE  RoundInv'
<1>1. /\ mi \in MeterIds /\ api \subseteq Channels
      /\ MeterIds = 1..Len(Meters) /\ Len(Meters) \in Nat
  BY MetersType DEF TypeOK
<1>2. \/ pc' = "visit" /\ mi' = mi + 1
      \/ pc' = "complete" /\ mi = Len(Meters)
  BY <1>1, NextMeterType
<1>3. \A c \in api : c[1] \in 1..Len(Meters)
  BY <1>1, ChannelType
<1>4. CASE pc' = "visit" /\ mi' = mi + 1
  <2>1. \A c \in api : c[1] > mi => c[1] >= mi'
    BY <1>1, <1>3, <1>4
  <2> QED  BY <1>4, <2>1 DEF RoundInv, Known
<1>5. CASE pc' = "complete" /\ mi = Len(Meters)
  <2>1. \A c \in api : ~ (c[1] > mi)
    BY <1>1, <1>3, <1>5
  <2> QED  BY <1>5, <2>1 DEF RoundInv
<1> QED  BY <1>2, <1>4, <1>5

(* With a single usable URL the loop over the meters finds out about every *)
(* busy connection.                                                        *)
LEMMA RoundStep ==
    ASSUME OneUsableUrl
    PROVE  MainInv /\ [Next]_vars => RoundInv'
<1> SUFFICES ASSUME TypeOK, OwnerInv, RoundInv, [Next]_vars PROVE RoundInv'
  BY DEF MainInv
<1>0. /\ ch \in Channels /\ ch[1] = mi /\ Url(ch) = url /\ url \in Urls
      /\ mi \in MeterIds /\ ki \in DOMAIN Meters[mi]
      /\ conn \in [Urls -> {"INIT", "CONNECTING", "READY", "SENDING", "REPLIED"}]
      /\ api \subseteq Channels /\ MeterIds = 1..Len(Meters) /\ Len(Meters) \in Nat
  BY CursorType, MetersType DEF TypeOK
<1>00. \A c \in api : c[1] \in 1..Len(Meters)
  BY <1>0, ChannelType
<1> USE DEF envVars, locals, At
<1>1. CASE StartRound \/ ReduceSpeed \/ Sleep \/ EnableOK \/ CreateApi
  BY <1>1, RoundElsewhere DEF StartRound, ReduceSpeed, Sleep, EnableOK, CreateApi
<1>2. CASE ReadMeter \/ SkipMeter
  <2>1. NextMeter("read", "visit") /\ UNCHANGED <<conn, api>>
    BY <1>2 DEF ReadMeter, SkipMeter
  <2>2. CASE pc' = "read"
    BY <2>2, RoundElsewhere
  <2>3. CASE pc' = "visit" /\ mi' = 1
    BY <1>00, <2>1, <2>3 DEF RoundInv, Known, OwnerInv, Busy
  <2> QED  BY <1>0, <2>1, <2>2, <2>3, NextMeterType
<1>3. CASE VisitMeter
  <2>1. CASE ReadyToSend(mi) /\ sendDue
    BY <1>3, <2>1, RoundElsewhere DEF VisitMeter
  <2>2. CASE ~ (ReadyToSend(mi) /\ sendDue) /\ IsBusy(mi)
    BY <1>3, <2>2 DEF VisitMeter, RoundInv, Known, Busy, Initialized
  <2>3. CASE ~ (ReadyToSend(mi) /\ sendDue) /\ ~ IsBusy(mi)
    <3>1. /\ NextMeter("visit", "complete") /\ pc = "visit"
          /\ UNCHANGED <<conn, api, wifi, isSending>>
      BY <1>3, <2>3 DEF VisitMeter
    <3>2. \A u \in Urls : Busy(u) =>
              isSending \/ ~ Initialized \/ \E c \in api : Url(c) = u /\ c[1] >= mi
      BY <3>1 DEF RoundInv, Known
    <3>3. \A c \in api : Busy(Url(c)) => c[1] # mi
      BY <2>3 DEF IsBusy
    <3>4. \A c \in api : Busy(Url(c)) /\ c[1] >= mi => c[1] > mi
      BY <1>0, <1>00, <3>3
    <3>5. \A u \in Urls : Busy(u)' =>
              isSending' \/ ~ Initialized' \/ \E c \in api : Url(c) = u /\ c[1] > mi
      BY <3>1, <3>2, <3>4 DEF Busy, Initialized
    <3> QED  BY <3>1, <3>5, LeaveMeter
  <2> QED  BY <2>1, <2>2, <2>3
<1>4. CASE EnableFails
  <2>1. NextMeter("visit", "complete") /\ api' = api /\ ~ Initialized'
    BY <1>4 DEF EnableFails, Initialized
  <2> QED  BY <2>1, LeaveMeter
<1>5. CASE CreateApiThrows
  BY <1>5 DEF CreateApiThrows, RoundInv
<1>6. CASE Send
  <2>1. NextChannel("sendData") /\ api' = api
        /\ isSending' = (isSending \/ ki = Len(Meters[mi]))
    BY <1>6 DEF Send
  <2>2. CASE pc' = "sendData"
    BY <2>2, RoundElsewhere
  <2>3. CASE NextMeter("visit", "complete") /\ ki = Len(Meters[mi])
    BY <2>1, <2>3, LeaveMeter
  <2> QED  BY <1>0, <2>1, <2>2, <2>3, NextChannelType
<1>7. CASE CheckResponse
  <2>1. /\ UNCHANGED <<api, wifi, isSending, caught>> /\ NextChannel("check") /\ pc = "check"
        /\ \A u \in Urls : conn'[u] \in {conn[u], "READY", "INIT"}
    BY <1>7, <1>0 DEF CheckResponse
  <2>2. pc' \in {"check", "checked"} /\ mi' = mi
    BY <2>1, <1>0, NextChannelType
  <2>3. \A u \in Urls : Busy(u)' => Busy(u)
    BY <2>1 DEF Busy
  <2> QED  BY <2>1, <2>2, <2>3 DEF RoundInv, Known, Initialized
<1>8. CASE Checked
  <2>1. /\ NextMeter("visit", "complete") /\ api' = api /\ conn' = conn
        /\ isSending' = IsBusy(mi) /\ pc = "checked"
    BY <1>8 DEF Checked
  <2>2. PICK c \in api : c[1] = mi
    BY <2>1 DEF OwnerInv
  <2>3. ASSUME NEW u \in Urls, Busy(u) PROVE Url(c) = u
    <3>1. PICK d \in api : Url(d) = u
      BY <2>3 DEF OwnerInv
    <3>2. Url(c) \in Urls \ BadUrls /\ Url(d) \in Urls \ BadUrls
      BY <1>0, ChannelType DEF OwnerInv
    <3> QED  BY <3>1, <3>2 DEF OneUsableUrl
  <2>4. \A u \in Urls : Busy(u) => IsBusy(mi)
    BY <2>2, <2>3 DEF IsBusy
  <2>5. \A u \in Urls : Busy(u)' => isSending'
    BY <2>1, <2>4 DEF Busy
  <2> QED  BY <2>1, <2>5, LeaveMeter
<1>9. CASE Complete
  <2>1. UNCHANGED <<conn, wifi, isSending, caught>> /\ pc = "complete"
        /\ ((pc' = "sync" /\ Initialized) \/ pc' = "speed")
    BY <1>9 DEF Complete, WifiBlock
  <2> QED  BY <2>1 DEF RoundInv, Busy, Initialized
<1>10. CASE SyncTime
  BY <1>10 DEF SyncTime, RoundInv, Busy, Initialized
<1>11. CASE Disable
  BY <1>11, RoundElsewhere DEF Disable
<1>12. CASE LinkChanges
  BY <1>12, RoundKept DEF LinkChanges, Initialized, Busy
<1>13. CASE Elapse
  BY <1>13, RoundKept DEF Elapse, Initialized, Busy
<1>14. ASSUME NEW v \in Urls, Callback(v) PROVE RoundInv'
  <2>1. UNCHANGED <<pc, mi, api, isSending, caught, wifi>>
    BY <1>14 DEF Callback, OnlyConn
  <2>2. \A u \in Urls : Busy(u)' => Busy(u)
    BY <1>0, <1>14 DEF Callback, Busy
  <2> QED  BY <2>1, <2>2, RoundKept DEF Initialized
<1>15. CASE UNCHANGED vars
  BY <1>15, RoundKept DEF vars, Initialized, Busy
<1> QED  BY <1>1, <1>2, <1>3, <1>4, <1>5, <1>6, <1>7, <1>8, <1>9, <1>10, <1>11,
            <1>12, <1>13, <1>14, <1>15 DEF Next, Main

(* The invariant that ties busy connections to what main knows of them:    *)
(* each has an API object (getInstance), and when the loop over the meters *)
(* is over none is unknown to isSendingData, unless an exception cut it.   *)
THEOREM MainInvHolds ==
    ASSUME OneUsableUrl
    PROVE  Spec => []MainInv
<1>1. Init => MainInv
  <2>1. 1 \in MeterIds /\ 1 \in DOMAIN Meters[1]
    BY MetersType
  <2>2. ASSUME Init PROVE TypeOK
    <3>1. /\ conn \in [Urls -> {"INIT", "CONNECTING", "READY", "SENDING", "REPLIED"}]
          /\ asker \in [Urls -> Channels \cup {NoChannel}]
      BY <2>2 DEF Init
    <3>2. mi \in MeterIds /\ ki \in DOMAIN Meters[mi]
      BY <2>1, <2>2 DEF Init
    <3>3. reads \in 0..MaxReads /\ elapsed \in BOOLEAN
      BY <2>2, MainAssumption DEF Init
    <3> QED  BY <2>2, <3>1, <3>2, <3>3 DEF Init, TypeOK, PCs
  <2>3. ASSUME Init PROVE OwnerInv /\ RoundInv
    BY <2>3 DEF Init, OwnerInv, RoundInv, Busy
  <2> QED  BY <2>2, <2>3 DEF MainInv
<1>2. MainInv /\ [Next]_vars => MainInv'
  BY TypeStep, OwnerStep, RoundStep DEF MainInv
<1> QED  BY <1>1, <1>2, PTL DEF Spec

(* With a single usable URL WiFi is not turned off at the end of a round   *)
(* while a request is unanswered (wifi.disable() in main), except after an *)
(* exception.                                                              *)
THEOREM WifiIsKept ==
    ASSUME OneUsableUrl
    PROVE  Spec => AnswerKeepsWifi
<1>1. MainInv /\ [Next]_vars =>
          [Disable /\ wifi' = "off" /\ ~ caught =>
               \A u \in Urls : conn[u] \notin {"SENDING", "REPLIED"}]_vars
  <2>1. SUFFICES ASSUME MainInv, Disable, wifi' = "off", ~ caught, NEW u \in Urls
                 PROVE  conn[u] \notin {"SENDING", "REPLIED"}
    OBVIOUS
  <2>2. pc = "disable" /\ wifi # "off"
    BY <2>1 DEF Disable, At, MainInv, RoundInv, Initialized
  <2>3. ~ isSending
    BY <2>1, <2>2 DEF Disable, Unneeded
  <2>4. ~ Busy(u)
    BY <2>1, <2>2, <2>3 DEF MainInv, RoundInv, Initialized
  <2> QED  BY <2>4 DEF Busy
<1> QED  BY <1>1, MainInvHolds, PTL DEF Spec, AnswerKeepsWifi
=============================================================================
