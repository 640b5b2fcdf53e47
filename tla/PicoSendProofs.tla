--------------------------- MODULE PicoSendProofs ---------------------------
(***************************************************************************)
(* Proofs about PicoSend: type correctness, and that no reading is lost.   *)
(***************************************************************************)
EXTENDS PicoSend, TLAPS

-----------------------------------------------------------------------------
(* Facts about the cursor of the main loop. *)

(* The main loop always works on a channel of the current meter.           *)
LEMMA CursorType ==
    ASSUME TypeOK
    PROVE  /\ ch \in Channels
           /\ Meters[mi] \in Seq(Channels) /\ Len(Meters[mi]) \in Nat \ {0}
           /\ Len(Meters) \in Nat \ {0}
<1>1. /\ Meters \in Seq(Seq(Channels) \ {<<>>}) /\ Meters # <<>>
      /\ mi \in 1..Len(Meters) /\ ki \in 1..Len(Meters[mi])
  BY PicoAssumption DEF TypeOK, MainTypeOK
<1>2. Meters[mi] \in Seq(Channels) \ {<<>>} /\ Len(Meters) \in Nat \ {0}
  BY <1>1
<1>3. Len(Meters[mi]) \in Nat \ {0} /\ Meters[mi][ki] \in Channels
  BY <1>1, <1>2
<1> QED  BY <1>2, <1>3 DEF ch

(* The end of a channel loop keeps the cursor within the meters and leads  *)
(* to the next channel, the next meter or the next round.                  *)
LEMMA NextChannelType ==
    ASSUME TypeOK, NextChannel
    PROVE  /\ pc' \in {"sendData", "checkResponse", "meter", "loop"}
           /\ mi' \in 1..Len(Meters) /\ ki' \in 1..Len(Meters[mi'])
           /\ UNCHANGED <<buf, api, reads, sendDue, mode, ret, st>>
<1>1. /\ Meters \in Seq(Seq(Channels) \ {<<>>})
      /\ mi \in 1..Len(Meters) /\ ki \in 1..Len(Meters[mi])
      /\ Len(Meters) \in Nat \ {0} /\ Len(Meters[mi]) \in Nat \ {0}
  BY CursorType, PicoAssumption DEF TypeOK, MainTypeOK
<1>2. \A m \in 1..Len(Meters) : Len(Meters[m]) \in Nat \ {0}
  <2>1. TAKE m \in 1..Len(Meters)
  <2>2. Meters[m] \in Seq(Channels) \ {<<>>}
    BY <1>1
  <2> QED  BY <2>2
<1>3. CASE ki < Len(Meters[mi])
  BY <1>1, <1>3 DEF NextChannel
<1>4. CASE ~ (ki < Len(Meters[mi]))
  <2>1. ToNextMeter
    BY <1>4 DEF NextChannel
  <2>2. /\ pc' \in {"meter", "loop"} /\ ki' = 1
        /\ mi' \in 1..Len(Meters)
    <3>1. mi \in Nat /\ Len(Meters) \in Nat \ {0} /\ mi >= 1
      BY <1>1
    <3> QED  BY <2>1, <3>1 DEF ToNextMeter
  <2> QED  BY <1>2, <2>2, <1>4 DEF NextChannel
<1> QED  BY <1>3, <1>4

-----------------------------------------------------------------------------
(* Type correctness. *)

(* The tuples written into a body are a sequence of timestamps.            *)
LEMMA ChunkType ==
    ASSUME NEW S, NEW q \in Seq(S)
    PROVE  Chunk(q) \in Seq(S)
BY VolkszaehlerAssumption DEF Chunk

(* So is what processResponse leaves of _values.                           *)
LEMMA AfterType ==
    ASSUME NEW S, NEW q \in Seq(S), NEW payload
    PROVE  AfterSuccess(q) \in Seq(S) /\ AfterException(q, payload) \in Seq(S)
<1>1. AfterSuccess(q) \in Seq(S)
  BY VolkszaehlerAssumption DEF AfterSuccess
<1>2. AfterException(q, payload) \in Seq(S)
  BY DEF AfterException
<1> QED  BY <1>1, <1>2

(* The fixed interval keeps a timestamp a natural number. *)
LEMMA FixedType ==
    ASSUME NEW t \in Nat
    PROVE  Fixed(t) \in Nat
<1>1. CASE AggFixed > 0
  <2>1. AggFixed \in Nat /\ AggFixed > 0
    BY <1>1, PicoAssumption
  <2>2. t \div AggFixed \in Int /\ t \div AggFixed >= 0
    BY <2>1, SMTT(30)
  <2>3. t \div AggFixed \in Nat
    BY <2>2
  <2>4. \A m, n \in Nat : m * n \in Nat
    OBVIOUS
  <2>5. AggFixed * (t \div AggFixed) \in Nat
    BY <2>1, <2>3, <2>4
  <2> QED  BY <1>1, <2>5 DEF Fixed
<1>2. CASE ~ (AggFixed > 0)
  BY <1>2 DEF Fixed
<1> QED  BY <1>1, <1>2

(* aggregate() leaves a buffer of readings. *)
LEMMA AggregatesType ==
    ASSUME NEW c \in Channels, NEW b \in Seq(Reading), NEW a \in Aggregates(c, b)
    PROVE  a \in Seq(Reading)
<1>1. CASE AggMode[c] = "NONE" \/ b = <<>>
  BY <1>1 DEF Aggregates
<1>2. CASE ~ (AggMode[c] = "NONE" \/ b = <<>>)
  <2>1. PICK i \in DOMAIN b, v \in Values : a = <<[time |-> Fixed(b[i].time), value |-> v]>>
    BY <1>2 DEF Aggregates
  <2>2. b[i] \in Reading
    BY <2>1
  <2>3. b[i].time \in Nat
    BY <2>2 DEF Reading
  <2>4. Fixed(b[i].time) \in Nat
    BY <2>3, FixedType
  <2> QED  BY <2>1, <2>4 DEF Reading
<1> QED  BY <1>1, <1>2

(* What Serve appends is a sequence of pieces. *)
LEMMA DeliveriesType ==
    ASSUME NEW verdict \in {"ok", "dup", "fail"}, NEW d \in Deliveries(verdict)
    PROVE  d \in Seq(Piece)
<1>1. Answer(verdict) \in Piece
  BY DEF Answer, Piece
<1>2. /\ [Answer(verdict) EXCEPT !.payload = "none"] \in Piece
      /\ [http |-> 0, payload |-> verdict] \in Piece
  BY DEF Answer, Piece
<1>3. CASE d = <<Answer(verdict)>>
  BY <1>1, <1>3
<1>4. CASE d = <<[Answer(verdict) EXCEPT !.payload = "none"],
                 [http |-> 0, payload |-> verdict]>>
  BY <1>2, <1>4
<1>5. d = <<Answer(verdict)>>
      \/ d = <<[Answer(verdict) EXCEPT !.payload = "none"],
               [http |-> 0, payload |-> verdict]>>
  BY DEF Deliveries
<1> QED  BY <1>3, <1>4, <1>5

(* A step of a callback keeps the types of the connection and the network. *)
LEMMA CallbackType ==
    ASSUME TypeOK, Callback
    PROVE  LwipTypeOK' /\ NetTypeOK' /\ (data \in Piece => data' \in Piece)
<1> USE DEF TypeOK, LwipTypeOK, NetTypeOK
<1>1. CASE DnsFound
  BY <1>1 DEF DnsFound, StartConnect, netVars
<1>2. CASE Connected
  BY <1>2 DEF Connected, netVars
<1>3. CASE Poll
  BY <1>3 DEF Poll, netVars
<1>4. reqs \in Seq(Request) => Range(reqs) \subseteq Request
  BY DEF Range
<1>5. CASE ConnectionError
  BY <1>4, <1>5 DEF ConnectionError, Disconnect
<1>6. CASE RecvClosed
  BY <1>4, <1>6 DEF RecvClosed, DeletePCB, Disconnect
<1>7. CASE RecvData
  BY <1>7 DEF RecvData
<1> QED  BY <1>1, <1>2, <1>3, <1>5, <1>6, <1>7 DEF Callback

(* So does a step of the middleware. *)
LEMMA WorldType ==
    ASSUME TypeOK, World
    PROVE  LwipTypeOK' /\ NetTypeOK' /\ data' = data
<1> USE DEF TypeOK, LwipTypeOK, NetTypeOK
<1>1. LwipTypeOK' /\ data' = data
  BY DEF World, lwipVars
<1>2. ASSUME NEW r \in Request, Commit(r)
      PROVE  stored' \in [Channels -> SUBSET Nat]
  <2>1. Range(r.body) \subseteq Nat
    BY <1>2 DEF Request, Range
  <2> QED  BY <1>2, <2>1 DEF Commit, Request
<1>3. CASE Serve
  <2>1. Head(reqs) \in Request /\ reqs' \in Seq(Request) /\ orphans' = orphans
    BY <1>3 DEF Serve
  <2>2. PICK verdict \in {"ok", "dup", "fail"} :
          /\ IF verdict = "ok" THEN Commit(Head(reqs)) ELSE UNCHANGED stored
          /\ \E d \in Deliveries(verdict) : resps' = resps \o d
    BY <1>3 DEF Serve
  <2>3. stored' \in [Channels -> SUBSET Nat]
    BY <1>2, <2>1, <2>2
  <2>4. resps' \in Seq(Piece)
    BY <2>2, DeliveriesType
  <2> QED  BY <1>1, <2>1, <2>3, <2>4
<1>4. CASE ServeOrphan
  <2>1. PICK r \in orphans :
          /\ orphans' = orphans \ {r}
          /\ Commit(r) \/ UNCHANGED stored
          /\ UNCHANGED <<reqs, resps>>
    BY <1>4 DEF ServeOrphan
  <2>2. r \in Request
    OBVIOUS
  <2> QED  BY <1>1, <1>2, <2>1, <2>2
<1> QED  BY <1>1, <1>3, <1>4 DEF World

(* A step of the main loop keeps its own types ... *)
LEMMA MainLoopType ==
    ASSUME TypeOK, Main
    PROVE  MainTypeOK'
<1> USE DEF TypeOK, MainTypeOK, PCs, At, Goto, OnlyPC, OnlyPCAndSt
<1>1. ch \in Channels
  BY CursorType
<1>2. NextChannel => MainTypeOK'
  BY NextChannelType
<1>3. CASE ReadMeter
  <2>1. \A t \in Times, v \in Values : [time |-> t, value |-> v] \in Reading
    BY PicoAssumption DEF Reading
  <2>2. PICK c \in Channels, t \in Times, v \in Values :
          buf' = [buf EXCEPT ![c] = Append(@, [time |-> t, value |-> v])]
    BY <1>3 DEF ReadMeter
  <2>3. Append(buf[c], [time |-> t, value |-> v]) \in Seq(Reading)
    BY <2>1
  <2>4. buf' \in [Channels -> Seq(Reading)]
    BY <2>2, <2>3
  <2>5. reads' \in 0..MaxReads
    BY <1>3, PicoAssumption DEF ReadMeter
  <2> QED  BY <1>3, <2>4, <2>5 DEF ReadMeter
<1>4. CASE StartRound
  BY <1>4 DEF StartRound
<1>5. CASE VisitMeter
  <2>1. \A m \in 1..Len(Meters) : 1 \in 1..Len(Meters[m])
    <3>1. TAKE m \in 1..Len(Meters)
    <3>2. Meters[m] \in Seq(Channels) \ {<<>>}
      BY PicoAssumption
    <3> QED  BY <3>2
  <2>2. ToNextMeter => /\ mi' \in 1..Len(Meters) /\ ki' \in 1..Len(Meters[mi'])
                       /\ pc' \in {"meter", "loop"}
    <3>1. Len(Meters) \in Nat \ {0}
      BY PicoAssumption
    <3>2. CASE mi < Len(Meters)
      BY <2>1, <3>1, <3>2 DEF ToNextMeter
    <3>3. CASE ~ (mi < Len(Meters))
      BY <2>1, <3>1, <3>3 DEF ToNextMeter
    <3> QED  BY <3>2, <3>3
  <2> QED  BY <1>5, <2>2 DEF VisitMeter
<1>6. CASE SendData
  BY <1>1, <1>6, AggregatesType DEF SendData
<1>7. CASE Send
  <2>1. PICK s \in {state, "INIT"} :
          CASE s \in {"CONNECTING", "SENDING"}      -> NextChannel
            [] s = "INIT"                           -> Goto("reconnect")
            [] s = "READY" /\ buf[ch] = <<>>        -> NextChannel
            [] s = "READY" /\ buf[ch] # <<>>        -> Goto("tuples")
            [] s \in {"DNS", "REPLIED", "RETRY"}    -> Goto("checkResponse")
    BY <1>7 DEF Send
  <2>2. \A p \in {"reconnect", "tuples", "checkResponse"} : Goto(p) => MainTypeOK'
    OBVIOUS
  <2> QED  BY <1>2, <2>1, <2>2 DEF LwipTypeOK
<1>8. CASE Reconnect
  BY <1>8 DEF Reconnect
<1>9. CASE Connect
  <2>1. ReturnFromConnect => MainTypeOK'
    BY <1>2 DEF ReturnFromConnect
  <2>2. Goto("resolve") => MainTypeOK'
    OBVIOUS
  <2> QED  BY <1>9, <2>1, <2>2 DEF Connect
<1>10. CASE Resolve
  BY <1>2, <1>10 DEF Resolve, ReturnFromConnect
<1>11. CASE Tuple
  BY <1>1, <1>11 DEF Tuple
<1>12. CASE Body
  BY <1>12 DEF Body
<1>13. CASE PostRequest
  BY <1>13 DEF PostRequest, LwipTypeOK
<1>14. CASE Write
  BY <1>14 DEF Write
<1>15. CASE Switch
  BY <1>15 DEF Switch, StateAfter, LwipTypeOK
<1>16. CASE Return
  BY <1>16 DEF Return, LwipTypeOK
<1>20. CASE Posted
  BY <1>2, <1>20 DEF Posted
<1>17. CASE CheckResponse
  BY <1>2, <1>17 DEF CheckResponse, LwipTypeOK
<1>18. CASE Process
  BY <1>18 DEF Process
<1>19. CASE SetReady
  BY <1>2, <1>19 DEF SetReady
<1> QED  BY <1>3, <1>4, <1>5, <1>6, <1>7, <1>8, <1>9, <1>10, <1>11, <1>12, <1>13,
            <1>14, <1>15, <1>16, <1>17, <1>18, <1>19, <1>20 DEF Main

(* ... those of the API objects ... *)
LEMMA ApiType ==
    ASSUME TypeOK, Main
    PROVE  VzTypeOK'
<1> USE DEF TypeOK, VzTypeOK
<1>1. ch \in Channels
  BY CursorType
<1>2. CASE UNCHANGED vzVars
  BY <1>2 DEF vzVars
<1>3. CASE Tuple
  <2>1. Head(buf[ch]) \in Reading
    BY <1>1, <1>3 DEF Tuple, MainTypeOK
  <2>2. CASE Wanted(ch, Head(buf[ch]))
    <3>1. Head(buf[ch]).time \in Nat /\ Head(buf[ch]).value \in Values
      BY <2>1 DEF Reading
    <3>2. TakeOver(ch, Head(buf[ch]))
      BY <1>3 DEF Tuple
    <3>3. /\ Append(values[ch], Head(buf[ch]).time) \in Seq(Nat)
          /\ accepted[ch] \cup {Head(buf[ch]).time} \in SUBSET Nat
      BY <1>1, <3>1
    <3>4. values' \in [Channels -> Seq(Nat)]
      BY <2>2, <3>2, <3>3 DEF TakeOver
    <3>5. last_timestamp' \in [Channels -> Nat]
      BY <2>2, <3>1, <3>2 DEF TakeOver
    <3>6. lastReadingSent' \in [Channels -> Values \cup {NoValue}]
      BY <1>1, <2>2, <3>1, <3>2 DEF TakeOver
    <3>7. accepted' \in [Channels -> SUBSET Nat]
      BY <2>2, <3>2, <3>3 DEF TakeOver
    <3>8. UNCHANGED <<outputData, response>>
      BY <2>2, <3>2 DEF TakeOver
    <3> QED  BY <3>4, <3>5, <3>6, <3>7, <3>8
  <2>3. CASE ~ Wanted(ch, Head(buf[ch]))
    BY <1>2, <1>3, <2>3 DEF Tuple, TakeOver
  <2> QED  BY <2>2, <2>3
<1>4. CASE Body
  <2>1. Chunk(values[ch]) \in Seq(Nat)
    BY <1>1, ChunkType
  <2> QED  BY <1>1, <1>4, <2>1 DEF Body, BuildBody
<1>5. CASE Process
  <2>1. ProcessResponse(ch, data)
    BY <1>5 DEF Process
  <2>2. PICK q \in Seq(Nat) : values' = [values EXCEPT ![ch] = q]
    <3>1. values[ch] \in Seq(Nat)
      BY <1>1
    <3> QED  BY <2>1, <3>1, AfterType DEF ProcessResponse
  <2>3. \A r : response' = [response EXCEPT ![ch] = r] /\ r \in {"none", "ok", "dup", "fail"}
          => response' \in [Channels -> {"none", "ok", "dup", "fail"}]
    OBVIOUS
  <2>4. data.payload \in {"none", "ok", "dup", "fail"}
    BY <1>5 DEF Piece, Process, At, MainTypeOK
  <2> QED  BY <1>1, <2>1, <2>2, <2>3, <2>4 DEF ProcessResponse
<1> QED  BY <1>2, <1>3, <1>4, <1>5
    DEF Main, ReadMeter, StartRound, VisitMeter, SendData, Send, Reconnect, Connect,
        Resolve, PostRequest, Write, Switch, Return, Posted, CheckResponse, SetReady

(* ... and those of the connection and the network.                        *)
LEMMA ConnectionType ==
    ASSUME TypeOK, Main
    PROVE  LwipTypeOK' /\ NetTypeOK'
<1> USE DEF TypeOK, LwipTypeOK, NetTypeOK
<1>1. ch \in Channels
  BY CursorType
<1>2. reqs \in Seq(Request) => Range(reqs) \subseteq Request
  BY DEF Range
<1>3. CASE Reconnect
  BY <1>2, <1>3 DEF Reconnect, DropConnection, DeletePCB, Disconnect
<1>4. CASE Connect
  <2>1. CASE ConnectOK
    BY <2>1 DEF ConnectOK, StartConnect, InitPCB, netVars
  <2>2. CASE ConnectError
    BY <2>2 DEF ConnectError, InitPCB, netVars
  <2>3. CASE ConnectPending
    BY <2>3 DEF ConnectPending, InitPCB, netVars
  <2> QED  BY <1>4, <2>1, <2>2, <2>3 DEF Connect
<1>5. CASE Resolve
  BY <1>5 DEF Resolve, ConnectResolved, netVars
<1>6. CASE PostRequest
  BY <1>1, <1>6 DEF PostRequest, netVars
<1>7. CASE Write
  <2>1. [ch |-> ch, body |-> outputData[ch]] \in Request
    BY <1>1 DEF Request, VzTypeOK
  <2>2. PICK result \in {"OK", "MEM", "ERR"} :
          SendRequest([ch |-> ch, body |-> outputData[ch]], result)
    BY <1>7 DEF Write
  <2>3. CASE UNCHANGED <<state, netVars>>
    BY <1>7, <2>3 DEF Write, netVars
  <2>4. CASE /\ state' = "SENDING" /\ Transmit([ch |-> ch, body |-> outputData[ch]])
             /\ UNCHANGED <<resps, orphans, stored>>
    BY <1>7, <2>1, <2>4 DEF Write, Transmit
  <2> QED  BY <2>2, <2>3, <2>4 DEF SendRequest
<1>8. CASE Switch
  BY <1>8 DEF Switch, StateAfter, At, MainTypeOK, netVars
<1>9. CASE Posted
  BY <1>9 DEF Posted, netVars
<1>10. CASE CheckResponse
  BY <1>10 DEF CheckResponse, netVars
<1>11. CASE SetReady
  BY <1>11 DEF SetReady, netVars
<1>12. CASE UNCHANGED <<lwipVars, netVars>>
  BY <1>12 DEF lwipVars, netVars
<1> QED  BY <1>3, <1>4, <1>5, <1>6, <1>7, <1>8, <1>9, <1>10, <1>11, <1>12
    DEF Main, ReadMeter, StartRound, VisitMeter, SendData, Send, Tuple, Body, Return, Process

(* The constructors give every field a value of its type.                  *)
LEMMA TypeInit == Init => TypeOK
<1>1. /\ Len(Meters) \in Nat \ {0} /\ Meters[1] \in Seq(Channels) \ {<<>>}
      /\ MaxReads \in Nat
  BY PicoAssumption
<1>2. Len(Meters[1]) \in Nat \ {0}
  BY <1>1
<1>3. Init => VzTypeOK
  BY DEF Init, VzInit, VzTypeOK
<1>4. Init => LwipTypeOK
  BY DEF Init, LwipInit, LwipTypeOK
<1>5. Init => NetTypeOK
  BY DEF Init, NetInit, NetTypeOK
<1>6. Init => MainTypeOK
  <2>1. Init => buf \in [Channels -> Seq(Reading)] /\ api \in [Channels -> BOOLEAN]
    BY DEF Init
  <2>2. Init => reads \in 0..MaxReads /\ mi \in 1..Len(Meters) /\ ki \in 1..Len(Meters[mi])
    BY <1>1, <1>2 DEF Init
  <2> QED  BY <2>1, <2>2 DEF Init, MainTypeOK, PCs
<1> QED  BY <1>3, <1>4, <1>5, <1>6 DEF TypeOK

(* No step of the main loop, a callback or the network breaks a type.      *)
LEMMA TypeStep == TypeOK /\ [Next]_vars => TypeOK'
<1> SUFFICES ASSUME TypeOK, [Next]_vars  PROVE  TypeOK'
  OBVIOUS
<1>1. CASE Main
  BY <1>1, MainLoopType, ApiType, ConnectionType DEF TypeOK
<1>2. CASE /\ UNCHANGED <<mainVars, vzVars>> /\ LwipTypeOK' /\ NetTypeOK'
           /\ data \in Piece => data' \in Piece
  BY <1>2 DEF mainVars, vzVars, TypeOK, VzTypeOK, MainTypeOK
<1>3. CASE Interrupt
  BY <1>2, <1>3, CallbackType DEF Interrupt
<1>4. CASE Network
  BY <1>2, <1>4, WorldType DEF Network
<1>5. CASE UNCHANGED vars
  BY <1>2, <1>5 DEF vars, lwipVars, netVars, TypeOK, LwipTypeOK, NetTypeOK
<1> QED  BY <1>1, <1>3, <1>4, <1>5 DEF Next

(* Every variable keeps its type; in particular the channel loops of       *)
(* MeterMap never run past a meter's channels.                             *)
THEOREM TypeCorrect == Spec => []TypeOK
<1> QED  BY TypeInit, TypeStep, PTL DEF Spec
=============================================================================
