------------------------------ MODULE PicoSend ------------------------------
(***************************************************************************)
(* Sending on the Raspberry Pi Pico: the main loop of vzlogger_pico.cpp    *)
(* reads meters into channel buffers and pushes them through               *)
(* MeterMap::sendData, Channel::sendData and Volkszaehler::send over the   *)
(* one LwipIF the channels share, while lwIP's callbacks interrupt it.     *)
(*                                                                         *)
(* The main loop is one process; pc names the next access it makes to the  *)
(* fields it shares with the callbacks.  WiFi stays on here.               *)
(***************************************************************************)
EXTENDS Volkszaehler, LwipIF

CONSTANTS
    Meters,     \* a sequence of meters, each the sequence of its channels
    AggMode,    \* AggMode[c]: the channel option "aggmode"
    AggFixed,   \* aggtime when aggfixedinterval is set, else 0
    Times,      \* the timestamps the meters deliver
    MaxReads    \* bound: readings delivered in a behaviour

ASSUME PicoAssumption ==
    /\ Meters \in Seq(Seq(Channels) \ {<<>>}) \ {<<>>}
    /\ AggMode \in [Channels -> {"NONE", "MAX", "AVG", "SUM"}]
    /\ AggFixed \in Nat
    /\ Times \subseteq Nat
    /\ MaxReads \in Nat

VARIABLES
    buf,        \* buf[c]: the channel's Buffer
    api,        \* api[c]: Channel::api is constructed
    reads,      \* readings delivered so far
    sendDue,    \* nextSend <= 0 in this round of the main loop
    pc,         \* where the main loop is
    mi, ki,     \* current meter, and channel of this meter
    mode,       \* "send": in MeterMap::sendData; "check": in checkResponse
    ret,        \* where connect() returns to
    st          \* local variable: a state read, or what a call returned

mainVars == <<buf, api, reads, sendDue, pc, mi, ki, mode, ret, st>>
vars == <<mainVars, vzVars, lwipVars, netVars>>

PCs == {"loop", "meter", "sendData", "send", "reconnect", "connect", "resolve",
        "tuples", "postRequest", "write", "switch", "return", "posted",
        "checkResponse", "processResponse", "setReady"}

MainTypeOK ==
    /\ buf \in [Channels -> Seq(Reading)]
    /\ api \in [Channels -> BOOLEAN]
    /\ reads \in 0..MaxReads
    /\ sendDue \in BOOLEAN
    /\ pc \in PCs
    /\ mi \in 1..Len(Meters)
    /\ ki \in 1..Len(Meters[mi])
    /\ mode \in {"send", "check"}
    /\ ret \in {"send", "next"}
    /\ st \in {"INIT", "DNS", "CONNECTING", "READY", "SENDING", "REPLIED", "RETRY",
               "OK", "MEM", "ERR"}
    /\ pc = "switch" => st \in {"OK", "MEM", "ERR"}
    /\ pc = "processResponse" => data \in Piece

TypeOK == VzTypeOK /\ LwipTypeOK /\ NetTypeOK /\ MainTypeOK

Init ==
    /\ VzInit /\ LwipInit /\ NetInit
    /\ buf = [c \in Channels |-> <<>>]
    /\ api = [c \in Channels |-> FALSE]
    /\ reads = 0
    /\ sendDue = FALSE
    /\ pc = "loop"
    /\ mi = 1 /\ ki = 1
    /\ mode = "check"
    /\ ret = "next"
    /\ st = "INIT"

(* The channel the main loop works on. *)
ch == Meters[mi][ki]

At(p) == pc = p

(* Keep all of the main loop's own state but pc. *)
OnlyPC == UNCHANGED <<buf, api, reads, sendDue, mi, ki, mode, ret, st>>
OnlyPCAndSt == UNCHANGED <<buf, api, reads, sendDue, mi, ki, mode, ret>>

Goto(p) == pc' = p /\ OnlyPC

ToNextMeter ==
    IF mi < Len(Meters) THEN mi' = mi + 1 /\ ki' = 1 /\ pc' = "meter"
                        ELSE mi' = 1 /\ ki' = 1 /\ pc' = "loop"

(* Mutant: goes one channel too far. *)
NextChannelMutant ==
    /\ IF ki <= Len(Meters[mi])
       THEN /\ ki' = ki + 1 /\ mi' = mi
            /\ pc' = IF mode = "send" THEN "sendData" ELSE "checkResponse"
       ELSE ToNextMeter
    /\ UNCHANGED <<buf, api, reads, sendDue, mode, ret, st>>

(* The channel loops of MeterMap::sendData and MeterMap::checkResponse go  *)
(* on, and so does the loop over the meters.                               *)
NextChannel ==
    /\ IF ki < Len(Meters[mi])
       THEN /\ ki' = ki + 1 /\ mi' = mi
            /\ pc' = IF mode = "send" THEN "sendData" ELSE "checkResponse"
       ELSE ToNextMeter
    /\ UNCHANGED <<buf, api, reads, sendDue, mode, ret, st>>

-----------------------------------------------------------------------------
(* A due meter delivers a reading: MeterMap::read pushes it.               *)
ReadMeter ==
    /\ At("loop") /\ reads < MaxReads
    /\ reads' = reads + 1
    /\ \E c \in Channels, t \in Times, v \in Values :
          buf' = [buf EXCEPT ![c] = Append(@, [time |-> t, value |-> v])]
    /\ UNCHANGED <<api, sendDue, pc, mi, ki, mode, ret, st, vzVars, lwipVars, netVars>>

StartRound ==
    /\ At("loop")
    /\ sendDue' \in BOOLEAN
    /\ pc' = "meter"
    /\ UNCHANGED <<buf, api, reads, mi, ki, mode, ret, st, vzVars, lwipVars, netVars>>

ReadyToSend(m) == \E k \in DOMAIN Meters[m] : buf[Meters[m][k]] # <<>>

IsBusy(m) == Busy /\ \E k \in DOMAIN Meters[m] : api[Meters[m][k]]

VisitMeter ==
    /\ At("meter")
    /\ IF ReadyToSend(mi) /\ sendDue
       THEN pc' = "sendData" /\ mode' = "send" /\ UNCHANGED <<mi, ki>>
       ELSE IF IsBusy(mi)
       THEN pc' = "checkResponse" /\ mode' = "check" /\ UNCHANGED <<mi, ki>>
       ELSE ToNextMeter /\ UNCHANGED mode
    /\ UNCHANGED <<buf, api, reads, sendDue, ret, st, vzVars, lwipVars, netVars>>

-----------------------------------------------------------------------------
(* MeterMap::sendData and Volkszaehler::send for one channel. *)

Fixed(t) == IF AggFixed > 0 THEN AggFixed * (t \div AggFixed) ELSE t

(* What Buffer::aggregate may leave of b: nothing but the latest reading,  *)
(* with a value computed from all of them (module Buffer says which).      *)
Aggregates(c, b) ==
    IF AggMode[c] = "NONE" \/ b = <<>> THEN {b}
    ELSE {<<[time |-> Fixed(b[i].time), value |-> v]>> :
             i \in {j \in DOMAIN b : \A k \in DOMAIN b : b[k].time <= b[j].time},
             v \in Values}

(* Channel::sendData creates the API object first; its constructor         *)
(* connects unless another channel already did.                            *)
SendData ==
    /\ At("sendData")
    /\ \E b \in Aggregates(ch, buf[ch]) : buf' = [buf EXCEPT ![ch] = b]
    /\ api' = [api EXCEPT ![ch] = TRUE]
    /\ IF ~ api[ch] /\ ~ connectInitiated
       THEN pc' = "connect" /\ ret' = "send"
       ELSE pc' = "send" /\ UNCHANGED ret
    /\ UNCHANGED <<reads, sendDue, mi, ki, mode, st, vzVars, lwipVars, netVars>>

(* send() reads the state; a connect or request older than twice the       *)
(* timeout counts as INIT.                                                 *)
Send ==
    /\ At("send")
    /\ \E s \in {state} \cup IF state \in {"CONNECTING", "SENDING"} THEN {"INIT"} ELSE {} :
          CASE s \in {"CONNECTING", "SENDING"}      -> NextChannel
            [] s = "INIT"                           -> Goto("reconnect")
            [] s = "READY" /\ buf[ch] = <<>>        -> NextChannel
            [] s = "READY" /\ buf[ch] # <<>>        -> Goto("tuples")
            [] s \in {"DNS", "REPLIED", "RETRY"}    -> Goto("checkResponse")
    /\ UNCHANGED <<vzVars, lwipVars, netVars>>

Reconnect ==
    /\ At("reconnect")
    /\ DropConnection
    /\ pc' = "connect" /\ ret' = "next"
    /\ UNCHANGED <<buf, api, reads, sendDue, mi, ki, mode, st, vzVars>>

ReturnFromConnect == IF ret = "send" THEN Goto("send") ELSE NextChannel

Connect ==
    /\ At("connect")
    /\ \/ ConnectOK /\ ReturnFromConnect
       \/ ConnectError /\ ReturnFromConnect
       \/ ConnectPending /\ Goto("resolve")
    /\ UNCHANGED vzVars

Resolve ==
    /\ At("resolve")
    /\ ConnectResolved
    /\ ReturnFromConnect
    /\ UNCHANGED vzVars

(* api_json_tuples: one reading is considered, marked and cleaned ...      *)
Tuple ==
    /\ At("tuples") /\ buf[ch] # <<>>
    /\ TakeOver(ch, Head(buf[ch]))
    /\ buf' = [buf EXCEPT ![ch] = Tail(@)]
    /\ UNCHANGED <<api, reads, sendDue, pc, mi, ki, mode, ret, st, lwipVars, netVars>>

(* ... and with all of them considered the body is written.                *)
Body ==
    /\ At("tuples") /\ buf[ch] = <<>>
    /\ BuildBody(ch)
    /\ Goto("postRequest")
    /\ UNCHANGED <<lwipVars, netVars>>

PostRequest ==
    /\ At("postRequest")
    /\ IF state = "READY"
       THEN pc' = "write" /\ channel' = ch /\ UNCHANGED st
       ELSE pc' = "posted" /\ st' = state /\ UNCHANGED channel
    /\ OnlyPCAndSt
    /\ UNCHANGED <<state, data, pcb, connectInitiated, dnsPending, lwipHeld, vzVars, netVars>>

Write ==
    /\ At("write")
    /\ \E result \in {"OK", "MEM", "ERR"} :
          /\ SendRequest([ch |-> ch, body |-> outputData[ch]], result)
          /\ st' = result
    /\ pc' = "switch" /\ OnlyPCAndSt
    /\ UNCHANGED <<channel, data, pcb, connectInitiated, dnsPending, lwipHeld, vzVars>>

Switch ==
    /\ At("switch")
    /\ state' = StateAfter(st)
    /\ Goto("return")
    /\ UNCHANGED <<channel, data, pcb, connectInitiated, dnsPending, lwipHeld, vzVars, netVars>>

Return ==
    /\ At("return")
    /\ st' = state
    /\ pc' = "posted" /\ OnlyPCAndSt
    /\ UNCHANGED <<vzVars, lwipVars, netVars>>

(* Back in send(): "possibly out of memory, try again", or look at the     *)
(* state once more.                                                        *)
Posted ==
    /\ At("posted")
    /\ CASE st = "RETRY" ->
              state' = "READY" /\ NextChannel
         [] st # "RETRY" /\ state \in {"INIT", "SENDING", "REPLIED"} ->
              UNCHANGED state /\ Goto("checkResponse")
         [] OTHER ->
              state' = "INIT" /\ NextChannel
    /\ UNCHANGED <<channel, data, pcb, connectInitiated, dnsPending, lwipHeld, vzVars, netVars>>

-----------------------------------------------------------------------------
(* checkResponse: an answer to another channel's request is left to it.    *)
CheckResponse ==
    /\ At("checkResponse")
    /\ IF state = "REPLIED" /\ channel = ch
       THEN IF data = NoData
            THEN state' = "INIT" /\ NextChannel
            ELSE UNCHANGED state /\ Goto("processResponse")
       ELSE UNCHANGED state /\ NextChannel
    /\ UNCHANGED <<channel, data, pcb, connectInitiated, dnsPending, lwipHeld, vzVars, netVars>>

Process ==
    /\ At("processResponse")
    /\ ProcessResponse(ch, data)
    /\ Goto("setReady")
    /\ UNCHANGED <<lwipVars, netVars>>

SetReady ==
    /\ At("setReady")
    /\ state' = "READY"
    /\ NextChannel
    /\ UNCHANGED <<channel, data, pcb, connectInitiated, dnsPending, lwipHeld, vzVars, netVars>>

-----------------------------------------------------------------------------
Main ==
    \/ ReadMeter \/ StartRound \/ VisitMeter \/ SendData \/ Send \/ Reconnect
    \/ Connect \/ Resolve \/ Tuple \/ Body \/ PostRequest \/ Write \/ Switch
    \/ Return \/ Posted \/ CheckResponse \/ Process \/ SetReady

Interrupt == Callback /\ UNCHANGED <<mainVars, vzVars>>

Network == World /\ UNCHANGED <<mainVars, vzVars>>

Next == Main \/ Interrupt \/ Network

Spec == Init /\ [][Next]_vars

(* The main loop keeps running, the resolver answers, and lwIP polls its   *)
(* connections.  Nothing is assumed of the peer.                           *)
Fairness ==
    /\ WF_vars(Main /\ ~ ReadMeter)
    /\ WF_vars(DnsFound /\ UNCHANGED <<mainVars, vzVars>>)
    /\ WF_vars(Poll /\ UNCHANGED <<mainVars, vzVars>>)

FairSpec == Spec /\ Fairness

-----------------------------------------------------------------------------
(* Safety. *)

(* A reading taken over from the buffer stays in _values until the         *)
(* middleware holds it, however connections break, answers are lost and    *)
(* requests are repeated (processResponse, api_parse_exception).           *)
NoLoss == \A c \in Channels : accepted[c] \subseteq Range(values[c]) \cup stored[c]

(* The middleware never holds a reading while an older one of the channel  *)
(* that was taken over is missing: late requests of dropped connections    *)
(* cannot overtake (MAX_CHUNK_SIZE batches, pop_front on duplicates).      *)
NoGaps == \A c \in Channels : \A t \in stored[c], u \in accepted[c] :
             u < t => u \in stored[c]

(* postRequest may be called in VZ_SRV_READY only because nothing is       *)
(* outstanding then: neither a request nor an answer, not even a late one. *)
ReadyIsIdle == state = "READY" => reqs = <<>> /\ resps = <<>>

(* A body posted holds readings still waiting in _values, none that the    *)
(* middleware has acknowledged (api_json_tuples, outputData).              *)
FreshBody == At("write") => Range(outputData[ch]) \subseteq Range(values[ch])

(* Whatever connect() does, the main loop holds the lwIP lock no more when *)
(* a round is over.                                                        *)
LockReleased == At("loop") => ~ lwipHeld

(* The delivery promise of module Delivery. *)
Promise == INSTANCE Delivery WITH queue <- values,
                                  Stamps <- Times \cup {Fixed(t) : t \in Times}

Delivers == Promise!Spec

(* The inductive invariant behind NoLoss and NoGaps.  It needs answers that *)
(* arrive in one piece and output errors other than ERR_MEM.               *)
WholeAnswers == Split = FALSE /\ "MEM" \notin OutputResults

(* _values is in the order of time, and newer than nothing considered.     *)
QueueInv == \A c \in Channels :
    /\ \A i, j \in DOMAIN values[c] : i < j => values[c][i] < values[c][j]
    /\ Range(values[c]) \subseteq accepted[c]
    /\ stored[c] \subseteq accepted[c]
    /\ \A t \in accepted[c] : t <= last_timestamp[c]

(* A body leaves out no older reading the middleware does not hold.        *)
Complete(c, body) ==
    /\ Range(body) \subseteq accepted[c]
    /\ \A t \in Range(body), u \in accepted[c] :
          u < t => u \in Range(body) \cup stored[c]

BodyInv ==
    /\ \A c \in Channels : Complete(c, outputData[c])
    /\ \A r \in orphans : Complete(r.ch, r.body)

Idle == reqs = <<>> /\ resps = <<>>

(* connect() finds a pcb that is not connected, and lwIP owes the call of  *)
(* vz_altcp_dns_found only while connect() waits for it.                   *)
ConnectInv ==
    /\ pc = "connect" \/ dnsPending \/ (~ connectInitiated /\ pc # "resolve")
          => pcb \in {"none", "new"}
    /\ dnsPending => pc = "resolve" /\ state = "DNS"

(* The points where the code takes the connection for free. *)
TakenForFree ==
    \/ state \in {"READY", "REPLIED", "RETRY"}
    \/ pcb # "up"
    \/ pc \in {"tuples", "write", "processResponse", "setReady"}
    \/ pc = "switch" /\ st = "MEM"
    \/ pc = "posted" /\ st = "RETRY"

(* At most one request or answer is under way, and none at these points.   *)
IdleInv ==
    /\ reqs = <<>> \/ resps = <<>>
    /\ Len(reqs) <= 1 /\ Len(resps) <= 1
    /\ TakenForFree => Idle
    /\ state = "RETRY" => pc = "return" \/ (pc = "posted" /\ st = "RETRY")
    /\ pc = "tuples" => state # "REPLIED"

(* The logger holds an answer it has not processed yet. *)
Answered == (state = "REPLIED" /\ pc # "setReady") \/ pc = "processResponse"

(* What an answer says of the last body of channel c is true. *)
Truthful(c, piece) ==
    /\ piece.payload # "none"
    /\ piece.http = 200 => Range(outputData[c]) \subseteq stored[c]
    /\ piece.payload = "dup" => Range(outputData[c]) \cap stored[c] # {}

(* outputData is the front of _values, or repeats what was acknowledged.   *)
BodyOfQueue(c) == values[c] = <<>> \/ outputData[c] = Chunk(values[c])

(* The request under way is the last one posted, it holds the front of     *)
(* _values, and its answer is about it.                                    *)
AnswerInv ==
    /\ (~ Idle \/ Answered) => channel \in Channels /\ BodyOfQueue(channel)
    /\ reqs # <<>> => Head(reqs) = [ch |-> channel, body |-> outputData[channel]]
    /\ resps # <<>> => Truthful(channel, Head(resps))
    /\ Answered => data \in Piece /\ Truthful(channel, data)
    /\ pc = "processResponse" => channel = ch
    /\ pc = "postRequest" => BodyOfQueue(ch)
    /\ pc = "write" => BodyOfQueue(ch) /\ channel = ch

Inv ==
    /\ TypeOK
    /\ QueueInv /\ NoLoss /\ NoGaps /\ BodyInv
    /\ ConnectInv /\ IdleInv /\ AnswerInv

-----------------------------------------------------------------------------
(* Liveness. *)

(* The main loop is never caught in a round: the wait of connect() for the *)
(* resolver ends, whatever the answer is.                                  *)
RoundEnds == ~ At("loop") ~> At("loop")

(* isBusy keeps the WiFi on, so a request must not leave the connection    *)
(* waiting forever: it times out, fails, or its answer is taken by the     *)
(* channel that asked, even if no channel has anything new to send.        *)
RequestEnds == state \in {"SENDING", "REPLIED"} ~> state \notin {"SENDING", "REPLIED"}
=============================================================================
