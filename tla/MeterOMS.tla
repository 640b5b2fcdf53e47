------------------------------ MODULE MeterOMS ------------------------------
(***************************************************************************)
(* The OMS meter: the metering device is the master and repeats a telegram *)
(* until it hears the acknowledgement.  One call of read() takes frames    *)
(* until none comes.  Repeated telegrams are known by the meter's time.    *)
(***************************************************************************)
EXTENDS Naturals, Sequences

CONSTANTS
    Telegrams,  \* what the device sends, one after the other
    OmsRoom     \* n, the readings a call may return

(* The time of the meter, 0 when its clock is not set; whether the time    *)
(* comes ahead of the value; whether the telegram can be decrypted.        *)
Telegram == [time : Nat, first : BOOLEAN, key : BOOLEAN]

ASSUME OmsAssumption == Telegrams \in Seq(Telegram) /\ OmsRoom \in Nat

Numbers == 1 .. Len(Telegrams)

VARIABLES
    omspc,          \* closed, idle, receive
    cur,            \* the telegram the device sends
    lastTimestamp,  \* _last_timestamp
    ret,            \* the readings of this call
    stored,         \* history: each telegram became no, one or several readings
    full,           \* history: telegrams that came when there was no room
    heard           \* history: telegrams whose acknowledgement was heard

omsvars == <<omspc, cur, lastTimestamp, ret, stored, full, heard>>

OmsInit ==
    /\ omspc = "closed" /\ cur = 1 /\ lastTimestamp = 0 /\ ret = 0
    /\ stored = [k \in Numbers |-> 0] /\ full = {} /\ heard = {}

OmsOpen ==
    /\ omspc = "closed" /\ omspc' \in {"idle", "failed"}
    /\ UNCHANGED <<cur, lastTimestamp, ret, stored, full, heard>>

OmsRead ==
    /\ omspc = "idle" /\ omspc' = "receive" /\ ret' = 0
    /\ UNCHANGED <<cur, lastTimestamp, stored, full, heard>>

(* Nothing, a damaged frame or one of another kind ends the call.          *)
NoFrame ==
    /\ omspc = "receive" /\ omspc' = "idle"
    /\ UNCHANGED <<cur, lastTimestamp, ret, stored, full, heard>>

(* A value is stored with the meter's time or the local time.              *)
StoreValue(k) ==
    IF ret < OmsRoom
    THEN ret' = ret + 1 /\ stored' = [stored EXCEPT ![k] = IF @ = 0 THEN 1 ELSE 2] /\ UNCHANGED full
    ELSE full' = full \cup {k} /\ UNCHANGED <<ret, stored>>

(* Mutant: a telegram that is not complete in this call counts as new. *)
DuplicateMutant(t) == t.time # 0 /\ t.time = lastTimestamp /\ ret # 0

Duplicate(t) == t.time # 0 /\ t.time = lastTimestamp

(* The records in their order: the time of the last telegram again ends    *)
(* the evaluation, a new one is remembered.                                *)
Evaluate(k) ==
    LET t == Telegrams[k] IN
    IF ~t.key THEN UNCHANGED <<lastTimestamp, ret, stored, full>>
    ELSE /\ IF t.first /\ Duplicate(t) THEN UNCHANGED <<ret, stored, full>> ELSE StoreValue(k)
         /\ lastTimestamp' = IF t.time # 0 THEN t.time ELSE lastTimestamp

(* Every SND_UD is acknowledged, the ones that do not decrypt too.  The    *)
(* acknowledgement is heard, or lost: then the device repeats the telegram *)
(* or gives up.  When it cannot be sent the call ends.                     *)
Receive ==
    /\ omspc = "receive" /\ cur \in Numbers
    /\ Evaluate(cur)
    /\ \/ omspc' = "receive" /\ cur' = cur + 1 /\ heard' = heard \cup {cur}
       \/ omspc' \in {"receive", "idle"} /\ cur' \in {cur, cur + 1} /\ UNCHANGED heard

(* SND_NKE is acknowledged and changes nothing.                            *)
ReceiveNke ==
    /\ omspc = "receive" /\ omspc' \in {"receive", "idle"}
    /\ UNCHANGED <<cur, lastTimestamp, ret, stored, full, heard>>

OmsClose ==
    /\ omspc = "idle" /\ omspc' = "closed"
    /\ UNCHANGED <<cur, lastTimestamp, ret, stored, full, heard>>

OmsNext == OmsOpen \/ OmsRead \/ NoFrame \/ Receive \/ ReceiveNke \/ OmsClose

OmsSpec == OmsInit /\ [][OmsNext]_omsvars

-----------------------------------------------------------------------------
(* Properties. *)

(* However acknowledgements get lost and calls end, a telegram whose time  *)
(* is set and comes first becomes one reading at most, and one that the    *)
(* device has seen acknowledged became one, if the call had room and the   *)
(* meter's clock had moved on since the telegram before.                   *)
OmsOnce ==
    \A k \in Numbers :
        LET t == Telegrams[k] IN
        t.key /\ t.first /\ t.time # 0 =>
            /\ stored[k] <= 1
            /\ k \in heard \ full /\ (\A j \in 1 .. k - 1 : Telegrams[j].time # t.time) => stored[k] = 1

=============================================================================
