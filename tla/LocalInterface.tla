--------------------------- MODULE LocalInterface ---------------------------
(***************************************************************************)
(* The buffer behind the local web interface: the reading thread copies    *)
(* into it what is in the buffer of a channel, while the logging thread    *)
(* empties that buffer, and requests of the web server read it.            *)
(***************************************************************************)
EXTENDS Marking

CONSTANTS
    BufferLengths,  \* the values of buffer_length to consider
    MaxMade,        \* bound: readings
    MaxCopied,      \* bound: readings copied before the last round
    MaxLocalNow     \* bound: the clock

ASSUME LocalAssumption ==
    BufferLengths \subseteq Int \ {0} /\ MaxMade \in Nat /\ MaxCopied \in Nat /\ MaxLocalNow \in Nat

VARIABLES
    bufferLength,   \* buffer_length: seconds, or minus a number of readings
    localNow,       \* the clock
    channel,        \* the channel's buffer: readings with their deleted flag
    made,           \* the number of readings made
    roundpc,        \* the reading thread: read, shrink, lock, add, walk, undefined
    it,             \* the iterator of the walk: a reading, 0 at the end
    localbuffer,    \* localbuffer[uuid]
    taken,          \* the logging thread is between marking and cleaning
    request,        \* a request: none, lock, found
    minT,           \* the limit that each thread has computed to shrink by
    walked,         \* history: what was copied
    expired,        \* history: positions in walked that were below the limit of a shrinking
    early           \* history: readings the logging thread had before they were copied

localVars == <<bufferLength, localNow, channel, made, roundpc, it, localbuffer, taken, request,
               minT, walked, expired, early>>

LocalInit ==
    /\ bufferLength \in BufferLengths
    /\ localNow = 0 /\ channel = <<>> /\ made = 0
    /\ roundpc = "read" /\ it = 0 /\ localbuffer = <<>>
    /\ taken = FALSE /\ request = "none" /\ minT = [thread \in {"round", "request"} |-> 0]
    /\ walked = <<>> /\ expired = {} /\ early = {}

LocalTick ==
    /\ localNow < MaxLocalNow /\ localNow' = localNow + 1
    /\ UNCHANGED <<bufferLength, channel, made, roundpc, it, localbuffer, taken, request,
                   minT, walked, expired, early>>

-----------------------------------------------------------------------------
(* The reading thread *)

PushReading ==
    /\ roundpc = "read" /\ made < MaxMade
    /\ made' = made + 1
    /\ channel' = Append(channel, [id |-> made + 1, t |-> localNow, deleted |-> FALSE])
    /\ UNCHANGED <<bufferLength, localNow, roundpc, it, localbuffer, taken, request, minT, walked,
                   expired, early>>

CleanChannel ==
    /\ Len(walked) < MaxCopied
    /\ roundpc = "read" /\ roundpc' = "shrink"
    /\ channel' = Cleaned(channel)
    /\ UNCHANGED <<bufferLength, localNow, made, it, localbuffer, taken, request, minT, walked,
                   expired, early>>

(* The limit is computed before the lock.                                  *)
ComputeLimit(thread) == minT' = [minT EXCEPT ![thread] = localNow - bufferLength]

(* Mutant: readings that have the limit's time are removed as well. *)
ShrinkLocalbufferMutant(min) ==
    LET stay == {i \in DOMAIN localbuffer : localbuffer[i].t > min}
    IN  /\ localbuffer' = IF stay = {} THEN <<>>
                          ELSE SubSeq(localbuffer, CHOOSE i \in stay : \A j \in stay : i <= j,
                                      Len(localbuffer))
        /\ expired' = expired \cup {i \in DOMAIN walked : walked[i].t < min}

(* The oldest go, up to the first one that is young enough.                *)
ShrinkLocalbuffer(min) ==
    LET stay == {i \in DOMAIN localbuffer : localbuffer[i].t >= min}
    IN  /\ localbuffer' = IF stay = {} THEN <<>>
                          ELSE SubSeq(localbuffer, CHOOSE i \in stay : \A j \in stay : i <= j,
                                      Len(localbuffer))
        /\ expired' = expired \cup {i \in DOMAIN walked : walked[i].t < min}

(* With a number of readings to keep there is nothing to shrink here.      *)
ShrinkBegin ==
    /\ roundpc = "shrink"
    /\ IF bufferLength >= 0 THEN roundpc' = "lock" /\ ComputeLimit("round")
       ELSE roundpc' = "add" /\ UNCHANGED minT
    /\ UNCHANGED <<bufferLength, localNow, channel, made, it, localbuffer, taken, request, walked,
                   expired, early>>

ShrinkRound ==
    /\ roundpc = "lock" /\ roundpc' = "add"
    /\ ShrinkLocalbuffer(minT["round"])
    /\ UNCHANGED <<bufferLength, localNow, channel, made, it, taken, request, minT, walked, early>>

FirstOf(s) == IF s = <<>> THEN 0 ELSE s[1].id

(* The walk over the channel's buffer, without its mutex ...               *)
AddBegin ==
    /\ roundpc = "add" /\ roundpc' = "walk"
    /\ it' = FirstOf(channel)
    /\ UNCHANGED <<bufferLength, localNow, channel, made, localbuffer, taken, request, minT, walked,
                   expired, early>>

AddReading ==
    /\ roundpc = "walk" /\ it # 0
    /\ \E i \in DOMAIN channel :
         /\ channel[i].id = it
         /\ it' = FirstOf(SubSeq(channel, i + 1, Len(channel)))
         /\ IF channel[i].deleted THEN UNCHANGED <<localbuffer, walked>>
            ELSE LET d == [id |-> channel[i].id, t |-> channel[i].t]
                 IN localbuffer' = Append(localbuffer, d) /\ walked' = Append(walked, d)
    /\ UNCHANGED <<bufferLength, localNow, channel, made, roundpc, taken, request, minT, expired, early>>

LastOf(s, n) == SubSeq(s, IF Len(s) > n THEN Len(s) - n + 1 ELSE 1, Len(s))

(* ... and the end of it.                                                  *)
AddEnd ==
    /\ roundpc = "walk" /\ it = 0
    /\ roundpc' = "read"
    /\ localbuffer' = IF bufferLength < 0 THEN LastOf(localbuffer, -bufferLength) ELSE localbuffer
    /\ UNCHANGED <<bufferLength, localNow, channel, made, it, taken, request, minT, walked, expired, early>>

-----------------------------------------------------------------------------
(* The logging thread *)

(* The API copies what it finds and marks it ...                           *)
MarkAll ==
    /\ ~taken /\ channel # <<>> /\ taken' = TRUE
    /\ channel' = [i \in DOMAIN channel |-> [channel[i] EXCEPT !.deleted = TRUE]]
    /\ early' = early \cup (IdsOf(channel) \ IdsOf(walked))
    /\ UNCHANGED <<bufferLength, localNow, made, roundpc, it, localbuffer, request, minT, walked, expired>>

(* ... and what is marked is erased.  An iterator that stands on it is     *)
(* undefined then.                                                         *)
EraseMarked ==
    /\ taken /\ taken' = FALSE
    /\ channel' = Cleaned(channel)
    /\ roundpc' = IF roundpc = "walk" /\ it \in IdsOf(channel) \ IdsOf(channel')
                  THEN "undefined" ELSE roundpc
    /\ UNCHANGED <<bufferLength, localNow, made, it, localbuffer, request, minT, walked, expired, early>>

-----------------------------------------------------------------------------
(* The web server *)

(* Without localbuffer_mutex nobody gets further.                          *)
Unlocked == roundpc # "walk"

(* A request: it shrinks the buffers, whichever channel it is for ...      *)
HandleRequest ==
    /\ request = "none" /\ roundpc # "undefined"
    /\ IF bufferLength >= 0 THEN request' = "lock" /\ ComputeLimit("request")
       ELSE request' \in {"none", "found"} /\ UNCHANGED minT
    /\ UNCHANGED <<bufferLength, localNow, channel, made, roundpc, it, localbuffer, taken, walked,
                   expired, early>>

ShrinkRequest ==
    /\ request = "lock" /\ Unlocked /\ roundpc # "undefined"
    /\ request' \in {"none", "found"}
    /\ ShrinkLocalbuffer(minT["request"])
    /\ UNCHANGED <<bufferLength, localNow, channel, made, roundpc, it, taken, minT, walked, early>>

(* ... and reads the one of this channel, when it is asked for.            *)
JsonTuples ==
    /\ request = "found" /\ Unlocked /\ roundpc # "undefined"
    /\ request' = "none"
    /\ UNCHANGED <<bufferLength, localNow, channel, made, roundpc, it, localbuffer, taken, minT,
                   walked, expired, early>>

LocalNext ==
    \/ LocalTick \/ PushReading \/ CleanChannel \/ ShrinkBegin \/ ShrinkRound \/ AddBegin \/ AddReading \/ AddEnd
    \/ MarkAll \/ EraseMarked \/ HandleRequest \/ ShrinkRequest \/ JsonTuples

LocalSpec == LocalInit /\ [][LocalNext]_localVars

-----------------------------------------------------------------------------
(* Properties. *)

(* No reading was copied in two rounds: the API had taken them in between. *)
EachOnce == \A i, j \in DOMAIN walked : walked[i].id = walked[j].id => i = j

(* What a request may find: the last readings that were copied, by their   *)
(* number, or without those that were too old when it was looked at.       *)
Window ==
    IF bufferLength < 0 THEN localbuffer = LastOf(walked, -bufferLength)
    ELSE \E n \in 0..Len(walked) :
            expired = 1..n /\ localbuffer = SubSeq(walked, n + 1, Len(walked))

(* However the threads interleave, what a request reads is the window of   *)
(* the readings; one that is missing was taken by the logging thread       *)
(* before the reading thread came to copy it.  This holds as long as no    *)
(* iterator is left on an erased reading and, for a window of time, every  *)
(* reading is copied once: a repeated one is younger than those behind it. *)
WindowServed ==
    /\ Unlocked /\ roundpc # "undefined" /\ (bufferLength >= 0 => EachOnce) => Window
    /\ roundpc = "read" => 1..made \subseteq IdsOf(walked) \cup early \cup IdsOf(channel)

=============================================================================
