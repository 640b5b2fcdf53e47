---------------------------- MODULE Volkszaehler ----------------------------
(***************************************************************************)
(* The state the volkszaehler.org API object keeps per channel, and the    *)
(* functions of Volkszaehler.cpp that change it.  _values is the list of   *)
(* readings taken over from the channel buffer and not acknowledged yet.   *)
(* A taken over reading is named by its timestamp: the value matters only  *)
(* to the duplicate filter.                                                *)
(***************************************************************************)
EXTENDS Middleware

CONSTANTS
    Values,         \* readings' values
    NoValue,        \* _lastReadingSent is NULL
    MaxChunkSize,   \* MAX_CHUNK_SIZE
    Duplicates      \* Duplicates[c]: channel option "duplicates", in ms

ASSUME VolkszaehlerAssumption ==
    /\ NoValue \notin Values
    /\ MaxChunkSize \in Nat \ {0}
    /\ Duplicates \in [Channels -> Nat]

VARIABLES
    values,             \* values[c]: _values
    last_timestamp,     \* last_timestamp[c]: _last_timestamp
    lastReadingSent,    \* lastReadingSent[c]: the value of _lastReadingSent
    outputData,         \* outputData[c]: the tuples in the last body built
    response,           \* response[c]: what response.data holds
    accepted            \* history: every timestamp ever appended to _values

vzVars == <<values, last_timestamp, lastReadingSent, outputData, response, accepted>>

Reading == [time : Nat, value : Values]

VzTypeOK ==
    /\ values \in [Channels -> Seq(Nat)]
    /\ last_timestamp \in [Channels -> Nat]
    /\ lastReadingSent \in [Channels -> Values \cup {NoValue}]
    /\ outputData \in [Channels -> Seq(Nat)]
    /\ response \in [Channels -> {"none", "ok", "dup", "fail"}]
    /\ accepted \in [Channels -> SUBSET Nat]

VzInit ==
    /\ values = [c \in Channels |-> <<>>]
    /\ last_timestamp = [c \in Channels |-> 0]
    /\ lastReadingSent = [c \in Channels |-> NoValue]
    /\ outputData = [c \in Channels |-> <<>>]
    /\ response = [c \in Channels |-> "none"]
    /\ accepted = [c \in Channels |-> {}]

(* Mutant: takes a second reading with the same timestamp over. *)
WantedMutant(c, r) ==
    /\ last_timestamp[c] <= r.time
    /\ \/ Duplicates[c] = 0
       \/ lastReadingSent[c] = NoValue
       \/ r.time >= last_timestamp[c] + Duplicates[c]
       \/ r.value # lastReadingSent[c]

(* Does api_json_tuples take the reading r over? *)
Wanted(c, r) ==
    /\ last_timestamp[c] < r.time
    /\ \/ Duplicates[c] = 0
       \/ lastReadingSent[c] = NoValue
       \/ r.time >= last_timestamp[c] + Duplicates[c]
       \/ r.value # lastReadingSent[c]

(* One round of the loop of api_json_tuples over the buffer. *)
TakeOver(c, r) ==
    IF Wanted(c, r)
    THEN /\ values' = [values EXCEPT ![c] = Append(@, r.time)]
         /\ last_timestamp' = [last_timestamp EXCEPT ![c] = r.time]
         /\ lastReadingSent' =
               [lastReadingSent EXCEPT ![c] = IF Duplicates[c] = 0 THEN @ ELSE r.value]
         /\ accepted' = [accepted EXCEPT ![c] = @ \cup {r.time}]
         /\ UNCHANGED <<outputData, response>>
    ELSE UNCHANGED vzVars

(* Mutant: the newest readings are sent first. *)
ChunkMutant(q) ==
    IF Len(q) <= MaxChunkSize THEN q ELSE SubSeq(q, Len(q) - MaxChunkSize + 1, Len(q))

Chunk(q) == IF Len(q) <= MaxChunkSize THEN q ELSE SubSeq(q, 1, MaxChunkSize)

(* The end of api_json_tuples: without values it leaves outputData alone.  *)
BuildBody(c) ==
    /\ outputData' = IF values[c] = <<>> THEN outputData
                     ELSE [outputData EXCEPT ![c] = Chunk(values[c])]
    /\ UNCHANGED <<values, last_timestamp, lastReadingSent, response, accepted>>

(* Mutants: a success clears all of _values, or one reading too many. *)
AfterSuccessMutant(q) == <<>>
AfterSuccessLate(q) ==
    IF Len(q) <= MaxChunkSize + 1 THEN <<>> ELSE SubSeq(q, MaxChunkSize + 1, Len(q))

AfterSuccess(q) ==
    IF Len(q) <= MaxChunkSize THEN <<>> ELSE SubSeq(q, MaxChunkSize + 1, Len(q))

(* Mutant: any exception drops the first value. *)
AfterExceptionMutant(q, payload) == IF q # <<>> THEN Tail(q) ELSE q

(* api_parse_exception drops the first value when the middleware names a   *)
(* UniqueConstraintViolationException.                                     *)
AfterException(q, payload) ==
    IF payload = "dup" /\ q # <<>> THEN Tail(q) ELSE q

(* checkResponse keeps the payload of the piece, if it has one, in         *)
(* response.data and calls processResponse with the status found, or 0.    *)
ProcessResponse(c, piece) ==
    LET payload == IF piece.payload = "none" THEN response[c] ELSE piece.payload
    IN  /\ response' = [response EXCEPT ![c] = payload]
        /\ values' = [values EXCEPT ![c] =
              IF piece.http = 200 THEN AfterSuccess(@) ELSE AfterException(@, payload)]
        /\ UNCHANGED <<last_timestamp, lastReadingSent, outputData, accepted>>
=============================================================================
