------------------------------ MODULE InfluxDB ------------------------------
(***************************************************************************)
(* The InfluxDB API: the logging thread puts what is in the buffer of its  *)
(* channel into one request, keeps it there until the server has taken it, *)
(* and drops the oldest readings when there are too many.  The reading     *)
(* thread pushes meanwhile.  A reading is its number, which is its time.   *)
(***************************************************************************)
EXTENDS Marking, SequencesExt

CONSTANTS
    InfluxConfigs,  \* the options to consider
    InfluxValues,   \* the values of readings
    MaxPushed       \* bound: readings pushed

(* duplicates, in steps of time; max_batch_inserts, max_buffer_size.       *)
InfluxConfig == [duplicates : Nat, maxBatch : Nat \ {0}, maxBuffer : Nat]

ASSUME InfluxAssumption == InfluxConfigs \subseteq InfluxConfig /\ MaxPushed \in Nat

VARIABLES
    infconf,    \* the options
    ibuf,       \* the buffer: readings with their deleted flag
    pushed,     \* the number of readings pushed
    infpc,      \* idle, build, perform
    body,       \* the readings of the request
    infLast,    \* _last_timestamp
    lastSent,   \* the value of _lastReadingSent, 0 for none
    server,     \* readings the database has
    dropped,    \* history: readings the buffer had no room for
    repeated,   \* history: readings held back as duplicates
    failed      \* history: readings of failed requests

infvars == <<infconf, ibuf, pushed, infpc, body, infLast, lastSent, server,
             dropped, repeated, failed>>

InfluxInit ==
    /\ infconf \in InfluxConfigs
    /\ ibuf = <<>> /\ pushed = 0
    /\ infpc = "idle" /\ body = <<>> /\ infLast = 0 /\ lastSent = 0
    /\ server = {} /\ dropped = {} /\ repeated = {} /\ failed = {}

(* The reading thread, whenever the buffer is not locked.                  *)
InfluxPush(v) ==
    /\ pushed < MaxPushed
    /\ pushed' = pushed + 1
    /\ ibuf' = Append(ibuf, [id |-> pushed + 1, value |-> v, deleted |-> FALSE])
    /\ UNCHANGED <<infconf, infpc, body, infLast, lastSent, server, dropped, repeated, failed>>

(* send() has its session; when the buffer is too large the oldest ones    *)
(* are deleted, with whatever was marked before.                           *)
TrimBuffer ==
    /\ infpc = "idle" /\ infpc' = "build"
    /\ IF Len(ibuf) > infconf.maxBuffer
       THEN LET n == Len(ibuf) - infconf.maxBuffer IN
            /\ ibuf' = Cleaned(SubSeq(ibuf, n + 1, Len(ibuf)))
            /\ dropped' = dropped \cup IdsOf(SubSeq(ibuf, 1, n))
       ELSE UNCHANGED <<ibuf, dropped>>
    /\ UNCHANGED <<infconf, pushed, body, infLast, lastSent, server, repeated, failed>>

(* What the loop over the buffer keeps: the lines, and the two members     *)
(* that decide about the next reading.                                     *)
Filter(acc, r) ==
    LET new  == infconf.duplicates = 0 \/ acc.sent = 0
                  \/ r.id >= acc.last + infconf.duplicates \/ r.value # acc.sent
        line == acc.last <= r.id /\ new
    IN IF Len(acc.lines) >= infconf.maxBatch THEN acc
       ELSE [lines |-> IF line THEN Append(acc.lines, r.id) ELSE acc.lines,
             last  |-> IF line THEN r.id ELSE acc.last,
             sent  |-> IF line /\ infconf.duplicates > 0 THEN r.value ELSE acc.sent,
             seen  |-> acc.seen \cup {r.id},
             dups  |-> IF acc.last <= r.id /\ ~new THEN acc.dups \cup {r.id} ELSE acc.dups]

(* The loop over the buffer.                                               *)
Filtered ==
    LET start == [lines |-> <<>>, last |-> infLast, sent |-> lastSent, seen |-> {}, dups |-> {}]
        after[i \in 0..Len(ibuf)] == IF i = 0 THEN start ELSE Filter(after[i - 1], ibuf[i])
    IN  after[Len(ibuf)]

(* Readings up to the limit of a request are looked at and marked.  With   *)
(* nothing to send the marks stay.                                         *)
BuildRequest ==
    /\ infpc = "build"
    /\ LET all == Filtered
       IN /\ body' = all.lines /\ infLast' = all.last /\ lastSent' = all.sent
          /\ ibuf' = [i \in DOMAIN ibuf |-> [ibuf[i] EXCEPT !.deleted = @ \/ ibuf[i].id \in all.seen]]
          /\ repeated' = repeated \cup all.dups
          /\ infpc' = IF all.lines = <<>> THEN "idle" ELSE "perform"
    /\ UNCHANGED <<infconf, pushed, server, dropped, failed>>

(* The server takes the request, or not; its answer arrives, or not.       *)
PerformInsert ==
    /\ infpc = "perform" /\ infpc' = "idle" /\ body' = <<>>
    /\ \/ /\ server' = server \cup ToSet(body)
          /\ ibuf' = Cleaned(ibuf) /\ UNCHANGED failed
       \/ /\ server' \in {server, server \cup ToSet(body)}
          /\ ibuf' = Undeleted(ibuf)
          /\ failed' = failed \cup ToSet(body)
    /\ UNCHANGED <<infconf, pushed, infLast, lastSent, dropped, repeated>>

InfluxNext ==
    \/ \E v \in InfluxValues : InfluxPush(v)
    \/ TrimBuffer \/ BuildRequest \/ PerformInsert

InfluxSpec == InfluxInit /\ [][InfluxNext]_infvars

-----------------------------------------------------------------------------
(* Properties. *)

Lost == 1 .. pushed \ (IdsOf(ibuf) \cup server \cup dropped \cup repeated)

(* However pushes interleave with a request, a reading that was never in a *)
(* failed request is in the buffer or in the database, or it was dropped   *)
(* for room or held back as a duplicate.                                   *)
InfluxKept == Lost \subseteq failed

=============================================================================
