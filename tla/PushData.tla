------------------------------ MODULE PushData ------------------------------
(***************************************************************************)
(* The list that the reading threads fill for the push servers, and the    *)
(* thread that sends it.  PushDataList hands the whole map over, so it is  *)
(* a set of values here; what the thread could not send is dropped.        *)
(***************************************************************************)
EXTENDS CurlSessions, Naturals, Sequences

CONSTANTS
    PushThread      \* push_data_thread

VARIABLES
    servers,    \* the push middlewares in their order, each the key of a session
    pushList,   \* pushDataList: "none", "made" or "deleted"
    next,       \* _next
    endThread,
    ppc,        \* the push thread: "top", "timed", "send", "perform", "ended"
    dataMap,    \* what it took and must send
    si          \* the server it sends to

pushVars == <<pushList, next, endThread, ppc, dataMap, si>>

PushInit ==
    /\ pushList = IF servers = <<>> THEN "none" ELSE "made"
    /\ next = {}
    /\ endThread = FALSE
    /\ ppc = "top" /\ dataMap = {} /\ si = 1

(* PushDataList::add, called by a reading thread. *)
Add(value) == next' = next \cup {value}

(* waitForData changes the owner of the map. *)
TakeNext ==
    /\ dataMap' = next
    /\ next' = {}
    /\ ppc' = "send" /\ si' = 1
    /\ UNCHANGED <<pushList, endThread>>

(* Mutant: does not look at the end while it waits for data. *)
PushTopMutant ==
    /\ ppc = "top"
    /\ IF next # {} THEN TakeNext
       ELSE ppc' = "timed" /\ UNCHANGED <<pushList, next, endThread, dataMap, si>>

(* Ended, or data is there already, or up to 5 s on the condition variable. *)
PushTop ==
    /\ ppc = "top"
    /\ IF endThread THEN ppc' = "ended" /\ UNCHANGED <<pushList, next, endThread, dataMap, si>>
       ELSE IF next # {} THEN TakeNext
       ELSE ppc' = "timed" /\ UNCHANGED <<pushList, next, endThread, dataMap, si>>

PushWoken == ppc = "timed" /\ next # {} /\ TakeNext

(* Mutant: what comes when the time is over is forgotten. *)
PushTimeoutMutant ==
    /\ ppc = "timed"
    /\ ppc' = "top" /\ next' = {}
    /\ UNCHANGED <<pushList, endThread, dataMap, si>>

(* The time is over; data that has just come waits for the next call.      *)
PushTimeout ==
    /\ ppc = "timed"
    /\ ppc' = "top"
    /\ UNCHANGED <<pushList, next, endThread, dataMap, si>>

(* send(): one server after the other, each by its session ...             *)
PushGetSession ==
    /\ ppc = "send"
    /\ GetSession(PushThread, servers[si])
    /\ ppc' = "perform"
    /\ UNCHANGED <<pushList, next, endThread, dataMap, si>>

(* ... with a timeout of 30 s; errors are only reported.                   *)
PushPerform ==
    /\ ppc = "perform"
    /\ ReturnSession(servers[si])
    /\ IF si < Len(servers) THEN si' = si + 1 /\ ppc' = "send" /\ UNCHANGED dataMap
       ELSE si' = 1 /\ ppc' = "top" /\ dataMap' = {}
    /\ UNCHANGED <<pushList, next, endThread>>

PushNext ==
    \/ (PushTop \/ PushWoken \/ PushTimeout) /\ UNCHANGED sessionVars
    \/ PushGetSession \/ PushPerform

(* The session may be taken and given back infinitely often. *)
PushFairness == WF_<<pushVars, sessionVars>>(PushNext) /\ SF_<<pushVars, sessionVars>>(PushGetSession)
=============================================================================
