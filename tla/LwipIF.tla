------------------------------- MODULE LwipIF -------------------------------
(***************************************************************************)
(* vz::api::LwipIF as a client: the connection to one middleware base URL, *)
(* shared by every channel that uses this URL (getInstance).  The main     *)
(* loop calls connect, reconnect and postRequest; lwIP calls the vz_altcp  *)
(* functions from an interrupt whenever nobody holds the lwIP lock.        *)
(* A call is split where an interrupt can come between two accesses to     *)
(* the shared fields; a section under the lwIP lock is one step.           *)
(***************************************************************************)
EXTENDS Middleware

CONSTANTS
    NoData,         \* no response received yet
    NoChannel,      \* no request posted yet
    DnsResults,     \* what dns_gethostbyname may return
    WriteResults,   \* what altcp_write may return
    OutputResults   \* what altcp_output may return

ASSUME LwipAssumption ==
    /\ NoData \notin Piece
    /\ NoChannel \notin Channels
    /\ DnsResults \subseteq {"OK", "INPROGRESS", "ERR"}
    /\ WriteResults \subseteq {"OK", "MEM", "ERR"}
    /\ OutputResults \subseteq {"OK", "MEM", "ERR"}

VARIABLES
    state,              \* the VZ_SRV_ constants a client instance uses
    channel,            \* channel of the last request
    data,               \* what vz_altcp_recv stored last
    pcb,                \* "none" is NULL, "new" is not connected
    connectInitiated,   \* connectInitiated # 0
    dnsPending,         \* lwIP still owes the call of vz_altcp_dns_found
    lwipHeld            \* cyw43_arch_lwip_begin without its _end

lwipVars == <<state, channel, data, pcb, connectInitiated, dnsPending, lwipHeld>>

LwipTypeOK ==
    /\ state \in {"INIT", "DNS", "CONNECTING", "READY", "SENDING", "REPLIED", "RETRY"}
    /\ channel \in Channels \cup {NoChannel}
    /\ data \in Piece \cup {NoData}
    /\ pcb \in {"none", "new", "connecting", "up"}
    /\ connectInitiated \in BOOLEAN
    /\ dnsPending \in BOOLEAN
    /\ lwipHeld \in BOOLEAN

(* The constructor calls initPCB. *)
LwipInit ==
    /\ state = "INIT"
    /\ channel = NoChannel
    /\ data = NoData
    /\ pcb = "new"
    /\ connectInitiated = FALSE
    /\ dnsPending = FALSE
    /\ lwipHeld = FALSE

Busy == state \notin {"READY", "INIT"}

-----------------------------------------------------------------------------
(* Calls of the main loop. *)

DeletePCB == pcb' = "none" /\ Disconnect

InitPCB == IF pcb = "none" THEN "new" ELSE pcb

(* altcp_connect inside vz_altcp_dns_found, from a pcb in state p. *)
StartConnect(p) ==
    \/ state' = "CONNECTING" /\ pcb' = "connecting"
    \/ state' = "INIT" /\ pcb' = p

(* connect() up to the wait for the resolver.  ERR_OK (name in lwIP's DNS  *)
(* table, or an IP address) returns before cyw43_arch_lwip_end.            *)
ConnectOK ==
    /\ "OK" \in DnsResults
    /\ StartConnect(InitPCB)
    /\ connectInitiated' = TRUE
    /\ lwipHeld' = TRUE
    /\ UNCHANGED <<channel, data, dnsPending, netVars>>

ConnectError ==
    /\ "ERR" \in DnsResults
    /\ state' = "INIT"
    /\ pcb' = InitPCB
    /\ UNCHANGED <<channel, data, connectInitiated, dnsPending, lwipHeld, netVars>>

ConnectPending ==
    /\ "INPROGRESS" \in DnsResults
    /\ state' = "DNS"
    /\ pcb' = InitPCB
    /\ dnsPending' = TRUE
    /\ UNCHANGED <<channel, data, connectInitiated, lwipHeld, netVars>>

(* connect() after its loop "while(state == VZ_SRV_DNS) sleep_ms(1000)".   *)
ConnectResolved ==
    /\ state # "DNS"
    /\ connectInitiated' = TRUE
    /\ UNCHANGED <<state, channel, data, pcb, dnsPending, lwipHeld, netVars>>

(* reconnect() before it calls connect(). *)
DropConnection ==
    /\ DeletePCB
    /\ UNCHANGED <<state, channel, data, connectInitiated, dnsPending, lwipHeld, stored>>

(* sendData(request) under the lwIP lock; result is what it returns.       *)
(* Writing to a NULL pcb is an error.  Once altcp_write has queued the     *)
(* request, lwIP transmits it even if altcp_output fails now.              *)
SendRequest(request, result) ==
    \/ /\ result \in WriteResults \cap {"MEM", "ERR"}
       /\ pcb = "up"
       /\ UNCHANGED <<state, netVars>>
    \/ /\ result = "ERR"
       /\ pcb # "up"
       /\ UNCHANGED <<state, netVars>>
    \/ /\ "OK" \in WriteResults
       /\ pcb = "up"
       /\ state' = "SENDING"
       /\ Transmit(request)
       /\ result \in OutputResults
       /\ UNCHANGED <<resps, orphans, stored>>

(* The switch on sendData's result at the end of postRequest. *)
StateAfter(result) ==
    CASE result = "MEM" -> "RETRY"
      [] result = "OK"  -> state
      [] result = "ERR" -> "INIT"

-----------------------------------------------------------------------------
(* Calls by lwIP. *)

(* Mutant: a name that is not found leaves the state alone. *)
DnsFoundMutant ==
    /\ dnsPending /\ ~ lwipHeld
    /\ dnsPending' = FALSE
    /\ StartConnect(pcb) \/ UNCHANGED <<state, pcb>>
    /\ UNCHANGED <<channel, data, connectInitiated, lwipHeld, netVars>>

DnsFound ==
    /\ dnsPending /\ ~ lwipHeld
    /\ dnsPending' = FALSE
    /\ \/ StartConnect(pcb)
       \/ state' = "INIT" /\ UNCHANGED pcb
    /\ UNCHANGED <<channel, data, connectInitiated, lwipHeld, netVars>>

Connected ==
    /\ pcb = "connecting" /\ ~ lwipHeld
    /\ \/ state' = "READY" /\ pcb' = "up"
       \/ state' = "INIT" /\ pcb' = "new"
    /\ UNCHANGED <<channel, data, connectInitiated, dnsPending, lwipHeld, netVars>>

(* Mutants: a request that timed out leaves the connection ready, or never *)
(* times out.                                                              *)
PollMutant ==
    /\ pcb \in {"connecting", "up"} /\ ~ lwipHeld
    /\ state \in {"CONNECTING", "SENDING"}
    /\ state' = "READY"
    /\ UNCHANGED <<channel, data, pcb, connectInitiated, dnsPending, lwipHeld, netVars>>
PollConnecting ==
    /\ pcb = "connecting" /\ ~ lwipHeld
    /\ state = "CONNECTING"
    /\ state' = "INIT"
    /\ UNCHANGED <<channel, data, pcb, connectInitiated, dnsPending, lwipHeld, netVars>>

(* lwIP polls periodically from the moment the connection is set up, so    *)
(* the call may come at any time after a request was sent.                 *)
Poll ==
    /\ pcb \in {"connecting", "up"} /\ ~ lwipHeld
    /\ state \in {"CONNECTING", "SENDING"}
    /\ state' = "INIT"
    /\ UNCHANGED <<channel, data, pcb, connectInitiated, dnsPending, lwipHeld, netVars>>

(* vz_altcp_err: lwIP has already freed the pcb. *)
ConnectionError ==
    /\ pcb \in {"connecting", "up"} /\ ~ lwipHeld
    /\ state' = "INIT"
    /\ pcb' = "none"
    /\ Disconnect
    /\ UNCHANGED <<channel, data, connectInitiated, dnsPending, lwipHeld, stored>>

(* vz_altcp_recv without a pbuf: the peer closed after its last answer. *)
RecvClosed ==
    /\ pcb = "up" /\ ~ lwipHeld
    /\ resps = <<>>
    /\ DeletePCB
    /\ state' = "INIT"
    /\ UNCHANGED <<channel, data, connectInitiated, dnsPending, lwipHeld, stored>>

RecvData ==
    /\ pcb = "up" /\ ~ lwipHeld
    /\ resps # <<>>
    /\ data' = Head(resps)
    /\ resps' = Tail(resps)
    /\ state' = "REPLIED"
    /\ UNCHANGED <<channel, pcb, connectInitiated, dnsPending, lwipHeld>>
    /\ UNCHANGED <<reqs, orphans, stored>>

Callback ==
    DnsFound \/ Connected \/ Poll \/ ConnectionError \/ RecvClosed \/ RecvData

World == (Serve \/ ServeOrphan) /\ UNCHANGED lwipVars
=============================================================================
