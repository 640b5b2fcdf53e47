------------------------------ MODULE MeterSML ------------------------------
(***************************************************************************)
(* The SML meter: its descriptor, which is lost when the device is         *)
(* unplugged or the peer closes the connection, and how read() gets a new  *)
(* one.  libsml delivers whole datagrams, or nothing when the descriptor   *)
(* fails; with a good descriptor it waits.                                 *)
(***************************************************************************)
EXTENDS Integers

CONSTANTS
    SmlConfigs,     \* the options to consider
    MaxFds          \* the limit of open descriptors

(* A serial device or a socket; a pull sequence asks for every datagram.   *)
SmlConfig == [tty : BOOLEAN, pull : BOOLEAN]

ASSUME SmlAssumption == SmlConfigs \subseteq SmlConfig /\ MaxFds \in Nat \ {0}

VARIABLES
    smlconf,    \* the options
    smlpc,      \* closed, idle, read (1st sml_transport_read), again (the 2nd), sleep, ...
    fd,         \* _fd: "none", "good", or "stale"
    fds,        \* descriptors open, the ones nobody knows any more included
    device,     \* the device is plugged in, the peer listens
    settled,    \* device will not change any more
    asked       \* the pull sequence has been written to the good descriptor

smlvars == <<smlconf, smlpc, fd, fds, device, settled, asked>>

SmlInit ==
    /\ smlconf \in SmlConfigs
    /\ smlpc = "closed" /\ fd = "none" /\ fds = 0
    /\ device \in BOOLEAN /\ settled = FALSE /\ asked = FALSE

Opened(n) == fd' = "good" /\ fds' = n + 1

(* Without a device open fails.                                            *)
OpenDevice(n) ==
    IF device /\ n < MaxFds THEN Opened(n) ELSE fd' = "none" /\ fds' = n

(* When the name is not known or connect fails, the socket is not closed.  *)
OpenSocket(n) ==
    IF n >= MaxFds THEN fd' = "none" /\ fds' = n
    ELSE IF device THEN Opened(n)
    ELSE fd' = "none" /\ fds' = n + 1

OpenWith(n) == IF smlconf.tty THEN OpenDevice(n) ELSE OpenSocket(n)

(* close() gives the descriptor back.                                      *)
AfterClose == IF fd = "none" THEN fds ELSE fds - 1

SmlOpen ==
    /\ smlpc = "closed"
    /\ OpenWith(fds)
    /\ smlpc' = IF fd' = "none" THEN "failed" ELSE "idle"
    /\ UNCHANGED <<smlconf, device, settled, asked>>

(* The device goes and comes back: what was open before stays dead.        *)
DeviceChanges ==
    /\ ~settled
    /\ \/ device' = ~device /\ fd' = (IF fd = "good" THEN "stale" ELSE fd) /\ UNCHANGED settled
       \/ device /\ settled' = TRUE /\ UNCHANGED <<device, fd>>
    /\ UNCHANGED <<smlconf, smlpc, fds, asked>>

Reopen == OpenWith(AfterClose) /\ asked' = FALSE

(* read(): without a descriptor it is opened again, or the call ends after *)
(* a second.                                                               *)
SmlRead ==
    /\ smlpc = "idle"
    /\ IF fd = "none" THEN Reopen ELSE UNCHANGED <<fd, fds, asked>>
    /\ smlpc' = IF fd' = "none" THEN "sleep" ELSE "pull"
    /\ UNCHANGED <<smlconf, device, settled>>

SmlSleep ==
    /\ smlpc = "sleep" /\ smlpc' = "idle"
    /\ UNCHANGED <<smlconf, fd, fds, device, settled, asked>>

SmlPull ==
    /\ smlpc = "pull" /\ smlpc' = "read"
    /\ asked' = (smlconf.pull /\ fd = "good")
    /\ UNCHANGED <<smlconf, fd, fds, device, settled>>

(* A datagram: short and damaged ones give no reading.  The meter sends    *)
(* by itself, or once for every pull sequence.                             *)
Datagram ==
    /\ smlpc \in {"read", "again"} /\ fd = "good" /\ (smlconf.pull => asked)
    /\ smlpc' \in {"parse", "idle"}
    /\ asked' = FALSE
    /\ UNCHANGED <<smlconf, fd, fds, device, settled>>

(* sml_file_parse, _parse of every entry: the readings are returned.       *)
SmlParse ==
    /\ smlpc = "parse" /\ smlpc' = "idle"
    /\ UNCHANGED <<smlconf, fd, fds, device, settled, asked>>

(* Mutant: nothing is reopened. *)
NothingReadMutant ==
    /\ smlpc = "read" /\ fd = "stale"
    /\ smlpc' = "idle"
    /\ UNCHANGED <<smlconf, fd, fds, device, settled, asked>>

(* The descriptor is dead: one more try with a new one.                    *)
NothingRead ==
    /\ smlpc = "read" /\ fd = "stale"
    /\ Reopen
    /\ smlpc' = IF fd' = "none" THEN "idle" ELSE "again"
    /\ UNCHANGED <<smlconf, device, settled>>

NothingAgain ==
    /\ smlpc = "again" /\ fd = "stale"
    /\ smlpc' = "idle"
    /\ UNCHANGED <<smlconf, fd, fds, device, settled, asked>>

(* The reading thread may be cancelled where it waits; the meter is closed.*)
SmlClose ==
    /\ smlpc \in {"idle", "sleep", "read", "again"}
    /\ smlpc' = "ended" /\ fds' = AfterClose
    /\ UNCHANGED <<smlconf, fd, device, settled, asked>>

SmlReading ==
    SmlRead \/ SmlSleep \/ SmlPull \/ SmlParse \/ NothingRead \/ NothingAgain

SmlNext == SmlOpen \/ DeviceChanges \/ SmlReading \/ Datagram \/ SmlClose

(* A meter that is there sends again and again, and some datagrams are     *)
(* whole.                                                                  *)
SmlFairness ==
    /\ WF_smlvars(SmlReading)
    /\ SF_smlvars(Datagram /\ smlpc' = "parse")

SmlSpec == SmlInit /\ [][SmlNext]_smlvars

-----------------------------------------------------------------------------
(* Properties. *)

(* Once the device is there for good, a datagram is read again, or the     *)
(* program ends.  Left out: a meter with a pull sequence, which is not     *)
(* asked after the reopening inside a call, so that both wait; and a       *)
(* program that has lost all its descriptors to failed connects.           *)
SmlRecovers ==
    (settled /\ ~smlconf.pull /\ fds < MaxFds /\ smlpc \notin {"closed", "failed"})
        ~> (smlpc \in {"parse", "ended"})

=============================================================================
