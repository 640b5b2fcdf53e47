------------------------------ MODULE Delivery ------------------------------
(***************************************************************************)
(* What a logging API promises about the readings it takes over from the   *)
(* channel buffer, without buffers, connections or responses: a reading    *)
(* taken over stays queued until the middleware has stored it, the         *)
(* middleware stores every reading at most once and a channel's readings   *)
(* in their order, and the queue is given up from its front only.          *)
(*                                                                         *)
(* A reading is named by its timestamp.  PicoSend implements this          *)
(* specification.                                                          *)
(***************************************************************************)
EXTENDS Naturals, Sequences, Functions

CONSTANTS
    Channels,
    Stamps      \* the timestamps a reading may have, natural numbers

VARIABLES
    queue,      \* queue[c]: the timestamps taken over and not given up yet
    accepted,   \* accepted[c]: every timestamp ever taken over
    stored      \* stored[c]: the timestamps the middleware holds

vars == <<queue, accepted, stored>>

Init ==
    /\ queue = [c \in Channels |-> <<>>]
    /\ accepted = [c \in Channels |-> {}]
    /\ stored = [c \in Channels |-> {}]

(* A reading newer than every earlier one enters the queue of its channel. *)
Accept(c, t) ==
    /\ \A u \in accepted[c] : u < t
    /\ queue' = [queue EXCEPT ![c] = Append(@, t)]
    /\ accepted' = [accepted EXCEPT ![c] = @ \cup {t}]
    /\ UNCHANGED stored

(* The middleware stores a batch: nothing in it is known to it, and every  *)
(* older reading of the channel is, so no gap opens.                       *)
Store(c, batch) ==
    /\ batch \subseteq accepted[c] \ stored[c]
    /\ \A t \in batch, u \in accepted[c] : u < t => u \in batch \cup stored[c]
    /\ stored' = [stored EXCEPT ![c] = @ \cup batch]
    /\ UNCHANGED <<queue, accepted>>

(* The channel gives up the first n readings of its queue, all stored.     *)
Release(c, n) ==
    /\ \A i \in 1..n : queue[c][i] \in stored[c]
    /\ queue' = [queue EXCEPT ![c] = SubSeq(@, n + 1, Len(@))]
    /\ UNCHANGED <<accepted, stored>>

Next ==
    \E c \in Channels :
        \/ \E t \in Stamps : Accept(c, t)
        \/ \E batch \in SUBSET accepted[c] : Store(c, batch)
        \/ \E n \in 1..Len(queue[c]) : Release(c, n)

Spec == Init /\ [][Next]_vars
=============================================================================
