----------------------------- MODULE Middleware -----------------------------
(***************************************************************************)
(* The world outside the logger, as far as Volkszaehler.cpp and LwipIF.cpp *)
(* depend on it: one TCP connection at a time that carries POST requests   *)
(* and answers in order, and a middleware that stores a request's tuples   *)
(* as a whole or not at all and refuses a tuple it already holds           *)
(* (UniqueConstraintViolationException).                                   *)
(*                                                                         *)
(* When the logger drops a connection, its answers are lost; a request     *)
(* already handed to TCP may still be carried out later, or never.         *)
(***************************************************************************)
EXTENDS Naturals, Sequences, Functions

CONSTANTS
    Channels,
    Split       \* BOOLEAN: may an answer arrive as headers, then payload?

ASSUME SplitAssumption == Split \in BOOLEAN

VARIABLES
    reqs,       \* requests on the connection, not answered yet
    resps,      \* pieces of answers on their way back
    orphans,    \* requests of dropped connections that may still be served
    stored      \* stored[c]: timestamps the middleware holds for channel c

netVars == <<reqs, resps, orphans, stored>>

Request == [ch : Channels, body : Seq(Nat)]

(* One delivery of vz_altcp_recv.  http is 0 when it holds no status line. *)
Piece == [http : {0, 200, 400}, payload : {"none", "ok", "dup", "fail"}]

NetTypeOK ==
    /\ reqs \in Seq(Request)
    /\ resps \in Seq(Piece)
    /\ orphans \in SUBSET Request
    /\ stored \in [Channels -> SUBSET Nat]

NetInit ==
    /\ reqs = <<>>
    /\ resps = <<>>
    /\ orphans = {}
    /\ stored = [c \in Channels |-> {}]

Answer(verdict) == [http |-> IF verdict = "ok" THEN 200 ELSE 400,
                    payload |-> verdict]

(* The pieces in which an answer may reach the logger. *)
Deliveries(verdict) ==
    {<<Answer(verdict)>>} \cup
    IF Split THEN {<<[Answer(verdict) EXCEPT !.payload = "none"],
                     [http |-> 0, payload |-> verdict]>>}
             ELSE {}

Known(r) == Range(r.body) \cap stored[r.ch] # {}

Commit(r) == stored' = [stored EXCEPT ![r.ch] = @ \cup Range(r.body)]

(* The middleware handles the oldest request of the connection. *)
Serve ==
    /\ reqs # <<>>
    /\ reqs' = Tail(reqs)
    /\ \E verdict \in {"ok", "dup", "fail"} :
          /\ verdict = "ok"  => ~ Known(Head(reqs))
          /\ verdict = "dup" => Known(Head(reqs))
          /\ IF verdict = "ok" THEN Commit(Head(reqs)) ELSE UNCHANGED stored
          /\ \E pieces \in Deliveries(verdict) : resps' = resps \o pieces
    /\ UNCHANGED orphans

(* A request of a dropped connection is carried out late, or vanishes. *)
ServeOrphan ==
    \E r \in orphans :
        /\ orphans' = orphans \ {r}
        /\ \/ ~ Known(r) /\ Commit(r)
           \/ UNCHANGED stored
        /\ UNCHANGED <<reqs, resps>>

Transmit(r) == reqs' = Append(reqs, r)

(* The connection is gone. *)
Disconnect ==
    /\ orphans' = orphans \cup Range(reqs)
    /\ reqs' = <<>>
    /\ resps' = <<>>
=============================================================================
