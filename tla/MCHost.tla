------------------------------- MODULE MCHost -------------------------------
(* Small instances, for TLC, of what runs beside the reading threads of a  *)
(* host and of the connections that have to recover.  In each behaviour    *)
(* one part moves and the others stay where they begin.                    *)
EXTENDS Threads, MeterSML, Mqtt

A == "a"
B == "b"

Conf(channels, servers_, maxPush) ==
    [channels |-> [m \in {"m"} |-> channels], order |-> <<"m">>, servers |-> servers_,
     maxPush |-> [c \in {A, B} |-> IF c = A THEN maxPush[1] ELSE maxPush[2]]]

(* An aggregated channel, a channel that shares its URL with the push      *)
(* server, and a meter of two channels.                                    *)
MCConfigs == {Conf(<<A>>, <<>>, <<2, 0>>), Conf(<<B>>, <<"middleware">>, <<0, 1>>),
              Conf(<<A, B>>, <<>>, <<0, 1>>)}

MCKey == [c \in {A, B} |-> "middleware"]

-----------------------------------------------------------------------------
VARIABLE part

hostVars == <<threadVars, smlvars, mqvars, part>>

Parts == {"threads", "sml", "mqtt"}

First(S) == CHOOSE x \in S : TRUE

(* Where it begins, every part but the threads waits for its first call;   *)
(* without the threads the main program has ended.                         *)
HostInit ==
    /\ part \in Parts
    /\ IF part = "threads" THEN ThreadsInit
       ELSE NoThreads /\ mpc = "done" /\ conf = First(Configs)
    /\ SmlInit /\ (part = "sml" \/ (smlconf = First(SmlConfigs) /\ device))
    /\ MqttInit /\ (part = "mqtt" \/ (mqconf = First(MqttConfigs) /\ broker))

ThreadsPart == part = "threads" /\ ThreadsNext /\ UNCHANGED <<smlvars, mqvars, part>>
SmlPart == part = "sml" /\ SmlNext /\ UNCHANGED <<threadVars, mqvars, part>>
MqttPart == part = "mqtt" /\ MqttNext /\ UNCHANGED <<threadVars, smlvars, part>>

(* The process has ended, or it is in one of the two deadlocks; the other  *)
(* parts may come to an end.                                               *)
Stopped ==
    /\ part = "threads" => ~Alive \/ ReaderBlocked \/ PushBlocked
    /\ UNCHANGED hostVars

HostNext == ThreadsPart \/ SmlPart \/ MqttPart \/ Stopped

HostSpec ==
    /\ HostInit /\ [][HostNext]_hostVars
    /\ ThreadsFairness /\ SmlFairness /\ MqttFairness
=============================================================================
