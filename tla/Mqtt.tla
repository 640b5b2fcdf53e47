-------------------------------- MODULE Mqtt --------------------------------
(***************************************************************************)
(* The MQTT client: reading threads publish, one thread runs the loop of   *)
(* libmosquitto and reconnects, the main program ends both.  Libmosquitto  *)
(* and the broker are external: the session is there, lost, or being       *)
(* opened, and publishing works while it is there.                         *)
(***************************************************************************)
CONSTANTS
    MqttConfigs,    \* the options to consider
    MqttChannels,   \* channels
    Announcements   \* the values that identify a channel: id, uuid

(* The channel aggregates; rawAndAgg.                                      *)
MqttConfig == [agg : BOOLEAN, rawAndAgg : BOOLEAN]

ASSUME MqttAssumption == MqttConfigs \subseteq MqttConfig

VARIABLES
    mqconf,         \* the options
    mcs,            \* _mcs: "none", "alive", "destroyed"
    session,        \* none, opening (CONNACK awaited), open, lost (not noticed yet)
    isConnected,    \* _isConnected
    broker,         \* the broker accepts connections
    brokerStays,    \* broker will not change any more
    mqpc,           \* mqtt_client_thread: off, loop, sleep, ended
    publishers,     \* the reading threads run
    endMqtt,        \* endMqttClientThread
    entry,          \* _chMap: the channels that have an entry
    announced,      \* _announced
    accepted,       \* history: announcements that were accepted
    onTopic         \* history: the topics of readings that were accepted

mqvars == <<mqconf, mcs, session, isConnected, broker, brokerStays, mqpc, publishers, endMqtt,
            entry, announced, accepted, onTopic>>

MqttInit ==
    /\ mqconf \in MqttConfigs
    /\ mcs = "none" /\ session = "none" /\ isConnected = FALSE
    /\ broker \in BOOLEAN /\ brokerStays = FALSE
    /\ mqpc = "off" /\ publishers = TRUE /\ endMqtt = FALSE
    /\ entry = {} /\ announced = {} /\ accepted = [c \in MqttChannels |-> {}] /\ onTopic = {}

ChannelVars == <<entry, announced, accepted, onTopic>>
MainVars == <<mqconf, mcs, mqpc, publishers, endMqtt>>

Connecting == session' = IF broker THEN "opening" ELSE "none"

(* The constructor connects; a refusal is left to the thread.  Without a   *)
(* host, or with options libmosquitto refuses, there is no client.         *)
Construct ==
    /\ mcs = "none"
    /\ \/ mcs' = "alive" /\ Connecting /\ mqpc' = "loop"
       \/ mcs' = "disabled" /\ UNCHANGED <<session, mqpc>>
    /\ UNCHANGED <<mqconf, isConnected, broker, brokerStays, publishers, endMqtt, ChannelVars>>

BrokerChanges ==
    /\ ~brokerStays
    /\ \/ /\ broker' = ~broker
          /\ session' = (IF session \in {"opening", "open"} THEN "lost" ELSE session)
          /\ UNCHANGED brokerStays
       \/ broker /\ brokerStays' = TRUE /\ UNCHANGED <<broker, session>>
    /\ UNCHANGED <<MainVars, isConnected, ChannelVars>>

(* mosquitto_loop takes the CONNACK and calls connect_callback ...         *)
LoopConnack ==
    /\ mqpc = "loop" /\ ~endMqtt /\ session = "opening"
    /\ session' = "open" /\ isConnected' = TRUE
    /\ UNCHANGED <<MainVars, broker, brokerStays, ChannelVars>>

(* ... or finds the connection refused or lost, after disconnect_callback, *)
(* or none at all: the thread waits a second ...                           *)
LoopFails ==
    /\ mqpc = "loop" /\ ~endMqtt
    /\ session \in {"none", "lost"}
    /\ session' = "none" /\ isConnected' = FALSE
    /\ mqpc' = "sleep"
    /\ UNCHANGED <<mqconf, mcs, publishers, endMqtt, broker, brokerStays, ChannelVars>>

(* Mutant: only when it had been connected. *)
ReconnectMutant ==
    /\ mqpc = "sleep" /\ mqpc' = "loop"
    /\ IF isConnected THEN Connecting ELSE UNCHANGED session
    /\ UNCHANGED <<mqconf, mcs, publishers, endMqtt, isConnected, broker, brokerStays, ChannelVars>>

(* ... and reconnects, whatever failed.                                    *)
Reconnect ==
    /\ mqpc = "sleep" /\ mqpc' = "loop"
    /\ Connecting
    /\ UNCHANGED <<mqconf, mcs, publishers, endMqtt, isConnected, broker, brokerStays, ChannelVars>>

LoopEnds ==
    /\ mqpc = "loop" /\ endMqtt /\ mqpc' = "ended"
    /\ UNCHANGED <<mqconf, mcs, publishers, endMqtt, session, isConnected, broker, brokerStays, ChannelVars>>

(* What mosquitto_publish accepts of several messages: the connection may  *)
(* break between any two of them.                                          *)
Accepts(messages) == IF session = "open" THEN SUBSET messages ELSE {{}}

(* Mutant: announced when it was tried. *)
AnnounceMutant(c) ==
    /\ announced' = announced \cup {c}
    /\ \E ok \in Accepts(Announcements) : accepted' = [accepted EXCEPT ![c] = @ \cup ok]

(* Until one of the announcements is accepted, all are tried every time.   *)
Announce(c) ==
    IF c \in announced THEN UNCHANGED <<announced, accepted>>
    ELSE \E ok \in Accepts(Announcements) :
            /\ accepted' = [accepted EXCEPT ![c] = @ \cup ok]
            /\ announced' = IF ok = {} THEN announced ELSE announced \cup {c}

SendRaw == ~mqconf.agg \/ mqconf.rawAndAgg

(* publish(): the entry is made, the channel announced, and the reading    *)
(* goes to its topic if the channel has it.                                *)
Publish(c, aggregate) ==
    /\ mcs = "alive" /\ publishers
    /\ entry' = entry \cup {c}
    /\ Announce(c)
    /\ IF (aggregate /\ mqconf.agg) \/ (~aggregate /\ SendRaw)
       THEN \E ok \in Accepts({<<c, aggregate>>}) : onTopic' = onTopic \cup ok
       ELSE UNCHANGED onTopic
    /\ UNCHANGED <<MainVars, session, isConnected, broker, brokerStays>>

(* Shutdown: the signal handler ends the loop while reading threads still  *)
(* publish; they have ended when the client is destroyed.                  *)
ReadersEnd ==
    /\ mcs # "none" /\ publishers /\ publishers' = FALSE
    /\ UNCHANGED <<mqconf, mcs, mqpc, endMqtt, session, isConnected, broker, brokerStays, ChannelVars>>

EndMqttThread ==
    /\ mcs = "alive" /\ ~endMqtt /\ endMqtt' = TRUE
    /\ UNCHANGED <<mqconf, mcs, mqpc, publishers, session, isConnected, broker, brokerStays, ChannelVars>>

DestroyClient ==
    /\ endMqtt /\ mqpc = "ended" /\ mcs = "alive" /\ ~publishers
    /\ mcs' = "destroyed" /\ session' = "none"
    /\ UNCHANGED <<mqconf, mqpc, publishers, endMqtt, isConnected, broker, brokerStays, ChannelVars>>

MqttLoop == LoopConnack \/ LoopFails \/ Reconnect \/ LoopEnds

MqttNext ==
    \/ Construct \/ BrokerChanges \/ MqttLoop
    \/ \E c \in MqttChannels, aggregate \in BOOLEAN : Publish(c, aggregate)
    \/ ReadersEnd \/ EndMqttThread \/ DestroyClient

MqttFairness == WF_mqvars(MqttLoop)

MqttSpec == MqttInit /\ [][MqttNext]_mqvars

-----------------------------------------------------------------------------
(* Properties. *)

(* Whatever breaks while a channel is announced, it counts as announced    *)
(* when the broker knows one of its values, and not before.                *)
AnnouncedIsKnown == \A c \in MqttChannels : c \in announced <=> accepted[c] # {}

(* Once the broker stays, the client is connected or the program ends: a   *)
(* first connection that failed is tried again like a lost one.            *)
MqttReconnects == (brokerStays /\ mcs = "alive") ~> (session = "open" \/ endMqtt)

=============================================================================
