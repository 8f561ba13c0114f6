--------------------------- MODULE ProtocolIngress ---------------------------
(* A device message on its way into the control plane: the broker keeps an  *)
(* MQTT message until the gateway acknowledges it (edge_runtime.py:89-162), *)
(* the gateway forwards it and acknowledges only after a successful answer. *)
(* Charge points, pollers and integrations send theirs without a broker,    *)
(* and again if they like. The API stores the message and ingests its       *)
(* telemetry in two transactions (app.py:1547-1607, repository.py:347-431,  *)
(* 791-875). A caller gives up on a call that the API still executes.       *)
(* Several API processes serve calls at the same time.                      *)
EXTENDS Integers, FiniteSets

CONSTANTS
    Messages,
    Form,           \* message -> its protocol and message type
    Stamped,        \* those whose payload carries the device's timestamp
    MaxDeliveries   \* bound on the deliveries of a behaviour

ASSUME IngressAssumption ==
    /\ \A m \in Messages : {"protocol", "type"} \subseteq DOMAIN Form[m]
    /\ Stamped \subseteq Messages
    /\ MaxDeliveries \in Nat

VARIABLES
    broker,         \* message -> unsent, queued, delivered (unacknowledged), acked;
                    \* without a broker the sender's own knowledge
    deliveries,     \* deliveries so far
    waitingFor,     \* the calls whose answer somebody waits for
    calls,          \* calls the API has not finished: [key, stage]
    protocolRows,   \* idempotency keys in protocol_messages
    ingestLog       \* idempotency keys in telemetry_ingest_log

ingressVars == <<broker, deliveries, waitingFor, calls, protocolRows, ingestLog>>

(* normalize_protocol_message: what a message becomes. A reading it rejects *)
(* (a bad checksum, a bad quality) is telemetry all the same.               *)
Reports(protocol) ==
    CASE protocol \in {"ocpp", "ocpp16", "ocpp201", "ocpp21", "iso15118"} ->
            {"TransactionEvent", "MeterValues"}
      [] protocol = "mqtt" -> {"telemetry"}     \* or any type with a load_kw
      [] protocol = "bacnet_ip" -> {"cov", "readpropertymultiple", "telemetry"}
      [] protocol = "opc_ua" -> {"datachange", "read", "telemetry"}
      [] protocol \in {"iec61850", "iec104"} -> {"report", "spontaneous", "cyclic", "telemetry"}
      [] OTHER -> {}
IsTelemetry(m) ==
    \/ Form[m].protocol \in {"modbus", "modbus_tcp", "modbus_rtu", "dlt645", "cjt188"}
    \/ Form[m].type \in Reports(Form[m].protocol)

(* The timestamp the gateway supplies makes a new key of every delivery.    *)
Key(m, n) == [message |-> m, nth |-> IF m \in Stamped THEN 0 ELSE n]
Keys == [message: Messages, nth: 0 .. MaxDeliveries]
Calls == [key: Keys, call: 1 .. MaxDeliveries, stage: {"received", "stored", "ingested"}]
Brokered == {m \in Messages : Form[m].protocol = "mqtt"}
Awaited(m) == \E c \in calls : c.key.message = m /\ c.call \in waitingFor

IngressTypeOK ==
    /\ broker \in [Messages -> {"unsent", "queued", "delivered", "acked"}]
    /\ deliveries \in 0 .. MaxDeliveries
    /\ waitingFor \subseteq 1 .. MaxDeliveries
    /\ calls \subseteq Calls
    /\ protocolRows \subseteq Keys
    /\ ingestLog \subseteq Keys

IngressInit ==
    /\ broker = [m \in Messages |-> "unsent"]
    /\ deliveries = 0
    /\ waitingFor = {}
    /\ calls = {}
    /\ protocolRows = {}
    /\ ingestLog = {}

Publish(m) ==
    /\ m \in Brokered
    /\ broker[m] = "unsent"
    /\ broker' = [broker EXCEPT ![m] = "queued"]
    /\ UNCHANGED <<deliveries, waitingFor, calls, protocolRows, ingestLog>>

Call(m) ==
    /\ deliveries < MaxDeliveries
    /\ deliveries' = deliveries + 1
    /\ broker' = [broker EXCEPT ![m] = "delivered"]
    /\ waitingFor' = waitingFor \cup {deliveries'}
    /\ calls' = calls \cup {[key |-> Key(m, deliveries'), call |-> deliveries', stage |-> "received"]}
    /\ UNCHANGED <<protocolRows, ingestLog>>

(* _on_message runs in the client's one network thread: one call at a time. *)
Forward(m) ==
    /\ broker[m] = "queued"
    /\ \A other \in Brokered : ~Awaited(other)
    /\ Call(m)

(* Without a broker: for the first time, or again after an error.           *)
Send(m) ==
    /\ m \notin Brokered
    /\ broker[m] \in {"unsent", "delivered"}
    /\ ~Awaited(m)
    /\ Call(m)

Advance(c, stage) == calls' = (calls \ {c}) \cup {[c EXCEPT !.stage = stage]}

(* A handler that answers a key it knows at once.                           *)
PersistShortcut(c) ==
    /\ c.stage = "received"
    /\ protocolRows' = protocolRows \cup {c.key}
    /\ Advance(c, IF IsTelemetry(c.key.message) /\ c.key \notin protocolRows
                  THEN "stored" ELSE "ingested")
    /\ UNCHANGED <<broker, deliveries, waitingFor, ingestLog>>

(* A known key returns the stored row; the handler goes on all the same.    *)
PersistProtocolMessage(c) ==
    /\ c.stage = "received"
    /\ protocolRows' = protocolRows \cup {c.key}
    /\ Advance(c, IF IsTelemetry(c.key.message) THEN "stored" ELSE "ingested")
    /\ UNCHANGED <<broker, deliveries, waitingFor, ingestLog>>

IngestTelemetry(c) ==
    /\ c.stage = "stored"
    /\ ingestLog' = ingestLog \cup {c.key}
    /\ Advance(c, "ingested")
    /\ UNCHANGED <<broker, deliveries, waitingFor, protocolRows>>

(* An answer nobody waits for any more is lost.                             *)
AnswerAndAck(c) ==
    /\ c.stage = "ingested"
    /\ calls' = calls \ {c}
    /\ waitingFor' = waitingFor \ {c.call}
    /\ broker' = IF c.call \in waitingFor
                 THEN [broker EXCEPT ![c.key.message] = "acked"] ELSE broker
    /\ UNCHANGED <<deliveries, protocolRows, ingestLog>>

(* An error, a crash or the unique index (two deliveries of one key at      *)
(* once) ends the call after whichever transactions it has committed.       *)
CallFails(c) ==
    /\ calls' = calls \ {c}
    /\ waitingFor' = waitingFor \ {c.call}
    /\ UNCHANGED <<broker, deliveries, protocolRows, ingestLog>>

(* urlopen times out; the API knows nothing of it.                          *)
CallerGivesUp(c) ==
    /\ c.call \in waitingFor
    /\ waitingFor' = waitingFor \ {c.call}
    /\ UNCHANGED <<broker, deliveries, calls, protocolRows, ingestLog>>

(* The session persists (clean_session=False): the broker sends again what  *)
(* was not acknowledged. The gateway may have crashed in a call.            *)
Reconnect ==
    /\ \E m \in Brokered : broker[m] = "delivered"
    /\ broker' = [m \in Messages |->
            IF m \in Brokered /\ broker[m] = "delivered" THEN "queued" ELSE broker[m]]
    /\ waitingFor' = waitingFor \ {c.call : c \in {d \in calls : d.key.message \in Brokered}}
    /\ UNCHANGED <<deliveries, calls, protocolRows, ingestLog>>

IngressNext ==
    \/ \E m \in Messages : Publish(m) \/ Forward(m) \/ Send(m)
    \/ \E c \in calls :
        \/ PersistProtocolMessage(c) \/ IngestTelemetry(c)
        \/ AnswerAndAck(c) \/ CallFails(c) \/ CallerGivesUp(c)
    \/ Reconnect

IngressSpec == IngressInit /\ [][IngressNext]_ingressVars

-----------------------------------------------------------------------------
(* What the broker or the sender may forget the control plane has: the      *)
(* message is stored, and its telemetry ingested, under the same key, also  *)
(* when an earlier delivery stored it and failed before the second          *)
(* transaction (app.py:1554-1598, edge_runtime.py:149-159).                 *)
AckedIsIngested ==
    \A m \in Messages :
        broker[m] = "acked" =>
            \E k \in protocolRows :
                k.message = m /\ (IsTelemetry(m) => k \in ingestLog)
=============================================================================
