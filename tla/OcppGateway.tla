---------------------------- MODULE OcppGateway ----------------------------
(* The OCPP side of a site gateway, edge_runtime.py:284-427 and 430-507:    *)
(* connections of charge points and the commands sent to them. Connections  *)
(* run as coroutines of one event loop, commands arrive on threads of the   *)
(* HTTP server: a thread reads the registry under its lock, hands the call  *)
(* to the loop and waits for it with a timeout, which does not cancel it.   *)
EXTENDS FiniteSets

CONSTANTS
    ChargePoints,
    Connections,    \* websocket connections, each used once
    PointOf,        \* connection -> the charge point its path names
    Commands,       \* tasks posted to the gateway
    NoConnection

ASSUME GatewayAssumption ==
    /\ PointOf \in [Connections -> ChargePoints]
    /\ NoConnection \notin Connections

VARIABLES
    handler,        \* connection -> none, serving, closed (socket gone), ended
    registry,       \* charge point -> the connection registered under its id
    displaced,      \* connections whose entry another handler replaced or removed
    command,        \* command -> new, looked_up, scheduled, sent, accepted, over
    target,         \* command -> the connection that its thread looked up
    httpAnswer,     \* command -> none, succeeded, failed, timed_out
    executed        \* commands that a charge point has executed

gatewayVars == <<handler, registry, displaced, command, target, httpAnswer, executed>>

Registered(c) == registry[PointOf[c]] = c

GatewayTypeOK ==
    /\ handler \in [Connections -> {"none", "serving", "closed", "ended"}]
    /\ registry \in [ChargePoints -> Connections \cup {NoConnection}]
    /\ displaced \subseteq Connections
    /\ command \in [Commands -> {"new", "looked_up", "scheduled", "sent", "accepted", "over"}]
    /\ target \in [Commands -> Connections \cup {NoConnection}]
    /\ httpAnswer \in [Commands -> {"none", "succeeded", "failed", "timed_out"}]
    /\ executed \subseteq Commands

GatewayInit ==
    /\ handler = [c \in Connections |-> "none"]
    /\ registry = [p \in ChargePoints |-> NoConnection]
    /\ displaced = {}
    /\ command = [k \in Commands |-> "new"]
    /\ target = [k \in Commands |-> NoConnection]
    /\ httpAnswer = [k \in Commands |-> "none"]
    /\ executed = {}

commandVars == <<command, target, httpAnswer, executed>>
connectionVars == <<handler, registry, displaced>>

(* A registry that keeps the connection it has.                             *)
ConnectKeepsFirst(c) ==
    /\ handler[c] = "none"
    /\ handler' = [handler EXCEPT ![c] = "serving"]
    /\ registry' = [registry EXCEPT ![PointOf[c]] = IF @ = NoConnection THEN c ELSE @]
    /\ UNCHANGED <<displaced, commandVars>>

(* on_connect: register, then serve. A charge point may connect again       *)
(* before the gateway has noticed that its old connection is dead.          *)
Connect(c) ==
    /\ handler[c] = "none"
    /\ handler' = [handler EXCEPT ![c] = "serving"]
    /\ registry' = [registry EXCEPT ![PointOf[c]] = c]
    /\ displaced' = displaced \cup ({registry[PointOf[c]]} \ {NoConnection})
    /\ UNCHANGED commandVars

ConnectionLost(c) ==
    /\ handler[c] = "serving"
    /\ handler' = [handler EXCEPT ![c] = "closed"]
    /\ UNCHANGED <<registry, displaced, commandVars>>

(* The finally of on_connect: the id is removed, whoever holds it now.      *)
Unregister(c) ==
    /\ handler[c] = "closed"
    /\ handler' = [handler EXCEPT ![c] = "ended"]
    /\ registry' = [registry EXCEPT ![PointOf[c]] = NoConnection]
    /\ displaced' = displaced \cup ({registry[PointOf[c]]} \ {c, NoConnection})
    /\ UNCHANGED commandVars

(* The thread of do_POST looks the charge point up under the lock; no entry *)
(* is answered with 502.                                                    *)
LookUp(k, p) ==
    /\ command[k] = "new"
    /\ target' = [target EXCEPT ![k] = registry[p]]
    /\ IF registry[p] = NoConnection
       THEN /\ command' = [command EXCEPT ![k] = "over"]
            /\ httpAnswer' = [httpAnswer EXCEPT ![k] = "failed"]
       ELSE /\ command' = [command EXCEPT ![k] = "looked_up"]
            /\ UNCHANGED httpAnswer
    /\ UNCHANGED <<executed, connectionVars>>

Schedule(k) ==
    /\ command[k] = "looked_up"
    /\ command' = [command EXCEPT ![k] = "scheduled"]
    /\ UNCHANGED <<target, httpAnswer, executed, connectionVars>>

(* The thread has answered already when it timed out.                       *)
Answer(k, said) == httpAnswer' = [httpAnswer EXCEPT ![k] = IF @ = "none" THEN said ELSE @]

(* The loop runs charge_point.call: a dead socket raises.                   *)
SendOnLoop(k) ==
    /\ command[k] = "scheduled"
    /\ IF handler[target[k]] = "serving"
       THEN /\ command' = [command EXCEPT ![k] = "sent"]
            /\ UNCHANGED httpAnswer
       ELSE /\ command' = [command EXCEPT ![k] = "over"]
            /\ Answer(k, "failed")
    /\ UNCHANGED <<target, executed, connectionVars>>

(* The charge point executes the profile and accepts it, or rejects it.     *)
DeviceAccepts(k) ==
    /\ command[k] = "sent"
    /\ executed' = executed \cup {k}
    /\ command' = [command EXCEPT ![k] = "accepted"]
    /\ UNCHANGED <<target, httpAnswer, connectionVars>>

(* An answer reaches the gateway over the connection that is still open.    *)
DeviceRejects(k) ==
    /\ command[k] = "sent"
    /\ handler[target[k]] = "serving"
    /\ command' = [command EXCEPT ![k] = "over"]
    /\ Answer(k, "failed")
    /\ UNCHANGED <<target, executed, connectionVars>>

AnswerSucceeded(k) ==
    /\ command[k] = "accepted"
    /\ handler[target[k]] = "serving"
    /\ command' = [command EXCEPT ![k] = "over"]
    /\ Answer(k, "succeeded")
    /\ UNCHANGED <<target, executed, connectionVars>>

(* future.result(timeout) raises in the thread, which answers 502; the      *)
(* coroutine stays with the loop and may still send the command.            *)
TimeOut(k) ==
    /\ command[k] \in {"scheduled", "sent", "accepted"}
    /\ httpAnswer[k] = "none"
    /\ httpAnswer' = [httpAnswer EXCEPT ![k] = "timed_out"]
    /\ UNCHANGED <<command, target, executed, connectionVars>>

GatewayNext ==
    \/ \E c \in Connections : Connect(c) \/ ConnectionLost(c) \/ Unregister(c)
    \/ \E k \in Commands :
        \/ \E p \in ChargePoints : LookUp(k, p)
        \/ Schedule(k) \/ SendOnLoop(k) \/ DeviceAccepts(k) \/ DeviceRejects(k)
        \/ AnswerSucceeded(k) \/ TimeOut(k)

GatewaySpec == GatewayInit /\ [][GatewayNext]_gatewayVars

-----------------------------------------------------------------------------
(* A connection that serves is the one its charge point is reached by,      *)
(* unless a newer one has taken its place or the end of an older one has    *)
(* taken its entry away (edge_runtime.py:289-305, 358-363); a handler that  *)
(* has ended is never reached.                                              *)
ServingIsReachable ==
    \A c \in Connections :
        /\ handler[c] = "serving" => Registered(c) \/ c \in displaced
        /\ handler[c] = "ended" => ~Registered(c)

(* A command answered with success has been executed by its charge point,   *)
(* and one answered with an error has not, unless the error was a timeout,  *)
(* after which it still may be (edge_runtime.py:301-307, 417-427).          *)
AnswersMatchDevice ==
    \A k \in Commands :
        /\ httpAnswer[k] = "succeeded" => k \in executed
        /\ httpAnswer[k] = "failed" => k \notin executed

(* Both together: the gateway knows its connections and its commands.       *)
GatewayKeepsTrack == ServingIsReachable /\ AnswersMatchDevice
=============================================================================
