----------------------------- MODULE MCTaskQueue -----------------------------
(* A small instance of TaskQueue for TLC.                                  *)
EXTENDS TaskQueue

CONSTANTS t1, w1, w2

\* What the repository's own gateway answers (edge_runtime.py: MQTT "accepted",
\* OCPP and Modbus "succeeded") and what other gateways may: a failure the
\* edge reports itself, and the "running" the README promises to record.
MCGatewayAnswers == {"accepted", "succeeded", "running"}
MCDeviceStatuses == {"executing", "rolled_back"}
=============================================================================
