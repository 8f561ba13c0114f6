---------------------------- MODULE MCOrderOutbox ----------------------------
(* Small instances of OrderOutbox for TLC.                                 *)
EXTENDS OrderOutbox, TLC

CONSTANTS o1, x1, x2, w1, w2, i1, i2

\* Two pods of the deployment, each with an instance id of its own.
MCPods == w1 :> i1 @@ w2 :> i2
\* Two overlapping runs of the cron route, both called production-scheduler.
MCCronRuns == w1 :> i1 @@ w2 :> i1
=============================================================================
