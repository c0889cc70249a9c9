------------------------------ MODULE MCScanJobs ------------------------------
(***************************************************************************)
(* Two scans on each of the deployments the commands can start.            *)
(***************************************************************************)
EXTENDS ScanJobs, TLC

CONSTANTS s1, s2

MCIds == {s1, s2}

\* depscope server --store memory | sqlite | dynamo, and the Lambda function.
MCServers ==
    {[db |-> "memory", mode |-> "local"], [db |-> "sqlite", mode |-> "local"],
     [db |-> "dynamo", mode |-> "local"], [db |-> "dynamo", mode |-> "lambda"]}

MCSqlite == {[db |-> "sqlite", mode |-> "local"]}
=============================================================================
