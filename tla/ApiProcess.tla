------------------------------ MODULE ApiProcess ------------------------------
(***************************************************************************)
(* The life of the control plane API's process: index.ts loads the         *)
(* environment, config.ts reads it, app.ts puts the application together,  *)
(* and the server listens; on a signal prexit has the server closed, which *)
(* takes no new request and waits for those under way, and then ends the   *)
(* process.  Whoever runs the process may not wait that long.              *)
(***************************************************************************)
EXTENDS Naturals, FiniteSets

CONSTANTS
    ApiRequests,   \* the requests clients may have under way
    MaxRuns        \* bound on the starts of the process

ASSUME RunsAssumption == MaxRuns \in Nat

VARIABLES
    apStage,    \* of the process
    apRuns,     \* its starts
    apEnv,      \* LISTEN_PORT as the environment has it
    apPort,     \* the port the server listens on, 0 for none
    apRequest,  \* per request: "idle", "open", "answered", "refused", "cut"
    apKilled    \* history: the last end of the process was a kill

apVars == <<apStage, apRuns, apEnv, apPort, apRequest, apKilled>>

ProcessStages == {"down", "env", "config", "app", "running", "closing"}
EnvValues == {"unset", "0", "abc", "7777"}

(* Number(...) || default: neither zero nor what is no number counts.      *)
Numbers == [n \in {"0", "7777"} |-> IF n = "0" THEN 0 ELSE 7777]
NumberIfSet(value, default) ==
    IF value = "unset" THEN default ELSE IF value = "abc" THEN 0 ELSE Numbers[value]
NumberOr(value, default) ==
    IF value \in DOMAIN Numbers /\ Numbers[value] # 0 THEN Numbers[value] ELSE default

Open == {r \in ApiRequests : apRequest[r] = "open"}

(* May the process go?  server.close calls back when no request is left.   *)
ClosesAtOnce == TRUE
Closed == Open = {}

APInit ==
    /\ apStage = "down" /\ apRuns = 0
    /\ apEnv = "unset" /\ apPort = 0
    /\ apRequest = [r \in ApiRequests |-> "idle"]
    /\ apKilled = FALSE

-----------------------------------------------------------------------------
StartProcess(env) ==
    /\ apStage = "down"
    /\ apRuns < MaxRuns
    /\ apStage' = "env"
    /\ apRuns' = apRuns + 1
    /\ apEnv' = env
    /\ apKilled' = FALSE
    /\ UNCHANGED <<apPort, apRequest>>

(* A missing .env file is fine.                                            *)
LoadEnvironment ==
    /\ apStage = "env"
    /\ apStage' = "config"
    /\ UNCHANGED <<apRuns, apEnv, apPort, apRequest, apKilled>>

LoadConfig ==
    /\ apStage = "config"
    /\ apStage' = "app"
    /\ apPort' = NumberOr(apEnv, 5001)
    /\ UNCHANGED <<apRuns, apEnv, apRequest, apKilled>>

BuildAppAndListen ==
    /\ apStage = "app"
    /\ apStage' = "running"
    /\ UNCHANGED <<apRuns, apEnv, apPort, apRequest, apKilled>>

(* An .env file that cannot be read, no OpenAPI file, or a port in use.    *)
StartFails ==
    /\ apStage \in {"env", "app"}
    /\ apStage' = "down"
    /\ apPort' = 0
    /\ UNCHANGED <<apRuns, apEnv, apRequest, apKilled>>

ClientSends(r) ==
    /\ apRequest[r] # "open"
    /\ apRequest' = [apRequest EXCEPT ![r] =
           IF apStage = "running" THEN "open" ELSE "refused"]
    /\ UNCHANGED <<apStage, apRuns, apEnv, apPort, apKilled>>

(* Every request is answered by some handler, health among them, or by     *)
(* errorHandler.                                                           *)
ApiAnswers(r) ==
    /\ apRequest[r] = "open"
    /\ apRequest' = [apRequest EXCEPT ![r] = "answered"]
    /\ UNCHANGED <<apStage, apRuns, apEnv, apPort, apKilled>>

Signal ==
    /\ apStage = "running"
    /\ apStage' = "closing"
    /\ UNCHANGED <<apRuns, apEnv, apPort, apRequest, apKilled>>

Gone == /\ apStage' = "down"
        /\ apPort' = 0
        /\ apRequest' = [r \in ApiRequests |->
                            IF apRequest[r] = "open" THEN "cut" ELSE apRequest[r]]

ServerClosed ==
    /\ apStage = "closing"
    /\ Closed
    /\ Gone
    /\ UNCHANGED <<apRuns, apEnv, apKilled>>

Killed ==
    /\ apStage # "down"
    /\ Gone
    /\ apKilled' = TRUE
    /\ UNCHANGED <<apRuns, apEnv>>

APNext ==
    \/ \E v \in EnvValues : StartProcess(v)
    \/ LoadEnvironment \/ LoadConfig \/ BuildAppAndListen \/ StartFails
    \/ Signal \/ ServerClosed \/ Killed
    \/ \E r \in ApiRequests : ClientSends(r) \/ ApiAnswers(r)

APSpec == APInit /\ [][APNext]_apVars

-----------------------------------------------------------------------------
(* A process that serves has a port that is not zero, whatever the         *)
(* environment says of it.                                                 *)
APTypeOK ==
    /\ apStage \in ProcessStages
    /\ apRuns \in 0..MaxRuns
    /\ apEnv \in EnvValues
    /\ apRequest \in [ApiRequests -> {"idle", "open", "answered", "refused", "cut"}]
    /\ apStage \in {"app", "running", "closing"} <=> apPort # 0
    /\ apKilled \in BOOLEAN

(* A request that was accepted is cut off only by a kill: a process that   *)
(* was told to end answers what is under way first.                        *)
CutOnlyByKill ==
    [][\A r \in ApiRequests :
          apRequest[r] = "open" /\ apRequest'[r] = "cut" => apKilled']_apVars
=============================================================================
