----------------------------- MODULE MCServices -----------------------------
(***************************************************************************)
(* One instance for each service that shares no state with the others: the *)
(* ingester, the performance cache, the status probes, the health of the   *)
(* materializer, the model registry, /predict and the page that polls. A   *)
(* behaviour is one of a single component, chosen at the start; the others *)
(* stay in an initial state.                                               *)
(***************************************************************************)
EXTENDS WsIngest, PerfCache, SystemStatus, Health, Serving, Predict, Polling, TLC

\* The model registry default, one with statistics for another dimension, and
\* one whose pipeline does not take its columns.
ApiServer(variant, legacy, set, more, fits, scaler) ==
  [variant |-> variant, legacy |-> legacy, set |-> set, schema |-> "1",
   more |-> more, fits |-> fits, scaler |-> scaler]
MCBaseline == ApiServer("baseline", TRUE, "core", FALSE, TRUE, "none")
MCServers ==
  {MCBaseline, ApiServer("ml", TRUE, "core", FALSE, TRUE, "ofColumns"),
   ApiServer("ml", FALSE, "multi", TRUE, TRUE, "ofOthers"),
   ApiServer("ml", FALSE, "multi", TRUE, FALSE, "none")}

VARIABLE service

vars == <<service, ingVars, perfVars, statusVars, healthVars, servingVars,
          predictVars, pollVars>>

\* Components that start anywhere start somewhere when they are not the service.
Init ==
  /\ service \in {"ingest", "perf", "status", "health", "registry", "predict",
                  "polling"}
  /\ IngInit /\ PerfInit /\ StatusInit /\ HealthInit /\ ServingInit
  /\ service # "predict" => server = MCBaseline
  /\ PredictInit
  /\ service # "polling" => visible = FALSE
  /\ PollingInit /\ (service # "polling" => page.param = "30m")

Next ==
  /\ UNCHANGED service
  /\ \/ /\ service = "ingest" /\ IngNext
        /\ UNCHANGED <<perfVars, statusVars, healthVars, servingVars, predictVars,
                       pollVars>>
     \/ /\ service = "perf" /\ PerfNext
        /\ UNCHANGED <<ingVars, statusVars, healthVars, servingVars, predictVars,
                       pollVars>>
     \/ /\ service = "status" /\ StatusNext
        /\ UNCHANGED <<ingVars, perfVars, healthVars, servingVars, predictVars,
                       pollVars>>
     \/ /\ service = "health" /\ HealthNext
        /\ UNCHANGED <<ingVars, perfVars, statusVars, servingVars, predictVars,
                       pollVars>>
     \/ /\ service = "registry" /\ ServingNext
        /\ UNCHANGED <<ingVars, perfVars, statusVars, healthVars, predictVars,
                       pollVars>>
     \/ /\ service = "predict" /\ PredictNext
        /\ UNCHANGED <<ingVars, perfVars, statusVars, healthVars, servingVars,
                       pollVars>>
     \/ /\ service = "polling" /\ PollingNext
        /\ UNCHANGED <<ingVars, perfVars, statusVars, healthVars, servingVars,
                       predictVars>>

Spec == Init /\ [][Next]_vars /\ IngFairness /\ PerfFairness

MCServiceNames == <<"api", "mlflow", "materializer">>
\* The source run that is published.
MCSourceOf == [p \in {"p1"} |-> "run1"]
=============================================================================
