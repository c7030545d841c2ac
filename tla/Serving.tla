------------------------------- MODULE Serving -------------------------------
(***************************************************************************)
(* The MLflow registry and who uses it: scripts/log_model_to_mlflow.py,    *)
(* which registers the bundled model and puts it into Production;          *)
(* scripts/publish_candidate_to_registry.py, which puts a qualified        *)
(* candidate into Staging; a person, who moves versions between stages;    *)
(* and api/main.py, which loads the version of a stage when it starts.     *)
(*                                                                         *)
(* A version stands for its run: its pipeline and its contract (feature    *)
(* columns, feature set, tau) are its number.  Each request to the         *)
(* registry is a step, and each may fail.                                  *)
(***************************************************************************)
EXTENDS Integers, Sequences, FiniteSets

CONSTANTS
  Publishers,   \* invocations of publish_candidate_to_registry.py
  SourceOf,     \* the source run each one publishes
  Provisional,  \* those with --provisional
  Bootstraps,   \* invocations of log_model_to_mlflow.py
  ServesLegacy, \* (MODEL_NAME, MODEL_STAGE) = LEGACY_MODEL_SELECTION
  MaxVersions,  \* bound: versions in the registry
  MaxMoves,     \* bound: stage changes by a person
  MaxStarts     \* bound: starts of the API

ASSUME ServingAssumption ==
  /\ Publishers \cap Bootstraps = {} /\ Provisional \subseteq Publishers
  /\ ServesLegacy \in BOOLEAN
  /\ MaxVersions \in Nat /\ MaxMoves \in Nat /\ MaxStarts \in Nat

VARIABLES
  versions,   \* the registry: for each version its model, stage and tags
  script,     \* what each invocation does next, and its version
  api,        \* the API process
  moves, starts,
  moved       \* ghost: a stage of the served model changed since the API asked

servingVars == <<versions, script, api, moves, starts, moved>>

Legacy == "btc-volatility-lr"
Candidate == "btc-volatility-candidate"
ServedModel == IF ServesLegacy THEN Legacy ELSE Candidate
ServedStage == IF ServesLegacy THEN "Production" ELSE "Staging"

\* A pipeline and a contract are the version they come from, or the pickle's.
Pickle == 0
NoModel == -1
ApiDown == [at |-> "down", run |-> NoModel, pipeline |-> NoModel,
            contract |-> NoModel, source |-> "none"]

ServingInit ==
  /\ versions = <<>>
  /\ script = [s \in Publishers \cup Bootstraps |-> [at |-> "begin", v |-> 0]]
  /\ api = ApiDown
  /\ moves = 0 /\ starts = 0 /\ moved = FALSE
-----------------------------------------------------------------------------
At(s, where) == script[s].at = where
GoTo(s, where, v) == script' = [script EXCEPT ![s] = [at |-> where, v |-> v]]

OfModel(m) == {v \in 1 .. Len(versions) : versions[v].model = m}
Holding(m, stage) == {v \in OfModel(m) : versions[v].stage = stage}
LatestOf(vs) == CHOOSE v \in vs : \A w \in vs : w <= v

Register(m, by, tags) ==
  versions' = Append(versions, [model |-> m, stage |-> "None", tags |-> tags,
                                by |-> by])
Tag(v, tag) == versions' = [versions EXCEPT ![v].tags = @ \cup {tag}]

\* transition_model_version_stage
InStage(vs, v, stage, archive) ==
  [w \in DOMAIN vs |->
     IF w = v THEN [vs[w] EXCEPT !.stage = stage]
     ELSE IF archive /\ vs[w].model = vs[v].model /\ vs[w].stage = stage
     THEN [vs[w] EXCEPT !.stage = "Archived"]
     ELSE vs[w]]

\* The API has asked for the latest version, and does not look again.
StageMoves(v, stage, archive) ==
  /\ versions' = InStage(versions, v, stage, archive)
  /\ moved' = (moved \/ (api.at = "loading" /\ versions[v].model = ServedModel))

ScriptStep == UNCHANGED <<api, moves, starts>>
-----------------------------------------------------------------------------
(***************************************************************************)
(* publish_candidate_to_registry.py, past its checks.  The version is      *)
(* found again by its tag source_run_id, which is set last.                *)
(***************************************************************************)
Published(source) ==
  {v \in OfModel(Candidate) : <<"source_run_id", source>> \in versions[v].tags}

PublishLookup(s) ==
  /\ s \in Publishers /\ At(s, "begin")
  /\ GoTo(s, IF Published(SourceOf[s]) # {} THEN "done" ELSE "register", 0)
  /\ ScriptStep /\ UNCHANGED <<versions, moved>>

PublishRegister(s) ==
  /\ s \in Publishers /\ At(s, "register") /\ Len(versions) < MaxVersions
  /\ Register(Candidate, s, {})
  /\ GoTo(s, "stage", Len(versions) + 1)
  /\ ScriptStep /\ UNCHANGED moved

PublishStage(s) ==
  /\ s \in Publishers /\ At(s, "stage")
  /\ StageMoves(script[s].v, "Staging", FALSE)
  /\ GoTo(s, "provisional", script[s].v)
  /\ ScriptStep

\* Slip: the tag the lookup uses is set second.
NextTagEarly == [provisional |-> "source_run_id",
                 source_run_id |-> "not_for_production",
                 not_for_production |-> "done"]

\* The tags, one request each; coverage_days and the reason are left out.
NextTag == [provisional |-> "not_for_production",
            not_for_production |-> "source_run_id",
            source_run_id |-> "done"]
TagOf(s) ==
  CASE At(s, "provisional") -> <<"provisional", s \in Provisional>>
    [] At(s, "not_for_production") -> <<"not_for_production", TRUE>>
    [] OTHER -> <<"source_run_id", SourceOf[s]>>

PublishTag(s) ==
  /\ s \in Publishers /\ script[s].at \in DOMAIN NextTag
  /\ Tag(script[s].v, TagOf(s))
  /\ GoTo(s, NextTag[script[s].at], script[s].v)
  /\ ScriptStep /\ UNCHANGED moved
-----------------------------------------------------------------------------
\* log_model_to_mlflow.py: a version with the hash of the pickle is promoted
\* again, unless its artifacts cannot be loaded any more.
WithHash == {v \in OfModel(Legacy) : "pickle_hash" \in versions[v].tags}

BootstrapLookup(s) ==
  /\ s \in Bootstraps /\ At(s, "begin")
  /\ \/ /\ WithHash # {}
        /\ \E v \in WithHash : GoTo(s, "promote", v)
     \/ GoTo(s, "register", 0)
  /\ ScriptStep /\ UNCHANGED <<versions, moved>>

BootstrapRegister(s) ==
  /\ s \in Bootstraps /\ At(s, "register") /\ Len(versions) < MaxVersions
  /\ Register(Legacy, s, {})
  /\ GoTo(s, "tag", 0)
  /\ ScriptStep /\ UNCHANGED moved

\* The version just registered is taken to be the newest one.
BootstrapTag(s) ==
  LET v == LatestOf(OfModel(Legacy))
  IN  /\ s \in Bootstraps /\ At(s, "tag")
      /\ Tag(v, "pickle_hash")
      /\ GoTo(s, "promote", v)
      /\ ScriptStep /\ UNCHANGED moved

\* _ensure_legacy_bootstrap_production
BootstrapPromote(s) ==
  /\ s \in Bootstraps /\ At(s, "promote")
  /\ StageMoves(script[s].v, "Production", TRUE)
  /\ GoTo(s, "done", script[s].v)
  /\ ScriptStep

\* A request fails, or the process dies: what it has done stays.
ScriptFails(s) ==
  /\ script[s].at \notin {"done", "failed"}
  /\ GoTo(s, "failed", script[s].v)
  /\ ScriptStep /\ UNCHANGED <<versions, moved>>

\* External: a person moves a version in MLflow's UI, with its box "archive
\* existing versions" ticked or not.
PersonMoves(v) ==
  /\ moves < MaxMoves /\ moves' = moves + 1
  /\ \E stage \in {"Production", "Staging", "Archived"}, archive \in BOOLEAN :
       StageMoves(v, stage, archive)
  /\ UNCHANGED <<script, api, starts>>
-----------------------------------------------------------------------------
(***************************************************************************)
(* The top of api/main.py: the latest version of the stage, its pipeline   *)
(* by a second request that names the stage again, then the run's params.  *)
(***************************************************************************)
ApiStep == UNCHANGED <<versions, script, moves>>

ApiStart ==
  /\ api.at \in {"down", "serving"} /\ starts < MaxStarts
  /\ starts' = starts + 1 /\ moved' = FALSE
  /\ LET held == Holding(ServedModel, ServedStage)
     IN  /\ held # {}
         /\ api' = [ApiDown EXCEPT !.at = "loading", !.run = LatestOf(held)]
  /\ ApiStep

ApiLoadPipeline ==
  LET held == Holding(ServedModel, ServedStage)
  IN  /\ api.at = "loading" /\ api.pipeline = NoModel /\ held # {}
      /\ api' = [api EXCEPT !.pipeline = LatestOf(held)]
      /\ UNCHANGED <<starts, moved>> /\ ApiStep

ApiReadContract ==
  /\ api.at = "loading" /\ api.pipeline # NoModel
  /\ api' = [api EXCEPT !.at = "serving", !.contract = api.run,
                        !.source = "mlflow"]
  /\ UNCHANGED <<starts, moved>> /\ ApiStep

\* Slip: the run that failed to load is still reported.
FallBackMixed ==
  IF ServesLegacy
  THEN [at |-> "serving", run |-> api.run, pipeline |-> Pickle,
        contract |-> Pickle, source |-> "pickle"]
  ELSE ApiDown

\* No version, no registry, no artifacts, an incomplete contract: everything
\* is taken from the pickle, or the process ends.
FallBack ==
  IF ServesLegacy
  THEN [at |-> "serving", run |-> NoModel, pipeline |-> Pickle,
        contract |-> Pickle, source |-> "pickle"]
  ELSE ApiDown

ApiLoadFails ==
  /\ \/ api.at = "loading" /\ UNCHANGED <<starts, moved>>
     \/ /\ api.at \in {"down", "serving"} /\ starts < MaxStarts
        /\ starts' = starts + 1 /\ moved' = FALSE
  /\ api' = FallBack
  /\ ApiStep

ServingNext ==
  \/ ApiStart \/ ApiLoadPipeline \/ ApiReadContract \/ ApiLoadFails
  \/ \E v \in DOMAIN versions : PersonMoves(v)
  \/ \E s \in Publishers \cup Bootstraps :
       \/ PublishLookup(s) \/ PublishRegister(s) \/ PublishStage(s)
       \/ PublishTag(s) \/ BootstrapLookup(s) \/ BootstrapRegister(s)
       \/ BootstrapTag(s) \/ BootstrapPromote(s) \/ ScriptFails(s)

ServingSpec == ServingInit /\ [][ServingNext]_servingVars
-----------------------------------------------------------------------------
ServingTypeOK ==
  /\ \A v \in DOMAIN versions :
       /\ versions[v].model \in {Legacy, Candidate}
       /\ versions[v].stage \in {"None", "Staging", "Production", "Archived"}
  /\ api.at \in {"down", "loading", "serving"}
  /\ api.run \in NoModel .. Len(versions)

(***************************************************************************)
(* The API scores with the pipeline whose contract it checks rows against  *)
(* and whose run it reports, of one version or of the pickle, unless the   *)
(* stage it loads from changed hands while it was loading.                 *)
(***************************************************************************)
ServesOneModel ==
  api.at = "serving" =>
    \/ moved
    \/ api.source = "mlflow" /\ api.pipeline = api.run /\ api.contract = api.run
    \/ api.source = "pickle" /\ ServesLegacy /\ api.run = NoModel
         /\ api.pipeline = Pickle /\ api.contract = Pickle

(***************************************************************************)
(* No script puts a candidate into Production, and the bootstrap leaves at *)
(* most one version of its model there, however its runs overlap.          *)
(***************************************************************************)
ScriptsSparePromotion ==
  moves = 0 =>
    /\ Holding(Candidate, "Production") = {}
    /\ Cardinality(Holding(Legacy, "Production")) <= 1

(***************************************************************************)
(* The version a second publication finds, by the tag of its source run,   *)
(* carries both labels and was put into Staging: a publication that died   *)
(* half way is never taken for a finished one.                             *)
(***************************************************************************)
FoundIsComplete ==
  \A s \in Publishers : \A v \in Published(SourceOf[s]) :
    LET p == versions[v].by
    IN  /\ <<"not_for_production", TRUE>> \in versions[v].tags
        /\ <<"provisional", p \in Provisional>> \in versions[v].tags
        /\ moves = 0 => versions[v].stage = "Staging"

\* The invariant of the registry.
RegistryInv == ServingTypeOK /\ ScriptsSparePromotion /\ FoundIsComplete
=============================================================================
