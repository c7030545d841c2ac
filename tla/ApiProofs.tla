----------------------------- MODULE ApiProofs ------------------------------
(***************************************************************************)
(* Proofs about the API: what it serves while scripts publish models       *)
(* (Serving), what the registry holds, what /predict answers (Predict),    *)
(* and what /system/status says (SystemStatus), for any scripts,           *)
(* contracts, services and bounds.                                         *)
(***************************************************************************)
EXTENDS Serving, Predict, SystemStatus, WellFoundedInduction, FiniteSetTheorems, TLAPS

-----------------------------------------------------------------------------
(***************************************************************************)
(* Serving: the model that is served.                                      *)
(***************************************************************************)
Tags ==
  {"pickle_hash", <<"not_for_production", TRUE>>}
    \cup {<<"provisional", s \in Provisional>> : s \in Publishers}
    \cup {<<"source_run_id", SourceOf[s]>> : s \in Publishers}

Version ==
  [model : {Legacy, Candidate},
   stage : {"None", "Staging", "Production", "Archived"},
   tags : SUBSET Tags, by : Publishers \cup Bootstraps]

Registry == versions \in Seq(Version)

Served == Holding(ServedModel, ServedStage)

\* What the process has read so far is what it would read now.
Loading ==
  api.at = "loading" =>
    moved \/ (api.run = LatestOf(Served) /\ api.pipeline \in {NoModel, api.run})

ApiWhole ==
  api = [at |-> api.at, run |-> api.run, pipeline |-> api.pipeline,
         contract |-> api.contract, source |-> api.source]

\* The inductive invariant of the registry and the API.
ServIInv == Registry /\ ApiWhole /\ Loading /\ ServesOneModel

-----------------------------------------------------------------------------
LEMMA ServInit == ServingInit => ServIInv
  BY DEF ServingInit, ServIInv, Registry, ApiWhole, Loading, ServesOneModel, ApiDown

\* A new version is in no stage.
LEMMA RegisterKeeps ==
  ASSUME Registry, NEW m \in {Legacy, Candidate},
         NEW s \in Publishers \cup Bootstraps, Register(m, s, {})
  PROVE  Registry' /\ Served' = Served
<1> DEFINE r == [model |-> m, stage |-> "None", tags |-> {}, by |-> s]
           n == Len(versions)
<1>1. r \in Version /\ r.stage = "None"
  BY DEF Version
<1> HIDE DEF r
<1>2. /\ versions' \in Seq(Version) /\ n \in Nat /\ Len(versions') = n + 1
      /\ versions'[n + 1] = r /\ \A v \in 1 .. n : versions'[v] = versions[v]
  BY <1>1 DEF Registry, Register, r
<1>3. ServedStage # "None"
  BY DEF ServedStage
<1> HIDE DEF n
<1>4. \A v \in 1 .. n + 1 : v \in 1 .. n \/ v = n + 1
  BY <1>2
<1>5. Served' = {v \in 1 .. n + 1 : /\ versions'[v].model = ServedModel
                                    /\ versions'[v].stage = ServedStage}
  BY <1>2 DEF Served, Holding, OfModel
<1>6. Served = {v \in 1 .. n : /\ versions[v].model = ServedModel
                               /\ versions[v].stage = ServedStage}
  BY DEF Served, Holding, OfModel, n
<1>7. Served' = Served
  BY <1>1, <1>2, <1>3, <1>4, <1>5, <1>6
<1> QED
  BY <1>2, <1>7 DEF Registry

\* A tag moves nothing.
LEMMA TagKeeps ==
  ASSUME Registry, NEW v, NEW tag \in Tags, Tag(v, tag)
  PROVE  Registry' /\ Served' = Served
<1> DEFINE Tagged(w) == [versions[w] EXCEPT !.tags = @ \cup {tag}]
<1>1. /\ Len(versions) \in Nat /\ DOMAIN versions = 1 .. Len(versions)
      /\ \A w \in 1 .. Len(versions) : versions[w] \in Version
  BY DEF Registry
<1>2. ASSUME NEW w \in 1 .. Len(versions)
      PROVE  /\ Tagged(w) \in Version /\ Tagged(w).model = versions[w].model
             /\ Tagged(w).stage = versions[w].stage
  BY <1>1 DEF Version
<1>3. versions' = [w \in 1 .. Len(versions) |->
                     IF w = v THEN Tagged(w) ELSE versions[w]]
  BY <1>1 DEF Tag
<1> HIDE DEF Tagged
<1>4. /\ versions' \in Seq(Version) /\ Len(versions') = Len(versions)
      /\ \A w \in 1 .. Len(versions) :
           /\ versions'[w].model = versions[w].model
           /\ versions'[w].stage = versions[w].stage
  BY <1>1, <1>2, <1>3
<1> QED
  BY <1>4 DEF Registry, Served, Holding, OfModel

\* A stage change of the served model is noticed while the API loads.
LEMMA MoveKeeps ==
  ASSUME Registry, NEW v, NEW stage \in {"Production", "Staging", "Archived"},
         NEW archive \in BOOLEAN, StageMoves(v, stage, archive)
  PROVE  /\ Registry'
         /\ Served' = Served \/ moved' \/ api.at # "loading"
         /\ moved => moved'
<1> DEFINE Put(w, st) == [versions[w] EXCEPT !.stage = st]
<1>1. /\ Len(versions) \in Nat /\ DOMAIN versions = 1 .. Len(versions)
      /\ \A w \in 1 .. Len(versions) : versions[w] \in Version
  BY DEF Registry
<1>2. ASSUME NEW w \in 1 .. Len(versions),
             NEW st \in {"Production", "Staging", "Archived"}
      PROVE  Put(w, st) \in Version /\ Put(w, st).model = versions[w].model
  BY <1>1 DEF Version
<1>3. versions' = [w \in 1 .. Len(versions) |->
         IF w = v THEN Put(w, stage)
         ELSE IF archive /\ versions[w].model = versions[v].model
                         /\ versions[w].stage = stage
         THEN Put(w, "Archived")
         ELSE versions[w]]
  BY <1>1 DEF StageMoves, InStage
<1> HIDE DEF Put
<1>4. /\ versions' \in Seq(Version) /\ Len(versions') = Len(versions)
      /\ \A w \in 1 .. Len(versions) :
           /\ versions'[w].model = versions[w].model
           /\ versions'[w] = versions[w] \/ versions[w].model = versions[v].model
  BY <1>1, <1>2, <1>3
<1>5. CASE versions[v].model = ServedModel
  BY <1>4, <1>5 DEF Registry, StageMoves
<1>6. CASE versions[v].model # ServedModel
  <2>1. Served' = Served
    BY <1>4, <1>6 DEF Served, Holding, OfModel
  <2> QED
    BY <1>4, <2>1 DEF Registry, StageMoves
<1> QED
  BY <1>5, <1>6

\* A step that leaves the API alone.
LEMMA ApartPreserves ==
  ASSUME ServIInv, Registry', UNCHANGED api, moved => moved',
         Served' = Served \/ moved' \/ api.at # "loading"
  PROVE  ServIInv'
<1>1. Loading'
  BY DEF ServIInv, Loading
<1>2. ServesOneModel' /\ ApiWhole'
  BY DEF ServIInv, ServesOneModel, ApiWhole
<1> QED
  BY <1>1, <1>2 DEF ServIInv

LEMMA PublisherSteps ==
  ASSUME ServIInv, NEW s \in Publishers,
         PublishRegister(s) \/ PublishStage(s) \/ PublishTag(s)
  PROVE  ServIInv'
<1>1. CASE PublishRegister(s)
  BY <1>1, RegisterKeeps, ApartPreserves DEF PublishRegister, ScriptStep, ServIInv
<1>2. CASE PublishStage(s)
  BY <1>2, MoveKeeps, ApartPreserves DEF PublishStage, ScriptStep, ServIInv
<1>3. CASE PublishTag(s)
  <2>1. TagOf(s) \in Tags
    <3>1. /\ <<"provisional", s \in Provisional>> \in Tags
          /\ <<"not_for_production", TRUE>> \in Tags
          /\ <<"source_run_id", SourceOf[s]>> \in Tags
      BY Zenon DEF Tags
    <3> QED
      BY <3>1, Zenon DEF TagOf
  <2> QED
    BY <1>3, <2>1, TagKeeps, ApartPreserves DEF PublishTag, ScriptStep, ServIInv
<1> QED
  BY <1>1, <1>2, <1>3

LEMMA BootstrapSteps ==
  ASSUME ServIInv, NEW s \in Bootstraps,
         BootstrapRegister(s) \/ BootstrapTag(s) \/ BootstrapPromote(s)
  PROVE  ServIInv'
<1>1. CASE BootstrapRegister(s)
  BY <1>1, RegisterKeeps, ApartPreserves DEF BootstrapRegister, ScriptStep, ServIInv
<1>2. CASE BootstrapTag(s)
  <2>1. "pickle_hash" \in Tags
    BY DEF Tags
  <2> QED
    BY <1>2, <2>1, TagKeeps, ApartPreserves DEF BootstrapTag, ScriptStep, ServIInv
<1>3. CASE BootstrapPromote(s)
  BY <1>3, MoveKeeps, ApartPreserves DEF BootstrapPromote, ScriptStep, ServIInv
<1> QED
  BY <1>1, <1>2, <1>3

LEMMA PersonSteps ==
  ASSUME ServIInv, NEW v, PersonMoves(v)
  PROVE  ServIInv'
<1>1. PICK stage \in {"Production", "Staging", "Archived"}, archive \in BOOLEAN :
        StageMoves(v, stage, archive)
  BY DEF PersonMoves
<1>2. /\ Registry'
      /\ moved => moved'
      /\ Served' = Served \/ moved' \/ api.at # "loading"
  BY <1>1, MoveKeeps DEF ServIInv
<1>3. UNCHANGED api
  BY DEF PersonMoves
<1> QED
  BY <1>2, <1>3, ApartPreserves

\* A step that changes the registry no more than moves it notices.
LEMMA ApiSteps ==
  ASSUME ServIInv,
         ApiStart \/ ApiLoadPipeline \/ ApiReadContract \/ ApiLoadFails
  PROVE  ServIInv'
<1>1. /\ UNCHANGED versions /\ Registry' /\ Served' = Served
  BY DEF ServIInv, Registry, ApiStart, ApiLoadPipeline, ApiReadContract,
         ApiLoadFails, ApiStep, Served, Holding, OfModel
<1>2. PICK a, r, p, c, o : api = [at |-> a, run |-> r, pipeline |-> p,
                                  contract |-> c, source |-> o]
  BY DEF ServIInv, ApiWhole
<1>3. CASE ApiStart
  <2>1. api' = [at |-> "loading", run |-> LatestOf(Served), pipeline |-> NoModel,
                contract |-> NoModel, source |-> "none"]
    BY <1>3 DEF ApiStart, ApiDown, Served
  <2> QED
    BY <1>1, <2>1 DEF ServIInv, ApiWhole, Loading, ServesOneModel
<1>4. CASE ApiLoadPipeline
  <2>1. /\ a = "loading" /\ UNCHANGED moved
        /\ api' = [at |-> a, run |-> r, pipeline |-> LatestOf(Served),
                   contract |-> c, source |-> o]
    BY <1>2, <1>4 DEF ApiLoadPipeline, Served
  <2>2. moved \/ r = LatestOf(Served)
    BY <1>2, <2>1 DEF ServIInv, Loading
  <2> QED
    BY <1>1, <2>1, <2>2 DEF ServIInv, ApiWhole, Loading, ServesOneModel
<1>5. CASE ApiReadContract
  <2>1. /\ a = "loading" /\ p # NoModel /\ UNCHANGED moved
        /\ api' = [at |-> "serving", run |-> r, pipeline |-> p,
                   contract |-> r, source |-> "mlflow"]
    BY <1>2, <1>5 DEF ApiReadContract
  <2>2. moved \/ p = r
    BY <1>2, <2>1 DEF ServIInv, Loading
  <2> QED
    BY <1>1, <2>1, <2>2 DEF ServIInv, ApiWhole, Loading, ServesOneModel
<1>6. CASE ApiLoadFails
  <2>1. api' = FallBack
    BY <1>6 DEF ApiLoadFails
  <2>2. CASE ServesLegacy
    <3>1. api' = [at |-> "serving", run |-> NoModel, pipeline |-> Pickle,
                  contract |-> Pickle, source |-> "pickle"]
      BY <2>1, <2>2 DEF FallBack
    <3> QED
      BY <1>1, <2>2, <3>1 DEF ServIInv, ApiWhole, Loading, ServesOneModel
  <2>3. CASE ~ServesLegacy
    <3>1. api' = ApiDown
      BY <2>1, <2>3 DEF FallBack
    <3> QED
      BY <1>1, <3>1 DEF ServIInv, ApiWhole, Loading, ServesOneModel, ApiDown
  <2> QED
    BY <2>2, <2>3
<1> QED
  BY <1>3, <1>4, <1>5, <1>6

-----------------------------------------------------------------------------
LEMMA ServNext == ServIInv /\ [ServingNext]_servingVars => ServIInv'
<1> SUFFICES ASSUME ServIInv, [ServingNext]_servingVars PROVE ServIInv'
  OBVIOUS
<1>1. ASSUME UNCHANGED <<versions, api>>, moved => moved' PROVE ServIInv'
  <2>1. Registry' /\ Served' = Served
    BY <1>1 DEF ServIInv, Registry, Served, Holding, OfModel
  <2> QED
    BY <1>1, <2>1, ApartPreserves
<1>2. CASE UNCHANGED servingVars
  BY <1>1, <1>2 DEF servingVars
<1>3. CASE ApiStart \/ ApiLoadPipeline \/ ApiReadContract \/ ApiLoadFails
  BY <1>3, ApiSteps
<1>4. CASE \E v \in DOMAIN versions : PersonMoves(v)
  BY <1>4, PersonSteps
<1>5. CASE \E s \in Publishers \cup Bootstraps :
             PublishLookup(s) \/ BootstrapLookup(s) \/ ScriptFails(s)
  BY <1>1, <1>5 DEF PublishLookup, BootstrapLookup, ScriptFails, ScriptStep
<1>6. CASE \E s \in Publishers \cup Bootstraps :
             PublishRegister(s) \/ PublishStage(s) \/ PublishTag(s)
  BY <1>6, PublisherSteps DEF PublishRegister, PublishStage, PublishTag
<1>7. CASE \E s \in Publishers \cup Bootstraps :
             BootstrapRegister(s) \/ BootstrapTag(s) \/ BootstrapPromote(s)
  BY <1>7, BootstrapSteps DEF BootstrapRegister, BootstrapTag, BootstrapPromote
<1> QED
  BY <1>2, <1>3, <1>4, <1>5, <1>6, <1>7 DEF ServingNext

(***************************************************************************)
(* The API scores with the pipeline of the run it reports and whose        *)
(* contract it checks, or of the pickle, unless the stage moved between    *)
(* its two requests: for any scripts running beside it, wherever they fail.*)
(***************************************************************************)
THEOREM OneModelIsServed == ServingSpec => []ServesOneModel
<1>1. ServIInv => ServesOneModel
  BY DEF ServIInv
<1> QED
  BY <1>1, ServInit, ServNext, PTL DEF ServingSpec

-----------------------------------------------------------------------------
(***************************************************************************)
(* Serving: the registry, while scripts overlap and fail.                  *)
(***************************************************************************)
Tagging == {"provisional", "not_for_production", "source_run_id"}
ScriptPlaces ==
  {"begin", "register", "stage", "tag", "promote", "done", "failed"} \cup Tagging

RegTyped ==
  /\ script \in [Publishers \cup Bootstraps -> [at : ScriptPlaces, v : Nat]]
  /\ moves \in Nat
  /\ api.at \in {"down", "loading", "serving"}
  /\ api.run \in NoModel .. Len(versions)

\* The version a publication has registered, by how far it has come.
Registered(s) ==
  /\ script[s].v \in DOMAIN versions
  /\ versions[script[s].v].model = Candidate
  /\ versions[script[s].v].by = s
Staged(s) == moves = 0 => versions[script[s].v].stage = "Staging"
Labelled(s) == <<"provisional", s \in Provisional>> \in versions[script[s].v].tags
Marked(s) == <<"not_for_production", TRUE>> \in versions[script[s].v].tags

Publishing(s) ==
  /\ script[s].at \in {"stage"} \cup Tagging => Registered(s)
  /\ script[s].at \in Tagging => Staged(s)
  /\ script[s].at \in {"not_for_production", "source_run_id"} => Labelled(s)
  /\ script[s].at = "source_run_id" => Marked(s)

\* A bootstrap promotes a version of the legacy model.
Bootstrapping(s) ==
  /\ script[s].at = "tag" => OfModel(Legacy) # {}
  /\ script[s].at = "promote" => script[s].v \in OfModel(Legacy)

Underway ==
  /\ \A s \in Publishers : Publishing(s)
  /\ \A s \in Bootstraps : Bootstrapping(s)

\* A version that can be found by a source run is a finished publication.
Findable(v) == \E s \in Publishers : <<"source_run_id", SourceOf[s]>> \in versions[v].tags
Finished(v) ==
  /\ <<"not_for_production", TRUE>> \in versions[v].tags
  /\ <<"provisional", versions[v].by \in Provisional>> \in versions[v].tags
  /\ moves = 0 => versions[v].stage = "Staging"

Candidates ==
  \A v \in OfModel(Candidate) :
    /\ moves = 0 => versions[v].stage \in {"None", "Staging"}
    /\ Findable(v) => Finished(v)

OneInProduction ==
  moves = 0 => \A v, w \in Holding(Legacy, "Production") : v = w

\* The inductive invariant of the registry.
RegIInv == RegTyped /\ Underway /\ Candidates /\ OneInProduction
-----------------------------------------------------------------------------
LEMMA RegistryTyped ==
  ASSUME Registry
  PROVE  /\ Len(versions) \in Nat /\ DOMAIN versions = 1 .. Len(versions)
         /\ \A v \in DOMAIN versions : versions[v] \in Version
BY DEF Registry

\* The newest of some versions is one of them.
LEMMA LatestIsOne ==
  ASSUME NEW n \in Nat, NEW S, S \subseteq 1 .. n, S # {}
  PROVE  LatestOf(S) \in S
<1> DEFINE T == {n - v : v \in S}
<1>1. T \subseteq Nat /\ T # {}
  <2>1. \A v \in S : n - v \in Nat
    OBVIOUS
  <2> QED
    BY <2>1
<1>2. PICK m \in T : \A k \in T : ~(<<k, m>> \in OpToRel(<, Nat))
  BY <1>1, NatLessThanWellFounded, WFMin
<1>3. PICK v \in S : m = n - v
  BY <1>2
<1>4. \A w \in S : w <= v
  <2> SUFFICES ASSUME NEW w \in S, ~(w <= v) PROVE FALSE
    OBVIOUS
  <2>1. n - w \in T /\ n - w < m /\ n - w \in Nat /\ m \in Nat
    BY <1>1, <1>3
  <2>2. <<n - w, m>> \in OpToRel(<, Nat)
    BY <2>1 DEF OpToRel
  <2> QED
    BY <1>2, <2>1, <2>2
<1> QED
  BY <1>4 DEF LatestOf

\* What the three requests that change the registry do to each version.
LEMMA RegisterAdds ==
  ASSUME Registry, NEW m \in {Legacy, Candidate},
         NEW s \in Publishers \cup Bootstraps, Register(m, s, {})
  PROVE  /\ Registry' /\ Len(versions') = Len(versions) + 1
         /\ versions'[Len(versions) + 1] = [model |-> m, stage |-> "None",
                                            tags |-> {}, by |-> s]
         /\ \A v \in DOMAIN versions : versions'[v] = versions[v]
<1> DEFINE r == [model |-> m, stage |-> "None", tags |-> {}, by |-> s]
<1>1. r \in Version
  BY DEF Version
<1>2. versions' = Append(versions, r)
  BY DEF Register
<1> HIDE DEF r
<1>3. /\ versions' \in Seq(Version) /\ Len(versions') = Len(versions) + 1
      /\ versions'[Len(versions) + 1] = r
      /\ \A v \in 1 .. Len(versions) : versions'[v] = versions[v]
  BY <1>1, <1>2 DEF Registry
<1> QED
  BY <1>3, RegistryTyped DEF Registry, r

LEMMA TagAdds ==
  ASSUME Registry, NEW v, NEW tag \in Tags, Tag(v, tag)
  PROVE  /\ Registry' /\ Len(versions') = Len(versions)
         /\ \A w \in DOMAIN versions :
              /\ versions'[w].model = versions[w].model
              /\ versions'[w].stage = versions[w].stage
              /\ versions'[w].by = versions[w].by
              /\ versions'[w].tags = IF w = v THEN versions[w].tags \cup {tag}
                                     ELSE versions[w].tags
<1> DEFINE Tagged(w) == [versions[w] EXCEPT !.tags = @ \cup {tag}]
<1>1. ASSUME NEW w \in 1 .. Len(versions)
      PROVE  /\ Tagged(w).model = versions[w].model
             /\ Tagged(w).stage = versions[w].stage
             /\ Tagged(w).by = versions[w].by
             /\ Tagged(w).tags = versions[w].tags \cup {tag}
  BY RegistryTyped DEF Version
<1>2. versions' = [w \in 1 .. Len(versions) |->
                     IF w = v THEN Tagged(w) ELSE versions[w]]
  BY RegistryTyped DEF Tag
<1>3. Registry'
  BY TagKeeps
<1> HIDE DEF Tagged
<1>4. Len(versions') = Len(versions)
  BY <1>2, <1>3, RegistryTyped
<1> QED
  BY <1>1, <1>2, <1>3, <1>4, RegistryTyped

LEMMA StageSets ==
  ASSUME Registry, NEW v, NEW stage \in {"Production", "Staging", "Archived"},
         NEW archive \in BOOLEAN, StageMoves(v, stage, archive)
  PROVE  /\ Registry' /\ Len(versions') = Len(versions)
         /\ \A w \in DOMAIN versions :
              /\ versions'[w].model = versions[w].model
              /\ versions'[w].by = versions[w].by
              /\ versions'[w].tags = versions[w].tags
              /\ versions'[w].stage =
                   IF w = v THEN stage
                   ELSE IF archive /\ versions[w].model = versions[v].model
                                   /\ versions[w].stage = stage
                   THEN "Archived" ELSE versions[w].stage
<1> DEFINE Put(w, st) == [versions[w] EXCEPT !.stage = st]
<1>1. ASSUME NEW w \in 1 .. Len(versions), NEW st
      PROVE  /\ Put(w, st).model = versions[w].model
             /\ Put(w, st).tags = versions[w].tags
             /\ Put(w, st).by = versions[w].by
             /\ Put(w, st).stage = st
  BY RegistryTyped DEF Version
<1>2. versions' = [w \in 1 .. Len(versions) |->
         IF w = v THEN Put(w, stage)
         ELSE IF archive /\ versions[w].model = versions[v].model
                         /\ versions[w].stage = stage
         THEN Put(w, "Archived")
         ELSE versions[w]]
  BY RegistryTyped DEF StageMoves, InStage
<1>3. Registry'
  BY MoveKeeps
<1> HIDE DEF Put
<1>4. Len(versions') = Len(versions)
  BY <1>2, <1>3, RegistryTyped
<1> QED
  BY <1>1, <1>2, <1>3, <1>4, RegistryTyped
-----------------------------------------------------------------------------
\* Versions that only gain tags, and candidates that stay in Staging.
Kept ==
  /\ DOMAIN versions \subseteq DOMAIN versions'
  /\ \A v \in DOMAIN versions :
       /\ versions'[v].model = versions[v].model
       /\ versions'[v].by = versions[v].by
       /\ versions[v].tags \subseteq versions'[v].tags
       /\ versions[v].model = Candidate =>
            (versions[v].stage = "Staging" => versions'[v].stage = "Staging")

LEMMA OfModelKept ==
  ASSUME Registry, Registry', Kept, NEW m
  PROVE  OfModel(m) \subseteq OfModel(m)'
BY RegistryTyped DEF OfModel, Kept, Registry

\* The other scripts are where they were, and what they rely on is kept.
LEMMA OthersUnderway ==
  ASSUME Registry, Registry', RegIInv, Kept, UNCHANGED moves,
         NEW s, \A q \in Publishers \cup Bootstraps : q # s => script'[q] = script[q]
  PROVE  /\ \A q \in Publishers : q # s => Publishing(q)'
         /\ \A q \in Bootstraps : q # s => Bootstrapping(q)'
<1>1. ASSUME NEW q \in Publishers, q # s PROVE Publishing(q)'
  <2>1. Publishing(q) /\ script'[q] = script[q]
    BY <1>1 DEF RegIInv, Underway
  <2>2. Registered(q) => Registered(q)' /\ (Staged(q) => Staged(q)')
                           /\ (Labelled(q) => Labelled(q)') /\ (Marked(q) => Marked(q)')
    BY <2>1 DEF Registered, Staged, Labelled, Marked, Kept
  <2> QED
    BY <2>1, <2>2 DEF Publishing, Tagging
<1>2. ASSUME NEW q \in Bootstraps, q # s PROVE Bootstrapping(q)'
  <2>1. Bootstrapping(q) /\ script'[q] = script[q]
    BY <1>2 DEF RegIInv, Underway
  <2>2. OfModel(Legacy) \subseteq OfModel(Legacy)'
    BY OfModelKept
  <2> QED
    BY <2>1, <2>2 DEF Bootstrapping
<1> QED
  BY <1>1, <1>2

\* A script has gone on: the typing, and what its own place promises.
LEMMA ScriptWent ==
  ASSUME Registry, Registry', RegIInv, Kept, UNCHANGED <<moves, api>>,
         NEW s \in Publishers \cup Bootstraps, NEW where \in ScriptPlaces, NEW v \in Nat,
         GoTo(s, where, v),
         s \in Publishers => Publishing(s)', s \in Bootstraps => Bootstrapping(s)',
         Candidates', OneInProduction'
  PROVE  RegIInv'
<1>1. script' = [script EXCEPT ![s] = [at |-> where, v |-> v]]
  BY DEF GoTo
<1>2. script' \in [Publishers \cup Bootstraps -> [at : ScriptPlaces, v : Nat]]
  BY <1>1 DEF RegIInv, RegTyped
<1>3. \A q \in Publishers \cup Bootstraps : q # s => script'[q] = script[q]
  BY <1>1 DEF RegIInv, RegTyped
<1>4. Underway'
  BY <1>3, OthersUnderway DEF Underway
<1>5. Len(versions) <= Len(versions') /\ Len(versions) \in Nat /\ Len(versions') \in Nat
  <2>1. /\ Len(versions) \in Nat /\ DOMAIN versions = 1 .. Len(versions)
        /\ Len(versions') \in Nat /\ DOMAIN versions' = 1 .. Len(versions')
    BY DEF Registry
  <2> QED
    BY <2>1 DEF Kept
<1>6. RegTyped'
  BY <1>2, <1>5 DEF RegIInv, RegTyped, NoModel
<1> QED
  BY <1>4, <1>6 DEF RegIInv

LEMMA WhereItWent ==
  ASSUME RegIInv, NEW s \in Publishers \cup Bootstraps, NEW where, NEW v, GoTo(s, where, v)
  PROVE  script'[s].at = where /\ script'[s].v = v
BY DEF RegIInv, RegTyped, GoTo

LEMMA PublishersApart ==
  \A s \in Publishers : s \notin Bootstraps /\ s \in Publishers \cup Bootstraps
BY ServingAssumption

\* Versions of which no candidate changes but in its tags, nor any stage.
LEMMA StagesKept ==
  ASSUME Registry, Registry', RegIInv, Len(versions') = Len(versions), UNCHANGED moves,
         \A v \in DOMAIN versions : /\ versions'[v].model = versions[v].model
                                  /\ versions'[v].stage = versions[v].stage
  PROVE  OneInProduction' /\ \A m : OfModel(m)' = OfModel(m)
BY RegistryTyped DEF RegIInv, OneInProduction, Holding, OfModel, Registry

LEMMA PublishRegisterKeeps ==
  ASSUME Registry, RegIInv, NEW s \in Publishers, PublishRegister(s)
  PROVE  RegIInv'
<1> DEFINE n == Len(versions)
<1>0. /\ Register(Candidate, s, {}) /\ GoTo(s, "stage", n + 1)
      /\ UNCHANGED <<moves, api>> /\ s \in Publishers \cup Bootstraps /\ n \in Nat
      /\ n + 1 \in Nat /\ DOMAIN versions = 1 .. n
      /\ s \notin Bootstraps
  BY RegistryTyped, PublishersApart DEF PublishRegister, ScriptStep
<1>1. /\ Registry' /\ Len(versions') = n + 1
      /\ versions'[n + 1] = [model |-> Candidate, stage |-> "None", tags |-> {}, by |-> s]
      /\ \A v \in 1 .. n : versions'[v] = versions[v]
  BY <1>0, RegisterAdds
<1>2. DOMAIN versions' = 1 .. n + 1
  BY <1>1 DEF Registry
<1> HIDE DEF n
<1>3. \A v \in 1 .. n + 1 : v \in 1 .. n \/ v = n + 1
  BY <1>0
<1>4. Kept
  BY <1>0, <1>1, <1>2 DEF Kept
<1>5. Publishing(s)'
  <2>1. script'[s].at = "stage" /\ script'[s].v = n + 1
    BY <1>0, WhereItWent
  <2>2. Registered(s)'
    BY <1>0, <1>1, <1>2, <2>1 DEF Registered
  <2> QED
    BY <2>1, <2>2 DEF Publishing, Tagging
<1>6. Candidates'
  <2> SUFFICES ASSUME NEW v \in OfModel(Candidate)'
               PROVE  /\ moves' = 0 => versions'[v].stage \in {"None", "Staging"}
                      /\ Findable(v)' => Finished(v)'
    BY DEF Candidates
  <2>1. v \in 1 .. n + 1 /\ versions'[v].model = Candidate
    BY <1>1 DEF OfModel
  <2>2. CASE v \in 1 .. n
    <3>1. v \in OfModel(Candidate) /\ versions'[v] = versions[v]
      BY <1>1, <2>1, <2>2 DEF OfModel, n
    <3> QED
      BY <1>0, <3>1 DEF RegIInv, Candidates, Findable, Finished
  <2>3. CASE v = n + 1
    <3>1. versions'[v].tags = {} /\ versions'[v].stage = "None"
      BY <1>1, <2>3
    <3>2. ~Findable(v)'
      BY <3>1 DEF Findable
    <3> QED
      BY <3>1, <3>2
  <2> QED
    BY <1>3, <2>1, <2>2, <2>3
<1>7. OneInProduction'
  <2>1. ASSUME NEW v \in Holding(Legacy, "Production")'
        PROVE  v \in Holding(Legacy, "Production")
    <3>1. /\ v \in 1 .. n + 1 /\ versions'[v].model = Legacy
          /\ versions'[v].stage = "Production"
      BY <1>1 DEF Holding, OfModel
    <3>2. v # n + 1
      BY <1>1, <3>1
    <3>3. v \in 1 .. n /\ versions'[v] = versions[v]
      BY <1>1, <1>3, <3>1, <3>2
    <3> QED
      BY <3>1, <3>3 DEF Holding, OfModel, n
  <2> QED
    BY <1>0, <2>1 DEF RegIInv, OneInProduction
<1> QED
  BY <1>0, <1>1, <1>4, <1>5, <1>6, <1>7, ScriptWent DEF ScriptPlaces

LEMMA BootstrapRegisterKeeps ==
  ASSUME Registry, RegIInv, NEW s \in Bootstraps, BootstrapRegister(s)
  PROVE  RegIInv'
<1> DEFINE n == Len(versions)
<1>0. /\ Register(Legacy, s, {}) /\ GoTo(s, "tag", 0)
      /\ UNCHANGED <<moves, api>> /\ s \in Publishers \cup Bootstraps /\ n \in Nat
      /\ n + 1 \in Nat /\ DOMAIN versions = 1 .. n
      /\ s \notin Publishers
  BY RegistryTyped, PublishersApart DEF BootstrapRegister, ScriptStep
<1>1. /\ Registry' /\ Len(versions') = n + 1
      /\ versions'[n + 1] = [model |-> Legacy, stage |-> "None", tags |-> {}, by |-> s]
      /\ \A v \in 1 .. n : versions'[v] = versions[v]
  BY <1>0, RegisterAdds
<1>2. DOMAIN versions' = 1 .. n + 1
  BY <1>1 DEF Registry
<1> HIDE DEF n
<1>3. \A v \in 1 .. n + 1 : v \in 1 .. n \/ v = n + 1
  BY <1>0
<1>4. Kept
  BY <1>0, <1>1, <1>2 DEF Kept
<1>5. Bootstrapping(s)'
  <2>1. script'[s].at = "tag"
    BY <1>0, WhereItWent
  <2>2. n + 1 \in OfModel(Legacy)'
    BY <1>0, <1>1 DEF OfModel
  <2> QED
    BY <2>1, <2>2 DEF Bootstrapping
<1>6. Candidates'
  <2> SUFFICES ASSUME NEW v \in OfModel(Candidate)'
               PROVE  /\ moves' = 0 => versions'[v].stage \in {"None", "Staging"}
                      /\ Findable(v)' => Finished(v)'
    BY DEF Candidates
  <2>1. v \in 1 .. n + 1 /\ versions'[v].model = Candidate
    BY <1>1 DEF OfModel
  <2>2. v # n + 1
    BY <1>1, <2>1 DEF Legacy, Candidate
  <2>3. v \in OfModel(Candidate) /\ versions'[v] = versions[v]
    BY <1>1, <1>3, <2>1, <2>2 DEF OfModel, n
  <2> QED
    BY <1>0, <2>3 DEF RegIInv, Candidates, Findable, Finished
<1>7. OneInProduction'
  <2>1. ASSUME NEW v \in Holding(Legacy, "Production")'
        PROVE  v \in Holding(Legacy, "Production")
    <3>1. /\ v \in 1 .. n + 1 /\ versions'[v].model = Legacy
          /\ versions'[v].stage = "Production"
      BY <1>1 DEF Holding, OfModel
    <3>2. v # n + 1
      BY <1>1, <3>1
    <3>3. v \in 1 .. n /\ versions'[v] = versions[v]
      BY <1>1, <1>3, <3>1, <3>2
    <3> QED
      BY <3>1, <3>3 DEF Holding, OfModel, n
  <2> QED
    BY <1>0, <2>1 DEF RegIInv, OneInProduction
<1> QED
  BY <1>0, <1>1, <1>4, <1>5, <1>6, <1>7, ScriptWent DEF ScriptPlaces

LEMMA PublishStageKeeps ==
  ASSUME Registry, RegIInv, NEW s \in Publishers, PublishStage(s)
  PROVE  RegIInv'
<1> DEFINE v == script[s].v
<1>0. /\ StageMoves(v, "Staging", FALSE) /\ GoTo(s, "provisional", v)
      /\ UNCHANGED <<moves, api>> /\ s \in Publishers \cup Bootstraps
      /\ s \notin Bootstraps /\ v \in Nat
      /\ Registered(s)
  BY PublishersApart
     DEF PublishStage, ScriptStep, At, RegIInv, RegTyped, Underway, Publishing
<1>1. v \in DOMAIN versions /\ versions[v].model = Candidate /\ versions[v].by = s
  BY <1>0 DEF Registered
<1> HIDE DEF v
<1>2. /\ Registry' /\ Len(versions') = Len(versions)
      /\ \A w \in DOMAIN versions :
           /\ versions'[w].model = versions[w].model
           /\ versions'[w].by = versions[w].by
           /\ versions'[w].tags = versions[w].tags
           /\ versions'[w].stage = IF w = v THEN "Staging" ELSE versions[w].stage
  BY <1>0, StageSets
<1>3. DOMAIN versions' = DOMAIN versions /\ DOMAIN versions = 1 .. Len(versions)
  BY <1>2 DEF Registry
<1>4. Kept
  BY <1>2, <1>3 DEF Kept
<1>5. Publishing(s)'
  <2>1. script'[s].at = "provisional" /\ script'[s].v = v
    BY <1>0, WhereItWent
  <2>2. Registered(s)' /\ Staged(s)'
    BY <1>1, <1>2, <1>3, <2>1 DEF Registered, Staged
  <2> QED
    BY <2>1, <2>2 DEF Publishing, Tagging
<1>6. \A m : OfModel(m)' = OfModel(m)
  BY <1>2, <1>3 DEF OfModel
<1>7. Candidates'
  BY <1>0, <1>2, <1>3, <1>6 DEF RegIInv, Candidates, Findable, Finished, OfModel
<1>8. OneInProduction'
  <2>1. Holding(Legacy, "Production")' \subseteq Holding(Legacy, "Production")
    BY <1>2, <1>3, <1>6 DEF Holding, OfModel
  <2> QED
    BY <1>0, <2>1 DEF RegIInv, OneInProduction
<1> QED
  BY <1>0, <1>2, <1>4, <1>5, <1>7, <1>8, ScriptWent DEF ScriptPlaces, Tagging

LEMMA PublishTagKeeps ==
  ASSUME Registry, RegIInv, NEW s \in Publishers, PublishTag(s)
  PROVE  RegIInv'
<1> DEFINE v == script[s].v
           tag == TagOf(s)
           next == NextTag[script[s].at]
<1>0. /\ Tag(v, tag) /\ GoTo(s, next, v)
      /\ UNCHANGED <<moves, api>> /\ s \in Publishers \cup Bootstraps
      /\ s \notin Bootstraps /\ v \in Nat
      /\ script[s].at \in Tagging
  BY PublishersApart
     DEF PublishTag, ScriptStep, At, RegIInv, RegTyped, NextTag, Tagging
<1>1. Registered(s) /\ Staged(s)
  BY <1>0 DEF RegIInv, Underway, Publishing
<1>2. v \in DOMAIN versions /\ versions[v].model = Candidate /\ versions[v].by = s
  BY <1>1 DEF Registered
<1>3. \/ /\ script[s].at = "provisional" /\ next = "not_for_production"
         /\ tag = <<"provisional", s \in Provisional>>
      \/ /\ script[s].at = "not_for_production" /\ next = "source_run_id"
         /\ tag = <<"not_for_production", TRUE>> /\ Labelled(s)
      \/ /\ script[s].at = "source_run_id" /\ next = "done"
         /\ tag = <<"source_run_id", SourceOf[s]>> /\ Labelled(s) /\ Marked(s)
  <2>1. Publishing(s)
    BY DEF RegIInv, Underway
  <2>2. CASE script[s].at = "provisional"
    BY <2>2 DEF NextTag, TagOf, At
  <2>3. CASE script[s].at = "not_for_production"
    <3>1. Labelled(s)
      BY <2>1, <2>3 DEF Publishing
    <3>2. next = "source_run_id"
      BY <2>3 DEF NextTag
    <3>3. ~At(s, "provisional") /\ At(s, "not_for_production")
      BY <2>3 DEF At
    <3>4. tag = <<"not_for_production", TRUE>>
      BY <3>3, Zenon DEF TagOf
    <3> QED
      BY <2>3, <3>1, <3>2, <3>4
  <2>4. CASE script[s].at = "source_run_id"
    <3>1. Labelled(s) /\ Marked(s)
      BY <2>1, <2>4 DEF Publishing
    <3> QED
      BY <2>4, <3>1 DEF NextTag, TagOf, At
  <2> QED
    BY <1>0, <2>2, <2>3, <2>4 DEF Tagging
<1>4. tag \in Tags
  <2>1. /\ <<"provisional", s \in Provisional>> \in Tags
        /\ <<"not_for_production", TRUE>> \in Tags
        /\ <<"source_run_id", SourceOf[s]>> \in Tags
    BY Zenon DEF Tags
  <2> QED
    BY <1>3, <2>1
<1>5. next \in ScriptPlaces
  BY <1>3 DEF ScriptPlaces, Tagging
<1>6. /\ Registry' /\ Len(versions') = Len(versions)
      /\ \A w \in DOMAIN versions :
           /\ versions'[w].model = versions[w].model
           /\ versions'[w].stage = versions[w].stage
           /\ versions'[w].by = versions[w].by
           /\ versions'[w].tags = IF w = v THEN versions[w].tags \cup {tag}
                                  ELSE versions[w].tags
  BY <1>0, <1>4, TagAdds
<1>7. DOMAIN versions' = DOMAIN versions /\ DOMAIN versions = 1 .. Len(versions)
  BY <1>6 DEF Registry
<1>8. Kept
  BY <1>6, <1>7 DEF Kept
<1>9. script'[s].at = next /\ script'[s].v = v
  BY <1>0, WhereItWent
<1>10. /\ Labelled(s) <=> <<"provisional", s \in Provisional>> \in versions[v].tags
       /\ Marked(s) <=> <<"not_for_production", TRUE>> \in versions[v].tags
       /\ Staged(s) <=> (moves = 0 => versions[v].stage = "Staging")
  BY DEF Labelled, Marked, Staged
<1> HIDE DEF v, tag, next
<1>11. Publishing(s)'
  <2>1. Registered(s)' /\ Staged(s)'
    BY <1>0, <1>2, <1>6, <1>7, <1>9, <1>1, <1>10 DEF Registered, Staged
  <2>2. versions'[v].tags = versions[v].tags \cup {tag}
    BY <1>2, <1>6
  <2>3. next \in {"not_for_production", "source_run_id"} => Labelled(s)'
    BY <1>3, <1>9, <1>10, <2>2 DEF Labelled
  <2>4. next = "source_run_id" => Marked(s)'
    BY <1>3, <1>9, <2>2 DEF Marked
  <2> QED
    BY <1>9, <2>1, <2>3, <2>4 DEF Publishing
<1>12. \A m : OfModel(m)' = OfModel(m)
  BY <1>6, <1>7 DEF OfModel
<1>13. Candidates'
  <2> SUFFICES ASSUME NEW w \in OfModel(Candidate)
               PROVE  /\ moves = 0 => versions'[w].stage \in {"None", "Staging"}
                      /\ Findable(w)' => Finished(w)'
    BY <1>0, <1>12 DEF Candidates
  <2>0. w \in DOMAIN versions /\ versions'[w].stage = versions[w].stage
    BY <1>6, <1>7 DEF OfModel
  <2>1. moves = 0 => versions'[w].stage \in {"None", "Staging"}
    BY <2>0 DEF RegIInv, Candidates
  <2>2. ASSUME Findable(w) PROVE Finished(w)'
    <3>1. Finished(w)
      BY <2>2 DEF RegIInv, Candidates
    <3> QED
      BY <1>0, <1>6, <2>0, <3>1 DEF Finished
  <2>3. ASSUME ~Findable(w), Findable(w)' PROVE Finished(w)'
    <3>1. PICK q \in Publishers : <<"source_run_id", SourceOf[q]>> \in versions'[w].tags
      BY <2>3 DEF Findable
    <3>2. <<"source_run_id", SourceOf[q]>> \notin versions[w].tags
      BY <2>3 DEF Findable
    <3>3. w = v /\ tag = <<"source_run_id", SourceOf[q]>>
      BY <1>6, <2>0, <3>1, <3>2
    <3>4. tag # <<"provisional", s \in Provisional>> /\ tag # <<"not_for_production", TRUE>>
      BY <3>3
    <3>5. Labelled(s) /\ Marked(s)
      BY <1>3, <3>4
    <3> QED
      BY <1>0, <1>1, <1>2, <1>6, <1>10, <2>0, <3>3, <3>5 DEF Finished
  <2> QED
    BY <2>1, <2>2, <2>3
<1>14. OneInProduction'
  BY <1>0, <1>6, StagesKept
<1> QED
  BY <1>0, <1>5, <1>6, <1>8, <1>11, <1>13, <1>14, ScriptWent

LEMMA BootstrapLookupKeeps ==
  ASSUME Registry, RegIInv, NEW s \in Bootstraps, BootstrapLookup(s)
  PROVE  RegIInv'
<1>0. /\ UNCHANGED <<versions, moves, api>> /\ s \in Publishers \cup Bootstraps
      /\ s \notin Publishers
  BY PublishersApart DEF BootstrapLookup, ScriptStep
<1>1. Registry' /\ Kept /\ Candidates' /\ OneInProduction'
  BY <1>0 DEF Registry, Kept, RegIInv, Candidates, OneInProduction, Findable, Finished,
              OfModel, Holding
<1>2. CASE GoTo(s, "register", 0)
  <2>1. Bootstrapping(s)'
    BY <1>0, <1>2, WhereItWent DEF Bootstrapping
  <2> QED
    BY <1>0, <1>1, <1>2, <2>1, ScriptWent DEF ScriptPlaces
<1>3. ASSUME NEW v \in WithHash, GoTo(s, "promote", v)
      PROVE  RegIInv'
  <2>1. v \in OfModel(Legacy) /\ v \in Nat /\ OfModel(Legacy)' = OfModel(Legacy)
    BY <1>0, RegistryTyped DEF WithHash, OfModel
  <2>2. Bootstrapping(s)'
    BY <1>0, <1>3, <2>1, WhereItWent DEF Bootstrapping
  <2> QED
    BY <1>0, <1>1, <1>3, <2>1, <2>2, ScriptWent DEF ScriptPlaces
<1> QED
  BY <1>2, <1>3 DEF BootstrapLookup

LEMMA PublishLookupKeeps ==
  ASSUME Registry, RegIInv, NEW s \in Publishers, PublishLookup(s)
  PROVE  RegIInv'
<1>0. /\ UNCHANGED <<versions, moves, api>> /\ s \in Publishers \cup Bootstraps
      /\ s \notin Bootstraps
  BY PublishersApart DEF PublishLookup, ScriptStep
<1>1. Registry' /\ Kept /\ Candidates' /\ OneInProduction'
  BY <1>0 DEF Registry, Kept, RegIInv, Candidates, OneInProduction, Findable, Finished,
              OfModel, Holding
<1>2. PICK where \in {"done", "register"} : GoTo(s, where, 0)
  BY DEF PublishLookup
<1>3. Publishing(s)'
  BY <1>0, <1>2, WhereItWent DEF Publishing, Tagging
<1> QED
  BY <1>0, <1>1, <1>2, <1>3, ScriptWent DEF ScriptPlaces

LEMMA ScriptFailsKeeps ==
  ASSUME Registry, RegIInv, NEW s \in Publishers \cup Bootstraps, ScriptFails(s)
  PROVE  RegIInv'
<1>0. UNCHANGED <<versions, moves, api>> /\ script[s].v \in Nat
  BY DEF ScriptFails, ScriptStep, RegIInv, RegTyped
<1>1. Registry' /\ Kept /\ Candidates' /\ OneInProduction'
  BY <1>0 DEF Registry, Kept, RegIInv, Candidates, OneInProduction, Findable, Finished,
              OfModel, Holding
<1>2. GoTo(s, "failed", script[s].v)
  BY DEF ScriptFails
<1>3. Publishing(s)' /\ Bootstrapping(s)'
  BY <1>2, WhereItWent DEF Publishing, Bootstrapping, Tagging
<1> QED
  BY <1>0, <1>1, <1>2, <1>3, ScriptWent DEF ScriptPlaces

\* The bootstrap's newest version of the legacy model is of that model.
LEMMA BootstrapTagKeeps ==
  ASSUME Registry, RegIInv, NEW s \in Bootstraps, BootstrapTag(s)
  PROVE  RegIInv'
<1> DEFINE v == LatestOf(OfModel(Legacy))
<1>0. /\ Tag(v, "pickle_hash") /\ GoTo(s, "promote", v)
      /\ UNCHANGED <<moves, api>> /\ s \in Publishers \cup Bootstraps
      /\ s \notin Publishers /\ script[s].at = "tag"
  BY PublishersApart DEF BootstrapTag, ScriptStep, At
<1>1. v \in OfModel(Legacy)
  <2>1. OfModel(Legacy) # {}
    BY <1>0 DEF RegIInv, Underway, Bootstrapping
  <2>2. OfModel(Legacy) \subseteq 1 .. Len(versions)
    BY DEF OfModel
  <2> QED
    BY <2>1, <2>2, LatestIsOne, RegistryTyped
<1>2. /\ v \in DOMAIN versions /\ v \in Nat /\ versions[v].model = Legacy
  BY <1>1, RegistryTyped DEF OfModel
<1> HIDE DEF v
<1>3. "pickle_hash" \in Tags
  BY DEF Tags
<1>4. /\ Registry' /\ Len(versions') = Len(versions)
      /\ \A w \in DOMAIN versions :
           /\ versions'[w].model = versions[w].model
           /\ versions'[w].stage = versions[w].stage
           /\ versions'[w].by = versions[w].by
           /\ versions'[w].tags = IF w = v THEN versions[w].tags \cup {"pickle_hash"}
                                  ELSE versions[w].tags
  BY <1>0, <1>3, TagAdds
<1>5. DOMAIN versions' = DOMAIN versions /\ DOMAIN versions = 1 .. Len(versions)
  BY <1>4 DEF Registry
<1>6. Kept
  BY <1>4, <1>5 DEF Kept
<1>7. OneInProduction' /\ \A m : OfModel(m)' = OfModel(m)
  BY <1>0, <1>4, StagesKept
<1>8. Bootstrapping(s)'
  BY <1>0, <1>1, <1>7, WhereItWent DEF Bootstrapping
<1>9. Candidates'
  <2> SUFFICES ASSUME NEW w \in OfModel(Candidate)
               PROVE  /\ moves = 0 => versions'[w].stage \in {"None", "Staging"}
                      /\ Findable(w)' => Finished(w)'
    BY <1>0, <1>7 DEF Candidates
  <2>1. w \in DOMAIN versions /\ w # v
    BY <1>2, <1>5 DEF OfModel, Legacy, Candidate
  <2>2. /\ versions'[w].stage = versions[w].stage /\ versions'[w].tags = versions[w].tags
        /\ versions'[w].by = versions[w].by
    BY <1>4, <2>1
  <2> QED
    BY <1>0, <2>2 DEF RegIInv, Candidates, Findable, Finished
<1> QED
  BY <1>0, <1>2, <1>4, <1>6, <1>7, <1>8, <1>9, ScriptWent DEF ScriptPlaces

LEMMA BootstrapPromoteKeeps ==
  ASSUME Registry, RegIInv, NEW s \in Bootstraps, BootstrapPromote(s)
  PROVE  RegIInv'
<1> DEFINE v == script[s].v
<1>0. /\ StageMoves(v, "Production", TRUE) /\ GoTo(s, "done", v)
      /\ UNCHANGED <<moves, api>> /\ s \in Publishers \cup Bootstraps
      /\ s \notin Publishers /\ v \in Nat /\ v \in OfModel(Legacy)
  BY PublishersApart
     DEF BootstrapPromote, ScriptStep, At, RegIInv, RegTyped, Underway, Bootstrapping
<1>1. v \in DOMAIN versions /\ versions[v].model = Legacy
  BY <1>0, RegistryTyped DEF OfModel
<1> HIDE DEF v
<1>2. /\ Registry' /\ Len(versions') = Len(versions)
      /\ \A w \in DOMAIN versions :
           /\ versions'[w].model = versions[w].model
           /\ versions'[w].by = versions[w].by
           /\ versions'[w].tags = versions[w].tags
           /\ versions'[w].stage =
                IF w = v THEN "Production"
                ELSE IF TRUE /\ versions[w].model = versions[v].model
                             /\ versions[w].stage = "Production"
                THEN "Archived" ELSE versions[w].stage
  BY <1>0, StageSets
<1>3. DOMAIN versions' = DOMAIN versions /\ DOMAIN versions = 1 .. Len(versions)
  BY <1>2 DEF Registry
<1>4. \A w \in OfModel(Candidate) : w \in DOMAIN versions /\ versions[w].model = Candidate
                                   /\ versions'[w].stage = versions[w].stage
  BY <1>1, <1>2, <1>3 DEF OfModel, Legacy, Candidate
<1>5. Kept
  BY <1>2, <1>3, <1>4 DEF Kept, OfModel
<1>6. \A m : OfModel(m)' = OfModel(m)
  BY <1>2, <1>3 DEF OfModel
<1>7. Bootstrapping(s)'
  BY <1>0, WhereItWent DEF Bootstrapping
<1>8. Candidates'
  BY <1>0, <1>2, <1>4, <1>6 DEF RegIInv, Candidates, Findable, Finished
<1>9. OneInProduction'
  <2>1. ASSUME NEW w \in Holding(Legacy, "Production")' PROVE w = v
    <3>1. w \in DOMAIN versions /\ versions[w].model = Legacy
          /\ versions'[w].stage = "Production"
      BY <1>2, <1>3 DEF Holding, OfModel
    <3> QED
      BY <1>1, <1>2, <3>1
  <2> QED
    BY <2>1 DEF OneInProduction
<1> QED
  BY <1>0, <1>2, <1>5, <1>7, <1>8, <1>9, ScriptWent DEF ScriptPlaces

\* A person may move any version anywhere; what is said of moves = 0 is over.
LEMMA PersonMovesKeeps ==
  ASSUME Registry, RegIInv, NEW v, PersonMoves(v)
  PROVE  RegIInv'
<1>1. PICK stage \in {"Production", "Staging", "Archived"}, archive \in BOOLEAN :
        StageMoves(v, stage, archive)
  BY DEF PersonMoves
<1>2. moves' # 0 /\ moves' \in Nat /\ UNCHANGED <<script, api>>
  BY DEF PersonMoves, RegIInv, RegTyped
<1>3. /\ Registry' /\ Len(versions') = Len(versions)
      /\ \A w \in DOMAIN versions :
           /\ versions'[w].model = versions[w].model
           /\ versions'[w].by = versions[w].by
           /\ versions'[w].tags = versions[w].tags
  BY <1>1, StageSets
<1>4. DOMAIN versions' = DOMAIN versions /\ DOMAIN versions = 1 .. Len(versions)
  BY <1>3 DEF Registry
<1>5. \A m : OfModel(m)' = OfModel(m)
  BY <1>3, <1>4 DEF OfModel
<1>6. RegTyped'
  BY <1>2, <1>3 DEF RegIInv, RegTyped
<1>7. ASSUME NEW s \in Publishers PROVE Publishing(s)'
  <2>1. Publishing(s)
    BY DEF RegIInv, Underway
  <2>2. Registered(s) => Registered(s)' /\ Staged(s)' /\ (Labelled(s) => Labelled(s)')
                           /\ (Marked(s) => Marked(s)')
    BY <1>2, <1>3, <1>4 DEF Registered, Staged, Labelled, Marked
  <2> QED
    BY <1>2, <2>1, <2>2 DEF Publishing, Tagging
<1>8. Underway'
  BY <1>2, <1>5, <1>7 DEF RegIInv, Underway, Bootstrapping
<1>9. Candidates'
  <2> SUFFICES ASSUME NEW w \in OfModel(Candidate), Findable(w)' PROVE Finished(w)'
    BY <1>2, <1>5 DEF Candidates
  <2>1. /\ versions'[w].tags = versions[w].tags /\ versions'[w].by = versions[w].by
    BY <1>3, <1>4 DEF OfModel
  <2>2. Finished(w)
    BY <2>1 DEF RegIInv, Candidates, Findable
  <2> QED
    BY <1>2, <2>1, <2>2 DEF Finished
<1>10. OneInProduction'
  BY <1>2 DEF OneInProduction
<1> QED
  BY <1>6, <1>8, <1>9, <1>10 DEF RegIInv

LEMMA ApiKeeps ==
  ASSUME Registry, RegIInv,
         ApiStart \/ ApiLoadPipeline \/ ApiReadContract \/ ApiLoadFails, ApiWhole
  PROVE  RegIInv'
<1>1. UNCHANGED <<versions, script, moves>>
  BY DEF ApiStart, ApiLoadPipeline, ApiReadContract, ApiLoadFails, ApiStep
<1>2. Underway' /\ Candidates' /\ OneInProduction'
  BY <1>1 DEF RegIInv, Underway, Publishing, Bootstrapping, Registered, Staged, Labelled,
              Marked, Candidates, Findable, Finished, OneInProduction, Holding, OfModel
<1>3. PICK a, r, p, c, o : api = [at |-> a, run |-> r, pipeline |-> p,
                                  contract |-> c, source |-> o]
  BY DEF ApiWhole
<1>4. api'.at \in {"down", "loading", "serving"} /\ api'.run \in NoModel .. Len(versions)
  <2>0. NoModel \in NoModel .. Len(versions)
    BY RegistryTyped DEF NoModel
  <2>1. CASE ApiStart
    <3>1. LatestOf(Holding(ServedModel, ServedStage)) \in 1 .. Len(versions)
      <4>1. Holding(ServedModel, ServedStage) \subseteq 1 .. Len(versions)
        BY DEF Holding, OfModel
      <4> QED
        BY <2>1, <4>1, LatestIsOne, RegistryTyped DEF ApiStart
    <3>2. LatestOf(Holding(ServedModel, ServedStage)) \in NoModel .. Len(versions)
      BY <3>1, RegistryTyped DEF NoModel
    <3>3. /\ api'.at = "loading"
          /\ api'.run = LatestOf(Holding(ServedModel, ServedStage))
      BY <2>1 DEF ApiStart, ApiDown
    <3> QED
      BY <3>2, <3>3
  <2>2. CASE ApiLoadPipeline
    <3>1. api'.at = a /\ api'.run = r
      BY <1>3, <2>2 DEF ApiLoadPipeline
    <3> QED
      BY <1>3, <3>1 DEF RegIInv, RegTyped
  <2>3. CASE ApiReadContract
    <3>1. api'.at = "serving" /\ api'.run = r
      BY <1>3, <2>3 DEF ApiReadContract
    <3> QED
      BY <1>3, <3>1 DEF RegIInv, RegTyped
  <2>4. CASE ApiLoadFails
    <3>1. api'.at \in {"down", "serving"} /\ api'.run = NoModel
      BY <2>4 DEF ApiLoadFails, FallBack, ApiDown
    <3> QED
      BY <2>0, <3>1
  <2> QED
    BY <2>1, <2>2, <2>3, <2>4
<1>5. RegTyped'
  BY <1>1, <1>4 DEF RegIInv, RegTyped
<1> QED
  BY <1>2, <1>5 DEF RegIInv

LEMMA RegInit == ServingInit => RegIInv
<1> SUFFICES ASSUME ServingInit PROVE RegIInv
  OBVIOUS
<1>1. /\ versions = <<>> /\ Len(versions) = 0 /\ DOMAIN versions = {} /\ moves = 0
      /\ api.at = "down" /\ api.run = NoModel
      /\ script = [s \in Publishers \cup Bootstraps |-> [at |-> "begin", v |-> 0]]
  BY DEF ServingInit, ApiDown
<1>2. \A m : OfModel(m) = {}
  BY <1>1 DEF OfModel
<1>3. RegTyped
  <2>1. script \in [Publishers \cup Bootstraps -> [at : ScriptPlaces, v : Nat]]
    BY <1>1 DEF ScriptPlaces
  <2> QED
    BY <1>1, <2>1 DEF RegTyped, NoModel
<1>4. Underway
  BY <1>1 DEF Underway, Publishing, Bootstrapping, Tagging
<1>5. Candidates /\ OneInProduction
  BY <1>2 DEF Candidates, OneInProduction, Holding
<1> QED
  BY <1>3, <1>4, <1>5 DEF RegIInv

LEMMA RegNext == ServIInv /\ RegIInv /\ [ServingNext]_servingVars => RegIInv'
<1> SUFFICES ASSUME ServIInv, RegIInv, [ServingNext]_servingVars PROVE RegIInv'
  OBVIOUS
<1>0. Registry /\ ApiWhole
  BY DEF ServIInv
<1>1. CASE UNCHANGED servingVars
  BY <1>1 DEF servingVars, RegIInv, RegTyped, Underway, Publishing, Bootstrapping,
              Registered, Staged, Labelled, Marked, Candidates, Findable, Finished,
              OneInProduction, Holding, OfModel
<1>2. ASSUME NEW s \in Publishers \cup Bootstraps,
             PublishLookup(s) \/ PublishRegister(s) \/ PublishStage(s) \/ PublishTag(s)
      PROVE  RegIInv'
  <2>1. s \in Publishers
    BY <1>2 DEF PublishLookup, PublishRegister, PublishStage, PublishTag
  <2> QED
    BY <1>0, <1>2, <2>1, PublishLookupKeeps, PublishRegisterKeeps, PublishStageKeeps,
       PublishTagKeeps
<1>3. ASSUME NEW s \in Publishers \cup Bootstraps,
             \/ BootstrapLookup(s) \/ BootstrapRegister(s)
             \/ BootstrapTag(s) \/ BootstrapPromote(s)
      PROVE  RegIInv'
  <2>1. s \in Bootstraps
    BY <1>3 DEF BootstrapLookup, BootstrapRegister, BootstrapTag, BootstrapPromote
  <2> QED
    BY <1>0, <1>3, <2>1, BootstrapLookupKeeps, BootstrapRegisterKeeps, BootstrapTagKeeps,
       BootstrapPromoteKeeps
<1> QED
  BY <1>0, <1>1, <1>2, <1>3, PersonMovesKeeps, ApiKeeps, ScriptFailsKeeps DEF ServingNext

\* What the invariant says of a version found by its source run, and of the
\* number of versions in Production.
LEMMA RegIInvSays == ServIInv /\ RegIInv => RegistryInv
<1> SUFFICES ASSUME ServIInv, RegIInv PROVE RegistryInv
  OBVIOUS
<1>0. Registry
  BY DEF ServIInv
<1>1. ServingTypeOK
  BY <1>0, RegistryTyped DEF RegIInv, RegTyped, ServingTypeOK, Version
<1>2. ScriptsSparePromotion
  <2> SUFFICES ASSUME moves = 0
               PROVE  /\ Holding(Candidate, "Production") = {}
                      /\ Cardinality(Holding(Legacy, "Production")) <= 1
    BY DEF ScriptsSparePromotion
  <2>1. Holding(Candidate, "Production") = {}
    BY DEF RegIInv, Candidates, Holding
  <2>2. ASSUME Holding(Legacy, "Production") = {}
        PROVE  Cardinality(Holding(Legacy, "Production")) = 0
    BY <2>2, FS_EmptySet
  <2>3. ASSUME Holding(Legacy, "Production") # {}
        PROVE  Cardinality(Holding(Legacy, "Production")) = 1
    <3>1. PICK v : v \in Holding(Legacy, "Production")
      BY <2>3
    <3>2. Holding(Legacy, "Production") = {v}
      BY <3>1 DEF RegIInv, OneInProduction
    <3> QED
      BY <3>2, FS_Singleton
  <2> QED
    BY <2>1, <2>2, <2>3
<1>3. FoundIsComplete
  <2> SUFFICES ASSUME NEW s \in Publishers, NEW v \in Published(SourceOf[s])
               PROVE  Finished(v)
    BY DEF FoundIsComplete, Finished
  <2>1. v \in OfModel(Candidate) /\ Findable(v)
    BY DEF Published, Findable
  <2> QED
    BY <2>1 DEF RegIInv, Candidates
<1> QED
  BY <1>1, <1>2, <1>3 DEF RegistryInv

(***************************************************************************)
(* Scripts never put a candidate into Production nor two versions of the   *)
(* legacy model, and a version found by its source run is a finished       *)
(* publication: for any scripts, overlapping and failing anywhere.         *)
(***************************************************************************)
THEOREM RegistryHolds == ServingSpec => []RegistryInv
<1>1. ServingInit => ServIInv /\ RegIInv
  BY ServInit, RegInit
<1>2. (ServIInv /\ RegIInv) /\ [ServingNext]_servingVars => (ServIInv /\ RegIInv)'
  BY ServNext, RegNext
<1>3. ServIInv /\ RegIInv => RegistryInv
  BY RegIInvSays
<1> QED
  BY <1>1, <1>2, <1>3, PTL DEF ServingSpec

-----------------------------------------------------------------------------
(***************************************************************************)
(* Predict: the answers of /predict.                                       *)
(***************************************************************************)
Codes == {200, 422, 500}

PredTyped ==
  /\ server \in ApiServers /\ answer.from \in ApiServers
  /\ call.by \in {"none", "bridge", "client"}
  /\ call.rows \in Seq(TickRow)
  /\ answer.status \in {0} \cup Codes
  /\ requests \in Nat /\ errors \in Nat /\ timed \in Nat /\ unseen \in Nat
  /\ served \in [Codes -> Nat]

\* The bridge posts one row, whose ts has its offset if Kafka dated the message.
OneRow ==
  call.by = "bridge" =>
    Len(call.rows) = 1 /\ (call.dated => call.rows[1].ts = "aware")

\* The inductive invariant of /predict.
PredIInv ==
  PredTyped /\ OneRow /\ HeldForCause /\ FallbackScores /\ ScoredByContract /\ CountersAgree

Statuses == HeldForCause /\ FallbackScores /\ ScoredByContract
-----------------------------------------------------------------------------
LEMMA PredInitInv == PredictInit => PredIInv
<1> SUFFICES ASSUME PredictInit PROVE PredIInv
  OBVIOUS
<1>1. PredTyped /\ OneRow
  BY DEF PredictInit, NoCall, Waiting, PredTyped, OneRow, Codes
<1>2. HeldForCause /\ FallbackScores /\ ScoredByContract
  BY DEF PredictInit, NoCall, Waiting, HeldForCause, FallbackScores, ScoredByContract
<1>3. CountersAgree
  BY DEF PredictInit, CountersAgree
<1> QED
  BY <1>1, <1>2, <1>3 DEF PredIInv

\* A request without an answer yet promises nothing.
LEMMA Unanswered ==
  answer.status = 0 => HeldForCause /\ FallbackScores /\ ScoredByContract
BY DEF HeldForCause, FallbackScores, ScoredByContract

LEMMA ArriveKeeps == ASSUME PredIInv, Arrive PROVE PredIInv'
<1>1. PICK message \in TickRow, dated \in BOOLEAN :
        call' = [by |-> "bridge", rows |-> <<BuildRow(message, dated)>>,
                 dated |-> dated]
  BY DEF Arrive
<1>2. answer' = [status |-> 0, from |-> server]
  BY DEF Arrive, Waiting
<1>3. /\ BuildRow(message, dated) \in TickRow
      /\ dated => BuildRow(message, dated).ts = "aware"
  BY DEF BuildRow, TickRow, Times
<1>4. PredTyped'
  BY <1>1, <1>2, <1>3 DEF PredIInv, PredTyped, Arrive
<1>5. OneRow'
  BY <1>1, <1>3 DEF OneRow
<1>6. HeldForCause' /\ FallbackScores' /\ ScoredByContract'
  BY <1>2 DEF HeldForCause, FallbackScores, ScoredByContract
<1>7. CountersAgree'
  BY DEF PredIInv, CountersAgree, Arrive
<1> QED
  BY <1>4, <1>5, <1>6, <1>7 DEF PredIInv

LEMMA ClientKeeps == ASSUME PredIInv, ClientCalls PROVE PredIInv'
<1>1. PICK row \in TickRow, set \in FeatureSets, schema \in Schemas :
        LET good == [set |-> set, schema |-> schema, values |-> "all",
                     ts |-> "aware"]
        IN  \E rows \in {<<>>, <<row, good>>, <<good, row>>} :
              call' = [by |-> "client", rows |-> rows, dated |-> FALSE]
  BY DEF ClientCalls
<1> DEFINE good == [set |-> set, schema |-> schema, values |-> "all", ts |-> "aware"]
<1>2. good \in TickRow
  BY DEF TickRow, Values, Times
<1>3. PICK rows \in {<<>>, <<row, good>>, <<good, row>>} :
        call' = [by |-> "client", rows |-> rows, dated |-> FALSE]
  BY <1>1
<1> HIDE DEF good
<1>4. rows \in Seq(TickRow)
  <2>1. <<>> \in Seq(TickRow) /\ <<row, good>> \in Seq(TickRow) /\ <<good, row>> \in Seq(TickRow)
    BY <1>2
  <2> QED
    BY <2>1, <1>3
<1>5. answer' = [status |-> 0, from |-> server]
  BY DEF ClientCalls, Waiting
<1>6. PredTyped'
  BY <1>3, <1>4, <1>5 DEF PredIInv, PredTyped, ClientCalls
<1>7. OneRow'
  BY <1>3 DEF OneRow
<1>8. HeldForCause' /\ FallbackScores' /\ ScoredByContract'
  BY <1>5 DEF HeldForCause, FallbackScores, ScoredByContract
<1>9. CountersAgree'
  BY DEF PredIInv, CountersAgree, ClientCalls
<1> QED
  BY <1>6, <1>7, <1>8, <1>9 DEF PredIInv

\* What an answer of the running API does: the typing and the counters.
LEMMA AnsweredTyped ==
  ASSUME PredIInv, NEW code \in Codes, Answered(code), Known
  PROVE  /\ answer' = [status |-> code, from |-> server]
         /\ served' \in [Codes -> Nat] /\ served'[code] = served[code] + 1
         /\ \A c \in Codes \ {code} : served'[c] = served[c]
         /\ \A c \in Codes : served[c] \in Nat
         /\ UNCHANGED <<server, call>>
BY DEF PredIInv, PredTyped, Answered, Known

LEMMA Counted ==
  ASSUME PredIInv, NEW code \in Codes, Answered(code), Known,
         requests' \in Nat, errors' \in Nat, timed' \in Nat, unseen' \in Nat,
         Statuses', CountersAgree'
  PROVE  PredIInv'
<1>1. PredTyped'
  BY AnsweredTyped DEF PredIInv, PredTyped, Codes
<1>2. OneRow'
  BY DEF PredIInv, OneRow, Known
<1> QED
  BY <1>1, <1>2 DEF PredIInv, Statuses

\* A request is counted as scored, as an error, or as a failure nobody sees.
LEMMA CountersMove ==
  ASSUME PredIInv, NEW code \in Codes, Answered(code), Known,
         requests' = requests + 1,
         \/ code = 200 /\ timed' = timed + 1 /\ errors' = errors /\ unseen' = unseen
         \/ code # 200 /\ timed' = timed + 1 /\ errors' = errors + 1 /\ unseen' = unseen
         \/ code # 200 /\ timed' = timed /\ errors' = errors /\ unseen' = unseen + 1
  PROVE  CountersAgree'
<1> DEFINE r == requests t == timed e == errors u == unseen
           a == served[200] b == served[422] c == served[500]
           a1 == served'[200] b1 == served'[422] c1 == served'[500]
<1>1. /\ r \in Nat /\ t \in Nat /\ e \in Nat /\ u \in Nat
      /\ a \in Nat /\ b \in Nat /\ c \in Nat
  BY DEF PredIInv, PredTyped, Codes
<1>2. r = t + u /\ t = e + a /\ e + u <= b + c
  BY DEF PredIInv, CountersAgree
<1>3. \/ code = 200 /\ a1 = a + 1 /\ b1 = b /\ c1 = c
      \/ code # 200 /\ a1 = a /\ b1 = b + 1 /\ c1 = c
      \/ code # 200 /\ a1 = a /\ b1 = b /\ c1 = c + 1
  BY AnsweredTyped DEF Codes
<1> HIDE DEF r, t, e, u, a, b, c, a1, b1, c1
<1>4. (r + 1) = (t + 1) + u /\ (r + 1) = t + (u + 1)
  BY ONLY <1>1, <1>2
<1>5. /\ code = 200 => t + 1 = e + a1 /\ e + u <= b1 + c1
      /\ code # 200 => /\ t + 1 = (e + 1) + a1 /\ (e + 1) + u <= b1 + c1
                       /\ t = e + a1 /\ e + (u + 1) <= b1 + c1
  BY ONLY <1>1, <1>2, <1>3
<1> QED
  BY <1>4, <1>5 DEF CountersAgree, r, t, e, u, a, b, c, a1, b1, c1

LEMMA MalformedKeeps == ASSUME PredIInv, RefuseMalformed PROVE PredIInv'
<1>0. 422 \in Codes /\ Answered(422) /\ Known
  BY DEF RefuseMalformed, Codes
<1>1. answer'.status = 422 /\ call' = call
  BY <1>0, AnsweredTyped
<1>2. FallbackScores'
  <2>1. call.by = "bridge" => Malformed(call.rows[1])
    BY DEF RefuseMalformed, In, PredIInv, PredTyped, OneRow
  <2> QED
    BY <1>1, <2>1 DEF FallbackScores, Malformed
<1>3. Statuses'
  BY <1>1, <1>2 DEF Statuses, HeldForCause, ScoredByContract
<1>4. CountersAgree'
  BY <1>0, AnsweredTyped DEF PredIInv, PredTyped, CountersAgree, RefuseMalformed, Codes
<1> QED
  BY <1>0, <1>3, <1>4, Counted DEF RefuseMalformed, PredIInv, PredTyped

LEMMA ContractKeeps == ASSUME PredIInv, RefuseContract PROVE PredIInv'
<1>0. 422 \in Codes /\ Answered(422) /\ Known
  BY DEF RefuseContract, Codes
<1>1. answer'.status = 422 /\ answer'.from = server /\ call' = call
  BY <1>0, AnsweredTyped
<1>2. FallbackScores'
  <2> SUFFICES ASSUME call.by = "bridge", server.variant = "baseline"
               PROVE  ~Names(call.rows[1], [set |-> DefaultSet, schema |-> DefaultSchema])
    BY <1>1 DEF FallbackScores, Names
  <2>1. OffContract(call.rows[1])
    BY DEF RefuseContract, In, PredIInv, PredTyped, OneRow
  <2>2. server.set = DefaultSet /\ server.schema = DefaultSchema
    BY PredictAssumption DEF PredIInv, PredTyped
  <2> QED
    BY <2>1, <2>2 DEF OffContract, Names
<1>3. Statuses'
  BY <1>1, <1>2 DEF Statuses, HeldForCause, ScoredByContract
<1>4. requests' = requests + 1 /\ unseen' = unseen + 1 /\ UNCHANGED <<errors, timed>>
  BY DEF RefuseContract, Enter
<1>5. CountersAgree'
  BY <1>0, <1>4, CountersMove
<1> QED
  BY <1>0, <1>3, <1>4, <1>5, Counted DEF PredIInv, PredTyped

LEMMA FreshnessKeeps == ASSUME PredIInv, FailFreshness PROVE PredIInv'
<1>0. 500 \in Codes /\ Answered(500) /\ Known
  BY DEF FailFreshness, Codes
<1>1. answer'.status = 500 /\ call' = call
  BY <1>0, AnsweredTyped
<1>2. HeldForCause'
  BY <1>1 DEF HeldForCause, FailFreshness, NoAge, PredIInv, OneRow
<1>3. Statuses'
  BY <1>1, <1>2 DEF Statuses, FallbackScores, ScoredByContract
<1>4. requests' = requests + 1 /\ unseen' = unseen + 1 /\ UNCHANGED <<errors, timed>>
  BY DEF FailFreshness, Enter
<1>5. CountersAgree'
  BY <1>0, <1>4, CountersMove
<1> QED
  BY <1>0, <1>3, <1>4, <1>5, Counted DEF PredIInv, PredTyped

LEMMA MissingKeeps == ASSUME PredIInv, RefuseMissing PROVE PredIInv'
<1>0. 422 \in Codes /\ Answered(422) /\ Known /\ server.variant = "ml"
  BY DEF RefuseMissing, Try, Codes
<1>1. answer'.status = 422 /\ answer'.from = server /\ call' = call
  BY <1>0, AnsweredTyped
<1>2. Statuses'
  BY <1>0, <1>1 DEF Statuses, HeldForCause, FallbackScores, ScoredByContract
<1>3. /\ requests' = requests + 1 /\ timed' = timed + 1 /\ errors' = errors + 1
      /\ unseen' = unseen
  BY DEF RefuseMissing, Try, Enter
<1>4. CountersAgree'
  BY <1>0, <1>3, CountersMove
<1> QED
  BY <1>0, <1>2, <1>3, <1>4, Counted DEF PredIInv, PredTyped

LEMMA ScoringKeeps == ASSUME PredIInv, FailScoring PROVE PredIInv'
<1>0. 500 \in Codes /\ Answered(500) /\ Known
  BY DEF FailScoring, Try, Codes
<1>1. answer'.status = 500 /\ answer'.from = server /\ call' = call
  BY <1>0, AnsweredTyped
<1>2. HeldForCause'
  <2>1. Extracted # "ofOthers"
    BY DEF Extracted
  <2>2. call.by = "bridge" => call.rows # <<>>
    BY DEF PredIInv, OneRow
  <2>3. call.by = "bridge" => server.variant = "ml" /\ ~server.fits
    BY <2>1, <2>2 DEF FailScoring, Raises
  <2> QED
    BY <1>1, <2>3 DEF HeldForCause
<1>3. Statuses'
  BY <1>1, <1>2 DEF Statuses, FallbackScores, ScoredByContract
<1>4. /\ requests' = requests + 1 /\ timed' = timed + 1 /\ errors' = errors + 1
      /\ unseen' = unseen
  BY DEF FailScoring, Try, Enter
<1>5. CountersAgree'
  BY <1>0, <1>4, CountersMove
<1> QED
  BY <1>0, <1>3, <1>4, <1>5, Counted DEF PredIInv, PredTyped

LEMMA ScoreKeeps == ASSUME PredIInv, ScoreRows PROVE PredIInv'
<1>0. 200 \in Codes /\ Answered(200) /\ Known
  BY DEF ScoreRows, Try, Codes
<1>1. answer'.status = 200 /\ answer'.from = server /\ call' = call
  BY <1>0, AnsweredTyped
<1>2. ScoredByContract'
  <2> SUFFICES ASSUME NEW i \in DOMAIN call.rows
               PROVE  /\ Names(call.rows[i], server) /\ ~Malformed(call.rows[i])
                      /\ server.variant = "ml" /\ server.more =>
                           call.rows[i].values = "all"
                      /\ server.variant = "ml" /\ ~server.legacy =>
                           call.rows[i].set # Unnamed /\ call.rows[i].schema # Unnamed
    BY <1>1 DEF ScoredByContract, Names, Malformed
  <2>1. ~Malformed(call.rows[i]) /\ ~OffContract(call.rows[i])
    BY DEF ScoreRows, Try, Enter, In
  <2>2. server.variant = "ml" => ~Missing(call.rows[i])
    BY DEF ScoreRows, In
  <2>3. call.rows[i] \in TickRow
    BY DEF PredIInv, PredTyped
  <2> QED
    BY <2>1, <2>2, <2>3 DEF Malformed, OffContract, Missing, Names, TickRow, Values
<1>3. Statuses'
  BY <1>1, <1>2 DEF Statuses, HeldForCause, FallbackScores
<1>4. /\ requests' = requests + 1 /\ timed' = timed + 1 /\ errors' = errors
      /\ unseen' = unseen
  BY DEF ScoreRows, Try, Enter
<1>5. CountersAgree'
  BY <1>0, <1>4, CountersMove
<1> QED
  BY <1>0, <1>3, <1>4, <1>5, Counted DEF PredIInv, PredTyped

LEMMA RedeployKeeps == ASSUME PredIInv, Redeploy PROVE PredIInv'
<1>1. PredTyped'
  BY DEF PredIInv, PredTyped, Redeploy, Codes
<1>2. CountersAgree'
  BY DEF CountersAgree, Redeploy
<1>3. OneRow' /\ HeldForCause' /\ FallbackScores' /\ ScoredByContract'
  BY DEF PredIInv, OneRow, HeldForCause, FallbackScores, ScoredByContract, Redeploy,
         Names, Malformed
<1> QED
  BY <1>1, <1>2, <1>3 DEF PredIInv

LEMMA PredNextInv == PredIInv /\ [PredictNext]_predictVars => PredIInv'
<1> SUFFICES ASSUME PredIInv, [PredictNext]_predictVars PROVE PredIInv'
  OBVIOUS
<1>1. CASE UNCHANGED predictVars
  BY <1>1 DEF predictVars, PredIInv, PredTyped, OneRow, HeldForCause, FallbackScores,
              ScoredByContract, CountersAgree, Names, Malformed
<1> QED
  BY <1>1, ArriveKeeps, ClientKeeps, RedeployKeeps, MalformedKeeps, ContractKeeps,
     FreshnessKeeps, MissingKeeps, ScoringKeeps, ScoreKeeps DEF PredictNext

LEMMA PredIInvSays == PredIInv => PredictInv
BY DEF PredIInv, PredTyped, Codes, PredictInv, PredictTypeOK

(***************************************************************************)
(* POST /predict stops the bridge, or gives one of its messages up, only   *)
(* for the causes listed, scores a row only with a model of its contract,  *)
(* and its counters tell scored from failed: for any contracts,            *)
(* deployments and calls.                                                  *)
(***************************************************************************)
THEOREM PredictHolds == PredictSpec => []PredictInv
<1>1. PredictSpec => []PredIInv
  BY PredInitInv, PredNextInv, PTL DEF PredictSpec
<1> QED
  BY <1>1, PredIInvSays, PTL

-----------------------------------------------------------------------------
(***************************************************************************)
(* SystemStatus: the probe rounds.                                         *)
(***************************************************************************)
StatTyped ==
  /\ round \in 0 .. MaxRounds
  /\ running \subseteq (1 .. round) \X Services
  /\ backlog \subseteq {round} \X Services
  /\ Cardinality(running) <= Workers
  /\ prompt \subseteq Services /\ answered \subseteq Services
  /\ lastHung \subseteq Services /\ hanging \subseteq Services
  /\ turn \in 0 .. Len(ServiceNames) + 1 /\ held \in Nat
  /\ heldBy \in Requests \cup {NoHolder}

\* A probe is in the queue, at a worker or done, and waits only for a worker.
PoolSound ==
  /\ running \cap backlog = {}
  /\ backlog # {} => Cardinality(running) = Workers
  /\ \A s \in answered : <<round, s>> \notin running \cup backlog

\* Outside a round nothing is left of one; what is listed has left the queue.
RoundEnds ==
  /\ heldBy = NoHolder => turn = 0 /\ backlog = {} /\ prompt = {} /\ lastHung = {}
  /\ turn > 0 => \A p \in backlog : Place(p[2]) >= turn

\* A probe that was taken at once is back when the wait is over, unless its
\* service hung; only the last ones of the list, as many as workers were busy,
\* were not taken at once.
PromptAnswers ==
  /\ \A s \in prompt : \/ s \in answered \cup lastHung
                       \/ turn = 0 /\ <<round, s>> \in running
  /\ heldBy # NoHolder => \A s \in Services \ prompt : Place(s) > Workers - held

\* Without a service that hangs no probe outlasts its round.
CalmPool ==
  calm => /\ hanging = {} /\ lastHung = {} /\ held = 0 /\ backlog = {}
          /\ running \subseteq {round} \X Services
          /\ heldBy = NoHolder \/ turn > 0 => running = {}

\* The inductive invariant of the probe rounds.
StatIInv ==
  StatTyped /\ PoolSound /\ RoundEnds /\ PromptAnswers /\ CalmPool /\ HealthyReported
-----------------------------------------------------------------------------
LEMMA ServicesFinite == IsFiniteSet(Services) /\ Workers \in Nat
<1>1. ServiceNames \in Surjection(1 .. Len(ServiceNames), Services)
  <2>1. ServiceNames \in [1 .. Len(ServiceNames) -> Services]
    BY StatusAssumption
  <2>2. \A s \in Services : \E i \in 1 .. Len(ServiceNames) : ServiceNames[i] = s
    BY <2>1 DEF Services, ToSet
  <2> QED
    BY <2>1, <2>2 DEF Surjection
<1>2. IsFiniteSet(1 .. Len(ServiceNames))
  <2>1. Len(ServiceNames) \in Nat
    BY StatusAssumption
  <2> QED
    BY <2>1, FS_Interval
<1>3. IsFiniteSet(Services)
  BY <1>1, <1>2, FS_Surjection
<1> QED
  BY <1>3, FS_CardinalityType DEF Workers

\* Each service has its place, and there are as many places as workers.
LEMMA PlacesOfServices ==
  /\ Len(ServiceNames) \in Nat \ {0} /\ Len(ServiceNames) <= Workers
  /\ \A s \in Services : /\ Place(s) \in 1 .. Len(ServiceNames)
                         /\ ServiceNames[Place(s)] = s
  /\ \A i \in DOMAIN ServiceNames : ServiceNames[i] \in Services
  /\ DOMAIN ServiceNames = 1 .. Len(ServiceNames)
<1>1. /\ ServiceNames \in [1 .. Len(ServiceNames) -> Services]
      /\ Len(ServiceNames) \in Nat \ {0} /\ IsInjective(ServiceNames)
  BY StatusAssumption
<1>2. \A s \in Services : \E i \in DOMAIN ServiceNames : ServiceNames[i] = s
  BY <1>1 DEF Services, ToSet
<1>3. ServiceNames \in Injection(1 .. Len(ServiceNames), Services)
  BY <1>1 DEF Injection
<1>4. Cardinality(1 .. Len(ServiceNames)) = Len(ServiceNames)
  BY <1>1, FS_Interval
<1>5. Len(ServiceNames) <= Workers
  BY <1>3, <1>4, ServicesFinite, FS_Injection DEF Workers
<1>6. \A s \in Services : Place(s) \in DOMAIN ServiceNames /\ ServiceNames[Place(s)] = s
  BY <1>2 DEF Place
<1> QED
  BY <1>1, <1>5, <1>6

LEMMA StatInitInv == StatusInit => StatIInv
<1> SUFFICES ASSUME StatusInit PROVE StatIInv
  OBVIOUS
<1>1. Cardinality(running) = 0
  BY FS_EmptySet DEF StatusInit
<1>2. StatTyped
  BY <1>1, ServicesFinite, PlacesOfServices, StatusAssumption DEF StatusInit, StatTyped
<1> QED
  BY <1>2 DEF StatusInit, StatIInv, PoolSound, RoundEnds, PromptAnswers, CalmPool,
              HealthyReported, NoStatus

\* What the pool takes: probes move from the queue to the workers, and none is
\* left behind while a worker is free.
LEMMA TakeMoves ==
  ASSUME NEW run, NEW queue, Take(run, queue), run \cap queue = {}
  PROVE  /\ run \subseteq running' /\ running' \subseteq run \cup queue
         /\ backlog' \subseteq queue /\ running' \cup backlog' = run \cup queue
         /\ running' \cap backlog' = {}
         /\ Cardinality(running') <= Workers
         /\ backlog' # {} => Cardinality(running') = Workers
BY DEF Take

\* A probe that is left behind has the earlier ones of its round before it, and
\* they and what ran already fill the pool.
LEMMA LeftBehind ==
  ASSUME NEW n \in Nat, NEW run, IsFiniteSet(run),
         Take(run, {<<n, s>> : s \in Services}),
         NEW s \in Services, <<n, s>> \notin running'
  PROVE  Place(s) > Workers - Cardinality(run)
<1> DEFINE probes == {<<n, t>> : t \in Services}
           before == 1 .. Place(s) - 1
<1>1. PICK taken \in SUBSET probes :
        /\ \A p \in taken, q \in probes \ taken : Before(p, q)
        /\ taken # probes => Cardinality(run \cup taken) = Workers
        /\ running' = run \cup taken
  BY DEF Take
<1>2. <<n, s>> \in probes \ taken
  BY <1>1
<1>3. Cardinality(run \cup taken) = Workers
  BY <1>1, <1>2
<1>4. \A p \in taken : p = <<n, p[2]>> /\ p[2] \in Services
  OBVIOUS
<1>5. \A p \in taken : Place(p[2]) < Place(s)
  <2> SUFFICES ASSUME NEW p \in taken PROVE Place(p[2]) < Place(s)
    OBVIOUS
  <2>1. Before(p, <<n, s>>) /\ p[1] = n
    BY <1>1, <1>2, <1>4
  <2> QED
    BY <2>1 DEF Before
<1> HIDE DEF probes
<1>6. Place(s) \in Nat \ {0} /\ \A t \in Services : Place(t) \in Nat \ {0}
  BY PlacesOfServices
<1> DEFINE f == [p \in taken |-> Place(p[2])]
<1>7. f \in Injection(taken, before)
  <2>1. \A p \in taken : Place(p[2]) \in before
    BY <1>4, <1>5, <1>6
  <2>2. \A p, q \in taken : f[p] = f[q] => p = q
    BY <1>4, PlacesOfServices
  <2>3. f \in [taken -> before]
    BY <2>1
  <2> HIDE DEF before
  <2> QED
    BY <2>2, <2>3 DEF Injection, IsInjective
<1>8. IsFiniteSet(before) /\ Cardinality(before) = Place(s) - 1
  <2> DEFINE most == Place(s) - 1
  <2>1. most \in Nat
    BY <1>6
  <2> HIDE DEF most
  <2>2. IsFiniteSet(1 .. most) /\ Cardinality(1 .. most) = most
    BY <2>1, FS_Interval
  <2> QED
    BY <2>2 DEF most
<1> HIDE DEF f, before
<1>9. IsFiniteSet(taken) /\ Cardinality(taken) <= Place(s) - 1
  BY <1>7, <1>8, FS_Injection
<1>10. Cardinality(run \cup taken) = Cardinality(run) + Cardinality(taken) - Cardinality(run \cap taken)
  BY <1>9, FS_Union
<1>11. /\ Cardinality(run) \in Nat /\ Cardinality(taken) \in Nat
       /\ Cardinality(run \cap taken) \in Nat
  <2>1. IsFiniteSet(run \cap taken)
    BY FS_Subset
  <2> QED
    BY <1>9, <2>1, FS_CardinalityType
<1> QED
  BY <1>3, <1>6, <1>9, <1>10, <1>11, ServicesFinite

LEMMA RunningFinite == StatTyped => IsFiniteSet(running) /\ Cardinality(running) \in Nat
<1> SUFFICES ASSUME StatTyped PROVE IsFiniteSet(running) /\ Cardinality(running) \in Nat
  OBVIOUS
<1>1. IsFiniteSet(1 .. round)
  BY StatusAssumption, FS_Interval DEF StatTyped
<1>2. IsFiniteSet((1 .. round) \X Services)
  BY <1>1, ServicesFinite, FS_Product
<1>3. running \in SUBSET ((1 .. round) \X Services)
  BY DEF StatTyped
<1> QED
  BY <1>2, <1>3, FS_Subset, FS_CardinalityType

LEMMA StartKeeps ==
  ASSUME StatIInv, NEW r \in Requests, StartRound(r)
  PROVE  StatIInv'
<1> DEFINE probes == {<<round + 1, s>> : s \in Services}
<1>0. /\ round \in Nat /\ round + 1 \in 0 .. MaxRounds /\ round' = round + 1
      /\ heldBy = NoHolder /\ heldBy' = r /\ r # NoHolder
      /\ prompt' = {s \in Services : <<round + 1, s>> \in running'}
      /\ held' = Cardinality(running)
      /\ answered' = {} /\ turn' = 0 /\ lastHung' = hanging
      /\ UNCHANGED <<statusClock, hanging, calm, statusCache>>
  BY StatusAssumption DEF StatIInv, StatTyped, StartRound
<1>1. backlog = {}
  BY <1>0 DEF StatIInv, RoundEnds
<1>2. Take(running, probes)
  BY <1>1 DEF StartRound
<1>3. probes \subseteq {round + 1} \X Services /\ probes \subseteq (1 .. round + 1) \X Services
  BY <1>0
<1>4. running \subseteq (1 .. round + 1) \X Services /\ running \cap probes = {}
  BY <1>0 DEF StatIInv, StatTyped
<1>5. \A s \in Services : <<round + 1, s>> \notin running' => Place(s) > Workers - Cardinality(running)
  BY <1>0, <1>2, RunningFinite, LeftBehind DEF StatIInv
<1> HIDE DEF probes
<1>6. /\ running \subseteq running' /\ running' \subseteq running \cup probes
      /\ backlog' \subseteq probes /\ running' \cup backlog' = running \cup probes
      /\ running' \cap backlog' = {}
      /\ Cardinality(running') <= Workers
      /\ backlog' # {} => Cardinality(running') = Workers
  BY <1>2, <1>4, TakeMoves
<1>7. StatTyped'
  <2>1. /\ running' \subseteq (1 .. round') \X Services /\ backlog' \subseteq {round'} \X Services
        /\ Cardinality(running') <= Workers
    BY <1>0, <1>3, <1>4, <1>6
  <2>2. held' \in Nat
    BY <1>0, RunningFinite DEF StatIInv
  <2> QED
    BY <1>0, <2>1, <2>2, PlacesOfServices DEF StatIInv, StatTyped
<1>8. PoolSound'
  BY <1>0, <1>6 DEF PoolSound
<1>9. RoundEnds'
  BY <1>0 DEF RoundEnds
<1>10. PromptAnswers'
  BY <1>0, <1>5 DEF PromptAnswers
<1>11. CalmPool'
  <2> SUFFICES ASSUME calm
               PROVE  /\ hanging = {} /\ Cardinality(running) = 0 /\ backlog' = {}
                      /\ running' \subseteq {round + 1} \X Services
    BY <1>0 DEF CalmPool
  <2>1. hanging = {} /\ running = {}
    BY <1>0 DEF StatIInv, CalmPool
  <2>2. Cardinality(running) = 0
    BY <2>1, FS_EmptySet
  <2>3. \A s \in Services : <<round + 1, s>> \in running'
    BY <1>5, <2>2, PlacesOfServices, ServicesFinite
  <2>4. backlog' = {}
    BY <1>3, <1>6, <2>3
  <2> QED
    BY <1>3, <1>6, <2>1, <2>2, <2>4
<1>12. HealthyReported'
  BY <1>0 DEF StatIInv, HealthyReported
<1> QED
  BY <1>7, <1>8, <1>9, <1>10, <1>11, <1>12 DEF StatIInv

LEMMA ProbeKeeps ==
  ASSUME StatIInv, NEW p \in running, ProbeDone(p)
  PROVE  StatIInv'
<1>0. /\ UNCHANGED <<statusClock, hanging, lastHung, calm, round, prompt, turn, held,
                     heldBy, statusCache, waiting>>
      /\ round \in 0 .. MaxRounds
      /\ answered' = IF p[1] = round /\ Waits THEN answered \cup {p[2]} ELSE answered
  BY DEF ProbeDone, StatIInv, StatTyped, hangVars, requestVars
<1>1. p = <<p[1], p[2]>> /\ p[2] \in Services /\ p[1] \in 1 .. round /\ p \notin backlog
  BY DEF StatIInv, StatTyped, PoolSound
<1>2. Take(running \ {p}, backlog) /\ (running \ {p}) \cap backlog = {}
  BY DEF ProbeDone, StatIInv, PoolSound
<1>3. /\ running' \subseteq (running \ {p}) \cup backlog
      /\ backlog' \subseteq backlog
      /\ running \ {p} \subseteq running'
      /\ running' \cup backlog' = (running \ {p}) \cup backlog
      /\ running' \cap backlog' = {}
      /\ Cardinality(running') <= Workers
      /\ backlog' # {} => Cardinality(running') = Workers
  BY <1>2, TakeMoves
<1>4. answered' \subseteq answered \cup {p[2]} /\ answered \subseteq answered'
  BY <1>0
<1>5. StatTyped'
  <2>1. round \in 1 .. round
    BY <1>0, <1>1
  <2>2. backlog \subseteq (1 .. round) \X Services
    BY <2>1 DEF StatIInv, StatTyped
  <2>3. running' \subseteq (1 .. round) \X Services /\ answered' \subseteq Services
    BY <1>1, <1>3, <1>4, <2>2 DEF StatIInv, StatTyped
  <2> QED
    BY <1>0, <1>3, <2>3 DEF StatIInv, StatTyped
<1>6. PoolSound'
  <2> SUFFICES ASSUME NEW s \in answered' PROVE <<round, s>> \notin running' \cup backlog'
    BY <1>0, <1>3 DEF PoolSound
  <2>1. CASE s \in answered
    BY <1>3, <2>1 DEF StatIInv, PoolSound
  <2>2. CASE s \notin answered
    <3>1. p[1] = round /\ s = p[2]
      BY <1>0, <2>2
    <3>2. <<round, s>> = p
      BY <1>1, <3>1
    <3> QED
      BY <1>1, <1>3, <3>2
  <2> QED
    BY <2>1, <2>2
<1>7. RoundEnds'
  BY <1>0, <1>3 DEF StatIInv, RoundEnds
<1>8. PromptAnswers'
  <2> SUFFICES ASSUME NEW s \in prompt
               PROVE  s \in answered' \cup lastHung \/ (turn = 0 /\ <<round, s>> \in running')
    BY <1>0 DEF StatIInv, PromptAnswers
  <2>1. CASE <<round, s>> = p /\ turn = 0
    <3>1. p[1] = round /\ p[2] = s
      BY <2>1
    <3>2. CASE heldBy # NoHolder
      BY <1>0, <2>1, <3>1, <3>2 DEF Waits
    <3>3. CASE heldBy = NoHolder
      BY <3>3 DEF StatIInv, RoundEnds
    <3> QED
      BY <3>2, <3>3
  <2>2. CASE ~(<<round, s>> = p /\ turn = 0)
    BY <1>3, <1>4, <2>2 DEF StatIInv, PromptAnswers
  <2> QED
    BY <2>1, <2>2
<1>9. CalmPool'
  BY <1>0, <1>3 DEF StatIInv, CalmPool
<1>10. HealthyReported'
  BY <1>0 DEF StatIInv, HealthyReported
<1> QED
  BY <1>5, <1>6, <1>7, <1>8, <1>9, <1>10 DEF StatIInv

LEMMA WaitKeeps == ASSUME StatIInv, WaitOver PROVE StatIInv'
<1>0. /\ Waits /\ LimitStretched /\ turn = 0 /\ turn' = 1 /\ heldBy # NoHolder
      /\ UNCHANGED <<statusClock, hanging, lastHung, calm, running, backlog, round, prompt,
                     answered, held, heldBy, statusCache, waiting>>
  BY DEF WaitOver, Waits, hangVars, poolVars, requestVars
<1>1. \A s \in prompt : s \in answered \cup lastHung
  BY <1>0 DEF LimitStretched, StatIInv, PromptAnswers
<1>2. StatTyped' /\ PoolSound' /\ HealthyReported'
  BY <1>0, PlacesOfServices DEF StatIInv, StatTyped, PoolSound, HealthyReported
<1>3. RoundEnds'
  <2>1. \A p \in backlog : Place(p[2]) >= 1
    BY PlacesOfServices DEF StatIInv, StatTyped
  <2> QED
    BY <1>0, <2>1 DEF RoundEnds
<1>4. PromptAnswers'
  BY <1>0, <1>1 DEF StatIInv, PromptAnswers
<1>5. CalmPool'
  <2> SUFFICES ASSUME calm, running # {} PROVE FALSE
    BY <1>0 DEF StatIInv, CalmPool
  <2>1. lastHung = {} /\ held = 0 /\ running \subseteq {round} \X Services
    BY DEF StatIInv, CalmPool
  <2>2. PICK s \in Services : <<round, s>> \in running
    BY <2>1
  <2>3. ~(Place(s) > Workers - held)
    BY <2>1, PlacesOfServices, ServicesFinite
  <2>4. s \in prompt
    BY <1>0, <2>3 DEF StatIInv, PromptAnswers
  <2>5. s \in answered
    BY <1>1, <2>1, <2>4
  <2> QED
    BY <2>2, <2>5 DEF StatIInv, PoolSound
<1> QED
  BY <1>2, <1>3, <1>4, <1>5 DEF StatIInv

LEMMA ListKeeps == ASSUME StatIInv, ListService PROVE StatIInv'
<1>0. /\ turn \in 1 .. Len(ServiceNames) /\ turn' = turn + 1
      /\ backlog' = IF ServiceNames[turn] \in answered THEN backlog
                    ELSE backlog \ {<<round, ServiceNames[turn]>>}
      /\ UNCHANGED <<statusClock, hanging, lastHung, calm, running, round, prompt,
                     answered, held, heldBy, statusCache, waiting>>
  BY PlacesOfServices DEF ListService, CancelQueued, hangVars, requestVars
<1>1. /\ backlog' \subseteq backlog
      /\ Len(ServiceNames) \in Nat /\ turn \in Nat \ {0} /\ turn' \in 1 .. Len(ServiceNames) + 1
  BY <1>0, PlacesOfServices
<1>2. heldBy # NoHolder
  BY <1>1 DEF StatIInv, RoundEnds
<1>3. StatTyped' /\ PoolSound'
  BY <1>0, <1>1 DEF StatIInv, StatTyped, PoolSound
<1>4. RoundEnds'
  <2> SUFFICES ASSUME NEW p \in backlog' PROVE Place(p[2]) >= turn + 1
    BY <1>0, <1>2 DEF RoundEnds
  <2>1. p = <<round, p[2]>> /\ p[2] \in Services /\ Place(p[2]) >= turn
    BY <1>1 DEF StatIInv, StatTyped, RoundEnds
  <2>2. p[2] # ServiceNames[turn]
    BY <1>0, <1>1, <2>1 DEF StatIInv, PoolSound
  <2>3. Place(p[2]) \in Nat /\ ServiceNames[Place(p[2])] = p[2]
    BY <2>1, PlacesOfServices
  <2> QED
    BY <1>1, <2>1, <2>2, <2>3
<1>5. PromptAnswers' /\ CalmPool' /\ HealthyReported'
  BY <1>0, <1>1, <1>2 DEF StatIInv, PromptAnswers, CalmPool, HealthyReported
<1> QED
  BY <1>3, <1>4, <1>5 DEF StatIInv

LEMMA EndKeeps == ASSUME StatIInv, EndRound PROVE StatIInv'
<1>0. /\ turn = Len(ServiceNames) + 1 /\ heldBy' = NoHolder
      /\ statusCache' = [at |-> statusClock, missed |-> Missed, held |-> held]
      /\ turn' = 0 /\ prompt' = {} /\ answered' = {} /\ lastHung' = {} /\ held' = 0
      /\ UNCHANGED <<hanging, calm, running, backlog, round>>
  BY DEF EndRound, poolVars
<1>1. heldBy # NoHolder /\ turn > 0 /\ turn # 0
  BY <1>0, PlacesOfServices DEF StatIInv, RoundEnds
<1>2. backlog = {}
  <2> SUFFICES ASSUME NEW p \in backlog PROVE FALSE
    OBVIOUS
  <2>1. p[2] \in Services /\ Place(p[2]) >= turn
    BY <1>1 DEF StatIInv, StatTyped, RoundEnds
  <2> QED
    BY <1>0, <2>1, PlacesOfServices
<1>3. StatTyped' /\ PoolSound' /\ RoundEnds' /\ PromptAnswers'
  BY <1>0, <1>2, PlacesOfServices
     DEF StatIInv, StatTyped, PoolSound, RoundEnds, PromptAnswers
<1>4. CalmPool'
  BY <1>0, <1>1 DEF StatIInv, CalmPool
<1>5. HealthyReported'
  <2>1. \A s \in Missed : s \in Services \ prompt
    BY <1>1 DEF Missed, StatIInv, PromptAnswers
  <2>2. \A s \in Missed : Place(s) > Workers - held
    BY <1>1, <2>1 DEF StatIInv, PromptAnswers
  <2>3. calm => Missed = {}
    <3> SUFFICES ASSUME calm, NEW s \in Missed PROVE FALSE
      OBVIOUS
    <3>1. held = 0 /\ s \in Services
      BY DEF StatIInv, CalmPool, Missed
    <3> QED
      BY <2>2, <3>1, PlacesOfServices, ServicesFinite
  <2> QED
    BY <1>0, <2>2, <2>3 DEF HealthyReported
<1> QED
  BY <1>3, <1>4, <1>5 DEF StatIInv

LEMMA HangKeeps == ASSUME StatIInv, NEW s \in Services, Hang(s) PROVE StatIInv'
<1>0. /\ hanging' = (hanging \ {s}) \cup ({s} \ hanging)
      /\ lastHung' = IF heldBy = NoHolder THEN {} ELSE lastHung \cup hanging'
      /\ calm' = FALSE
      /\ UNCHANGED <<statusClock, running, backlog, round, prompt, answered, turn, held,
                     heldBy, statusCache, waiting>>
  BY DEF Hang, poolVars, roundVars, requestVars
<1>1. /\ hanging' \subseteq Services /\ lastHung' \subseteq Services
      /\ lastHung \subseteq lastHung'
  BY <1>0 DEF StatIInv, StatTyped, RoundEnds
<1>2. StatTyped' /\ PoolSound' /\ RoundEnds'
  BY <1>0, <1>1 DEF StatIInv, StatTyped, PoolSound, RoundEnds
<1>3. PromptAnswers'
  BY <1>0, <1>1 DEF StatIInv, PromptAnswers
<1>4. CalmPool' /\ HealthyReported'
  BY <1>0 DEF StatIInv, CalmPool, HealthyReported
<1> QED
  BY <1>2, <1>3, <1>4 DEF StatIInv

LEMMA StatNextInv == StatIInv /\ [StatusNext]_statusVars => StatIInv'
<1> SUFFICES ASSUME StatIInv, [StatusNext]_statusVars PROVE StatIInv'
  OBVIOUS
<1>1. ASSUME UNCHANGED <<hangVars, poolVars, roundVars, heldBy, statusCache>>
      PROVE  StatIInv'
  BY <1>1 DEF hangVars, poolVars, roundVars, StatIInv, StatTyped, PoolSound, RoundEnds,
              PromptAnswers, CalmPool, HealthyReported
<1>2. CASE UNCHANGED statusVars
  BY <1>1, <1>2 DEF statusVars, requestVars
<1>3. CASE StatusTick
  BY <1>1, <1>3 DEF StatusTick, requestVars
<1>4. ASSUME NEW r \in Requests, AskStatus(r) \/ CachedStatus(r)
      PROVE  StatIInv'
  BY <1>1, <1>4 DEF AskStatus, CachedStatus
<1> QED
  BY <1>2, <1>3, <1>4, StartKeeps, ProbeKeeps, WaitKeeps, ListKeeps, EndKeeps, HangKeeps
     DEF StatusNext

LEMMA StatIInvSays == StatIInv => StatusInv
<1> SUFFICES ASSUME StatIInv PROVE StatusInv
  OBVIOUS
<1>1. running \subseteq (1 .. MaxRounds) \X Services
  <2>1. \A n \in 1 .. round : n \in 1 .. MaxRounds
    BY StatusAssumption DEF StatIInv, StatTyped
  <2> QED
    BY <2>1 DEF StatIInv, StatTyped
<1>2. PoolDrained
  BY DEF StatIInv, RoundEnds, PoolDrained
<1> QED
  BY <1>1, <1>2 DEF StatIInv, StatTyped, StatusInv, StatusTypeOK

\* A service is reported as timed out without having hung only as one of the
\* last in the list.
THEOREM StatusHolds == StatusSpec => []StatusInv
<1>1. StatusSpec => []StatIInv
  BY StatInitInv, StatNextInv, PTL DEF StatusSpec
<1> QED
  BY <1>1, StatIInvSays, PTL
=============================================================================
