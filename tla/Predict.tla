------------------------------- MODULE Predict -------------------------------
(***************************************************************************)
(* POST /predict of api/main.py, its validation, freshness and counters,   *)
(* with the two who call it: the bridge, which posts the row it built from *)
(* a feature message until the answer is final, and any other client, with *)
(* a batch.  The API may be replaced by one that serves another model.     *)
(*                                                                         *)
(* A row is kept as far as the answer depends on it: the contract it names *)
(* (feature set and schema version), which of its values are there, and    *)
(* its ts.                                                                 *)
(***************************************************************************)
EXTENDS Integers, Sequences

CONSTANTS
  FeatureSets, Schemas,  \* the contracts there are
  DefaultSet, DefaultSchema,  \* core_v1 and its version
  ApiServers,            \* what the API may have loaded when it started
  MaxDeploys,            \* bound: replacements of the API
  MaxCalls,              \* bound: new batches (a retry is not one)
  MaxRequests            \* bound: predict_requests_total

Unnamed == "null"
\* The values of a row: one of the seven of TickRow is missing; one is null,
\* a boolean, text or not finite; only the seven; every column there is.
Values == {"short", "notFinite", "seven", "all"}
\* ts as text with an offset, without one, no date, absent or empty, no text.
Times == {"aware", "naive", "garbage", "absent", "notText"}
TickRow == [set: FeatureSets \cup {Unnamed}, schema: Schemas \cup {Unnamed},
            values: Values, ts: Times]

\* variant: MODEL_VARIANT; legacy: LEGACY_MODEL_SELECTION is served; set,
\* schema: the contract; more: FEATURE_COLS goes beyond the seven; fits: the
\* pipeline takes FEATURE_COLS; scaler: what its first step with statistics has.
\* The baseline variant loads no model, and keeps the default contract.
ASSUME PredictAssumption ==
  /\ ApiServers \subseteq
       [variant: {"ml", "baseline"}, legacy: BOOLEAN, set: FeatureSets,
        schema: Schemas, more: BOOLEAN, fits: BOOLEAN,
        scaler: {"none", "ofColumns", "ofOthers"}]
  /\ \A s \in ApiServers : s.variant = "baseline" =>
       s.set = DefaultSet /\ s.schema = DefaultSchema
  /\ MaxDeploys \in Nat /\ MaxCalls \in Nat /\ MaxRequests \in Nat

VARIABLES
  server,     \* the running API
  call,       \* the request: who sent it, its rows, when the message was dated
  answer,     \* its latest answer, and the API that gave it
  requests, errors, timed,  \* predict_requests_total, predict_errors_total and
                            \* the count of predict_latency_seconds
  warned,     \* _skew_warned_features is not empty
  served,     \* ghost: answers by status
  unseen,     \* ghost: failures outside the try block of predict
  deploys, calls

predictVars == <<server, call, answer, requests, errors, timed, warned, served,
                 unseen, deploys, calls>>

NoCall == [by |-> "none", rows |-> <<>>, dated |-> FALSE]
Waiting(api) == [status |-> 0, from |-> api]

PredictInit ==
  /\ server \in ApiServers
  /\ call = NoCall /\ answer = Waiting(server)
  /\ requests = 0 /\ errors = 0 /\ timed = 0 /\ warned = FALSE
  /\ served = [code \in {200, 422, 500} |-> 0]
  /\ unseen = 0 /\ deploys = 0 /\ calls = 0
-----------------------------------------------------------------------------
\* _build_row: a Kafka timestamp is written with its offset; without one the
\* message's own text is passed on.
BuildRow(message, dated) ==
  IF dated THEN [message EXCEPT !.ts = "aware"] ELSE message

\* numeric_features_are_finite, and the fields of TickRow.
Malformed(row) == row.values \in {"short", "notFinite"} \/ row.ts = "notText"

\* predict's first loop: a registered candidate needs both names, and a name
\* that is given must be the server's.
OffContract(row) ==
  \/ /\ server.variant = "ml" /\ ~server.legacy
     /\ row.set = Unnamed \/ row.schema = Unnamed
  \/ row.set # Unnamed /\ row.set # server.set
  \/ row.schema # Unnamed /\ row.schema # server.schema

\* datetime.fromisoformat raises, or the difference to an aware now does.
NoAge(rows) == rows # <<>> /\ rows[1].ts \in {"naive", "garbage"}

\* _score_ml: a column of the model that the row lacks.
Missing(row) == server.more /\ row.values = "seven"

\* Slip: the dimension of the scaler is not compared.
ExtractedUnchecked == server.scaler

\* _extract_scaler takes no statistics of another dimension: with those,
\* telemetry would raise.
Extracted == IF server.scaler = "ofOthers" THEN "none" ELSE server.scaler

Raises(rows) ==
  /\ server.variant = "ml"
  /\ rows = <<>> \/ ~server.fits \/ Extracted = "ofOthers"

In(pred(_), rows) == \E i \in DOMAIN rows : pred(rows[i])
Known == UNCHANGED <<server, call, deploys, calls>>
Answered(code) ==
  /\ answer' = [status |-> code, from |-> server]
  /\ served' = [served EXCEPT ![code] = @ + 1]

\* A request is open before its first answer, and the bridge's while its
\* answers are 5xx.
Open ==
  /\ call # NoCall
  /\ (answer.status = 0 \/ (call.by = "bridge" /\ answer.status = 500))
-----------------------------------------------------------------------------
\* The bridge has a message; the one before has a final answer.
Arrive ==
  /\ ~Open /\ calls < MaxCalls /\ calls' = calls + 1
  /\ \E message \in TickRow, dated \in BOOLEAN :
       call' = [by |-> "bridge", rows |-> <<BuildRow(message, dated)>>,
                dated |-> dated]
  /\ answer' = Waiting(server)
  /\ UNCHANGED <<server, requests, errors, timed, warned, served, unseen, deploys>>

\* A client sends any row behind and before a good one, or no row at all.
ClientCalls ==
  /\ ~Open /\ calls < MaxCalls /\ calls' = calls + 1
  /\ \E row \in TickRow, set \in FeatureSets, schema \in Schemas :
       LET good == [set |-> set, schema |-> schema, values |-> "all",
                    ts |-> "aware"]
       IN  \E rows \in {<<>>, <<row, good>>, <<good, row>>} :
             call' = [by |-> "client", rows |-> rows, dated |-> FALSE]
  /\ answer' = Waiting(server)
  /\ UNCHANGED <<server, requests, errors, timed, warned, served, unseen, deploys>>

\* request_validation_error: predict is not entered; what is not
\* finite is written as text, so that the answer itself cannot fail.
RefuseMalformed ==
  /\ Open /\ In(Malformed, call.rows)
  /\ Answered(422)
  /\ UNCHANGED <<requests, errors, timed, warned, unseen>> /\ Known

Enter ==
  /\ Open /\ ~In(Malformed, call.rows)
  /\ requests < MaxRequests /\ requests' = requests + 1

RefuseContract ==
  /\ Enter /\ In(OffContract, call.rows)
  /\ Answered(422)
  /\ unseen' = unseen + 1
  /\ UNCHANGED <<errors, timed, warned>> /\ Known

FailFreshness ==
  /\ Enter /\ ~In(OffContract, call.rows) /\ NoAge(call.rows)
  /\ Answered(500)
  /\ unseen' = unseen + 1
  /\ UNCHANGED <<errors, timed, warned>> /\ Known

\* The try block, whose finally clause observes the latency.
Try ==
  /\ Enter /\ ~In(OffContract, call.rows) /\ ~NoAge(call.rows)
  /\ timed' = timed + 1
  /\ UNCHANGED unseen /\ Known

RefuseMissing ==
  /\ Try /\ server.variant = "ml" /\ In(Missing, call.rows)
  /\ errors' = errors + 1 /\ Answered(422)
  /\ UNCHANGED warned

\* _record_feature_skew comes before predict_proba: rows that get no score may
\* have been observed, far out or not.
MayWarn == warned' \in {warned, warned \/ (Extracted = "ofColumns" /\ call.rows # <<>>)}

FailScoring ==
  /\ Try /\ ~In(Missing, call.rows) /\ Raises(call.rows)
  /\ errors' = errors + 1 /\ Answered(500)
  /\ MayWarn

ScoreRows ==
  /\ Try
  /\ \/ server.variant = "baseline" /\ UNCHANGED warned
     \/ server.variant = "ml" /\ ~In(Missing, call.rows) /\ MayWarn
  /\ ~Raises(call.rows)
  /\ Answered(200) /\ UNCHANGED errors

\* The API is stopped and started with another model; its counters start over.
Redeploy ==
  /\ deploys < MaxDeploys /\ deploys' = deploys + 1
  /\ server' \in ApiServers \ {server}
  /\ requests' = 0 /\ errors' = 0 /\ timed' = 0 /\ warned' = FALSE
  /\ served' = [code \in {200, 422, 500} |-> 0] /\ unseen' = 0
  /\ UNCHANGED <<call, answer, calls>>

PredictNext ==
  \/ Arrive \/ ClientCalls \/ Redeploy
  \/ RefuseMalformed \/ RefuseContract \/ FailFreshness
  \/ RefuseMissing \/ FailScoring \/ ScoreRows

PredictSpec == PredictInit /\ [][PredictNext]_predictVars
-----------------------------------------------------------------------------
PredictTypeOK ==
  /\ server \in ApiServers /\ answer.from \in ApiServers
  /\ call.by \in {"none", "bridge", "client"}
  /\ \A i \in DOMAIN call.rows : call.rows[i] \in TickRow
  /\ answer.status \in {0, 200, 422, 500}

Names(row, api) == row.set \in {Unnamed, api.set} /\ row.schema \in {Unnamed, api.schema}

(***************************************************************************)
(* The bridge is held at a message (a 5xx, which it repeats) only by a     *)
(* model whose pipeline does not take its own columns, which a person has  *)
(* to replace, or if Kafka gave no time for the message and its own has no *)
(* offset or is no date.  No other row can stop the partition.             *)
(***************************************************************************)
HeldForCause ==
  call.by = "bridge" /\ answer.status = 500 =>
    \/ answer.from.variant = "ml" /\ ~answer.from.fits
    \/ ~call.dated /\ call.rows[1].ts \in {"naive", "garbage"}

(***************************************************************************)
(* A message is given up (a 4xx) by the baseline variant only if it is     *)
(* malformed, or was made for another contract than the default one: the   *)
(* fallback answers for the default feature set alone, though it needs     *)
(* nothing but vol_60s.                                                    *)
(***************************************************************************)
FallbackScores ==
  call.by = "bridge" /\ answer.status = 422 /\ answer.from.variant = "baseline" =>
    \/ Malformed(call.rows[1])
    \/ ~Names(call.rows[1], [set |-> DefaultSet, schema |-> DefaultSchema])

(***************************************************************************)
(* A batch is scored as a whole or not at all, and by a model of the very  *)
(* contract each of its rows was made for; a candidate is never given a    *)
(* row of unknown origin.                                                  *)
(***************************************************************************)
ScoredByContract ==
  answer.status = 200 =>
    \A i \in DOMAIN call.rows :
      LET row == call.rows[i]
      IN  /\ Names(row, answer.from) /\ ~Malformed(row)
          /\ answer.from.variant = "ml" /\ answer.from.more => row.values = "all"
          /\ answer.from.variant = "ml" /\ ~answer.from.legacy =>
               row.set # Unnamed /\ row.schema # Unnamed

(***************************************************************************)
(* The counters tell the scored requests from the failed ones, except for  *)
(* the failures before the try block: those are requests, and no errors.   *)
(***************************************************************************)
CountersAgree ==
  /\ requests = timed + unseen
  /\ timed = errors + served[200]
  /\ errors + unseen <= served[422] + served[500]

\* The invariant of /predict.
PredictInv ==
  /\ PredictTypeOK /\ HeldForCause /\ FallbackScores /\ ScoredByContract
  /\ CountersAgree
=============================================================================
