------------------------ MODULE ForecastContracts ------------------------
(***************************************************************************)
(* The gate a forecast delivery passes (forecasting/contracts.py): its     *)
(* manifest, points and metrics validate themselves, and the delivery      *)
(* validates what they say of each other.  Instants count microseconds;    *)
(* estimates and errors are Integers in place of finite floats, and levels *)
(* and ratios count thousandths.  Tokens, units, hashes and time zones are *)
(* values that are only compared.  A record whose fields break their own   *)
(* patterns is not a record of this module.                                *)
(***************************************************************************)
EXTENDS Integers, Sequences

CONSTANT Absent   \* an optional field without a value

HOUR == 3600000000   \* microseconds
DAY == 86400         \* seconds
ONE == 1000
Horizons == 1 .. 720
Optional(S) == S \cup {Absent}

IntervalMethods == {"none", "heuristic", "split_conformal", "rolling_conformal", "quantile"}
Conformal == {"split_conformal", "rolling_conformal"}

-----------------------------------------------------------------------------
(* ForecastPointV1 *)

PointFields(p) ==
    /\ {p.origin_time_utc, p.target_time_utc, p.training_cutoff_utc, p.created_at_utc}
          \subseteq Int
    /\ p.horizon_hours \in Horizons
    /\ {p.lower_bound, p.point_estimate, p.upper_bound, p.interval_level}
          \subseteq Optional(Int)
    /\ p.interval_method \in IntervalMethods
    /\ p.status \in {"ready", "insufficient_history", "irregular_cadence",
                     "data_quality_blocked", "model_unavailable", "stale"}
    /\ p.data_quality_flag \in {"pass", "warn", "fail"}

NoInterval(p) == p.interval_method = "none" /\ p.interval_level = Absent

\* A heuristic range claims no level; every other interval claims one.
Calibrated(p) ==
    /\ p.interval_method # "none"
    /\ IF p.interval_method = "heuristic" THEN p.interval_level = Absent
       ELSE /\ p.interval_level # Absent
            /\ 0 < p.interval_level /\ p.interval_level < ONE

Bounds(p) ==
    \/ /\ p.lower_bound # Absent /\ p.upper_bound # Absent
       /\ p.lower_bound <= p.point_estimate /\ p.point_estimate <= p.upper_bound
       /\ Calibrated(p)
    \/ p.lower_bound = Absent /\ p.upper_bound = Absent /\ NoInterval(p)

validate_delivery_semantics(p) ==
    /\ p.target_time_utc - p.origin_time_utc = p.horizon_hours * HOUR
    /\ p.training_cutoff_utc <= p.origin_time_utc
    /\ p.origin_time_utc <= p.created_at_utc /\ p.created_at_utc < p.target_time_utc
    /\ IF p.status = "ready" THEN p.point_estimate # Absent /\ Bounds(p)
       ELSE /\ {p.lower_bound, p.point_estimate, p.upper_bound} = {Absent}
            /\ NoInterval(p)
    /\ p.data_quality_flag = "fail" <=> p.status = "data_quality_blocked"

ForecastPointV1(p) == PointFields(p) /\ validate_delivery_semantics(p)

-----------------------------------------------------------------------------
(* ForecastRunManifestV1 *)

\* Horizons are a sorted tuple without repetitions.
validate_horizons(hs) ==
    /\ Len(hs) > 0
    /\ \A i \in 1 .. Len(hs) : hs[i] \in Horizons
    /\ \A i, j \in 1 .. Len(hs) : i < j => hs[i] < hs[j]

ManifestFields(m) ==
    /\ {m.generated_at_utc, m.training_start_utc, m.training_cutoff_utc} \subseteq Int
    /\ m.calibration_start_utc \in Optional(Int) /\ m.calibration_end_utc \in Optional(Int)
    /\ m.cadence_seconds \in 1 .. DAY
    /\ m.model_kind \in {"baseline", "learned"}
    /\ m.validation_status \in {"not_evaluated", "passed", "warning", "failed"}
    /\ m.drift_status \in {"not_evaluated", "stable", "warning", "critical"}
    /\ m.forecast_horizons_hours \in Seq(Int)
    /\ validate_horizons(m.forecast_horizons_hours)

validate_run_lineage(m) ==
    /\ m.training_start_utc < m.training_cutoff_utc
    /\ m.training_cutoff_utc <= m.generated_at_utc
    /\ m.calibration_start_utc = Absent <=> m.calibration_end_utc = Absent
    /\ m.calibration_start_utc # Absent =>
          /\ m.training_cutoff_utc < m.calibration_start_utc
          /\ m.calibration_start_utc <= m.calibration_end_utc
          /\ m.calibration_end_utc <= m.generated_at_utc
    /\ m.model_kind = "learned" <=> m.model_artifact_sha256 # Absent

ForecastRunManifestV1(m) == ManifestFields(m) /\ validate_run_lineage(m)

-----------------------------------------------------------------------------
(* ForecastMetricV1 *)

MetricFields(x) ==
    /\ x.evaluated_at_utc \in Int
    /\ x.horizon_hours \in Horizons
    /\ x.sample_count \in Nat \ {0}
    /\ {x.mae, x.rmse} \subseteq Int
    /\ {x.wape, x.smape, x.interval_coverage, x.interval_mean_width} \subseteq Optional(Int)
    /\ x.evaluation_scope \in {"timecv", "calibration", "holdout", "production_monitoring"}

validate_metric_semantics(x) ==
    /\ 0 <= x.mae /\ x.mae <= x.rmse
    /\ x.wape # Absent => x.wape >= 0
    /\ x.smape # Absent => 0 <= x.smape /\ x.smape <= 2 * ONE
    /\ x.evaluation_scope = "timecv" => x.fold_id # Absent
    /\ x.interval_coverage = Absent <=> x.interval_mean_width = Absent
    /\ x.interval_coverage # Absent => 0 <= x.interval_coverage /\ x.interval_coverage <= ONE
    /\ x.interval_mean_width # Absent => x.interval_mean_width >= 0

ForecastMetricV1(x) == MetricFields(x) /\ validate_metric_semantics(x)

-----------------------------------------------------------------------------
(* ForecastDeliveryV1 *)

Positions(s) == 1 .. Len(s)
horizon_set(m) ==
    { m.forecast_horizons_hours[k] : k \in Positions(m.forecast_horizons_hours) }

metric_key(p) == <<p.plant_alias, p.metric_id>>
forecast_key(p) == <<p.plant_alias, p.metric_id, p.origin_time_utc>>
point_key(p) == <<p.plant_alias, p.metric_id, p.origin_time_utc, p.target_time_utc>>
evaluated_key(p) == <<p.plant_alias, p.metric_id, p.horizon_hours>>
metric_row_key(x) == <<x.plant_alias, x.metric_id, x.horizon_hours, x.evaluation_scope,
                       x.fold_id, x.condition>>

SameLineage(p, m) ==
    /\ p.forecast_run_id = m.forecast_run_id
    /\ p.model_name = m.model_name /\ p.model_version = m.model_version
    /\ p.feature_version = m.feature_version
    /\ p.data_snapshot_sha256 = m.data_snapshot_sha256
    /\ p.training_cutoff_utc = m.training_cutoff_utc
    /\ p.created_at_utc = m.generated_at_utc
    /\ p.horizon_hours \in horizon_set(m)

\* A conformal interval needs a calibration window that ends by its origin.
CalibratedBefore(p, m) ==
    p.interval_method \in Conformal =>
        /\ m.calibration_start_utc # Absent /\ m.calibration_end_utc # Absent
        /\ m.calibration_end_utc <= p.origin_time_utc

StaysHeuristic(p) ==
    p.model_name = "persistence" /\ p.status = "ready" =>
        p.interval_method = "heuristic" /\ p.interval_level = Absent

\* horizons_by_forecast: what was delivered of one forecast.
delivered_horizons(points, key) ==
    { points[i].horizon_hours : i \in { k \in Positions(points) : forecast_key(points[k]) = key } }

PointsFit(points, m) ==
    /\ \A i \in Positions(points) :
          /\ SameLineage(points[i], m)
          /\ CalibratedBefore(points[i], m)
          /\ StaysHeuristic(points[i])
          /\ delivered_horizons(points, forecast_key(points[i])) = horizon_set(m)
    /\ \A i, j \in Positions(points) :
          /\ i # j => point_key(points[i]) # point_key(points[j])
          /\ metric_key(points[i]) = metric_key(points[j]) => points[i].unit = points[j].unit

MetricsFit(metrics, points, m) ==
    /\ m.validation_status = "not_evaluated" <=> metrics = <<>>
    /\ \A k \in Positions(metrics) :
          /\ metrics[k].forecast_run_id = m.forecast_run_id
          /\ metrics[k].horizon_hours \in horizon_set(m)
          /\ \E i \in Positions(points) : evaluated_key(points[i]) = evaluated_key(metrics[k])
          /\ metrics[k].evaluated_at_utc <= m.generated_at_utc
    /\ \A k, l \in Positions(metrics) :
          k # l => metric_row_key(metrics[k]) # metric_row_key(metrics[l])

\* A delivery: its parts are validated again, then against each other.
ForecastDeliveryV1(d) ==
    /\ ForecastRunManifestV1(d.manifest)
    /\ Len(d.points) \in Nat \ {0} /\ Len(d.metrics) \in Nat
    /\ \A i \in Positions(d.points) : ForecastPointV1(d.points[i])
    /\ \A k \in Positions(d.metrics) : ForecastMetricV1(d.metrics[k])
    /\ PointsFit(d.points, d.manifest)
    /\ MetricsFit(d.metrics, d.points, d.manifest)

-----------------------------------------------------------------------------
(* Properties of an accepted delivery *)

\* Every plant, metric and origin that is delivered at all is delivered with
\* every declared horizon, in exactly one row.
DeliveryIsComplete(d) ==
    LET Row(j, i, h) == /\ forecast_key(d.points[j]) = forecast_key(d.points[i])
                        /\ d.points[j].horizon_hours = h
    IN  \A i \in Positions(d.points), h \in horizon_set(d.manifest) :
            \E j \in Positions(d.points) :
                /\ Row(j, i, h)
                /\ \A k \in Positions(d.points) : Row(k, i, h) => k = j

\* Nothing a row rests on is younger than its origin, and neither a row nor a
\* metric of the delivery is younger than any instant that is forecast.
NothingFromTheFuture(d) ==
    \A i \in Positions(d.points) :
        LET p == d.points[i]
            m == d.manifest
        IN  /\ m.training_start_utc < m.training_cutoff_utc
            /\ m.training_cutoff_utc <= p.origin_time_utc
            /\ p.origin_time_utc < p.target_time_utc
            /\ p.interval_method \in Conformal =>
                  /\ m.training_cutoff_utc < m.calibration_start_utc
                  /\ m.calibration_start_utc <= p.origin_time_utc
            /\ \A j \in Positions(d.points) : d.points[j].created_at_utc < p.target_time_utc
            /\ \A k \in Positions(d.metrics) : d.metrics[k].evaluated_at_utc < p.target_time_utc

\* Only a ready row of a model that is not persistence claims a level; its
\* bounds enclose its estimate, and its data did not fail.
LevelsAreEarned(d) ==
    \A i \in Positions(d.points) :
        LET p == d.points[i] IN
        p.interval_level # Absent =>
            /\ p.status = "ready" /\ p.data_quality_flag # "fail"
            /\ p.model_name # "persistence"
            /\ p.interval_method \notin {"none", "heuristic"}
            /\ p.lower_bound <= p.point_estimate /\ p.point_estimate <= p.upper_bound
=============================================================================
