--------------------------- MODULE DeploymentGate ---------------------------
(***************************************************************************)
(* One agent's compliance record and the pre-deployment gate that reads    *)
(* it.  The record is written row by row, each row a commit, by the        *)
(* scripts of prooflayer-sdaia: a risk assessment is seven rows, one per   *)
(* category; a critical incident is a row and an update; an ethics label   *)
(* is computed from what was read before it is saved.  The API's           *)
(* assess-label request adds labels by a checklist.  It, the gate and the  *)
(* passport read the record one SELECT after the other while it is         *)
(* written: each statement sees what is committed when it starts.          *)
(*                                                                         *)
(* Scripts stamp their rows with a clock cut to seconds (_now), the API's  *)
(* inserts with the start of their transaction (DEFAULT NOW()).  "Latest"  *)
(* is decided by these stamps.  The clock is assumed not to run backwards. *)
(***************************************************************************)
EXTENDS Integers, FiniteSets, Sequences

CONSTANTS
  TicksPerSecond, \* resolution of the model's clock
  Instances       \* the bounds to choose from: profiles (factors of assessments),
                  \* levels (of autonomy), causes
                  \* (whether a resolution says why), runs, labels, incidents, time;
                  \* and whether the gate is asked and labels are requested

ASSUME ClockAssumption == TicksPerSecond \in Nat \ {0}
ASSUME InstanceAssumption ==
  \A b \in Instances : /\ {b.runs, b.labels, b.incidents, b.time} \subseteq Nat
                       /\ b.causes \subseteq BOOLEAN
                       /\ b.asked \in BOOLEAN /\ b.requested \in BOOLEAN
                       /\ "none" \notin b.levels   \* no autonomy level of the code

VARIABLES
  bound,        \* the instance of this behaviour
  now,          \* the clock
  autonomy,     \* agents.autonomy_level, "none" while there is no such row
  assessments,  \* risk_assessments: the run, the level and the stamp of a row
  run,          \* the newest assessment run
  reported,     \* there is a safety report
  reviewed,     \* there is a decision that required human review
  incidents,    \* incidents, by id
  logging,      \* the incident whose logger is between its two commits, or 0
  labels,       \* ethics_labels, by id
  scoring,      \* compute_ethics_label between its reads and its insert
  labelling,    \* assess-label between its first read and its insert
  gate          \* a deployment check or passport being computed

record == <<autonomy, assessments, run, reported, reviewed, incidents, logging, labels>>
vars == <<bound, now, record, scoring, labelling, gate>>

LEVELS == {"MINIMAL", "LIMITED", "HIGH", "CRITICAL"}
LEVEL_RANK == [MINIMAL |-> 0, LIMITED |-> 1, HIGH |-> 2, CRITICAL |-> 3]
max_level(levels) == CHOOSE l \in levels : \A k \in levels : LEVEL_RANK[k] <= LEVEL_RANK[l]

RISK_CATEGORIES == <<"political", "social_humanitarian", "technical", "legal",
                     "economic", "health", "environmental">>
HIGH_RISK_SECTORS == {"telecom", "banking", "healthcare", "government", "energy"}
PII_SENSITIVE_CATEGORIES == {"economic", "legal", "health"}

\* has_human_oversight of assess_agent_risk: under oversight an autonomous agent
\* counts as supervised.
AutonomyLevel(is_autonomous, has_human_oversight) ==
  IF ~is_autonomous THEN "assisted"
  ELSE IF has_human_oversight THEN "supervised" ELSE "autonomous"

classify_category(category, f) ==
  LET regulated == f.sector \in HIGH_RISK_SECTORS
  IN max_level({"MINIMAL"}
       \union {l \in {"LIMITED"} : regulated}
       \union {l \in {"HIGH"} : \/ f.handles_pii /\ category \in PII_SENSITIVE_CATEGORIES
                                \/ f.autonomy = "autonomous"
                                \/ f.population = "public"}
       \union {l \in {"CRITICAL"} : f.handles_pii /\ regulated /\ f.autonomy = "autonomous"})

classify_agent(f) == max_level({classify_category(RISK_CATEGORIES[i], f) : i \in 1..7})

-------------------------------------------------------------------------------
(* What is latest.                                                           *)

\* Variant for the runs' sensitivity: a coarser clock.
TruncateMore(t) == t - (t % (2 * TicksPerSecond))

Truncate(t) == t - (t % TicksPerSecond)

\* Variant for the runs' sensitivity: one newest row stands for the batch.
LatestBatchOne ==
  LET newest == {a \in assessments : \A b \in assessments : b.assessed_at <= a.assessed_at}
  IN {CHOOSE a \in newest : TRUE}

\* _latest_risk_overall_by_agent: the rows that share the newest stamp.
LatestBatch == {a \in assessments : \A b \in assessments : b.assessed_at <= a.assessed_at}

LatestRisk == IF assessments = {} THEN "none"
              ELSE max_level({a.level : a \in LatestBatch})

\* DISTINCT ON (agent_id) ... ORDER BY computed_at DESC: any of those with the
\* newest stamp; 0 when there is no label.
LatestLabels ==
  IF labels = <<>> THEN {0}
  ELSE {i \in DOMAIN labels : \A j \in DOMAIN labels :
                                labels[j].computed_at <= labels[i].computed_at}

TierOf(i) == IF i = 0 THEN 0 ELSE labels[i].tier

-------------------------------------------------------------------------------
(* The evidence, the score and the checklist.                                *)

\* What each SELECT of _gather_label_evidence asks; handles_pii is NOT NULL.
Holds(key) ==
  CASE key = "agent_registered"    -> autonomy # "none"
    [] key = "risk_classified"     -> assessments # {}
    [] key = "pii_classified"      -> autonomy # "none"
    [] key = "safety_barriers"     -> autonomy \in {"assisted", "supervised"}
    [] key = "safety_reports_done" -> reported
    [] key = "human_oversight"     -> reviewed
    [] key = "incident_response"   -> \E i \in DOMAIN incidents : incidents[i].resolved
    [] key = "incident_reported"   -> \E i \in DOMAIN incidents : incidents[i].reported

\* They run in this order.  The five items that no statement asks for are FALSE.
gather_label_evidence ==
  <<"agent_registered", "risk_classified", "pii_classified", "safety_barriers",
    "safety_reports_done", "human_oversight", "incident_response", "incident_reported">>

\* A reader r after its statement for the key.
Gathered(r, key) ==
  [r EXCEPT !.next = @ + 1, !.met = @ \union {k \in {key} : Holds(k)}]

LABEL_REQUIREMENTS ==
  <<{"agent_registered", "risk_classified"},
    {"pii_classified", "safety_barriers"},
    {"safety_reports_done", "human_oversight", "incident_response"},
    {"continuous_monitoring", "incident_reported", "third_party_test"},
    {"cross_agent_governance", "benchmarking", "standards_contribution"}>>

get_all_reqs(tier) == UNION {LABEL_REQUIREMENTS[t] : t \in 1..tier}

\* The highest tier whose requirements, with those of the tiers below, are met.
Achieved(met) ==
  LET tiers == {t \in 1..5 : get_all_reqs(t) \subseteq met}
  IN IF tiers = {} THEN 0 ELSE CHOOSE t \in tiers : \A u \in tiers : u <= t

tier_for_score(score) ==
  IF score >= 90 THEN 5 ELSE IF score >= 75 THEN 4
  ELSE IF score >= 50 THEN 3 ELSE IF score >= 25 THEN 2 ELSE 1

\* round(n * part / whole), halves to the even neighbour.
Share(n, part, whole) ==
  LET q == (n * part) \div whole
      r == 2 * ((n * part) % whole)
  IN IF r > whole \/ (r = whole /\ q % 2 = 1) THEN q + 1 ELSE q

\* Variant for the runs' sensitivity: no severity ever matches.
compute_scoreSeverityBlind ==
  LET all == DOMAIN incidents
      resolved == {i \in all : incidents[i].resolved}
      explained == {i \in all : incidents[i].explained}
  IN (IF reported THEN 30 ELSE 0)
     + (IF all = {} THEN 25 ELSE Share(15, Cardinality(resolved), Cardinality(all))
                               + Share(10, Cardinality(explained), Cardinality(all)))
     + 25 + (IF reviewed THEN 10 ELSE 0)

compute_score ==
  LET all == DOMAIN incidents
      resolved == {i \in all : incidents[i].resolved}
      explained == {i \in all : incidents[i].explained}
      critical == {i \in all : incidents[i].critical}
      told == {i \in critical : incidents[i].reported}
      score == (IF reported THEN 30 ELSE 0)
        + (IF all = {} THEN 25
           ELSE Share(15, Cardinality(resolved), Cardinality(all))
                + Share(10, Cardinality(explained), Cardinality(all)))
        + (IF critical = {} THEN 25
           ELSE Share(15, Cardinality(told), Cardinality(critical)) - 5)
        - (IF critical \subseteq resolved THEN 0 ELSE 30)
        + (IF reviewed THEN 10 ELSE 0)
  IN IF score < 0 THEN 0 ELSE score   \* at most 90: min(100, _) never bites

-------------------------------------------------------------------------------

Unlabelled == [at |-> "idle"]
NoCheck == [at |-> "idle"]

Init ==
  /\ bound \in Instances
  /\ now = 0
  /\ autonomy = "none"
  /\ assessments = {}
  /\ run = [id |-> 0, open |-> FALSE]
  /\ reported = FALSE
  /\ reviewed = FALSE
  /\ incidents = <<>>
  /\ logging = 0
  /\ labels = <<>>
  /\ scoring = Unlabelled
  /\ labelling = Unlabelled
  /\ gate = NoCheck

Tick ==
  /\ now < bound.time
  /\ now' = now + 1
  /\ UNCHANGED <<bound, record, scoring, labelling, gate>>

\* Registering an agent again overwrites its row.
register_agent(level) ==
  /\ autonomy' = level
  /\ UNCHANGED <<bound, now, assessments, run, reported, reviewed, incidents, logging, labels,
                 scoring, labelling, gate>>

\* A check in progress notes a row that is not CRITICAL.
Noticed(level) ==
  IF gate.at = "reading" /\ level # "CRITICAL"
  THEN [gate EXCEPT !.prohibit = FALSE] ELSE gate

\* One row of the run r, stamped by the script.
save_risk_assessment(r) ==
  LET level == classify_category(RISK_CATEGORIES[r.saved], r.factors)
  IN /\ assessments' = assessments \union
                        {[run |-> r.id, level |-> level, assessed_at |-> Truncate(now)]}
     /\ run' = r
     /\ gate' = Noticed(level)
     /\ UNCHANGED <<bound, now, autonomy, reported, reviewed, incidents, logging, labels,
                    scoring, labelling>>

\* An assessment starts, with the row of the first category ...
assess_and_store(f) ==
  /\ ~run.open
  /\ run.id < bound.runs
  /\ save_risk_assessment([id |-> run.id + 1, factors |-> f, saved |-> 1, open |-> TRUE,
                           from |-> Truncate(now), until |-> Truncate(now)])

\* ... and goes on with the others, in order.
assess_next ==
  /\ run.open
  /\ save_risk_assessment([run EXCEPT !.saved = @ + 1, !.open = @ /\ run.saved + 1 < 7,
                                      !.until = Truncate(now)])

\* The script dies between two rows.
AssessorDies ==
  /\ run.open
  /\ run' = [run EXCEPT !.open = FALSE]
  /\ UNCHANGED <<bound, now, autonomy, assessments, reported, reviewed, incidents, logging, labels,
                 scoring, labelling, gate>>

log_decision ==
  /\ reviewed' = TRUE
  /\ UNCHANGED <<bound, now, autonomy, assessments, run, reported, incidents, logging, labels,
                 scoring, labelling, gate>>

generate_safety_report ==
  /\ autonomy # "none"
  /\ reported' = TRUE
  /\ UNCHANGED <<bound, now, autonomy, assessments, run, reviewed, incidents, logging, labels,
                 scoring, labelling, gate>>

\* An incident is inserted; a critical one has yet to be marked as reported.
log_incident(critical) ==
  /\ logging = 0
  /\ Len(incidents) < bound.incidents
  /\ incidents' = Append(incidents, [critical |-> critical, reported |-> FALSE,
                                     resolved |-> FALSE, explained |-> FALSE])
  /\ logging' = IF critical THEN Len(incidents') ELSE 0
  /\ UNCHANGED <<bound, now, autonomy, assessments, run, reported, reviewed, labels,
                 scoring, labelling, gate>>

mark_incident_reported ==
  /\ logging # 0
  /\ incidents' = [incidents EXCEPT ![logging].reported = TRUE]
  /\ logging' = 0
  /\ UNCHANGED <<bound, now, autonomy, assessments, run, reported, reviewed, labels,
                 scoring, labelling, gate>>

\* The logger dies between the two.
LoggerDies ==
  /\ logging # 0
  /\ logging' = 0
  /\ UNCHANGED <<bound, now, autonomy, assessments, run, reported, reviewed, incidents, labels,
                 scoring, labelling, gate>>

\* explained: both the root cause and the corrective action say something.
resolve_incident(i, explained) ==
  /\ incidents' = [incidents EXCEPT ![i].resolved = TRUE, ![i].explained = explained]
  /\ UNCHANGED <<bound, now, autonomy, assessments, run, reported, reviewed, logging, labels,
                 scoring, labelling, gate>>

Open(label) == label.at # "idle"
Room == Len(labels) + Cardinality({l \in {1} : Open(scoring)})
                    + Cardinality({l \in {1} : Open(labelling)}) < bound.labels

\* compute_ethics_label: reads (three statements of one moment here) ...
compute_ethics_label ==
  /\ ~Open(scoring) /\ Room
  /\ scoring' = [at |-> "read", tier |-> tier_for_score(compute_score),
                 known |-> Len(incidents)]
  /\ UNCHANGED <<bound, now, record, labelling, gate>>

save_ethics_label ==
  /\ Open(scoring)
  /\ labels' = Append(labels, [by |-> "score", tier |-> scoring.tier,
                               computed_at |-> Truncate(now), known |-> scoring.known])
  /\ scoring' = Unlabelled
  /\ UNCHANGED <<bound, now, autonomy, assessments, run, reported, reviewed, incidents, logging,
                 labelling, gate>>

\* assess-label: its transaction starts with the look for the agent ...
sdaia_assess_label ==
  /\ ~Open(labelling) /\ Room /\ bound.requested
  /\ autonomy # "none"
  /\ labelling' = [at |-> "reading", next |-> 1, met |-> {}, begun |-> now,
                   known |-> Len(incidents)]
  /\ UNCHANGED <<bound, now, record, scoring, gate>>

\* ... the evidence follows, a statement at a time ...
GatherForLabel ==
  /\ Open(labelling) /\ labelling.next <= Len(gather_label_evidence)
  /\ labelling' = Gathered(labelling, gather_label_evidence[labelling.next])
  /\ UNCHANGED <<bound, now, record, scoring, gate>>

\* ... and the label, if a tier is achieved.
insert_label ==
  /\ Open(labelling) /\ labelling.next > Len(gather_label_evidence)
  /\ labels' = IF Achieved(labelling.met) = 0 THEN labels
               ELSE Append(labels, [by |-> "checklist", tier |-> Achieved(labelling.met),
                                    computed_at |-> labelling.begun, known |-> labelling.known])
  /\ labelling' = Unlabelled
  /\ UNCHANGED <<bound, now, autonomy, assessments, run, reported, reviewed, incidents, logging,
                 scoring, gate>>

-------------------------------------------------------------------------------
(* The gate.                                                                 *)

\* PRE_DEPLOYMENT_CHECKS: the evidence it asks for, by severity.
BlockerKeys == {"safety_barriers", "safety_reports_done", "human_oversight",
                "incident_response", "pii_classified", "risk_classified"}
WarningKeys == {"safety_reports_done", "risk_classified", "continuous_monitoring"}

MIN_LABEL_TIER_FOR_RISK(risk) ==
  IF risk = "HIGH" THEN 4 ELSE IF risk = "LIMITED" THEN 3 ELSE 0

\* The severities of the checks that fail.
Unmet(met) == {s \in {"blocker"} : ~(BlockerKeys \subseteq met)}
              \union {s \in {"warning"} : ~(WarningKeys \subseteq met)}

\* Variant for the runs' sensitivity: blockers are looked at first.
DecisionBlockersFirst(unmet, risk, tier) ==
  IF tier < MIN_LABEL_TIER_FOR_RISK(risk) \/ "blocker" \in unmet THEN "blocked"
  ELSE IF risk = "CRITICAL" THEN "prohibited"
  ELSE IF "warning" \in unmet THEN "warning" ELSE "approved"

Decision(unmet, risk, tier) ==
  IF risk = "CRITICAL" THEN "prohibited"
  ELSE IF tier < MIN_LABEL_TIER_FOR_RISK(risk) \/ "blocker" \in unmet THEN "blocked"
  ELSE IF "warning" \in unmet THEN "warning" ELSE "approved"

Checking == gate.at = "reading"

\* The newest run with a row found the agent CRITICAL.
FoundCritical == run.id > 0 /\ classify_agent(run.factors) = "CRITICAL"

Reading == [at |-> "reading", next |-> 1, met |-> {}, risk |-> "none",
            prohibit |-> FoundCritical]

\* The passport reads the agent and the risk it shows, and then calls the gate; without
\* a record it is UNVERIFIED.
get_agent_passport ==
  /\ ~Checking /\ bound.asked
  /\ gate' = IF autonomy = "none" THEN [at |-> "done", decision |-> "unverified"] ELSE Reading
  /\ UNCHANGED <<bound, now, record, scoring, labelling>>

\* A deployment check; 404 for an agent that is not registered.
sdaia_deployment_check ==
  /\ ~Checking /\ bound.asked
  /\ autonomy # "none"
  /\ gate' = Reading
  /\ UNCHANGED <<bound, now, record, scoring, labelling>>

\* Variant for the runs' sensitivity: the risk is read before the evidence.
GateReadsRiskFirst == <<"risk">> \o gather_label_evidence \o <<"label">>

\* The SELECTs of compute_deployment_decision.
GateReads == gather_label_evidence \o <<"risk", "label">>

ReadEvidence ==
  /\ Checking /\ GateReads[gate.next] \notin {"risk", "label"}
  /\ gate' = Gathered(gate, GateReads[gate.next])
  /\ UNCHANGED <<bound, now, record, scoring, labelling>>

ReadRisk ==
  /\ Checking /\ GateReads[gate.next] = "risk"
  /\ gate' = [gate EXCEPT !.next = @ + 1, !.risk = LatestRisk]
  /\ UNCHANGED <<bound, now, record, scoring, labelling>>

compute_deployment_decision ==
  /\ Checking /\ GateReads[gate.next] = "label"
  /\ \E i \in LatestLabels :
       gate' = [at |-> "done", risk |-> gate.risk, label |-> i, prohibit |-> gate.prohibit,
                decision |-> Decision(Unmet(gate.met), gate.risk, TierOf(i))]
  /\ UNCHANGED <<bound, now, record, scoring, labelling>>

Next ==
  \/ Tick
  \/ \E level \in bound.levels : register_agent(level)
  \/ \E f \in bound.profiles : assess_and_store(f)
  \/ assess_next
  \/ AssessorDies
  \/ log_decision
  \/ generate_safety_report
  \/ \E critical \in BOOLEAN : log_incident(critical)
  \/ mark_incident_reported
  \/ LoggerDies
  \/ \E i \in DOMAIN incidents, explained \in bound.causes : resolve_incident(i, explained)
  \/ compute_ethics_label
  \/ save_ethics_label
  \/ sdaia_assess_label
  \/ GatherForLabel
  \/ insert_label
  \/ get_agent_passport
  \/ sdaia_deployment_check
  \/ ReadEvidence
  \/ ReadRisk
  \/ compute_deployment_decision

Spec == Init /\ [][Next]_vars

-------------------------------------------------------------------------------
(* Properties.                                                               *)

Done == gate.at = "done" /\ gate.decision # "unverified"
Go == Done /\ gate.decision \in {"warning", "approved"}

\* While the newest assessment, finished or cut short after any row, is one that
\* finds the agent CRITICAL, a check or passport prohibits it (sdaia_api.py:463-467).
CriticalIsProhibited == Done /\ gate.prohibit => gate.decision = "prohibited"

\* A go was given on a level: the ban and the label's minimum were applied to that of an
\* assessment, though it is read by another statement than the one that asks whether there
\* is an assessment, and rows are committed between the two (sdaia_api.py:311, 453-457).
\* What its blockers asked for, one SELECT after the other, is all there; and it is never
\* without a warning, as nothing evidences continuous monitoring.
GoIsEvidenced ==
  Go => /\ gate.risk \in LEVELS \ {"CRITICAL"}
        /\ TierOf(gate.label) >= MIN_LABEL_TIER_FOR_RISK(gate.risk)
        /\ autonomy # "none" /\ assessments # {} /\ reported /\ reviewed
        /\ \E i \in DOMAIN incidents : incidents[i].resolved
        /\ gate.decision = "warning"

\* A HIGH-risk agent never gets a go over an unresolved critical incident that was
\* logged when its label was computed: only a score reaches tier 4, and no score does
\* with such an incident (sdaia_labels.py compute_score, sdaia_api.py:493-496).
HighGoOutranksIncidents ==
  Go /\ gate.risk = "HIGH" =>
    \A i \in DOMAIN incidents :
      incidents[i].critical /\ ~incidents[i].resolved => i > labels[gate.label].known

\* The risk in force is never below that of the newest finished assessment, if its
\* rows carry one stamp: rows of an earlier assessment of the same second may only
\* raise it (sdaia_api.py:36-39).  A run that crosses a second or dies may be understated.
NeverUnderstated ==
  run.id > 0 =>
    (run.saved = 7 /\ run.from = run.until =>
       LEVEL_RANK[classify_agent(run.factors)] <= LEVEL_RANK[LatestRisk])

\* "Whichever ran most recently is current", up to the scripts' clock: a script's label
\* saved after the one in force, and not in force, was computed in the second the one
\* in force is stamped with (sdaia_api.py:265-268, sdaia_storage.py _now).
LabelLagsUnderASecond ==
  labels # <<>> =>
    \A i \in LatestLabels, j \in DOMAIN labels \ LatestLabels :
      j > i /\ labels[j].by = "score" =>
        labels[j].computed_at \div TicksPerSecond = labels[i].computed_at \div TicksPerSecond
==============================================================================
