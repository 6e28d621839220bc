------------------------ MODULE DeploymentGateProofs ------------------------
(* Proofs about DeploymentGate, for any resolution of the clock and any set  *)
(* of instances.  The argument has four parts: arithmetic of the cut clock,  *)
(* the rows of assessments against the newest run, the labels against the    *)
(* incidents they were computed over, and a check in progress against both.  *)
EXTENDS DeploymentGate, FiniteSetTheorems, SequenceTheorems, TLAPS

K == TicksPerSecond

-------------------------------------------------------------------------------
(* The clock cut to seconds.                                                 *)

\* Quotient and remainder of a time.
LEMMA Division ==
  \A t \in Nat : /\ t \div K \in Nat
                 /\ t % K \in 0..(K - 1)
                 /\ t = (K * (t \div K)) + (t % K)
  BY ClockAssumption, SMTT(20) DEF K

\* Later times are in later or the same seconds.
LEMMA DivisionMonotone ==
  ASSUME NEW a \in Nat, NEW b \in Nat, a <= b
  PROVE  a \div K <= b \div K
  BY ClockAssumption, SMTT(20) DEF K

\* A cut time is a whole number of seconds.
LEMMA TruncateIs == \A t \in Nat : Truncate(t) = K * (t \div K)
  BY ClockAssumption, Division, SMTT(20) DEF Truncate, K

\* Products with the number of ticks of a second are monotone.
LEMMA TicksMonotone ==
  ASSUME NEW a \in Nat, NEW b \in Nat, a <= b
  PROVE  K * a <= K * b
  BY ClockAssumption, SMTT(20) DEF K

\* A whole number of seconds is that many seconds.
LEMMA WholeSeconds == \A q \in Nat : (K * q) \div K = q
  BY ClockAssumption, SMTT(20) DEF K

\* Cutting never moves a time forward.
LEMMA TruncateLow == \A t \in Nat : Truncate(t) \in Nat /\ Truncate(t) <= t
  BY ClockAssumption, Division, SMTT(20) DEF Truncate, K

\* Cutting keeps the order of times.
LEMMA TruncateMonotone ==
  ASSUME NEW a \in Nat, NEW b \in Nat, a <= b
  PROVE  Truncate(a) <= Truncate(b)
<1> DEFINE x == a \div K
           y == b \div K
<1>1. x \in Nat /\ y \in Nat /\ x <= y
  BY DivisionMonotone, Division
<1>2. K * x <= K * y
  <2> HIDE DEF x, y
  <2>1. QED BY <1>1, TicksMonotone
<1>3. QED BY <1>2, TruncateIs

\* Cutting keeps a time in its second.
LEMMA TruncateSecond == \A t \in Nat : Truncate(t) \div K = t \div K
<1> SUFFICES ASSUME NEW t \in Nat PROVE Truncate(t) \div K = t \div K
  OBVIOUS
<1> DEFINE q == t \div K
<1>1. q \in Nat /\ Truncate(t) = K * q
  BY Division, TruncateIs
<1>2. (K * q) \div K = q
  <2> HIDE DEF q
  <2>1. QED BY <1>1, WholeSeconds
<1>3. QED BY <1>1, <1>2

-------------------------------------------------------------------------------
(* Levels.                                                                   *)

\* The maximum of some levels is one of them and bounds them.
LEMMA MaxLevel ==
  ASSUME NEW S \in SUBSET LEVELS, S # {}
  PROVE  /\ max_level(S) \in S
         /\ \A l \in S : LEVEL_RANK[l] <= LEVEL_RANK[max_level(S)]
<1>1. \E l \in S : \A k \in S : LEVEL_RANK[k] <= LEVEL_RANK[l]
  <2>1. CASE "CRITICAL" \in S BY <2>1 DEF LEVELS, LEVEL_RANK
  <2>2. CASE "CRITICAL" \notin S /\ "HIGH" \in S BY <2>2 DEF LEVELS, LEVEL_RANK
  <2>3. CASE "CRITICAL" \notin S /\ "HIGH" \notin S /\ "LIMITED" \in S
    BY <2>3 DEF LEVELS, LEVEL_RANK
  <2>4. CASE "CRITICAL" \notin S /\ "HIGH" \notin S /\ "LIMITED" \notin S
    <3>1. S = {"MINIMAL"} BY <2>4 DEF LEVELS
    <3>2. QED BY <3>1 DEF LEVEL_RANK
  <2>5. QED BY <2>1, <2>2, <2>3, <2>4
<1>2. QED BY <1>1 DEF max_level

\* A set of levels with CRITICAL in it has that maximum.
LEMMA MaxCritical ==
  ASSUME NEW S \in SUBSET LEVELS, "CRITICAL" \in S
  PROVE  max_level(S) = "CRITICAL"
<1>1. max_level(S) \in LEVELS /\ LEVEL_RANK["CRITICAL"] <= LEVEL_RANK[max_level(S)]
  BY MaxLevel
<1>2. QED BY <1>1 DEF LEVELS, LEVEL_RANK

\* A category is classified into a level.
LEMMA CategoryLevel ==
  ASSUME NEW c, NEW f
  PROVE  classify_category(c, f) \in LEVELS
<1> DEFINE S == {"MINIMAL"}
       \union {l \in {"LIMITED"} : f.sector \in HIGH_RISK_SECTORS}
       \union {l \in {"HIGH"} : \/ f.handles_pii /\ c \in PII_SENSITIVE_CATEGORIES
                                \/ f.autonomy = "autonomous"
                                \/ f.population = "public"}
       \union {l \in {"CRITICAL"} : /\ f.handles_pii /\ f.sector \in HIGH_RISK_SECTORS
                                    /\ f.autonomy = "autonomous"}
<1>1. S \in SUBSET LEVELS /\ S # {}
  BY DEF LEVELS
<1>2. classify_category(c, f) = max_level(S)
  BY DEF classify_category
<1>3. QED BY <1>1, <1>2, MaxLevel

\* An agent is classified into the level of one of its categories, and no category is higher.
LEMMA AgentLevel ==
  ASSUME NEW f
  PROVE  /\ classify_agent(f) \in LEVELS
         /\ \E i \in 1..7 : classify_agent(f) = classify_category(RISK_CATEGORIES[i], f)
<1> DEFINE S == {classify_category(RISK_CATEGORIES[i], f) : i \in 1..7}
<1>1. S \in SUBSET LEVELS /\ S # {}
  BY CategoryLevel
<1>2. max_level(S) \in S
  BY <1>1, MaxLevel
<1>3. QED BY <1>1, <1>2 DEF classify_agent

\* CRITICAL depends on the agent and not on the category: a CRITICAL agent is CRITICAL
\* in each of the seven.
LEMMA CriticalEverywhere ==
  ASSUME NEW f, classify_agent(f) = "CRITICAL", NEW c
  PROVE  classify_category(c, f) = "CRITICAL"
<1> DEFINE S(d) == {"MINIMAL"}
       \union {l \in {"LIMITED"} : f.sector \in HIGH_RISK_SECTORS}
       \union {l \in {"HIGH"} : \/ f.handles_pii /\ d \in PII_SENSITIVE_CATEGORIES
                                \/ f.autonomy = "autonomous"
                                \/ f.population = "public"}
       \union {l \in {"CRITICAL"} : /\ f.handles_pii /\ f.sector \in HIGH_RISK_SECTORS
                                    /\ f.autonomy = "autonomous"}
<1>1. PICK i \in 1..7 : classify_category(RISK_CATEGORIES[i], f) = "CRITICAL"
  BY AgentLevel
<1>2. \A d : S(d) \in SUBSET LEVELS /\ S(d) # {} /\ classify_category(d, f) = max_level(S(d))
  BY DEF LEVELS, classify_category
<1>3. "CRITICAL" \in S(RISK_CATEGORIES[i])
  <2> DEFINE d0 == RISK_CATEGORIES[i]
  <2>1. S(d0) \in SUBSET LEVELS /\ S(d0) # {} /\ max_level(S(d0)) = "CRITICAL"
    BY <1>1, <1>2
  <2>2. QED
    <3> HIDE DEF S, d0
    <3>1. QED BY <2>1, MaxLevel DEF d0
<1>4. "CRITICAL" \in S(c)
  BY <1>3
<1>5. QED
  <2> HIDE DEF S
  <2>1. QED BY <1>2, <1>4, MaxCritical

-------------------------------------------------------------------------------
(* The rows of assessments and the newest run.                               *)

\* The newest run as the assessor left it, in the past.
RunOK ==
  /\ now \in Nat
  /\ run.id \in Nat
  /\ run.open \in BOOLEAN
  /\ run.id = 0 => ~run.open /\ assessments = {}
  /\ run.id > 0 =>
       /\ run = [id |-> run.id, factors |-> run.factors, saved |-> run.saved,
                 open |-> run.open, from |-> run.from, until |-> run.until]
       /\ run.saved \in 1..7
       /\ run.open => run.saved < 7
       /\ run.from \in Nat /\ run.until \in Nat
       /\ run.from <= run.until /\ run.until <= Truncate(now)

\* No row is later than the newest run's last, and each category the run has come to
\* has its row.
RowsOK ==
  /\ \A a \in assessments :
       a.level \in LEVELS /\ a.assessed_at \in Nat /\ a.assessed_at <= run.until
  /\ run.id > 0 => \A i \in 1..run.saved : \E a \in assessments :
       /\ a.level = classify_category(RISK_CATEGORIES[i], run.factors)
       /\ a.assessed_at \in run.from..run.until
       /\ i = run.saved => a.assessed_at = run.until

RunInv == RunOK /\ RowsOK

\* Actions that leave the assessments alone.
NotAssessing == UNCHANGED <<now, assessments, run>>

LEMMA RunInit == Init => RunInv
  BY DEF Init, RunInv, RunOK, RowsOK

\* A row of the run r, the next of the run under way or the first of a new one.
LEMMA RowSaved ==
  ASSUME RunInv, NEW r,
         r = [id |-> r.id, factors |-> r.factors, saved |-> r.saved, open |-> r.open,
              from |-> r.from, until |-> r.until],
         r.id \in Nat \ {0}, r.saved \in 1..7, r.open \in BOOLEAN, r.open => r.saved < 7,
         r.from \in Nat, r.from <= Truncate(now), r.until = Truncate(now),
         \/ r.saved = 1
         \/ /\ run.id > 0 /\ r.factors = run.factors /\ r.from = run.from
            /\ r.saved = run.saved + 1,
         save_risk_assessment(r)
  PROVE  RunInv'
<1> DEFINE stamp == Truncate(now)
           level == classify_category(RISK_CATEGORIES[r.saved], r.factors)
           row == [run |-> r.id, level |-> level, assessed_at |-> stamp]
<1>1. now \in Nat /\ now' = now /\ stamp \in Nat
  BY TruncateLow DEF RunInv, RunOK, save_risk_assessment
<1>2. run' = r /\ assessments' = assessments \union {row} /\ level \in LEVELS
  BY CategoryLevel DEF save_risk_assessment
<1>3. Truncate(now)' = stamp
  BY <1>1 DEF Truncate
<1>4. run.id > 0 => run.until \in Nat /\ run.until <= stamp
  BY DEF RunInv, RunOK
<1>5. run.id = 0 => assessments = {}
  BY DEF RunInv, RunOK
<1>6. run.id \in Nat
  BY DEF RunInv, RunOK
<1>7. RunOK'
  <2> HIDE DEF stamp, level
  <2>1. QED BY <1>1, <1>2, <1>3 DEF RunOK, stamp
<1>8. \A a \in assessments' :
        a.level \in LEVELS /\ a.assessed_at \in Nat /\ a.assessed_at <= stamp
  <2> HIDE DEF stamp, level
  <2>1. \A a \in assessments :
          a.level \in LEVELS /\ a.assessed_at \in Nat /\ a.assessed_at <= stamp
    BY <1>1, <1>4, <1>5, <1>6 DEF RunInv, RowsOK
  <2>2. QED BY <1>1, <1>2, <2>1
<1>9. ASSUME NEW i \in 1..r.saved
      PROVE  \E a \in assessments' :
               /\ a.level = classify_category(RISK_CATEGORIES[i], r.factors)
               /\ a.assessed_at \in r.from..stamp
               /\ i = r.saved => a.assessed_at = stamp
  <2>1. CASE i = r.saved
    <3> HIDE DEF stamp
    <3>1. row \in assessments' BY <1>2
    <3>2. QED BY <1>1, <2>1, <3>1 DEF stamp
  <2>2. CASE i # r.saved
    <3>1. run.id > 0 /\ r.factors = run.factors /\ r.from = run.from /\ i \in 1..run.saved
      BY <2>2 DEF RunInv, RunOK
    <3>2. PICK a \in assessments :
            /\ a.level = classify_category(RISK_CATEGORIES[i], run.factors)
            /\ a.assessed_at \in run.from..run.until
      BY <3>1 DEF RunInv, RowsOK
    <3>3. QED
      <4> HIDE DEF stamp, level
      <4>1. QED BY <1>1, <1>2, <1>4, <2>2, <3>1, <3>2
  <2>3. QED BY <2>1, <2>2
<1>10. RowsOK'
  <2> HIDE DEF stamp, level
  <2>1. run' = r /\ r.until = stamp
    BY <1>2 DEF stamp
  <2>2. QED BY <1>8, <1>9, <2>1 DEF RowsOK
<1>11. QED BY <1>7, <1>10 DEF RunInv

LEMMA RunStep == RunInv /\ [Next]_vars => RunInv'
<1> SUFFICES ASSUME RunInv, [Next]_vars PROVE RunInv'
  OBVIOUS
<1>1. CASE NotAssessing
  BY <1>1 DEF NotAssessing, RunInv, RunOK, RowsOK, Truncate
<1>2. CASE Tick
  <2>1. now \in Nat /\ now' = now + 1 /\ assessments' = assessments /\ run' = run
    BY <1>2 DEF Tick, record, RunInv, RunOK
  <2>2. Truncate(now)' = Truncate(now') /\ Truncate(now) <= Truncate(now')
    BY <2>1, TruncateMonotone DEF Truncate
  <2>3. Truncate(now) \in Nat /\ Truncate(now') \in Nat
    BY <2>1, TruncateLow
  <2>4. QED BY <2>1, <2>2, <2>3 DEF RunInv, RunOK, RowsOK
<1>3. CASE \E f \in bound.profiles : assess_and_store(f)
  <2>1. PICK f \in bound.profiles : assess_and_store(f)
    BY <1>3
  <2>2. PICK r : r = [id |-> run.id + 1, factors |-> f, saved |-> 1, open |-> TRUE,
                      from |-> Truncate(now), until |-> Truncate(now)]
    OBVIOUS
  <2>3. save_risk_assessment(r)
    BY <2>1, <2>2 DEF assess_and_store, save_risk_assessment
  <2>4. run.id + 1 \in Nat \ {0} /\ Truncate(now) \in Nat
    BY TruncateLow DEF RunInv, RunOK
  <2>5. /\ r = [id |-> r.id, factors |-> r.factors, saved |-> r.saved, open |-> r.open,
                 from |-> r.from, until |-> r.until]
        /\ r.id \in Nat \ {0} /\ r.saved = 1 /\ r.open \in BOOLEAN /\ r.from \in Nat
        /\ r.from <= Truncate(now) /\ r.until = Truncate(now)
    BY <2>2, <2>4
  <2>6. r.saved \in 1..7 /\ (r.open => r.saved < 7)
    BY <2>5
  <2>7. QED BY <2>3, <2>5, <2>6, RowSaved
<1>4. CASE assess_next
  <2>1. run.open /\ run.id > 0 /\ run.id \in Nat \ {0} /\ run.saved \in 1..6
    BY <1>4 DEF assess_next, RunInv, RunOK
  <2>2. run.from \in Nat /\ run.until \in Nat /\ run.from <= run.until
        /\ run.until <= Truncate(now) /\ Truncate(now) \in Nat
    BY <2>1, TruncateLow DEF RunInv, RunOK
  <2>3. PICK r : r = [run EXCEPT !.saved = @ + 1, !.open = @ /\ run.saved + 1 < 7,
                                 !.until = Truncate(now)]
    OBVIOUS
  <2>4. r = [id |-> run.id, factors |-> run.factors, saved |-> run.saved + 1,
             open |-> run.open /\ run.saved + 1 < 7, from |-> run.from,
             until |-> Truncate(now)]
    BY <2>1, <2>3 DEF RunInv, RunOK
  <2>5. save_risk_assessment(r)
    BY <1>4, <2>3 DEF assess_next, save_risk_assessment
  <2>6. /\ r = [id |-> r.id, factors |-> r.factors, saved |-> r.saved, open |-> r.open,
                 from |-> r.from, until |-> r.until]
        /\ r.id \in Nat \ {0} /\ r.open \in BOOLEAN /\ r.from \in Nat
        /\ r.from <= Truncate(now) /\ r.until = Truncate(now)
        /\ r.factors = run.factors /\ r.from = run.from /\ r.saved = run.saved + 1
    BY <2>1, <2>2, <2>4
  <2>7. r.saved \in 1..7 /\ (r.open => r.saved < 7)
    <3>1. r.open = (run.open /\ run.saved + 1 < 7)
      BY <2>4
    <3>2. r.open => run.saved + 1 < 7
      BY <3>1, Zenon
    <3>3. QED BY <2>1, <2>6, <3>2
  <2>8. QED BY <2>1, <2>5, <2>6, <2>7, RowSaved
<1>5. CASE AssessorDies
  <2>1. run.id > 0 /\ run' = [run EXCEPT !.open = FALSE]
        /\ now' = now /\ assessments' = assessments
    BY <1>5 DEF AssessorDies, RunInv, RunOK
  <2>2. run' = [id |-> run.id, factors |-> run.factors, saved |-> run.saved,
                open |-> FALSE, from |-> run.from, until |-> run.until]
    BY <2>1 DEF RunInv, RunOK
  <2>3. QED BY ZenonT(60), <2>1, <2>2 DEF RunInv, RunOK, RowsOK, Truncate
<1>6. QED
  BY <1>1, <1>2, <1>3, <1>4, <1>5
  DEF Next, NotAssessing, vars, record, register_agent, log_decision, generate_safety_report,
      log_incident, mark_incident_reported, LoggerDies, resolve_incident,
      compute_ethics_label, save_ethics_label, sdaia_assess_label, GatherForLabel, insert_label,
      get_agent_passport, sdaia_deployment_check, ReadEvidence, ReadRisk, compute_deployment_decision

\* The risk in force is the maximum of a non-empty set of levels, each that of a row
\* with the newest run's last stamp, once there is a run.
LEMMA BatchIsNewest ==
  ASSUME RunInv, run.id > 0
  PROVE  /\ LatestBatch = {a \in assessments : a.assessed_at = run.until}
         /\ LatestBatch # {} /\ assessments # {}
         /\ {a.level : a \in LatestBatch} \in SUBSET LEVELS
         /\ LatestRisk = max_level({a.level : a \in LatestBatch})
<1>1. run.until \in Nat /\ run.saved \in 1..run.saved
  BY DEF RunInv, RunOK
<1>2. PICK a \in assessments : a.assessed_at = run.until
  BY <1>1 DEF RunInv, RowsOK
<1>3. \A b \in assessments : b.assessed_at \in Nat /\ b.assessed_at <= run.until
  BY DEF RunInv, RowsOK
<1>4. LatestBatch = {b \in assessments : b.assessed_at = run.until}
  BY <1>1, <1>2, <1>3 DEF LatestBatch
<1>5. \A b \in LatestBatch : b.level \in LEVELS
  BY DEF LatestBatch, RunInv, RowsOK
<1>6. QED BY <1>2, <1>4, <1>5 DEF LatestRisk

\* A row of the newest stamp is not above the risk in force; a CRITICAL one is it.
LEMMA RowBoundsRisk ==
  ASSUME RunInv, run.id > 0, NEW a \in assessments, a.assessed_at = run.until
  PROVE  /\ LEVEL_RANK[a.level] <= LEVEL_RANK[LatestRisk]
         /\ a.level = "CRITICAL" => LatestRisk = "CRITICAL"
<1> DEFINE S == {b.level : b \in LatestBatch}
<1>1. S \in SUBSET LEVELS /\ a.level \in S /\ LatestRisk = max_level(S)
  BY BatchIsNewest
<1>2. QED
  <2> HIDE DEF S
  <2>1. QED BY <1>1, MaxLevel, MaxCritical

\* A finished run of one stamp has a row of each category under that stamp, so the risk
\* in force is not below its level.
LEMMA RunBoundsRisk == RunInv => NeverUnderstated
<1> SUFFICES ASSUME RunInv, run.id > 0, run.saved = 7, run.from = run.until
             PROVE  LEVEL_RANK[classify_agent(run.factors)] <= LEVEL_RANK[LatestRisk]
  BY DEF NeverUnderstated
<1>1. PICK i \in 1..7 : classify_agent(run.factors)
                          = classify_category(RISK_CATEGORIES[i], run.factors)
  BY AgentLevel
<1>2. PICK a \in assessments : /\ a.level = classify_agent(run.factors)
                               /\ a.assessed_at \in run.from..run.until
  BY <1>1 DEF RunInv, RowsOK
<1>3. a.assessed_at = run.until
  BY <1>2 DEF RunInv, RunOK, RowsOK
<1>4. QED BY <1>2, <1>3, RowBoundsRisk

\* A finished assessment of one stamp is never understated.
THEOREM RiskNotUnderstated == Spec => []NeverUnderstated
<1>1. Spec => []RunInv
  BY RunInit, RunStep, PTL DEF Spec
<1>2. QED BY <1>1, RunBoundsRisk, PTL

-------------------------------------------------------------------------------
(* Labels against incidents.                                                 *)

\* A tier that a HIGH-risk agent needs for a go vouches for the incidents known to it:
\* the critical ones among the first `known` are resolved.
Vouched(tier, known) ==
  /\ tier \in Nat /\ known \in 0..Len(incidents)
  /\ tier >= 4 => \A i \in 1..known : incidents[i].critical => incidents[i].resolved

LabelType == [by : {"score", "checklist"}, tier : Nat, computed_at : Nat, known : Nat]
IncidentType == [critical : BOOLEAN, reported : BOOLEAN, resolved : BOOLEAN, explained : BOOLEAN]

EvidenceKeys ==
  {"agent_registered", "risk_classified", "pii_classified", "safety_barriers",
   "safety_reports_done", "human_oversight", "incident_response", "incident_reported"}

Labelling == [at : {"reading"}, next : 1..9, met : SUBSET EvidenceKeys, begun : Nat, known : Nat]

LabellingOK ==
  labelling.at # "idle" => /\ labelling \in Labelling
                           /\ labelling.begun <= now /\ labelling.known <= Len(incidents)

\* Stamps are past, in the order of the ids as far as scripts wrote them, to the second.
LabelInv ==
  /\ bound \in Instances
  /\ now \in Nat
  /\ incidents \in Seq(IncidentType)
  /\ logging \in 0..Len(incidents)
  /\ labels \in Seq(LabelType)
  /\ \A i \in 1..Len(labels) : /\ labels[i].computed_at <= now
                               /\ Vouched(labels[i].tier, labels[i].known)
  /\ \A i, j \in 1..Len(labels) :
       i < j /\ labels[j].by = "score" => labels[i].computed_at \div K <= labels[j].computed_at \div K
  /\ scoring.at # "idle" => Vouched(scoring.tier, scoring.known)
  /\ LabellingOK

\* A rounded share of a part lies between nothing and the whole.
LEMMA ShareBounds ==
  ASSUME NEW n \in Nat, NEW p \in Nat, NEW w \in Nat \ {0}, p <= w
  PROVE  Share(n, p, w) \in 0..n
<1> DEFINE q == (n * p) \div w
           r == (n * p) % w
<1>1. n * p \in Nat /\ n * p <= n * w
  BY SMTT(20)
<1>2. q \in Nat /\ r \in 0..(w - 1) /\ n * p = w * q + r
  BY <1>1, SMTT(20)
<1>3. q <= n
  <2>1. SUFFICES ASSUME q >= n + 1 PROVE FALSE
    BY <1>2
  <2> HIDE DEF q, r
  <2>2. w * (n + 1) <= w * q
    BY <1>2, <2>1, SMTT(20)
  <2>3. QED BY <1>1, <1>2, <2>2, SMTT(20)
<1>4. CASE q = n
  <2>1. r = 0
    <3> HIDE DEF q, r
    <3>1. QED BY <1>1, <1>2, <1>4, SMTT(20)
  <2>2. QED BY <1>2, <1>4, <2>1 DEF Share
<1>5. CASE q < n
  BY <1>2, <1>5 DEF Share
<1>6. QED BY <1>2, <1>3, <1>4, <1>5

\* With an unresolved critical incident the score stays below tier 4: at most
\* 30 + 25 + 10 - 30 + 10.
LEMMA ScoreOfUnresolved ==
  ASSUME incidents \in Seq(IncidentType),
         NEW i \in 1..Len(incidents), incidents[i].critical, ~incidents[i].resolved
  PROVE  tier_for_score(compute_score) \in 1..3
<1> DEFINE all == DOMAIN incidents
           resolved == {j \in all : incidents[j].resolved}
           explained == {j \in all : incidents[j].explained}
           critical == {j \in all : incidents[j].critical}
           told == {j \in critical : incidents[j].reported}
           s1 == Share(15, Cardinality(resolved), Cardinality(all))
           s2 == Share(10, Cardinality(explained), Cardinality(all))
           s3 == Share(15, Cardinality(told), Cardinality(critical))
<1>1. IsFiniteSet(all) /\ i \in all /\ i \in critical /\ i \notin resolved
  <2>1. all = 1..Len(incidents) /\ Len(incidents) \in Nat
    OBVIOUS
  <2>2. IsFiniteSet(1..Len(incidents))
    BY <2>1, FS_Interval
  <2>3. QED BY <2>1, <2>2
<1>2. /\ IsFiniteSet(resolved) /\ Cardinality(resolved) <= Cardinality(all)
      /\ IsFiniteSet(explained) /\ Cardinality(explained) <= Cardinality(all)
      /\ IsFiniteSet(critical)
      /\ IsFiniteSet(told) /\ Cardinality(told) <= Cardinality(critical)
  <2>1. resolved \subseteq all /\ explained \subseteq all /\ critical \subseteq all
        /\ told \subseteq critical
    OBVIOUS
  <2> HIDE DEF all, resolved, explained, critical, told
  <2>2. IsFiniteSet(critical) BY <1>1, <2>1, FS_Subset
  <2>3. QED BY <1>1, <2>1, <2>2, FS_Subset
<1>3. /\ Cardinality(all) \in Nat \ {0} /\ Cardinality(critical) \in Nat \ {0}
      /\ Cardinality(resolved) \in Nat /\ Cardinality(explained) \in Nat
      /\ Cardinality(told) \in Nat
  <2> HIDE DEF all, resolved, explained, critical, told
  <2>1. QED BY <1>1, <1>2, FS_CardinalityType, FS_EmptySet
<1>4. s1 \in 0..15 /\ s2 \in 0..10 /\ s3 \in 0..15
  <2> HIDE DEF all, resolved, explained, critical, told
  <2>1. QED BY <1>2, <1>3, ShareBounds
<1>5. all # {} /\ critical # {} /\ ~(critical \subseteq resolved)
  BY <1>1
<1> DEFINE a == IF reported THEN 30 ELSE 0
           b == IF reviewed THEN 10 ELSE 0
           score == a + (s1 + s2) + (s3 - 5) - 30 + b
<1>6. compute_score = IF score < 0 THEN 0 ELSE score
  <2>1. compute_score =
          LET sc == a + (IF all = {} THEN 25 ELSE s1 + s2)
                      + (IF critical = {} THEN 25 ELSE s3 - 5)
                      - (IF critical \subseteq resolved THEN 0 ELSE 30) + b
          IN IF sc < 0 THEN 0 ELSE sc
    BY DEF compute_score
  <2> HIDE DEF all, resolved, explained, critical, told, s1, s2, s3, a, b
  <2>2. QED BY <1>5, <2>1
<1>7. compute_score \in 0..45
  <2>1. a \in 0..30 /\ b \in 0..10 OBVIOUS
  <2> HIDE DEF all, resolved, explained, critical, told, s1, s2, s3, a, b
  <2>2. QED BY <1>4, <1>6, <2>1
<1>8. QED BY <1>7 DEF tier_for_score

\* A score is a tier in any case.
LEMMA ScoreTier == tier_for_score(compute_score) \in 1..5
  BY DEF tier_for_score

\* The checklist's fourth tier asks for continuous monitoring, which nothing evidences.
LEMMA ChecklistTier ==
  ASSUME NEW e \in SUBSET EvidenceKeys
  PROVE  Achieved(e) \in 0..3
<1> DEFINE met == {t \in 1..5 : get_all_reqs(t) \subseteq e}
<1>1. "continuous_monitoring" \in get_all_reqs(4) /\ "continuous_monitoring" \in get_all_reqs(5)
  <2>1. "continuous_monitoring" \in LABEL_REQUIREMENTS[4] BY DEF LABEL_REQUIREMENTS
  <2>2. 4 \in 1..4 /\ 4 \in 1..5 OBVIOUS
  <2>3. QED BY <2>1, <2>2 DEF get_all_reqs
<1>2. "continuous_monitoring" \notin e
  BY DEF EvidenceKeys
<1>3. met \subseteq {1, 2, 3}
  <2>1. ASSUME NEW t \in met PROVE t \in {1, 2, 3}
    <3>1. t \in 1..5 /\ t # 4 /\ t # 5
      BY <1>1, <1>2
    <3>2. QED BY <3>1
  <2>2. QED BY <2>1
<1>4. Achieved(e) = IF met = {} THEN 0 ELSE CHOOSE t \in met : \A u \in met : u <= t
  BY DEF Achieved
<1>5. met # {} => \E t \in met : \A u \in met : u <= t
  <2> HIDE DEF met
  <2>1. CASE 3 \in met BY <1>3, <2>1
  <2>2. CASE 3 \notin met /\ 2 \in met BY <1>3, <2>2
  <2>3. CASE 3 \notin met /\ 2 \notin met /\ met # {}
    <3>1. met = {1} BY <1>3, <2>3
    <3>2. QED BY <3>1
  <2>4. QED BY <2>1, <2>2, <2>3
<1>6. QED
  <2> HIDE DEF met
  <2>1. CASE met = {} BY <1>4, <2>1
  <2>2. CASE met # {}
    <3>1. PICK t \in met : t = Achieved(e) BY <1>4, <1>5, <2>2
    <3>2. QED BY <1>3, <3>1
  <2>3. QED BY <2>1, <2>2

\* Eight elements with two appended.
LEMMA EightAndTwo ==
  ASSUME NEW S, NEW e \in Seq(S), NEW l \in Seq(S), Len(e) = 8, Len(l) = 2
  PROVE  /\ (e \o l)[9] = l[1] /\ (e \o l)[10] = l[2]
         /\ \A n \in 1..8 : (e \o l)[n] = e[n]
<1>1. PICK c : c = e \o l
  OBVIOUS
<1>2. \A i \in 1..Len(e) + Len(l) : (e \o l)[i] = IF i <= Len(e) THEN e[i] ELSE l[i - Len(e)]
  BY ConcatProperties, Zenon
<1>3. \A i \in 1..8 + 2 : c[i] = IF i <= 8 THEN e[i] ELSE l[i - 8]
  BY <1>1, <1>2, Zenon
<1>4. c[9] = l[1] /\ c[10] = l[2] /\ \A n \in 1..8 : c[n] = e[n]
  BY <1>3
<1>5. QED BY <1>1, <1>4

\* The statements, in order: the evidence, the risk, the label.
LEMMA ReadsAre ==
  /\ Len(gather_label_evidence) = 8
  /\ \A n \in 1..8 : gather_label_evidence[n] \in EvidenceKeys
                    /\ GateReads[n] = gather_label_evidence[n]
  /\ GateReads[9] = "risk" /\ GateReads[10] = "label"
<1>1. /\ gather_label_evidence \in Seq(EvidenceKeys \union {"risk", "label"})
      /\ Len(gather_label_evidence) = 8
      /\ \A n \in 1..8 : gather_label_evidence[n] \in EvidenceKeys
  BY DEF gather_label_evidence, EvidenceKeys
<1>2. PICK e \in Seq(EvidenceKeys \union {"risk", "label"}) : e = gather_label_evidence
  BY <1>1
<1>3. <<"risk", "label">> \in Seq(EvidenceKeys \union {"risk", "label"})
  BY DEF EvidenceKeys
<1>4. PICK l \in Seq(EvidenceKeys \union {"risk", "label"}) : l = <<"risk", "label">>
  BY <1>3
<1>5. GateReads = e \o l /\ Len(e) = 8 /\ Len(l) = 2 /\ l[1] = "risk" /\ l[2] = "label"
  BY <1>1, <1>2, <1>4 DEF GateReads
<1>6. (e \o l)[9] = l[1] /\ (e \o l)[10] = l[2] /\ \A n \in 1..8 : (e \o l)[n] = e[n]
  BY <1>5, EightAndTwo
<1>7. QED BY <1>1, <1>2, <1>5, <1>6

\* Incidents are only ever added and resolved.
IncidentsGrow ==
  /\ incidents' \in Seq(IncidentType)
  /\ Len(incidents) <= Len(incidents')
  /\ \A i \in 1..Len(incidents) : /\ (incidents'[i].critical <=> incidents[i].critical)
                                  /\ incidents[i].resolved => incidents'[i].resolved

LEMMA IncidentReplaced ==
  ASSUME incidents \in Seq(IncidentType), NEW n \in DOMAIN incidents, NEW row \in IncidentType,
         row.critical = incidents[n].critical, incidents[n].resolved => row.resolved,
         incidents' = [incidents EXCEPT ![n] = row]
  PROVE  IncidentsGrow /\ Len(incidents') = Len(incidents)
<1>1. \A i \in 1..Len(incidents) : incidents'[i] = IF i = n THEN row ELSE incidents[i]
  OBVIOUS
<1>2. incidents' \in Seq(IncidentType) /\ Len(incidents') = Len(incidents)
  OBVIOUS
<1>3. QED BY <1>1, <1>2 DEF IncidentsGrow

LEMMA IncidentsOnlyGrow ==
  ASSUME LabelInv, [Next]_vars
  PROVE  IncidentsGrow /\ bound' = bound /\ logging' \in 0..Len(incidents')
<1>1. incidents \in Seq(IncidentType) /\ logging \in 0..Len(incidents) /\ bound \in Instances
  BY DEF LabelInv
<1>2. CASE UNCHANGED <<bound, incidents, logging>>
  BY <1>1, <1>2 DEF IncidentsGrow
<1>3. CASE \E critical \in BOOLEAN : log_incident(critical)
  <2>1. PICK critical \in BOOLEAN : log_incident(critical)
    BY <1>3
  <2>2. PICK row \in IncidentType : incidents' = Append(incidents, row)
    BY <2>1 DEF log_incident, IncidentType
  <2>3. /\ incidents' \in Seq(IncidentType) /\ Len(incidents') = Len(incidents) + 1
        /\ \A i \in 1..Len(incidents) : incidents'[i] = incidents[i]
    BY <1>1, <2>2
  <2>4. logging' \in {0, Len(incidents')} /\ bound' = bound
    BY <2>1 DEF log_incident
  <2>5. QED BY <1>1, <2>3, <2>4 DEF IncidentsGrow
<1>4. CASE mark_incident_reported
  <2>1. PICK n \in DOMAIN incidents : n = logging
    BY <1>1, <1>4 DEF mark_incident_reported
  <2>2. /\ logging' = 0 /\ bound' = bound
        /\ incidents' = [incidents EXCEPT ![n].reported = TRUE]
    BY <1>4, <2>1 DEF mark_incident_reported
  <2>3. incidents[n] \in IncidentType
    BY <1>1
  <2>4. PICK row \in IncidentType : row = [incidents[n] EXCEPT !.reported = TRUE]
    BY <2>3 DEF IncidentType
  <2>5. /\ incidents' = [incidents EXCEPT ![n] = row]
        /\ row.critical = incidents[n].critical /\ row.resolved = incidents[n].resolved
    BY <2>2, <2>3, <2>4 DEF IncidentType
  <2>6. IncidentsGrow
    BY <1>1, <2>5, IncidentReplaced
  <2>7. QED BY <1>1, <2>2, <2>6 DEF IncidentsGrow
<1>5. CASE LoggerDies
  BY <1>1, <1>5 DEF LoggerDies, IncidentsGrow
<1>6. CASE \E i \in DOMAIN incidents, explained \in bound.causes : resolve_incident(i, explained)
  <2>1. PICK n \in DOMAIN incidents, explained \in bound.causes : resolve_incident(n, explained)
    BY <1>6
  <2>2. /\ explained \in BOOLEAN /\ logging' = logging /\ bound' = bound
        /\ incidents' = [incidents EXCEPT ![n].resolved = TRUE, ![n].explained = explained]
    BY <1>1, <2>1, InstanceAssumption DEF resolve_incident
  <2>3. incidents[n] \in IncidentType
    BY <1>1
  <2>4. PICK row \in IncidentType :
          row = [incidents[n] EXCEPT !.resolved = TRUE, !.explained = explained]
    BY <2>2, <2>3 DEF IncidentType
  <2>5. /\ incidents' = [incidents EXCEPT ![n] = row]
        /\ row.critical = incidents[n].critical /\ row.resolved
    BY <2>2, <2>3, <2>4 DEF IncidentType
  <2>6. IncidentsGrow
    BY <1>1, <2>5, IncidentReplaced
  <2>7. QED BY <1>1, <2>2, <2>6 DEF IncidentsGrow
<1>7. QED
  BY <1>2, <1>3, <1>4, <1>5, <1>6
  DEF Next, vars, record, Tick, register_agent, assess_and_store, assess_next,
      save_risk_assessment, AssessorDies, log_decision, generate_safety_report,
      compute_ethics_label, save_ethics_label, sdaia_assess_label, GatherForLabel, insert_label,
      get_agent_passport, sdaia_deployment_check, ReadEvidence, ReadRisk, compute_deployment_decision

\* A tier that vouches for some incidents does so for good.
LEMMA VouchedStays ==
  ASSUME incidents \in Seq(IncidentType), IncidentsGrow, NEW tier, NEW known,
         Vouched(tier, known)
  PROVE  Vouched(tier, known)'
<1>0. Len(incidents) \in Nat /\ Len(incidents') \in Nat /\ Len(incidents) <= Len(incidents')
  BY DEF IncidentsGrow
<1>1. known \in 0..Len(incidents) /\ known \in 0..Len(incidents') /\ tier \in Nat
  BY <1>0 DEF Vouched
<1>2. ASSUME tier >= 4, NEW i \in 1..known, incidents'[i].critical
      PROVE  incidents'[i].resolved
  <2>0. i \in 1..Len(incidents)
    BY <1>0, <1>1
  <2>1. incidents[i].critical
    <3>1. \A j \in 1..Len(incidents) : incidents'[j].critical <=> incidents[j].critical
      BY Zenon DEF IncidentsGrow
    <3>2. QED BY <1>2, <2>0, <3>1, Zenon
  <2>2. QED BY <1>2, <2>0, <2>1 DEF Vouched, IncidentsGrow
<1>3. QED BY <1>1, <1>2 DEF Vouched

\* What a score is computed from vouches for the incidents there are; a checklist's
\* tier is too low to vouch for any.
LEMMA ScoreVouches ==
  ASSUME incidents \in Seq(IncidentType)
  PROVE  Vouched(tier_for_score(compute_score), Len(incidents))
<1>1. Len(incidents) \in Nat
  OBVIOUS
<1>2. \A i \in 1..Len(incidents) :
        incidents[i].critical /\ ~incidents[i].resolved => tier_for_score(compute_score) \in 1..3
  BY ScoreOfUnresolved
<1>3. QED BY <1>1, <1>2, ScoreTier DEF Vouched

LEMMA ChecklistVouches ==
  ASSUME incidents \in Seq(IncidentType), NEW e \in SUBSET EvidenceKeys,
         NEW known \in Nat, known <= Len(incidents)
  PROVE  Vouched(Achieved(e), known)
<1>1. PICK t \in 0..3 : t = Achieved(e)
  BY ChecklistTier
<1>2. Len(incidents) \in Nat
  OBVIOUS
<1>3. QED BY <1>1, <1>2 DEF Vouched

\* An assess-label request under way stays as it is.
LEMMA LabellingStays ==
  ASSUME LabelInv, IncidentsGrow, now' \in Nat, now <= now', labelling' = labelling
  PROVE  LabellingOK'
<1>1. Len(incidents) \in Nat /\ Len(incidents') \in Nat /\ Len(incidents) <= Len(incidents')
  BY DEF LabelInv, IncidentsGrow
<1>2. now \in Nat
  BY DEF LabelInv
<1>3. QED BY <1>1, <1>2 DEF LabelInv, LabellingOK, Labelling

LEMMA LabelInit == Init => LabelInv
  BY DEF Init, LabelInv, LabellingOK, Unlabelled, IncidentType

\* A label of the incidents known when it was computed is appended, and goes down in
\* order if a script stamps it.
LEMMA LabelSaved ==
  ASSUME LabelInv, IncidentsGrow, bound' = bound, logging' \in 0..Len(incidents'),
         now' = now, NEW l, l \in LabelType,
         Vouched(l.tier, l.known)', l.computed_at <= now,
         l.by = "checklist" \/ l.computed_at \div K = now \div K,
         labels' = Append(labels, l),
         \/ scoring' = Unlabelled /\ labelling' = labelling
         \/ scoring' = scoring /\ labelling' = Unlabelled
  PROVE  LabelInv'
<1>0. PICK n \in Nat : n = Len(labels)
  BY DEF LabelInv
<1>1. /\ now \in Nat /\ n \in Nat /\ Len(labels') = n + 1 /\ labels'[n + 1] = l
      /\ \A i \in 1..n : labels'[i] = labels[i]
      /\ labels' \in Seq(LabelType)
  BY <1>0 DEF LabelInv
<1>2. \A i \in 1..n : Vouched(labels[i].tier, labels[i].known)'
  <2> SUFFICES ASSUME NEW i \in 1..n PROVE Vouched(labels[i].tier, labels[i].known)'
    OBVIOUS
  <2>1. PICK t, k : t = labels[i].tier /\ k = labels[i].known /\ Vouched(t, k)
    BY <1>0 DEF LabelInv
  <2>2. Vouched(t, k)'
    BY <2>1, VouchedStays DEF LabelInv
  <2>3. QED BY <1>1, <2>1, <2>2 DEF Vouched
<1>3. \A i \in 1..Len(labels') : /\ labels'[i].computed_at <= now'
                                 /\ Vouched(labels[i].tier, labels[i].known)'
  <2>1. \A i \in 1..n : labels'[i].computed_at <= now'
    BY <1>0, <1>1 DEF LabelInv
  <2>2. Vouched(labels[n + 1].tier, labels[n + 1].known)'
    BY <1>1 DEF Vouched
  <2>3. QED BY <1>1, <1>2, <2>1, <2>2
<1>4. ASSUME NEW i \in 1..Len(labels'), NEW j \in 1..Len(labels'), i < j, labels'[j].by = "score"
      PROVE  labels'[i].computed_at \div K <= labels'[j].computed_at \div K
  <2>0. i \in 1..n
    BY <1>1, <1>4
  <2>1. labels'[i] = labels[i]
        /\ labels[i].computed_at \in Nat /\ labels[i].computed_at <= now
    <3>1. labels \in Seq(LabelType)
      BY DEF LabelInv
    <3>2. labels[i] \in LabelType
      BY <1>0, <2>0, <3>1
    <3>3. labels[i].computed_at <= now
      BY <1>0, <2>0 DEF LabelInv
    <3>4. QED BY <1>1, <2>0, <3>2, <3>3 DEF LabelType
  <2>2. CASE j \in 1..n
    BY <1>0, <1>1, <1>4, <2>1, <2>2 DEF LabelInv
  <2>3. CASE j = n + 1
    <3>1. labels'[j].computed_at \div K = now \div K
      BY <1>1, <1>4, <2>3
    <3>2. labels[i].computed_at \div K <= now \div K
      BY <1>1, <2>1, DivisionMonotone
    <3>3. QED BY <2>1, <3>1, <3>2
  <2>4. j \in 1..n \/ j = n + 1
    BY <1>1
  <2>5. QED BY <2>2, <2>3, <2>4, Zenon
<1>5. scoring'.at # "idle" => Vouched(scoring.tier, scoring.known)'
  <2>1. SUFFICES ASSUME scoring' = scoring, scoring.at # "idle"
                 PROVE  Vouched(scoring.tier, scoring.known)'
    BY DEF Unlabelled
  <2>2. PICK t, k : t = scoring.tier /\ k = scoring.known /\ Vouched(t, k)
    BY <2>1 DEF LabelInv
  <2>3. Vouched(t, k)'
    BY <2>2, VouchedStays DEF LabelInv
  <2>4. QED BY <2>1, <2>2, <2>3 DEF Vouched
<1>6. LabellingOK'
  <2>1. CASE labelling' = labelling
    BY <1>1, <2>1, LabellingStays
  <2>2. CASE labelling' = Unlabelled
    BY <2>2 DEF LabellingOK, Unlabelled
  <2>3. QED BY <2>1, <2>2
<1>7. bound' \in Instances /\ now' \in Nat /\ incidents' \in Seq(IncidentType)
      /\ logging' \in 0..Len(incidents')
  BY DEF LabelInv, IncidentsGrow
<1>8. QED BY <1>1, <1>3, <1>4, <1>5, <1>6, <1>7 DEF LabelInv

LEMMA LabelStep == LabelInv /\ [Next]_vars => LabelInv'
<1> SUFFICES ASSUME LabelInv, [Next]_vars PROVE LabelInv'
  OBVIOUS
<1>1. IncidentsGrow /\ bound' = bound /\ logging' \in 0..Len(incidents')
  BY IncidentsOnlyGrow
<1>2. incidents \in Seq(IncidentType) /\ now \in Nat /\ bound \in Instances
  BY DEF LabelInv
<1>3. now' = now \/ now' = now + 1
  BY DEF Next, vars, record, Tick, register_agent, assess_and_store, assess_next,
      save_risk_assessment, AssessorDies, log_decision, generate_safety_report, log_incident,
      mark_incident_reported, LoggerDies, resolve_incident,
      compute_ethics_label, save_ethics_label, sdaia_assess_label, GatherForLabel, insert_label,
      get_agent_passport, sdaia_deployment_check, ReadEvidence, ReadRisk, compute_deployment_decision
<1>10. now' \in Nat /\ now <= now'
  BY <1>2, <1>3
<1>4. \A t, k : Vouched(t, k) => Vouched(t, k)'
  BY <1>1, <1>2, VouchedStays
<1>5. CASE UNCHANGED <<labels, scoring, labelling>>
  <2>1. \A i \in 1..Len(labels) : Vouched(labels[i].tier, labels[i].known)'
    <3> SUFFICES ASSUME NEW i \in 1..Len(labels)
                 PROVE  Vouched(labels[i].tier, labels[i].known)'
      OBVIOUS
    <3>1. PICK t, k : t = labels[i].tier /\ k = labels[i].known /\ Vouched(t, k)
      BY DEF LabelInv
    <3>2. Vouched(t, k)' BY <1>4, <3>1
    <3>3. QED BY <1>5, <3>1, <3>2 DEF Vouched
  <2>2. scoring'.at # "idle" => Vouched(scoring.tier, scoring.known)'
    <3>1. PICK t, k : t = scoring.tier /\ k = scoring.known
      OBVIOUS
    <3>2. scoring.at # "idle" => Vouched(t, k)
      BY <3>1 DEF LabelInv
    <3>3. scoring.at # "idle" => Vouched(t, k)' BY <1>4, <3>2
    <3>4. QED BY <1>5, <3>1, <3>3 DEF Vouched
  <2>3. LabellingOK'
    BY <1>1, <1>10, <1>5, LabellingStays
  <2>4. \A i \in 1..Len(labels) : labels[i].computed_at \in Nat /\ labels[i].computed_at <= now
    <3>1. labels \in Seq(LabelType) BY DEF LabelInv
    <3>2. \A i \in 1..Len(labels) : labels[i] \in LabelType
      BY <3>1
    <3>3. \A i \in 1..Len(labels) : labels[i].computed_at \in Nat
      BY <3>2 DEF LabelType
    <3>4. QED BY <3>3 DEF LabelInv
  <2>5. \A i \in 1..Len(labels') : /\ labels'[i].computed_at <= now'
                                   /\ Vouched(labels[i].tier, labels[i].known)'
    BY <1>2, <1>10, <1>5, <2>1, <2>4
  <2>7. labels' \in Seq(LabelType)
        /\ \A i, j \in 1..Len(labels') : i < j /\ labels'[j].by = "score" =>
             labels'[i].computed_at \div K <= labels'[j].computed_at \div K
    BY <1>5 DEF LabelInv
  <2>8. QED BY <1>1, <1>2, <1>10, <2>2, <2>3, <2>5, <2>7 DEF LabelInv, IncidentsGrow
<1>6. ASSUME \/ compute_ethics_label \/ sdaia_assess_label \/ GatherForLabel
             \/ insert_label /\ labels' = labels
      PROVE  LabelInv'
  <2>1. now' = now /\ labels' = labels /\ incidents' = incidents
    BY <1>6 DEF compute_ethics_label, sdaia_assess_label, GatherForLabel, insert_label, record
  <2>2. \A i \in 1..Len(labels) : Vouched(labels[i].tier, labels[i].known)'
    BY <2>1 DEF LabelInv, Vouched
  <2>3. scoring'.at # "idle" => Vouched(scoring.tier, scoring.known)'
    <3>1. CASE scoring' = scoring
      BY <2>1, <3>1 DEF LabelInv, Vouched
    <3>2. CASE scoring' # scoring
      <4>1. scoring'.tier = tier_for_score(compute_score) /\ scoring'.known = Len(incidents)
        BY <1>6, <3>2 DEF compute_ethics_label, sdaia_assess_label, GatherForLabel, insert_label
      <4>2. QED BY <1>2, <2>1, <4>1, ScoreVouches DEF Vouched
    <3>3. QED BY <3>1, <3>2
  <2>4. LabellingOK'
    <3>1. CASE labelling' = labelling
      BY <1>1, <1>10, <3>1, LabellingStays
    <3>2. CASE sdaia_assess_label
      <4>1. labelling' = [at |-> "reading", next |-> 1, met |-> {}, begun |-> now,
                          known |-> Len(incidents)]
        BY <3>2 DEF sdaia_assess_label
      <4>2. Len(incidents) \in Nat
        BY <1>2
      <4>3. labelling' \in Labelling /\ labelling'.begun = now /\ labelling'.known = Len(incidents)
        BY <1>2, <4>1, <4>2 DEF Labelling
      <4>4. QED BY <1>2, <2>1, <4>2, <4>3 DEF LabellingOK
    <3>3. CASE GatherForLabel
      <4>1. labelling \in Labelling /\ labelling.begun <= now /\ labelling.known <= Len(incidents)
        BY <3>3 DEF GatherForLabel, Open, LabelInv, LabellingOK
      <4>2. PICK n \in 1..8 : n = labelling.next
        BY <3>3, <4>1, ReadsAre DEF GatherForLabel, Labelling
      <4>3. PICK key \in EvidenceKeys : key = gather_label_evidence[n]
        BY <4>2, ReadsAre
      <4>4. PICK met \in SUBSET EvidenceKeys :
              met = labelling.met \union {x \in {key} : Holds(x)}
        BY <4>1, <4>3 DEF Labelling
      <4>5. PICK m \in 1..9 : m = n + 1
        OBVIOUS
      <4>6. labelling' = [labelling EXCEPT !.next = m, !.met = met]
        BY <3>3, <4>2, <4>3, <4>4, <4>5 DEF GatherForLabel, Gathered
      <4>7. /\ labelling' \in Labelling
            /\ labelling'.begun = labelling.begun /\ labelling'.known = labelling.known
        BY <4>1, <4>6 DEF Labelling
      <4>8. QED BY <2>1, <4>1, <4>7 DEF LabellingOK
    <3>4. CASE labelling' = Unlabelled
      BY <3>4 DEF LabellingOK, Unlabelled
    <3>5. QED BY <1>6, <3>1, <3>2, <3>3, <3>4 DEF compute_ethics_label, insert_label
  <2>5. labels' \in Seq(LabelType)
        /\ (\A i, j \in 1..Len(labels') : i < j /\ labels'[j].by = "score" =>
              labels'[i].computed_at \div K <= labels'[j].computed_at \div K)
        /\ \A i \in 1..Len(labels') : labels'[i].computed_at <= now'
    BY <2>1 DEF LabelInv
  <2>6. QED BY <1>1, <1>2, <2>1, <2>2, <2>3, <2>4, <2>5 DEF LabelInv
<1>7. CASE save_ethics_label
  <2>1. PICK l : l = [by |-> "score", tier |-> scoring.tier,
                      computed_at |-> Truncate(now), known |-> scoring.known]
    OBVIOUS
  <2>2. /\ labels' = Append(labels, l) /\ scoring' = Unlabelled /\ labelling' = labelling
        /\ now' = now /\ scoring.at # "idle"
    BY <1>7, <2>1 DEF save_ethics_label, Open
  <2>3. PICK t, k : t = scoring.tier /\ k = scoring.known /\ Vouched(t, k)
    BY <2>2 DEF LabelInv
  <2>4. Vouched(l.tier, l.known)'
    <3>1. Vouched(t, k)' BY <1>4, <2>3
    <3>2. t = l.tier /\ k = l.known BY <2>1, <2>3
    <3>3. QED BY <3>1, <3>2 DEF Vouched
  <2>5. t \in Nat /\ k \in Nat
    BY <1>2, <2>3 DEF Vouched
  <2>6. l \in LabelType /\ l.computed_at = Truncate(now) /\ l.computed_at <= now
    BY <1>2, <2>1, <2>3, <2>5, TruncateLow DEF LabelType
  <2>7. l.computed_at \div K = now \div K
    BY <1>2, <2>6, TruncateSecond
  <2>8. QED BY <1>1, <2>2, <2>4, <2>6, <2>7, LabelSaved
<1>8. CASE insert_label /\ labels' # labels
  <2>1. labelling \in Labelling /\ labelling.begun <= now /\ labelling.known <= Len(incidents)
    BY <1>8 DEF insert_label, Open, LabelInv, LabellingOK
  <2>2. PICK tier \in 0..3 : tier = Achieved(labelling.met)
    BY <2>1, ChecklistTier DEF Labelling
  <2>3. PICK l : l = [by |-> "checklist", tier |-> tier,
                      computed_at |-> labelling.begun, known |-> labelling.known]
    OBVIOUS
  <2>4. /\ labels' = Append(labels, l) /\ labelling' = Unlabelled /\ scoring' = scoring
        /\ now' = now /\ incidents' = incidents
    BY <1>8, <2>2, <2>3 DEF insert_label
  <2>5. Vouched(l.tier, l.known)'
    <3>1. Vouched(tier, labelling.known)
      BY <1>2, <2>1, <2>2, ChecklistVouches DEF Labelling
    <3>2. QED BY <2>3, <2>4, <3>1 DEF Vouched
  <2>6. l \in LabelType /\ l.by = "checklist" /\ l.computed_at <= now
    BY <2>1, <2>2, <2>3 DEF LabelType, Labelling
  <2>7. QED BY <1>1, <2>4, <2>5, <2>6, LabelSaved
<1>9. QED
  BY <1>5, <1>6, <1>7, <1>8
  DEF Next, vars, record, Tick, register_agent, assess_and_store, assess_next,
      save_risk_assessment, AssessorDies, log_decision, generate_safety_report, log_incident,
      mark_incident_reported, LoggerDies, resolve_incident,
      get_agent_passport, sdaia_deployment_check, ReadEvidence, ReadRisk, compute_deployment_decision

\* Labels in the order of their seconds leave no later one of a script behind by a second.
LEMMA OrderedLabels == LabelInv => LabelLagsUnderASecond
<1> SUFFICES ASSUME LabelInv, labels # <<>>, NEW i \in LatestLabels,
                    NEW j \in DOMAIN labels \ LatestLabels, j > i, labels[j].by = "score"
             PROVE  labels[j].computed_at \div K = labels[i].computed_at \div K
  BY DEF LabelLagsUnderASecond, K
<1>1. labels \in Seq(LabelType) /\ DOMAIN labels = 1..Len(labels)
  BY DEF LabelInv
<1>2. i \in DOMAIN labels /\ labels[j].computed_at <= labels[i].computed_at
  BY DEF LatestLabels
<1>3. labels[i].computed_at \in Nat /\ labels[j].computed_at \in Nat
  <2>1. labels[i] \in LabelType /\ labels[j] \in LabelType
    BY <1>1, <1>2
  <2>2. QED BY <2>1 DEF LabelType
<1>4. labels[i].computed_at \div K <= labels[j].computed_at \div K
  BY <1>1, <1>2 DEF LabelInv
<1>5. labels[j].computed_at \div K <= labels[i].computed_at \div K
  BY <1>2, <1>3, DivisionMonotone
<1>6. labels[i].computed_at \div K \in Nat /\ labels[j].computed_at \div K \in Nat
  BY <1>3, Division
<1>7. QED BY <1>4, <1>5, <1>6

\* A label a script saved later is in force, or is of the second of the one in force.
THEOREM LabelsLagUnderASecond == Spec => []LabelLagsUnderASecond
<1>1. Spec => []LabelInv
  BY LabelInit, LabelStep, PTL DEF Spec
<1>2. QED BY <1>1, OrderedLabels, PTL
-------------------------------------------------------------------------------
(* A check in progress.                                                      *)

\* What a go promises to rest on.
Evidenced ==
  /\ autonomy # "none" /\ assessments # {} /\ reported /\ reviewed
  /\ \E i \in DOMAIN incidents : incidents[i].resolved

\* The newest row saved is CRITICAL.
NewestCritical ==
  run.id > 0 /\ \E a \in assessments : a.assessed_at = run.until /\ a.level = "CRITICAL"

Severities == {"blocker", "warning"}
Risks == LEVELS \union {"none"}
GateType ==
  [at : {"idle"}]
  \union [at : {"reading"}, next : 1..10, met : SUBSET EvidenceKeys, risk : Risks,
          prohibit : BOOLEAN]
  \union [at : {"done"}, decision : {"unverified"}]
  \union [at : {"done"}, decision : {"prohibited", "blocked", "warning", "approved"},
          risk : Risks, label : Nat, prohibit : BOOLEAN]

\* The rows that the statements so far have found.
Backed(met) ==
  /\ "risk_classified" \in met => assessments # {}
  /\ "pii_classified" \in met => autonomy # "none"
  /\ "safety_reports_done" \in met => reported
  /\ "human_oversight" \in met => reviewed
  /\ "incident_response" \in met => \E i \in DOMAIN incidents : incidents[i].resolved

\* What was read and noted so far still holds of the record.
GateInv ==
  /\ gate \in GateType
  /\ Checking => (gate.prohibit => NewestCritical) /\ Backed(gate.met)
  /\ Checking /\ gate.next = 10 =>
       /\ gate.prohibit => gate.risk = "CRITICAL"
       /\ "risk_classified" \in gate.met => gate.risk # "none"
  /\ Done => (gate.prohibit => gate.decision = "prohibited")
  /\ Go => gate.decision = "warning" /\ Evidenced /\ gate.risk \in LEVELS \ {"CRITICAL"}
  /\ Go => /\ gate.label = 0 \/ gate.label \in 1..Len(labels)
           /\ TierOf(gate.label) >= MIN_LABEL_TIER_FOR_RISK(gate.risk)

\* What is evidenced stays so: rows are never taken away, and no autonomy level is "none".
LEMMA RowsGrow ==
  ASSUME LabelInv, [Next]_vars
  PROVE  /\ assessments # {} => assessments' # {}
         /\ autonomy # "none" => autonomy' # "none"
         /\ reported => reported'
         /\ reviewed => reviewed'
         /\ (\E i \in DOMAIN incidents : incidents[i].resolved) =>
              \E i \in DOMAIN incidents' : incidents'[i].resolved
<1>1. incidents \in Seq(IncidentType) /\ IncidentsGrow /\ bound \in Instances
  BY IncidentsOnlyGrow DEF LabelInv
<1>2. ASSUME \E i \in DOMAIN incidents : incidents[i].resolved
      PROVE  \E i \in DOMAIN incidents' : incidents'[i].resolved
  <2>1. PICK i \in 1..Len(incidents) : incidents[i].resolved
    BY <1>1, <1>2
  <2>2. i \in 1..Len(incidents') /\ DOMAIN incidents' = 1..Len(incidents')
    BY <1>1 DEF IncidentsGrow
  <2>3. QED BY <2>1, <2>2, <1>1 DEF IncidentsGrow
<1>3. autonomy # "none" => autonomy' # "none"
  <2>1. \A level \in bound.levels : level # "none"
    BY <1>1, InstanceAssumption
  <2>2. QED
    BY <2>1 DEF Next, vars, record, Tick, register_agent, assess_and_store,
      assess_next, save_risk_assessment, AssessorDies, log_decision, generate_safety_report,
      log_incident, mark_incident_reported, LoggerDies, resolve_incident,
      compute_ethics_label, save_ethics_label, sdaia_assess_label, GatherForLabel, insert_label,
      get_agent_passport, sdaia_deployment_check, ReadEvidence, ReadRisk,
      compute_deployment_decision
<1>4. \/ assessments' = assessments
      \/ \E a : assessments' = assessments \union {a}
  BY DEF Next, vars, record, Tick, register_agent, assess_and_store,
      assess_next, save_risk_assessment, AssessorDies, log_decision, generate_safety_report,
      log_incident, mark_incident_reported, LoggerDies, resolve_incident,
      compute_ethics_label, save_ethics_label, sdaia_assess_label, GatherForLabel, insert_label,
      get_agent_passport, sdaia_deployment_check, ReadEvidence, ReadRisk,
      compute_deployment_decision
<1>5. (reported' = reported \/ reported' = TRUE) /\ (reviewed' = reviewed \/ reviewed' = TRUE)
  BY DEF Next, vars, record, Tick, register_agent, assess_and_store,
      assess_next, save_risk_assessment, AssessorDies, log_decision, generate_safety_report,
      log_incident, mark_incident_reported, LoggerDies, resolve_incident,
      compute_ethics_label, save_ethics_label, sdaia_assess_label, GatherForLabel, insert_label,
      get_agent_passport, sdaia_deployment_check, ReadEvidence, ReadRisk,
      compute_deployment_decision
<1>6. assessments # {} => assessments' # {}
  BY <1>4
<1>7. ASSUME reported PROVE reported'
  BY <1>5, <1>7
<1>8. ASSUME reviewed PROVE reviewed'
  BY <1>5, <1>8
<1>9. QED BY <1>2, <1>3, <1>6, <1>7, <1>8

LEMMA EvidenceStays ==
  ASSUME LabelInv, [Next]_vars
  PROVE  /\ Evidenced => Evidenced'
         /\ \A met : Backed(met) => Backed(met)'
<1>1. Evidenced => Evidenced'
  BY RowsGrow DEF Evidenced
<1>2. ASSUME NEW met, Backed(met) PROVE Backed(met)'
  BY <1>2, RowsGrow DEF Backed
<1>3. QED BY <1>1, <1>2

\* Labels are only ever added.
LEMMA LabelsStay ==
  ASSUME LabelInv, [Next]_vars
  PROVE  /\ Len(labels) \in Nat /\ Len(labels') \in Nat /\ Len(labels) <= Len(labels')
         /\ \A i \in 1..Len(labels) : labels'[i] = labels[i]
<1>1. labels \in Seq(LabelType) /\ labels' \in Seq(LabelType)
  BY LabelStep DEF LabelInv
<1>2. labels' = labels \/ \E l : labels' = Append(labels, l)
  BY DEF Next, vars, record, Tick, register_agent, assess_and_store,
      assess_next, save_risk_assessment, AssessorDies, log_decision, generate_safety_report,
      log_incident, mark_incident_reported, LoggerDies, resolve_incident,
      compute_ethics_label, save_ethics_label, sdaia_assess_label, GatherForLabel, insert_label,
      get_agent_passport, sdaia_deployment_check, ReadEvidence, ReadRisk,
      compute_deployment_decision
<1>3. QED BY <1>1, <1>2

\* Whenever the newest run finds the agent CRITICAL, its last row does.
LEMMA FoundRow == RunInv /\ FoundCritical => NewestCritical
<1> SUFFICES ASSUME RunInv, FoundCritical PROVE NewestCritical
  OBVIOUS
<1>1. run.id > 0 /\ run.saved \in 1..run.saved
  BY DEF FoundCritical, RunInv, RunOK
<1>2. classify_category(RISK_CATEGORIES[run.saved], run.factors) = "CRITICAL"
  BY CriticalEverywhere DEF FoundCritical
<1>3. QED BY <1>1, <1>2 DEF NewestCritical, RunInv, RowsOK

\* The risk read is a level, or none; CRITICAL when the newest row is.
LEMMA RiskRead ==
  ASSUME RunInv
  PROVE  /\ LatestRisk \in Risks
         /\ NewestCritical => LatestRisk = "CRITICAL"
         /\ assessments # {} => LatestRisk # "none"
<1>1. CASE run.id = 0
  BY <1>1 DEF RunInv, RunOK, LatestRisk, Risks, NewestCritical
<1>2. CASE run.id > 0
  <2> DEFINE S == {a.level : a \in LatestBatch}
  <2>1. S \in SUBSET LEVELS /\ S # {} /\ LatestRisk = max_level(S)
    BY <1>2, BatchIsNewest
  <2>2. LatestRisk \in LEVELS
    <3> HIDE DEF S
    <3>1. QED BY <2>1, MaxLevel
  <2>3. QED BY <1>2, <2>2, RowBoundsRisk DEF NewestCritical, Risks, LEVELS
<1>3. QED BY <1>1, <1>2 DEF RunInv, RunOK

LEMMA GateInit == Init => GateInv
  BY DEF Init, NoCheck, GateInv, GateType, Checking, Done, Go

\* A step of the others: the check has what it had, over a record that grew.
LEMMA GateKept ==
  ASSUME GateInv, LabelInv, [Next]_vars, gate' = gate,
         Checking => (NewestCritical => NewestCritical')
  PROVE  GateInv'
<1>1. (Evidenced => Evidenced') /\ (Checking => Backed(gate.met)')
  <2>1. \A met : Backed(met) => Backed(met)'
    BY EvidenceStays
  <2>2. PICK met : met = gate.met
    OBVIOUS
  <2>3. Checking => Backed(met)'
    BY <2>1, <2>2 DEF GateInv
  <2>4. QED BY <2>2, <2>3, EvidenceStays DEF Backed
<1>2. /\ Len(labels) \in Nat /\ Len(labels') \in Nat /\ Len(labels) <= Len(labels')
      /\ \A i \in 1..Len(labels) : labels'[i] = labels[i]
  BY LabelsStay
<1>3. PICK i : i = gate.label
  OBVIOUS
<1>4. i = 0 \/ i \in 1..Len(labels) => TierOf(i)' = TierOf(i)
  BY <1>2 DEF TierOf
<1>5. Go => (i = 0 \/ i \in 1..Len(labels)) /\ TierOf(i) >= MIN_LABEL_TIER_FOR_RISK(gate.risk)
  BY <1>3 DEF GateInv
<1>6. TierOf(gate.label)' = TierOf(i)'
  BY <1>3 DEF TierOf
<1>7. Go' => /\ gate'.label = 0 \/ gate'.label \in 1..Len(labels')
             /\ TierOf(gate.label)' >= MIN_LABEL_TIER_FOR_RISK(gate'.risk)
  BY <1>2, <1>3, <1>4, <1>5, <1>6 DEF Go, Done
<1>8. QED BY <1>1, <1>7 DEF GateInv, Checking, Done, Go

\* A row is saved: the check notes it unless it is CRITICAL, and then it is the newest.
LEMMA GateNotices ==
  ASSUME GateInv, LabelInv, [Next]_vars, NEW r, r.id > 0, r.until = Truncate(now),
         save_risk_assessment(r)
  PROVE  GateInv'
<1> DEFINE level == classify_category(RISK_CATEGORIES[r.saved], r.factors)
<1>1. level = "CRITICAL" => NewestCritical'
  <2>1. PICK a : a = [run |-> r.id, level |-> level, assessed_at |-> Truncate(now)]
    OBVIOUS
  <2>2. run' = r /\ a \in assessments' /\ a.level = level /\ a.assessed_at = r.until
    BY <2>1 DEF save_risk_assessment
  <2>3. QED
    <3> HIDE DEF level
    <3>1. QED BY <2>2 DEF NewestCritical
<1>2. CASE gate' = gate /\ (Checking => level = "CRITICAL")
  BY <1>1, <1>2, GateKept
<1>3. CASE Checking /\ gate' = [gate EXCEPT !.prohibit = FALSE]
  <2>1. /\ gate' \in GateType /\ gate'.prohibit = FALSE /\ gate'.at = "reading"
        /\ gate'.met = gate.met /\ gate'.next = gate.next /\ gate'.risk = gate.risk
    BY <1>3 DEF GateInv, GateType, Checking
  <2>2. PICK met : met = gate.met /\ Backed(met)
    BY <1>3 DEF GateInv
  <2>3. Backed(met)'
    BY <2>2, EvidenceStays
  <2>4. Backed(gate.met)'
    BY <2>1, <2>2, <2>3 DEF Backed
  <2>5. (Checking => Backed(gate.met))'
    BY <2>4
  <2>6. QED BY <1>3, <2>1, <2>5 DEF GateInv, Checking, Done, Go
<1>4. QED BY <1>2, <1>3 DEF save_risk_assessment, Noticed, Checking

\* What a statement finds is backed by the record it reads.
LEMMA BackedByRead ==
  ASSUME NEW met \in SUBSET EvidenceKeys, Backed(met), NEW key \in EvidenceKeys
  PROVE  Backed(met \union {k \in {key} : Holds(k)})
<1> DEFINE more == met \union {k \in {key} : Holds(k)}
<1>1. ASSUME NEW k, k \in more PROVE k \in met \/ (k = key /\ Holds(key))
  BY <1>1
<1>2. "risk_classified" \in more => assessments # {}
  BY <1>1 DEF Backed, Holds
<1>3. "pii_classified" \in more => autonomy # "none"
  BY <1>1 DEF Backed, Holds
<1>4. "safety_reports_done" \in more => reported
  BY <1>1 DEF Backed, Holds
<1>5. "human_oversight" \in more => reviewed
  BY <1>1 DEF Backed, Holds
<1>6. "incident_response" \in more => \E i \in DOMAIN incidents : incidents[i].resolved
  BY <1>1 DEF Backed, Holds
<1>7. QED
  <2> HIDE DEF more
  <2>1. Backed(more) BY <1>2, <1>3, <1>4, <1>5, <1>6 DEF Backed
  <2>2. QED BY <2>1 DEF more

\* A check or passport starts with nothing found.
LEMMA ReadingStarts ==
  ASSUME RunInv, GateInv, gate' = Reading, UNCHANGED record
  PROVE  GateInv'
<1>1. FoundCritical \in BOOLEAN
  BY DEF FoundCritical
<1>2. PICK p \in BOOLEAN : p = FoundCritical
  BY <1>1
<1>3. gate' = [at |-> "reading", next |-> 1, met |-> {}, risk |-> "none", prohibit |-> p]
  BY <1>2 DEF Reading
<1>4. (p => NewestCritical) /\ NewestCritical' = NewestCritical
  BY <1>2, FoundRow DEF record, NewestCritical
<1>5. gate' \in GateType
  BY <1>3 DEF GateType, Risks
<1>6. Backed({})'
  BY DEF Backed
<1>7. QED BY <1>3, <1>4, <1>5, <1>6 DEF GateInv, Checking, Done, Go

LEMMA GateStep ==
  ASSUME RunInv, LabelInv, GateInv, [Next]_vars
  PROVE  GateInv'
<1>1. CASE gate' = gate /\ run' = run /\ assessments' = assessments
  <2>1. NewestCritical => NewestCritical'
    BY <1>1 DEF NewestCritical
  <2>2. QED BY <1>1, <2>1, GateKept
<1>2. CASE \E f \in bound.profiles : assess_and_store(f)
  <2>1. PICK f \in bound.profiles : assess_and_store(f)
    BY <1>2
  <2>2. PICK r : r = [id |-> run.id + 1, factors |-> f, saved |-> 1, open |-> TRUE,
                      from |-> Truncate(now), until |-> Truncate(now)]
    OBVIOUS
  <2>3. save_risk_assessment(r) /\ r.until = Truncate(now)
    BY <2>1, <2>2 DEF assess_and_store, save_risk_assessment
  <2>4. r.id > 0
    BY <2>2 DEF RunInv, RunOK
  <2>5. QED BY <2>3, <2>4, GateNotices
<1>3. CASE assess_next
  <2>1. run.id > 0
    BY <1>3 DEF assess_next, RunInv, RunOK
  <2>2. PICK r : r = [run EXCEPT !.saved = @ + 1, !.open = @ /\ run.saved + 1 < 7,
                                 !.until = Truncate(now)]
    OBVIOUS
  <2>3. r.id > 0 /\ r.until = Truncate(now)
    BY <2>1, <2>2 DEF RunInv, RunOK
  <2>4. save_risk_assessment(r)
    BY <1>3, <2>2 DEF assess_next, save_risk_assessment
  <2>5. QED BY <2>3, <2>4, GateNotices
<1>4. CASE AssessorDies
  <2>1. run'.id = run.id /\ run'.until = run.until /\ assessments' = assessments /\ gate' = gate
    BY <1>4 DEF AssessorDies, RunInv, RunOK
  <2>2. NewestCritical => NewestCritical'
    BY <2>1 DEF NewestCritical
  <2>3. QED BY <2>1, <2>2, GateKept
<1>5. CASE get_agent_passport
  <2>1. CASE gate' = Reading
    BY <1>5, <2>1, ReadingStarts DEF get_agent_passport
  <2>2. CASE gate' = [at |-> "done", decision |-> "unverified"]
    BY <2>2 DEF GateInv, GateType, Checking, Done, Go
  <2>3. QED BY <1>5, <2>1, <2>2 DEF get_agent_passport
<1>6. CASE sdaia_deployment_check
  BY <1>6, ReadingStarts DEF sdaia_deployment_check
<1>7. CASE ReadEvidence
  <2>1. gate \in GateType /\ Backed(gate.met) /\ gate.at = "reading"
        /\ (gate.prohibit => NewestCritical) /\ UNCHANGED record
    BY <1>7 DEF ReadEvidence, GateInv, Checking
  <2>2. gate \in [at : {"reading"}, next : 1..10, met : SUBSET EvidenceKeys, risk : Risks,
                   prohibit : BOOLEAN]
    BY <2>1 DEF GateType
  <2>3. PICK n \in 1..8 : n = gate.next
    <3>1. gate.next \in 1..10 /\ gate.next # 9 /\ gate.next # 10
      BY <1>7, <2>2, ReadsAre DEF ReadEvidence
    <3>2. QED BY <3>1
  <2>4. PICK key \in EvidenceKeys : key = GateReads[gate.next]
    BY <2>3, ReadsAre
  <2>5. PICK met \in SUBSET EvidenceKeys :
          met = gate.met \union {k \in {key} : Holds(k)} /\ Backed(met)
    <3>1. gate.met \in SUBSET EvidenceKeys
      BY <2>2
    <3>2. gate.met \union {k \in {key} : Holds(k)} \in SUBSET EvidenceKeys
      BY <3>1
    <3>3. Backed(gate.met \union {k \in {key} : Holds(k)})
      BY <2>1, <3>1, BackedByRead
    <3>4. QED BY <3>2, <3>3
  <2>6. gate' = [gate EXCEPT !.next = n + 1, !.met = met]
    BY <1>7, <2>3, <2>4, <2>5 DEF ReadEvidence, Gathered
  <2>7. gate' = [at |-> "reading", next |-> n + 1, met |-> met, risk |-> gate.risk,
                 prohibit |-> gate.prohibit]
    BY <2>2, <2>6
  <2>8. Backed(met)' /\ NewestCritical' = NewestCritical
    BY <2>1, <2>5 DEF record, Backed, NewestCritical
  <2>9. gate' \in GateType /\ n + 1 # 10
    BY <2>2, <2>3, <2>7 DEF GateType
  <2>10. QED BY <2>1, <2>7, <2>8, <2>9 DEF GateInv, Checking, Done, Go
<1>8. CASE ReadRisk
  <2>1. gate \in GateType /\ Backed(gate.met) /\ gate.at = "reading"
        /\ (gate.prohibit => NewestCritical) /\ UNCHANGED record
    BY <1>8 DEF ReadRisk, GateInv, Checking
  <2>2. gate \in [at : {"reading"}, next : 1..10, met : SUBSET EvidenceKeys, risk : Risks,
                   prohibit : BOOLEAN]
    BY <2>1 DEF GateType
  <2>3. gate.next = 9
    <3>1. gate.next \in 1..10
      BY <2>2
    <3>2. gate.next # 10
      BY <1>8, ReadsAre DEF ReadRisk
    <3>3. gate.next \notin 1..8
      <4>1. \A n \in 1..8 : GateReads[n] # "risk"
        BY ReadsAre DEF EvidenceKeys
      <4>2. QED BY <1>8, <4>1 DEF ReadRisk
    <3>4. QED BY <3>1, <3>2, <3>3
  <2>4. PICK risk \in Risks : /\ risk = LatestRisk
                              /\ NewestCritical => risk = "CRITICAL"
                              /\ assessments # {} => risk # "none"
    BY RiskRead
  <2>5. gate' = [at |-> "reading", next |-> 10, met |-> gate.met, risk |-> risk,
                 prohibit |-> gate.prohibit]
    <3>1. gate' = [gate EXCEPT !.next = 10, !.risk = risk]
      BY <1>8, <2>3, <2>4 DEF ReadRisk
    <3>2. QED BY <2>2, <3>1
  <2>6. PICK met \in SUBSET EvidenceKeys : met = gate.met /\ Backed(met)
    BY <2>1, <2>2
  <2>7. Backed(met)' /\ NewestCritical' = NewestCritical
    BY <2>1, <2>6 DEF record, Backed, NewestCritical
  <2>8. "risk_classified" \in met => risk # "none"
    BY <2>4, <2>6 DEF Backed
  <2>9. gate' \in GateType
    BY <2>2, <2>4, <2>5 DEF GateType
  <2>10. gate' = [at |-> "reading", next |-> 10, met |-> met, risk |-> risk,
                  prohibit |-> gate.prohibit]
    BY <2>5, <2>6
  <2>11. QED BY <2>1, <2>4, <2>7, <2>8, <2>9, <2>10 DEF GateInv, Checking, Done, Go
<1>9. CASE compute_deployment_decision
  <2>1. gate \in GateType /\ Backed(gate.met) /\ gate.at = "reading" /\ UNCHANGED record
    BY <1>9 DEF compute_deployment_decision, GateInv, Checking
  <2>2. gate \in [at : {"reading"}, next : 1..10, met : SUBSET EvidenceKeys, risk : Risks,
                   prohibit : BOOLEAN]
    BY <2>1 DEF GateType
  <2>3. gate.next = 10
    <3>1. gate.next \in 1..10
      BY <2>2
    <3>2. gate.next # 9
      BY <1>9, ReadsAre DEF compute_deployment_decision
    <3>3. gate.next \notin 1..8
      <4>1. \A n \in 1..8 : GateReads[n] # "label"
        BY ReadsAre DEF EvidenceKeys
      <4>2. QED BY <1>9, <4>1 DEF compute_deployment_decision
    <3>4. QED BY <3>1, <3>2, <3>3
  <2>4. PICK risk \in Risks, p \in BOOLEAN, met \in SUBSET EvidenceKeys :
          /\ risk = gate.risk /\ p = gate.prohibit /\ met = gate.met /\ Backed(met)
          /\ p => risk = "CRITICAL"
          /\ "risk_classified" \in met => risk # "none"
    BY <2>1, <2>2, <2>3 DEF GateInv, Checking
  <2>5. PICK u : u = Unmet(met)
    OBVIOUS
  <2>6. /\ "warning" \in u
        /\ "blocker" \notin u => BlockerKeys \subseteq met
    <3>1. "continuous_monitoring" \in WarningKeys /\ "continuous_monitoring" \notin met
      BY DEF WarningKeys, EvidenceKeys
    <3>2. ~(WarningKeys \subseteq met)
      BY <3>1
    <3>3. QED BY <2>5, <3>2 DEF Unmet
  <2>7. BlockerKeys \subseteq met => Evidenced /\ risk # "none"
    BY <2>4 DEF BlockerKeys, Backed, Evidenced
  <2>8. PICK i \in LatestLabels :
          gate' = [at |-> "done", risk |-> risk, label |-> i, prohibit |-> p,
                   decision |-> Decision(u, risk, TierOf(i))]
    BY <1>9, <2>4, <2>5 DEF compute_deployment_decision
  <2>9. labels \in Seq(LabelType) /\ labels' = labels /\ Evidenced' = Evidenced
    BY <2>1 DEF LabelInv, record, Evidenced
  <2>10. i \in Nat /\ (i = 0 \/ i \in 1..Len(labels)) /\ TierOf(i)' = TierOf(i)
    <3>1. CASE labels = <<>>
      BY <2>9, <3>1 DEF LatestLabels, TierOf
    <3>2. CASE labels # <<>>
      BY <2>9, <3>2 DEF LatestLabels, TierOf
    <3>3. QED BY <3>1, <3>2
  <2>11. TierOf(i) \in Nat
    <3>1. CASE i = 0 BY <3>1 DEF TierOf
    <3>2. CASE i \in 1..Len(labels)
      <4>1. labels[i] \in LabelType BY <2>9, <3>2
      <4>2. QED BY <2>10, <4>1 DEF TierOf, LabelType
    <3>3. QED BY <2>10, <3>1, <3>2
  <2>12. PICK tier \in Nat : tier = TierOf(i)
    BY <2>11
  <2>13. PICK d : d = Decision(u, risk, tier)
    OBVIOUS
  <2>14. /\ d \in {"prohibited", "blocked", "warning", "approved"}
         /\ risk = "CRITICAL" => d = "prohibited"
         /\ d \in {"warning", "approved"} =>
              /\ "blocker" \notin u /\ risk # "CRITICAL"
              /\ "warning" \in u => d = "warning"
              /\ tier >= MIN_LABEL_TIER_FOR_RISK(risk)
    BY <2>13 DEF Decision, MIN_LABEL_TIER_FOR_RISK
  <2>15. gate' = [at |-> "done", risk |-> risk, label |-> i, prohibit |-> p, decision |-> d]
    BY <2>8, <2>12, <2>13
  <2>16. gate' \in GateType
    BY <2>10, <2>14, <2>15 DEF GateType
  <2>17. Go' => d \in {"warning", "approved"}
    BY <2>15 DEF Go, Done
  <2>18. Go' => gate'.decision = "warning" /\ Evidenced' /\ gate'.risk \in LEVELS \ {"CRITICAL"}
    BY <2>4, <2>6, <2>7, <2>9, <2>14, <2>15, <2>17 DEF Risks
  <2>19. Go' => /\ gate'.label = 0 \/ gate'.label \in 1..Len(labels')
                /\ TierOf(gate.label)' >= MIN_LABEL_TIER_FOR_RISK(gate'.risk)
    BY <2>9, <2>10, <2>12, <2>14, <2>15, <2>17
  <2>20. Done' => (gate'.prohibit => gate'.decision = "prohibited")
    BY <2>4, <2>14, <2>15
  <2>21. gate'.at = "done"
    BY <2>15
  <2>22. QED BY <2>16, <2>18, <2>19, <2>20, <2>21 DEF GateInv, Checking
<1>10. QED
  BY <1>1, <1>2, <1>3, <1>4, <1>5, <1>6, <1>7, <1>8, <1>9
  DEF Next, vars, record, Tick, register_agent, log_decision, generate_safety_report,
      log_incident, mark_incident_reported, LoggerDies, resolve_incident,
      compute_ethics_label, save_ethics_label, sdaia_assess_label, GatherForLabel, insert_label

\* The invariant of the whole record.
RecordInv == RunInv /\ LabelInv /\ GateInv

LEMMA RecordHolds == Spec => []RecordInv
<1>1. Init => RecordInv
  BY RunInit, LabelInit, GateInit DEF RecordInv
<1>2. RecordInv /\ [Next]_vars => RecordInv'
  BY RunStep, LabelStep, GateStep DEF RecordInv
<1>3. QED BY <1>1, <1>2, PTL DEF Spec

\* No check or passport lets a CRITICAL agent pass, whatever of its assessment was saved.
THEOREM CriticalProhibited == Spec => []CriticalIsProhibited
<1>1. RecordInv => CriticalIsProhibited
  BY DEF RecordInv, GateInv, CriticalIsProhibited
<1>2. QED BY <1>1, RecordHolds, PTL

\* Whatever is committed between the statements of a check, a go was given on the level of
\* an assessment, below CRITICAL and with the label it needs, over the rows its blockers
\* ask for, and with a warning.
THEOREM GoesEvidenced == Spec => []GoIsEvidenced
<1>1. RecordInv => GoIsEvidenced
  BY DEF RecordInv, GateInv, GoIsEvidenced, Evidenced
<1>2. QED BY <1>1, RecordHolds, PTL

\* No HIGH-risk agent gets a go over an unresolved critical incident its label knew of.
THEOREM HighGoesVouched == Spec => []HighGoOutranksIncidents
<1>1. RecordInv => HighGoOutranksIncidents
  <2> SUFFICES ASSUME RecordInv, Go, gate.risk = "HIGH", NEW i \in DOMAIN incidents,
                      incidents[i].critical, ~incidents[i].resolved
               PROVE  i > labels[gate.label].known
    BY DEF HighGoOutranksIncidents
  <2>1. gate.label \in 1..Len(labels) /\ labels[gate.label].tier >= 4
    BY DEF RecordInv, GateInv, TierOf, MIN_LABEL_TIER_FOR_RISK
  <2>2. PICK t, k : t = labels[gate.label].tier /\ k = labels[gate.label].known /\ Vouched(t, k)
    BY <2>1 DEF RecordInv, LabelInv
  <2>3. i \in 1..Len(incidents) /\ Len(incidents) \in Nat
    BY DEF RecordInv, LabelInv
  <2>4. i \notin 1..k /\ k \in Nat
    BY <2>1, <2>2, <2>3 DEF Vouched
  <2>5. QED BY <2>2, <2>3, <2>4
<1>2. QED BY <1>1, RecordHolds, PTL
=============================================================================
