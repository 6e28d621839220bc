-------------------------- MODULE ComplianceReport --------------------------
(***************************************************************************)
(* The ISO 42001 report (app/compliance.py): seventy checks in a row, each *)
(* of one to three counting queries on the decision graph.  Every query is *)
(* a connection and a snapshot of its own, while agents go on recording:   *)
(* a check may divide a count of one graph by a count of a later one.      *)
(*                                                                         *)
(* Decisions that agree in everything the checks count are one element of  *)
(* a bag.  Every decision has a snapshot linked to it and a model; nothing *)
(* is ever removed; the policies are the seeded rows, all active and       *)
(* versioned; nothing writes pl_data_classifications.                      *)
(***************************************************************************)
EXTENDS Integers, Sequences, Bags, FiniteSetsExt

CONSTANTS
  Templates,   \* the decisions that are recorded; the day is set then
  Seeds,       \* what the graph may hold at the start: decisions, narrated, crossed
  Policies,    \* number of Policy nodes
  Today,       \* the day it is at the start
  Leaps,       \* days that may pass between two steps
  MaxEvents    \* bound on recordings, leaps and failing queries

Names == {t.agent : t \in Templates}
Everyone == "everyone"   \* the scope of a report of all agents

ASSUME NameAssumption == Everyone \notin Names
ASSUME TemplateAssumption ==
  /\ IsFiniteSet(Names)
  /\ \A t \in Templates : {"agent", "steps"} \subseteq DOMAIN t /\ t.steps \in Nat
ASSUME PolicyAssumption == Policies \in Nat
ASSUME EventAssumption == MaxEvents \in Nat
ASSUME SeedAssumption ==
  \A s \in Seeds :
    /\ IsABag(s.decisions) /\ IsFiniteSet(DOMAIN s.decisions)
    /\ \A d \in DOMAIN s.decisions : d.agent \in Names /\ d.day <= Today /\ d.steps \in Nat
    /\ s.narrated \in [Names -> Nat] /\ s.crossed \in Nat

VARIABLES
  decisions,  \* the Decision nodes
  narrated,   \* pl_exceptions, by the agent of their decision
  stepped,    \* steps added to decisions later, by the agent of the decision
  crossed,    \* CROSS_AGENT_REFERENCE edges
  today,      \* the day
  report,     \* the report being generated
  events      \* recordings, leaps and failing queries so far

evidence == <<decisions, narrated, stepped, crossed, today>>
vars == <<evidence, report, events>>

MET == "MET"
PARTIAL == "PARTIAL"
NOT_MET == "NOT_MET"
CRITICAL == 3
MAJOR == 2
MINOR == 1

-------------------------------------------------------------------------------
(* What a query sees.  Counts of decisions, snapshots, exceptions and steps  *)
(* are those of the agent the report is about; policies and edges are not,   *)
(* but for the policy applications of A.2.2.                                 *)

Of(bag, scope) == [d \in {d \in DOMAIN bag : scope \in {Everyone, d.agent}} |-> bag[d]]

SumOf(weights, S) == MapThenSumSet(LAMBDA x : weights[x], S)

By(tally, scope) == SumOf(tally, {a \in Names : scope \in {Everyone, a}})

Seen(scope) ==
  [all |-> decisions, own |-> Of(decisions, scope), exceptions |-> By(narrated, scope),
   steps |-> By(stepped, scope), cross |-> crossed, today |-> today]

\* How many of a bag are in S, and what they come to with an amount each.
Count(bag, S) == SumOf(bag, S)
Size(bag) == Count(bag, DOMAIN bag)
Worth(bag, amount) == SumOf([d \in DOMAIN bag |-> bag[d] * amount[d]], DOMAIN bag)

Total(s) == Size(s.own)
Overrides(s) == Count(s.own, {d \in DOMAIN s.own : d.human_override})
Escalations(s) == Count(s.own, {d \in DOMAIN s.own : d.escalation})
Reasoned(s) == Count(s.own, {d \in DOMAIN s.own : d.reasoning})
Tracked(s) == Count(s.own, {d \in DOMAIN s.own : d.session})
Personal(s) == Count(s.own, {d \in DOMAIN s.own : d.contains_pii})
Logged(s) == Count(s.own, {d \in DOMAIN s.own : d.input})
Recent(s) == Count(s.own, {d \in DOMAIN s.own : s.today - d.day <= 7})
Agents(s) == {d.agent : d \in DOMAIN s.own}
Grouped(s) == {d.agent : d \in {e \in DOMAIN s.own : e.group}}
Applied(bag) == Worth(bag, [d \in DOMAIN bag |-> d.policies])
Steps(s) == s.steps + Worth(s.own, [d \in DOMAIN s.own |-> d.steps])

\* AVG(confidence_score) >= percent
AverageAtLeast(bag, percent) ==
  Worth(bag, [d \in DOMAIN bag |-> d.confidence - percent]) >= 0

\* round(part / whole * 100) >= percent, for an even percent: a half rounds up to it.
PercentAtLeast(part, whole, percent) == 200 * part >= (2 * percent - 1) * whole

Weeks(bag) == {d.day \div 7 : d \in DOMAIN bag}

\* Of up to four weeks with decisions, the last one is on average the most confident.
Improving(bag) ==
  LET last == Max(Weeks(bag))
      shown == {w \in Weeks(bag) : Cardinality({v \in Weeks(bag) : v > w}) < 4}
      of(w) == [d \in {e \in DOMAIN bag : e.day \div 7 = w} |-> bag[d]]
      sum(w) == Worth(of(w), [d \in DOMAIN of(w) |-> d.confidence])
  IN sum(last) * Size(of(Min(shown))) > sum(Min(shown)) * Size(of(last))

-------------------------------------------------------------------------------
(* The checks: the status of a requirement, where s is what the first query  *)
(* of the check saw and t what its last one sees.  A requirement that is not *)
(* listed is documented elsewhere, if at all, and is NOT_MET.                *)

Evidenced(test) == IF test THEN PARTIAL ELSE NOT_MET
Graded(met, partial) == IF met THEN MET ELSE Evidenced(partial)

Clause4(id, s, t) ==
  CASE id \in {"4.1", "4.3"} -> Evidenced(Agents(t) # {})
    [] id = "4.2" -> Evidenced(Policies >= 3)
    [] id = "4.4" -> Graded(Total(s) > 0 /\ Policies > 0 /\ Applied(t.all) > 0, Total(s) > 0)

Clause5(id, s, t) ==
  CASE id = "5.1" -> Evidenced(Overrides(s) > 0 \/ Escalations(t) > 0)
    [] id = "5.2" -> Evidenced(Policies >= 2)
    [] id = "5.3" -> Evidenced(Agents(t) # {})

Clause6(id, s, t) ==
  CASE id \in {"6.1.1", "6.2"} -> Evidenced(Total(t) > 0)
    [] id = "6.1.2" -> Evidenced(Total(t) > 0 /\ AverageAtLeast(t.own, 75))
    [] id = "6.1.3" -> Evidenced(Policies > 0 /\ Applied(t.all) > 0)
    [] id = "6.1.4" -> Graded(Total(t) > 0 /\ PercentAtLeast(Tracked(s), Total(t), 80),
                              Total(t) > 0)

Clause7(id, s, t) ==
  CASE id = "7.1" -> Evidenced(Agents(t) # {})
    [] id = "7.5.1" -> Evidenced(Policies >= 3)
    [] id = "7.5.2" -> Graded(Policies >= 2, FALSE)
    [] OTHER -> NOT_MET

Clause8(id, s, t) ==
  CASE id = "8.1" -> Graded(Recent(t) > 0, FALSE)
    [] id = "8.2" -> Evidenced(Total(s) > 0)         \* snapshots, and their links
    [] id = "8.3" -> Evidenced(Agents(s) # {})       \* and models
    [] id = "8.5" -> Graded(Total(s) > 0 /\ PercentAtLeast(Reasoned(t), Total(s), 50),
                            Total(s) > 0)
    [] OTHER -> NOT_MET

Clause9(id, s, t) ==
  CASE id = "9.1" -> Graded(Recent(t) > 0 /\ AverageAtLeast(t.own, 70), Total(t) > 0)
    [] OTHER -> NOT_MET

\* rate <= 10, to a tenth of a percent (a half of a tenth counts as over it).
Clause10(id, s, t) ==
  CASE id = "10.1" -> Evidenced(Overrides(t) > 0)
    [] id = "10.2" -> IF Cardinality(Weeks(t.own)) < 2 THEN NOT_MET
                      ELSE Graded(Improving(t.own), TRUE)
    [] id = "10.3" -> Graded(Total(t) > 0 /\ 2000 * Escalations(s) < 201 * Total(t),
                             Total(t) > 0)

\* Variant for the runs' sensitivity: policy applications of every agent count.
AnnexA2Unscoped(id, s, t) ==
  CASE id = "A.2.1" -> Evidenced(Policies >= 3)
    [] id = "A.2.2" -> Graded(Applied(t.all) >= 5, TRUE)
    [] OTHER -> NOT_MET

AnnexA2(id, s, t) ==
  CASE id = "A.2.1" -> Evidenced(Policies >= 3)
    [] id = "A.2.2" -> Graded(Applied(t.own) >= 5, TRUE)
    [] OTHER -> NOT_MET

AnnexA3(id, s, t) ==
  CASE id = "A.3.1" -> Evidenced(Agents(t) # {})
    [] OTHER -> NOT_MET

AnnexA4(id, s, t) ==
  CASE id = "A.4.2" -> Evidenced(Total(t) > 0)
    [] OTHER -> NOT_MET

AnnexA5(id, s, t) ==
  CASE id = "A.5.2" -> Evidenced(Total(t) > 0)
    [] id = "A.5.3" -> Evidenced(Agents(t) # {})
    [] OTHER -> NOT_MET

AnnexA6(id, s, t) ==
  CASE id = "A.6.2" -> Evidenced(Total(t) > 0)
    [] id = "A.6.4" -> Evidenced(Logged(t) > 0)
    [] OTHER -> NOT_MET

AnnexA7(id, s, t) ==
  CASE id = "A.7.2" -> Graded(Total(t) >= 100, Total(t) > 0)
    [] OTHER -> NOT_MET

AnnexA8(id, s, t) ==
  CASE id = "A.8.3" -> Graded(Overrides(s) + Escalations(t) > 0, FALSE)
    [] id = "A.8.4" -> Graded(Recent(t) > 0, FALSE)
    [] OTHER -> NOT_MET

\* Variant for the runs' sensitivity: the decisions are counted first.
AnnexA9TotalFirst(id, s, t) ==
  CASE id = "A.9.1" -> Graded(Total(s) > 0 /\ PercentAtLeast(Reasoned(t), Total(s), 70),
                              Total(s) > 0)
    [] id = "A.9.2" -> Evidenced(Overrides(t) > 0)
    [] id = "A.9.3" -> Evidenced(Total(t) >= 10)

AnnexA9(id, s, t) ==
  CASE id = "A.9.1" -> Graded(Total(t) > 0 /\ PercentAtLeast(Reasoned(s), Total(t), 70),
                              Total(t) > 0)
    [] id = "A.9.2" -> Evidenced(Overrides(t) > 0)
    [] id = "A.9.3" -> Evidenced(Total(t) >= 10)

AnnexA10(id, s, t) ==
  CASE id = "A.10.1" -> Evidenced(Total(t) > 0)
    [] id = "A.10.2" -> Evidenced(\E d \in DOMAIN t.own : d.arabic)
    [] id = "A.10.3" -> Graded(Total(t) > 0 /\ PercentAtLeast(Reasoned(s), Total(t), 70),
                               Total(t) > 0)
    [] id = "A.10.4" -> Evidenced(Agents(t) # {})
    [] id = "A.10.5" -> Evidenced(Total(t) > 0 /\ PercentAtLeast(Tracked(s), Total(t), 80))

\* PL.1 to PL.3.
Proof(id, s, t) ==
  CASE id = "PL.1" -> IF s.exceptions = 0 /\ Overrides(t) = 0 THEN NOT_MET
                      ELSE Graded(s.exceptions >= Overrides(t), TRUE)
    [] id = "PL.2" -> Graded(Steps(s) > 0 /\ Steps(s) >= Total(t), Steps(s) > 0)
    [] id = "PL.3" -> Evidenced(Total(t) > 0 /\ Personal(s) > 0)

\* PL.4 and PL.5.
Governance(id, s, t) ==
  CASE id = "PL.4" ->
         Graded(/\ Grouped(s) # {}
                /\ Cardinality(Grouped(s)) >= Cardinality(Agents(t)), Grouped(s) # {})
    [] id = "PL.5" -> Graded(t.cross >= 5, t.cross > 0)

-------------------------------------------------------------------------------
(* The catalogue and the score.                                              *)

\* The requirements in the order of the report, with the part of the catalogue
\* they are in; the clauses are the core of the standard.
Requirements ==
  LET R(part, id, weight) == [part |-> part, id |-> id, weight |-> weight]
      C(part, id) == R(part, id, CRITICAL)
      M(part, id) == R(part, id, MAJOR)
      m(part, id) == R(part, id, MINOR)
  IN << C("4", "4.1"), C("4", "4.2"), C("4", "4.3"), C("4", "4.4"),
        C("5", "5.1"), C("5", "5.2"), M("5", "5.3"),
        C("6", "6.1.1"), C("6", "6.1.2"), M("6", "6.1.3"), M("6", "6.1.4"), M("6", "6.2"),
        M("7", "7.1"), M("7", "7.2"), m("7", "7.3"), m("7", "7.4"), M("7", "7.5.1"),
        m("7", "7.5.2"),
        C("8", "8.1"), C("8", "8.2"), M("8", "8.3"), C("8", "8.4"), M("8", "8.5"), M("8", "8.6"),
        C("9", "9.1"), M("9", "9.2"), M("9", "9.3"),
        M("10", "10.1"), M("10", "10.2"), m("10", "10.3"),
        C("A2", "A.2.1"), M("A2", "A.2.2"), M("A2", "A.2.3"), M("A2", "A.2.4"),
        M("A3", "A.3.1"), C("A3", "A.3.2"), M("A3", "A.3.3"),
        M("A4", "A.4.1"), M("A4", "A.4.2"), m("A4", "A.4.3"),
        C("A5", "A.5.1"), C("A5", "A.5.2"), M("A5", "A.5.3"), M("A5", "A.5.4"),
        M("A6", "A.6.1"), M("A6", "A.6.2"), M("A6", "A.6.3"), C("A6", "A.6.4"),
        M("A7", "A.7.1"), C("A7", "A.7.2"), m("A7", "A.7.3"), M("A7", "A.7.4"), M("A7", "A.7.5"),
        M("A8", "A.8.1"), M("A8", "A.8.2"), C("A8", "A.8.3"), M("A8", "A.8.4"),
        C("A9", "A.9.1"), M("A9", "A.9.2"), M("A9", "A.9.3"),
        C("A10", "A.10.1"), C("A10", "A.10.2"), C("A10", "A.10.3"), C("A10", "A.10.4"),
        C("A10", "A.10.5"),
        C("PL", "PL.1"), M("PL", "PL.2"), C("PL", "PL.3"), M("governance", "PL.4"),
        M("governance", "PL.5") >>

check_fn(r, s, t) ==
  CASE r.part = "4" -> Clause4(r.id, s, t)
    [] r.part = "5" -> Clause5(r.id, s, t)
    [] r.part = "6" -> Clause6(r.id, s, t)
    [] r.part = "7" -> Clause7(r.id, s, t)
    [] r.part = "8" -> Clause8(r.id, s, t)
    [] r.part = "9" -> Clause9(r.id, s, t)
    [] r.part = "10" -> Clause10(r.id, s, t)
    [] r.part = "A2" -> AnnexA2(r.id, s, t)
    [] r.part = "A3" -> AnnexA3(r.id, s, t)
    [] r.part = "A4" -> AnnexA4(r.id, s, t)
    [] r.part = "A5" -> AnnexA5(r.id, s, t)
    [] r.part = "A6" -> AnnexA6(r.id, s, t)
    [] r.part = "A7" -> AnnexA7(r.id, s, t)
    [] r.part = "A8" -> AnnexA8(r.id, s, t)
    [] r.part = "A9" -> AnnexA9(r.id, s, t)
    [] r.part = "A10" -> AnnexA10(r.id, s, t)
    [] r.part = "PL" -> Proof(r.id, s, t)
    [] r.part = "governance" -> Governance(r.id, s, t)

\* The checks whose first query may see less than their last one.
TwoQueries == {"4.4", "5.1", "6.1.4", "8.2", "8.3", "8.5", "10.3", "A.8.3", "A.9.1", "A.10.3",
               "A.10.5", "PL.1", "PL.2", "PL.3", "PL.4"}

\* The weighted sums of the report: requirement after requirement.
SumUp(amount) ==
  LET upTo[i \in 0..Len(Requirements)] == IF i = 0 THEN 0 ELSE upTo[i - 1] + amount[i]
  IN upTo[Len(Requirements)]

Weights == [i \in DOMAIN Requirements |-> Requirements[i].weight]

\* Variant for the runs' sensitivity: a partial requirement counts in full.
score_pctLenient(results) ==
  LET worth == SumUp(Weights)
      earned == SumUp([i \in DOMAIN Requirements |->
                         IF results[i] = NOT_MET THEN 0 ELSE 2 * Weights[i]])
  IN (1000 * earned + worth) \div (2 * worth)

\* overall_score_pct in tenths of a percent: a partial requirement counts half.
score_pct(results) ==
  LET worth == SumUp(Weights)
      earned == SumUp([i \in DOMAIN Requirements |->
                         IF results[i] = MET THEN 2 * Weights[i]
                         ELSE IF results[i] = PARTIAL THEN Weights[i] ELSE 0])
  IN (1000 * earned + worth) \div (2 * worth)

Grade(tenths) == IF tenths >= 900 THEN "A" ELSE IF tenths >= 750 THEN "B"
                 ELSE IF tenths >= 600 THEN "C" ELSE IF tenths >= 400 THEN "D" ELSE "F"

-------------------------------------------------------------------------------

NoReport == [at |-> "idle"]

Init ==
  /\ \E s \in Seeds : decisions = s.decisions /\ narrated = s.narrated /\ crossed = s.crossed
  /\ stepped = [a \in Names |-> 0]
  /\ today = Today
  /\ report = NoReport
  /\ events = 0

Event == events < MaxEvents /\ events' = events + 1

\* One transaction: the decision with its snapshot, policy edges and steps.
record_decision(t) ==
  /\ Event
  /\ decisions' = decisions (+) SetToBag({[t EXCEPT !.day = today]})
  /\ UNCHANGED <<narrated, stepped, crossed, today, report>>

\* An exception is about a decision, overridden or not; several may be about one.
record_exception(a) ==
  /\ Event
  /\ \E d \in DOMAIN decisions : d.agent = a
  /\ narrated' = [narrated EXCEPT ![a] = @ + 1]
  /\ UNCHANGED <<decisions, stepped, crossed, today, report>>

add_trace_step(a) ==
  /\ Event
  /\ \E d \in DOMAIN decisions : d.agent = a
  /\ stepped' = [stepped EXCEPT ![a] = @ + 1]
  /\ UNCHANGED <<decisions, narrated, crossed, today, report>>

record_cross_agent_edge ==
  /\ Event
  /\ decisions # EmptyBag
  /\ crossed' = crossed + 1
  /\ UNCHANGED <<decisions, narrated, stepped, today, report>>

Pass(days) ==
  /\ Event
  /\ today' = today + days
  /\ UNCHANGED <<decisions, narrated, stepped, crossed, report>>

\* A report, summary or checklist is asked for, of one agent or of all.
generate_report(scope) ==
  /\ report.at = "idle"
  /\ report' = [at |-> "checking", scope |-> scope, results |-> <<>>, first |-> <<>>]
  /\ UNCHANGED <<evidence, events>>

Checking == report.at = "checking"
Current == Requirements[Len(report.results) + 1]

\* The report goes on to the next check, or is complete.
Result(status) ==
  report' = [report EXCEPT !.results = Append(@, status), !.first = <<>>,
                           !.at = IF Len(report.results) + 1 = Len(Requirements)
                                  THEN "complete" ELSE @]

FirstQuery ==
  /\ Checking /\ Current.id \in TwoQueries /\ report.first = <<>>
  /\ report' = [report EXCEPT !.first = <<Seen(report.scope)>>]
  /\ UNCHANGED <<evidence, events>>

LastQuery ==
  /\ Checking /\ (Current.id \in TwoQueries => report.first # <<>>)
  /\ LET seen == Seen(report.scope)
     IN Result(check_fn(Current, IF report.first = <<>> THEN seen ELSE report.first[1], seen))
  /\ UNCHANGED <<evidence, events>>

\* A query that fails makes its requirement NOT_MET, and the report goes on.
QueryFails ==
  /\ Checking
  /\ Event
  /\ Result(NOT_MET)
  /\ UNCHANGED evidence

Next ==
  \/ \E t \in Templates : record_decision(t)
  \/ \E a \in Names : record_exception(a)
  \/ \E a \in Names : add_trace_step(a)
  \/ record_cross_agent_edge
  \/ \E days \in Leaps : Pass(days)
  \/ \E scope \in Names \union {Everyone} : generate_report(scope)
  \/ FirstQuery
  \/ LastQuery
  \/ QueryFails

Spec == Init /\ [][Next]_vars

-------------------------------------------------------------------------------
(* Properties.                                                               *)

\* A requirement is reported MET only if the graph its last query sees meets it, although
\* its first query saw an earlier graph: counts of a part are read before the count of the
\* whole.  8.5 reads the whole first and 10.3 an unwanted part: their MET may hold of no
\* graph there ever was (compliance.py:535-559, 659-682).
MetHolds ==
  [][Checking /\ report'.results # report.results
       /\ report'.results[Len(report'.results)] = MET
       /\ Current.id \notin {"8.5", "10.3"} =>
         check_fn(Current, Seen(report.scope), Seen(report.scope)) = MET]_vars

\* The status of an agent's requirements is decided by its own decisions, exceptions and
\* steps: what other agents record changes only 4.4, 6.1.3 and PL.5, whose edges are
\* counted for all (compliance.py:92-96, 705-714).
OthersChangeNothing ==
  [][evidence' # evidence => \A a \in Names :
       Of(decisions', a) = Of(decisions, a) /\ narrated'[a] = narrated[a]
         /\ stepped'[a] = stepped[a] /\ today' = today =>
           \A i \in DOMAIN Requirements :
             Requirements[i].id \notin {"4.4", "6.1.3", "PL.5"} =>
               LET own == Seen(a)
                   later == Seen(a)'
               IN check_fn(Requirements[i], later, later) = check_fn(Requirements[i], own, own)
    ]_vars

\* However much is recorded, no report is graded above D: 23 requirements are never met
\* as they are documented outside the graph, 29 are at best met in part, which counts
\* half, and the rest does not make up for them (compliance.py:1519, 1684-1693).
NoReportAboveD ==
  report.at = "complete" => Grade(score_pct(report.results)) \in {"D", "F"}
==============================================================================
