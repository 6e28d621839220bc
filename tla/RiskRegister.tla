---------------------------- MODULE RiskRegister ----------------------------
(***************************************************************************)
(* The five-stage risk cycle, in its two implementations: the prototype on *)
(* SQLite (P145/prooflayer-rmf), where every storage call is a connection  *)
(* and a commit of its own, and its port to Postgres (app/rmf_api.py),     *)
(* where an assessment or a treatment and the new status of the risk are   *)
(* one transaction.  The variable store says which of the two runs.        *)
(*                                                                         *)
(* The register of one agent is modelled: no statement reads the rows of   *)
(* two agents but the fleet matrix, which groups by risk.                  *)
(***************************************************************************)
EXTENDS Naturals, FiniteSets

CONSTANTS Risks,      \* the risks that may be identified
          Calls,      \* requests that may be under way at once
          Likelihoods, Impacts,  \* those that are sent, of 1..4
          Strategies, \* the treatment strategies that are sent
          MaxRequests \* bound on the requests of the stages 1, 3, 4 and 5

ASSUME AxisAssumption == Likelihoods \subseteq 1..4 /\ Impacts \subseteq 1..4
ASSUME BoundAssumption == MaxRequests \in Nat

VARIABLES
  store,         \* "postgres" or "sqlite"
  status,        \* rmf_risks.status, "none" while there is no such row
  assessments,   \* rmf_assessments
  treatments,    \* rmf_treatments
  scoped,        \* the agent has a row in rmf_contexts
  reviewed,      \* the agent has a row in rmf_reviews
  call,          \* what each request is doing
  report,        \* the five-stage report being read
  now,           \* the clock the transactions read when they start
  torn           \* history: risks with overlapping or killed SQLite calls

tables == <<status, assessments, treatments, scoped, reviewed>>
vars == <<store, tables, call, report, now, torn>>

TREATMENT_STRATEGIES == {"avoid", "mitigate", "transfer", "accept"}
ASSUME StrategyAssumption == Strategies \subseteq TREATMENT_STRATEGIES

Kinds == {"assessed", "treated", "accepted"}

BANDS == [low |-> 1..2, medium |-> 3..6, high |-> 8..12, catastrophic |-> {16}]

band_for(level) == CHOOSE b \in DOMAIN BANDS : level \in BANDS[b]

\* assess(): the risk level of the 4x4 matrix and its band.
assess(likelihood, impact) ==
  [risk_level |-> likelihood * impact, band |-> band_for(likelihood * impact)]

\* A row carries the order in which rows appeared (id: the rowid of SQLite; in
\* Postgres the order of the commits, which no statement can see) and its
\* created_at: in Postgres NOW(), the start of the transaction.
Rows == assessments \union treatments
NextId == Cardinality(Rows) + 1

KindOf(row) == IF "band" \in DOMAIN row THEN "assessed"
               ELSE IF row.strategy = "accept" THEN "accepted" ELSE "treated"

RowsOf(r) == {row \in Rows : row.risk = r}

Idle == [at |-> "idle"]
Active(c) == call[c].at # "idle"
Busy(r) == \E c \in Calls : Active(c) /\ call[c].risk = r

-------------------------------------------------------------------------------
(* What the endpoints read.                                                  *)

\* The assessment a risk is shown with: ORDER BY created_at in Postgres, where
\* created_at is when the transaction started; by rowid in SQLite.
latest_assessment(r) ==
  LET mine == {a \in assessments : a.risk = r}
      older(a, b) == IF store = "postgres" THEN a.created_at < b.created_at
                                           ELSE a.id < b.id
  IN CHOOSE a \in mine : \A b \in mine \ {a} : older(b, a)

\* Variant for the runs' sensitivity: the matrix goes by the order of the rows.
get_matrixByRow ==
  LET newest(a) == ~ \E b \in assessments : b.risk = a.risk /\ b.id > a.id
  IN [b \in DOMAIN BANDS |-> Cardinality({a \in assessments : newest(a) /\ a.band = b})]

\* The fleet matrix: the newest assessment of every risk, counted by band.
get_matrix ==
  LET newest(a) == ~ \E b \in assessments :
                        /\ b.risk = a.risk
                        /\ IF store = "postgres" THEN b.created_at > a.created_at
                                                 ELSE b.id > a.id
  IN [b \in DOMAIN BANDS |-> Cardinality({a \in assessments : newest(a) /\ a.band = b})]

-------------------------------------------------------------------------------

Unread == [at |-> "unread"]

Init ==
  /\ store \in {"postgres", "sqlite"}
  /\ status = [r \in Risks |-> "none"]
  /\ assessments = {}
  /\ treatments = {}
  /\ scoped = FALSE
  /\ reviewed = FALSE
  /\ call = [c \in Calls |-> Idle]
  /\ report = Unread
  /\ now = 0
  /\ torn = {}

\* Stage 1: the context of an agent is inserted or overwritten.
post_context ==
  /\ now < MaxRequests
  /\ now' = now + 1
  /\ scoped' = TRUE
  /\ UNCHANGED <<store, status, assessments, treatments, reviewed, call, report, torn>>

\* Variant for the runs' sensitivity: identifying a known risk opens it again.
post_riskAgain(r) ==
  /\ status' = [status EXCEPT ![r] = "open"]
  /\ UNCHANGED <<store, assessments, treatments, scoped, reviewed, call, report, now, torn>>

\* Stage 2: a new risk is open.
post_risk(r) ==
  /\ status[r] = "none"
  /\ status' = [status EXCEPT ![r] = "open"]
  /\ UNCHANGED <<store, assessments, treatments, scoped, reviewed, call, report, now, torn>>

\* Stage 5: reviews are appended.
post_review ==
  /\ now < MaxRequests
  /\ now' = now + 1
  /\ reviewed' = TRUE
  /\ UNCHANGED <<store, status, assessments, treatments, scoped, call, report, torn>>

\* A request of stage 3 or 4 begins: in Postgres its transaction starts with the
\* lookup of the risk (404 when there is none); in SQLite assess_risk looks it up
\* on a connection of its own and treat_risk leaves it to the foreign key.
Start(c, r, row) ==
  /\ ~Active(c)
  /\ status[r] # "none"
  /\ now < MaxRequests
  /\ call' = [call EXCEPT ![c] = [at |-> "begun", risk |-> r, row |-> row]]
  /\ now' = now + 1
  /\ torn' = IF store = "sqlite" /\ Busy(r) THEN torn \union {r} ELSE torn
  /\ UNCHANGED <<store, tables, report>>

\* Stage 3.
post_assess(c, r, l, i) ==
  Start(c, r, [risk |-> r, created_at |-> now,
               risk_level |-> assess(l, i).risk_level, band |-> assess(l, i).band])

\* Stage 4.
post_treat(c, r, s) == Start(c, r, [risk |-> r, created_at |-> now, strategy |-> s])

\* The row of a request, with the id its insert gives it.
Stamped(c) ==
  LET row == call[c].row
  IN [f \in DOMAIN row \union {"id"} |-> IF f = "id" THEN NextId ELSE row[f]]

Insert(row) ==
  IF KindOf(row) = "assessed"
  THEN assessments' = assessments \union {row} /\ UNCHANGED treatments
  ELSE treatments' = treatments \union {row} /\ UNCHANGED assessments

\* Variants for the runs' sensitivity: a failing insert is ignored; a decided
\* treatment is not overwritten by a later assessment.
CommitStatusOnly(c) ==
  /\ store = "postgres" /\ call[c].at = "begun"
  /\ status' = [status EXCEPT ![call[c].risk] = KindOf(Stamped(c))]
  /\ call' = [call EXCEPT ![c] = Idle]
  /\ UNCHANGED <<store, assessments, treatments, scoped, reviewed, report, now, torn>>

CommitKeepingTreated(c) ==
  /\ store = "postgres" /\ call[c].at = "begun"
  /\ Insert(Stamped(c))
  /\ status' = [status EXCEPT ![call[c].risk] =
                  IF @ \in {"treated", "accepted"} THEN @ ELSE KindOf(Stamped(c))]
  /\ call' = [call EXCEPT ![c] = Idle]
  /\ UNCHANGED <<store, scoped, reviewed, report, now, torn>>

\* Postgres: the row and the status become visible together.
Commit(c) ==
  /\ store = "postgres" /\ call[c].at = "begun"
  /\ Insert(Stamped(c))
  /\ status' = [status EXCEPT ![call[c].risk] = KindOf(Stamped(c))]
  /\ call' = [call EXCEPT ![c] = Idle]
  /\ UNCHANGED <<store, scoped, reviewed, report, now, torn>>

\* SQLite: first the row ...
insert_row(c) ==
  /\ store = "sqlite" /\ call[c].at = "begun"
  /\ Insert(Stamped(c))
  /\ call' = [call EXCEPT ![c] = [at |-> "inserted", risk |-> call[c].risk,
                                  kind |-> KindOf(Stamped(c))]]
  /\ UNCHANGED <<store, status, scoped, reviewed, report, now, torn>>

\* ... then, on another connection, the status.
update_risk_status(c) ==
  /\ call[c].at = "inserted"
  /\ status' = [status EXCEPT ![call[c].risk] = call[c].kind]
  /\ call' = [call EXCEPT ![c] = Idle]
  /\ UNCHANGED <<store, assessments, treatments, scoped, reviewed, report, now, torn>>

\* A report first lists the risks with their status (in SQLite the context is read
\* before that, here together with them) ...
list_risks ==
  /\ report.at \in {"unread", "done"}
  /\ report' = [at |-> "listed", status |-> status, scoped |-> scoped]
  /\ UNCHANGED <<store, tables, call, now, torn>>

\* ... then fetches what each of them is shown with, in statements of their own
\* (one step here: no row is ever removed, so a later statement shows more) ...
show_risks ==
  /\ report.at = "listed"
  /\ report' = [at |-> "shown", status |-> report.status, scoped |-> report.scoped,
                assessed |-> {r \in Risks : \E a \in assessments : a.risk = r},
                treated |-> {r \in Risks : \E t \in treatments : t.risk = r}]
  /\ UNCHANGED <<store, tables, call, now, torn>>

\* ... and last the reviews, in Postgres with the context, and tells the stages evidenced.
get_report ==
  /\ report.at = "shown"
  /\ LET listed == {r \in Risks : report.status[r] # "none"}
     IN report' = [at |-> "done",
                   stages |-> {n \in 1..5 : \/ n = 1 /\ IF store = "sqlite"
                                                        THEN report.scoped ELSE scoped
                                            \/ n = 2 /\ listed # {}
                                            \/ n = 3 /\ report.assessed \intersect listed # {}
                                            \/ n = 4 /\ report.treated \intersect listed # {}
                                            \/ n = 5 /\ reviewed}]
  /\ UNCHANGED <<store, tables, call, now, torn>>

\* The server process dies: requests are gone, what was committed stays.
Crash ==
  /\ \E c \in Calls : Active(c)
  /\ call' = [c \in Calls |-> Idle]
  /\ report' = Unread
  /\ torn' = torn \union {call[c].risk : c \in {d \in Calls : call[d].at = "inserted"}}
  /\ UNCHANGED <<store, tables, now>>

Next ==
  \/ post_context
  \/ post_review
  \/ \E r \in Risks : post_risk(r)
  \/ \E c \in Calls, r \in Risks, l \in Likelihoods, i \in Impacts : post_assess(c, r, l, i)
  \/ \E c \in Calls, r \in Risks, s \in Strategies : post_treat(c, r, s)
  \/ \E c \in Calls : Commit(c)
  \/ \E c \in Calls : insert_row(c)
  \/ \E c \in Calls : update_risk_status(c)
  \/ list_risks
  \/ show_risks
  \/ get_report
  \/ Crash

Spec == Init /\ [][Next]_vars

-------------------------------------------------------------------------------
(* Properties.                                                               *)

\* A report that shows a risk as assessed shows an assessment of it, one that
\* shows it as treated or accepted a treatment, whatever was committed while the
\* report was read (rmf_api get_risks: the statuses are read first, the rows after).
ReportBacksItsStatus ==
  report.at = "shown" =>
    \A r \in Risks :
      /\ report.status[r] = "assessed" => r \in report.assessed
      /\ report.status[r] \in {"treated", "accepted"} => r \in report.treated

\* Outside a request, the status of a risk is that of the row committed last: always
\* with Postgres (UPDATE in the insert's transaction), with SQLite unless two
\* requests for the risk overlapped or the process died between its two commits.
StatusIsTheLastWrite ==
  \A r \in Risks \ torn :
    (RowsOf(r) # {} /\ ~Busy(r)) =>
      \E row \in RowsOf(r) : /\ \A other \in RowsOf(r) : other.id <= row.id
                             /\ status[r] = KindOf(row)

\* The fleet matrix counts every assessed risk once, under the band the register
\* shows it with, in whatever order overlapping assessments began and committed.
MatrixFitsRegister ==
  \A b \in DOMAIN BANDS :
    get_matrix[b] = Cardinality({r \in Risks : /\ \E a \in assessments : a.risk = r
                                               /\ latest_assessment(r).band = b})

\* Both storages implement RiskLifecycle: records only accumulate, and the status
\* shown is "open" or names a record, at every moment, after every crash.
Lifecycle == INSTANCE RiskLifecycle WITH
               shown <- status,
               recorded <- [r \in Risks |-> {KindOf(row) : row \in RowsOf(r)}]
KeepsLifecycle == Lifecycle!Spec
==============================================================================
