------------------------- MODULE RiskRegisterProofs -------------------------
(***************************************************************************)
(* What TLAPS proves of RiskRegister, for any risks, calls and bounds and  *)
(* for both storages: it implements RiskLifecycle, a report backs the      *)
(* statuses it shows, the status of a risk is that of its last row, and    *)
(* the fleet matrix counts what the register shows.                        *)
(***************************************************************************)
EXTENDS RiskRegister, FiniteSetTheorems, TLAPS

Recorded(r) == {KindOf(row) : row \in RowsOf(r)}

-----------------------------------------------------------------------------
(* The invariant: what a request in hand, a status and a list of risks in  *)
(* hand refer to has been recorded.                                        *)

CallOK(c) ==
  /\ call[c].at \in {"idle", "begun", "inserted"}
  /\ Active(c) => call[c].risk \in Risks /\ status[call[c].risk] # "none"
  /\ call[c].at = "begun" =>
       /\ "risk" \in DOMAIN call[c].row /\ "id" \notin DOMAIN call[c].row
       /\ call[c].row.risk = call[c].risk
  /\ call[c].at = "inserted" => call[c].kind \in Recorded(call[c].risk)

Backed(shown) == \A r \in Risks : shown[r] \in {"none", "open"} \cup Recorded(r)

(* The two tables hold what their names say. *)
RowsSorted ==
  /\ \A a \in assessments : KindOf(a) = "assessed"
  /\ \A t \in treatments : KindOf(t) # "assessed"

ReportOK ==
  /\ report.at = "listed" => Backed(report.status)
  /\ ReportBacksItsStatus

RegisterInv ==
  /\ DOMAIN status = Risks /\ DOMAIN call = Calls
  /\ \A c \in Calls : CallOK(c)
  /\ Backed(status)
  /\ RowsSorted
  /\ ReportOK

(* Every row is of one of three kinds (post_assess, post_treat). *)
LEMMA KindsOfRows == \A row : KindOf(row) \in Kinds
  BY DEF KindOf, Kinds

(* A stored row has the risk of its request and the id of its insert. *)
LEMMA StampedRow ==
  ASSUME NEW c \in Calls, "risk" \in DOMAIN call[c].row,
         "id" \notin DOMAIN call[c].row
  PROVE  Stamped(c).risk = call[c].row.risk /\ Stamped(c).id = NextId
  BY DEF Stamped

(* An insert adds its row, to the table of its kind. *)
LEMMA InsertAdds ==
  ASSUME NEW row, Insert(row)
  PROVE  /\ Rows' = Rows \cup {row}
         /\ RowsSorted => RowsSorted'
  BY DEF Insert, Rows, RowsSorted

LEMMA RecordedGrows ==
  ASSUME NEW row, Insert(row), NEW r
  PROVE  /\ Recorded(r)' = IF row.risk = r THEN Recorded(r) \cup {KindOf(row)}
                           ELSE Recorded(r)
         /\ RowsOf(r)' = IF row.risk = r THEN RowsOf(r) \cup {row} ELSE RowsOf(r)
<1>1. Rows' = Rows \cup {row}
  BY InsertAdds
<1>2. RowsOf(r)' = IF row.risk = r THEN RowsOf(r) \cup {row} ELSE RowsOf(r)
  BY <1>1 DEF RowsOf
<1>3. Recorded(r)' = IF row.risk = r THEN Recorded(r) \cup {KindOf(row)}
                     ELSE Recorded(r)
  BY <1>2 DEF Recorded
<1>4. QED  BY <1>2, <1>3

LEMMA RecordedStands ==
  ASSUME UNCHANGED <<assessments, treatments>>, NEW r
  PROVE  Recorded(r)' = Recorded(r) /\ RowsOf(r)' = RowsOf(r) /\ Rows' = Rows
  BY DEF Recorded, RowsOf, Rows

-----------------------------------------------------------------------------
(* RegisterInv is inductive. *)

LEMMA InitRegister == Init => RegisterInv
  BY DEF Init, RegisterInv, CallOK, Active, Idle, Backed, RowsSorted, ReportOK,
         ReportBacksItsStatus, Unread

(* An action that leaves the tables and the requests alone. *)
LEMMA RegisterKept ==
  ASSUME RegisterInv, UNCHANGED <<assessments, treatments, call>>,
         \/ UNCHANGED status
         \/ \E r \in Risks :
              status[r] = "none" /\ status' = [status EXCEPT ![r] = "open"]
  PROVE  /\ DOMAIN status' = Risks /\ DOMAIN call' = Calls
         /\ \A c \in Calls : CallOK(c)'
         /\ Backed(status)'
         /\ RowsSorted'
<1>1. \A r \in Risks : Recorded(r)' = Recorded(r)
  BY RecordedStands
<1>2. DOMAIN status' = Risks /\ DOMAIN call' = Calls /\ RowsSorted'
  BY DEF RegisterInv, RowsSorted
<1>3. ASSUME NEW c \in Calls PROVE CallOK(c)'
  <2>1. CallOK(c)
    BY DEF RegisterInv
  <2>2. CASE Active(c)
    <3>1. call[c].risk \in Risks /\ status[call[c].risk] # "none"
      BY <2>1, <2>2 DEF CallOK
    <3>2. status'[call[c].risk] # "none"
      BY <3>1 DEF RegisterInv
    <3>3. QED  BY <1>1, <2>1, <3>1, <3>2 DEF CallOK, Active
  <2>3. CASE ~Active(c)
    BY <2>1, <2>3 DEF CallOK, Active
  <2>4. QED  BY <2>2, <2>3
<1>4. Backed(status)'
  BY <1>1 DEF RegisterInv, Backed
<1>5. QED  BY <1>2, <1>3, <1>4

(* Rows are only added: what a report in hand shows stays true of it. *)
LEMMA ReportKept ==
  ASSUME RegisterInv, UNCHANGED report,
         \A r \in Risks : Recorded(r) \subseteq Recorded(r)'
  PROVE  ReportOK'
  BY DEF RegisterInv, ReportOK, Backed, ReportBacksItsStatus

(* A request begins on a risk that has been identified. *)
LEMMA StartKeeps ==
  ASSUME RegisterInv, NEW c \in Calls, NEW r \in Risks, NEW row,
         "risk" \in DOMAIN row, "id" \notin DOMAIN row, row.risk = r,
         Start(c, r, row)
  PROVE  RegisterInv'
<1>1. UNCHANGED <<status, assessments, treatments, report>>
  BY DEF Start, tables
<1>2. \A q \in Risks : Recorded(q)' = Recorded(q)
  BY <1>1, RecordedStands
<1>3. /\ status[r] # "none" /\ DOMAIN call' = Calls
      /\ call'[c] = [at |-> "begun", risk |-> r, row |-> row]
      /\ \A d \in Calls \ {c} : call'[d] = call[d]
  BY DEF Start, RegisterInv
<1>4. CallOK(c)'
  BY <1>1, <1>3 DEF CallOK
<1>5. ASSUME NEW d \in Calls \ {c} PROVE CallOK(d)'
  BY <1>1, <1>2, <1>3 DEF CallOK, Active, RegisterInv
<1>6. Backed(status)' /\ RowsSorted'
  BY <1>1, <1>2 DEF RegisterInv, Backed, RowsSorted
<1>7. ReportOK'
  BY <1>1, <1>2, ReportKept
<1>8. QED  BY <1>1, <1>3, <1>4, <1>5, <1>6, <1>7 DEF RegisterInv

(* A row of the risk of a request is added; the request is over, and the   *)
(* status is the row's kind, or the status is still to be written.         *)
LEMMA InsertKeeps ==
  ASSUME RegisterInv, NEW c \in Calls, call[c].at = "begun",
         NEW row, call[c].risk = row.risk, Insert(row), UNCHANGED report,
         \/ /\ status' = [status EXCEPT ![row.risk] = KindOf(row)]
            /\ call' = [call EXCEPT ![c] = Idle]
         \/ /\ UNCHANGED status
            /\ call' = [call EXCEPT ![c] = [at |-> "inserted", risk |-> row.risk,
                                            kind |-> KindOf(row)]]
  PROVE  RegisterInv'
<1> DEFINE r == row.risk
           k == KindOf(row)
<1>1. r \in Risks /\ status[r] # "none"
  BY DEF RegisterInv, CallOK, Active
<1>2. /\ \A q \in Risks : Recorded(q) \subseteq Recorded(q)'
      /\ k \in Recorded(r)'
  BY <1>1, RecordedGrows
<1>3. k \in Kinds
  BY KindsOfRows
<1>4. /\ DOMAIN status' = Risks /\ DOMAIN call' = Calls
      /\ \A d \in Calls \ {c} : call'[d] = call[d]
      /\ \A q \in Risks : status'[q] = status[q] \/ (q = r /\ status'[q] = k)
  BY <1>1 DEF RegisterInv
<1>5. CallOK(c)'
  <2>1. CASE call'[c] = Idle
    BY <2>1 DEF CallOK, Active, Idle
  <2>2. CASE /\ call'[c] = [at |-> "inserted", risk |-> r, kind |-> k]
             /\ UNCHANGED status
    BY <2>2, <1>1, <1>2 DEF CallOK, Active
  <2>3. QED  BY <2>1, <2>2 DEF RegisterInv
<1>6. ASSUME NEW d \in Calls \ {c} PROVE CallOK(d)'
  <2>1. CallOK(d) /\ call'[d] = call[d]
    BY <1>4 DEF RegisterInv
  <2>2. Active(d) => status'[call[d].risk] # "none"
    BY <2>1, <1>3, <1>4 DEF CallOK, Kinds
  <2>3. QED  BY <2>1, <2>2, <1>2 DEF CallOK, Active
<1>7. ASSUME NEW q \in Risks PROVE status'[q] \in {"none", "open"} \cup Recorded(q)'
  <2>1. status[q] \in {"none", "open"} \cup Recorded(q)
    BY DEF RegisterInv, Backed
  <2>2. CASE status'[q] = status[q]
    BY <1>2, <2>1, <2>2
  <2>3. CASE q = r /\ status'[q] = k
    BY <1>2, <2>3
  <2>4. QED  BY <1>4, <2>2, <2>3
<1>8. Backed(status)'
  BY <1>7 DEF Backed
<1>9. RowsSorted'
  BY InsertAdds DEF RegisterInv
<1>10. ReportOK'
  BY <1>2, ReportKept
<1>11. QED  BY <1>4, <1>5, <1>6, <1>8, <1>9, <1>10 DEF RegisterInv

(* The status of the inserted row is written: it names a record. *)
LEMMA StatusKeeps ==
  ASSUME RegisterInv, NEW c \in Calls, update_risk_status(c)
  PROVE  RegisterInv'
<1>1. PICK r \in Risks : r = call[c].risk
  BY DEF update_risk_status, RegisterInv, CallOK, Active
<1>2. PICK k : k = call[c].kind
  OBVIOUS
<1>3. /\ \A q \in Risks : Recorded(q)' = Recorded(q)
      /\ k \in Recorded(r) /\ k \in Kinds
  BY <1>1, <1>2, RecordedStands, KindsOfRows
  DEF update_risk_status, RegisterInv, CallOK, Recorded
<1>4. /\ DOMAIN status' = Risks /\ DOMAIN call' = Calls
      /\ call'[c] = Idle
      /\ \A d \in Calls \ {c} : call'[d] = call[d]
      /\ \A q \in Risks : status'[q] = status[q] \/ (q = r /\ status'[q] = k)
  BY <1>1, <1>2 DEF update_risk_status, RegisterInv
<1>5. CallOK(c)'
  BY <1>4 DEF CallOK, Active, Idle
<1>6. ASSUME NEW d \in Calls \ {c} PROVE CallOK(d)'
  <2>1. CallOK(d) /\ call'[d] = call[d]
    BY <1>4 DEF RegisterInv
  <2>2. Active(d) => status'[call[d].risk] # "none"
    BY <2>1, <1>3, <1>4 DEF CallOK, Kinds
  <2>3. QED  BY <2>1, <2>2, <1>3 DEF CallOK, Active
<1>7. Backed(status)'
  BY <1>3, <1>4 DEF RegisterInv, Backed
<1>8. RowsSorted'
  BY DEF update_risk_status, RegisterInv, RowsSorted
<1>9. ReportOK'
  BY <1>3, ReportKept DEF update_risk_status
<1>10. QED  BY <1>4, <1>5, <1>6, <1>7, <1>8, <1>9 DEF RegisterInv

(* The statuses are read first, the rows after: rows are never removed. *)
LEMMA ReadingKeeps ==
  ASSUME RegisterInv, list_risks \/ show_risks \/ get_report
  PROVE  RegisterInv'
<1>1. UNCHANGED <<status, assessments, treatments, call>>
  BY DEF list_risks, show_risks, get_report, tables
<1>2. \A r \in Risks : Recorded(r)' = Recorded(r)
  BY <1>1, RecordedStands
<1>3. ReportOK'
  <2>1. CASE list_risks
    BY <2>1, <1>2 DEF list_risks, RegisterInv, ReportOK, Backed, ReportBacksItsStatus
  <2>2. CASE get_report
    BY <2>2 DEF get_report, ReportOK, ReportBacksItsStatus
  <2>3. CASE show_risks
    <3>1. /\ Backed(report.status)
          /\ report' = [at |-> "shown", status |-> report.status, scoped |-> report.scoped,
                assessed |-> {r \in Risks : \E a \in assessments : a.risk = r},
                treated |-> {r \in Risks : \E t \in treatments : t.risk = r}]
      BY <2>3 DEF show_risks, RegisterInv, ReportOK
    <3>2. ASSUME NEW r \in Risks, report.status[r] \in Kinds
          PROVE  \E row \in Rows : row.risk = r /\ KindOf(row) = report.status[r]
      BY <3>1, <3>2 DEF Backed, Recorded, RowsOf, Kinds
    <3>3. ASSUME NEW r \in Risks, report.status[r] = "assessed"
          PROVE  r \in report'.assessed
      BY <3>1, <3>2, <3>3 DEF Rows, RowsSorted, RegisterInv, Kinds
    <3>4. ASSUME NEW r \in Risks, report.status[r] \in {"treated", "accepted"}
          PROVE  r \in report'.treated
      BY <3>1, <3>2, <3>4 DEF Rows, RowsSorted, RegisterInv, Kinds
    <3>5. QED  BY <3>1, <3>3, <3>4 DEF ReportOK, ReportBacksItsStatus
  <2>4. QED  BY <2>1, <2>2, <2>3
<1>4. QED  BY <1>1, <1>3, RegisterKept DEF RegisterInv

LEMMA CrashKeeps ==
  ASSUME RegisterInv, Crash
  PROVE  RegisterInv'
<1>1. UNCHANGED <<status, assessments, treatments>>
  BY DEF Crash, tables
<1>2. \A r \in Risks : Recorded(r)' = Recorded(r)
  BY <1>1, RecordedStands
<1>3. \A c \in Calls : CallOK(c)'
  BY DEF Crash, CallOK, Active, Idle
<1>4. ReportOK'
  BY DEF Crash, Unread, ReportOK, ReportBacksItsStatus
<1>5. QED  BY <1>1, <1>2, <1>3, <1>4 DEF Crash, RegisterInv, Backed, RowsSorted

(* Commit and insert_row both add the row of a request that has begun. *)
LEMMA AddingKeeps ==
  ASSUME RegisterInv, NEW c \in Calls, Commit(c) \/ insert_row(c)
  PROVE  RegisterInv'
<1>1. PICK row : row = Stamped(c)
  OBVIOUS
<1>2. call[c].at = "begun" /\ row.risk = call[c].risk
  BY <1>1, StampedRow DEF Commit, insert_row, RegisterInv, CallOK
<1>3. QED  BY <1>1, <1>2, InsertKeeps DEF Commit, insert_row

LEMMA StepRegister == RegisterInv /\ [Next]_vars => RegisterInv'
<1> SUFFICES ASSUME RegisterInv, [Next]_vars PROVE RegisterInv'
  OBVIOUS
<1>1. CASE post_context \/ post_review \/ UNCHANGED vars
  <2>1. UNCHANGED <<status, assessments, treatments, call, report>>
    BY <1>1 DEF post_context, post_review, vars, tables
  <2>2. QED  BY <2>1, RegisterKept, ReportKept, RecordedStands DEF RegisterInv
<1>2. ASSUME NEW r \in Risks, post_risk(r) PROVE RegisterInv'
  <2>1. /\ UNCHANGED <<assessments, treatments, call, report>>
        /\ status[r] = "none" /\ status' = [status EXCEPT ![r] = "open"]
    BY <1>2 DEF post_risk
  <2>2. ReportOK'
    BY <2>1, ReportKept, RecordedStands
  <2>3. QED  BY <2>1, <2>2, RegisterKept DEF RegisterInv
<1>3. ASSUME NEW c \in Calls, NEW r \in Risks, NEW l \in Likelihoods,
             NEW i \in Impacts, post_assess(c, r, l, i)
      PROVE  RegisterInv'
  <2>1. PICK t : t = now
    OBVIOUS
  <2> DEFINE row == [risk |-> r, created_at |-> t,
                     risk_level |-> assess(l, i).risk_level,
                     band |-> assess(l, i).band]
  <2>2. "risk" \in DOMAIN row /\ "id" \notin DOMAIN row /\ row.risk = r
    OBVIOUS
  <2>3. Start(c, r, row)
    BY <1>3, <2>1 DEF post_assess
  <2> HIDE DEF row
  <2>4. QED  BY <2>2, <2>3, StartKeeps
<1>4. ASSUME NEW c \in Calls, NEW r \in Risks, NEW s \in Strategies,
             post_treat(c, r, s)
      PROVE  RegisterInv'
  <2>1. PICK t : t = now
    OBVIOUS
  <2> DEFINE row == [risk |-> r, created_at |-> t, strategy |-> s]
  <2>2. "risk" \in DOMAIN row /\ "id" \notin DOMAIN row /\ row.risk = r
    OBVIOUS
  <2>3. Start(c, r, row)
    BY <1>4, <2>1 DEF post_treat
  <2> HIDE DEF row
  <2>4. QED  BY <2>2, <2>3, StartKeeps
<1>5. QED
  BY <1>1, <1>2, <1>3, <1>4, AddingKeeps, StatusKeeps, ReadingKeeps, CrashKeeps
  DEF Next

LEMMA RegisterHolds == Spec => []RegisterInv
  BY InitRegister, StepRegister, PTL DEF Spec

(* A report that shows a status shows the row that backs it, for any        *)
(* number of risks, requests and commits while it is read, in both storages.*)
THEOREM ReportsBacked == Spec => []ReportBacksItsStatus
<1>1. RegisterInv => ReportBacksItsStatus
  BY DEF RegisterInv, ReportOK
<1>2. QED  BY <1>1, RegisterHolds, PTL

-----------------------------------------------------------------------------
(* Refinement of RiskLifecycle. *)

RecordedNow == [r \in Risks |-> {KindOf(row) : row \in RowsOf(r)}]

LEMMA AddingRecords ==
  ASSUME RegisterInv, NEW c \in Calls, Commit(c) \/ insert_row(c)
  PROVE  Lifecycle!Next
<1>1. PICK row : row = Stamped(c)
  OBVIOUS
<1>2. call[c].at = "begun" /\ row.risk = call[c].risk /\ Insert(row)
  BY <1>1, StampedRow DEF Commit, insert_row, RegisterInv, CallOK
<1> DEFINE r == row.risk
           k == KindOf(row)
<1>3. r \in Risks /\ status[r] # "none" /\ k \in Kinds
  BY <1>2, KindsOfRows DEF RegisterInv, CallOK, Active
<1>4. \A q \in Risks : Recorded(q)' = IF q = r THEN Recorded(q) \cup {k} ELSE Recorded(q)
  BY <1>2, RecordedGrows
<1>5. RecordedNow' = [RecordedNow EXCEPT ![r] = @ \cup {k}]
  BY <1>3, <1>4 DEF RecordedNow, Recorded
<1>6. UNCHANGED status \/ status' = [status EXCEPT ![r] = k]
  BY <1>1, <1>2 DEF Commit, insert_row
<1>7. Lifecycle!Record(r, k)
  BY <1>3, <1>5, <1>6 DEF Lifecycle!Record, RecordedNow
<1>8. QED  BY <1>3, <1>7 DEF Lifecycle!Next

LEMMA LifecycleStep ==
  RegisterInv /\ [Next]_vars => [Lifecycle!Next]_(Lifecycle!vars)
<1> SUFFICES ASSUME RegisterInv, [Next]_vars
             PROVE  Lifecycle!Next \/ UNCHANGED Lifecycle!vars
  OBVIOUS
<1>1. ASSUME UNCHANGED <<assessments, treatments>> PROVE RecordedNow' = RecordedNow
  BY <1>1 DEF RecordedNow, RowsOf, Rows
<1>2. ASSUME UNCHANGED <<status, assessments, treatments>>
      PROVE  UNCHANGED Lifecycle!vars
  BY <1>1, <1>2 DEF Lifecycle!vars, RecordedNow
<1>3. ASSUME NEW r \in Risks, post_risk(r) PROVE Lifecycle!Next
  <2>1. RecordedNow' = RecordedNow
    BY <1>1, <1>3 DEF post_risk
  <2>2. Lifecycle!Identify(r)
    BY <1>3, <2>1 DEF post_risk, Lifecycle!Identify, RecordedNow
  <2>3. QED  BY <2>2 DEF Lifecycle!Next
<1>4. ASSUME NEW c \in Calls, update_risk_status(c) PROVE Lifecycle!Next
  <2>1. PICK r, k : r = call[c].risk /\ k = call[c].kind
    OBVIOUS
  <2>2. r \in Risks /\ k \in Recorded(r) /\ k \in Kinds
    BY <1>4, <2>1, KindsOfRows
    DEF update_risk_status, RegisterInv, CallOK, Active, Recorded
  <2>3. k \in RecordedNow[r] /\ RecordedNow' = RecordedNow
    BY <1>1, <1>4, <2>2 DEF update_risk_status, RecordedNow, Recorded
  <2>4. Lifecycle!Show(r, k)
    BY <1>4, <2>1, <2>3 DEF update_risk_status, Lifecycle!Show, RecordedNow
  <2>5. QED  BY <2>2, <2>4 DEF Lifecycle!Next
<1>5. CASE \/ post_context \/ post_review \/ list_risks \/ show_risks
           \/ get_report \/ Crash \/ UNCHANGED vars
  BY <1>2, <1>5 DEF post_context, post_review, list_risks, show_risks,
                    get_report, Crash, vars, tables
<1>6. ASSUME NEW c \in Calls, NEW r \in Risks, NEW l, NEW j, post_assess(c, r, l, j)
      PROVE  UNCHANGED Lifecycle!vars
  BY <1>2, <1>6 DEF post_assess, Start, tables
<1>7. ASSUME NEW c \in Calls, NEW r \in Risks, NEW s, post_treat(c, r, s)
      PROVE  UNCHANGED Lifecycle!vars
  BY <1>2, <1>7 DEF post_treat, Start, tables
<1>8. QED
  BY <1>3, <1>4, <1>5, <1>6, <1>7, AddingRecords DEF Next

(* Both storages implement RiskLifecycle for any number of risks, requests *)
(* and crashes: records only accumulate, and a status is "open" or names   *)
(* one of them.                                                            *)
THEOREM LifecycleKept == Spec => KeepsLifecycle
<1>1. Init => Lifecycle!Init
  BY DEF Init, Lifecycle!Init, RowsOf, Rows
<1>2. QED
  BY <1>1, RegisterHolds, LifecycleStep, PTL DEF Spec, KeepsLifecycle, Lifecycle!Spec

-----------------------------------------------------------------------------
(* The status is the last row's.  Ids are given in the order of the rows;   *)
(* with SQLite the last row of a risk may still be waiting for its status,  *)
(* and then it belongs to the only request for the risk under way.          *)

On(c, r) == Active(c) /\ call[c].risk = r
Waiting(c, r) == On(c, r) /\ call[c].at = "inserted"

LastIs(r, kind) ==
  \E row \in RowsOf(r) : /\ KindOf(row) = kind
                         /\ \A other \in RowsOf(r) : other.id <= row.id

IdsOK == /\ IsFiniteSet(Rows)
         /\ \A row \in Rows : row.id \in Nat /\ row.id <= Cardinality(Rows)

WriteOK(r) ==
  /\ store = "sqlite" => \A c, d \in Calls : On(c, r) /\ On(d, r) => c = d
  /\ RowsOf(r) # {} => \/ LastIs(r, status[r])
                       \/ \E c \in Calls : Waiting(c, r)
  /\ \A c \in Calls : Waiting(c, r) => LastIs(r, call[c].kind)

WriteInv ==
  /\ IdsOK
  /\ \A c \in Calls : call[c].at = "inserted" => store = "sqlite"
  /\ \A r \in Risks \ torn : WriteOK(r)

(* A row that is inserted is the last of its risk. *)
LEMMA InsertLast ==
  ASSUME IdsOK, NEW row, Insert(row), row.id = NextId
  PROVE  IdsOK' /\ LastIs(row.risk, KindOf(row))'
<1>1. Rows' = Rows \cup {row} /\ IsFiniteSet(Rows)
  BY InsertAdds DEF IdsOK
<1>2. Cardinality(Rows) \in Nat
  BY <1>1, FS_CardinalityType
<1>3. row \notin Rows
  BY <1>2 DEF IdsOK, NextId
<1>4. IsFiniteSet(Rows') /\ Cardinality(Rows') = Cardinality(Rows) + 1
  BY <1>1, <1>3, FS_AddElement
<1>5. IdsOK'
  BY <1>1, <1>2, <1>4 DEF IdsOK, NextId
<1>6. RowsOf(row.risk)' = RowsOf(row.risk) \cup {row}
  BY RecordedGrows
<1>7. \A other \in RowsOf(row.risk) : other.id <= row.id
  BY <1>2 DEF IdsOK, NextId, RowsOf
<1>8. LastIs(row.risk, KindOf(row))'
  BY <1>2, <1>6, <1>7 DEF LastIs, NextId
<1>9. QED  BY <1>5, <1>8

LEMMA InitWrite == Init => WriteInv
<1> SUFFICES ASSUME Init PROVE WriteInv
  OBVIOUS
<1>1. Rows = {} /\ \A c \in Calls : ~Active(c) /\ call[c].at = "idle"
  BY DEF Init, Rows, Active, Idle
<1>2. IdsOK
  BY <1>1, FS_EmptySet DEF IdsOK
<1>3. QED  BY <1>1, <1>2 DEF WriteInv, WriteOK, On, Waiting, RowsOf

(* A step that changes neither rows, nor what a risk's requests are, nor    *)
(* its status.                                                              *)
LEMMA WriteKept ==
  ASSUME NEW r, WriteOK(r), RowsOf(r)' = RowsOf(r), UNCHANGED store,
         status'[r] = status[r],
         \A c \in Calls : \/ call'[c] = call[c]
                          \/ ~On(c, r) /\ ~On(c, r)'
  PROVE  WriteOK(r)'
<1>1. \A kind : LastIs(r, kind)' = LastIs(r, kind)
  BY DEF LastIs
<1>2. \A c \in Calls : On(c, r)' = On(c, r) /\ Waiting(c, r)' = Waiting(c, r)
  BY DEF On, Waiting, Active
<1>3. \A c \in Calls : Waiting(c, r) => call'[c] = call[c]
  BY DEF Waiting
<1>4. QED  BY <1>1, <1>2, <1>3 DEF WriteOK

LEMMA StartWrites ==
  ASSUME WriteInv, DOMAIN call = Calls,
         NEW c \in Calls, NEW r \in Risks, NEW row, Start(c, r, row)
  PROVE  WriteInv'
<1>1. UNCHANGED <<store, status, assessments, treatments>>
  BY DEF Start, tables
<1>2. Rows' = Rows /\ \A q : RowsOf(q)' = RowsOf(q)
  BY <1>1, RecordedStands
<1>3. /\ ~Active(c)
      /\ call'[c] = [at |-> "begun", risk |-> r, row |-> row]
      /\ \A d \in Calls \ {c} : call'[d] = call[d]
      /\ torn \subseteq torn'
      /\ store = "sqlite" /\ Busy(r) => r \in torn'
  BY DEF Start
<1>4. IdsOK'
  BY <1>2 DEF WriteInv, IdsOK
<1>5. \A d \in Calls : call'[d].at = "inserted" => store' = "sqlite"
  BY <1>1, <1>3 DEF WriteInv
<1>6. ASSUME NEW q \in Risks \ torn' PROVE WriteOK(q)'
  <2>1. WriteOK(q)
    BY <1>3 DEF WriteInv
  <2>2. CASE q # r
    BY <1>1, <1>2, <1>3, <2>1, <2>2, WriteKept DEF On, Active
  <2>3. CASE q = r
    <3>1. \A d \in Calls : ~Waiting(d, r) /\ ~Waiting(d, r)'
      BY <1>3, <1>6, <2>3 DEF Waiting, On, Active, Busy, WriteInv
    <3>2. store = "sqlite" => \A d \in Calls : On(d, r)' => d = c
      BY <1>3, <1>6, <2>3 DEF On, Active, Busy
    <3>3. RowsOf(r)' # {} => LastIs(r, status[r])'
      BY <1>1, <1>2, <2>1, <2>3, <3>1 DEF WriteOK, LastIs
    <3>4. QED  BY <1>1, <2>3, <3>1, <3>2, <3>3 DEF WriteOK
  <2>4. QED  BY <2>2, <2>3
<1>7. QED  BY <1>4, <1>5, <1>6 DEF WriteInv

(* A row of a request that has begun becomes the last of its risk. *)
LEMMA AddingWrites ==
  ASSUME RegisterInv, WriteInv, NEW c \in Calls, Commit(c) \/ insert_row(c)
  PROVE  WriteInv'
<1>1. PICK row : row = Stamped(c)
  OBVIOUS
<1>2. PICK r : r = row.risk
  OBVIOUS
<1>3. PICK k : k = KindOf(row)
  OBVIOUS
<1>4. call[c].at = "begun" /\ r = call[c].risk /\ row.id = NextId /\ Insert(row)
  BY <1>1, <1>2, StampedRow DEF Commit, insert_row, RegisterInv, CallOK
<1>5. IdsOK' /\ LastIs(r, k)'
  BY <1>2, <1>3, <1>4, InsertLast DEF WriteInv
<1>6. r \in Risks /\ On(c, r)
  BY <1>4 DEF RegisterInv, CallOK, Active, On
<1>7. /\ UNCHANGED <<store, torn>>
      /\ \A d \in Calls \ {c} : call'[d] = call[d]
      /\ \/ /\ store = "postgres" /\ call'[c] = Idle
            /\ status' = [status EXCEPT ![r] = k]
         \/ /\ store = "sqlite" /\ UNCHANGED status
            /\ call'[c] = [at |-> "inserted", risk |-> r, kind |-> k]
  BY <1>1, <1>3, <1>4 DEF Commit, insert_row, RegisterInv
<1>8. \A d \in Calls : call'[d].at = "inserted" => store' = "sqlite"
  BY <1>7 DEF WriteInv, Idle
<1>9. ASSUME NEW q \in Risks \ torn' PROVE WriteOK(q)'
  <2>1. WriteOK(q)
    BY <1>7 DEF WriteInv
  <2>2. CASE q # r
    <3>1. RowsOf(q)' = RowsOf(q)
      BY <1>2, <1>4, <2>2, RecordedGrows
    <3>2. status'[q] = status[q]
      BY <1>7, <2>2 DEF RegisterInv
    <3>3. ~On(c, q) /\ ~On(c, q)'
      BY <1>4, <1>7, <2>2 DEF On, Active, Idle
    <3>4. QED  BY <1>7, <2>1, <3>1, <3>2, <3>3, WriteKept
  <2>3. CASE q = r /\ store = "postgres"
    <3>1. status'[r] = k
      BY <1>6, <1>7, <2>3 DEF RegisterInv
    <3>2. \A d \in Calls : ~Waiting(d, r)'
      BY <1>7, <1>8, <2>3 DEF Waiting
    <3>3. QED  BY <1>5, <1>7, <2>3, <3>1, <3>2 DEF WriteOK
  <2>4. CASE q = r /\ store = "sqlite"
    <3>1. \A d \in Calls : On(d, r)' => d = c
      BY <1>6, <1>7, <2>1, <2>4 DEF WriteOK, On, Active
    <3>2. call'[c] = [at |-> "inserted", risk |-> r, kind |-> k]
      BY <1>7, <2>4
    <3>3. Waiting(c, r)' /\ call'[c].kind = k
      BY <3>2 DEF Waiting, On, Active
    <3>4. \A d \in Calls : Waiting(d, r)' => d = c
      BY <3>1 DEF Waiting
    <3>5. QED  BY <1>5, <2>4, <3>1, <3>3, <3>4 DEF WriteOK
  <2>5. QED  BY <1>7, <2>2, <2>3, <2>4
<1>10. QED  BY <1>5, <1>8, <1>9 DEF WriteInv

(* The status that is written late is that of the last row, unless another *)
(* request came between.                                                   *)
LEMMA StatusWrites ==
  ASSUME RegisterInv, WriteInv, NEW c \in Calls, update_risk_status(c)
  PROVE  WriteInv'
<1>1. PICK r, k : r = call[c].risk /\ k = call[c].kind
  OBVIOUS
<1>2. /\ r \in Risks /\ Waiting(c, r) /\ store = "sqlite"
      /\ UNCHANGED <<store, torn, assessments, treatments>>
      /\ call'[c] = Idle /\ \A d \in Calls \ {c} : call'[d] = call[d]
      /\ status' = [status EXCEPT ![r] = k] /\ DOMAIN status = Risks
  BY <1>1 DEF update_risk_status, RegisterInv, CallOK, Active, Waiting, On, WriteInv
<1>3. Rows' = Rows /\ \A q : RowsOf(q)' = RowsOf(q)
  BY <1>2, RecordedStands
<1>4. IdsOK' /\ \A d \in Calls : call'[d].at = "inserted" => store' = "sqlite"
  BY <1>2, <1>3 DEF WriteInv, IdsOK
<1>5. ASSUME NEW q \in Risks \ torn' PROVE WriteOK(q)'
  <2>1. WriteOK(q)
    BY <1>2 DEF WriteInv
  <2>2. CASE q # r
    BY <1>1, <1>2, <1>3, <2>1, <2>2, WriteKept DEF On, Active, Idle
  <2>3. CASE q = r
    <3>1. \A d \in Calls : ~On(d, r)'
      BY <1>2, <2>1, <2>3 DEF WriteOK, Waiting, On, Active, Idle
    <3>2. LastIs(r, k)
      BY <1>1, <1>2, <2>1, <2>3 DEF WriteOK
    <3>3. LastIs(r, status[r])'
      BY <1>2, <1>3, <3>2 DEF LastIs
    <3>4. QED  BY <2>3, <3>1, <3>3 DEF WriteOK, Waiting
  <2>4. QED  BY <2>2, <2>3
<1>6. QED  BY <1>4, <1>5 DEF WriteInv

(* The process dies: a risk whose last row still waits for its status is torn. *)
LEMMA CrashWrites ==
  ASSUME WriteInv, Crash
  PROVE  WriteInv'
<1>1. /\ UNCHANGED <<store, status, assessments, treatments>>
      /\ \A c \in Calls : call'[c] = Idle
      /\ torn \subseteq torn'
      /\ \A c \in Calls : call[c].at = "inserted" => call[c].risk \in torn'
  BY DEF Crash, tables
<1>2. Rows' = Rows /\ \A q : RowsOf(q)' = RowsOf(q)
  BY <1>1, RecordedStands
<1>3. IdsOK' /\ \A d \in Calls : call'[d].at = "inserted" => store' = "sqlite"
  BY <1>1, <1>2 DEF WriteInv, IdsOK, Idle
<1>4. ASSUME NEW q \in Risks \ torn' PROVE WriteOK(q)'
  <2>1. WriteOK(q) /\ \A c \in Calls : ~Waiting(c, q)
    BY <1>1 DEF WriteInv, Waiting, On
  <2>2. \A c \in Calls : ~On(c, q)'
    BY <1>1 DEF On, Active, Idle
  <2>3. RowsOf(q)' # {} => LastIs(q, status[q])'
    BY <1>1, <1>2, <2>1 DEF WriteOK, LastIs
  <2>4. QED  BY <2>2, <2>3 DEF WriteOK, Waiting
<1>5. QED  BY <1>3, <1>4 DEF WriteInv

(* A risk that is identified has no row yet. *)
LEMMA IdentifyWrites ==
  ASSUME RegisterInv, WriteInv, NEW r \in Risks, post_risk(r)
  PROVE  WriteInv'
<1>1. /\ UNCHANGED <<store, assessments, treatments, call, torn>>
      /\ status[r] = "none"
      /\ \A q \in Risks \ {r} : status'[q] = status[q]
  BY DEF post_risk, RegisterInv
<1>2. Rows' = Rows /\ \A q : RowsOf(q)' = RowsOf(q)
  BY <1>1, RecordedStands
<1>3. IdsOK' /\ \A d \in Calls : call'[d].at = "inserted" => store' = "sqlite"
  BY <1>1, <1>2 DEF WriteInv, IdsOK
<1>4. ASSUME NEW q \in Risks \ torn' PROVE WriteOK(q)'
  <2>1. WriteOK(q)
    BY <1>1 DEF WriteInv
  <2>2. CASE q # r
    BY <1>1, <1>2, <2>1, <2>2, WriteKept
  <2>3. CASE q = r
    <3>1. \A c \in Calls : ~On(c, r)
      BY <1>1 DEF RegisterInv, CallOK, On
    <3>2. ~LastIs(r, status[r])
      BY <1>1, KindsOfRows DEF LastIs, Kinds
    <3>3. RowsOf(r)' = {}
      BY <1>2, <2>1, <2>3, <3>1, <3>2 DEF WriteOK, Waiting
    <3>4. \A c \in Calls : ~On(c, r)'
      BY <1>1, <3>1 DEF On, Active
    <3>5. QED  BY <2>3, <3>3, <3>4 DEF WriteOK, Waiting
  <2>4. QED  BY <2>2, <2>3
<1>5. QED  BY <1>3, <1>4 DEF WriteInv

LEMMA StepWrite == RegisterInv /\ WriteInv /\ [Next]_vars => WriteInv'
<1> SUFFICES ASSUME RegisterInv, WriteInv, [Next]_vars PROVE WriteInv'
  OBVIOUS
<1>1. CASE \/ post_context \/ post_review \/ list_risks \/ show_risks
           \/ get_report \/ UNCHANGED vars
  <2>1. UNCHANGED <<store, status, assessments, treatments, call, torn>>
    BY <1>1 DEF post_context, post_review, list_risks, show_risks, get_report,
                vars, tables
  <2>2. Rows' = Rows /\ \A q : RowsOf(q)' = RowsOf(q)
    BY <2>1, RecordedStands
  <2>3. IdsOK' /\ \A d \in Calls : call'[d].at = "inserted" => store' = "sqlite"
    BY <2>1, <2>2 DEF WriteInv, IdsOK
  <2>4. \A q \in Risks \ torn' : WriteOK(q)'
    BY <2>1, <2>2, WriteKept DEF WriteInv
  <2>5. QED  BY <2>3, <2>4 DEF WriteInv
<1>2. ASSUME NEW c \in Calls, NEW r \in Risks, NEW row, Start(c, r, row)
      PROVE  WriteInv'
  BY <1>2, StartWrites DEF RegisterInv
<1>3. ASSUME NEW c \in Calls, NEW r \in Risks, NEW l \in Likelihoods,
             NEW i \in Impacts, post_assess(c, r, l, i)
      PROVE  WriteInv'
  BY <1>2, <1>3 DEF post_assess
<1>4. ASSUME NEW c \in Calls, NEW r \in Risks, NEW s \in Strategies,
             post_treat(c, r, s)
      PROVE  WriteInv'
  BY <1>2, <1>4 DEF post_treat
<1>5. QED
  BY <1>1, <1>3, <1>4, IdentifyWrites, AddingWrites, StatusWrites, CrashWrites
  DEF Next

(* Outside a request the status of a risk is the kind of its last row, in   *)
(* Postgres always and in SQLite unless its requests overlapped or one of   *)
(* them was cut between its two commits.                                    *)
THEOREM LastWriteShown == Spec => []StatusIsTheLastWrite
<1>1. WriteInv => StatusIsTheLastWrite
  BY DEF WriteInv, WriteOK, LastIs, Waiting, On, Busy, StatusIsTheLastWrite
<1>2. Spec => []WriteInv
  BY InitWrite, StepWrite, RegisterHolds, PTL DEF Spec
<1>3. QED  BY <1>1, <1>2, PTL

-----------------------------------------------------------------------------
(* The fleet matrix.  It picks the newest assessment of a risk by its key, *)
(* the register the one that is newer than all others: they agree because  *)
(* no two assessments have the same key, and every assessed risk has a     *)
(* newest one.                                                             *)

Key(a) == IF store = "postgres" THEN a.created_at ELSE a.id

IsNewest(a, r) ==
  /\ a \in assessments /\ a.risk = r
  /\ \A b \in assessments : b.risk = r => Key(b) <= Key(a)

Begun(c) == call[c].at = "begun"
Stamp(c) == call[c].row.created_at

(* The stamp of a transaction that has begun is its own: none that began    *)
(* before or is under way has it, and none that begins later will.          *)
StampOK(c) ==
  /\ "created_at" \in DOMAIN call[c].row
  /\ Stamp(c) \in Nat /\ Stamp(c) < now
  /\ \A a \in assessments : a.created_at # Stamp(c)
  /\ \A d \in Calls \ {c} : Begun(d) => Stamp(d) # Stamp(c)

KeysInv ==
  /\ now \in Nat
  /\ \A a \in assessments : /\ a.risk \in Risks /\ a.id \in Nat
                            /\ a.created_at \in Nat /\ a.created_at < now
  /\ \A a, b \in assessments : a.created_at = b.created_at \/ a.id = b.id => a = b
  /\ \A c \in Calls : Begun(c) => StampOK(c)
  /\ \A a \in assessments : \E n \in assessments : IsNewest(n, a.risk)

LEMMA InitKeys == Init => KeysInv
  BY DEF Init, KeysInv, Begun, Idle

(* A step that adds no assessment and begins no request. *)
LEMMA KeysKept ==
  ASSUME KeysInv, UNCHANGED <<store, assessments>>, now' \in Nat, now <= now',
         \A c \in Calls : Begun(c)' => Begun(c) /\ call'[c] = call[c]
  PROVE  KeysInv'
<1>1. \A c \in Calls : Begun(c)' => StampOK(c)'
  BY DEF KeysInv, StampOK, Stamp
<1>2. \A n, r : IsNewest(n, r)' <=> IsNewest(n, r)
  BY DEF IsNewest, Key
<1>3. QED  BY <1>1, <1>2 DEF KeysInv

(* A request takes the stamp of its beginning, and the clock goes on. *)
LEMMA KeysStart ==
  ASSUME KeysInv, DOMAIN call = Calls, NEW c \in Calls, NEW r \in Risks, NEW row,
         "created_at" \in DOMAIN row, row.created_at = now, Start(c, r, row)
  PROVE  KeysInv'
<1>1. /\ call'[c] = [at |-> "begun", risk |-> r, row |-> row]
      /\ \A d \in Calls \ {c} : call'[d] = call[d]
      /\ now \in Nat /\ now' = now + 1
      /\ UNCHANGED <<store, assessments>>
  BY DEF Start, tables, KeysInv
<1>2. /\ Stamp(c)' = now /\ Begun(c)' /\ "created_at" \in DOMAIN call'[c].row
      /\ \A d \in Calls \ {c} : Begun(d)' = Begun(d) /\ Stamp(d)' = Stamp(d)
  BY <1>1 DEF Stamp, Begun
<1>3. StampOK(c)'
  BY <1>1, <1>2 DEF StampOK, KeysInv
<1>4. ASSUME NEW d \in Calls \ {c}, Begun(d)' PROVE StampOK(d)'
  <2>1. StampOK(d) /\ call'[d] = call[d] /\ Stamp(d) # now /\ Stamp(d)' = Stamp(d)
    BY <1>1, <1>2, <1>4 DEF KeysInv, StampOK
  <2>2. \A e \in Calls \ {d} : Begun(e)' => Stamp(e)' # Stamp(d)
    BY <1>2, <2>1 DEF StampOK
  <2>3. QED  BY <1>1, <2>1, <2>2 DEF StampOK
<1>5. \A n, q : IsNewest(n, q)' <=> IsNewest(n, q)
  BY <1>1 DEF IsNewest, Key
<1>6. QED  BY <1>1, <1>3, <1>4, <1>5 DEF KeysInv

(* The newest assessment of a risk, when one is added: it, or the one that  *)
(* was the newest before.                                                   *)
LEMMA NewestStands ==
  ASSUME KeysInv, NEW row, assessments' = assessments \cup {row}, UNCHANGED store,
         row.created_at \in Nat, row.id \in Nat, NEW r,
         row.risk = r \/ \E a \in assessments : a.risk = r
  PROVE  \E n : IsNewest(n, r)'
<1>1. /\ \A a : Key(a)' = Key(a)
      /\ Key(row) \in Nat /\ \A a \in assessments : Key(a) \in Nat
  BY DEF Key, KeysInv
<1>2. CASE \E a \in assessments : a.risk = r
  <2>1. PICK n : IsNewest(n, r)
    BY <1>2 DEF KeysInv
  <2>2. CASE row.risk = r /\ Key(row) > Key(n)
    <3>1. \A b \in assessments' : b.risk = r => Key(b) <= Key(row)
      BY <1>1, <2>1, <2>2 DEF IsNewest
    <3>2. QED  BY <1>1, <2>2, <3>1 DEF IsNewest
  <2>3. CASE ~(row.risk = r /\ Key(row) > Key(n))
    <3>1. \A b \in assessments' : b.risk = r => Key(b) <= Key(n)
      BY <1>1, <2>1, <2>3 DEF IsNewest
    <3>2. QED  BY <1>1, <2>1, <3>1 DEF IsNewest
  <2>4. QED  BY <2>2, <2>3
<1>3. CASE row.risk = r /\ ~ \E a \in assessments : a.risk = r
  BY <1>1, <1>3 DEF IsNewest
<1>4. QED  BY <1>2, <1>3

LEMMA StampedTime ==
  ASSUME NEW c \in Calls, "created_at" \in DOMAIN call[c].row
  PROVE  Stamped(c).created_at = Stamp(c)
  BY DEF Stamped, Stamp

(* A row that is added has the stamp of its request and a new id. *)
LEMMA KeysAdded ==
  ASSUME RegisterInv, IdsOK, KeysInv, NEW c \in Calls, Commit(c) \/ insert_row(c)
  PROVE  KeysInv'
<1>1. PICK row : row = Stamped(c)
  OBVIOUS
<1>2. /\ Begun(c) /\ ~Begun(c)' /\ Insert(row) /\ UNCHANGED <<store, now>>
      /\ \A d \in Calls \ {c} : call'[d] = call[d]
  BY <1>1 DEF Commit, insert_row, Begun, RegisterInv, Idle
<1>3. StampOK(c) /\ row.created_at = Stamp(c)
  BY <1>1, <1>2, StampedTime DEF KeysInv, StampOK
<1>4. row.id = NextId /\ row.risk \in Risks
  BY <1>1, <1>2, StampedRow DEF RegisterInv, CallOK, Active, Begun
<1>5. row.id \in Nat /\ \A a \in assessments : a.id # row.id
  <2>1. Cardinality(Rows) \in Nat
    <3>1. IsFiniteSet(Rows)
      BY DEF IdsOK
    <3>2. QED  BY <3>1, FS_CardinalityType
  <2>2. /\ row.id = Cardinality(Rows) + 1
        /\ \A a \in assessments : a.id \in Nat /\ a.id <= Cardinality(Rows)
    BY <1>4 DEF IdsOK, NextId, Rows
  <2>3. QED  BY <2>1, <2>2
<1>6. CASE assessments' = assessments
  <2>1. /\ UNCHANGED <<store, assessments>> /\ now' \in Nat /\ now <= now'
        /\ \A d \in Calls : Begun(d)' => Begun(d) /\ call'[d] = call[d]
    BY <1>2, <1>6 DEF KeysInv, Begun
  <2>2. QED  BY <2>1, KeysKept
<1>7. CASE assessments' = assessments \cup {row}
  <2>1. /\ now' = now /\ row.created_at \in Nat /\ row.created_at < now
        /\ \A a \in assessments : a.created_at # row.created_at
        /\ \A d \in Calls \ {c} : Begun(d) => Stamp(d) # row.created_at
    BY <1>2, <1>3 DEF StampOK
  <2>2. ASSUME NEW d \in Calls, Begun(d)' PROVE StampOK(d)'
    <3>1. d # c /\ call'[d] = call[d] /\ Begun(d)
      BY <1>2, <2>2 DEF Begun
    <3>2. StampOK(d)
      BY <3>1 DEF KeysInv
    <3>3. \A e \in Calls : Begun(e)' => Begun(e) /\ call'[e] = call[e]
      BY <1>2 DEF Begun
    <3>4. QED  BY <1>7, <2>1, <3>1, <3>2, <3>3 DEF StampOK, Stamp
  <2>3. \A a \in assessments' : \E n \in assessments' : IsNewest(n, a.risk)'
    BY <1>2, <1>5, <1>7, <2>1, NewestStands DEF IsNewest
  <2>4. \A a, b \in assessments' : a.created_at = b.created_at \/ a.id = b.id => a = b
    BY <1>5, <1>7, <2>1 DEF KeysInv
  <2>5. \A a \in assessments' : /\ a.risk \in Risks /\ a.id \in Nat
                                /\ a.created_at \in Nat /\ a.created_at < now'
    BY <1>4, <1>5, <1>7, <2>1 DEF KeysInv
  <2>6. QED  BY <2>1, <2>2, <2>3, <2>4, <2>5 DEF KeysInv
<1>8. QED  BY <1>2, <1>6, <1>7 DEF Insert

LEMMA StepKeys == RegisterInv /\ WriteInv /\ KeysInv /\ [Next]_vars => KeysInv'
<1> SUFFICES ASSUME RegisterInv, WriteInv, KeysInv, [Next]_vars PROVE KeysInv'
  OBVIOUS
<1>1. CASE \/ post_context \/ post_review \/ list_risks \/ show_risks \/ get_report
           \/ (\E r \in Risks : post_risk(r)) \/ UNCHANGED vars
  <2>1. /\ UNCHANGED <<store, assessments, call>> /\ now' \in {now, now + 1}
    BY <1>1 DEF post_context, post_review, post_risk, list_risks, show_risks, get_report,
                vars, tables
  <2>2. now' \in Nat /\ now <= now'
    BY <2>1 DEF KeysInv
  <2>3. QED  BY <2>1, <2>2, KeysKept DEF Begun
<1>2. CASE Crash \/ \E c \in Calls : update_risk_status(c)
  <2>1. UNCHANGED <<store, assessments, now>>
    BY <1>2 DEF Crash, update_risk_status, tables
  <2>2. \A c \in Calls : Begun(c)' => Begun(c) /\ call'[c] = call[c]
    BY <1>2 DEF Crash, update_risk_status, Begun, Idle, RegisterInv
  <2>3. now' \in Nat /\ now <= now'
    BY <2>1 DEF KeysInv
  <2>4. QED  BY <2>1, <2>2, <2>3, KeysKept
<1>3. ASSUME NEW c \in Calls, NEW r \in Risks, NEW l \in Likelihoods,
             NEW i \in Impacts, post_assess(c, r, l, i)
      PROVE  KeysInv'
  <2> DEFINE row == [risk |-> r, created_at |-> now,
                     risk_level |-> assess(l, i).risk_level,
                     band |-> assess(l, i).band]
  <2>1. "created_at" \in DOMAIN row /\ row.created_at = now
    OBVIOUS
  <2>2. Start(c, r, row) /\ DOMAIN call = Calls
    BY <1>3 DEF post_assess, RegisterInv
  <2> HIDE DEF row
  <2>3. QED  BY <2>1, <2>2, KeysStart
<1>4. ASSUME NEW c \in Calls, NEW r \in Risks, NEW s \in Strategies, post_treat(c, r, s)
      PROVE  KeysInv'
  <2> DEFINE row == [risk |-> r, created_at |-> now, strategy |-> s]
  <2>1. "created_at" \in DOMAIN row /\ row.created_at = now
    OBVIOUS
  <2>2. Start(c, r, row) /\ DOMAIN call = Calls
    BY <1>4 DEF post_treat, RegisterInv
  <2> HIDE DEF row
  <2>3. QED  BY <2>1, <2>2, KeysStart
<1>5. QED
  BY <1>1, <1>2, <1>3, <1>4, KeysAdded DEF Next, WriteInv

(* The newest assessment by key is the one the register shows. *)
LEMMA LatestIsNewest ==
  ASSUME KeysInv, NEW r, NEW n, IsNewest(n, r)
  PROVE  latest_assessment(r) = n
<1> DEFINE mine == {a \in assessments : a.risk = r}
           after(a, b) == IF store = "postgres" THEN a.created_at < b.created_at
                                                ELSE a.id < b.id
<1>1. \A a \in mine \ {n} : after(a, n)
  BY DEF IsNewest, Key, KeysInv
<1>2. \A m \in mine \ {n} : ~after(n, m)
  BY <1>1 DEF KeysInv, IsNewest
<1>3. n \in mine /\ \A m \in mine : (\A b \in mine \ {m} : after(b, m)) <=> m = n
  BY <1>1, <1>2 DEF IsNewest
<1>4. latest_assessment(r) = CHOOSE m \in mine : \A b \in mine \ {m} : after(b, m)
  BY DEF latest_assessment
<1> HIDE DEF mine, after
<1>5. QED  BY <1>3, <1>4

LEMMA MatrixCounts ==
  ASSUME IdsOK, KeysInv
  PROVE  MatrixFitsRegister
<1> SUFFICES ASSUME NEW b \in DOMAIN BANDS
             PROVE  get_matrix[b] = Cardinality({r \in Risks :
                      /\ \E a \in assessments : a.risk = r
                      /\ latest_assessment(r).band = b})
  BY DEF MatrixFitsRegister
<1> DEFINE S == {a \in assessments : IsNewest(a, a.risk) /\ a.band = b}
           T == {r \in Risks : /\ \E a \in assessments : a.risk = r
                               /\ latest_assessment(r).band = b}
           f == [a \in S |-> a.risk]
<1>1. get_matrix[b] = Cardinality(S)
  <2> DEFINE newest(a) == ~ \E x \in assessments :
                             /\ x.risk = a.risk
                             /\ IF store = "postgres" THEN x.created_at > a.created_at
                                                      ELSE x.id > a.id
  <2>1. get_matrix[b] = Cardinality({a \in assessments : newest(a) /\ a.band = b})
    BY DEF get_matrix
  <2>2. \A a \in assessments : newest(a) <=> IsNewest(a, a.risk)
    BY DEF IsNewest, Key, KeysInv
  <2> HIDE DEF newest
  <2>3. {a \in assessments : newest(a) /\ a.band = b} = S
    BY <2>2
  <2>4. QED  BY <2>1, <2>3
<1>2. IsFiniteSet(S)
  BY FS_Subset DEF IdsOK, Rows
<1>3. \A a \in S : a.risk \in T
  BY LatestIsNewest DEF KeysInv
<1>4. \A a, x \in S : a.risk = x.risk => a = x
  BY LatestIsNewest
<1>5. ASSUME NEW r \in T PROVE \E a \in S : a.risk = r
  <2>1. PICK n : IsNewest(n, r)
    BY <1>5 DEF KeysInv
  <2>2. latest_assessment(r) = n
    BY <2>1, LatestIsNewest
  <2>3. n \in S /\ n.risk = r
    BY <1>5, <2>1, <2>2 DEF IsNewest
  <2>4. QED  BY <2>3
<1> HIDE DEF S, T
<1>6. f \in Bijection(S, T)
  BY <1>3, <1>4, <1>5 DEF Bijection, Injection, Surjection, IsInjective
<1>7. Cardinality(T) = Cardinality(S)
  BY <1>2, <1>6, FS_Bijection DEF ExistsBijection
<1>8. QED  BY <1>1, <1>7 DEF T

(* The fleet matrix agrees with the register, for any number of risks and   *)
(* however assessments overlap: each assessed risk is counted once, under   *)
(* the band of the assessment it is shown with (get_matrix, list_risks).    *)
(* With Postgres this is for a clock that tells transactions apart: now is  *)
(* read once per transaction and then goes on.                              *)
THEOREM MatrixFits == Spec => []MatrixFitsRegister
<1>1. WriteInv /\ KeysInv => MatrixFitsRegister
  BY MatrixCounts DEF WriteInv
<1>2. Spec => [](WriteInv /\ KeysInv)
  BY InitWrite, InitKeys, StepWrite, StepKeys, RegisterHolds, PTL DEF Spec
<1>3. QED  BY <1>1, <1>2, PTL

=============================================================================
