----------------------- MODULE ComplianceReportProofs -----------------------
(***************************************************************************)
(* What holds of the reports of module ComplianceReport, whatever is       *)
(* recorded and whenever.  First the ceiling: what each check can earn at  *)
(* most, and what that comes to; no report is graded above D.  Then what a *)
(* status means: the graph only grows, so that most checks that read it    *)
(* twice do not find more than the later graph holds, and an agent's       *)
(* checks count its own decisions.                                         *)
(***************************************************************************)
EXTENDS ComplianceReport, FiniteSetTheorems, TLAPS

Statuses == {MET, PARTIAL, NOT_MET}

(* The requirements whose check may find them met, and those whose check    *)
(* may find evidence and nothing more.                                      *)
CanBeMet == {"4.4", "6.1.4", "7.5.2", "8.1", "8.5", "9.1", "10.2", "10.3", "A.2.2",
             "A.7.2", "A.8.3", "A.8.4", "A.9.1", "A.10.3", "PL.1", "PL.2", "PL.4", "PL.5"}
CanBePartial == {"4.1", "4.2", "4.3", "5.1", "5.2", "5.3", "6.1.1", "6.1.2", "6.1.3",
                 "6.2", "7.1", "7.5.1", "8.2", "8.3", "10.1", "A.2.1", "A.3.1", "A.4.2",
                 "A.5.2", "A.5.3", "A.6.2", "A.6.4", "A.9.2", "A.9.3", "A.10.1",
                 "A.10.2", "A.10.4", "A.10.5", "PL.3"}

Possible(id, status) ==
  /\ status \in Statuses
  /\ status = MET => id \in CanBeMet
  /\ status = PARTIAL => id \in CanBeMet \cup CanBePartial

-----------------------------------------------------------------------------
(* What the checks of each part of the catalogue can return.               *)

LEMMA Clauses4to6 ==
  ASSUME NEW id, NEW s, NEW t
  PROVE  /\ id \in {"4.1", "4.2", "4.3", "4.4"} => Possible(id, Clause4(id, s, t))
         /\ id \in {"5.1", "5.2", "5.3"} => Possible(id, Clause5(id, s, t))
         /\ id \in {"6.1.1", "6.1.2", "6.1.3", "6.1.4", "6.2"} => Possible(id, Clause6(id, s, t))
<1>1. id \in {"4.1", "4.2", "4.3", "4.4"} => Possible(id, Clause4(id, s, t))
  BY DEF Clause4, Evidenced, Graded, Possible, Statuses, CanBeMet, CanBePartial,
         MET, PARTIAL, NOT_MET
<1>2. id \in {"5.1", "5.2", "5.3"} => Possible(id, Clause5(id, s, t))
  BY DEF Clause5, Evidenced, Graded, Possible, Statuses, CanBeMet, CanBePartial,
         MET, PARTIAL, NOT_MET
<1>3. id \in {"6.1.1", "6.1.2", "6.1.3", "6.1.4", "6.2"} => Possible(id, Clause6(id, s, t))
  BY DEF Clause6, Evidenced, Graded, Possible, Statuses, CanBeMet, CanBePartial,
         MET, PARTIAL, NOT_MET
<1>4. QED  BY <1>1, <1>2, <1>3

LEMMA Clauses7to10 ==
  ASSUME NEW id, NEW s, NEW t
  PROVE  /\ Possible(id, Clause7(id, s, t))
         /\ Possible(id, Clause8(id, s, t))
         /\ Possible(id, Clause9(id, s, t))
         /\ id \in {"10.1", "10.2", "10.3"} => Possible(id, Clause10(id, s, t))
<1>1. Possible(id, Clause7(id, s, t))
  BY DEF Clause7, Evidenced, Graded, Possible, Statuses, CanBeMet, CanBePartial,
         MET, PARTIAL, NOT_MET
<1>2. Possible(id, Clause8(id, s, t))
  BY DEF Clause8, Evidenced, Graded, Possible, Statuses, CanBeMet, CanBePartial,
         MET, PARTIAL, NOT_MET
<1>3. Possible(id, Clause9(id, s, t))
  BY DEF Clause9, Evidenced, Graded, Possible, Statuses, CanBeMet, CanBePartial,
         MET, PARTIAL, NOT_MET
<1>4. id \in {"10.1", "10.2", "10.3"} => Possible(id, Clause10(id, s, t))
  BY DEF Clause10, Evidenced, Graded, Possible, Statuses, CanBeMet, CanBePartial,
         MET, PARTIAL, NOT_MET
<1>5. QED  BY <1>1, <1>2, <1>3, <1>4

LEMMA AnnexA2to8 ==
  ASSUME NEW id, NEW s, NEW t
  PROVE  /\ Possible(id, AnnexA2(id, s, t))
         /\ Possible(id, AnnexA3(id, s, t))
         /\ Possible(id, AnnexA4(id, s, t))
         /\ Possible(id, AnnexA5(id, s, t))
         /\ Possible(id, AnnexA6(id, s, t))
         /\ Possible(id, AnnexA7(id, s, t))
         /\ Possible(id, AnnexA8(id, s, t))
<1>1. Possible(id, AnnexA2(id, s, t))
  BY DEF AnnexA2, Evidenced, Graded, Possible, Statuses, CanBeMet, CanBePartial,
         MET, PARTIAL, NOT_MET
<1>2. Possible(id, AnnexA3(id, s, t))
  BY DEF AnnexA3, Evidenced, Graded, Possible, Statuses, CanBeMet, CanBePartial,
         MET, PARTIAL, NOT_MET
<1>3. Possible(id, AnnexA4(id, s, t))
  BY DEF AnnexA4, Evidenced, Graded, Possible, Statuses, CanBeMet, CanBePartial,
         MET, PARTIAL, NOT_MET
<1>4. Possible(id, AnnexA5(id, s, t))
  BY DEF AnnexA5, Evidenced, Graded, Possible, Statuses, CanBeMet, CanBePartial,
         MET, PARTIAL, NOT_MET
<1>5. Possible(id, AnnexA6(id, s, t))
  BY DEF AnnexA6, Evidenced, Graded, Possible, Statuses, CanBeMet, CanBePartial,
         MET, PARTIAL, NOT_MET
<1>6. Possible(id, AnnexA7(id, s, t))
  BY DEF AnnexA7, Evidenced, Graded, Possible, Statuses, CanBeMet, CanBePartial,
         MET, PARTIAL, NOT_MET
<1>7. Possible(id, AnnexA8(id, s, t))
  BY DEF AnnexA8, Evidenced, Graded, Possible, Statuses, CanBeMet, CanBePartial,
         MET, PARTIAL, NOT_MET
<1>8. QED  BY <1>1, <1>2, <1>3, <1>4, <1>5, <1>6, <1>7

LEMMA AnnexA9toGovernance ==
  ASSUME NEW id, NEW s, NEW t
  PROVE  /\ id \in {"A.9.1", "A.9.2", "A.9.3"} => Possible(id, AnnexA9(id, s, t))
         /\ id \in {"A.10.1", "A.10.2", "A.10.3", "A.10.4", "A.10.5"} =>
              Possible(id, AnnexA10(id, s, t))
         /\ id \in {"PL.1", "PL.2", "PL.3"} => Possible(id, Proof(id, s, t))
         /\ id \in {"PL.4", "PL.5"} => Possible(id, Governance(id, s, t))
<1>1. id \in {"A.9.1", "A.9.2", "A.9.3"} => Possible(id, AnnexA9(id, s, t))
  BY DEF AnnexA9, Evidenced, Graded, Possible, Statuses, CanBeMet, CanBePartial,
         MET, PARTIAL, NOT_MET
<1>2. id \in {"A.10.1", "A.10.2", "A.10.3", "A.10.4", "A.10.5"} => Possible(id, AnnexA10(id, s, t))
  BY DEF AnnexA10, Evidenced, Graded, Possible, Statuses, CanBeMet, CanBePartial,
         MET, PARTIAL, NOT_MET
<1>3. id \in {"PL.1", "PL.2", "PL.3"} => Possible(id, Proof(id, s, t))
  BY DEF Proof, Evidenced, Graded, Possible, Statuses, CanBeMet, CanBePartial,
         MET, PARTIAL, NOT_MET
<1>4. id \in {"PL.4", "PL.5"} => Possible(id, Governance(id, s, t))
  BY DEF Governance, Evidenced, Graded, Possible, Statuses, CanBeMet, CanBePartial,
         MET, PARTIAL, NOT_MET
<1>5. QED  BY <1>1, <1>2, <1>3, <1>4

(* The catalogue has seventy requirements. *)
LEMMA CatalogueSize == Len(Requirements) = 70 /\ DOMAIN Requirements = 1..70
<1>1. Len(Requirements) = 70
  BY DEF Requirements
<1>2. DOMAIN Requirements = 1..70
  BY SMTT(30) DEF Requirements
<1>3. QED  BY <1>1, <1>2

LEMMA Catalogue ==
  /\ \A i \in 1..4 : /\ Requirements[i].part = "4"
                     /\ Requirements[i].id \in {"4.1", "4.2", "4.3", "4.4"}
  /\ \A i \in 5..7 : /\ Requirements[i].part = "5"
                     /\ Requirements[i].id \in {"5.1", "5.2", "5.3"}
  /\ \A i \in 8..12 : /\ Requirements[i].part = "6"
                      /\ Requirements[i].id \in {"6.1.1", "6.1.2", "6.1.3", "6.1.4", "6.2"}
  /\ \A i \in 13..18 : Requirements[i].part = "7"
  /\ \A i \in 19..24 : Requirements[i].part = "8"
  /\ \A i \in 25..27 : Requirements[i].part = "9"
  /\ \A i \in 28..30 : /\ Requirements[i].part = "10"
                       /\ Requirements[i].id \in {"10.1", "10.2", "10.3"}
  /\ \A i \in 31..34 : Requirements[i].part = "A2"
  /\ \A i \in 35..37 : Requirements[i].part = "A3"
  /\ \A i \in 38..40 : Requirements[i].part = "A4"
  /\ \A i \in 41..44 : Requirements[i].part = "A5"
  /\ \A i \in 45..48 : Requirements[i].part = "A6"
  /\ \A i \in 49..53 : Requirements[i].part = "A7"
  /\ \A i \in 54..57 : Requirements[i].part = "A8"
  /\ \A i \in 58..60 : /\ Requirements[i].part = "A9"
                       /\ Requirements[i].id \in {"A.9.1", "A.9.2", "A.9.3"}
  /\ \A i \in 61..65 : /\ Requirements[i].part = "A10"
                       /\ Requirements[i].id \in {"A.10.1", "A.10.2", "A.10.3", "A.10.4",
                                                  "A.10.5"}
  /\ \A i \in 66..68 : /\ Requirements[i].part = "PL"
                       /\ Requirements[i].id \in {"PL.1", "PL.2", "PL.3"}
  /\ \A i \in 69..70 : /\ Requirements[i].part = "governance"
                       /\ Requirements[i].id \in {"PL.4", "PL.5"}
  BY SMTT(30) DEF Requirements

LEMMA ChecksOfParts ==
  ASSUME NEW r, NEW s, NEW t
  PROVE  /\ r.part = "4" => check_fn(r, s, t) = Clause4(r.id, s, t)
         /\ r.part = "5" => check_fn(r, s, t) = Clause5(r.id, s, t)
         /\ r.part = "6" => check_fn(r, s, t) = Clause6(r.id, s, t)
         /\ r.part = "7" => check_fn(r, s, t) = Clause7(r.id, s, t)
         /\ r.part = "8" => check_fn(r, s, t) = Clause8(r.id, s, t)
         /\ r.part = "9" => check_fn(r, s, t) = Clause9(r.id, s, t)
         /\ r.part = "10" => check_fn(r, s, t) = Clause10(r.id, s, t)
         /\ r.part = "A2" => check_fn(r, s, t) = AnnexA2(r.id, s, t)
         /\ r.part = "A3" => check_fn(r, s, t) = AnnexA3(r.id, s, t)
         /\ r.part = "A4" => check_fn(r, s, t) = AnnexA4(r.id, s, t)
         /\ r.part = "A5" => check_fn(r, s, t) = AnnexA5(r.id, s, t)
         /\ r.part = "A6" => check_fn(r, s, t) = AnnexA6(r.id, s, t)
         /\ r.part = "A7" => check_fn(r, s, t) = AnnexA7(r.id, s, t)
         /\ r.part = "A8" => check_fn(r, s, t) = AnnexA8(r.id, s, t)
         /\ r.part = "A9" => check_fn(r, s, t) = AnnexA9(r.id, s, t)
         /\ r.part = "A10" => check_fn(r, s, t) = AnnexA10(r.id, s, t)
         /\ r.part = "PL" => check_fn(r, s, t) = Proof(r.id, s, t)
         /\ r.part = "governance" => check_fn(r, s, t) = Governance(r.id, s, t)
  BY DEF check_fn

(* A check returns what is possible for its requirement, whatever its       *)
(* queries see.                                                             *)
LEMMA CheckIsPossible ==
  ASSUME NEW i \in 1..70, NEW s, NEW t
  PROVE  Possible(Requirements[i].id, check_fn(Requirements[i], s, t))
<1> DEFINE r == Requirements[i]
<1>1. CASE i \in 1..4 \/ i \in 5..7 \/ i \in 8..12
  <2>1. \/ r.part = "4" /\ r.id \in {"4.1", "4.2", "4.3", "4.4"}
        \/ r.part = "5" /\ r.id \in {"5.1", "5.2", "5.3"}
        \/ r.part = "6" /\ r.id \in {"6.1.1", "6.1.2", "6.1.3", "6.1.4", "6.2"}
    BY <1>1, Catalogue
  <2> HIDE DEF r
  <2>2. Possible(r.id, check_fn(r, s, t))
    BY <2>1, ChecksOfParts, Clauses4to6
  <2>3. QED  BY <2>2 DEF r
<1>2. CASE i \in 13..18 \/ i \in 19..24 \/ i \in 25..27 \/ i \in 28..30
  <2>1. \/ r.part \in {"7", "8", "9"}
        \/ r.part = "10" /\ r.id \in {"10.1", "10.2", "10.3"}
    BY <1>2, Catalogue
  <2> HIDE DEF r
  <2>2. Possible(r.id, check_fn(r, s, t))
    BY <2>1, ChecksOfParts, Clauses7to10
  <2>3. QED  BY <2>2 DEF r
<1>3. CASE \/ i \in 31..34 \/ i \in 35..37 \/ i \in 38..40 \/ i \in 41..44
           \/ i \in 45..48 \/ i \in 49..53 \/ i \in 54..57
  <2>1. r.part \in {"A2", "A3", "A4", "A5", "A6", "A7", "A8"}
    BY <1>3, Catalogue
  <2> HIDE DEF r
  <2>2. Possible(r.id, check_fn(r, s, t))
    BY <2>1, ChecksOfParts, AnnexA2to8
  <2>3. QED  BY <2>2 DEF r
<1>4. CASE i \in 58..60 \/ i \in 61..65 \/ i \in 66..68 \/ i \in 69..70
  <2>1. \/ r.part = "A9" /\ r.id \in {"A.9.1", "A.9.2", "A.9.3"}
        \/ r.part = "A10" /\ r.id \in {"A.10.1", "A.10.2", "A.10.3", "A.10.4", "A.10.5"}
        \/ r.part = "PL" /\ r.id \in {"PL.1", "PL.2", "PL.3"}
        \/ r.part = "governance" /\ r.id \in {"PL.4", "PL.5"}
    BY <1>4, Catalogue
  <2> HIDE DEF r
  <2>2. Possible(r.id, check_fn(r, s, t))
    BY <2>1, ChecksOfParts, AnnexA9toGovernance
  <2>3. QED  BY <2>2 DEF r
<1>5. QED  BY <1>1, <1>2, <1>3, <1>4

-----------------------------------------------------------------------------
(* The sums.  SumUp takes a value of the function its recursion defines; the *)
(* smallest length without such a function does not exist.                  *)

Upward(f, amount, n) ==
  f = [i \in 0..n |-> IF i = 0 THEN 0 ELSE f[i - 1] + amount[i]]

LEMMA UpwardExists ==
  ASSUME NEW amount, NEW n \in Nat
  PROVE  \E f : Upward(f, amount, n)
<1> DEFINE Bad == {k \in Nat : ~ \E f : Upward(f, amount, k)}
<1> SUFFICES ASSUME Bad # {} PROVE FALSE
  OBVIOUS
<1>1. PICK k \in Bad : \A j \in Bad : <<j, k>> \notin OpToRel(<, Nat)
  <2>1. Bad \subseteq Nat
    OBVIOUS
  <2> HIDE DEF Bad
  <2>2. QED  BY <2>1, NatLessThanWellFounded, WFMin
<1>2. k \in Nat /\ \A j \in Bad : ~(j < k)
  BY <1>1 DEF OpToRel
<1>3. CASE k = 0
  <2>1. Upward([i \in 0..0 |-> 0], amount, 0)
    BY DEF Upward
  <2>2. QED  BY <1>3, <2>1
<1>4. CASE k > 0
  <2>1. PICK f : Upward(f, amount, k - 1)
    BY <1>2, <1>4
  <2> DEFINE g == [i \in 0..k |-> IF i = 0 THEN 0 ELSE f[i - 1] + amount[i]]
  <2>2. \A i \in 0..(k - 1) : i \in 0..k /\ g[i] = f[i]
    BY <1>2, <2>1 DEF Upward
  <2>3. \A i \in 0..k : i # 0 => i - 1 \in 0..(k - 1)
    BY <1>2
  <2>4. Upward(g, amount, k)
    BY <2>2, <2>3 DEF Upward
  <2>5. QED  BY <2>4
<1>5. QED  BY <1>2, <1>3, <1>4

(* u holds the partial sums of the amounts. *)
Sums(u, amount) == u[0] = 0 /\ \A i \in 1..70 : u[i] = u[i - 1] + amount[i]

LEMMA SumUpEquation ==
  ASSUME NEW amount
  PROVE  \E u : Sums(u, amount) /\ SumUp(amount) = u[70]
<1>1. PICK u : u = CHOOSE f : Upward(f, amount, 70)
  OBVIOUS
<1>2. Upward(u, amount, 70)
  BY <1>1, UpwardExists
<1>3. SumUp(amount) = u[70]
  BY <1>1, CatalogueSize DEF SumUp, Upward
<1>4. \A i \in 1..70 : i \in 0..70 /\ i # 0
  OBVIOUS
<1>5. Sums(u, amount)
  BY <1>2, <1>4 DEF Upward, Sums
<1>6. QED  BY <1>3, <1>5

Below(less, more) ==
  \A i \in 1..70 : less[i] \in Nat /\ more[i] \in Nat /\ less[i] <= more[i]

(* Smaller amounts, a smaller sum. *)
LEMMA SumsMonotone ==
  ASSUME NEW less, NEW more, NEW u, NEW v, Sums(u, less), Sums(v, more), Below(less, more)
  PROVE  u[70] \in Nat /\ v[70] \in Nat /\ u[70] <= v[70]
<1> DEFINE Bad == {n \in 0..70 : ~(u[n] \in Nat /\ v[n] \in Nat /\ u[n] <= v[n])}
<1>1. Bad = {}
  <2> SUFFICES ASSUME Bad # {} PROVE FALSE
    OBVIOUS
  <2>1. PICK k \in Bad : \A j \in Bad : <<j, k>> \notin OpToRel(<, Nat)
    <3>1. Bad \subseteq Nat
      OBVIOUS
    <3> HIDE DEF Bad
    <3>2. QED  BY <3>1, NatLessThanWellFounded, WFMin
  <2>2. k \in 0..70 /\ \A j \in Bad : ~(j < k)
    <3>1. Bad \subseteq 0..70
      OBVIOUS
    <3> HIDE DEF Bad
    <3>2. k \in 0..70
      BY <3>1
    <3>3. \A j \in Bad : j \in Nat
      BY <3>1
    <3>4. QED  BY <2>1, <3>2, <3>3 DEF OpToRel
  <2>3. u[0] \in Nat /\ v[0] \in Nat /\ u[0] <= v[0]
    BY DEF Sums
  <2>4. k # 0
    BY <2>1, <2>3
  <2>5. k - 1 \in 0..70 /\ k - 1 < k /\ k \in 1..70
    BY <2>2, <2>4
  <2>6. u[k - 1] \in Nat /\ v[k - 1] \in Nat /\ u[k - 1] <= v[k - 1]
    BY <2>2, <2>5
  <2>7. u[k] = u[k - 1] + less[k] /\ v[k] = v[k - 1] + more[k]
    BY <2>5 DEF Sums
  <2>8. less[k] \in Nat /\ more[k] \in Nat /\ less[k] <= more[k]
    BY <2>5 DEF Below
  <2>9. u[k] \in Nat /\ v[k] \in Nat /\ u[k] <= v[k]
    BY <2>6, <2>7, <2>8
  <2>10. QED  BY <2>1, <2>9
<1>2. QED  BY <1>1

(* Each requirement's weight, and the most it can earn, in half weights.    *)
Weight == << 3, 3, 3, 3,  3, 3, 2,  3, 3, 2, 2, 2,  2, 2, 1, 1, 2, 1,
             3, 3, 2, 3, 2, 2,  3, 2, 2,  2, 2, 1,  3, 2, 2, 2,  2, 3, 2,
             2, 2, 1,  3, 3, 2, 2,  2, 2, 2, 3,  2, 3, 1, 2, 2,  2, 2, 3, 2,
             3, 2, 2,  3, 3, 3, 3, 3,  3, 2, 3,  2, 2 >>
Ceiling == << 3, 3, 3, 6,  3, 3, 2,  3, 3, 2, 4, 2,  2, 0, 0, 0, 2, 2,
              6, 3, 2, 0, 4, 0,  6, 0, 0,  2, 4, 2,  3, 4, 0, 0,  2, 0, 0,
              0, 2, 0,  0, 3, 2, 0,  0, 2, 0, 3,  0, 6, 0, 0, 0,  0, 0, 6, 4,
              6, 2, 2,  3, 3, 6, 3, 3,  6, 4, 3,  4, 4 >>

Capped(i) ==
  /\ Requirements[i].weight = Weight[i] /\ Weight[i] \in 1..3 /\ Ceiling[i] \in 0..6
  /\ Requirements[i].id \in CanBeMet => 2 * Weight[i] <= Ceiling[i]
  /\ Requirements[i].id \in CanBePartial => Weight[i] <= Ceiling[i]

LEMMA AllCapped == \A i \in 1..70 : Capped(i)
<1>1. \A i \in 1..9 : Capped(i)
  BY SMTT(30) DEF Capped, Requirements, Weight, Ceiling, CanBeMet, CanBePartial,
                  CRITICAL, MAJOR, MINOR
<1>2. \A i \in 10..18 : Capped(i)
  BY SMTT(30) DEF Capped, Requirements, Weight, Ceiling, CanBeMet, CanBePartial,
                  CRITICAL, MAJOR, MINOR
<1>3. \A i \in 19..27 : Capped(i)
  BY SMTT(30) DEF Capped, Requirements, Weight, Ceiling, CanBeMet, CanBePartial,
                  CRITICAL, MAJOR, MINOR
<1>4. \A i \in 28..37 : Capped(i)
  BY SMTT(30) DEF Capped, Requirements, Weight, Ceiling, CanBeMet, CanBePartial,
                  CRITICAL, MAJOR, MINOR
<1>5. \A i \in 38..46 : Capped(i)
  BY SMTT(30) DEF Capped, Requirements, Weight, Ceiling, CanBeMet, CanBePartial,
                  CRITICAL, MAJOR, MINOR
<1>6. \A i \in 47..53 : Capped(i)
  BY SMTT(30) DEF Capped, Requirements, Weight, Ceiling, CanBeMet, CanBePartial,
                  CRITICAL, MAJOR, MINOR
<1>7. \A i \in 54..60 : Capped(i)
  BY SMTT(30) DEF Capped, Requirements, Weight, Ceiling, CanBeMet, CanBePartial,
                  CRITICAL, MAJOR, MINOR
<1>8. \A i \in 61..70 : Capped(i)
  BY SMTT(30) DEF Capped, Requirements, Weight, Ceiling, CanBeMet, CanBePartial,
                  CRITICAL, MAJOR, MINOR
<1>9. QED  BY <1>1, <1>2, <1>3, <1>4, <1>5, <1>6, <1>7, <1>8

(* What the catalogue is worth in all. *)
LEMMA WeightsSum == SumUp(Weights) = 161
<1>1. PICK u : Sums(u, Weights) /\ SumUp(Weights) = u[70]
  BY SumUpEquation
<1>2. \A i \in 1..70 : u[i] = u[i - 1] + Weight[i]
  BY <1>1, CatalogueSize, AllCapped DEF Sums, Weights, Capped
<1>3. u[12] = 32
  BY <1>1, <1>2 DEF Sums, Weight
<1>4. u[24] = 56
  BY <1>2, <1>3 DEF Weight
<1>5. u[34] = 77
  BY <1>2, <1>4 DEF Weight
<1>6. u[44] = 99
  BY <1>2, <1>5 DEF Weight
<1>7. u[53] = 118
  BY <1>2, <1>6 DEF Weight
<1>8. u[60] = 134
  BY <1>2, <1>7 DEF Weight
<1>9. u[70] = 161
  BY <1>2, <1>8 DEF Weight
<1>10. QED  BY <1>1, <1>9

(* What can be earned of it, in half weights. *)
LEMMA Most == SumUp(Ceiling) = 158
<1>1. PICK u : Sums(u, Ceiling) /\ SumUp(Ceiling) = u[70]
  BY SumUpEquation
<1>2. \A i \in 1..70 : u[i] = u[i - 1] + Ceiling[i]
  BY <1>1 DEF Sums
<1>3. u[12] = 37
  BY <1>1, <1>2 DEF Sums, Ceiling
<1>4. u[24] = 58
  BY <1>2, <1>3 DEF Ceiling
<1>5. u[34] = 79
  BY <1>2, <1>4 DEF Ceiling
<1>6. u[44] = 88
  BY <1>2, <1>5 DEF Ceiling
<1>7. u[53] = 99
  BY <1>2, <1>6 DEF Ceiling
<1>8. u[60] = 119
  BY <1>2, <1>7 DEF Ceiling
<1>9. u[70] = 158
  BY <1>2, <1>8 DEF Ceiling
<1>10. QED  BY <1>1, <1>9

LEMMA Rounded == \A n \in Nat : n <= 158 => (1000 * n + 161) \div 322 \in 0..491
  OBVIOUS

AllPossible(results) == \A i \in 1..70 : Possible(Requirements[i].id, results[i])

Earned(results, i) ==
  IF results[i] = MET THEN 2 * Weights[i]
  ELSE IF results[i] = PARTIAL THEN Weights[i] ELSE 0

LEMMA EarnedIsCapped ==
  ASSUME NEW results, AllPossible(results), NEW i \in 1..70
  PROVE  Earned(results, i) \in Nat /\ Ceiling[i] \in Nat /\ Earned(results, i) <= Ceiling[i]
<1>1. Capped(i) /\ Weights[i] = Requirements[i].weight
  BY CatalogueSize, AllCapped DEF Weights
<1>2. PICK w \in 1..3, c \in 0..6 :
        /\ w = Weights[i] /\ c = Ceiling[i]
        /\ Requirements[i].id \in CanBeMet => 2 * w <= c
        /\ Requirements[i].id \in CanBePartial => w <= c
  BY <1>1 DEF Capped
<1>3. /\ results[i] = MET => Requirements[i].id \in CanBeMet
      /\ results[i] = PARTIAL => Requirements[i].id \in CanBeMet \cup CanBePartial
  BY DEF AllPossible, Possible
<1>4. Earned(results, i) = IF results[i] = MET THEN 2 * w
                           ELSE IF results[i] = PARTIAL THEN w ELSE 0
  BY <1>2 DEF Earned
<1>5. QED  BY <1>2, <1>3, <1>4

(* Results that the checks can return score 49.1% at most. *)
LEMMA ScoreIsCapped ==
  ASSUME NEW results, AllPossible(results)
  PROVE  score_pct(results) \in 0..491
<1> DEFINE credit == [i \in DOMAIN Requirements |-> Earned(results, i)]
<1>1. Below(credit, Ceiling)
  BY CatalogueSize, EarnedIsCapped DEF Below
<1>2. score_pct(results) = (1000 * SumUp(credit) + SumUp(Weights)) \div (2 * SumUp(Weights))
  BY DEF score_pct, Earned
<1> HIDE DEF credit
<1>3. PICK u, v : /\ Sums(u, credit) /\ SumUp(credit) = u[70]
                  /\ Sums(v, Ceiling) /\ SumUp(Ceiling) = v[70]
  BY SumUpEquation
<1>4. PICK earned \in Nat : earned = SumUp(credit) /\ earned <= 158
  <2>1. u[70] \in Nat /\ u[70] <= v[70]
    BY <1>1, <1>3, SumsMonotone
  <2>2. v[70] = 158
    BY <1>3, Most
  <2>3. QED  BY <1>3, <2>1, <2>2
<1>5. score_pct(results) = (1000 * earned + 161) \div 322
  BY <1>2, <1>4, WeightsSum
<1>6. PICK tenths \in 0..491 : tenths = (1000 * earned + 161) \div 322
  BY <1>4, Rounded
<1>7. score_pct(results) = tenths
  BY <1>5, <1>6
<1>8. QED  BY <1>7

-----------------------------------------------------------------------------
(* The report. *)

(* A report under way has a possible result for each check it has passed.   *)
ReportOK ==
  \/ report.at = "idle"
  \/ /\ report = [at |-> report.at, scope |-> report.scope, results |-> report.results,
                  first |-> report.first]
     /\ report.results \in Seq(Statuses)
     /\ \/ report.at = "checking" /\ Len(report.results) < 70
        \/ report.at = "complete" /\ Len(report.results) = 70
     /\ \A i \in DOMAIN report.results : Possible(Requirements[i].id, report.results[i])

LEMMA ResultKeepsReport ==
  ASSUME ReportOK, Checking, NEW status,
         Possible(Requirements[Len(report.results) + 1].id, status), Result(status)
  PROVE  ReportOK'
<1>1. PICK seq, scope, first :
        /\ report = [at |-> "checking", scope |-> scope, results |-> seq, first |-> first]
        /\ seq \in Seq(Statuses) /\ Len(seq) < 70
        /\ \A i \in DOMAIN seq : Possible(Requirements[i].id, seq[i])
  BY DEF ReportOK, Checking
<1>2. report' = [at |-> IF Len(seq) + 1 = 70 THEN "complete" ELSE "checking", scope |-> scope,
                 results |-> Append(seq, status), first |-> <<>>]
  BY <1>1, CatalogueSize DEF Result
<1>3. /\ Append(seq, status) \in Seq(Statuses) /\ Len(Append(seq, status)) = Len(seq) + 1
      /\ \A i \in DOMAIN Append(seq, status) :
           Possible(Requirements[i].id, Append(seq, status)[i])
  <2>1. status \in Statuses /\ Possible(Requirements[Len(seq) + 1].id, status)
    BY <1>1 DEF Possible
  <2>2. QED  BY <1>1, <2>1
<1>4. QED  BY <1>1, <1>2, <1>3 DEF ReportOK

LEMMA ReportSteps ==
  ASSUME ReportOK, [Next]_vars
  PROVE  ReportOK'
<1>1. ASSUME UNCHANGED report PROVE ReportOK'
  BY <1>1 DEF ReportOK
<1>2. ASSUME NEW scope, generate_report(scope) PROVE ReportOK'
  BY <1>2 DEF generate_report, ReportOK
<1>3. CASE FirstQuery
  <2>1. PICK seq, scope, first :
          /\ report = [at |-> "checking", scope |-> scope, results |-> seq, first |-> first]
          /\ seq \in Seq(Statuses) /\ Len(seq) < 70
          /\ \A i \in DOMAIN seq : Possible(Requirements[i].id, seq[i])
    BY <1>3 DEF ReportOK, FirstQuery, Checking
  <2>2. PICK seen : report' = [report EXCEPT !.first = seen]
    BY <1>3 DEF FirstQuery
  <2>3. report' = [at |-> "checking", scope |-> scope, results |-> seq, first |-> seen]
    BY <2>1, <2>2
  <2>4. QED  BY <2>1, <2>3 DEF ReportOK
<1>4. ASSUME LastQuery \/ QueryFails PROVE ReportOK'
  <2>1. Checking /\ Len(report.results) + 1 \in 1..70
    <3>1. Checking
      BY <1>4 DEF LastQuery, QueryFails
    <3>2. report.results \in Seq(Statuses) /\ Len(report.results) < 70
      BY <3>1 DEF Checking, ReportOK
    <3>3. PICK n \in Nat : n = Len(report.results) /\ n < 70
      BY <3>2
    <3>4. \A k \in Nat : k < 70 => k + 1 \in 1..70
      OBVIOUS
    <3>5. QED  BY <3>1, <3>3, <3>4, Zenon
  <2>2. PICK status :
          Possible(Requirements[Len(report.results) + 1].id, status) /\ Result(status)
    <3>1. CASE LastQuery
      BY <2>1, <3>1, CheckIsPossible DEF LastQuery, Current
    <3>2. CASE QueryFails
      BY <3>2 DEF QueryFails, Possible, Statuses, MET, PARTIAL, NOT_MET
    <3>3. QED  BY <1>4, <3>1, <3>2
  <2>3. QED  BY <2>1, <2>2, ResultKeepsReport
<1>5. ASSUME NEW a, \/ record_decision(a) \/ record_exception(a) \/ add_trace_step(a)
                    \/ record_cross_agent_edge \/ Pass(a) \/ UNCHANGED vars
      PROVE  UNCHANGED report
  BY <1>5 DEF record_decision, record_exception, add_trace_step, record_cross_agent_edge,
              Pass, vars
<1>6. QED  BY <1>1, <1>2, <1>3, <1>4, <1>5 DEF Next

LEMMA ReportInv == Spec => []ReportOK
<1>1. Init => ReportOK
  BY DEF Init, NoReport, ReportOK
<1>2. QED  BY <1>1, ReportSteps, PTL DEF Spec

(* A complete report scores 49.1% at most, of the 100% that would be full   *)
(* compliance (compliance.py:1540-1565).                                    *)
AtMost491 == report.at = "complete" => score_pct(report.results) \in 0..491

LEMMA CompleteIsCapped == ReportOK => AtMost491
<1> SUFFICES ASSUME ReportOK, report.at = "complete"
             PROVE  score_pct(report.results) \in 0..491
  BY DEF AtMost491
<1>1. AllPossible(report.results)
  BY DEF ReportOK, AllPossible
<1>2. QED  BY <1>1, ScoreIsCapped

(* What any report that is complete scores, whatever happened while it was  *)
(* generated: 158 of 322 half weights at most.                              *)
THEOREM ScoreCeiling == Spec => []AtMost491
  BY ReportInv, CompleteIsCapped, PTL

(* No report is graded above D. *)
THEOREM NeverAboveD == Spec => []NoReportAboveD
<1>1. AtMost491 => NoReportAboveD
  <2>1. \A tenths \in 0..491 : Grade(tenths) \in {"D", "F"}
    BY DEF Grade
  <2>2. QED  BY <2>1 DEF AtMost491, NoReportAboveD
<1>2. QED  BY <1>1, ScoreCeiling, PTL
(* Sums of weights.  SumOf is a fold, so it is a value of the function that *)
(* the fold chooses; induction over finite sets shows that there is one.    *)

(* A non-empty set of subsets of a finite set has a smallest member. *)
LEMMA Least ==
  ASSUME NEW S, IsFiniteSet(S), NEW T \in SUBSET (SUBSET S), T # {}
  PROVE  \E m \in T : \A s \in T : s \subseteq m => s = m
<1>1. IsWellFoundedOn(StrictSubsetOrdering(S), SUBSET S)
  BY FS_StrictSubsetOrderingWellFounded, FS_FiniteSubsetsOfFinite
<1>2. PICK m \in T : \A s \in T : <<s, m>> \notin StrictSubsetOrdering(S)
  BY <1>1, WFMin
<1>3. QED BY <1>2 DEF StrictSubsetOrdering

Some(s) == CHOOSE x \in s : TRUE

(* f is the sum of the weights w for each set of D. *)
Folds(f, w, D) ==
  f = [s \in D |-> IF s = {} THEN 0 ELSE w[Some(s)] + f[s \ {Some(s)}]]

LEMMA SumIsFold ==
  ASSUME NEW w, NEW S
  PROVE  SumOf(w, S) = (CHOOSE f : Folds(f, w, SUBSET S))[S]
  BY DEF SumOf, MapThenSumSet, MapThenFoldSet, Folds, Some

UpTo(S, n) == {s \in SUBSET S : Cardinality(s) <= n}

LEMMA FoldExists ==
  ASSUME NEW w, NEW S, IsFiniteSet(S)
  PROVE  \E f : Folds(f, w, SUBSET S)
<1>1. \A s \in SUBSET S : IsFiniteSet(s) /\ Cardinality(s) \in Nat
  BY FS_Subset, FS_CardinalityType
<1> DEFINE Bad == {n \in Nat : ~ \E f : Folds(f, w, UpTo(S, n))}
<1>2. Bad = {}
  <2> SUFFICES ASSUME Bad # {} PROVE FALSE
    OBVIOUS
  <2>1. PICK n \in Bad : \A k \in Bad : <<k, n>> \notin OpToRel(<, Nat)
    <3>1. Bad \subseteq Nat
      OBVIOUS
    <3> HIDE DEF Bad
    <3>2. QED  BY <3>1, NatLessThanWellFounded, WFMin
  <2>2. n \in Nat /\ \A k \in Bad : ~(k < n)
    BY <2>1 DEF OpToRel
  <2>3. CASE n = 0
    <3>1. UpTo(S, 0) = {{}}
      BY <1>1, FS_EmptySet DEF UpTo
    <3>2. Folds([s \in {{}} |-> 0], w, {{}})
      BY DEF Folds
    <3>3. QED  BY <2>3, <3>1, <3>2
  <2>4. CASE n > 0
    <3>1. PICK f : Folds(f, w, UpTo(S, n - 1))
      BY <2>2, <2>4
    <3> DEFINE g == [s \in UpTo(S, n) |->
                       IF s = {} THEN 0 ELSE w[Some(s)] + f[s \ {Some(s)}]]
    <3>2. ASSUME NEW s \in UpTo(S, n), s # {}
          PROVE  s \ {Some(s)} \in UpTo(S, n - 1) /\ s \ {Some(s)} \in UpTo(S, n)
      <4>1. Some(s) \in s
        BY <3>2 DEF Some
      <4>2. Cardinality(s \ {Some(s)}) = Cardinality(s) - 1
        BY <1>1, <4>1, FS_RemoveElement DEF UpTo
      <4>3. QED  BY <1>1, <4>2 DEF UpTo
    <3>3. \A s \in UpTo(S, n - 1) : s \in UpTo(S, n) /\ g[s] = f[s]
      <4>1. \A s \in UpTo(S, n - 1) : s \in UpTo(S, n)
        BY <1>1, <2>2 DEF UpTo
      <4>2. \A s \in UpTo(S, n - 1) :
              f[s] = IF s = {} THEN 0 ELSE w[Some(s)] + f[s \ {Some(s)}]
        BY <3>1 DEF Folds
      <4>3. QED  BY <4>1, <4>2
    <3>4. Folds(g, w, UpTo(S, n))
      BY <3>2, <3>3 DEF Folds
    <3>5. QED  BY <3>4
  <2>5. QED  BY <2>3, <2>4
<1>3. Cardinality(S) \in Nat /\ UpTo(S, Cardinality(S)) = SUBSET S
  BY FS_CardinalityType, FS_Subset DEF UpTo
<1>4. \E f : Folds(f, w, UpTo(S, Cardinality(S)))
  BY <1>2, <1>3
<1>5. QED  BY <1>3, <1>4

LEMMA FoldUnique ==
  ASSUME NEW w, NEW S, IsFiniteSet(S), NEW f, Folds(f, w, SUBSET S),
         NEW g, NEW U \in SUBSET S, Folds(g, w, SUBSET U)
  PROVE  f[U] = g[U]
<1> DEFINE Bad == {s \in SUBSET U : f[s] # g[s]}
<1> SUFFICES ASSUME Bad # {} PROVE FALSE
  OBVIOUS
<1>1. PICK m \in Bad : \A s \in Bad : s \subseteq m => s = m
  <2>1. Bad \in SUBSET (SUBSET S)
    OBVIOUS
  <2> HIDE DEF Bad
  <2>2. QED  BY <2>1, Least
<1>2. m # {}
  BY <1>1 DEF Folds
<1>3. Some(m) \in m
  BY <1>2 DEF Some
<1>4. m \ {Some(m)} \in SUBSET U /\ f[m \ {Some(m)}] = g[m \ {Some(m)}]
  BY <1>1, <1>3
<1>5. QED  BY <1>1, <1>2, <1>4 DEF Folds

(* The equation of the sum. *)
LEMMA SumEquation ==
  ASSUME NEW w, NEW S, IsFiniteSet(S)
  PROVE  /\ SumOf(w, {}) = 0
         /\ \A U \in SUBSET S : U # {} =>
              SumOf(w, U) = w[Some(U)] + SumOf(w, U \ {Some(U)})
<1>1. PICK f : Folds(f, w, SUBSET S)
  BY FoldExists
<1>2. \A U \in SUBSET S : SumOf(w, U) = f[U]
  <2> TAKE U \in SUBSET S
  <2>1. IsFiniteSet(U)
    BY FS_Subset
  <2>2. PICK g : Folds(g, w, SUBSET U) /\ SumOf(w, U) = g[U]
    BY <2>1, FoldExists, SumIsFold
  <2>3. QED  BY <1>1, <2>2, FoldUnique
<1>3. \A U \in SUBSET S : U # {} => Some(U) \in U
  BY DEF Some
<1>4. QED  BY <1>1, <1>2, <1>3 DEF Folds

(* A sum of naturals is a natural. *)
LEMMA SumType ==
  ASSUME NEW S, IsFiniteSet(S), NEW w, \A x \in S : w[x] \in Nat
  PROVE  \A U \in SUBSET S : SumOf(w, U) \in Nat
<1> DEFINE Bad == {s \in SUBSET S : SumOf(w, s) \notin Nat}
<1> SUFFICES ASSUME Bad # {} PROVE FALSE
  OBVIOUS
<1>1. PICK m \in Bad : \A s \in Bad : s \subseteq m => s = m
  <2>1. Bad \in SUBSET (SUBSET S)
    OBVIOUS
  <2> HIDE DEF Bad
  <2>2. QED  BY <2>1, Least
<1>2. m # {}
  <2>1. SumOf(w, {}) \in Nat
    BY SumEquation
  <2>2. {} \notin Bad
    BY <2>1
  <2> HIDE DEF Bad
  <2>3. QED  BY <1>1, <2>2, Zenon
<1>3. Some(m) \in m
  BY <1>2 DEF Some
<1>4. m \ {Some(m)} \in SUBSET S /\ SumOf(w, m \ {Some(m)}) \in Nat
  BY <1>1, <1>3
<1>5. SumOf(w, m) = w[Some(m)] + SumOf(w, m \ {Some(m)})
  BY <1>2, SumEquation
<1>6. QED  BY <1>1, <1>3, <1>4, <1>5

(* Any element may be taken out first. *)
LEMMA SumOfAny ==
  ASSUME NEW S, IsFiniteSet(S), NEW w, \A x \in S : w[x] \in Nat
  PROVE  \A U \in SUBSET S : \A x \in U : SumOf(w, U) = w[x] + SumOf(w, U \ {x})
<1> DEFINE Bad == {s \in SUBSET S : \E x \in s : SumOf(w, s) # w[x] + SumOf(w, s \ {x})}
<1> SUFFICES ASSUME Bad # {} PROVE FALSE
  OBVIOUS
<1>1. PICK m \in Bad : \A s \in Bad : s \subseteq m => s = m
  <2>1. Bad \in SUBSET (SUBSET S)
    OBVIOUS
  <2> HIDE DEF Bad
  <2>2. QED  BY <2>1, Least
<1>2. PICK x \in m : SumOf(w, m) # w[x] + SumOf(w, m \ {x})
  BY <1>1
<1>3. PICK y \in m : SumOf(w, m) = w[y] + SumOf(w, m \ {y})
  <2>1. Some(m) \in m
    BY <1>2 DEF Some
  <2>2. SumOf(w, m) = w[Some(m)] + SumOf(w, m \ {Some(m)})
    BY <1>1, <1>2, SumEquation
  <2>3. QED  BY <2>1, <2>2
<1>4. x # y
  BY <1>2, <1>3
<1>5. SumOf(w, m \ {y}) = w[x] + SumOf(w, (m \ {y}) \ {x})
  <2>1. m \ {y} \in SUBSET S /\ m \ {y} \notin Bad
    BY <1>1, <1>3
  <2>2. x \in m \ {y}
    BY <1>4
  <2>3. QED  BY <2>1, <2>2
<1>6. SumOf(w, m \ {x}) = w[y] + SumOf(w, (m \ {x}) \ {y})
  <2>1. m \ {x} \in SUBSET S /\ m \ {x} \notin Bad
    BY <1>1, <1>2
  <2>2. y \in m \ {x}
    BY <1>4
  <2>3. QED  BY <2>1, <2>2
<1>7. PICK T \in SUBSET S : T = (m \ {y}) \ {x}
  BY <1>1
<1>8. (m \ {x}) \ {y} = T
  BY <1>7
<1>9. PICK rest \in Nat, wx \in Nat, wy \in Nat :
        rest = SumOf(w, T) /\ wx = w[x] /\ wy = w[y]
  BY <1>1, SumType
<1>10. SumOf(w, m) = wy + (wx + rest)
  BY <1>3, <1>5, <1>7, <1>9
<1>11. SumOf(w, m) # wx + (wy + rest)
  BY <1>2, <1>6, <1>8, <1>9
<1>12. wy + (wx + rest) = wx + (wy + rest)
  OBVIOUS
<1>13. QED  BY <1>10, <1>11, <1>12

(* More elements, more weight. *)
LEMMA SumMonotone ==
  ASSUME NEW S, IsFiniteSet(S), NEW w, \A x \in S : w[x] \in Nat,
         NEW U \in SUBSET S
  PROVE  \A V \in SUBSET U : SumOf(w, V) <= SumOf(w, U)
<1> DEFINE Bad == {d \in SUBSET U : ~(SumOf(w, U \ d) <= SumOf(w, U))}
<1>1. Bad = {}
  <2> SUFFICES ASSUME Bad # {} PROVE FALSE
    OBVIOUS
  <2>1. PICK m \in Bad : \A s \in Bad : s \subseteq m => s = m
    <3>1. Bad \in SUBSET (SUBSET S)
      OBVIOUS
    <3> HIDE DEF Bad
    <3>2. QED  BY <3>1, Least
  <2>2. SumOf(w, U) \in Nat
    BY SumType
  <2>3. m # {}
    <3>1. U \ {} = U
      OBVIOUS
    <3>2. {} \notin Bad
      BY <2>2, <3>1
    <3> HIDE DEF Bad
    <3>3. QED  BY <2>1, <3>2, Zenon
  <2>4. PICK x \in m : TRUE
    BY <2>3
  <2>5. SumOf(w, U \ (m \ {x})) <= SumOf(w, U)
    <3>1. m \ {x} \in SUBSET U /\ m \ {x} \notin Bad
      BY <2>1, <2>4
    <3>2. QED  BY <3>1
  <2>6. PICK V \in SUBSET S : V = U \ (m \ {x})
    OBVIOUS
  <2>7. x \in V /\ V \ {x} = U \ m /\ V \ {x} \in SUBSET S
    BY <2>1, <2>4, <2>6
  <2>8. SumOf(w, V) = w[x] + SumOf(w, V \ {x})
    BY <2>6, <2>7, SumOfAny
  <2>9. SumOf(w, V \ {x}) \in Nat /\ w[x] \in Nat
    BY <2>7, SumType
  <2>10. SumOf(w, U \ m) <= SumOf(w, U)
    BY <2>2, <2>5, <2>6, <2>7, <2>8, <2>9
  <2>11. QED  BY <2>1, <2>10
<1>2. ASSUME NEW V \in SUBSET U PROVE SumOf(w, V) <= SumOf(w, U)
  <2>1. PICK d \in SUBSET U : d = U \ V
    OBVIOUS
  <2>2. V = U \ d
    BY <2>1
  <2>3. QED  BY <1>1, <2>1, <2>2
<1>3. QED  BY <1>2

(* Smaller weights on fewer elements, a smaller sum. *)
LEMMA SumBelow ==
  ASSUME NEW S, IsFiniteSet(S), NEW v, \A x \in S : v[x] \in Nat,
         NEW w, NEW U \in SUBSET S, \A x \in U : w[x] \in Nat /\ w[x] <= v[x]
  PROVE  SumOf(w, U) \in Nat /\ SumOf(v, S) \in Nat /\ SumOf(w, U) <= SumOf(v, S)
<1>1. IsFiniteSet(U)
  BY FS_Subset
<1>2. \A T \in SUBSET U : SumOf(w, T) \in Nat /\ SumOf(v, T) \in Nat
  BY <1>1, SumType
<1> DEFINE Bad == {s \in SUBSET U : ~(SumOf(w, s) <= SumOf(v, s))}
<1>3. Bad = {}
  <2> SUFFICES ASSUME Bad # {} PROVE FALSE
    OBVIOUS
  <2>1. PICK m \in Bad : \A s \in Bad : s \subseteq m => s = m
    <3>1. Bad \in SUBSET (SUBSET U)
      OBVIOUS
    <3> HIDE DEF Bad
    <3>2. QED  BY <1>1, <3>1, Least
  <2>2. m # {}
    <3>1. SumOf(w, {}) = 0 /\ SumOf(v, {}) = 0
      BY <1>1, SumEquation
    <3>2. {} \notin Bad
      BY <3>1
    <3> HIDE DEF Bad
    <3>3. QED  BY <2>1, <3>2, Zenon
  <2>3. Some(m) \in m /\ m \in SUBSET U
    BY <2>1, <2>2 DEF Some
  <2>4. PICK x \in m, r \in SUBSET U : x = Some(m) /\ r = m \ {Some(m)}
    BY <2>3
  <2>5. SumOf(w, m) = w[x] + SumOf(w, r) /\ SumOf(v, m) = v[x] + SumOf(v, r)
    BY <1>1, <2>2, <2>3, <2>4, SumEquation
  <2>6. r \notin Bad
    BY <2>1, <2>3, <2>4
  <2>7. SumOf(w, r) <= SumOf(v, r)
    BY <2>6
  <2>8. PICK a \in Nat, b \in Nat, c \in Nat, d \in Nat :
          /\ a = w[x] /\ b = v[x] /\ a <= b
          /\ c = SumOf(w, r) /\ d = SumOf(v, r) /\ c <= d
    BY <1>2, <2>3, <2>4, <2>7
  <2>9. SumOf(w, m) <= SumOf(v, m)
    BY <2>5, <2>8
  <2>10. QED  BY <2>1, <2>9
<1>4. SumOf(w, U) <= SumOf(v, U)
  BY <1>3
<1>5. SumOf(v, U) <= SumOf(v, S) /\ SumOf(v, S) \in Nat
  BY SumMonotone, SumType
<1>6. QED  BY <1>2, <1>4, <1>5

(* The sum over one element. *)
LEMMA SumOfOne ==
  ASSUME NEW w, NEW x
  PROVE  SumOf(w, {x}) = w[x] + 0
<1>1. IsFiniteSet({x}) /\ Some({x}) = x /\ {x} \ {x} = {}
  BY FS_Singleton DEF Some
<1>2. QED  BY <1>1, SumEquation


-----------------------------------------------------------------------------
(* A check whose first query came before its last one. *)

Numbered(bag) ==
  /\ IsFiniteSet(DOMAIN bag)
  /\ \A d \in DOMAIN bag : bag[d] \in Nat /\ d.steps \in Nat /\ d.agent \in Names

Within(less, more) ==
  DOMAIN less \subseteq DOMAIN more /\ \A d \in DOMAIN less : less[d] <= more[d]

(* s was seen before t. *)
Earlier(s, t) ==
  /\ Numbered(s.own) /\ Numbered(t.own) /\ Within(s.own, t.own)
  /\ s.exceptions \in Nat /\ t.exceptions \in Nat /\ s.exceptions <= t.exceptions
  /\ s.steps \in Nat /\ t.steps \in Nat /\ s.steps <= t.steps

(* More decisions, a higher count of any kind of them. *)
LEMMA CountGrows ==
  ASSUME NEW less, NEW more, Numbered(less), Numbered(more), Within(less, more),
         NEW V \in SUBSET DOMAIN more, NEW U \in SUBSET DOMAIN less, U \subseteq V
  PROVE  Count(less, U) \in Nat /\ Count(more, V) \in Nat /\ Count(less, U) <= Count(more, V)
<1>1. IsFiniteSet(V) /\ U \in SUBSET V
  BY FS_Subset DEF Numbered
<1>2. \A d \in V : more[d] \in Nat
  BY DEF Numbered
<1>3. \A d \in U : less[d] \in Nat /\ less[d] <= more[d]
  BY DEF Numbered, Within
<1>4. QED  BY <1>1, <1>2, <1>3, SumBelow DEF Count

LEMMA TimesMonotone ==
  \A a, b, c \in Nat : a <= b => a * c \in Nat /\ b * c \in Nat /\ a * c <= b * c
  OBVIOUS

(* More decisions, no fewer steps in them. *)
LEMMA StepsWorth ==
  ASSUME NEW less, NEW more, Numbered(less), Numbered(more), Within(less, more)
  PROVE  /\ Worth(less, [d \in DOMAIN less |-> d.steps]) \in Nat
         /\ Worth(more, [d \in DOMAIN more |-> d.steps]) \in Nat
         /\ Worth(less, [d \in DOMAIN less |-> d.steps])
              <= Worth(more, [d \in DOMAIN more |-> d.steps])
<1> DEFINE w == [d \in DOMAIN less |-> less[d] * d.steps]
           v == [d \in DOMAIN more |-> more[d] * d.steps]
<1>1. /\ Worth(less, [d \in DOMAIN less |-> d.steps]) = SumOf(w, DOMAIN less)
      /\ Worth(more, [d \in DOMAIN more |-> d.steps]) = SumOf(v, DOMAIN more)
  BY DEF Worth
<1>2. \A d \in DOMAIN more : v[d] \in Nat
  BY TimesMonotone DEF Numbered
<1>3. \A d \in DOMAIN less : w[d] \in Nat /\ w[d] <= v[d]
  <2> SUFFICES ASSUME NEW d \in DOMAIN less PROVE w[d] \in Nat /\ w[d] <= v[d]
    OBVIOUS
  <2>1. PICK a \in Nat, b \in Nat, c \in Nat :
          a = less[d] /\ b = more[d] /\ c = d.steps /\ a <= b
    BY DEF Numbered, Within
  <2>2. w[d] = a * c /\ v[d] = b * c
    BY <2>1 DEF Within
  <2>3. QED  BY <2>1, <2>2, TimesMonotone
<1>4. IsFiniteSet(DOMAIN more) /\ DOMAIN less \in SUBSET DOMAIN more
  BY DEF Numbered, Within
<1> HIDE DEF w, v
<1>5. QED  BY <1>1, <1>2, <1>3, <1>4, SumBelow

Grows(a, b) == a \in Nat /\ b \in Nat /\ a <= b

(* Every count the checks compare is at least the earlier one. *)
LEMMA EarlierCounts ==
  ASSUME NEW s, NEW t, Earlier(s, t)
  PROVE  /\ Grows(Total(s), Total(t))
         /\ Grows(Tracked(s), Tracked(t))
         /\ Grows(Reasoned(s), Reasoned(t))
         /\ Grows(Overrides(s), Overrides(t))
         /\ Grows(Escalations(s), Escalations(t))
         /\ Grows(Steps(s), Steps(t))
         /\ Grows(Cardinality(Grouped(s)), Cardinality(Grouped(t)))
         /\ Grouped(s) \subseteq Grouped(t)
         /\ Cardinality(Agents(t)) \in Nat
<1>1. /\ Numbered(s.own) /\ Numbered(t.own) /\ Within(s.own, t.own)
      /\ DOMAIN s.own \subseteq DOMAIN t.own
  BY DEF Earlier, Within
<1>2. \A U \in SUBSET DOMAIN s.own : \A V \in SUBSET DOMAIN t.own :
        U \subseteq V => Grows(Count(s.own, U), Count(t.own, V))
  BY <1>1, CountGrows DEF Grows
<1>3. Grows(Total(s), Total(t))
  BY <1>1, <1>2 DEF Total, Size
<1>4. Grows(Tracked(s), Tracked(t))
  BY <1>1, <1>2 DEF Tracked
<1>5. Grows(Reasoned(s), Reasoned(t))
  BY <1>1, <1>2 DEF Reasoned
<1>6. Grows(Overrides(s), Overrides(t))
  BY <1>1, <1>2 DEF Overrides
<1>7. Grows(Escalations(s), Escalations(t))
  BY <1>1, <1>2 DEF Escalations
<1>8. Grows(Steps(s), Steps(t))
  <2>1. PICK a \in Nat, b \in Nat :
          /\ a = Worth(s.own, [d \in DOMAIN s.own |-> d.steps])
          /\ b = Worth(t.own, [d \in DOMAIN t.own |-> d.steps]) /\ a <= b
    BY <1>1, StepsWorth
  <2>2. PICK x \in Nat, y \in Nat : x = s.steps /\ y = t.steps /\ x <= y
    BY DEF Earlier
  <2>3. Steps(s) = x + a /\ Steps(t) = y + b
    BY <2>1, <2>2 DEF Steps
  <2>4. QED  BY <2>1, <2>2, <2>3 DEF Grows
<1>9. IsFiniteSet(Grouped(t)) /\ Grouped(s) \subseteq Grouped(t)
  <2>1. Grouped(t) \subseteq Names
    BY <1>1 DEF Grouped, Numbered
  <2>2. IsFiniteSet(Grouped(t))
    BY <2>1, FS_Subset, TemplateAssumption
  <2>3. QED  BY <1>1, <2>2 DEF Grouped
<1>10. Grows(Cardinality(Grouped(s)), Cardinality(Grouped(t)))
  BY <1>9, FS_Subset, FS_CardinalityType DEF Grows
<1>11. Cardinality(Agents(t)) \in Nat
  <2>1. Agents(t) \subseteq Names /\ IsFiniteSet(Agents(t))
    BY <1>1, FS_Subset, TemplateAssumption DEF Agents, Numbered
  <2>2. QED  BY <2>1, FS_CardinalityType
<1>12. QED  BY <1>3, <1>4, <1>5, <1>6, <1>7, <1>8, <1>9, <1>10, <1>11


-----------------------------------------------------------------------------
(* What is met of the counts of two moments is met of the later one's.      *)

LEMMA PercentGrows ==
  ASSUME NEW a \in Nat, NEW b \in Nat, NEW w \in Nat, a <= b
  PROVE  /\ PercentAtLeast(a, w, 70) => PercentAtLeast(b, w, 70)
         /\ PercentAtLeast(a, w, 80) => PercentAtLeast(b, w, 80)
  BY DEF PercentAtLeast

LEMMA Grading ==
  ASSUME NEW met, NEW partial
  PROVE  /\ Graded(met, partial) = MET <=> met
         /\ Evidenced(met) # MET
  BY DEF Graded, Evidenced, MET, PARTIAL, NOT_MET

LEMMA MetStays4to6 ==
  ASSUME NEW s, NEW t, Earlier(s, t), NEW id
  PROVE  /\ /\ id \in {"4.1", "4.2", "4.3", "4.4"}
            /\ Clause4(id, s, t) = MET
            => Clause4(id, t, t) = MET
         /\ id \in {"5.1", "5.2", "5.3"} => Clause5(id, s, t) # MET
         /\ /\ id \in {"6.1.1", "6.1.2", "6.1.3", "6.1.4", "6.2"}
            /\ Clause6(id, s, t) = MET
            => Clause6(id, t, t) = MET
<1>1. PICK m \in Nat, n \in Nat, a \in Nat, b \in Nat :
        /\ m = Total(s) /\ n = Total(t) /\ m <= n
        /\ a = Tracked(s) /\ b = Tracked(t) /\ a <= b
  BY EarlierCounts DEF Grows
<1>2. id = "4.4" /\ Clause4(id, s, t) = MET => Clause4(id, t, t) = MET
  <2>1. id = "4.4" => /\ Clause4(id, s, t)
                           = Graded(m > 0 /\ Policies > 0 /\ Applied(t.all) > 0, m > 0)
                      /\ Clause4(id, t, t)
                           = Graded(n > 0 /\ Policies > 0 /\ Applied(t.all) > 0, n > 0)
    BY <1>1 DEF Clause4
  <2>2. m > 0 => n > 0
    BY <1>1
  <2>3. QED  BY <2>1, <2>2, Grading
<1>3. id = "6.1.4" /\ Clause6(id, s, t) = MET => Clause6(id, t, t) = MET
  BY <1>1, Grading, PercentGrows DEF Clause6
<1>4. id \in {"4.1", "4.2", "4.3"} => Clause4(id, s, t) # MET
  BY Grading DEF Clause4
<1>5. id \in {"5.1", "5.2", "5.3"} => Clause5(id, s, t) # MET
  BY Grading DEF Clause5
<1>6. id \in {"6.1.1", "6.1.2", "6.1.3", "6.2"} => Clause6(id, s, t) # MET
  BY Grading DEF Clause6
<1>7. QED  BY <1>2, <1>3, <1>4, <1>5, <1>6

LEMMA MetStays7to10 ==
  ASSUME NEW s, NEW t, Earlier(s, t), NEW id
  PROVE  /\ Clause7(id, s, t) = Clause7(id, t, t)
         /\ id # "8.5" /\ Clause8(id, s, t) = MET => Clause8(id, t, t) = MET
         /\ Clause9(id, s, t) = Clause9(id, t, t)
         /\ id \in {"10.1", "10.2"} => Clause10(id, s, t) = Clause10(id, t, t)
<1>1. Clause7(id, s, t) = Clause7(id, t, t)
  BY DEF Clause7
<1>2. id # "8.5" /\ Clause8(id, s, t) = MET => Clause8(id, t, t) = MET
  <2>1. id \in {"8.2", "8.3"} => Clause8(id, s, t) # MET
    BY Grading DEF Clause8
  <2>2. id \notin {"8.2", "8.3", "8.5"} => Clause8(id, s, t) = Clause8(id, t, t)
    BY DEF Clause8
  <2>3. QED  BY <2>1, <2>2
<1>3. Clause9(id, s, t) = Clause9(id, t, t)
  BY DEF Clause9
<1>4. id \in {"10.1", "10.2"} => Clause10(id, s, t) = Clause10(id, t, t)
  BY DEF Clause10
<1>5. QED  BY <1>1, <1>2, <1>3, <1>4

LEMMA MetStaysA2to8 ==
  ASSUME NEW s, NEW t, Earlier(s, t), NEW id
  PROVE  /\ AnnexA2(id, s, t) = AnnexA2(id, t, t)
         /\ AnnexA3(id, s, t) = AnnexA3(id, t, t)
         /\ AnnexA4(id, s, t) = AnnexA4(id, t, t)
         /\ AnnexA5(id, s, t) = AnnexA5(id, t, t)
         /\ AnnexA6(id, s, t) = AnnexA6(id, t, t)
         /\ AnnexA7(id, s, t) = AnnexA7(id, t, t)
         /\ AnnexA8(id, s, t) = MET => AnnexA8(id, t, t) = MET
<1>1. AnnexA8(id, s, t) = MET => AnnexA8(id, t, t) = MET
  <2>1. PICK m \in Nat, n \in Nat, a \in Nat :
          m = Overrides(s) /\ n = Overrides(t) /\ m <= n /\ a = Escalations(t)
    BY EarlierCounts DEF Grows
  <2>2. id = "A.8.3" => (AnnexA8(id, s, t) = MET => AnnexA8(id, t, t) = MET)
    <3>1. id = "A.8.3" => /\ AnnexA8(id, s, t) = Graded(m + a > 0, FALSE)
                          /\ AnnexA8(id, t, t) = Graded(n + a > 0, FALSE)
      BY <2>1 DEF AnnexA8
    <3>2. m + a > 0 => n + a > 0
      BY <2>1
    <3>3. /\ Graded(m + a > 0, FALSE) = MET => m + a > 0
          /\ n + a > 0 => Graded(n + a > 0, FALSE) = MET
      BY DEF Graded, Evidenced, MET, PARTIAL, NOT_MET
    <3>4. QED  BY <3>1, <3>2, <3>3, Zenon
  <2>3. id # "A.8.3" => AnnexA8(id, s, t) = AnnexA8(id, t, t)
    BY DEF AnnexA8
  <2>4. QED  BY <2>2, <2>3
<1>2. /\ AnnexA2(id, s, t) = AnnexA2(id, t, t)
      /\ AnnexA3(id, s, t) = AnnexA3(id, t, t)
      /\ AnnexA4(id, s, t) = AnnexA4(id, t, t)
      /\ AnnexA5(id, s, t) = AnnexA5(id, t, t)
      /\ AnnexA6(id, s, t) = AnnexA6(id, t, t)
      /\ AnnexA7(id, s, t) = AnnexA7(id, t, t)
  BY DEF AnnexA2, AnnexA3, AnnexA4, AnnexA5, AnnexA6, AnnexA7
<1>3. QED  BY <1>1, <1>2

LEMMA MetStaysA9toGovernance ==
  ASSUME NEW s, NEW t, Earlier(s, t), NEW id
  PROVE  /\ /\ id \in {"A.9.1", "A.9.2", "A.9.3"}
            /\ AnnexA9(id, s, t) = MET
            => AnnexA9(id, t, t) = MET
         /\ /\ id \in {"A.10.1", "A.10.2", "A.10.3", "A.10.4", "A.10.5"}
            /\ AnnexA10(id, s, t) = MET
            => AnnexA10(id, t, t) = MET
         /\ /\ id \in {"PL.1", "PL.2", "PL.3"}
            /\ Proof(id, s, t) = MET
            => Proof(id, t, t) = MET
         /\ /\ id \in {"PL.4", "PL.5"}
            /\ Governance(id, s, t) = MET
            => Governance(id, t, t) = MET
<1>1. PICK n \in Nat, a \in Nat, b \in Nat, o \in Nat :
        /\ n = Total(t) /\ o = Overrides(t)
        /\ a = Reasoned(s) /\ b = Reasoned(t) /\ a <= b
  BY EarlierCounts DEF Grows
<1>2. PICK c \in Nat, d \in Nat, e \in Nat, f \in Nat :
        /\ c = Steps(s) /\ d = Steps(t) /\ c <= d
        /\ e = s.exceptions /\ f = t.exceptions /\ e <= f
  BY EarlierCounts DEF Grows, Earlier
<1>3. PICK g \in Nat, h \in Nat, k \in Nat :
        /\ g = Cardinality(Grouped(s)) /\ h = Cardinality(Grouped(t)) /\ g <= h
        /\ k = Cardinality(Agents(t)) /\ Grouped(s) \subseteq Grouped(t)
  BY EarlierCounts DEF Grows
<1>4. id = "A.9.1" /\ AnnexA9(id, s, t) = MET => AnnexA9(id, t, t) = MET
  BY <1>1, Grading, PercentGrows DEF AnnexA9
<1>5. id = "A.10.3" /\ AnnexA10(id, s, t) = MET => AnnexA10(id, t, t) = MET
  <2>1. id = "A.10.3" =>
          /\ AnnexA10(id, s, t) = Graded(n > 0 /\ PercentAtLeast(a, n, 70), n > 0)
          /\ AnnexA10(id, t, t) = Graded(n > 0 /\ PercentAtLeast(b, n, 70), n > 0)
    BY <1>1 DEF AnnexA10
  <2>2. PercentAtLeast(a, n, 70) => PercentAtLeast(b, n, 70)
    BY <1>1, PercentGrows
  <2>3. QED  BY <2>1, <2>2, Grading
<1>6. id = "PL.1" /\ Proof(id, s, t) = MET => Proof(id, t, t) = MET
  <2>1. id = "PL.1" /\ Proof(id, s, t) = MET => ~(e = 0 /\ o = 0) /\ e >= o
    <3>1. id = "PL.1" => Proof(id, s, t) = IF e = 0 /\ o = 0 THEN NOT_MET ELSE Graded(e >= o, TRUE)
      BY <1>1, <1>2 DEF Proof
    <3>2. MET # NOT_MET /\ (Graded(e >= o, TRUE) = MET => e >= o)
      BY DEF Graded, Evidenced, MET, PARTIAL, NOT_MET
    <3>3. QED  BY <3>1, <3>2
  <2>2. id = "PL.1" /\ ~(f = 0 /\ o = 0) /\ f >= o => Proof(id, t, t) = MET
    <3>1. id = "PL.1" => Proof(id, t, t) = IF f = 0 /\ o = 0 THEN NOT_MET ELSE Graded(f >= o, TRUE)
      BY <1>1, <1>2 DEF Proof
    <3>2. QED  BY <3>1, Grading
  <2>3. QED  BY <1>2, <2>1, <2>2
<1>7. id = "PL.2" /\ Proof(id, s, t) = MET => Proof(id, t, t) = MET
  <2>1. id = "PL.2" => /\ Proof(id, s, t) = Graded(c > 0 /\ c >= n, c > 0)
                       /\ Proof(id, t, t) = Graded(d > 0 /\ d >= n, d > 0)
    BY <1>1, <1>2 DEF Proof
  <2>2. c > 0 /\ c >= n => d > 0 /\ d >= n
    BY <1>1, <1>2
  <2>3. QED  BY <2>1, <2>2, Grading
<1>8. id = "PL.4" /\ Governance(id, s, t) = MET => Governance(id, t, t) = MET
  <2>1. id = "PL.4" /\ Governance(id, s, t) = MET => Grouped(s) # {} /\ g >= k
    BY <1>3, Grading DEF Governance
  <2>2. id = "PL.4" /\ Grouped(t) # {} /\ h >= k => Governance(id, t, t) = MET
    BY <1>3, Grading DEF Governance
  <2>3. QED  BY <1>3, <2>1, <2>2
<1>9. id = "PL.5" => Governance(id, s, t) = Governance(id, t, t)
  BY DEF Governance
<1>10. /\ id \in {"A.9.2", "A.9.3"} => AnnexA9(id, s, t) # MET
       /\ id \in {"A.10.1", "A.10.2", "A.10.4", "A.10.5"} => AnnexA10(id, s, t) # MET
       /\ id = "PL.3" => Proof(id, s, t) # MET
  BY Grading DEF AnnexA9, AnnexA10, Proof
<1>11. QED  BY <1>4, <1>5, <1>6, <1>7, <1>8, <1>9, <1>10


(* What is met of the counts of two moments is met of those of the later    *)
(* one, for all requirements but two.                                       *)
LEMMA MetStays ==
  ASSUME NEW s, NEW t, Earlier(s, t), NEW i \in 1..70,
         Requirements[i].id \notin {"8.5", "10.3"}, check_fn(Requirements[i], s, t) = MET
  PROVE  check_fn(Requirements[i], t, t) = MET
<1> DEFINE r == Requirements[i]
<1>1. CASE i \in 1..4 \/ i \in 5..7 \/ i \in 8..12
  <2>1. \/ r.part = "4" /\ r.id \in {"4.1", "4.2", "4.3", "4.4"}
        \/ r.part = "5" /\ r.id \in {"5.1", "5.2", "5.3"}
        \/ r.part = "6" /\ r.id \in {"6.1.1", "6.1.2", "6.1.3", "6.1.4", "6.2"}
    BY <1>1, Catalogue
  <2>2. check_fn(r, s, t) = MET
    OBVIOUS
  <2> HIDE DEF r
  <2>3. check_fn(r, t, t) = MET
    BY <2>1, <2>2, ChecksOfParts, MetStays4to6
  <2>4. QED  BY <2>3 DEF r
<1>2. CASE i \in 13..18 \/ i \in 19..24 \/ i \in 25..27 \/ i \in 28..30
  <2>1. \/ r.part \in {"7", "8", "9"}
        \/ r.part = "10" /\ r.id \in {"10.1", "10.2", "10.3"}
    BY <1>2, Catalogue
  <2>2. check_fn(r, s, t) = MET /\ r.id \notin {"8.5", "10.3"}
    OBVIOUS
  <2> HIDE DEF r
  <2>3. check_fn(r, t, t) = MET
    BY <2>1, <2>2, ChecksOfParts, MetStays7to10
  <2>4. QED  BY <2>3 DEF r
<1>3. CASE \/ i \in 31..34 \/ i \in 35..37 \/ i \in 38..40 \/ i \in 41..44
           \/ i \in 45..48 \/ i \in 49..53 \/ i \in 54..57
  <2>1. r.part \in {"A2", "A3", "A4", "A5", "A6", "A7", "A8"}
    BY <1>3, Catalogue
  <2>2. check_fn(r, s, t) = MET
    OBVIOUS
  <2> HIDE DEF r
  <2>3. check_fn(r, t, t) = MET
    BY <2>1, <2>2, ChecksOfParts, MetStaysA2to8
  <2>4. QED  BY <2>3 DEF r
<1>4. CASE i \in 58..60 \/ i \in 61..65 \/ i \in 66..68 \/ i \in 69..70
  <2>1. \/ r.part = "A9" /\ r.id \in {"A.9.1", "A.9.2", "A.9.3"}
        \/ r.part = "A10" /\ r.id \in {"A.10.1", "A.10.2", "A.10.3", "A.10.4", "A.10.5"}
        \/ r.part = "PL" /\ r.id \in {"PL.1", "PL.2", "PL.3"}
        \/ r.part = "governance" /\ r.id \in {"PL.4", "PL.5"}
    BY <1>4, Catalogue
  <2>2. check_fn(r, s, t) = MET
    OBVIOUS
  <2> HIDE DEF r
  <2>3. check_fn(r, t, t) = MET
    BY <2>1, <2>2, ChecksOfParts, MetStaysA9toGovernance
  <2>4. QED  BY <2>3 DEF r
<1>5. QED  BY <1>1, <1>2, <1>3, <1>4

-----------------------------------------------------------------------------
(* The graph only grows. *)

GraphOK ==
  /\ Numbered(decisions)
  /\ narrated \in [Names -> Nat]
  /\ stepped \in [Names -> Nat]

(* A check whose first query is done goes on with counts of an earlier graph. *)
FirstOK ==
  report.at # "idle" =>
    \/ report.first = <<>>
    \/ \E s : report.first = <<s>> /\ Earlier(s, Seen(report.scope))

NoLess(f, g) == \A a \in Names : f[a] <= g[a]

(* What a scope keeps of a graph that has grown. *)
LEMMA Narrowed ==
  ASSUME NEW less, NEW more, NEW scope, Numbered(less), Numbered(more), Within(less, more)
  PROVE  /\ Numbered(Of(less, scope)) /\ Numbered(Of(more, scope))
         /\ Within(Of(less, scope), Of(more, scope))
<1>1. /\ DOMAIN Of(less, scope) = {d \in DOMAIN less : scope \in {Everyone, d.agent}}
      /\ DOMAIN Of(more, scope) = {d \in DOMAIN more : scope \in {Everyone, d.agent}}
      /\ \A d \in DOMAIN Of(less, scope) : Of(less, scope)[d] = less[d]
      /\ \A d \in DOMAIN Of(more, scope) : Of(more, scope)[d] = more[d]
  BY DEF Of
<1>2. /\ DOMAIN Of(less, scope) \subseteq DOMAIN less
      /\ DOMAIN Of(more, scope) \subseteq DOMAIN more
      /\ DOMAIN Of(less, scope) \subseteq DOMAIN Of(more, scope)
  BY <1>1 DEF Within
<1>3. IsFiniteSet(DOMAIN Of(less, scope)) /\ IsFiniteSet(DOMAIN Of(more, scope))
  BY <1>2, FS_Subset DEF Numbered
<1>4. QED  BY <1>1, <1>2, <1>3 DEF Numbered, Within

(* What a scope keeps of tallies that have grown. *)
LEMMA TallyGrows ==
  ASSUME NEW f \in [Names -> Nat], NEW g \in [Names -> Nat], NoLess(f, g), NEW scope
  PROVE  Grows(By(f, scope), By(g, scope))
<1> DEFINE U == {a \in Names : scope \in {Everyone, a}}
<1>1. IsFiniteSet(U) /\ U \in SUBSET U
  BY FS_Subset, TemplateAssumption
<1>2. /\ \A a \in U : g[a] \in Nat
      /\ \A a \in U : f[a] \in Nat /\ f[a] <= g[a]
  BY DEF NoLess
<1>3. By(f, scope) = SumOf(f, U) /\ By(g, scope) = SumOf(g, U)
  BY DEF By
<1> HIDE DEF U
<1>4. QED  BY <1>1, <1>2, <1>3, SumBelow DEF Grows

(* A view of a graph that has grown is a later view. *)
LEMMA SeenEarlier ==
  ASSUME GraphOK, NEW scope,
         NEW D, Numbered(D), Within(decisions, D),
         NEW n \in [Names -> Nat], NoLess(narrated, n),
         NEW p \in [Names -> Nat], NoLess(stepped, p),
         NEW t, t.own = Of(D, scope), t.exceptions = By(n, scope), t.steps = By(p, scope)
  PROVE  Earlier(Seen(scope), t)
<1>1. /\ Seen(scope).own = Of(decisions, scope)
      /\ Seen(scope).exceptions = By(narrated, scope)
      /\ Seen(scope).steps = By(stepped, scope)
  BY DEF Seen
<1>2. Numbered(decisions) /\ narrated \in [Names -> Nat] /\ stepped \in [Names -> Nat]
  BY DEF GraphOK
<1>3. /\ Numbered(Of(decisions, scope)) /\ Numbered(Of(D, scope))
      /\ Within(Of(decisions, scope), Of(D, scope))
  BY <1>2, Narrowed
<1>4. Grows(By(narrated, scope), By(n, scope)) /\ Grows(By(stepped, scope), By(p, scope))
  BY <1>2, TallyGrows
<1>5. QED  BY <1>1, <1>3, <1>4 DEF Earlier, Grows

(* Earlier than earlier is earlier. *)
LEMMA EarlierTransitive ==
  ASSUME NEW s, NEW t, NEW u, Earlier(s, t), Earlier(t, u)
  PROVE  Earlier(s, u)
<1>1. Numbered(s.own) /\ Numbered(t.own) /\ Numbered(u.own)
  BY DEF Earlier
<1>2. Within(s.own, t.own) /\ Within(t.own, u.own)
  BY DEF Earlier
<1>3. Within(s.own, u.own)
  <2> SUFFICES ASSUME NEW d \in DOMAIN s.own
               PROVE  d \in DOMAIN u.own /\ s.own[d] <= u.own[d]
    BY DEF Within
  <2>1. d \in DOMAIN t.own /\ d \in DOMAIN u.own
    BY <1>2 DEF Within
  <2>2. PICK a \in Nat, b \in Nat, c \in Nat : a = s.own[d] /\ b = t.own[d] /\ c = u.own[d]
    BY <1>1, <2>1 DEF Numbered
  <2>3. a <= b /\ b <= c
    BY <1>2, <2>1, <2>2 DEF Within
  <2>4. QED  BY <2>1, <2>2, <2>3
<1>4. PICK a \in Nat, b \in Nat, c \in Nat :
        a = s.exceptions /\ b = t.exceptions /\ c = u.exceptions /\ a <= b /\ b <= c
  BY DEF Earlier
<1>5. PICK x \in Nat, y \in Nat, z \in Nat :
        x = s.steps /\ y = t.steps /\ z = u.steps /\ x <= y /\ y <= z
  BY DEF Earlier
<1>6. QED  BY <1>1, <1>3, <1>4, <1>5 DEF Earlier


Grown ==
  /\ Numbered(decisions') /\ Within(decisions, decisions')
  /\ narrated' \in [Names -> Nat] /\ NoLess(narrated, narrated')
  /\ stepped' \in [Names -> Nat] /\ NoLess(stepped, stepped')

LEMMA OneMore ==
  ASSUME NEW f \in [Names -> Nat], NEW a \in Names
  PROVE  /\ [f EXCEPT ![a] = @ + 1] \in [Names -> Nat]
         /\ NoLess(f, [f EXCEPT ![a] = @ + 1])
  BY DEF NoLess

(* A recording adds a decision and removes none. *)
LEMMA Recorded ==
  ASSUME Numbered(decisions), NEW t \in Templates, record_decision(t)
  PROVE  Numbered(decisions') /\ Within(decisions, decisions')
<1> DEFINE d == [t EXCEPT !.day = today]
<1>1. d.agent \in Names /\ d.steps \in Nat
  <2>1. "agent" \in DOMAIN t /\ "steps" \in DOMAIN t /\ t.steps \in Nat
    BY TemplateAssumption
  <2>2. d.agent = t.agent /\ d.steps = t.steps
    BY <2>1
  <2>3. QED  BY <2>1, <2>2 DEF Names
<1>2. decisions' = decisions (+) SetToBag({d})
  BY DEF record_decision
<1> HIDE DEF d
<1>3. /\ DOMAIN decisions' = DOMAIN decisions \cup {d}
      /\ \A e \in DOMAIN decisions' :
           decisions'[e] = (IF e \in DOMAIN decisions THEN decisions[e] ELSE 0)
                             + (IF e = d THEN 1 ELSE 0)
  BY <1>2 DEF (+), SetToBag
<1>4. IsFiniteSet(DOMAIN decisions')
  BY <1>3, FS_AddElement DEF Numbered
<1>5. \A e \in DOMAIN decisions' :
        decisions'[e] \in Nat /\ e.steps \in Nat /\ e.agent \in Names
  BY <1>1, <1>3 DEF Numbered
<1>6. \A e \in DOMAIN decisions : e \in DOMAIN decisions' /\ decisions[e] <= decisions'[e]
  <2> SUFFICES ASSUME NEW e \in DOMAIN decisions
               PROVE  e \in DOMAIN decisions' /\ decisions[e] <= decisions'[e]
    OBVIOUS
  <2>1. PICK n \in Nat : n = decisions[e]
    BY DEF Numbered
  <2>2. e \in DOMAIN decisions' /\ decisions'[e] = n + (IF e = d THEN 1 ELSE 0)
    BY <1>3, <2>1
  <2>3. QED  BY <2>1, <2>2
<1>7. QED  BY <1>4, <1>5, <1>6 DEF Numbered, Within

LEMMA GraphSame ==
  ASSUME GraphOK, UNCHANGED <<decisions, narrated, stepped>>
  PROVE  Grown
<1>1. Within(decisions, decisions)
  BY DEF GraphOK, Numbered, Within
<1>2. NoLess(narrated, narrated) /\ NoLess(stepped, stepped)
  BY DEF GraphOK, NoLess
<1>3. QED  BY <1>1, <1>2 DEF GraphOK, Grown

(* No step takes anything from the graph. *)
LEMMA GraphGrows ==
  ASSUME GraphOK, [Next]_vars
  PROVE  Grown
<1>1. ASSUME NEW t \in Templates, record_decision(t) PROVE Grown
  <2>1. Numbered(decisions') /\ Within(decisions, decisions')
    BY <1>1, Recorded DEF GraphOK
  <2>2. NoLess(narrated, narrated) /\ NoLess(stepped, stepped)
    BY DEF GraphOK, NoLess
  <2>3. QED  BY <1>1, <2>1, <2>2 DEF record_decision, GraphOK, Grown
<1>2. ASSUME NEW a \in Names, record_exception(a) PROVE Grown
  <2>1. narrated' \in [Names -> Nat] /\ NoLess(narrated, narrated')
    BY <1>2, OneMore DEF record_exception, GraphOK
  <2>2. Within(decisions, decisions) /\ NoLess(stepped, stepped)
    BY DEF GraphOK, Numbered, Within, NoLess
  <2>3. QED  BY <1>2, <2>1, <2>2 DEF record_exception, GraphOK, Grown
<1>3. ASSUME NEW a \in Names, add_trace_step(a) PROVE Grown
  <2>1. stepped' \in [Names -> Nat] /\ NoLess(stepped, stepped')
    BY <1>3, OneMore DEF add_trace_step, GraphOK
  <2>2. Within(decisions, decisions) /\ NoLess(narrated, narrated)
    BY DEF GraphOK, Numbered, Within, NoLess
  <2>3. QED  BY <1>3, <2>1, <2>2 DEF add_trace_step, GraphOK, Grown
<1>4. ASSUME NEW a, \/ record_cross_agent_edge \/ Pass(a) \/ generate_report(a)
                    \/ FirstQuery \/ LastQuery \/ QueryFails \/ UNCHANGED vars
      PROVE  UNCHANGED <<decisions, narrated, stepped>>
  BY <1>4 DEF record_cross_agent_edge, Pass, generate_report, FirstQuery, LastQuery,
              QueryFails, vars, evidence
<1>5. QED  BY <1>1, <1>2, <1>3, <1>4, GraphSame DEF Next

(* What a scope's queries saw is earlier than what they see.                *)
LEMMA SeenGrows ==
  ASSUME GraphOK, Grown, NEW scope
  PROVE  Earlier(Seen(scope), Seen(scope)')
<1>1. /\ Seen(scope)'.own = Of(decisions', scope)
      /\ Seen(scope)'.exceptions = By(narrated', scope)
      /\ Seen(scope)'.steps = By(stepped', scope)
  BY DEF Seen
<1>2. QED  BY <1>1, SeenEarlier DEF Grown

LEMMA SeenReflexive ==
  ASSUME GraphOK, NEW scope
  PROVE  Earlier(Seen(scope), Seen(scope))
<1>1. Within(decisions, decisions) /\ NoLess(narrated, narrated) /\ NoLess(stepped, stepped)
  BY DEF GraphOK, Numbered, Within, NoLess
<1>2. QED  BY <1>1, SeenEarlier DEF GraphOK, Seen

IInv == ReportOK /\ GraphOK /\ FirstOK

(* A first query stays earlier than what is seen now. *)
LEMMA FirstSteps ==
  ASSUME IInv, [Next]_vars
  PROVE  FirstOK'
<1>1. GraphOK /\ Grown /\ ReportOK /\ FirstOK
  BY GraphGrows DEF IInv
<1>2. CASE UNCHANGED report
  <2>1. PICK scope : scope = report.scope
    OBVIOUS
  <2>2. CASE report.at # "idle" /\ report.first # <<>>
    <3>1. PICK s : report.first = <<s>> /\ Earlier(s, Seen(scope))
      BY <1>1, <2>1, <2>2 DEF FirstOK
    <3>2. Earlier(s, Seen(scope)')
      BY <1>1, <3>1, SeenGrows, EarlierTransitive
    <3>3. Seen(report.scope)' = Seen(scope)'
      BY <1>2, <2>1
    <3>4. QED  BY <1>2, <3>1, <3>2, <3>3 DEF FirstOK
  <2>3. CASE report.at = "idle" \/ report.first = <<>>
    BY <1>2, <2>3 DEF FirstOK
  <2>4. QED  BY <2>2, <2>3
<1>3. ASSUME NEW scope, generate_report(scope) PROVE FirstOK'
  BY <1>3 DEF generate_report, FirstOK
<1>4. ASSUME LastQuery \/ QueryFails PROVE FirstOK'
  <2>1. Checking /\ \E status : Result(status)
    BY <1>4 DEF LastQuery, QueryFails
  <2>2. report'.first = <<>>
    BY <1>1, <2>1 DEF Result, ReportOK, Checking
  <2>3. QED  BY <2>2 DEF FirstOK
<1>5. CASE FirstQuery
  <2>1. PICK seq, scope, first :
          report = [at |-> "checking", scope |-> scope, results |-> seq, first |-> first]
    BY <1>1, <1>5 DEF FirstQuery, Checking, ReportOK
  <2>2. PICK seen : seen = Seen(scope)
    OBVIOUS
  <2>3. report' = [at |-> "checking", scope |-> scope, results |-> seq, first |-> <<seen>>]
    BY <1>5, <2>1, <2>2 DEF FirstQuery
  <2>4. Earlier(seen, Seen(scope)')
    BY <1>1, <2>2, SeenGrows
  <2>5. QED  BY <2>3, <2>4 DEF FirstOK
<1>6. ASSUME NEW a, \/ record_decision(a) \/ record_exception(a) \/ add_trace_step(a)
                    \/ record_cross_agent_edge \/ Pass(a) \/ UNCHANGED vars
      PROVE  UNCHANGED report
  BY <1>6 DEF record_decision, record_exception, add_trace_step, record_cross_agent_edge,
              Pass, vars
<1>7. QED  BY <1>2, <1>3, <1>4, <1>5, <1>6 DEF Next

LEMMA IInvHolds == Spec => []IInv
<1>1. Init => IInv
  <2> SUFFICES ASSUME Init PROVE IInv
    OBVIOUS
  <2>1. PICK s \in Seeds : decisions = s.decisions /\ narrated = s.narrated
    BY DEF Init
  <2>2. \A d \in DOMAIN decisions :
          decisions[d] \in Nat /\ d.steps \in Nat /\ d.agent \in Names
    BY <2>1, SeedAssumption DEF IsABag
  <2>3. IsFiniteSet(DOMAIN decisions) /\ narrated \in [Names -> Nat]
    BY <2>1, SeedAssumption
  <2>4. stepped \in [Names -> Nat]
    BY DEF Init
  <2>5. ReportOK /\ FirstOK
    BY DEF Init, NoReport, ReportOK, FirstOK
  <2>6. QED  BY <2>2, <2>3, <2>4, <2>5 DEF IInv, GraphOK, Numbered
<1>2. IInv /\ [Next]_vars => IInv'
  BY ReportSteps, GraphGrows, FirstSteps DEF IInv, GraphOK, Grown
<1>3. QED  BY <1>1, <1>2, PTL DEF Spec


(* Whatever is recorded between its queries, a requirement other than 8.5   *)
(* and 10.3 is reported MET only if the graph of its last query meets it    *)
(* (the order of the counts in the checks, for one _c6_4,                   *)
(* compliance.py:327-353).                                                  *)
THEOREM MetIsMet == Spec => MetHolds
<1> DEFINE MetStep ==
      Checking /\ report'.results # report.results
        /\ report'.results[Len(report'.results)] = MET
        /\ Current.id \notin {"8.5", "10.3"} =>
          check_fn(Current, Seen(report.scope), Seen(report.scope)) = MET
<1>1. IInv /\ [Next]_vars => MetStep
  <2> SUFFICES ASSUME IInv, [Next]_vars, Checking, report'.results # report.results,
                      report'.results[Len(report'.results)] = MET,
                      Current.id \notin {"8.5", "10.3"}
               PROVE  check_fn(Current, Seen(report.scope), Seen(report.scope)) = MET
    OBVIOUS
  <2>1. PICK seq, scope, first :
          /\ report = [at |-> "checking", scope |-> scope, results |-> seq, first |-> first]
          /\ seq \in Seq(Statuses) /\ Len(seq) < 70
    BY DEF IInv, ReportOK, Checking
  <2>2. LastQuery \/ QueryFails
    <3>1. ASSUME NEW a, \/ record_decision(a) \/ record_exception(a) \/ add_trace_step(a)
                        \/ record_cross_agent_edge \/ Pass(a) \/ UNCHANGED vars
          PROVE  FALSE
      BY <3>1 DEF record_decision, record_exception, add_trace_step,
                  record_cross_agent_edge, Pass, vars
    <3>2. ASSUME NEW a, generate_report(a) PROVE FALSE
      BY <3>2 DEF generate_report, Checking
    <3>3. ~FirstQuery
      BY <2>1 DEF FirstQuery
    <3>4. QED  BY <3>1, <3>2, <3>3 DEF Next
  <2>3. ASSUME NEW status, Result(status) PROVE status = MET
    <3>1. report'.results = Append(seq, status)
      BY <2>1, <2>3 DEF Result
    <3>2. status \in Statuses \/ status \notin Statuses
      OBVIOUS
    <3>3. Append(seq, status)[Len(Append(seq, status))] = status
      <4>1. seq \in Seq(Statuses \cup {status})
        BY <2>1
      <4>2. QED  BY <4>1
    <3>4. QED  BY <3>1, <3>3
  <2>4. ~QueryFails
    BY <2>3 DEF QueryFails, MET, NOT_MET
  <2>5. PICK seen : seen = Seen(report.scope)
    OBVIOUS
  <2>6. PICK s : /\ Result(check_fn(Current, s, seen))
                 /\ report.first = <<>> => s = seen
                 /\ report.first # <<>> => s = report.first[1]
    BY <2>2, <2>4, <2>5 DEF LastQuery
  <2>7. Earlier(s, seen)
    <3>1. CASE report.first = <<>>
      BY <2>5, <2>6, <3>1, SeenReflexive DEF IInv
    <3>2. CASE report.first # <<>>
      <4>1. PICK e : report.first = <<e>> /\ Earlier(e, Seen(report.scope))
        BY <2>1, <3>2 DEF IInv, FirstOK
      <4>2. s = e
        BY <2>6, <3>2, <4>1
      <4>3. QED  BY <2>5, <4>1, <4>2
    <3>3. QED  BY <3>1, <3>2
  <2>8. PICK i \in 1..70 : Current = Requirements[i]
    <3>1. PICK n \in Nat : n = Len(seq) /\ n < 70
      BY <2>1
    <3>2. \A k \in Nat : k < 70 => k + 1 \in 1..70
      OBVIOUS
    <3>3. Current = Requirements[n + 1]
      BY <2>1, <3>1 DEF Current
    <3>4. QED  BY <3>1, <3>2, <3>3, Zenon
  <2>9. check_fn(Requirements[i], s, seen) = MET
    BY <2>3, <2>6, <2>8
  <2>10. check_fn(Requirements[i], seen, seen) = MET
    BY <2>7, <2>8, <2>9, MetStays
  <2>11. QED  BY <2>5, <2>8, <2>10
<1>2. QED  BY <1>1, IInvHolds, PTL DEF Spec, MetHolds

-----------------------------------------------------------------------------
(* What an agent's checks see of the others. *)

(* s and t agree in what an agent's own activity consists of. *)
SameOwn(s, t) ==
  s.own = t.own /\ s.exceptions = t.exceptions /\ s.steps = t.steps /\ s.today = t.today

(* Views that agree in an agent's own activity agree in its counts. *)
LEMMA SameCounts ==
  ASSUME NEW s, NEW t, SameOwn(s, t)
  PROVE  /\ Total(s) = Total(t) /\ Overrides(s) = Overrides(t)
         /\ Escalations(s) = Escalations(t) /\ Reasoned(s) = Reasoned(t)
         /\ Tracked(s) = Tracked(t) /\ Personal(s) = Personal(t) /\ Logged(s) = Logged(t)
         /\ Recent(s) = Recent(t) /\ Agents(s) = Agents(t) /\ Grouped(s) = Grouped(t)
         /\ Steps(s) = Steps(t)
  BY DEF SameOwn, Total, Overrides, Escalations, Reasoned, Tracked, Personal, Logged,
         Recent, Agents, Grouped, Steps

(* So do the checks, clause by clause, but for three requirements. *)
LEMMA SameChecks ==
  ASSUME NEW s, NEW t, SameOwn(s, t), NEW id
  PROVE  /\ id \in {"4.1", "4.2", "4.3"} => Clause4(id, s, s) = Clause4(id, t, t)
         /\ id \in {"5.1", "5.2", "5.3"} => Clause5(id, s, s) = Clause5(id, t, t)
         /\ id \in {"6.1.1", "6.1.2", "6.1.4", "6.2"} => Clause6(id, s, s) = Clause6(id, t, t)
         /\ Clause7(id, s, s) = Clause7(id, t, t)
         /\ Clause8(id, s, s) = Clause8(id, t, t)
         /\ Clause9(id, s, s) = Clause9(id, t, t)
         /\ id \in {"10.1", "10.2", "10.3"} =>
              Clause10(id, s, s) = Clause10(id, t, t)
         /\ AnnexA2(id, s, s) = AnnexA2(id, t, t)
         /\ AnnexA3(id, s, s) = AnnexA3(id, t, t)
         /\ AnnexA4(id, s, s) = AnnexA4(id, t, t)
         /\ AnnexA5(id, s, s) = AnnexA5(id, t, t)
         /\ AnnexA6(id, s, s) = AnnexA6(id, t, t)
         /\ AnnexA7(id, s, s) = AnnexA7(id, t, t)
         /\ AnnexA8(id, s, s) = AnnexA8(id, t, t)
         /\ id \in {"A.9.1", "A.9.2", "A.9.3"} =>
              AnnexA9(id, s, s) = AnnexA9(id, t, t)
         /\ id \in {"A.10.1", "A.10.2", "A.10.3", "A.10.4", "A.10.5"} =>
              AnnexA10(id, s, s) = AnnexA10(id, t, t)
         /\ id \in {"PL.1", "PL.2", "PL.3"} =>
              Proof(id, s, s) = Proof(id, t, t)
         /\ id = "PL.4" => Governance(id, s, s) = Governance(id, t, t)
<1>1. s.own = t.own /\ s.exceptions = t.exceptions
  BY DEF SameOwn
<1>2. id \in {"4.1", "4.2", "4.3"} => Clause4(id, s, s) = Clause4(id, t, t)
  BY SameCounts DEF Clause4
<1>3. id \in {"5.1", "5.2", "5.3"} => Clause5(id, s, s) = Clause5(id, t, t)
  BY SameCounts DEF Clause5
<1>4. id \in {"6.1.1", "6.1.2", "6.1.4", "6.2"} => Clause6(id, s, s) = Clause6(id, t, t)
  BY <1>1, SameCounts DEF Clause6
<1>5. Clause7(id, s, s) = Clause7(id, t, t)
  BY SameCounts DEF Clause7
<1>6. Clause8(id, s, s) = Clause8(id, t, t)
  <2>1. id = "8.1" => Clause8(id, s, s) = Clause8(id, t, t)
    BY <1>1, SameCounts DEF Clause8
  <2>2. id = "8.2" => Clause8(id, s, s) = Clause8(id, t, t)
    BY <1>1, SameCounts DEF Clause8
  <2>3. id = "8.3" => Clause8(id, s, s) = Clause8(id, t, t)
    BY <1>1, SameCounts DEF Clause8
  <2>4. id = "8.5" => Clause8(id, s, s) = Clause8(id, t, t)
    BY <1>1, SameCounts DEF Clause8
  <2>5. id \notin {"8.1", "8.2", "8.3", "8.5"} => Clause8(id, s, s) = Clause8(id, t, t)
    BY DEF Clause8
  <2>6. QED  BY <2>1, <2>2, <2>3, <2>4, <2>5
<1>7. Clause9(id, s, s) = Clause9(id, t, t)
  BY <1>1, SameCounts DEF Clause9
<1>8. id \in {"10.1", "10.2", "10.3"} => Clause10(id, s, s) = Clause10(id, t, t)
  <2>1. id = "10.1" => Clause10(id, s, s) = Clause10(id, t, t)
    BY <1>1, SameCounts DEF Clause10
  <2>2. id = "10.2" => Clause10(id, s, s) = Clause10(id, t, t)
    BY <1>1, SameCounts DEF Clause10
  <2>3. id = "10.3" => Clause10(id, s, s) = Clause10(id, t, t)
    BY <1>1, SameCounts DEF Clause10
  <2>4. QED  BY <2>1, <2>2, <2>3
<1>9. AnnexA2(id, s, s) = AnnexA2(id, t, t)
  BY <1>1, SameCounts DEF AnnexA2
<1>10. AnnexA3(id, s, s) = AnnexA3(id, t, t)
  BY SameCounts DEF AnnexA3
<1>11. AnnexA4(id, s, s) = AnnexA4(id, t, t)
  BY SameCounts DEF AnnexA4
<1>12. AnnexA5(id, s, s) = AnnexA5(id, t, t)
  BY SameCounts DEF AnnexA5
<1>13. AnnexA6(id, s, s) = AnnexA6(id, t, t)
  BY SameCounts DEF AnnexA6
<1>14. AnnexA7(id, s, s) = AnnexA7(id, t, t)
  BY SameCounts DEF AnnexA7
<1>15. AnnexA8(id, s, s) = AnnexA8(id, t, t)
  BY SameCounts DEF AnnexA8
<1>16. id \in {"A.9.1", "A.9.2", "A.9.3"} => AnnexA9(id, s, s) = AnnexA9(id, t, t)
  <2>1. id = "A.9.1" => AnnexA9(id, s, s) = AnnexA9(id, t, t)
    BY <1>1, SameCounts DEF AnnexA9
  <2>2. id = "A.9.2" => AnnexA9(id, s, s) = AnnexA9(id, t, t)
    BY <1>1, SameCounts DEF AnnexA9
  <2>3. id = "A.9.3" => AnnexA9(id, s, s) = AnnexA9(id, t, t)
    BY <1>1, SameCounts DEF AnnexA9
  <2>4. QED  BY <2>1, <2>2, <2>3
<1>17. id \in {"A.10.1", "A.10.2", "A.10.3", "A.10.4", "A.10.5"} =>
         AnnexA10(id, s, s) = AnnexA10(id, t, t)
  <2>1. id = "A.10.1" => AnnexA10(id, s, s) = AnnexA10(id, t, t)
    BY <1>1, SameCounts DEF AnnexA10
  <2>2. id = "A.10.2" => AnnexA10(id, s, s) = AnnexA10(id, t, t)
    BY <1>1, SameCounts DEF AnnexA10
  <2>3. id = "A.10.3" => AnnexA10(id, s, s) = AnnexA10(id, t, t)
    BY <1>1, SameCounts DEF AnnexA10
  <2>4. id = "A.10.4" => AnnexA10(id, s, s) = AnnexA10(id, t, t)
    BY <1>1, SameCounts DEF AnnexA10
  <2>5. id = "A.10.5" => AnnexA10(id, s, s) = AnnexA10(id, t, t)
    BY <1>1, SameCounts DEF AnnexA10
  <2>6. QED  BY <2>1, <2>2, <2>3, <2>4, <2>5
<1>18. id \in {"PL.1", "PL.2", "PL.3"} => Proof(id, s, s) = Proof(id, t, t)
  <2>1. id = "PL.1" => Proof(id, s, s) = Proof(id, t, t)
    BY <1>1, SameCounts DEF Proof
  <2>2. id = "PL.2" => Proof(id, s, s) = Proof(id, t, t)
    BY <1>1, SameCounts DEF Proof
  <2>3. id = "PL.3" => Proof(id, s, s) = Proof(id, t, t)
    BY <1>1, SameCounts DEF Proof
  <2>4. QED  BY <2>1, <2>2, <2>3
<1>19. id = "PL.4" => Governance(id, s, s) = Governance(id, t, t)
  BY SameCounts DEF Governance
<1>20. QED  BY <1>2, <1>3, <1>4, <1>5, <1>6, <1>7, <1>8, <1>9, <1>10, <1>11, <1>12, <1>13,
               <1>14, <1>15, <1>16, <1>17, <1>18, <1>19

LEMMA SameStatus ==
  ASSUME NEW s, NEW t, SameOwn(s, t), NEW i \in 1..70,
         Requirements[i].id \notin {"4.4", "6.1.3", "PL.5"}
  PROVE  check_fn(Requirements[i], s, s) = check_fn(Requirements[i], t, t)
<1> DEFINE r == Requirements[i]
<1>1. \/ r.part = "4" /\ r.id \in {"4.1", "4.2", "4.3"}
      \/ r.part = "5" /\ r.id \in {"5.1", "5.2", "5.3"}
      \/ r.part = "6" /\ r.id \in {"6.1.1", "6.1.2", "6.1.4", "6.2"}
      \/ r.part \in {"7", "8", "9", "A2", "A3", "A4", "A5", "A6", "A7", "A8"}
      \/ r.part = "10" /\ r.id \in {"10.1", "10.2", "10.3"}
      \/ r.part = "A9" /\ r.id \in {"A.9.1", "A.9.2", "A.9.3"}
      \/ r.part = "A10" /\ r.id \in {"A.10.1", "A.10.2", "A.10.3", "A.10.4", "A.10.5"}
      \/ r.part = "PL" /\ r.id \in {"PL.1", "PL.2", "PL.3"}
      \/ r.part = "governance" /\ r.id = "PL.4"
  <2>1. \/ i \in 1..4 \/ i \in 5..7 \/ i \in 8..12 \/ i \in 13..18 \/ i \in 19..24
        \/ i \in 25..27 \/ i \in 28..30 \/ i \in 31..34 \/ i \in 35..37 \/ i \in 38..40
        \/ i \in 41..44 \/ i \in 45..48 \/ i \in 49..53 \/ i \in 54..57 \/ i \in 58..60
        \/ i \in 61..65 \/ i \in 66..68 \/ i \in 69..70
    OBVIOUS
  <2>2. QED  BY <2>1, Catalogue, SMTT(30)
<1> HIDE DEF r
<1>2. check_fn(r, s, s) = check_fn(r, t, t)
  BY <1>1, ChecksOfParts, SameChecks
<1>3. QED  BY <1>2 DEF r

(* An agent's scope keeps its own tally only. *)
LEMMA OwnTally ==
  ASSUME NEW tally, NEW a \in Names
  PROVE  By(tally, a) = tally[a] + 0
<1>1. {b \in Names : a \in {Everyone, b}} = {a}
  BY NameAssumption
<1>2. QED  BY <1>1, SumOfOne DEF By

(* The status of an agent's requirements does not depend on what others     *)
(* record, but for 4.4, 6.1.3 and PL.5 (the agent filter of the queries,    *)
(* compliance.py:92-96).                                                    *)
THEOREM OthersDoNotCount == Spec => OthersChangeNothing
<1> DEFINE Kept(a) ==
      /\ Of(decisions', a) = Of(decisions, a) /\ narrated'[a] = narrated[a]
      /\ stepped'[a] = stepped[a] /\ today' = today
<1>1. ASSUME NEW a \in Names, Kept(a), NEW i \in DOMAIN Requirements,
             Requirements[i].id \notin {"4.4", "6.1.3", "PL.5"}
      PROVE  check_fn(Requirements[i], Seen(a)', Seen(a)')
               = check_fn(Requirements[i], Seen(a), Seen(a))
  <2>1. PICK s, t : s = Seen(a) /\ t = Seen(a)'
    OBVIOUS
  <2>2. By(narrated', a) = By(narrated, a) /\ By(stepped', a) = By(stepped, a)
    BY <1>1, OwnTally
  <2>3. SameOwn(t, s)
    BY <1>1, <2>1, <2>2 DEF Seen, SameOwn
  <2>4. i \in 1..70
    BY CatalogueSize
  <2>5. check_fn(Requirements[i], t, t) = check_fn(Requirements[i], s, s)
    BY <1>1, <2>3, <2>4, SameStatus
  <2>6. QED  BY <2>1, <2>5
<1> DEFINE Indifferent ==
      evidence' # evidence => \A a \in Names :
        Of(decisions', a) = Of(decisions, a) /\ narrated'[a] = narrated[a]
          /\ stepped'[a] = stepped[a] /\ today' = today =>
            \A i \in DOMAIN Requirements :
              Requirements[i].id \notin {"4.4", "6.1.3", "PL.5"} =>
                LET own == Seen(a)
                    later == Seen(a)'
                IN check_fn(Requirements[i], later, later) = check_fn(Requirements[i], own, own)
<1>2. Indifferent
  BY <1>1
<1>3. QED  BY <1>2, PTL DEF Spec, OthersChangeNothing

=============================================================================
