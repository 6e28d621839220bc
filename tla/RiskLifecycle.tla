---------------------------- MODULE RiskLifecycle ----------------------------
(***************************************************************************)
(* What the risk register promises about one risk whatever its storage:    *)
(* records are only added, and the status a reader sees is "open" or names *)
(* a record that exists.  RiskRegister implements it with both storages.   *)
(***************************************************************************)

CONSTANTS Risks, Kinds

VARIABLES shown,      \* shown[r]: the status a reader sees
          recorded    \* recorded[r]: the kinds of record r has

vars == <<shown, recorded>>

Init == /\ shown = [r \in Risks |-> "none"]
        /\ recorded = [r \in Risks |-> {}]

Identify(r) ==
  /\ shown[r] = "none"
  /\ shown' = [shown EXCEPT ![r] = "open"]
  /\ UNCHANGED recorded

\* A record is added; the status may follow at once or later.
Record(r, k) ==
  /\ shown[r] # "none"
  /\ recorded' = [recorded EXCEPT ![r] = @ \union {k}]
  /\ \/ UNCHANGED shown
     \/ shown' = [shown EXCEPT ![r] = k]

Show(r, k) ==
  /\ k \in recorded[r]
  /\ shown' = [shown EXCEPT ![r] = k]
  /\ UNCHANGED recorded

Next == \E r \in Risks : \/ Identify(r)
                         \/ \E k \in Kinds : Record(r, k) \/ Show(r, k)

Spec == Init /\ [][Next]_vars
==============================================================================
