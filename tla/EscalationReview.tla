-------------------------- MODULE EscalationReview --------------------------
(***************************************************************************)
(* What the triage service promises about a customer message, whatever the *)
(* graph does inside: it is answered by the agent, or held for a human who *)
(* approves or declines it once.  A held message is decided only by a      *)
(* human, and is dropped when a newer message takes over its thread or the *)
(* process restarts.  Every outcome is final.                              *)
(***************************************************************************)
EXTENDS Naturals

CONSTANT Messages

VARIABLE stage

Stages == {"new", "working", "answered", "held", "approved", "declined", "dropped",
           "refused", "failed"}

TypeOK == stage \in [Messages -> Stages]

Init == stage = [m \in Messages |-> "new"]

Move(m, from, to) == stage[m] = from /\ stage' = [stage EXCEPT ![m] = to]

Refuse(m) == Move(m, "new", "refused")
Fail(m)   == Move(m, "working", "failed")
Answer(m) == Move(m, "working", "answered")
Hold(m)   == Move(m, "working", "held")
Decide(m) == \E v \in {"approved", "declined"} : Move(m, "held", v)

(* A new message enters; at most one held message, its thread's, gives way.*)
Submit(m) ==
  /\ stage[m] = "new"
  /\ \E dropped \in {{}} \cup {{h} : h \in {h \in Messages : stage[h] = "held"}} :
       stage' = [n \in Messages |->
                   IF n = m THEN "working" ELSE IF n \in dropped THEN "dropped" ELSE stage[n]]

(* A restart: nothing that was under way or held survives. *)
Crash ==
  stage' = [m \in Messages |->
              CASE stage[m] = "working" -> "failed"
                [] stage[m] = "held" -> "dropped"
                [] OTHER -> stage[m]]

Next ==
  \/ \E m \in Messages : Refuse(m) \/ Submit(m) \/ Fail(m) \/ Answer(m) \/ Hold(m) \/ Decide(m)
  \/ Crash

Spec == Init /\ [][Next]_stage

=============================================================================
