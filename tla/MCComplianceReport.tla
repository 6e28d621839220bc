------------------------- MODULE MCComplianceReport -------------------------
(* ComplianceReport for TLC: what the two triage graphs and an orchestrated  *)
(* agent record, over graphs at the thresholds of the checks.                *)
EXTENDS ComplianceReport

Decision(agent, session, reasoning, escalated, pii, group, confidence, policies, steps) ==
  [agent |-> agent, arabic |-> agent = "triage-agent-ar", session |-> session,
   reasoning |-> reasoning, escalation |-> escalated, human_override |-> escalated,
   contains_pii |-> pii, group |-> group, confidence |-> confidence, policies |-> policies,
   steps |-> steps, input |-> reasoning, day |-> Today]

Answered == Decision("triage-agent-ar", TRUE, TRUE, FALSE, FALSE, FALSE, 95, 1, 0)
Escalated == Decision("triage-agent-ar", TRUE, TRUE, TRUE, FALSE, FALSE, 60, 2, 0)
Handled == Decision("billing-agent", TRUE, FALSE, FALSE, TRUE, TRUE, 88, 0, 2)

MCTemplates == {Answered, Escalated, Handled}

On(day, t) == [t EXCEPT !.day = day]

Seed(decided, exceptions, cross) ==
  [decisions |-> decided, narrated |-> [a \in Names |-> exceptions], crossed |-> cross]

MCSeeds ==
  {Seed(EmptyBag, 0, 0),
   \* four policy applications, one below the threshold
   Seed(On(6, Answered) :> 4, 0, 4),
   \* two weeks; one of ten decisions escalated, six explained: a recording decides
   Seed((On(0, Escalated) :> 1) @@ (On(6, Answered) :> 5) @@ (On(6, Handled) :> 4), 0, 0),
   \* one of nine escalated
   Seed((On(0, Escalated) :> 1) @@ (On(6, Answered) :> 8), 1, 0),
   \* everything the graph can show
   Seed((On(0, [Handled EXCEPT !.reasoning = TRUE, !.input = TRUE]) :> 100)
          @@ (On(6, [Escalated EXCEPT !.group = TRUE, !.steps = 2]) :> 5)
          @@ (On(7, [Answered EXCEPT !.group = TRUE, !.steps = 2]) :> 20), 5, 5)}
=============================================================================
