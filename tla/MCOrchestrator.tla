--------------------------- MODULE MCOrchestrator ---------------------------
(* One or two calls of one session. *)
EXTENDS Orchestrator

MCSessions == {"s"}
MCSessionOf == [c \in Calls |-> "s"]
MCIntents == {"refund", "fraud", "greeting"}
MCAgents == {"billing-agent", "fraud-agent"}

(* The table sends greetings to an agent that is never loaded. *)
MCNames == MCAgents \cup {"triage-agent-en"}
MCRoutingTable == [i \in MCIntents |->
  CASE i = "refund" -> "billing-agent"
    [] i = "fraud" -> "fraud-agent"
    [] i = "greeting" -> "triage-agent-en"]

(* Each tier, an agent the classifier names against the table, an intent   *)
(* of null; a reflection may revise to an agent that is not loaded.        *)
Label(i, h, t) == [intent |-> i, hint |-> h, tier |-> t]
MCLabels ==
  {Label("refund", NoAgent, 1), Label("refund", "fraud-agent", 2),
   Label("refund", NoAgent, 3), Label(NoIntent, NoAgent, 1)}

=============================================================================
