---------------------------- MODULE Specialists ----------------------------
(***************************************************************************)
(* What the seven specialist agents make of a message and of what the      *)
(* other agents concluded earlier in the session (orchestrator/agents/),   *)
(* and the singleton that holds their common memory                        *)
(* (app/multi_agent_routes.py).  Which agent gets a message is the         *)
(* router's choice: module Orchestrator.                                   *)
(*                                                                         *)
(* A message is what the agents look for in it: how many keywords of each  *)
(* category it hits, the other signs they search, the numbers it holds.    *)
(* Confidences, weights and probabilities are hundredths; the sums of      *)
(* floats in the code fall on the same side of every threshold.            *)
(***************************************************************************)
EXTENDS Integers, Sequences, FiniteSets, FiniteSetsExt, TLC

CONSTANTS
  Calls,      \* calls that reach an agent
  Warmer,     \* the thread that prepares the orchestrator at startup
  Requests,   \* what is asked: session, agent, message
  Seed,       \* sum of the characters of each session id
  Threads,    \* calls that run at once
  Nothing     \* no orchestrator yet

Agents == {"billing-agent", "fraud-detection-agent", "retention-agent",
           "loyalty-agent", "complaints-agent", "sales-agent",
           "technical-agent"}

ASSUME ThreadAssumption == Warmer \notin Calls /\ Nothing \notin Calls \cup {Warmer}
ASSUME RequestAssumption ==
  \A r \in Requests :
    /\ r.agent \in Agents
    /\ \A i \in DOMAIN r.message.hits : r.message.hits[i] \in Nat
    /\ Seed[r.session] \in Nat

(* Each agent's categories in the order they are searched, its answer to a *)
(* message that hits none, and how its confidence grows with the hits.     *)
Finds(intents, fallback, guess, floor, gain, cap) ==
  [intents |-> intents, fallback |-> fallback, guess |-> guess,
   floor |-> floor, gain |-> gain, cap |-> cap]

BillingWords == Finds(
  <<"refund_request", "billing_error", "invoice_dispute", "payment_failed",
    "subscription_change", "pricing_inquiry">>,
  "billing_inquiry", 70, 78, 5, 97)
FraudWords == Finds(
  <<"fraud_report", "account_compromise", "suspicious_transaction",
    "unusual_activity", "block_request", "verification_request">>,
  "suspicious_transaction", 72, 80, 5, 97)
RetentionWords == Finds(
  <<"cancellation_request", "downgrade_request", "competitor_mention",
    "dissatisfaction", "win_back", "loyalty_inquiry">>,
  "cancellation_request", 72, 78, 5, 97)
LoyaltyWords == Finds(
  <<"points_inquiry", "redemption_request", "tier_status",
    "benefit_inquiry", "points_transfer", "loyalty_complaint">>,
  "points_inquiry", 70, 78, 5, 97)
ComplaintWords == Finds(
  <<"regulatory_complaint", "safety_concern", "agent_complaint",
    "billing_complaint", "service_grievance", "escalation">>,
  "escalation", 72, 78, 5, 97)
SalesWords == Finds(
  <<"upgrade_request", "promo_inquiry", "plan_comparison", "cross_sell",
    "upsell_opportunity", "lead_capture">>,
  "plan_comparison", 70, 78, 5, 96)
TechnicalWords == Finds(
  <<"service_outage", "connectivity_issue", "api_error",
    "performance_issue", "device_config", "feature_request">>,
  "technical_issue", 70, 78, 4, 97)

(* The first category with a hit settles the intent; its hits alone count. *)
Scan(words, m) ==
  LET hit == {i \in DOMAIN words.intents : words.intents[i] \in DOMAIN m.hits}
      first == words.intents[Min(hit)]
  IN  IF hit = {} THEN [intent |-> words.fallback, conf |-> words.guess]
      ELSE [intent |-> first,
            conf |-> Min({words.cap, words.floor + words.gain * m.hits[first]})]

Raise(guess, by, cap) == [guess EXCEPT !.conf = Min({cap, @ + by})]

(* A context lists decisions, each at its place in the session; it names   *)
(* the agent and the intent of each.                                       *)
Empty(ctx) == DOMAIN ctx = {}
Says(ctx, word) == \E i \in DOMAIN ctx : word \in {ctx[i].agent, ctx[i].intent}
TimesSaid(ctx, word) == Cardinality({i \in DOMAIN ctx : ctx[i].intent = word})

SumOf(weights, S) == MapThenSumSet(LAMBDA x : weights[x], S)

Amount(m) == IF m.amounts = {} THEN 0 ELSE Max(m.amounts)

Answer(guess, outcome, level) ==
  [intent |-> guess.intent, conf |-> guess.conf, outcome |-> outcome,
   level |-> level]

-----------------------------------------------------------------------------
(* billing-agent.  An error is reversed whatever its amount.  The alert is  *)
(* written from the failures that OTHER agents reported in the session.    *)

BillingGuess(m, ctx) ==
  LET g == Scan(BillingWords, m)
  IN  IF /\ g.intent \in {"billing_error", "payment_failed"}
         /\ Says(ctx, "fraud-detection-agent")
      THEN Raise(g, 4, 99) ELSE g

RefundTier(m) ==
  CASE m.amounts = {} -> "finance"
    [] m.amounts # {} /\ Max(m.amounts) <= 50 -> "refunded"
    [] m.amounts # {} /\ Max(m.amounts) \in 51 .. 200 -> "manager"
    [] OTHER -> "finance"

Billing(m, ctx) ==
  LET g == BillingGuess(m, ctx)
      alert == TimesSaid(ctx, "payment_failed") >= 3
  IN  CASE g.intent = "refund_request" -> Answer(g, RefundTier(m), 0)
        [] g.intent = "billing_error" -> Answer(g, "reversed", 0)
        [] g.intent = "invoice_dispute" -> Answer(g, "suspended", 0)
        [] g.intent = "payment_failed" ->
             Answer(g, IF alert THEN "fraud signal" ELSE "advice", 0)
        [] OTHER -> Answer(g, "logged", 0)

-----------------------------------------------------------------------------
(* fraud-detection-agent. *)

RISK_WEIGHTS == [velocity |-> 30, geo_anomaly |-> 25, new_device |-> 15,
                 time_anomaly |-> 10]

HighValue(m) ==
  IF Amount(m) >= 5000 THEN 20 ELSE IF Amount(m) >= 2500 THEN 10 ELSE 0

BillingPattern(ctx) ==
  LET n == TimesSaid(ctx, "payment_failed")
  IN  IF n >= 2 THEN Min({20, 7 * n}) ELSE 0

Risk(m, ctx) ==
  Min({95, SumOf(RISK_WEIGHTS, DOMAIN RISK_WEIGHTS \cap m.signs)
           + HighValue(m) + BillingPattern(ctx)})

Fraud(m, ctx) ==
  LET g == Scan(FraudWords, m)
      risk == Risk(m, ctx)
      sure == IF risk >= 80 THEN [g EXCEPT !.conf = Max({@, 92})] ELSE g
      outcome ==
        CASE risk >= 80 ->
               IF g.intent \in {"fraud_report", "account_compromise"}
               THEN "secured" ELSE "blocked"
          [] risk \in 50 .. 79 -> "held"
          [] risk < 50 /\ g.intent = "block_request" -> "locked"
          [] OTHER -> "approved"
  IN  Answer(sure, outcome, risk)

-----------------------------------------------------------------------------
(* retention-agent.  The segment is computed from the first 20 characters  *)
(* of the context, which are those of its title, or from a fixed word: the *)
(* customer's segment is "medium_value" in both cases.                     *)

BASE_CHURN == [cancellation_request |-> 75, downgrade_request |-> 45,
               competitor_mention |-> 60, dissatisfaction |-> 50,
               win_back |-> 15, loyalty_inquiry |-> 10]

CHURN_AMPLIFIERS ==
  [billing_error |-> 15, payment_failed |-> 10, invoice_dispute |-> 12,
   service_outage |-> 8, api_error |-> 6, regulatory_complaint |-> 20,
   safety_concern |-> 25, agent_complaint |-> 18, service_grievance |-> 15,
   dissatisfaction |-> 12, competitor_mention |-> 18]

Churn(intent, ctx) ==
  Min({99, BASE_CHURN[intent]
           + SumOf(CHURN_AMPLIFIERS, {s \in DOMAIN CHURN_AMPLIFIERS : Says(ctx, s)})})

Apologises(ctx) ==
  \E s \in {"billing_error", "payment_failed", "service_outage", "api_error",
            "connectivity_issue", "agent_complaint", "service_grievance"} :
    Says(ctx, s)

Retention(m, ctx) ==
  LET s == Scan(RetentionWords, m)
      g == IF Empty(ctx) THEN s ELSE Raise(s, 4, 99)
      outcome ==
        CASE g.intent = "cancellation_request" -> "one month free and 20%"
          [] g.intent = "downgrade_request" -> "20% for 6 months"
          [] g.intent = "competitor_mention" -> "pricing approval"
          [] g.intent = "dissatisfaction" -> "credit"
          [] g.intent = "win_back" -> "two months free"
          [] g.intent = "loyalty_inquiry" -> "15%"
  IN  Answer(g, <<outcome, Apologises(ctx) /\ g.intent \notin
                             {"win_back", "loyalty_inquiry"}>>,
             Churn(g.intent, ctx))

-----------------------------------------------------------------------------
(* loyalty-agent, on a profile made up from the session id. *)

TIERS == <<0, 5000, 15000, 50000>>

Loyalty(m, session) ==
  LET s == Scan(LoyaltyWords, m)
      g == IF s.intent = "loyalty_complaint" THEN [s EXCEPT !.conf = Max({@, 86})]
           ELSE s
      points == 7500 + (Seed[session] % 20000)
      tier == Max({i \in DOMAIN TIERS : points >= TIERS[i]})
      toNext == IF tier = Len(TIERS) THEN 0 ELSE TIERS[tier + 1] - points
  IN  CASE g.intent \in {"points_inquiry", "tier_status"} ->
             Answer(g, <<"tier", tier>>, toNext)
        [] g.intent = "redemption_request" ->
             Answer(g, IF points < 100 THEN "too few" ELSE "redeem", points)
        [] g.intent = "points_transfer" -> Answer(g, "transfer", points \div 4)
        [] OTHER -> Answer(g, "logged", tier)

-----------------------------------------------------------------------------
(* complaints-agent.  A sign of danger overrides the category; "hostile"   *)
(* is a keyword of the category and no such sign.                          *)

Severity(intent, m) ==
  CASE intent = "safety_concern" -> 4
    [] intent \in {"regulatory_complaint", "agent_complaint"} -> 3
    [] OTHER -> IF "legal" \in m.signs THEN 3
                ELSE IF intent = "service_grievance" /\ "loyal" \in m.signs
                THEN 2 ELSE 1

Complaints(m, ctx) ==
  LET s == Scan(ComplaintWords, m)
      d == IF "danger" \in m.signs
           THEN [intent |-> "safety_concern", conf |-> 98] ELSE s
      g == IF ~Empty(ctx) /\ d.conf < 85 THEN Raise(d, 4, 90) ELSE d
      outcome ==
        CASE g.intent = "regulatory_complaint" -> "compliance"
          [] g.intent = "safety_concern" -> "senior management"
          [] g.intent = "agent_complaint" -> "quality"
          [] g.intent = "billing_complaint" -> "suspended"
          [] OTHER -> "manager"
  IN  Answer(g, outcome, Severity(g.intent, m))

-----------------------------------------------------------------------------
(* sales-agent.  Only an upgrade looks at whether the customer may leave,  *)
(* and withholds the annual promotion then; every other offer is made to   *)
(* all.                                                                    *)

AtRisk(ctx) ==
  \E s \in {"cancellation_request", "dissatisfaction", "competitor_mention",
            "billing_error", "complaints-agent"} : Says(ctx, s)

Sales(m, ctx) ==
  LET s == Scan(SalesWords, m)
      code == "promo code" \in m.signs
      g == IF code THEN [intent |-> "promo_inquiry", conf |-> 95] ELSE s
      outcome ==
        CASE g.intent = "upgrade_request" ->
               IF AtRisk(ctx) THEN "loyalty price" ELSE "annual promotion"
          [] g.intent = "promo_inquiry" ->
               IF code THEN "applied" ELSE "promotions"
          [] OTHER -> g.intent
  IN  Answer(g, outcome,
             IF g.intent = "upgrade_request" /\ AtRisk(ctx) THEN 1 ELSE 0)

-----------------------------------------------------------------------------
(* technical-agent.  Its context never holds a decision of its own. *)

Technical(m, ctx) ==
  LET s == Scan(TechnicalWords, m)
      level == IF "critical" \in m.signs THEN 3
               ELSE IF "many" \in m.signs THEN 2 ELSE 1
      p1 == level = 3 /\ s.intent = "service_outage"
      q == IF p1 THEN Raise(s, 5, 99) ELSE s
      g == IF Says(ctx, "technical-agent") THEN Raise(q, 4, 99) ELSE q
      outcome ==
        IF p1 THEN "service credit"
        ELSE IF g.intent = "device_config" /\ "hardware" \in m.signs
        THEN "L2 approval" ELSE g.intent
  IN  Answer(g, outcome, level)

-----------------------------------------------------------------------------
(* process(): classify, then respond, on the context read at dispatch. *)

process(agent, session, m, ctx) ==
  CASE agent = "billing-agent" -> Billing(m, ctx)
    [] agent = "fraud-detection-agent" -> Fraud(m, ctx)
    [] agent = "retention-agent" -> Retention(m, ctx)
    [] agent = "loyalty-agent" -> Loyalty(m, session)
    [] agent = "complaints-agent" -> Complaints(m, ctx)
    [] agent = "sales-agent" -> Sales(m, ctx)
    [] agent = "technical-agent" -> Technical(m, ctx)

Sessions == {r.session : r \in Requests}
Makers == Calls \cup {Warmer}

VARIABLES
  orchestrator, \* the singleton: who made the one that is current
  stage,        \* where each call, and the warmer, is
  asked,        \* what each call asks
  held,         \* the orchestrator each call works with
  known,        \* the sessions each orchestrator's memory has
  memory,       \* the decisions in each orchestrator's memory, by session
  reply,        \* what the agent answered
  before,       \* history: the calls over before each thread began
  lost          \* history: calls whose memory was dropped under them

vars == <<orchestrator, stage, asked, held, known, memory, reply, before, lost>>

Init ==
  /\ orchestrator = Nothing
  /\ stage = [t \in Makers |-> "new"]
  /\ asked = [c \in Calls |-> Nothing]
  /\ held = [t \in Makers |-> Nothing]
  /\ known = [t \in Makers |-> {}]
  /\ memory = [t \in Makers |-> [s \in Sessions |-> <<>>]]
  /\ reply = [c \in Calls |-> Nothing]
  /\ before = [t \in Makers |-> {}]
  /\ lost = {}

Running == {c \in Calls : stage[c] \notin {"new", "done"}}
Answered == {c \in Calls : stage[c] \in {"answering", "done"}}

Goto(t, st) == stage' = [stage EXCEPT ![t] = st]

(* Thread t drops the memory that the calls of S work with.  What was over *)
(* when t began is not excused: t should have found it.                    *)
Drop(t, S) == lost' = lost \cup {c \in S : c \notin before[t]}

Begin(t) ==
  /\ stage[t] = "new"
  /\ t \in Calls => Cardinality(Running) < Threads
  /\ before' = [before EXCEPT ![t] = {c \in Calls : stage[c] = "done"}]
  /\ IF t = Warmer THEN UNCHANGED asked
     ELSE \E r \in Requests : asked' = [asked EXCEPT ![t] = r]

(* Variant: every call makes an orchestrator of its own. *)
GetOrchestratorAlways(t) ==
  /\ Begin(t)
  /\ Goto(t, "making")
  /\ UNCHANGED <<orchestrator, held, known, memory, reply, lost>>

(* _get_orchestrator looks without a lock. *)
GetOrchestrator(t) ==
  /\ Begin(t)
  /\ IF orchestrator = Nothing
     THEN Goto(t, "making") /\ UNCHANGED held
     ELSE /\ Goto(t, IF t = Warmer THEN "done" ELSE "found")
          /\ held' = [held EXCEPT ![t] = orchestrator]
  /\ UNCHANGED <<orchestrator, known, memory, reply, lost>>

(* A maker publishes its own, and goes on with the one then current. *)
Publish(t) ==
  /\ stage[t] = "making"
  /\ orchestrator' = t
  /\ Goto(t, "made")
  /\ Drop(t, {c \in Calls : held[c] # Nothing /\ held[c] = orchestrator})
  /\ UNCHANGED <<asked, held, known, memory, reply, before>>

TakeCurrent(t) ==
  /\ stage[t] = "made"
  /\ held' = [held EXCEPT ![t] = orchestrator]
  /\ Goto(t, IF t = Warmer THEN "done" ELSE "found")
  /\ UNCHANGED <<orchestrator, asked, known, memory, reply, before, lost>>

(* Variant: the session is created without looking. *)
SessionKnownNever(c) == FALSE

SessionKnown(c) == asked[c].session \in known[held[c]]

(* start_session looks for the session, then creates it, without a lock.   *)
(* route_sync calls it once more and finds it: none is ever removed.       *)
FindSession(c) ==
  /\ stage[c] = "found"
  /\ Goto(c, IF SessionKnown(c) THEN "ready" ELSE "creating")
  /\ UNCHANGED <<orchestrator, asked, held, known, memory, reply, before, lost>>

(* A session created meanwhile is replaced, with the decisions in it. *)
CreateSession(c) ==
  /\ stage[c] = "creating"
  /\ Goto(c, "ready")
  /\ known' = [known EXCEPT ![held[c]] = @ \cup {asked[c].session}]
  /\ memory' = [memory EXCEPT ![held[c]][asked[c].session] = <<>>]
  /\ Drop(c, {d \in Answered :
               held[d] = held[c] /\ asked[d].session = asked[c].session})
  /\ UNCHANGED <<orchestrator, asked, held, reply, before>>

(* What the OTHER agents concluded in the session. *)
Context(c) ==
  LET seen == memory[held[c]][asked[c].session]
  IN  [i \in {j \in DOMAIN seen : seen[j].agent # asked[c].agent} |-> seen[i]]

Dispatch(c) ==
  /\ stage[c] = "ready"
  /\ reply' = [reply EXCEPT ![c] = process(asked[c].agent, asked[c].session,
                                          asked[c].message, Context(c))]
  /\ Goto(c, "answering")
  /\ UNCHANGED <<orchestrator, asked, held, known, memory, before, lost>>

(* The decision is recorded, then joins the memory for later agents: one   *)
(* step, as what joins a session just replaced is lost like what joined it *)
(* just before.                                                            *)
Remember(c) ==
  /\ stage[c] = "answering"
  /\ memory' = [memory EXCEPT ![held[c]][asked[c].session] =
       Append(@, [agent |-> asked[c].agent, intent |-> reply[c].intent])]
  /\ Goto(c, "done")
  /\ UNCHANGED <<orchestrator, asked, held, known, reply, before, lost>>

Next ==
  \/ \E t \in Makers : GetOrchestrator(t) \/ Publish(t) \/ TakeCurrent(t)
  \/ \E c \in Calls : \/ FindSession(c) \/ CreateSession(c)
                      \/ Dispatch(c) \/ Remember(c)

Spec == Init /\ [][Next]_vars

-----------------------------------------------------------------------------
(* Of two calls that put the same question to the same agent in a session, *)
(* the one begun after the other's answer is never treated more mildly: no *)
(* lower fraud risk, churn probability or severity, no less confidence, no *)
(* promotion given that was withheld before.  It rests on a memory shared  *)
(* by both that only grows, and on scores that only rise with what is in   *)
(* it.  The memory is dropped when the singleton is made, or the session   *)
(* created, a second time; only a thread under way since before the first  *)
(* answer may do that.                                                     *)
LaterNeverMilder ==
  \A c, d \in Answered :
    c \in before[d] \ lost /\ asked[c] = asked[d]
      => /\ reply[d].level >= reply[c].level
         /\ reply[d].conf >= reply[c].conf

(* What the agents answered in the session before a call began, except in  *)
(* a memory that a thread under way at the time has dropped: the trouble   *)
(* by which the other agents promise to be guided.                         *)
Told(d) == {c \in before[d] \ lost : asked[c].session = asked[d].session}

Heard(d, intents) == {c \in Told(d) : reply[c].intent \in intents}

BillingTrouble == {"billing_error", "payment_failed"}
LeavingTrouble == {"cancellation_request", "billing_error"}

ToldAtRisk(d) ==
  \/ \E c \in Told(d) : asked[c].agent = "complaints-agent"
  \/ Heard(d, LeavingTrouble) # {}

Warned(d) ==
  CASE asked[d].agent = "fraud-detection-agent" ->
         Cardinality(Heard(d, {"payment_failed"})) >= 2
    [] asked[d].agent = "retention-agent" ->
         Heard(d, BillingTrouble \cup {"service_outage", "safety_concern",
                                       "regulatory_complaint"}) # {}
    [] asked[d].agent = "sales-agent" ->
         reply[d].intent = "upgrade_request" /\ ToldAtRisk(d)
    [] OTHER -> FALSE

(* Trouble an agent reported is taken into account by every fraud check,   *)
(* churn estimate and upgrade offer begun later in the session: it scores  *)
(* higher than the same message out of the blue, unless that has the top   *)
(* score of 95 alone.  The save offers and the upsell recommendations stay *)
(* as they are: see UpsellGated and TroubleSweetensOffer.                  *)
WarningsHeeded ==
  \A d \in Answered :
    Warned(d) =>
      LET alone == process(asked[d].agent, asked[d].session, asked[d].message, <<>>).level
      IN  reply[d].level > alone \/ (reply[d].level = 95 /\ alone = 95)

-----------------------------------------------------------------------------
(* What the code's comments say and the code does not do. *)

(* "Initialize and cache the orchestrator on first call."                  *)
(* (multi_agent_routes.py:31): one that is there is never replaced.        *)
CachedOnFirstCall == [][orchestrator # Nothing => orchestrator' = orchestrator]_vars

(* "Create or return an existing cross-agent session."                     *)
(* (memory_bridge.py:126): a session that exists keeps its decisions.      *)
ExistingSessionReturned ==
  [][\A t \in Makers : \A s \in known[t] :
       Len(memory'[t][s]) >= Len(memory[t][s])]_vars

(* "Upsell recommendations gated by customer segment (not shown to at-risk *)
(* customers)" (sales.py:8).                                               *)
UpsellGated ==
  \A d \in Answered :
    asked[d].agent = "sales-agent" /\ ToldAtRisk(d)
      => reply[d].outcome # "upsell_opportunity"

(* "A customer with unresolved billing + technical issues has a higher     *)
(* churn probability and receives a more aggressive save offer."           *)
(* (retention.py:7-9): the offer to cancel after both is not the usual one.*)
TroubleSweetensOffer ==
  \A d \in Answered :
    /\ asked[d].agent = "retention-agent"
    /\ reply[d].intent = "cancellation_request"
    /\ Heard(d, BillingTrouble) # {} /\ Heard(d, {"service_outage"}) # {}
    => LET alone == process(asked[d].agent, asked[d].session, asked[d].message, <<>>)
       IN  reply[d].outcome[1] # alone.outcome[1]

=============================================================================
