--------------------------- MODULE MCSpecialists ---------------------------
(* Three calls, two at a time, after or during the making of the           *)
(* singleton and of the sessions.  Messages that their context may sway,   *)
(* messages that leave trouble behind, and one of another session.         *)
EXTENDS Specialists

Ask(session, agent, hits, signs, amounts) ==
  [session |-> session, agent |-> agent,
   message |-> [hits |-> hits, signs |-> signs, amounts |-> amounts]]

(* "card declined"; "charged twice, SAR 60"; "verify the international     *)
(* wire of SAR 6000, several attempts", and the same at 3 in the morning   *)
(* from a new device, which has the top score already; "cancel";           *)
(* "upgrade"; "quota"; "the regulator will hear of this threat";           *)
(* "production is down"; "points".                                         *)
MCRequests ==
  {Ask("s", "billing-agent", "payment_failed" :> 1, {}, {}),
   Ask("s", "billing-agent", "billing_error" :> 1, {}, {60}),
   Ask("s", "fraud-detection-agent", "verification_request" :> 1,
       {"velocity", "geo_anomaly"}, {6000}),
   Ask("s", "fraud-detection-agent", "verification_request" :> 1,
       {"velocity", "geo_anomaly", "new_device", "time_anomaly"}, {6000}),
   Ask("s", "retention-agent", "cancellation_request" :> 1, {}, {}),
   Ask("s", "sales-agent", "upgrade_request" :> 1, {}, {}),
   Ask("s", "sales-agent", "upsell_opportunity" :> 1, {}, {}),
   Ask("s", "complaints-agent",
       "regulatory_complaint" :> 1 @@ "safety_concern" :> 1, {"danger"}, {}),
   Ask("s", "technical-agent", "service_outage" :> 1, {"critical"}, {}),
   Ask("t", "loyalty-agent", "points_inquiry" :> 1, {}, {})}

MCSeed == [s \in Sessions |-> IF s = "s" THEN 115 ELSE 116]

Symmetry == Permutations(Calls)

=============================================================================
