------------------------- MODULE OrchestratorProofs -------------------------
(* Proofs about Orchestrator, for any calls, sessions, agents, routing table, *)
(* labels, number of steps and size of the pool.                              *)
EXTENDS Orchestrator, TLAPS

-------------------------------------------------------------------------------
(* The inductive invariant.                                                  *)

\* The stages of a call that has sent no post yet.
Early == {"new", "queued", "checking", "creating", "classify", "reflect", "escalate",
          "dispatch", "agent"}

Unsent(c, k) == posts[<<c, k>>] = "unsent"
Stored(c, k) == posts[<<c, k>>] = "stored"
AwaitsPost(c, k) == stage[c] = "awaiting" /\ sent[c] = k

\* Posts go out in the order of their kinds, one at a time: only the one the
\* call waits for, or one it has given up, is still on its way.
PostsInv(c) ==
  /\ stage[c] \in Early => \A k \in Kinds : Unsent(c, k)
  /\ stage[c] = "awaiting" =>
       /\ ~Unsent(c, sent[c])
       /\ \A k \in Kinds : k > sent[c] => Unsent(c, k)
  /\ stage[c] \in {"remember", "route"} => Unsent(c, RoutePost) /\ Unsent(c, EdgePost)
  /\ \A k \in Kinds :
       posts[<<c, k>>] \in {"queued", "running"} /\ <<c, k>> \notin givenUp => AwaitsPost(c, k)
  /\ \A k \in 1 .. Steps : ~Unsent(c, k) => Stored(c, DecisionPost)
  /\ \/ stage[c] = "remember"
     \/ stage[c] = "awaiting" /\ sent[c] <= Steps
     \/ flow[c].answer = "answered"
     => ~Unsent(c, DecisionPost)
  /\ stage[c] = "done" /\ flow[c].answer = "answered" => ~Unsent(c, RoutePost)

\* The classification stands before anything is sent, and the ids that the
\* call holds are those of its own stored records.
FlowInv(c) ==
  /\ \/ stage[c] \in {"reflect", "escalate", "dispatch", "agent", "route"}
     \/ \E k \in Kinds : ~Unsent(c, k)
     => flow[c].target \in Names
  /\ stage[c] \in {"reflect", "dispatch", "agent"} \/ ~Unsent(c, DecisionPost)
     => flow[c].tier # 3
  /\ stage[c] = "agent" \/ ~Unsent(c, DecisionPost) => flow[c].target \in Agents
  /\ flow[c].agentId # NoId => flow[c].agentId = c /\ Stored(c, DecisionPost)
  /\ flow[c].routeId # NoId => flow[c].routeId = c /\ Stored(c, RoutePost)
  /\ Stored(c, DecisionPost) /\ <<c, DecisionPost>> \notin givenUp /\ ~AwaitsPost(c, DecisionPost)
     => flow[c].agentId = c
  /\ Stored(c, RoutePost) /\ <<c, RoutePost>> \notin givenUp /\ ~AwaitsPost(c, RoutePost)
     => flow[c].routeId = c
  /\ flow[c].agentId = c /\ flow[c].routeId = c <=> ~Unsent(c, EdgePost)

DecisionRow(c) == [call |-> c, agent |-> flow[c].target]
RouteRow(c) == [call |-> c, intent |-> flow[c].intent, target |-> flow[c].target,
                tier |-> flow[c].tier]
Edge(c) == [from |-> c, to |-> c]

\* What was stored is on record as the call still knows it.
RowsInv(c) ==
  /\ Stored(c, DecisionPost) => DecisionRow(c) \in agentRows
  /\ Stored(c, RoutePost) => RouteRow(c) \in routeRows
  /\ Stored(c, EdgePost) => Edge(c) \in edges
  /\ \A e \in edges : e.from = c => e.to = c /\ ~Unsent(c, EdgePost)

\* The orders recorded for a decision have a greatest one, if there are any,
HasMax(c) ==
  OrdersOf(c) = {} \/ \E n \in OrdersOf(c) : \A m \in OrdersOf(c) : m <= n

\* and leave none out,
Gapless(c) == \A n \in OrdersOf(c) : n = 0 \/ n - 1 \in OrdersOf(c)

\* and the rows that did not come late are in order.
InOrder(c) ==
  \A i, j \in DOMAIN stepRows[c] :
    i < j /\ ~Late(c, i) /\ ~Late(c, j) =>
      /\ stepRows[c][i].order < stepRows[c][j].order
      /\ i > Steps => stepRows[c][i].step < stepRows[c][j].step

\* The rows sent along with the decision come first; each further one is that
\* of a post that was stored.
SentAlong(c) == Stored(c, DecisionPost) => Len(stepRows[c]) >= Steps

OfPosts(c) == \A i \in DOMAIN stepRows[c] : i > Steps => Stored(c, stepRows[c][i].step)

RowsOrdered(c) == HasMax(c) /\ Gapless(c) /\ InOrder(c) /\ SentAlong(c) /\ OfPosts(c)

\* An order that was read leaves none out when it is inserted; unless its post
\* was given up meanwhile, it is still greater than that of any row on time.
ReadNext(c, k) ==
  /\ order[<<c, k>>] = 0 \/ order[<<c, k>>] - 1 \in OrdersOf(c)
  /\ <<c, k>> \notin givenUp =>
       \A i \in DOMAIN stepRows[c] : ~Late(c, i) => stepRows[c][i].order < order[<<c, k>>]

OrdersInv(c) ==
  /\ RowsOrdered(c)
  /\ \A k \in 1 .. Steps : posts[<<c, k>>] = "running" => ReadNext(c, k)

CallInv(c) == PostsInv(c) /\ FlowInv(c) /\ RowsInv(c) /\ OrdersInv(c)

Begun == {"classify", "reflect", "escalate", "dispatch", "agent", "awaiting", "remember", "route"}

\* Whoever has passed start_session has left the session known; who creates a
\* session began before anyone of that session had answered.
SessionInv(c) ==
  /\ stage[c] \in Begun \/ flow[c].answer = "answered" => SessionOf[c] \in known
  /\ \A d \in before[c] : stage[d] = "done"
  /\ stage[c] \in Early => flow[c].answer # "answered"
  /\ stage[c] = "creating" =>
       \A d \in before[c] : SessionOf[d] = SessionOf[c] => flow[d].answer # "answered"

\* The session's memory holds every answer, unless two calls were under way.
MemoryInv ==
  \A d \in Calls :
    flow[d].answer = "answered" /\ OneAtATime(SessionOf[d]) =>
      \E i \in DOMAIN memory[SessionOf[d]] : memory[SessionOf[d]][i] = DecisionRow(d)

RecordsInv ==
  /\ TypeOK
  /\ \A c \in Calls : CallInv(c)

SessionsInv == (\A c \in Calls : SessionInv(c)) /\ MemoryInv /\ EarlierRepliesInContext

IInv == RecordsInv /\ SessionsInv

-------------------------------------------------------------------------------
(* Kinds of posts, and what an action does to one call and to the others.    *)

\* A decision comes before its steps, these before the route and its edge.
LEMMA KindsOrdered ==
  /\ DecisionPost \in Kinds /\ RoutePost \in Kinds /\ EdgePost \in Kinds
  /\ Kinds \subseteq Nat /\ Steps \in Nat
  /\ \A k \in 1 .. Steps : k \in Kinds
  /\ \A k \in Kinds : k = DecisionPost \/ k \in 1 .. Steps \/ k = RoutePost \/ k = EdgePost
  /\ DecisionPost \notin 1 .. Steps /\ RoutePost \notin 1 .. Steps /\ EdgePost \notin 1 .. Steps
  /\ DecisionPost <= Steps /\ DecisionPost < RoutePost /\ RoutePost < EdgePost
  /\ Steps < RoutePost
  /\ \A k \in Kinds : k <= EdgePost
  BY ConstantsOK DEF DecisionPost, RoutePost, EdgePost, Kinds

\* A post that changes is one of one call.
LEMMA PostsPoint ==
  ASSUME TypeOK, NEW c \in Calls, NEW k \in Kinds, NEW v, posts' = [posts EXCEPT ![<<c, k>>] = v]
  PROVE  /\ posts'[<<c, k>>] = v
         /\ \A d \in Calls, j \in Kinds : d # c \/ j # k => posts'[<<d, j>>] = posts[<<d, j>>]
  BY DEF TypeOK, Posts

\* Rows that do not change stay in order, and an order that was read is still
\* the next one, whatever is given up meanwhile.
RowsStay(c) ==
  /\ stepRows'[c] = stepRows[c]
  /\ Stored(c, DecisionPost)' => Stored(c, DecisionPost)
  /\ \A k \in 1 .. Steps : /\ (Stored(c, k) => Stored(c, k)')
                            /\ (<<c, k>> \in givenUp => <<c, k>> \in givenUp')

LEMMA StepsTyped ==
  ASSUME TypeOK, NEW c \in Calls, NEW i \in DOMAIN stepRows[c]
  PROVE  stepRows[c][i].step \in 1 .. Steps /\ stepRows[c][i].order \in Nat /\ i \in Nat
<1>1. stepRows[c] \in Seq(Row)
  BY DEF TypeOK
<1>2. stepRows[c][i] \in Row /\ i \in Nat
  BY <1>1
<1>3. QED BY <1>2 DEF Row

LEMMA LateStays ==
  ASSUME TypeOK, NEW c \in Calls, RowsStay(c), NEW i \in DOMAIN stepRows[c], Late(c, i)
  PROVE  Late(c, i)'
<1>1. stepRows[c][i].step \in 1 .. Steps
  BY StepsTyped
<1>2. i > Steps /\ <<c, stepRows[c][i].step>> \in givenUp'
  BY <1>1 DEF RowsStay, Late
<1>3. QED BY <1>2 DEF RowsStay, Late

\* Whether a row came late depends on its post alone.
LEMMA LateSame ==
  ASSUME NEW c, NEW i, stepRows'[c][i] = stepRows[c][i], givenUp' = givenUp
  PROVE  Late(c, i)' <=> Late(c, i)
  BY DEF Late

LEMMA LateOfPost ==
  ASSUME NEW c, NEW i, NEW k, stepRows'[c][i].step = k, i > Steps, givenUp' = givenUp
  PROVE  ~Late(c, i)' <=> <<c, k>> \notin givenUp
  BY DEF Late

LEMMA RowsStayOrdered ==
  ASSUME TypeOK, NEW c \in Calls, RowsOrdered(c), RowsStay(c)
  PROVE  RowsOrdered(c)'
<1>1. stepRows'[c] = stepRows[c] /\ OrdersOf(c)' = OrdersOf(c)
  BY DEF RowsStay, OrdersOf
<1>2. HasMax(c)' /\ Gapless(c)'
  BY <1>1 DEF RowsOrdered, HasMax, Gapless
<1>3. \A i \in DOMAIN stepRows[c] : ~Late(c, i)' => ~Late(c, i)
  BY LateStays
<1>4. InOrder(c)'
  BY <1>1, <1>3 DEF RowsOrdered, InOrder
<1>5. SentAlong(c)'
  BY <1>1 DEF RowsOrdered, RowsStay, SentAlong
<1>6. OfPosts(c)'
  <2>1. ASSUME NEW i \in DOMAIN stepRows[c], i > Steps
        PROVE  Stored(c, stepRows[c][i].step)'
    <3>1. PICK k \in 1 .. Steps : k = stepRows[c][i].step
      BY StepsTyped
    <3>2. Stored(c, k)
      BY <2>1, <3>1 DEF RowsOrdered, OfPosts
    <3>3. posts'[<<c, k>>] = "stored"
      BY <3>2 DEF RowsStay, Stored
    <3>4. k = stepRows'[c][i].step
      BY <1>1, <3>1
    <3>5. QED BY <1>1, <3>1, <3>3, <3>4 DEF Stored
  <2>2. QED BY <1>1, <2>1 DEF OfPosts, Stored
<1>7. QED BY <1>2, <1>4, <1>5, <1>6 DEF RowsOrdered

LEMMA ReadNextStays ==
  ASSUME TypeOK, NEW c \in Calls, RowsStay(c), NEW k \in 1 .. Steps, ReadNext(c, k),
         order'[<<c, k>>] = order[<<c, k>>]
  PROVE  ReadNext(c, k)'
<1>1. stepRows'[c] = stepRows[c] /\ OrdersOf(c)' = OrdersOf(c)
  BY DEF RowsStay, OrdersOf
<1>2. \A i \in DOMAIN stepRows[c] : ~Late(c, i)' => ~Late(c, i)
  BY LateStays
<1>3. <<c, k>> \notin givenUp' => <<c, k>> \notin givenUp
  BY DEF RowsStay
<1>4. QED BY <1>1, <1>2, <1>3 DEF ReadNext

LEMMA OrdersStay ==
  ASSUME TypeOK, NEW c \in Calls, OrdersInv(c), RowsStay(c),
         \A k \in 1 .. Steps : /\ (posts'[<<c, k>>] = "running" => posts[<<c, k>>] = "running")
                               /\ order'[<<c, k>>] = order[<<c, k>>]
  PROVE  OrdersInv(c)'
<1>1. RowsOrdered(c)'
  BY RowsStayOrdered DEF OrdersInv
<1>2. ASSUME NEW k \in 1 .. Steps, posts'[<<c, k>>] = "running" PROVE ReadNext(c, k)'
  <2>1. ReadNext(c, k)
    BY <1>2 DEF OrdersInv
  <2>2. QED BY <2>1, ReadNextStays
<1>3. QED BY <1>1, <1>2 DEF OrdersInv

\* Nothing of a call changes.
Same(d) ==
  /\ stage'[d] = stage[d] /\ flow'[d] = flow[d] /\ sent'[d] = sent[d]
  /\ \A k \in Kinds :
       /\ posts'[<<d, k>>] = posts[<<d, k>>]
       /\ order'[<<d, k>>] = order[<<d, k>>]
       /\ <<d, k>> \in givenUp' <=> <<d, k>> \in givenUp
  /\ stepRows'[d] = stepRows[d]

\* Records are only added, and no edge of this call.
RowsGrow(d) ==
  /\ agentRows \subseteq agentRows' /\ routeRows \subseteq routeRows' /\ edges \subseteq edges'
  /\ \A e \in edges' : e \in edges \/ e.from # d

\* What does not concern a call keeps its part of the invariant.
LEMMA Frame ==
  ASSUME TypeOK, NEW d \in Calls, CallInv(d), Same(d), RowsGrow(d)
  PROVE  CallInv(d)'
<1>1. /\ sent[d] \in Kinds /\ DecisionPost \in Kinds /\ RoutePost \in Kinds /\ EdgePost \in Kinds
      /\ \A k \in 1 .. Steps : k \in Kinds
  BY KindsOrdered DEF TypeOK
<1>2. PostsInv(d)'
  BY <1>1 DEF CallInv, PostsInv, Same, Unsent, Stored, AwaitsPost
<1>3. FlowInv(d)'
  BY <1>1 DEF CallInv, FlowInv, Same, Unsent, Stored, AwaitsPost
<1>4. RowsInv(d)'
  BY <1>1 DEF CallInv, RowsInv, Same, RowsGrow, Unsent, Stored, DecisionRow, RouteRow, Edge
<1>5. OrdersInv(d)'
  <2>1. RowsStay(d)
    BY <1>1 DEF Same, RowsStay, Stored
  <2>2. QED BY <1>1, <2>1, OrdersStay DEF CallInv, Same
<1>6. QED BY <1>2, <1>3, <1>4, <1>5 DEF CallInv

\* A step of a call that has sent nothing: it goes on, or ends, with the
\* classification complete where it leads to an agent or to a record.
EarlyStep(c) ==
  /\ stage[c] \in Early
  /\ stage'[c] \in Early \cup {"route", "done"}
  /\ flow'[c].agentId = flow[c].agentId /\ flow'[c].routeId = flow[c].routeId
  /\ flow'[c].answer # "answered"
  /\ stage'[c] \in {"reflect", "escalate", "dispatch", "agent", "route"} => flow'[c].target \in Names
  /\ stage'[c] \in {"reflect", "dispatch", "agent"} => flow'[c].tier # 3
  /\ stage'[c] = "agent" => flow'[c].target \in Agents
  /\ UNCHANGED <<sent, posts, givenUp, order, tables>>

LEMMA EarlyKeepsCall ==
  ASSUME TypeOK, NEW c \in Calls, CallInv(c), EarlyStep(c)
  PROVE  CallInv(c)'
<1>1. /\ DecisionPost \in Kinds /\ RoutePost \in Kinds /\ EdgePost \in Kinds
      /\ \A k \in 1 .. Steps : k \in Kinds
  BY KindsOrdered
<1>2. /\ \A k \in Kinds : posts[<<c, k>>] = "unsent" /\ posts'[<<c, k>>] = "unsent"
      /\ stage'[c] \notin {"awaiting", "remember"}
  BY DEF EarlyStep, CallInv, PostsInv, Unsent, Early
<1>3. PostsInv(c)'
  BY <1>1, <1>2 DEF EarlyStep, PostsInv, Unsent, Stored, AwaitsPost
<1>4. flow[c].agentId = NoId /\ flow[c].routeId = NoId
  BY <1>1, <1>2 DEF CallInv, FlowInv, Stored
<1>5. c # NoId
  BY ConstantsOK
<1>6. FlowInv(c)'
  BY <1>1, <1>2, <1>4, <1>5 DEF EarlyStep, FlowInv, Unsent, Stored, AwaitsPost
<1>7. RowsInv(c)'
  BY <1>1, <1>2 DEF EarlyStep, CallInv, RowsInv, Unsent, Stored, Edge, tables
<1>8. OrdersInv(c)'
  <2>1. RowsStay(c)
    BY <1>1, <1>2 DEF EarlyStep, RowsStay, Stored, tables
  <2>2. QED BY <1>1, <1>2, <2>1, OrdersStay DEF CallInv, EarlyStep
<1>9. QED BY <1>3, <1>6, <1>7, <1>8 DEF CallInv

-------------------------------------------------------------------------------
(* Steps of a call before it sends anything.                                 *)

\* Only the call's own node and state move.
LEMMA NodeEffect ==
  ASSUME TypeOK, NEW c \in Calls, NEW st, NEW f, Node(c, st, f)
  PROVE  /\ stage'[c] = st /\ flow'[c] = f
         /\ \A d \in Calls : d # c => stage'[d] = stage[d] /\ flow'[d] = flow[d]
         /\ UNCHANGED <<sent, memory, known, posts, givenUp, order, tables, before>>
  BY DEF TypeOK, Node, Goto

LEMMA NodeType ==
  ASSUME TypeOK, NEW c \in Calls, NEW st \in Stages, NEW f \in Flow, Node(c, st, f)
  PROVE  TypeOK'
  BY DEF TypeOK, Node, Goto, tables

LEMMA OthersSame ==
  ASSUME NEW c \in Calls,
         \A d \in Calls : d # c => stage'[d] = stage[d] /\ flow'[d] = flow[d],
         UNCHANGED <<sent, posts, givenUp, order, tables>>
  PROVE  \A d \in Calls : d # c => Same(d) /\ RowsGrow(d)
  BY DEF Same, RowsGrow, tables

\* The steps of a call up to its agent's answer or the route.
EarlyAction(c) ==
  \/ Accept(c) \/ Begin(c) \/ Refuse(c) \/ FindSession(c) \/ CreateSession(c)
  \/ Classify(c) \/ Reflect(c) \/ Escalate(c) \/ Dispatch(c) \/ AgentRaises(c)

\* A classification that can be resolved names an agent.
LEMMA TargetNamed ==
  ASSUME NEW l \in Labels, ~Unresolvable(l)
  PROVE  TargetOf(l) \in Names
  BY ConstantsOK DEF TargetOf, Unresolvable

\* The context is made of calls.
LEMMA ContextType ==
  ASSUME TypeOK, NEW c \in Calls, NEW agent
  PROVE  ContextFor(c, agent) \in SUBSET Calls
<1>1. SessionOf[c] \in Sessions
  BY ConstantsOK
<1>2. memory[SessionOf[c]] \in Seq(Entry)
  BY <1>1 DEF TypeOK
<1>3. \A i \in DOMAIN memory[SessionOf[c]] : memory[SessionOf[c]][i] \in Entry
  BY <1>2
<1>4. QED BY <1>3 DEF ContextFor, Entry

LEMMA ClassifyEarly ==
  ASSUME TypeOK, NEW c \in Calls, CallInv(c), Classify(c)
  PROVE  /\ TypeOK' /\ EarlyStep(c)
         /\ \A d \in Calls : d # c => stage'[d] = stage[d] /\ flow'[d] = flow[d]
<1>1. flow[c] \in Flow /\ stage[c] = "classify" /\ flow[c].answer # "answered"
  BY KindsOrdered DEF TypeOK, Classify, CallInv, PostsInv, Unsent, Early
<1>2. PICK l \in Labels :
        IF Unresolvable(l)
        THEN Node(c, "done", [flow[c] EXCEPT !.answer = "error"])
        ELSE Node(c, TierStage(l.tier),
                  [flow[c] EXCEPT !.intent = l.intent, !.hint = l.hint,
                     !.tier = l.tier, !.target = TargetOf(l)])
  BY DEF Classify
<1>3. CASE Unresolvable(l)
  <2> DEFINE f == [flow[c] EXCEPT !.answer = "error"]
  <2>1. Node(c, "done", f)
    BY <1>2, <1>3
  <2>2. /\ f \in Flow /\ f.answer # "answered"
        /\ f.agentId = flow[c].agentId /\ f.routeId = flow[c].routeId
    BY <1>1 DEF Flow, Answers
  <2>3. "done" \in Stages
    BY DEF Stages
  <2> HIDE DEF f
  <2>4. QED BY <1>1, <2>1, <2>2, <2>3, NodeEffect, NodeType DEF EarlyStep, Early
<1>4. CASE ~Unresolvable(l)
  <2> DEFINE f == [flow[c] EXCEPT !.intent = l.intent, !.hint = l.hint,
                     !.tier = l.tier, !.target = TargetOf(l)]
             st == TierStage(l.tier)
  <2>1. Node(c, st, f)
    BY <1>2, <1>4
  <2>2. /\ l.intent \in Intents \cup {NoIntent} /\ l.hint \in Agents \cup {NoAgent}
        /\ l.tier \in 1 .. 3 /\ TargetOf(l) \in Names
    BY <1>4, TargetNamed, ConstantsOK
  <2>3. /\ f \in Flow /\ f.answer # "answered" /\ f.tier = l.tier /\ f.target \in Names
        /\ f.agentId = flow[c].agentId /\ f.routeId = flow[c].routeId
    BY <1>1, <2>2 DEF Flow
  <2>4. /\ st \in {"dispatch", "reflect", "escalate"} /\ st \in Stages
        /\ st # "escalate" => l.tier # 3
    BY <2>2 DEF TierStage, Stages
  <2> HIDE DEF f, st
  <2>5. QED BY <1>1, <2>1, <2>3, <2>4, NodeEffect, NodeType DEF EarlyStep, Early
<1>5. QED BY <1>3, <1>4

LEMMA ReflectEarly ==
  ASSUME TypeOK, NEW c \in Calls, CallInv(c), Reflect(c)
  PROVE  /\ TypeOK' /\ EarlyStep(c)
         /\ \A d \in Calls : d # c => stage'[d] = stage[d] /\ flow'[d] = flow[d]
<1>1. /\ flow[c] \in Flow /\ stage[c] = "reflect" /\ flow[c].answer # "answered"
      /\ flow[c].target \in Names /\ flow[c].tier # 3
  BY KindsOrdered DEF TypeOK, Reflect, CallInv, PostsInv, FlowInv, Unsent, Early
<1>2. "dispatch" \in Stages
  BY DEF Stages
<1>3. PICK f \in Flow :
        /\ Node(c, "dispatch", f)
        /\ f.answer # "answered" /\ f.target \in Names /\ f.tier # 3
        /\ f.agentId = flow[c].agentId /\ f.routeId = flow[c].routeId
  <2>1. CASE Node(c, "dispatch", flow[c])
    BY <1>1, <2>1
  <2>2. ASSUME NEW intent \in Intents, Node(c, "dispatch", Revised(flow[c], intent))
        PROVE  \E f \in Flow :
                 /\ Node(c, "dispatch", f)
                 /\ f.answer # "answered" /\ f.target \in Names /\ f.tier # 3
                 /\ f.agentId = flow[c].agentId /\ f.routeId = flow[c].routeId
    <3> DEFINE f == Revised(flow[c], intent)
    <3>1. /\ f \in Flow
          /\ f.answer # "answered" /\ f.target \in Names /\ f.tier # 3
          /\ f.agentId = flow[c].agentId /\ f.routeId = flow[c].routeId
      BY <1>1, ConstantsOK DEF Revised, Flow
    <3>2. QED BY <2>2, <3>1
  <2>3. QED BY <2>1, <2>2 DEF Reflect
<1>4. QED BY <1>1, <1>2, <1>3, NodeEffect, NodeType DEF EarlyStep, Early

LEMMA DispatchEarly ==
  ASSUME TypeOK, NEW c \in Calls, CallInv(c), Dispatch(c)
  PROVE  /\ TypeOK' /\ EarlyStep(c)
         /\ \A d \in Calls : d # c => stage'[d] = stage[d] /\ flow'[d] = flow[d]
<1>1. /\ flow[c] \in Flow /\ stage[c] = "dispatch" /\ flow[c].answer # "answered"
      /\ flow[c].target \in Names /\ flow[c].tier # 3
  BY KindsOrdered DEF TypeOK, Dispatch, CallInv, PostsInv, FlowInv, Unsent, Early
<1>2. "agent" \in Stages /\ "route" \in Stages
  BY DEF Stages
<1>3. CASE flow[c].target \in Agents
  <2>1. PICK ctx \in SUBSET Calls : Node(c, "agent", [flow[c] EXCEPT !.context = ctx])
    BY <1>3, ContextType DEF Dispatch
  <2> DEFINE f == [flow[c] EXCEPT !.context = ctx]
  <2>2. /\ f \in Flow
        /\ f.answer # "answered" /\ f.target = flow[c].target /\ f.tier # 3
        /\ f.agentId = flow[c].agentId /\ f.routeId = flow[c].routeId
    BY <1>1 DEF Flow
  <2>3. Node(c, "agent", f)
    BY <2>1
  <2> HIDE DEF f
  <2>4. QED BY <1>1, <1>2, <1>3, <2>2, <2>3, NodeEffect, NodeType DEF EarlyStep, Early
<1>4. CASE flow[c].target \notin Agents
  <2> DEFINE f == [flow[c] EXCEPT !.answer = "unconfigured"]
  <2>1. Node(c, "route", f)
    BY <1>4 DEF Dispatch
  <2>2. /\ f \in Flow /\ f.answer # "answered" /\ f.target \in Names
        /\ f.agentId = flow[c].agentId /\ f.routeId = flow[c].routeId
    BY <1>1 DEF Flow, Answers
  <2> HIDE DEF f
  <2>3. QED BY <1>1, <1>2, <2>1, <2>2, NodeEffect, NodeType DEF EarlyStep, Early
<1>5. QED BY <1>3, <1>4

\* A node that leaves the state as it is, or only sets an answer.
LEMMA PlainNodesEarly ==
  ASSUME TypeOK, NEW c \in Calls, CallInv(c),
         Accept(c) \/ Refuse(c) \/ FindSession(c) \/ Escalate(c) \/ AgentRaises(c)
  PROVE  /\ TypeOK' /\ EarlyStep(c)
         /\ \A d \in Calls : d # c => stage'[d] = stage[d] /\ flow'[d] = flow[d]
<1>1. stage[c] \in Early
  BY DEF Accept, Refuse, FindSession, Escalate, AgentRaises, Early
<1>2. /\ flow[c] \in Flow /\ flow[c].answer # "answered"
      /\ stage[c] \in {"escalate", "agent"} => flow[c].target \in Names
  BY <1>1, KindsOrdered DEF TypeOK, CallInv, PostsInv, FlowInv, Unsent
<1>3. PICK st \in Stages, f \in Flow :
        /\ Node(c, st, f)
        /\ st \in {"queued", "classify", "creating", "route", "done"}
        /\ f.answer # "answered" /\ f.target = flow[c].target
        /\ f.agentId = flow[c].agentId /\ f.routeId = flow[c].routeId
        /\ st = "route" => stage[c] \in {"escalate", "agent"}
  <2> USE <1>2 DEF Stages, Flow, Answers
  <2>1. CASE Accept(c)
    BY <2>1 DEF Accept
  <2>2. CASE Refuse(c)
    BY <2>2 DEF Refuse
  <2>3. CASE FindSession(c)
    BY <2>3 DEF FindSession
  <2>4. CASE Escalate(c)
    BY <2>4 DEF Escalate
  <2>5. CASE AgentRaises(c)
    BY <2>5 DEF AgentRaises
  <2>6. QED BY <2>1, <2>2, <2>3, <2>4, <2>5
<1>4. QED BY <1>1, <1>2, <1>3, NodeEffect, NodeType DEF EarlyStep, Early

\* Taking a thread and creating the session.
LEMMA SessionStepsEarly ==
  ASSUME TypeOK, NEW c \in Calls, CallInv(c), Begin(c) \/ CreateSession(c)
  PROVE  /\ TypeOK' /\ EarlyStep(c)
         /\ \A d \in Calls : d # c => stage'[d] = stage[d] /\ flow'[d] = flow[d]
<1>1. /\ stage[c] \in Early /\ stage'[c] \in {"checking", "classify"}
      /\ stage' \in [Calls -> Stages]
      /\ \A d \in Calls : d # c => stage'[d] = stage[d]
      /\ UNCHANGED <<flow, sent, posts, givenUp, order, tables>>
  BY DEF TypeOK, Begin, CreateSession, Goto, Early, Stages
<1>2. flow[c].answer # "answered"
  BY <1>1, KindsOrdered DEF CallInv, PostsInv, Unsent
<1>3. /\ before' \in [Calls -> SUBSET Calls] /\ known' \subseteq Sessions
      /\ memory' \in [Sessions -> Seq(Entry)]
  <2>1. CASE Begin(c)
    BY <2>1 DEF TypeOK, Begin
  <2>2. CASE CreateSession(c)
    <3>1. SessionOf[c] \in Sessions /\ <<>> \in Seq(Entry)
      BY ConstantsOK
    <3>2. QED BY <2>2, <3>1 DEF TypeOK, CreateSession
  <2>3. QED BY <2>1, <2>2
<1>4. TypeOK'
  BY <1>1, <1>3 DEF TypeOK, tables
<1>5. QED BY <1>1, <1>2, <1>4 DEF EarlyStep, Early

\* All of these.
LEMMA EarlyKeepsRecords ==
  ASSUME RecordsInv, NEW c \in Calls, EarlyAction(c)
  PROVE  RecordsInv' /\ EarlyStep(c) /\ \A d \in Calls : d # c => Same(d)
<1>1. TypeOK /\ CallInv(c)
  BY DEF RecordsInv
<1>2. /\ TypeOK' /\ EarlyStep(c)
      /\ \A d \in Calls : d # c => stage'[d] = stage[d] /\ flow'[d] = flow[d]
  BY <1>1, ClassifyEarly, ReflectEarly, DispatchEarly, PlainNodesEarly, SessionStepsEarly
  DEF EarlyAction
<1>3. CallInv(c)'
  BY <1>1, <1>2, EarlyKeepsCall
<1>4. \A d \in Calls : d # c => Same(d) /\ RowsGrow(d)
  BY <1>2, OthersSame DEF EarlyStep
<1>5. \A d \in Calls : d # c => CallInv(d)'
  BY <1>1, <1>4, Frame DEF RecordsInv
<1>6. QED BY <1>2, <1>3, <1>4, <1>5 DEF RecordsInv

-------------------------------------------------------------------------------
(* Steps of a call that sends.                                               *)

\* What sending does to the call, and what it leaves.
SentTo(c, k) ==
  /\ stage'[c] = "awaiting" /\ sent'[c] = k /\ posts'[<<c, k>>] = "queued"
  /\ \A j \in Kinds : j # k => posts'[<<c, j>>] = posts[<<c, j>>]

OthersStay(c) ==
  \A d \in Calls : d # c =>
    /\ stage'[d] = stage[d] /\ sent'[d] = sent[d]
    /\ \A j \in Kinds : posts'[<<d, j>>] = posts[<<d, j>>]

SendTypes ==
  /\ stage' \in [Calls -> Stages] /\ sent' \in [Calls -> Kinds]
  /\ posts' \in [Posts -> PostStates]

LEMMA SendEffect ==
  ASSUME TypeOK, NEW c \in Calls, NEW k \in Kinds, Send(c, k)
  PROVE  SentTo(c, k) /\ OthersStay(c) /\ SendTypes
<1>1. /\ posts'[<<c, k>>] = "queued"
      /\ \A d \in Calls, j \in Kinds : d # c \/ j # k => posts'[<<d, j>>] = posts[<<d, j>>]
  BY PostsPoint DEF Send
<1>2. /\ stage'[c] = "awaiting" /\ sent'[c] = k
      /\ \A d \in Calls : d # c => stage'[d] = stage[d] /\ sent'[d] = sent[d]
      /\ stage' \in [Calls -> Stages] /\ sent' \in [Calls -> Kinds]
  BY DEF TypeOK, Send, Goto, Stages
<1>3. posts' \in [Posts -> PostStates]
  BY DEF TypeOK, Send, PostStates
<1>4. QED BY <1>1, <1>2, <1>3 DEF SentTo, OthersStay, SendTypes

LEMMA GoOnEffect ==
  ASSUME TypeOK, NEW c \in Calls, NEW st \in Stages, GoOn(c, st)
  PROVE  /\ stage'[c] = st /\ UNCHANGED <<sent, posts>>
         /\ OthersStay(c) /\ SendTypes
  BY DEF TypeOK, GoOn, Goto, OthersStay, SendTypes

\* What else does not change when a call sends or hears of its post: nothing
\* moves but the ids it holds and its answer, and what it has given up.
Settles(c) ==
  /\ flow'[c].target = flow[c].target /\ flow'[c].intent = flow[c].intent
  /\ flow'[c].tier = flow[c].tier
  /\ \A k \in Kinds :
       /\ posts[<<c, k>>] \in {"queued", "running"} => <<c, k>> \in givenUp'
       /\ <<c, k>> \in givenUp => <<c, k>> \in givenUp'
  /\ UNCHANGED <<order, tables>>

\* Sending the next kind of post.
LEMMA SendKeepsPosts ==
  ASSUME NEW c \in Calls, NEW nk \in Kinds, TypeOK, CallInv(c), Send(c, nk), Settles(c),
         \A k \in Kinds : k >= nk => Unsent(c, k),
         nk \in 1 .. Steps => Stored(c, DecisionPost),
         nk <= Steps => nk = DecisionPost \/ ~Unsent(c, DecisionPost),
         flow'[c].answer = flow[c].answer
  PROVE  PostsInv(c)' /\ RowsInv(c)' /\ OrdersInv(c)'
<1>1. /\ DecisionPost \in Kinds /\ RoutePost \in Kinds /\ EdgePost \in Kinds
      /\ \A k \in 1 .. Steps : k \in Kinds
      /\ nk \in Nat /\ Kinds \subseteq Nat
  BY KindsOrdered
<1>2. /\ stage'[c] = "awaiting" /\ sent'[c] = nk /\ posts'[<<c, nk>>] = "queued"
      /\ \A j \in Kinds : j # nk => posts'[<<c, j>>] = posts[<<c, j>>]
  <2>1. SentTo(c, nk)
    BY SendEffect
  <2>2. QED BY <2>1 DEF SentTo
<1>3. \A k \in Kinds : k > nk => Unsent(c, k) /\ k # nk
  BY <1>1
<1>4. Unsent(c, nk)
  BY <1>1
<1>5. PostsInv(c)'
  <2>1. posts[<<c, DecisionPost>>] = "stored" => posts'[<<c, DecisionPost>>] = "stored"
    BY <1>1, <1>2, <1>4 DEF Unsent
  <2>2. \A k \in Kinds : posts[<<c, k>>] # "unsent" => posts'[<<c, k>>] # "unsent"
    BY <1>1, <1>2, <1>4 DEF Unsent
  <2>3. \A k \in Kinds : k > sent'[c] => posts'[<<c, k>>] = "unsent"
    BY <1>2, <1>3 DEF Unsent
  <2>4. \A k \in Kinds : posts'[<<c, k>>] \in {"queued", "running"} /\ <<c, k>> \notin givenUp'
                         => sent'[c] = k
    BY <1>2 DEF Settles
  <2>5. \A k \in 1 .. Steps : posts'[<<c, k>>] # "unsent" => posts'[<<c, DecisionPost>>] = "stored"
    BY <1>1, <1>2, <2>1 DEF CallInv, PostsInv, Unsent, Stored
  <2>6. sent'[c] <= Steps \/ flow'[c].answer = "answered" => posts'[<<c, DecisionPost>>] # "unsent"
    BY <1>1, <1>2, <2>2 DEF CallInv, PostsInv, Unsent
  <2>7. QED BY <1>1, <1>2, <2>3, <2>4, <2>5, <2>6 DEF PostsInv, Unsent, Stored, AwaitsPost, Early
<1>6. RowsInv(c)'
  BY <1>1, <1>2, <1>4 DEF CallInv, RowsInv, Settles, Unsent, Stored, DecisionRow, RouteRow, Edge,
     tables
<1>7. OrdersInv(c)'
  <2>1. stepRows' = stepRows /\ order' = order
    BY DEF Settles, tables
  <2>2. /\ posts'[<<c, DecisionPost>>] = "stored" => posts[<<c, DecisionPost>>] = "stored"
        /\ \A k \in 1 .. Steps :
             /\ posts[<<c, k>>] = "stored" => posts'[<<c, k>>] = "stored"
             /\ posts'[<<c, k>>] = "running" => posts[<<c, k>>] = "running"
    BY <1>1, <1>2, <1>4 DEF Unsent
  <2>3. RowsStay(c)
    BY <1>1, <2>1, <2>2 DEF RowsStay, Stored, Settles
  <2>4. QED BY <2>1, <2>2, <2>3, OrdersStay DEF CallInv
<1>8. QED BY <1>5, <1>6, <1>7

\* Going on without sending.
LEMMA GoOnKeepsPosts ==
  ASSUME NEW c \in Calls, NEW st \in {"remember", "route", "done"}, TypeOK, CallInv(c),
         Settles(c), stage'[c] = st, UNCHANGED <<sent, posts>>,
         st # "done" => Unsent(c, RoutePost) /\ Unsent(c, EdgePost),
         st = "remember" \/ flow'[c].answer = "answered" => ~Unsent(c, DecisionPost),
         st = "done" /\ flow'[c].answer = "answered" => ~Unsent(c, RoutePost)
  PROVE  PostsInv(c)' /\ RowsInv(c)' /\ OrdersInv(c)'
<1>1. /\ DecisionPost \in Kinds /\ RoutePost \in Kinds /\ EdgePost \in Kinds
      /\ \A k \in 1 .. Steps : k \in Kinds
  BY KindsOrdered
<1>2. PostsInv(c)'
  BY <1>1 DEF CallInv, PostsInv, Settles, Unsent, Stored, AwaitsPost, Early
<1>3. RowsInv(c)'
  BY <1>1 DEF CallInv, RowsInv, Settles, Unsent, Stored, DecisionRow, RouteRow, Edge, tables
<1>4. OrdersInv(c)'
  <2>1. RowsStay(c)
    BY <1>1 DEF Settles, RowsStay, Stored, tables
  <2>2. QED BY <1>1, <2>1, OrdersStay DEF CallInv, Settles
<1>5. QED BY <1>2, <1>3, <1>4

\* The invariant of the records from that of the call that moved.
LEMMA SenderKeepsRecords ==
  ASSUME RecordsInv, NEW c \in Calls, CallInv(c)', OthersStay(c), SendTypes,
         flow' \in [Calls -> Flow],
         \A d \in Calls : d # c => flow'[d] = flow[d],
         memory' \in [Sessions -> Seq(Entry)],
         givenUp' = givenUp \/ givenUp' = givenUp \cup {<<c, sent[c]>>},
         UNCHANGED <<known, order, tables, before>>
  PROVE  RecordsInv' /\ \A d \in Calls : d # c => Same(d)
<1>1. TypeOK /\ sent[c] \in Kinds
  BY DEF RecordsInv, TypeOK
<1>2. \A d \in Calls, k \in Kinds : d # c => (<<d, k>> \in givenUp' <=> <<d, k>> \in givenUp)
  OBVIOUS
<1>3. givenUp' \subseteq Posts
  BY <1>1 DEF TypeOK, Posts
<1>4. TypeOK'
  BY <1>1, <1>3 DEF TypeOK, SendTypes, tables
<1>5. \A d \in Calls : d # c => Same(d) /\ RowsGrow(d)
  BY <1>2 DEF OthersStay, Same, RowsGrow, tables
<1>6. \A d \in Calls : d # c => CallInv(d)'
  BY <1>1, <1>5, Frame DEF RecordsInv
<1>7. QED BY <1>4, <1>5, <1>6 DEF RecordsInv

\* While the call waits for nothing, only what it has given up is on its way.
LEMMA NothingOnItsWay ==
  ASSUME NEW c \in Calls, CallInv(c), stage[c] # "awaiting", UNCHANGED givenUp
  PROVE  \A k \in Kinds : /\ posts[<<c, k>>] \in {"queued", "running"} => <<c, k>> \in givenUp'
                          /\ <<c, k>> \in givenUp => <<c, k>> \in givenUp'
  BY DEF CallInv, PostsInv, AwaitsPost

\* The agent's decision is sent.
LEMMA AgentRecordsKeeps ==
  ASSUME RecordsInv, NEW c \in Calls, AgentRecords(c)
  PROVE  RecordsInv' /\ \A d \in Calls : d # c => Same(d)
<1>1. TypeOK /\ CallInv(c) /\ stage[c] = "agent" /\ Send(c, DecisionPost)
  BY DEF RecordsInv, AgentRecords
<1>2. UNCHANGED <<flow, memory, known, givenUp, order, tables, before>>
  BY DEF AgentRecords
<1>3. SentTo(c, DecisionPost) /\ OthersStay(c) /\ SendTypes
  BY <1>1, SendEffect, KindsOrdered
<1>4. \A k \in Kinds : posts[<<c, k>>] = "unsent"
  BY <1>1 DEF CallInv, PostsInv, Unsent, Early
<1>5. Settles(c)
  BY <1>1, <1>2, NothingOnItsWay DEF Settles
<1>6. PostsInv(c)' /\ RowsInv(c)' /\ OrdersInv(c)'
  <2>1. \A k \in Kinds : Unsent(c, k)
    BY <1>4 DEF Unsent
  <2>2. flow'[c].answer = flow[c].answer /\ DecisionPost \in Kinds
        /\ DecisionPost \notin 1 .. Steps
    BY <1>2, KindsOrdered
  <2>3. QED BY <1>1, <1>5, <2>1, <2>2, SendKeepsPosts
<1>7. FlowInv(c)'
  <2>1. /\ DecisionPost \in Kinds /\ RoutePost \in Kinds /\ EdgePost \in Kinds
        /\ DecisionPost # RoutePost /\ DecisionPost # EdgePost /\ c # NoId
    BY KindsOrdered, ConstantsOK
  <2>2. /\ flow[c].agentId = NoId /\ flow[c].routeId = NoId
        /\ flow[c].target \in Names /\ flow[c].target \in Agents /\ flow[c].tier # 3
    BY <1>1, <1>4, <2>1 DEF CallInv, FlowInv, Stored
  <2>3. /\ stage'[c] = "awaiting" /\ sent'[c] = DecisionPost
        /\ posts'[<<c, RoutePost>>] = "unsent" /\ posts'[<<c, EdgePost>>] = "unsent"
    BY <1>3, <1>4, <2>1 DEF SentTo
  <2>4. QED BY <1>2, <2>1, <2>2, <2>3 DEF FlowInv, Unsent, Stored, AwaitsPost
<1>8. QED
  <2>1. CallInv(c)'
    BY <1>6, <1>7 DEF CallInv
  <2>2. flow' \in [Calls -> Flow] /\ memory' \in [Sessions -> Seq(Entry)]
    BY <1>1, <1>2 DEF TypeOK
  <2>3. QED BY <1>2, <1>3, <2>1, <2>2, SenderKeepsRecords

\* The route is sent.
LEMMA RecordRouteKeeps ==
  ASSUME RecordsInv, NEW c \in Calls, RecordRoute(c)
  PROVE  RecordsInv' /\ \A d \in Calls : d # c => Same(d)
<1>1. TypeOK /\ CallInv(c) /\ stage[c] = "route" /\ Send(c, RoutePost)
  BY DEF RecordsInv, RecordRoute
<1>2. UNCHANGED <<flow, memory, known, givenUp, order, tables, before>>
  BY DEF RecordRoute
<1>3. SentTo(c, RoutePost) /\ OthersStay(c) /\ SendTypes
  BY <1>1, SendEffect, KindsOrdered
<1>4. posts[<<c, RoutePost>>] = "unsent" /\ posts[<<c, EdgePost>>] = "unsent"
  BY <1>1 DEF CallInv, PostsInv, Unsent
<1>5. Settles(c)
  BY <1>1, <1>2, NothingOnItsWay DEF Settles
<1>6. PostsInv(c)' /\ RowsInv(c)' /\ OrdersInv(c)'
  <2>1. \A k \in Kinds : k >= RoutePost => k = RoutePost \/ k = EdgePost
    BY ConstantsOK DEF Kinds, RoutePost, EdgePost
  <2>2. \A k \in Kinds : k >= RoutePost => Unsent(c, k)
    BY <1>4, <2>1 DEF Unsent
  <2>3. flow'[c].answer = flow[c].answer /\ RoutePost \in Kinds
        /\ RoutePost \notin 1 .. Steps /\ ~(RoutePost <= Steps)
    BY <1>2, KindsOrdered, ConstantsOK DEF RoutePost
  <2>4. QED BY <1>1, <1>5, <2>2, <2>3, SendKeepsPosts
<1>7. FlowInv(c)'
  <2>1. /\ DecisionPost \in Kinds /\ RoutePost \in Kinds /\ EdgePost \in Kinds
        /\ DecisionPost # RoutePost /\ RoutePost # EdgePost /\ c # NoId
    BY KindsOrdered, ConstantsOK
  <2>2. flow[c].routeId = NoId /\ flow[c].target \in Names
    BY <1>1, <1>4, <2>1 DEF CallInv, FlowInv, Stored
  <2>3. /\ stage'[c] = "awaiting" /\ sent'[c] = RoutePost
        /\ posts'[<<c, RoutePost>>] = "queued" /\ posts'[<<c, EdgePost>>] = "unsent"
        /\ posts'[<<c, DecisionPost>>] = posts[<<c, DecisionPost>>]
    BY <1>3, <1>4, <2>1 DEF SentTo
  <2>4. QED BY <1>1, <1>2, <2>1, <2>2, <2>3 DEF CallInv, FlowInv, Unsent, Stored, AwaitsPost
<1>8. QED
  <2>1. CallInv(c)'
    BY <1>6, <1>7 DEF CallInv
  <2>2. flow' \in [Calls -> Flow] /\ memory' \in [Sessions -> Seq(Entry)]
    BY <1>1, <1>2 DEF TypeOK
  <2>3. QED BY <1>2, <1>3, <2>1, <2>2, SenderKeepsRecords

\* The answer enters the session's memory.
LEMMA RememberKeeps ==
  ASSUME RecordsInv, NEW c \in Calls, Remember(c)
  PROVE  RecordsInv' /\ \A d \in Calls : d # c => Same(d)
<1>1. TypeOK /\ CallInv(c) /\ stage[c] = "remember" /\ flow[c] \in Flow
  BY DEF RecordsInv, Remember, TypeOK
<1>2. /\ UNCHANGED <<sent, known, posts, givenUp, order, tables, before>>
      /\ GoOn(c, "route")
      /\ flow' = [flow EXCEPT ![c].answer = "answered"]
  BY DEF Remember, GoOn
<1>3. /\ stage'[c] = "route" /\ UNCHANGED <<sent, posts>>
      /\ OthersStay(c) /\ SendTypes
  BY <1>1, <1>2, GoOnEffect DEF Stages
<1>4. /\ flow' \in [Calls -> Flow]
      /\ \A d \in Calls : d # c => flow'[d] = flow[d]
      /\ flow'[c] = [flow[c] EXCEPT !.answer = "answered"]
  BY <1>1, <1>2 DEF TypeOK, Flow, Answers
<1>5. /\ flow'[c].target = flow[c].target /\ flow'[c].intent = flow[c].intent
      /\ flow'[c].tier = flow[c].tier
      /\ flow'[c].agentId = flow[c].agentId /\ flow'[c].routeId = flow[c].routeId
  BY <1>1, <1>4 DEF Flow
<1>6. Settles(c)
  BY <1>1, <1>2, <1>5, NothingOnItsWay DEF Settles
<1>7. ~Unsent(c, DecisionPost) /\ Unsent(c, RoutePost) /\ Unsent(c, EdgePost)
  BY <1>1 DEF CallInv, PostsInv
<1>8. PostsInv(c)' /\ RowsInv(c)' /\ OrdersInv(c)'
  BY <1>1, <1>3, <1>6, <1>7, GoOnKeepsPosts
<1>9. FlowInv(c)'
  BY <1>1, <1>2, <1>3, <1>5, <1>7, KindsOrdered
  DEF CallInv, FlowInv, Unsent, Stored, AwaitsPost
<1>10. memory' \in [Sessions -> Seq(Entry)]
  <2>1. flow[c].target \in Agents /\ SessionOf[c] \in Sessions
    BY <1>1, <1>7, ConstantsOK DEF CallInv, FlowInv
  <2>2. Append(memory[SessionOf[c]], [call |-> c, agent |-> flow[c].target]) \in Seq(Entry)
    <3>1. memory[SessionOf[c]] \in Seq(Entry) /\ [call |-> c, agent |-> flow[c].target] \in Entry
      BY <1>1, <2>1 DEF TypeOK, Entry
    <3>2. QED BY <3>1
  <2>3. QED BY <1>1, <2>1, <2>2 DEF Remember, TypeOK
<1>11. QED
  <2>1. CallInv(c)'
    BY <1>8, <1>9 DEF CallInv
  <2>2. QED BY <1>2, <1>3, <1>4, <1>10, <2>1, SenderKeepsRecords

\* What a call knows when it stops waiting, with a response or without one.
Hears(c, ok) ==
  /\ stage[c] = "awaiting"
  /\ ok => Stored(c, sent[c])
  /\ ~ok => posts[<<c, sent[c]>>] = "failed" \/ <<c, sent[c]>> \in givenUp'
  /\ givenUp' = givenUp \/ givenUp' = givenUp \cup {<<c, sent[c]>>}

\* Then nothing of the call is on its way that it has not given up.
LEMMA HeardAll ==
  ASSUME NEW c \in Calls, TypeOK, CallInv(c), NEW ok \in BOOLEAN, Hears(c, ok)
  PROVE  \A k \in Kinds : /\ posts[<<c, k>>] \in {"queued", "running"} => <<c, k>> \in givenUp'
                          /\ <<c, k>> \in givenUp => <<c, k>> \in givenUp'
<1> SUFFICES ASSUME NEW k \in Kinds
             PROVE  /\ posts[<<c, k>>] \in {"queued", "running"} => <<c, k>> \in givenUp'
                    /\ <<c, k>> \in givenUp => <<c, k>> \in givenUp'
  OBVIOUS
<1>1. givenUp \subseteq givenUp'
  BY DEF Hears
<1>2. ASSUME posts[<<c, k>>] \in {"queued", "running"}, <<c, k>> \notin givenUp
      PROVE  <<c, k>> \in givenUp'
  <2>1. sent[c] = k
    BY <1>2 DEF CallInv, PostsInv, AwaitsPost
  <2>2. QED BY <1>2, <2>1 DEF Hears, Stored
<1>3. QED BY <1>1, <1>2

\* What is common to every way of going on.
LEMMA HeardFacts ==
  ASSUME RecordsInv, NEW c \in Calls, NEW ok \in BOOLEAN, Hears(c, ok)
  PROVE  /\ TypeOK /\ CallInv(c) /\ flow[c] \in Flow /\ sent[c] \in Kinds /\ c # NoId
         /\ ~Unsent(c, sent[c])
         /\ \A k \in Kinds : k > sent[c] => Unsent(c, k)
         /\ <<c, sent[c]>> \in givenUp' \/ posts[<<c, sent[c]>>] \in {"stored", "failed"}
         /\ givenUp \subseteq givenUp'
<1>1. TypeOK /\ CallInv(c) /\ flow[c] \in Flow /\ sent[c] \in Kinds
  BY DEF RecordsInv, TypeOK
<1>2. QED BY <1>1, ConstantsOK DEF Hears, CallInv, PostsInv, Stored

\* The decision's response: the first step is sent, or the answer remembered.
LEMMA DecisionReturnedKeeps ==
  ASSUME RecordsInv, NEW c \in Calls, NEW ok \in BOOLEAN, Hears(c, ok),
         DecisionReturned(c, ok), UNCHANGED <<memory, known, order, tables, before>>
  PROVE  CallInv(c)' /\ OthersStay(c) /\ SendTypes /\ flow' \in [Calls -> Flow]
         /\ \A d \in Calls : d # c => flow'[d] = flow[d]
<1>1. /\ TypeOK /\ CallInv(c) /\ flow[c] \in Flow /\ c # NoId
      /\ sent[c] = DecisionPost /\ ~Unsent(c, DecisionPost)
      /\ \A k \in Kinds : k > DecisionPost => Unsent(c, k)
  BY HeardFacts DEF DecisionReturned
<1>2. /\ DecisionPost \in Kinds /\ RoutePost \in Kinds /\ EdgePost \in Kinds
      /\ DecisionPost # RoutePost /\ DecisionPost # EdgePost
      /\ RoutePost > DecisionPost /\ EdgePost > DecisionPost
      /\ Steps > 0 => 1 \in Kinds /\ 1 # DecisionPost /\ 1 # RoutePost /\ 1 # EdgePost
                      /\ 1 \in 1 .. Steps
      /\ \A k \in Kinds : k >= 1 => k > DecisionPost
  BY ConstantsOK DEF Kinds, DecisionPost, RoutePost, EdgePost
<1>3. Unsent(c, RoutePost) /\ Unsent(c, EdgePost)
  BY <1>1, <1>2
<1>4. /\ flow' \in [Calls -> Flow]
      /\ \A d \in Calls : d # c => flow'[d] = flow[d]
      /\ flow'[c].target = flow[c].target /\ flow'[c].intent = flow[c].intent
      /\ flow'[c].tier = flow[c].tier /\ flow'[c].answer = flow[c].answer
      /\ flow'[c].routeId = flow[c].routeId
      /\ flow'[c].agentId = IF ok THEN c ELSE flow[c].agentId
  BY <1>1 DEF TypeOK, Flow, DecisionReturned
<1>5. Settles(c)
  BY <1>1, <1>4, HeardAll DEF Settles
<1>6. /\ flow[c].routeId = NoId
      /\ flow[c].target \in Names /\ flow[c].target \in Agents /\ flow[c].tier # 3
      /\ flow[c].agentId # NoId => flow[c].agentId = c /\ Stored(c, DecisionPost)
      /\ ok => Stored(c, DecisionPost)
      /\ Stored(c, DecisionPost) /\ <<c, DecisionPost>> \notin givenUp' => ok
  BY <1>1, <1>2, <1>3 DEF CallInv, FlowInv, Hears, Unsent, Stored
<1>7. CASE ok /\ Steps > 0
  <2>1. Send(c, 1)
    BY <1>7 DEF DecisionReturned
  <2>2. SentTo(c, 1) /\ OthersStay(c) /\ SendTypes
    BY <1>1, <1>2, <1>7, <2>1, SendEffect
  <2>3. PostsInv(c)' /\ RowsInv(c)' /\ OrdersInv(c)'
    BY <1>1, <1>2, <1>4, <1>5, <1>6, <1>7, <2>1, SendKeepsPosts
  <2>4. /\ stage'[c] = "awaiting" /\ sent'[c] = 1
        /\ posts'[<<c, DecisionPost>>] = posts[<<c, DecisionPost>>]
        /\ posts'[<<c, RoutePost>>] = "unsent" /\ posts'[<<c, EdgePost>>] = "unsent"
    BY <1>2, <1>3, <1>7, <2>2 DEF SentTo, Unsent
  <2>5. FlowInv(c)'
    BY <1>1, <1>2, <1>4, <1>6, <1>7, <2>4 DEF FlowInv, Unsent, Stored, AwaitsPost
  <2>6. QED BY <1>4, <2>2, <2>3, <2>5 DEF CallInv
<1>8. CASE ~(ok /\ Steps > 0)
  <2>1. GoOn(c, "remember") /\ "remember" \in Stages
    BY <1>8 DEF DecisionReturned, Stages
  <2>2. /\ stage'[c] = "remember" /\ UNCHANGED <<sent, posts>>
        /\ OthersStay(c) /\ SendTypes
    BY <1>1, <2>1, GoOnEffect
  <2>3. PostsInv(c)' /\ RowsInv(c)' /\ OrdersInv(c)'
    BY <1>1, <1>3, <1>5, <2>2, GoOnKeepsPosts
  <2>4. FlowInv(c)'
    BY <1>1, <1>2, <1>3, <1>4, <1>6, <2>2 DEF FlowInv, Unsent, Stored, AwaitsPost
  <2>5. QED BY <1>4, <2>2, <2>3, <2>4 DEF CallInv
<1>9. QED BY <1>7, <1>8

\* A step's response, or none: the next step, or the answer remembered.
LEMMA StepReturnedKeeps ==
  ASSUME RecordsInv, NEW c \in Calls, NEW ok \in BOOLEAN, Hears(c, ok),
         StepReturned(c), UNCHANGED <<memory, known, order, tables, before>>
  PROVE  CallInv(c)' /\ OthersStay(c) /\ SendTypes /\ flow' \in [Calls -> Flow]
         /\ \A d \in Calls : d # c => flow'[d] = flow[d]
<1> DEFINE k == sent[c]
<1>1. /\ TypeOK /\ CallInv(c) /\ flow[c] \in Flow /\ c # NoId
      /\ k \in 1 .. Steps /\ ~Unsent(c, k) /\ UNCHANGED flow
      /\ \A j \in Kinds : j > k => Unsent(c, j)
  BY HeardFacts DEF StepReturned
<1>2. /\ DecisionPost \in Kinds /\ RoutePost \in Kinds /\ EdgePost \in Kinds
      /\ k # DecisionPost /\ k # RoutePost /\ k # EdgePost
      /\ RoutePost > k /\ EdgePost > k
      /\ k < Steps => k + 1 \in Kinds /\ k + 1 \in 1 .. Steps
      /\ DecisionPost \notin 1 .. Steps /\ RoutePost \notin 1 .. Steps /\ EdgePost \notin 1 .. Steps
      /\ \A j \in Kinds : j >= k + 1 => j > k
  BY <1>1, ConstantsOK DEF Kinds, DecisionPost, RoutePost, EdgePost
<1>3. /\ Unsent(c, RoutePost) /\ Unsent(c, EdgePost)
      /\ Stored(c, DecisionPost) /\ ~Unsent(c, DecisionPost)
  BY <1>1, <1>2 DEF CallInv, PostsInv, Unsent, Stored
<1>4. Settles(c)
  BY <1>1, HeardAll DEF Settles
<1>5. /\ flow' \in [Calls -> Flow]
      /\ \A d \in Calls : d # c => flow'[d] = flow[d]
  BY <1>1 DEF TypeOK
<1>6. ~AwaitsPost(c, DecisionPost) /\ \A j \in Kinds : <<c, j>> \in givenUp => <<c, j>> \in givenUp'
  BY <1>2, <1>4 DEF AwaitsPost, Settles
<1>7. CASE k < Steps
  <2> DEFINE nk == k + 1
  <2>1. Send(c, nk) /\ nk \in Kinds /\ nk \in 1 .. Steps
    BY <1>2, <1>7 DEF StepReturned
  <2>2. \A j \in Kinds : j >= nk => Unsent(c, j)
    BY <1>1, <1>2
  <2>3. flow'[c].answer = flow[c].answer
    BY <1>1
  <2> HIDE DEF nk, k
  <2>4. SentTo(c, nk) /\ OthersStay(c) /\ SendTypes
    BY <1>1, <2>1, SendEffect
  <2>5. PostsInv(c)' /\ RowsInv(c)' /\ OrdersInv(c)'
    BY <1>1, <1>3, <1>4, <2>1, <2>2, <2>3, SendKeepsPosts
  <2>6. /\ stage'[c] = "awaiting" /\ sent'[c] = nk /\ nk # DecisionPost /\ nk # RoutePost
        /\ posts'[<<c, DecisionPost>>] = posts[<<c, DecisionPost>>]
        /\ posts'[<<c, RoutePost>>] = posts[<<c, RoutePost>>]
        /\ posts'[<<c, EdgePost>>] = posts[<<c, EdgePost>>]
    BY <1>2, <2>1, <2>4 DEF SentTo
  <2>7. FlowInv(c)'
    BY <1>1, <1>2, <1>3, <1>6, <2>6 DEF CallInv, FlowInv, Unsent, Stored, AwaitsPost
  <2>8. QED BY <1>5, <2>4, <2>5, <2>7 DEF CallInv
<1>8. CASE ~(k < Steps)
  <2>1. GoOn(c, "remember") /\ "remember" \in Stages
    BY <1>8 DEF StepReturned, Stages
  <2>2. /\ stage'[c] = "remember" /\ UNCHANGED <<sent, posts>>
        /\ OthersStay(c) /\ SendTypes
    BY <1>1, <2>1, GoOnEffect
  <2>3. PostsInv(c)' /\ RowsInv(c)' /\ OrdersInv(c)'
    BY <1>1, <1>3, <1>4, <2>2, GoOnKeepsPosts
  <2>4. FlowInv(c)'
    BY <1>1, <1>2, <1>3, <1>6, <2>2 DEF CallInv, FlowInv, Unsent, Stored, AwaitsPost
  <2>5. QED BY <1>5, <2>2, <2>3, <2>4 DEF CallInv
<1>9. QED BY <1>7, <1>8

\* The route's response: the edge is sent when both ids are there.
LEMMA RouteReturnedKeeps ==
  ASSUME RecordsInv, NEW c \in Calls, NEW ok \in BOOLEAN, Hears(c, ok),
         RouteReturned(c, ok), UNCHANGED <<memory, known, order, tables, before>>
  PROVE  CallInv(c)' /\ OthersStay(c) /\ SendTypes /\ flow' \in [Calls -> Flow]
         /\ \A d \in Calls : d # c => flow'[d] = flow[d]
<1>1. /\ TypeOK /\ CallInv(c) /\ flow[c] \in Flow /\ c # NoId
      /\ sent[c] = RoutePost /\ ~Unsent(c, RoutePost)
      /\ \A k \in Kinds : k > RoutePost => Unsent(c, k)
  BY HeardFacts DEF RouteReturned
<1>2. /\ DecisionPost \in Kinds /\ RoutePost \in Kinds /\ EdgePost \in Kinds
      /\ DecisionPost # RoutePost /\ DecisionPost # EdgePost /\ RoutePost # EdgePost
      /\ EdgePost > RoutePost /\ EdgePost \notin 1 .. Steps /\ ~(EdgePost <= Steps)
      /\ \A k \in Kinds : k >= EdgePost => k > RoutePost
  BY ConstantsOK DEF Kinds, DecisionPost, RoutePost, EdgePost
<1>3. Unsent(c, EdgePost)
  BY <1>1, <1>2
<1>4. /\ flow' \in [Calls -> Flow]
      /\ \A d \in Calls : d # c => flow'[d] = flow[d]
      /\ flow'[c].target = flow[c].target /\ flow'[c].intent = flow[c].intent
      /\ flow'[c].tier = flow[c].tier /\ flow'[c].answer = flow[c].answer
      /\ flow'[c].agentId = flow[c].agentId
      /\ flow'[c].routeId = IF ok THEN c ELSE flow[c].routeId
  BY <1>1 DEF TypeOK, Flow, RouteReturned
<1>5. Settles(c)
  BY <1>1, <1>4, HeardAll DEF Settles
<1>6. /\ ok => Stored(c, RoutePost)
      /\ Stored(c, RoutePost) /\ <<c, RoutePost>> \notin givenUp' => ok
      /\ flow[c].agentId # NoId => flow[c].agentId = c
      /\ ~AwaitsPost(c, DecisionPost)
      /\ \A j \in Kinds : <<c, j>> \in givenUp => <<c, j>> \in givenUp'
      /\ flow[c].target \in Names
  BY <1>1, <1>2, <1>5 DEF CallInv, FlowInv, Hears, Stored, AwaitsPost, Settles
<1>7. CASE Links(c, ok)
  <2>1. Send(c, EdgePost) /\ ok /\ flow[c].agentId = c
    BY <1>6, <1>7 DEF RouteReturned, Links
  <2>2. SentTo(c, EdgePost) /\ OthersStay(c) /\ SendTypes
    BY <1>1, <1>2, <2>1, SendEffect
  <2>3. PostsInv(c)' /\ RowsInv(c)' /\ OrdersInv(c)'
    BY <1>1, <1>2, <1>4, <1>5, <2>1, SendKeepsPosts
  <2>4. /\ stage'[c] = "awaiting" /\ sent'[c] = EdgePost
        /\ posts'[<<c, DecisionPost>>] = posts[<<c, DecisionPost>>]
        /\ posts'[<<c, RoutePost>>] = posts[<<c, RoutePost>>]
        /\ posts'[<<c, EdgePost>>] = "queued"
    BY <1>2, <2>2 DEF SentTo
  <2>5. FlowInv(c)'
    BY <1>1, <1>2, <1>4, <1>6, <2>1, <2>4 DEF CallInv, FlowInv, Unsent, Stored, AwaitsPost
  <2>6. QED BY <1>4, <2>2, <2>3, <2>5 DEF CallInv
<1>8. CASE ~Links(c, ok)
  <2>1. GoOn(c, "done") /\ "done" \in Stages /\ (ok => flow[c].agentId = NoId)
    BY <1>8 DEF RouteReturned, Stages, Links
  <2>2. /\ stage'[c] = "done" /\ UNCHANGED <<sent, posts>>
        /\ OthersStay(c) /\ SendTypes
    BY <1>1, <2>1, GoOnEffect
  <2>3. flow'[c].answer = "answered" => ~Unsent(c, DecisionPost)
    BY <1>1, <1>4 DEF CallInv, PostsInv
  <2>4. PostsInv(c)' /\ RowsInv(c)' /\ OrdersInv(c)'
    BY <1>1, <1>5, <2>2, <2>3, GoOnKeepsPosts
  <2>5. FlowInv(c)'
    BY <1>1, <1>2, <1>3, <1>4, <1>6, <2>1, <2>2 DEF CallInv, FlowInv, Unsent, Stored, AwaitsPost
  <2>6. QED BY <1>4, <2>2, <2>4, <2>5 DEF CallInv
<1>9. QED BY <1>7, <1>8

\* The edge's response ends the call.
LEMMA EdgeReturnedKeeps ==
  ASSUME RecordsInv, NEW c \in Calls, NEW ok \in BOOLEAN, Hears(c, ok),
         EdgeReturned(c), UNCHANGED <<memory, known, order, tables, before>>
  PROVE  CallInv(c)' /\ OthersStay(c) /\ SendTypes /\ flow' \in [Calls -> Flow]
         /\ \A d \in Calls : d # c => flow'[d] = flow[d]
<1>1. /\ TypeOK /\ CallInv(c) /\ flow[c] \in Flow /\ c # NoId
      /\ sent[c] = EdgePost /\ ~Unsent(c, EdgePost)
      /\ GoOn(c, "done") /\ UNCHANGED flow /\ "done" \in Stages
  BY HeardFacts DEF EdgeReturned, Stages
<1>2. /\ DecisionPost \in Kinds /\ RoutePost \in Kinds /\ EdgePost \in Kinds
      /\ DecisionPost # EdgePost /\ RoutePost # EdgePost
  BY KindsOrdered, ConstantsOK DEF RoutePost, EdgePost
<1>3. /\ stage'[c] = "done" /\ UNCHANGED <<sent, posts>>
      /\ OthersStay(c) /\ SendTypes
  BY <1>1, GoOnEffect
<1>4. Settles(c)
  BY <1>1, HeardAll DEF Settles
<1>5. ~Unsent(c, RoutePost)
  BY <1>1 DEF CallInv, FlowInv, Unsent, Stored
<1>6. flow'[c].answer = "answered" => ~Unsent(c, DecisionPost)
  BY <1>1 DEF CallInv, PostsInv
<1>7. PostsInv(c)' /\ RowsInv(c)' /\ OrdersInv(c)'
  BY <1>1, <1>3, <1>4, <1>5, <1>6, GoOnKeepsPosts
<1>8. FlowInv(c)'
  <2>1. /\ ~AwaitsPost(c, DecisionPost) /\ ~AwaitsPost(c, RoutePost)
        /\ \A j \in Kinds : <<c, j>> \in givenUp => <<c, j>> \in givenUp'
    BY <1>1, <1>2, <1>4 DEF AwaitsPost, Settles
  <2>2. QED BY <1>1, <1>2, <1>3, <2>1 DEF CallInv, FlowInv, Unsent, Stored, AwaitsPost
<1>9. QED BY <1>1, <1>3, <1>7, <1>8 DEF CallInv, TypeOK

\* A call that hears of its post, or stops waiting for it.
LEMMA ReturnsKeep ==
  ASSUME RecordsInv, NEW c \in Calls, Receive(c) \/ GiveUp(c)
  PROVE  RecordsInv' /\ \A d \in Calls : d # c => Same(d)
<1>1. PICK ok \in BOOLEAN : Hears(c, ok) /\ Returned(c, ok)
  <2>1. CASE Receive(c)
    <3>1. Succeeded(c) \in BOOLEAN /\ Hears(c, Succeeded(c)) /\ Returned(c, Succeeded(c))
      BY <2>1 DEF Receive, Succeeded, Hears, Stored
    <3>2. QED BY <3>1
  <2>2. CASE GiveUp(c)
    <3>1. Hears(c, FALSE) /\ Returned(c, FALSE)
      BY <2>2 DEF GiveUp, Timeout, Hears
    <3>2. QED BY <3>1
  <2>3. QED BY <2>1, <2>2
<1>2. UNCHANGED <<memory, known, order, tables, before>>
  BY <1>1 DEF Returned
<1>3. /\ CallInv(c)' /\ OthersStay(c) /\ SendTypes /\ flow' \in [Calls -> Flow]
      /\ \A d \in Calls : d # c => flow'[d] = flow[d]
  BY <1>1, <1>2, DecisionReturnedKeeps, StepReturnedKeeps, RouteReturnedKeeps, EdgeReturnedKeeps
  DEF Returned
<1>4. /\ memory' \in [Sessions -> Seq(Entry)]
      /\ givenUp' = givenUp \/ givenUp' = givenUp \cup {<<c, sent[c]>>}
  BY <1>1, <1>2 DEF RecordsInv, TypeOK, Hears
<1>5. QED BY <1>2, <1>3, <1>4, SenderKeepsRecords

-------------------------------------------------------------------------------
(* ProofLayer's handlers.                                                    *)

\* One post moves on, and nothing of the calls.
PostStep(c, k, new) ==
  /\ posts[<<c, k>>] \in {"queued", "running"}
  /\ new \in {"running", "stored", "failed"}
  /\ posts' = [posts EXCEPT ![<<c, k>>] = new]
  /\ UNCHANGED <<stage, flow, sent, memory, known, givenUp, before>>

\* What it does to the call and what it leaves.
PostMoved(c, k, new) ==
  /\ posts'[<<c, k>>] = new
  /\ \A j \in Kinds : j # k => posts'[<<c, j>>] = posts[<<c, j>>]
  /\ \A d \in Calls, j \in Kinds : d # c => posts'[<<d, j>>] = posts[<<d, j>>]
  /\ posts' \in [Posts -> PostStates]

LEMMA PostStepEffect ==
  ASSUME TypeOK, NEW c \in Calls, NEW k \in Kinds, NEW new, PostStep(c, k, new)
  PROVE  PostMoved(c, k, new)
<1>1. posts' = [posts EXCEPT ![<<c, k>>] = new] /\ new \in PostStates
  BY DEF PostStep, PostStates
<1>2. /\ posts'[<<c, k>>] = new
      /\ \A d \in Calls, j \in Kinds : d # c \/ j # k => posts'[<<d, j>>] = posts[<<d, j>>]
  BY <1>1, PostsPoint
<1>3. posts' \in [Posts -> PostStates]
  BY <1>1 DEF TypeOK
<1>4. QED BY <1>2, <1>3 DEF PostMoved

\* The call's posts and state stay in agreement.
LEMMA PostStepKeeps ==
  ASSUME RecordsInv, NEW c \in Calls, NEW k \in Kinds, NEW new, PostStep(c, k, new)
  PROVE  PostsInv(c)' /\ FlowInv(c)'
<1>1. TypeOK /\ CallInv(c) /\ sent[c] \in Kinds
  BY DEF RecordsInv, TypeOK
<1>2. /\ posts[<<c, k>>] \in {"queued", "running"} /\ posts'[<<c, k>>] = new
      /\ new \in {"running", "stored", "failed"}
      /\ \A j \in Kinds : j # k => posts'[<<c, j>>] = posts[<<c, j>>]
      /\ UNCHANGED <<stage, flow, sent, givenUp>>
  <2>1. PostMoved(c, k, new)
    BY <1>1, PostStepEffect
  <2>2. QED BY <2>1 DEF PostStep, PostMoved
<1>3. /\ DecisionPost \in Kinds /\ RoutePost \in Kinds /\ EdgePost \in Kinds
      /\ \A j \in 1 .. Steps : j \in Kinds
  BY KindsOrdered
<1>4. /\ \A j \in Kinds : posts'[<<c, j>>] = "unsent" <=> posts[<<c, j>>] = "unsent"
      /\ \A j \in Kinds : posts[<<c, j>>] = "stored" => posts'[<<c, j>>] = "stored"
      /\ \A j \in Kinds : posts'[<<c, j>>] \in {"queued", "running"}
                          => posts[<<c, j>>] \in {"queued", "running"}
  BY <1>2
<1>5. PostsInv(c)'
  BY <1>1, <1>2, <1>3, <1>4 DEF CallInv, PostsInv, Unsent, Stored, AwaitsPost
<1>6. \A j \in Kinds :
        posts'[<<c, j>>] = "stored" /\ <<c, j>> \notin givenUp /\ ~AwaitsPost(c, j)
        => posts[<<c, j>>] = "stored"
  BY <1>1, <1>2 DEF CallInv, PostsInv
<1>7. FlowInv(c)'
  BY <1>1, <1>2, <1>3, <1>4, <1>6 DEF CallInv, FlowInv, Unsent, Stored, AwaitsPost
<1>8. QED BY <1>5, <1>7

\* The invariant of the records from that of the call whose post moved.
LEMMA HandlerKeepsRecords ==
  ASSUME RecordsInv, NEW c \in Calls, NEW k \in Kinds, NEW new, PostStep(c, k, new),
         RowsInv(c)', OrdersInv(c)',
         order' \in [Posts -> Nat],
         \A d \in Calls, j \in Kinds : d # c => order'[<<d, j>>] = order[<<d, j>>],
         \A d \in Calls : d # c => RowsGrow(d) /\ stepRows'[d] = stepRows[d],
         agentRows' \subseteq [call : Calls, agent : Agents],
         routeRows' \subseteq [call : Calls, intent : Intents \cup {NoIntent},
                               target : Names, tier : 1 .. 3],
         stepRows' \in [Calls -> Seq(Row)],
         edges' \subseteq [from : Calls, to : Calls]
  PROVE  RecordsInv'
<1>1. TypeOK
  BY DEF RecordsInv
<1>2. PostMoved(c, k, new)
  BY <1>1, PostStepEffect
<1>3. TypeOK'
  BY <1>1, <1>2 DEF TypeOK, PostStep, PostMoved
<1>4. \A d \in Calls : d # c => Same(d)
  BY <1>2 DEF PostStep, PostMoved, Same
<1>5. \A d \in Calls : d # c => CallInv(d)'
  BY <1>1, <1>4, Frame DEF RecordsInv
<1>6. CallInv(c)'
  BY PostStepKeeps DEF CallInv
<1>7. QED BY <1>3, <1>5, <1>6 DEF RecordsInv

\* MAX(step_order) + 1 leaves no order out and is greater than all.
LEMMA NextOrderNext ==
  ASSUME TypeOK, NEW c \in Calls, HasMax(c)
  PROVE  /\ NextOrder(c) \in Nat
         /\ NextOrder(c) = 0 \/ NextOrder(c) - 1 \in OrdersOf(c)
         /\ \A m \in OrdersOf(c) : m < NextOrder(c)
<1>1. OrdersOf(c) \subseteq Nat
  <2>1. \A i \in DOMAIN stepRows[c] : stepRows[c][i] \in Row
    BY DEF TypeOK
  <2>2. QED BY <2>1 DEF OrdersOf, Row
<1>2. CASE OrdersOf(c) = {}
  BY <1>2 DEF NextOrder
<1>3. CASE OrdersOf(c) # {}
  <2>1. \E n \in OrdersOf(c) : \A m \in OrdersOf(c) : m <= n
    BY <1>3 DEF HasMax
  <2>2. PICK n : n = CHOOSE x \in OrdersOf(c) : \A m \in OrdersOf(c) : m <= x
    OBVIOUS
  <2>3. n \in OrdersOf(c) /\ \A m \in OrdersOf(c) : m <= n
    BY <2>1, <2>2
  <2>4. n \in Nat /\ NextOrder(c) = 1 + n
    BY <1>1, <1>3, <2>2, <2>3 DEF NextOrder
  <2>5. NextOrder(c) \in Nat /\ NextOrder(c) - 1 = n
    BY <2>4
  <2>6. \A m \in OrdersOf(c) : m < NextOrder(c)
    BY <1>1, <2>3, <2>4
  <2>7. QED BY <2>3, <2>5, <2>6
<1>4. QED BY <1>2, <1>3

\* A handler starts.
LEMMA TakeKeeps ==
  ASSUME RecordsInv, NEW c \in Calls, NEW k \in Kinds, Take(<<c, k>>)
  PROVE  RecordsInv'
<1>1. TypeOK /\ CallInv(c)
  BY DEF RecordsInv
<1>2. PostStep(c, k, "running")
  BY DEF Take, Runnable, PostStep
<1>3. PostMoved(c, k, "running")
  BY <1>1, <1>2, PostStepEffect
<1>4. PICK next \in Nat : next = NextOrder(c)
  BY <1>1, NextOrderNext DEF CallInv, OrdersInv, RowsOrdered
<1>5. /\ order' = IF k \in 1 .. Steps THEN [order EXCEPT ![<<c, k>>] = next] ELSE order
      /\ UNCHANGED tables
  BY <1>4 DEF Take, IsStep
<1>6. /\ order' \in [Posts -> Nat]
      /\ \A d \in Calls, j \in Kinds : d # c \/ j # k => order'[<<d, j>>] = order[<<d, j>>]
      /\ k \in 1 .. Steps => order'[<<c, k>>] = next
  BY <1>1, <1>4, <1>5 DEF TypeOK, Posts
<1>7. RowsInv(c)'
  <2>1. /\ \A j \in Kinds : posts'[<<c, j>>] = "stored" => posts[<<c, j>>] = "stored"
        /\ \A j \in Kinds : posts[<<c, j>>] # "unsent" => posts'[<<c, j>>] # "unsent"
    BY <1>3 DEF PostMoved
  <2>2. UNCHANGED <<flow, agentRows, routeRows, edges>>
    BY <1>5, <1>2 DEF tables, PostStep
  <2>3. QED BY <1>1, <2>1, <2>2, KindsOrdered
        DEF CallInv, RowsInv, Unsent, Stored, DecisionRow, RouteRow, Edge
<1>8. OrdersInv(c)'
  <2>1. UNCHANGED <<stepRows, givenUp>>
    BY <1>2, <1>5 DEF tables, PostStep
  <2>2. DecisionPost \in Kinds /\ \A j \in 1 .. Steps : j \in Kinds
    BY KindsOrdered
  <2>3. /\ posts[<<c, k>>] = "queued"
        /\ \A j \in Kinds : posts'[<<c, j>>] = "stored" <=> posts[<<c, j>>] = "stored"
    BY <1>3 DEF Take, Runnable, PostMoved
  <2>4. RowsStay(c)
    BY <2>1, <2>2, <2>3 DEF RowsStay, Stored
  <2>5. RowsOrdered(c)'
    BY <1>1, <2>4, RowsStayOrdered DEF CallInv, OrdersInv
  <2>6. ASSUME NEW j \in 1 .. Steps, posts'[<<c, j>>] = "running" PROVE ReadNext(c, j)'
    <3>1. CASE j = k
      <4>1. /\ next = 0 \/ next - 1 \in OrdersOf(c)
            /\ \A m \in OrdersOf(c) : m < next
        BY <1>1, <1>4, NextOrderNext DEF CallInv, OrdersInv, RowsOrdered
      <4>2. \A i \in DOMAIN stepRows[c] : stepRows[c][i].order < next
        BY <4>1 DEF OrdersOf
      <4>3. OrdersOf(c)' = OrdersOf(c) /\ order'[<<c, j>>] = next
        BY <1>6, <2>1, <3>1 DEF OrdersOf
      <4>4. QED BY <2>1, <4>1, <4>2, <4>3 DEF ReadNext
    <3>2. CASE j # k
      <4>1. posts[<<c, j>>] = "running" /\ order'[<<c, j>>] = order[<<c, j>>]
        BY <1>3, <1>6, <2>2, <2>6, <3>2 DEF PostMoved
      <4>2. ReadNext(c, j)
        BY <1>1, <4>1 DEF CallInv, OrdersInv
      <4>3. QED BY <1>1, <2>4, <4>1, <4>2, ReadNextStays
    <3>3. QED BY <3>1, <3>2
  <2>7. QED BY <2>5, <2>6 DEF OrdersInv
<1>9. /\ \A d \in Calls : d # c => RowsGrow(d) /\ stepRows'[d] = stepRows[d]
      /\ agentRows' \subseteq [call : Calls, agent : Agents]
      /\ routeRows' \subseteq [call : Calls, intent : Intents \cup {NoIntent},
                               target : Names, tier : 1 .. 3]
      /\ stepRows' \in [Calls -> Seq(Row)]
      /\ edges' \subseteq [from : Calls, to : Calls]
  BY <1>1, <1>5 DEF tables, RowsGrow, TypeOK
<1>10. QED BY <1>2, <1>6, <1>7, <1>8, <1>9, HandlerKeepsRecords

\* A handler fails.
LEMMA FailKeeps ==
  ASSUME RecordsInv, NEW c \in Calls, NEW k \in Kinds, Fail(<<c, k>>)
  PROVE  RecordsInv'
<1>1. TypeOK /\ CallInv(c)
  BY DEF RecordsInv
<1>2. PostStep(c, k, "failed") /\ UNCHANGED <<order, tables>>
  BY DEF Fail, Handled, PostStep
<1>3. PostMoved(c, k, "failed")
  BY <1>1, <1>2, PostStepEffect
<1>4. RowsInv(c)'
  <2>1. /\ \A j \in Kinds : posts'[<<c, j>>] = "stored" => posts[<<c, j>>] = "stored"
        /\ \A j \in Kinds : posts[<<c, j>>] # "unsent" => posts'[<<c, j>>] # "unsent"
    BY <1>3 DEF PostMoved
  <2>2. UNCHANGED <<flow, agentRows, routeRows, edges>>
    BY <1>2 DEF tables, PostStep
  <2>3. QED BY <1>1, <2>1, <2>2, KindsOrdered
        DEF CallInv, RowsInv, Unsent, Stored, DecisionRow, RouteRow, Edge
<1>5. OrdersInv(c)'
  <2>1. UNCHANGED <<stepRows, givenUp, order>>
    BY <1>2 DEF tables, PostStep
  <2>2. \A j \in Kinds :
          /\ posts'[<<c, j>>] = "running" => posts[<<c, j>>] = "running"
          /\ posts'[<<c, j>>] = "stored" <=> posts[<<c, j>>] = "stored"
    BY <1>3 DEF Fail, Handled, PostMoved
  <2>3. DecisionPost \in Kinds /\ \A j \in 1 .. Steps : j \in Kinds
    BY KindsOrdered
  <2>4. RowsStay(c)
    BY <2>1, <2>2, <2>3 DEF RowsStay, Stored
  <2>5. QED BY <1>1, <2>1, <2>2, <2>3, <2>4, OrdersStay DEF CallInv
<1>6. /\ \A d \in Calls : d # c => RowsGrow(d) /\ stepRows'[d] = stepRows[d]
      /\ order' \in [Posts -> Nat] /\ order' = order
      /\ agentRows' \subseteq [call : Calls, agent : Agents]
      /\ routeRows' \subseteq [call : Calls, intent : Intents \cup {NoIntent},
                               target : Names, tier : 1 .. 3]
      /\ stepRows' \in [Calls -> Seq(Row)]
      /\ edges' \subseteq [from : Calls, to : Calls]
  BY <1>1, <1>2 DEF tables, RowsGrow, TypeOK
<1>7. QED BY <1>2, <1>4, <1>5, <1>6, HandlerKeepsRecords

\* The decision is inserted with the steps sent along with it.
LEMMA StoreDecisionKeeps ==
  ASSUME RecordsInv, NEW c \in Calls, PostStep(c, DecisionPost, "stored"),
         posts[<<c, DecisionPost>>] = "running", InsertDecision(c), UNCHANGED order
  PROVE  RecordsInv'
<1>1. TypeOK /\ CallInv(c) /\ DecisionPost \in Kinds
  BY KindsOrdered DEF RecordsInv
<1>2. PostMoved(c, DecisionPost, "stored")
  BY <1>1, PostStepEffect
<1>3. /\ DecisionPost \notin 1 .. Steps /\ \A k \in 1 .. Steps : k \in Kinds
      /\ RoutePost \in Kinds /\ EdgePost \in Kinds
      /\ RoutePost # DecisionPost /\ EdgePost # DecisionPost
  BY KindsOrdered
<1>4. /\ agentRows' = agentRows \cup {DecisionRow(c)}
      /\ UNCHANGED <<routeRows, edges>>
  BY DEF InsertDecision, DecisionRow
<1>5. flow[c].target \in Agents
  BY <1>1 DEF CallInv, FlowInv, Unsent
<1>6. DecisionRow(c) \in [call : Calls, agent : Agents]
  BY <1>5 DEF DecisionRow
<1> DEFINE rows == [i \in 1 .. Steps |-> [step |-> i, order |-> i - 1]]
<1>7. /\ rows \in Seq(Row) /\ DOMAIN rows = 1 .. Steps
      /\ \A i \in 1 .. Steps : rows[i].order = i - 1
  <2>1. Steps \in Nat
    BY ConstantsOK
  <2>2. \A i \in 1 .. Steps : [step |-> i, order |-> i - 1] \in Row
    BY <2>1 DEF Row
  <2>3. QED BY <2>1, <2>2
<1>8. /\ stepRows' \in [Calls -> Seq(Row)] /\ stepRows'[c] = rows
      /\ \A d \in Calls : d # c => stepRows'[d] = stepRows[d]
  BY <1>1, <1>7 DEF InsertDecision, TypeOK
<1> HIDE DEF rows
<1>9. RowsInv(c)'
  <2>1. /\ posts'[<<c, RoutePost>>] = posts[<<c, RoutePost>>]
        /\ posts'[<<c, EdgePost>>] = posts[<<c, EdgePost>>]
        /\ UNCHANGED flow
    BY <1>2, <1>3 DEF PostMoved, PostStep
  <2>2. QED BY <1>1, <1>4, <2>1 DEF CallInv, RowsInv, Unsent, Stored, DecisionRow, RouteRow, Edge
<1>10. OrdersInv(c)'
  <2>1. \A k \in 1 .. Steps : posts'[<<c, k>>] # "running"
    BY <1>1, <1>2, <1>3 DEF CallInv, PostsInv, PostMoved, Unsent, Stored
  <2>2. /\ stepRows'[c] = rows /\ DOMAIN rows = 1 .. Steps /\ Len(rows) = Steps
        /\ Steps \in Nat
    BY <1>7, <1>8, ConstantsOK
  <2>3. HasMax(c)'
    <3>1. OrdersOf(c)' = {i - 1 : i \in 1 .. Steps}
      BY <1>7, <1>8 DEF OrdersOf
    <3>2. Steps \in Nat
      BY ConstantsOK
    <3>3. CASE Steps = 0
      BY <3>1, <3>3 DEF HasMax
    <3>4. CASE Steps # 0
      <4>1. Steps \in 1 .. Steps /\ \A i \in 1 .. Steps : i - 1 <= Steps - 1
        BY <3>2, <3>4
      <4>2. Steps - 1 \in OrdersOf(c)' /\ \A m \in OrdersOf(c)' : m <= Steps - 1
        BY <3>1, <4>1
      <4>3. QED BY <4>2 DEF HasMax
    <3>5. QED BY <3>3, <3>4
  <2>4. Gapless(c)'
    <3>1. ASSUME NEW n \in OrdersOf(c)' PROVE n = 0 \/ n - 1 \in OrdersOf(c)'
      <4>1. PICK i \in 1 .. Steps : n = i - 1
        BY <1>7, <1>8 DEF OrdersOf
      <4>2. CASE i = 1
        BY <4>1, <4>2
      <4>3. CASE i # 1
        <5>1. i - 1 \in 1 .. Steps /\ n - 1 = (i - 1) - 1
          BY <2>2, <4>1, <4>3
        <5>2. \A j \in 1 .. Steps : j - 1 \in OrdersOf(c)'
          BY <1>7, <1>8 DEF OrdersOf
        <5>3. QED BY <5>1, <5>2
      <4>4. QED BY <4>2, <4>3
    <3>2. QED BY <3>1 DEF Gapless
  <2>5. InOrder(c)'
    <3>1. ASSUME NEW i \in 1 .. Steps, NEW j \in 1 .. Steps, i < j
          PROVE  rows[i].order < rows[j].order /\ ~(i > Steps)
      <4>1. rows[i].order = i - 1 /\ rows[j].order = j - 1
        BY <1>7
      <4>2. QED BY <2>2, <3>1, <4>1
    <3>2. QED BY <2>2, <3>1 DEF InOrder
  <2>6. SentAlong(c)' /\ OfPosts(c)'
    <3>1. \A i \in 1 .. Steps : ~(i > Steps)
      BY <2>2
    <3>2. QED BY <2>2, <3>1 DEF SentAlong, OfPosts
  <2>7. QED BY <2>1, <2>3, <2>4, <2>5, <2>6 DEF OrdersInv, RowsOrdered
<1>11. /\ \A d \in Calls : d # c => RowsGrow(d)
       /\ agentRows' \subseteq [call : Calls, agent : Agents]
       /\ routeRows' \subseteq [call : Calls, intent : Intents \cup {NoIntent},
                                target : Names, tier : 1 .. 3]
       /\ edges' \subseteq [from : Calls, to : Calls]
       /\ order' \in [Posts -> Nat]
  BY <1>1, <1>4, <1>6 DEF RowsGrow, TypeOK
<1>12. QED BY <1>1, <1>8, <1>9, <1>10, <1>11, HandlerKeepsRecords

\* A step is appended with the order that was read.
LEMMA StoreStepKeeps ==
  ASSUME RecordsInv, NEW c \in Calls, NEW k \in 1 .. Steps, PostStep(c, k, "stored"),
         posts[<<c, k>>] = "running",
         stepRows' = [stepRows EXCEPT ![c] = Append(@, [step |-> k, order |-> order[<<c, k>>]])],
         UNCHANGED <<order, agentRows, routeRows, edges>>
  PROVE  RecordsInv'
<1>1. TypeOK /\ CallInv(c) /\ k \in Kinds
  BY KindsOrdered DEF RecordsInv
<1>2. PostMoved(c, k, "stored")
  BY <1>1, PostStepEffect
<1>3. /\ k # DecisionPost /\ k # RoutePost /\ k # EdgePost
      /\ DecisionPost \in Kinds /\ RoutePost \in Kinds /\ EdgePost \in Kinds
      /\ \A j \in 1 .. Steps : j \in Kinds
  BY KindsOrdered
<1>4. PICK row \in Row : row = [step |-> k, order |-> order[<<c, k>>]]
  BY <1>1 DEF TypeOK, Posts, Row
<1>5. PICK len \in Nat, rows \in Seq(Row) :
        rows = stepRows[c] /\ len = Len(rows) /\ DOMAIN rows = 1 .. len
  BY <1>1 DEF TypeOK
<1>6. PICK new \in Seq(Row) :
        /\ new = Append(rows, row) /\ DOMAIN new = 1 .. (len + 1)
        /\ new[len + 1] = row
        /\ \A i \in 1 .. len : new[i] = rows[i]
  <2>1. /\ Append(rows, row) \in Seq(Row) /\ Len(Append(rows, row)) = len + 1
        /\ DOMAIN Append(rows, row) = 1 .. (len + 1)
        /\ Append(rows, row)[len + 1] = row
        /\ \A i \in 1 .. len : Append(rows, row)[i] = rows[i]
    BY <1>5
  <2>2. QED BY <2>1
<1>7. /\ stepRows' \in [Calls -> Seq(Row)] /\ stepRows'[c] = new
      /\ \A d \in Calls : d # c => stepRows'[d] = stepRows[d]
  BY <1>1, <1>4, <1>5, <1>6 DEF TypeOK
<1>8. RowsInv(c)'
  <2>1. /\ posts'[<<c, DecisionPost>>] = posts[<<c, DecisionPost>>]
        /\ posts'[<<c, RoutePost>>] = posts[<<c, RoutePost>>]
        /\ posts'[<<c, EdgePost>>] = posts[<<c, EdgePost>>]
        /\ UNCHANGED flow
    BY <1>2, <1>3 DEF PostMoved, PostStep
  <2>2. QED BY <1>1, <2>1 DEF CallInv, RowsInv, Unsent, Stored, DecisionRow, RouteRow, Edge
<1>9. OrdersOf(c) \subseteq Nat /\ row.order \in Nat
  <2>1. \A i \in DOMAIN rows : rows[i] \in Row
    BY <1>5
  <2>2. QED BY SMTT(30), <1>5, <2>1 DEF OrdersOf, Row
<1>10. OrdersOf(c)' = OrdersOf(c) \cup {row.order}
  <2>1. \A x : x \in OrdersOf(c) <=> \E i \in 1 .. len : x = rows[i].order
    BY <1>5 DEF OrdersOf
  <2>2. \A x : x \in OrdersOf(c)' <=> \E i \in DOMAIN stepRows'[c] : x = stepRows'[c][i].order
    BY DEF OrdersOf
  <2>3. DOMAIN stepRows'[c] = 1 .. (len + 1)
    BY <1>6, <1>7
  <2>4. /\ stepRows'[c][len + 1].order = row.order
        /\ \A i \in 1 .. len : stepRows'[c][i].order = rows[i].order
    BY <1>6, <1>7
  <2>5. ASSUME NEW x \in OrdersOf(c)' PROVE x \in OrdersOf(c) \/ x = row.order
    <3>1. PICK i \in 1 .. (len + 1) : x = stepRows'[c][i].order
      BY <2>2, <2>3
    <3>2. i \in 1 .. len \/ i = len + 1
      OBVIOUS
    <3>3. QED BY <2>1, <2>4, <3>1, <3>2
  <2>6. ASSUME NEW x \in OrdersOf(c) PROVE x \in OrdersOf(c)'
    <3>1. PICK i \in 1 .. len : x = stepRows'[c][i].order
      BY ZenonT(60), <2>1, <2>4
    <3>2. i \in 1 .. (len + 1)
      OBVIOUS
    <3>3. QED BY <2>2, <2>3, <3>1, <3>2
  <2>7. row.order \in OrdersOf(c)'
    <3>1. len + 1 \in 1 .. (len + 1)
      OBVIOUS
    <3>2. QED BY <2>2, <2>3, <2>4, <3>1
  <2>8. QED BY <2>5, <2>6, <2>7
<1>11. HasMax(c)'
  <2>1. CASE OrdersOf(c) = {}
    <3>1. row.order \in OrdersOf(c)' /\ \A m \in OrdersOf(c)' : m <= row.order
      BY <1>9, <1>10, <2>1
    <3>2. QED BY <3>1 DEF HasMax
  <2>2. CASE OrdersOf(c) # {}
    <3>1. PICK n \in OrdersOf(c) : \A m \in OrdersOf(c) : m <= n
      BY <1>1, <2>2 DEF CallInv, OrdersInv, RowsOrdered, HasMax
    <3>2. CASE row.order <= n
      <4>1. n \in OrdersOf(c)' /\ \A m \in OrdersOf(c)' : m <= n
        BY <1>10, <3>1, <3>2
      <4>2. QED BY <4>1 DEF HasMax
    <3>3. CASE ~(row.order <= n)
      <4>1. row.order \in OrdersOf(c)' /\ \A m \in OrdersOf(c)' : m <= row.order
        BY <1>9, <1>10, <3>1, <3>3
      <4>2. QED BY <4>1 DEF HasMax
    <3>4. QED BY <3>2, <3>3
  <2>3. QED BY <2>1, <2>2
<1>12. ReadNext(c, k) /\ RowsOrdered(c) /\ row.order = order[<<c, k>>] /\ row.step = k
  BY <1>1, <1>4 DEF CallInv, OrdersInv
<1>13. Gapless(c)'
  <2>1. row.order = 0 \/ row.order - 1 \in OrdersOf(c)
    BY <1>12 DEF ReadNext
  <2>2. \A n \in OrdersOf(c) : n = 0 \/ n - 1 \in OrdersOf(c)
    BY <1>12 DEF RowsOrdered, Gapless
  <2>3. QED BY <1>10, <2>1, <2>2 DEF Gapless
<1>14. /\ DOMAIN stepRows'[c] = 1 .. (len + 1) /\ DOMAIN stepRows[c] = 1 .. len
       /\ stepRows'[c][len + 1] = row
       /\ \A i \in 1 .. len : /\ stepRows'[c][i] = stepRows[c][i]
                              /\ Late(c, i)' <=> Late(c, i)
  <2>1. givenUp' = givenUp
    BY DEF PostStep
  <2>2. /\ DOMAIN stepRows'[c] = 1 .. (len + 1) /\ DOMAIN stepRows[c] = 1 .. len
        /\ stepRows'[c][len + 1] = row
        /\ \A i \in 1 .. len : stepRows'[c][i] = stepRows[c][i]
    BY <1>5, <1>6, <1>7
  <2>3. ASSUME NEW i \in 1 .. len PROVE Late(c, i)' <=> Late(c, i)
    <3>1. stepRows'[c][i] = stepRows[c][i]
      BY <2>2
    <3>2. QED BY <2>1, <3>1, LateSame
  <2>4. QED BY <2>2, <2>3
<1>15. Steps \in Nat /\ len + 1 > Steps
  <2>1. Stored(c, DecisionPost)
    BY <1>1 DEF CallInv, PostsInv, Unsent
  <2>2. QED BY <1>5, <1>12, <2>1, ConstantsOK DEF RowsOrdered, SentAlong
<1>16. ~Late(c, len + 1)' <=> <<c, k>> \notin givenUp
  <2>1. PICK last : last = len + 1
    OBVIOUS
  <2>2. stepRows'[c][last].step = k /\ givenUp' = givenUp /\ last > Steps
    BY <1>12, <1>14, <1>15, <2>1 DEF PostStep
  <2>3. ~Late(c, last)' <=> <<c, k>> \notin givenUp
    BY <2>2, LateOfPost
  <2>4. QED BY <2>1, <2>3
<1>17. \A j \in 1 .. Steps :
         posts[<<c, j>>] = "running" /\ <<c, j>> \notin givenUp => AwaitsPost(c, j)
  BY <1>1, <1>3 DEF CallInv, PostsInv
<1>18. InOrder(c)'
  <2>1. ASSUME NEW i \in 1 .. len, NEW j \in 1 .. len, i < j, ~Late(c, i), ~Late(c, j)
        PROVE  /\ stepRows[c][i].order < stepRows[c][j].order
               /\ i > Steps => stepRows[c][i].step < stepRows[c][j].step
    BY <1>12, <1>14, <2>1 DEF RowsOrdered, InOrder
  <2>2. ASSUME NEW i \in 1 .. len, ~Late(c, i), <<c, k>> \notin givenUp
        PROVE  /\ stepRows[c][i].order < row.order
               /\ i > Steps => stepRows[c][i].step < row.step
    <3>1. stepRows[c][i].order < row.order
      BY <1>12, <1>14, <2>2 DEF ReadNext
    <3>2. ASSUME i > Steps PROVE stepRows[c][i].step < k
      <4>1. PICK m \in 1 .. Steps : m = stepRows[c][i].step
        BY <1>1, <1>14, StepsTyped
      <4>2. Stored(c, m)
        BY <1>12, <1>14, <3>2, <4>1 DEF RowsOrdered, OfPosts
      <4>3. AwaitsPost(c, k)
        BY <1>17, <2>2
      <4>4. ~(m > k)
        <5>1. \A j \in Kinds : j > k => Unsent(c, j)
          BY <1>1, <4>3 DEF CallInv, PostsInv, AwaitsPost
        <5>2. QED BY <1>3, <4>2, <5>1 DEF Unsent, Stored
      <4>5. m # k
        BY <4>2 DEF Stored
      <4>6. QED BY <1>15, <4>1, <4>4, <4>5
    <3>3. QED BY <1>12, <3>1, <3>2
  <2>3. ASSUME NEW i \in 1 .. (len + 1), NEW j \in 1 .. (len + 1), i < j,
               ~Late(c, i)', ~Late(c, j)'
        PROVE  /\ stepRows'[c][i].order < stepRows'[c][j].order
               /\ i > Steps => stepRows'[c][i].step < stepRows'[c][j].step
    <3>1. i \in 1 .. len /\ (j \in 1 .. len \/ j = len + 1)
      BY <2>3
    <3>2. ~Late(c, i) /\ stepRows'[c][i] = stepRows[c][i]
      BY <1>14, <2>3, <3>1
    <3>3. CASE j \in 1 .. len
      BY <1>14, <2>1, <2>3, <3>1, <3>2, <3>3
    <3>4. CASE j = len + 1
      BY <1>14, <1>16, <2>2, <2>3, <3>1, <3>2, <3>4
    <3>5. QED BY <3>1, <3>3, <3>4
  <2>4. QED BY <1>14, <2>3 DEF InOrder
<1>19. SentAlong(c)' /\ OfPosts(c)'
  <2>1. Len(stepRows'[c]) = len + 1
    BY <1>6, <1>7
  <2>2. SentAlong(c)'
    BY <1>15, <2>1 DEF SentAlong
  <2>3. ASSUME NEW i \in 1 .. (len + 1), i > Steps
        PROVE  posts'[<<c, stepRows'[c][i].step>>] = "stored"
    <3>1. CASE i = len + 1
      BY <1>2, <1>12, <1>14, <3>1 DEF PostMoved
    <3>2. CASE i \in 1 .. len
      <4>1. PICK m \in 1 .. Steps : m = stepRows[c][i].step
        BY <1>1, <1>14, <3>2, StepsTyped
      <4>2. posts[<<c, m>>] = "stored"
        BY <1>12, <1>14, <2>3, <3>2, <4>1 DEF RowsOrdered, OfPosts, Stored
      <4>3. posts'[<<c, m>>] = "stored"
        BY <1>2, <1>3, <4>2 DEF PostMoved
      <4>4. QED BY <1>14, <3>2, <4>1, <4>3
    <3>3. i = len + 1 \/ i \in 1 .. len
      OBVIOUS
    <3>4. QED BY <3>1, <3>2, <3>3
  <2>4. OfPosts(c)'
    BY <1>14, <2>3 DEF OfPosts, Stored
  <2>5. QED BY <2>2, <2>4
<1>20. ASSUME NEW j \in 1 .. Steps, posts'[<<c, j>>] = "running" PROVE ReadNext(c, j)'
  <2>1. j # k /\ posts[<<c, j>>] = "running"
    BY <1>2, <1>3, <1>20 DEF PostMoved
  <2>2. ReadNext(c, j)
    BY <1>1, <2>1 DEF CallInv, OrdersInv
  <2>3. order'[<<c, j>>] = 0 \/ order'[<<c, j>>] - 1 \in OrdersOf(c)'
    BY <1>10, <2>2 DEF ReadNext
  <2>4. ASSUME <<c, j>> \notin givenUp', NEW i \in 1 .. (len + 1), ~Late(c, i)'
        PROVE  stepRows'[c][i].order < order'[<<c, j>>]
    <3>1. <<c, j>> \notin givenUp
      BY <2>4 DEF PostStep
    <3>2. i # len + 1
      <4>1. SUFFICES ASSUME <<c, k>> \notin givenUp PROVE FALSE
        BY <1>16, <2>4
      <4>2. QED BY <1>17, <2>1, <3>1, <4>1 DEF AwaitsPost
    <3>3. i \in 1 .. len
      BY <3>2
    <3>4. QED BY <1>14, <2>2, <2>4, <3>1, <3>3 DEF ReadNext
  <2>5. QED BY <1>14, <2>3, <2>4 DEF ReadNext
<1>21. OrdersInv(c)'
  BY <1>11, <1>13, <1>18, <1>19, <1>20 DEF OrdersInv, RowsOrdered
<1>22. /\ \A d \in Calls : d # c => RowsGrow(d)
       /\ agentRows' \subseteq [call : Calls, agent : Agents]
       /\ routeRows' \subseteq [call : Calls, intent : Intents \cup {NoIntent},
                                target : Names, tier : 1 .. 3]
       /\ edges' \subseteq [from : Calls, to : Calls]
       /\ order' \in [Posts -> Nat]
  BY <1>1 DEF RowsGrow, TypeOK
<1>23. QED BY <1>1, <1>7, <1>8, <1>21, <1>22, HandlerKeepsRecords

\* The route, or its edge, is inserted.
LEMMA StoreRouteKeeps ==
  ASSUME RecordsInv, NEW c \in Calls, NEW k \in {RoutePost, EdgePost},
         PostStep(c, k, "stored"),
         posts[<<c, k>>] = "running",
         \/ k = RoutePost /\ InsertRoute(c)
         \/ k = EdgePost /\ InsertEdge(c),
         UNCHANGED order
  PROVE  RecordsInv'
<1>1. TypeOK /\ CallInv(c) /\ k \in Kinds
  BY KindsOrdered DEF RecordsInv
<1>2. PostMoved(c, k, "stored")
  BY <1>1, PostStepEffect
<1>3. /\ DecisionPost \in Kinds /\ RoutePost \in Kinds /\ EdgePost \in Kinds
      /\ RoutePost # DecisionPost /\ EdgePost # DecisionPost /\ RoutePost # EdgePost
      /\ \A j \in 1 .. Steps : j \in Kinds /\ j # k
  BY KindsOrdered
<1>4. flow[c].target \in Names /\ flow[c] \in Flow
  BY <1>1 DEF CallInv, FlowInv, Unsent, TypeOK
<1>5. k = EdgePost => flow[c].agentId = c /\ flow[c].routeId = c
  BY <1>1 DEF CallInv, FlowInv, Unsent
<1>6. /\ UNCHANGED <<agentRows, stepRows, flow, givenUp>>
      /\ k = RoutePost => routeRows' = routeRows \cup {RouteRow(c)} /\ edges' = edges
      /\ k = EdgePost => routeRows' = routeRows /\ edges' = edges \cup {Edge(c)}
  BY <1>3, <1>5 DEF InsertRoute, InsertEdge, RouteRow, Edge, PostStep
<1>7. /\ RouteRow(c) \in [call : Calls, intent : Intents \cup {NoIntent},
                          target : Names, tier : 1 .. 3]
      /\ Edge(c) \in [from : Calls, to : Calls]
  BY <1>4 DEF RouteRow, Edge, Flow
<1>8. RowsInv(c)'
  <2>1. \A j \in Kinds : /\ j # k => posts'[<<c, j>>] = posts[<<c, j>>]
                         /\ j = k => posts[<<c, j>>] = "running" /\ posts'[<<c, j>>] = "stored"
    BY <1>2 DEF PostMoved
  <2>2. Edge(c).to = c
    BY DEF Edge
  <2>3. CASE k = RoutePost
    BY <1>1, <1>3, <1>6, <2>1, <2>3
    DEF CallInv, RowsInv, Unsent, Stored, DecisionRow, RouteRow, Edge
  <2>4. CASE k = EdgePost
    BY <1>1, <1>3, <1>6, <2>1, <2>2, <2>4
    DEF CallInv, RowsInv, Unsent, Stored, DecisionRow, RouteRow, Edge
  <2>5. QED BY <2>3, <2>4
<1>9. OrdersInv(c)'
  <2>1. \A j \in 1 .. Steps : posts'[<<c, j>>] = posts[<<c, j>>]
    BY <1>2, <1>3 DEF PostMoved
  <2>2. posts'[<<c, DecisionPost>>] = posts[<<c, DecisionPost>>]
    BY <1>2, <1>3 DEF PostMoved
  <2>3. RowsStay(c)
    BY <1>6, <2>1, <2>2 DEF RowsStay, Stored
  <2>4. QED BY <1>1, <2>1, <2>3, OrdersStay DEF CallInv
<1>10. \A d \in Calls : d # c => RowsGrow(d)
  <2>1. Edge(c).from = c
    BY DEF Edge
  <2>2. QED BY <1>3, <1>6, <2>1 DEF RowsGrow
<1>11. /\ agentRows' \subseteq [call : Calls, agent : Agents]
       /\ routeRows' \subseteq [call : Calls, intent : Intents \cup {NoIntent},
                                target : Names, tier : 1 .. 3]
       /\ edges' \subseteq [from : Calls, to : Calls]
       /\ order' \in [Posts -> Nat] /\ stepRows' \in [Calls -> Seq(Row)]
  BY <1>1, <1>6, <1>7 DEF TypeOK
<1>12. QED BY <1>1, <1>6, <1>8, <1>9, <1>10, <1>11, HandlerKeepsRecords

\* A handler that commits.
LEMMA StoreKeeps ==
  ASSUME RecordsInv, NEW c \in Calls, NEW k \in Kinds, Store(<<c, k>>)
  PROVE  RecordsInv'
<1>1. PostStep(c, k, "stored") /\ posts[<<c, k>>] = "running" /\ UNCHANGED order
  BY DEF Store, PostStep
<1>2. CASE k = DecisionPost /\ InsertDecision(c)
  BY <1>1, <1>2, StoreDecisionKeeps
<1>3. CASE k \in 1 .. Steps /\ InsertStep(<<c, k>>)
  BY <1>1, <1>3, StoreStepKeeps DEF InsertStep
<1>4. CASE \/ k = RoutePost /\ InsertRoute(c)
           \/ k = EdgePost /\ InsertEdge(c)
  BY <1>1, <1>4, StoreRouteKeeps
<1>5. QED BY <1>2, <1>3, <1>4 DEF Store, IsStep

LEMMA ServeKeeps ==
  ASSUME RecordsInv, NEW p \in Posts, Serve(p)
  PROVE  RecordsInv'
<1>1. PICK c \in Calls, k \in Kinds : p = <<c, k>>
  BY DEF Posts
<1>2. QED BY <1>1, TakeKeeps, StoreKeeps, FailKeeps DEF Serve

LEMMA RecordsInit == Init => RecordsInv
<1> SUFFICES ASSUME Init PROVE RecordsInv
  OBVIOUS
<1>1. TypeOK
  <2>1. InitialState \in Flow
    BY DEF InitialState, Flow, Answers
  <2>2. <<>> \in Seq(Entry) /\ <<>> \in Seq(Row) /\ DecisionPost \in Kinds
    BY KindsOrdered
  <2>3. QED BY <2>1, <2>2 DEF Init, TypeOK, Stages, PostStates
<1>2. ASSUME NEW c \in Calls PROVE CallInv(c)
  <2>1. /\ \A k \in Kinds : posts[<<c, k>>] = "unsent"
        /\ stage[c] = "new" /\ flow[c] = InitialState /\ stepRows[c] = <<>>
        /\ flow[c].agentId = NoId /\ flow[c].routeId = NoId
        /\ edges = {} /\ c # NoId
    BY ConstantsOK DEF Init, Posts, InitialState
  <2>2. PostsInv(c)
    BY <2>1, KindsOrdered DEF PostsInv, Unsent, Stored, Early, InitialState, AwaitsPost
  <2>3. FlowInv(c)
    <3>1. DecisionPost \in Kinds /\ RoutePost \in Kinds /\ EdgePost \in Kinds
      BY KindsOrdered
    <3>2. QED BY <2>1, <3>1 DEF FlowInv, Unsent, Stored
  <2>4. RowsInv(c)
    BY <2>1, KindsOrdered DEF RowsInv, Stored
  <2>5. OrdersInv(c)
    BY <2>1, KindsOrdered
    DEF OrdersInv, RowsOrdered, HasMax, Gapless, InOrder, SentAlong, OfPosts, OrdersOf, Stored
  <2>6. QED BY <2>2, <2>3, <2>4, <2>5 DEF CallInv
<1>3. QED BY <1>1, <1>2 DEF RecordsInv

\* Every step keeps the records in agreement.
LEMMA RecordsStep == RecordsInv /\ [Next]_vars => RecordsInv'
<1> SUFFICES ASSUME RecordsInv, [Next]_vars PROVE RecordsInv'
  OBVIOUS
<1>1. CASE UNCHANGED vars
  <2>1. TypeOK'
    BY <1>1 DEF RecordsInv, TypeOK, vars
  <2>2. \A c \in Calls : Same(c) /\ RowsGrow(c)
    BY <1>1 DEF Same, RowsGrow, vars
  <2>3. QED BY <2>1, <2>2, Frame DEF RecordsInv
<1>2. ASSUME NEW c \in Calls, Accept(c) \/ Advance(c) \/ GiveUp(c)
      PROVE  RecordsInv'
  BY <1>2, EarlyKeepsRecords, AgentRecordsKeeps, RecordRouteKeeps, RememberKeeps, ReturnsKeep
  DEF Advance, EarlyAction
<1>3. QED BY <1>1, <1>2, ServeKeeps DEF Next, Progress, Settled

\* The posts of every call, its classification, the ids it holds, its records
\* and the orders of its steps agree in every state that can be reached.
THEOREM RecordsInvariant == Spec => []RecordsInv
<1>1. RecordsInv /\ [Next]_vars => RecordsInv'
  BY RecordsStep
<1>2. QED BY <1>1, RecordsInit, PTL DEF Spec

\* Every variable keeps its type, for any posts given up and any failures.
THEOREM TypeCorrect == Spec => []TypeOK
<1>1. RecordsInv => TypeOK
  BY DEF RecordsInv
<1>2. QED BY <1>1, RecordsInvariant, PTL

\* Edges lead from a route to the decision of the same call, both on record
\* and in agreement, and an undisturbed answer has its edge.
THEOREM EdgesFit == Spec => []EdgesFitAnswers
<1>1. RecordsInv => EdgesFitAnswers
  <2> SUFFICES ASSUME RecordsInv PROVE EdgesFitAnswers
    OBVIOUS
  <2>1. ASSUME NEW e \in edges
        PROVE  \E r \in routeRows, a \in agentRows :
                 /\ r.call = e.from /\ a.call = e.to /\ e.from = e.to
                 /\ r.target = a.agent /\ r.tier # 3
    <3>1. PICK c \in Calls : c = e.from
      BY <2>1 DEF RecordsInv, TypeOK
    <3>2. CallInv(c) /\ DecisionPost \in Kinds /\ RoutePost \in Kinds /\ EdgePost \in Kinds
      BY KindsOrdered DEF RecordsInv
    <3>3. e.to = c /\ ~Unsent(c, EdgePost) /\ c # NoId
      BY <2>1, <3>1, <3>2, ConstantsOK DEF CallInv, RowsInv
    <3>4. flow[c].agentId = c /\ flow[c].routeId = c
      BY <3>2, <3>3 DEF CallInv, FlowInv
    <3>5. Stored(c, DecisionPost) /\ Stored(c, RoutePost) /\ flow[c].tier # 3
      BY <3>2, <3>3, <3>4 DEF CallInv, FlowInv, Unsent, Stored
    <3>6. RouteRow(c) \in routeRows /\ DecisionRow(c) \in agentRows
      BY <3>2, <3>5 DEF CallInv, RowsInv
    <3>7. /\ RouteRow(c).call = c /\ RouteRow(c).target = flow[c].target
          /\ RouteRow(c).tier = flow[c].tier
          /\ DecisionRow(c).call = c /\ DecisionRow(c).agent = flow[c].target
      BY DEF RouteRow, DecisionRow
    <3>8. QED BY <3>1, <3>3, <3>5, <3>6, <3>7
  <2>2. ASSUME NEW c \in Calls, stage[c] = "done", flow[c].answer = "answered",
               \A k \in Kinds : posts[<<c, k>>] # "failed" /\ <<c, k>> \notin givenUp
        PROVE  [from |-> c, to |-> c] \in edges
    <3>1. CallInv(c) /\ DecisionPost \in Kinds /\ RoutePost \in Kinds /\ EdgePost \in Kinds
      BY KindsOrdered DEF RecordsInv
    <3>2. ASSUME NEW k \in Kinds, ~Unsent(c, k) PROVE Stored(c, k) /\ ~AwaitsPost(c, k)
      <4>1. ~AwaitsPost(c, k) /\ posts[<<c, k>>] \in PostStates
        BY <2>2 DEF AwaitsPost, RecordsInv, TypeOK, Posts
      <4>2. QED BY <2>2, <3>1, <3>2, <4>1 DEF CallInv, PostsInv, Unsent, Stored, PostStates
    <3>3. ~Unsent(c, DecisionPost) /\ ~Unsent(c, RoutePost)
      BY <2>2, <3>1 DEF CallInv, PostsInv
    <3>4. flow[c].agentId = c /\ flow[c].routeId = c
      BY <2>2, <3>1, <3>2, <3>3 DEF CallInv, FlowInv
    <3>5. Stored(c, EdgePost)
      BY <3>1, <3>2, <3>4 DEF CallInv, FlowInv
    <3>6. QED BY <3>1, <3>5 DEF CallInv, RowsInv, Edge
  <2>3. QED BY <2>1, <2>2 DEF EdgesFitAnswers
<1>2. QED BY <1>1, RecordsInvariant, PTL

\* The step orders of a decision leave none out, and the rows that did not come
\* late are ordered as the steps were taken, no two alike: for any number of
\* steps, although the handlers of any posts that were given up read the
\* greatest order and insert beside the next one's.
THEOREM OrdersAreDense == Spec => []OrdersDense
<1>1. RecordsInv => OrdersDense
  BY DEF RecordsInv, CallInv, OrdersInv, RowsOrdered, Gapless, InOrder, OrdersDense
<1>2. QED BY <1>1, RecordsInvariant, PTL

\* The ids of a reply's trace are its own records', and every answer ends up
\* on record unless the database refused it.
THEOREM AnswersRecorded == Spec => []AnswersOnRecord
<1>1. RecordsInv => AnswersOnRecord
  <2> SUFFICES ASSUME RecordsInv PROVE AnswersOnRecord
    OBVIOUS
  <2>1. DecisionPost \in Kinds /\ RoutePost \in Kinds
    BY KindsOrdered
  <2>2. ASSUME NEW c \in Calls
        PROVE  /\ flow[c].agentId # NoId =>
                    flow[c].agentId = c /\ \E a \in agentRows : a.call = c
               /\ flow[c].routeId # NoId =>
                    flow[c].routeId = c /\ \E r \in routeRows : r.call = c
    <3>1. CallInv(c) /\ DecisionRow(c).call = c /\ RouteRow(c).call = c
      BY DEF RecordsInv, DecisionRow, RouteRow
    <3>2. QED BY <3>1 DEF CallInv, FlowInv, RowsInv
  <2>3. ASSUME \A p \in Posts : ~Runnable(p) /\ p \notin Handled,
               NEW c \in Calls, flow[c].answer = "answered"
        PROVE  \/ \E a \in agentRows : a.call = c
               \/ posts[<<c, DecisionPost>>] = "failed"
    <3>1. CallInv(c) /\ DecisionRow(c).call = c
      BY DEF RecordsInv, DecisionRow
    <3>2. <<c, DecisionPost>> \in Posts /\ posts[<<c, DecisionPost>>] \in PostStates
      BY <2>1 DEF RecordsInv, TypeOK, Posts
    <3>3. posts[<<c, DecisionPost>>] \in {"stored", "failed"}
      BY <2>3, <3>1, <3>2 DEF CallInv, PostsInv, Unsent, Runnable, Handled, PostStates
    <3>4. QED BY <3>1, <3>3 DEF CallInv, RowsInv, Stored
  <2>4. QED BY <2>2, <2>3 DEF AnswersOnRecord
<1>2. QED BY <1>1, RecordsInvariant, PTL

-------------------------------------------------------------------------------
(* The memory that the agents of a session share.                            *)

Answered(c) == flow[c].answer = "answered"

\* A call moves and no other does; a call at its end does not.
Moves(c) ==
  /\ stage[c] # "done"
  /\ \A d \in Calls : d # c => stage'[d] = stage[d] /\ flow'[d] = flow[d]

\* A step that neither asks nor answers anything of a session.
PlainStep(c) ==
  /\ Moves(c)
  /\ UNCHANGED <<memory, known, before>>
  /\ Answered(c)' <=> Answered(c)
  /\ Answered(c) => flow'[c].target = flow[c].target
  /\ stage'[c] \notin {"creating", "agent"}
  /\ stage'[c] \in Begun => stage[c] \in Begun
  /\ stage[c] \notin {"new", "queued"} => stage'[c] \notin {"new", "queued"}
  /\ stage'[c] \in Early => ~Answered(c)'

PlainAction(c) ==
  \/ Accept(c) \/ Refuse(c) \/ Classify(c) \/ Reflect(c) \/ Escalate(c)
  \/ AgentRecords(c) \/ AgentRaises(c) \/ RecordRoute(c) \/ Receive(c) \/ GiveUp(c)

\* Before it sends anything a call has not answered.
LEMMA EarlyUnanswered ==
  ASSUME RecordsInv, NEW c \in Calls, stage[c] \in Early
  PROVE  ~Answered(c)
  BY KindsOrdered DEF RecordsInv, CallInv, PostsInv, Unsent, Answered

LEMMA NodePlain ==
  ASSUME RecordsInv, NEW c \in Calls,
         Accept(c) \/ Refuse(c) \/ Classify(c) \/ Reflect(c) \/ Escalate(c) \/ AgentRaises(c)
  PROVE  PlainStep(c)
<1>1. TypeOK /\ EarlyStep(c)
  BY EarlyKeepsRecords DEF EarlyAction, RecordsInv
<1>2. PICK st, f : Node(c, st, f)
  BY DEF Accept, Refuse, Classify, Reflect, Escalate, AgentRaises
<1>3. /\ \A d \in Calls : d # c => stage'[d] = stage[d] /\ flow'[d] = flow[d]
      /\ UNCHANGED <<memory, known, before>>
  BY <1>1, <1>2, NodeEffect
<1>4. /\ stage'[c] \in {"queued", "done", "dispatch", "reflect", "escalate", "route"}
      /\ stage'[c] = "queued" => stage[c] = "new"
      /\ stage[c] \in {"new", "checking"} \cup Begun /\ stage[c] # "done"
      /\ stage[c] \in {"new", "checking"} => stage'[c] \in {"queued", "done"}
  BY <1>1 DEF Accept, Refuse, Classify, Reflect, Escalate, AgentRaises, Node, Goto, TypeOK,
     TierStage, Begun
<1>5. ~Answered(c) /\ ~Answered(c)'
  BY <1>1, EarlyUnanswered DEF EarlyStep, Answered
<1>6. QED BY <1>3, <1>4, <1>5 DEF PlainStep, Moves, Begun

LEMMA SenderPlain ==
  ASSUME RecordsInv, NEW c \in Calls,
         AgentRecords(c) \/ RecordRoute(c) \/ Receive(c) \/ GiveUp(c)
  PROVE  PlainStep(c)
<1>1. TypeOK /\ flow[c] \in Flow
  BY DEF RecordsInv, TypeOK
<1>2. \A d \in Calls : d # c => stage'[d] = stage[d] /\ flow'[d] = flow[d]
  BY AgentRecordsKeeps, RecordRouteKeeps, ReturnsKeep DEF Same
<1>3. stage[c] \in {"agent", "route", "awaiting"} /\ UNCHANGED <<memory, known, before>>
  BY DEF AgentRecords, RecordRoute, Receive, GiveUp, Timeout, Returned
<1>4. stage'[c] \in {"awaiting", "remember", "done"}
  BY <1>1 DEF AgentRecords, RecordRoute, Receive, GiveUp, Returned, DecisionReturned, StepReturned,
     RouteReturned, EdgeReturned, Send, GoOn, Goto, TypeOK
<1>5. flow'[c].answer = flow[c].answer /\ flow'[c].target = flow[c].target
  <2>1. CASE UNCHANGED flow
    BY <2>1
  <2>2. CASE flow' = [flow EXCEPT ![c].agentId = c] \/ flow' = [flow EXCEPT ![c].routeId = c]
    BY <1>1, <2>2 DEF TypeOK, Flow
  <2>3. QED BY <2>1, <2>2 DEF AgentRecords, RecordRoute, Receive, GiveUp, Returned,
               DecisionReturned, StepReturned, RouteReturned, EdgeReturned
<1>6. QED BY <1>2, <1>3, <1>4, <1>5 DEF PlainStep, Moves, Begun, Early, Answered

\* Once two calls of a session were under way together, they always were.
LEMMA OneAtATimeBefore ==
  ASSUME NEW s \in Sessions, OneAtATime(s)',
         \A x \in Calls : stage[x] \notin {"new", "queued"} =>
           stage'[x] \notin {"new", "queued"} /\ before'[x] = before[x]
  PROVE  OneAtATime(s)
  BY DEF OneAtATime

\* A step after which nothing more has been answered or forgotten.
LEMMA MemoryKept ==
  ASSUME RecordsInv, MemoryInv, UNCHANGED memory,
         \A x \in Calls : stage[x] \notin {"new", "queued"} =>
           stage'[x] \notin {"new", "queued"} /\ before'[x] = before[x],
         \A x \in Calls : Answered(x)' => Answered(x) /\ flow'[x].target = flow[x].target
  PROVE  MemoryInv'
<1> SUFFICES ASSUME NEW d \in Calls, Answered(d)', OneAtATime(SessionOf[d])'
             PROVE  \E i \in DOMAIN memory[SessionOf[d]] :
                      memory[SessionOf[d]][i] = DecisionRow(d)'
  BY DEF MemoryInv, Answered
<1>1. Answered(d) /\ flow'[d].target = flow[d].target
  OBVIOUS
<1>2. SessionOf[d] \in Sessions
  BY ConstantsOK
<1>3. OneAtATime(SessionOf[d])
  BY <1>2, OneAtATimeBefore
<1>4. DecisionRow(d)' = DecisionRow(d)
  BY <1>1 DEF DecisionRow
<1>5. QED BY <1>1, <1>3, <1>4 DEF MemoryInv, Answered

\* What call c is to be shown of call d.
Shown(c, d) ==
  /\ SessionOf[c] = SessionOf[d] /\ OneAtATime(SessionOf[c])
  /\ d \in before[c] /\ Answered(d) /\ flow[c].target # flow[d].target
  /\ stage[c] = "agent"
  => d \in flow[c].context

LEMMA ContextIsShown == EarlierRepliesInContext <=> \A c, d \in Calls : Shown(c, d)
  BY DEF EarlierRepliesInContext, Shown, Answered

\* Calls that have begun stay begun, with the same calls before them.
HistoryKept ==
  \A x \in Calls : stage[x] \notin {"new", "queued"} =>
    stage'[x] \notin {"new", "queued"} /\ before'[x] = before[x]

\* A call that does not move is shown no less than before.
LEMMA OthersShown ==
  ASSUME SessionsInv, NEW c \in Calls, Moves(c), HistoryKept,
         \A x \in Calls : x # c => before'[x] = before[x],
         NEW x \in Calls, NEW d \in Calls, x # c
  PROVE  Shown(x, d)'
<1> SUFFICES ASSUME SessionOf[x] = SessionOf[d], OneAtATime(SessionOf[x])',
                    d \in before'[x], Answered(d)',
                    flow'[x].target # flow'[d].target, stage'[x] = "agent"
             PROVE  d \in flow'[x].context
  BY DEF Shown
<1>1. stage[x] = "agent" /\ flow'[x] = flow[x] /\ before'[x] = before[x]
  BY DEF Moves
<1>2. stage[d] = "done" /\ flow'[d] = flow[d] /\ Answered(d)
  BY <1>1 DEF SessionsInv, SessionInv, Moves, Answered
<1>3. OneAtATime(SessionOf[x])
  BY ConstantsOK, OneAtATimeBefore DEF HistoryKept
<1>4. Shown(x, d)
  BY ContextIsShown DEF SessionsInv
<1>5. QED BY <1>1, <1>2, <1>3, <1>4 DEF Shown

\* A step in which no call comes to its agent.
LEMMA ContextKept ==
  ASSUME SessionsInv, NEW c \in Calls, Moves(c), HistoryKept, stage'[c] # "agent",
         \A x \in Calls : x # c => before'[x] = before[x]
  PROVE  EarlierRepliesInContext'
<1>1. ASSUME NEW x \in Calls, NEW d \in Calls PROVE Shown(x, d)'
  <2>1. CASE x = c
    BY <2>1 DEF Shown
  <2>2. CASE x # c
    BY <2>2, OthersShown
  <2>3. QED BY <2>1, <2>2
<1>2. QED BY <1>1 DEF EarlierRepliesInContext, Shown, Answered

\* The sessions of all calls, from that of the call that moves.
LEMMA SessionsKept ==
  ASSUME RecordsInv, SessionsInv, NEW c \in Calls, Moves(c), known \subseteq known',
         \A x \in Calls : x # c => before'[x] = before[x],
         SessionInv(c)'
  PROVE  \A x \in Calls : SessionInv(x)'
<1> SUFFICES ASSUME NEW x \in Calls, x # c PROVE SessionInv(x)'
  OBVIOUS
<1>1. SessionInv(x) /\ stage'[x] = stage[x] /\ flow'[x] = flow[x] /\ before'[x] = before[x]
  BY DEF SessionsInv, Moves
<1>2. \A d \in before[x] : stage[d] = "done"
  BY <1>1 DEF SessionInv
<1>3. \A d \in before[x] : stage'[d] = stage[d] /\ flow'[d] = flow[d]
  BY <1>2 DEF Moves, RecordsInv, TypeOK
<1>4. QED BY <1>1, <1>2, <1>3 DEF SessionInv

\* A step that neither asks nor answers anything.
LEMMA PlainKeepsSessions ==
  ASSUME RecordsInv, SessionsInv, NEW c \in Calls, PlainStep(c)
  PROVE  SessionsInv'
<1>1. /\ Moves(c) /\ UNCHANGED <<memory, known, before>>
      /\ HistoryKept
  BY DEF PlainStep, Moves, HistoryKept
<1>2. SessionInv(c)'
  <2>1. SessionInv(c)
    BY DEF SessionsInv
  <2>2. \A d \in before'[c] : stage'[d] = "done"
    BY <1>1, <2>1 DEF SessionInv, Moves, RecordsInv, TypeOK
  <2>3. QED BY <2>1, <2>2 DEF SessionInv, PlainStep, Answered
<1>3. \A x \in Calls : SessionInv(x)'
  BY <1>1, <1>2, SessionsKept
<1>4. MemoryInv'
  <2>1. \A x \in Calls : Answered(x)' => Answered(x) /\ flow'[x].target = flow[x].target
    BY DEF PlainStep, Moves, Answered
  <2>2. QED BY <1>1, <2>1, MemoryKept DEF SessionsInv, HistoryKept
<1>5. EarlierRepliesInContext'
  BY <1>1, ContextKept DEF PlainStep
<1>6. QED BY <1>3, <1>4, <1>5 DEF SessionsInv

\* Nothing of the calls moves.
LEMMA StillKeepsSessions ==
  ASSUME RecordsInv, SessionsInv, UNCHANGED <<stage, flow, memory, known, before>>
  PROVE  SessionsInv'
<1>1. \A x \in Calls : SessionInv(x)'
  BY DEF SessionsInv, SessionInv
<1>2. \A s \in Sessions : OneAtATime(s)' <=> OneAtATime(s)
  BY DEF OneAtATime
<1>3. MemoryInv'
  BY <1>2, ConstantsOK DEF SessionsInv, MemoryInv, DecisionRow
<1>4. EarlierRepliesInContext'
  BY <1>2, ConstantsOK DEF SessionsInv, EarlierRepliesInContext
<1>5. QED BY <1>1, <1>3, <1>4 DEF SessionsInv

\* A call begins: those answered are before it.
LEMMA BeginKeepsSessions ==
  ASSUME RecordsInv, SessionsInv, NEW c \in Calls, Begin(c)
  PROVE  SessionsInv'
<1>1. /\ Moves(c) /\ HistoryKept
      /\ stage[c] = "queued" /\ stage'[c] = "checking" /\ UNCHANGED <<flow, memory, known>>
      /\ \A x \in Calls : x # c => before'[x] = before[x]
      /\ before'[c] = {d \in Calls : stage[d] = "done"}
  BY DEF Begin, Goto, Moves, HistoryKept, RecordsInv, TypeOK
<1>2. ~Answered(c)
  BY <1>1, EarlyUnanswered DEF Early
<1>3. SessionInv(c)'
  <2>1. \A d \in before'[c] : stage'[d] = "done"
    BY <1>1 DEF Moves
  <2>2. QED BY <1>1, <1>2, <2>1 DEF SessionInv, Answered, Begun
<1>4. \A x \in Calls : SessionInv(x)'
  BY <1>1, <1>3, SessionsKept
<1>5. MemoryInv'
  BY <1>1, MemoryKept DEF SessionsInv, HistoryKept, Answered
<1>6. EarlierRepliesInContext'
  BY <1>1, ContextKept
<1>7. QED BY <1>4, <1>5, <1>6 DEF SessionsInv

\* A call looks for its session: an answered call would have left it known.
LEMMA FindKeepsSessions ==
  ASSUME RecordsInv, SessionsInv, NEW c \in Calls, FindSession(c)
  PROVE  SessionsInv'
<1>1. /\ TypeOK /\ stage[c] = "checking" /\ ~Answered(c)
  BY EarlyUnanswered DEF FindSession, RecordsInv, Early
<1>2. /\ \A d \in Calls : d # c => stage'[d] = stage[d] /\ flow'[d] = flow[d]
      /\ flow'[c] = flow[c] /\ stage'[c] \in {"classify", "creating"}
      /\ stage'[c] = "classify" <=> SessionOf[c] \in known
      /\ UNCHANGED <<memory, known, before>>
  BY <1>1, NodeEffect DEF FindSession, SessionKnown
<1>3. /\ Moves(c) /\ HistoryKept
      /\ \A x \in Calls : Answered(x)' <=> Answered(x)
  BY <1>1, <1>2 DEF Moves, HistoryKept, Answered
<1>4. SessionInv(c)'
  <2>1. \A d \in before[c] : d \in Calls /\ d # c /\ stage[d] = "done"
    BY <1>1 DEF SessionsInv, SessionInv, TypeOK
  <2>2. \A d \in before'[c] : stage'[d] = "done"
    BY <1>2, <2>1
  <2>3. ASSUME stage'[c] = "creating", NEW d \in before[c], SessionOf[d] = SessionOf[c]
        PROVE  flow'[d].answer # "answered"
    <3>1. SessionOf[d] \notin known
      BY <1>2, <2>3
    <3>2. QED BY <1>2, <2>1, <3>1 DEF SessionsInv, SessionInv
  <2>4. QED BY <1>1, <1>2, <2>2, <2>3 DEF SessionInv, Answered, Begun
<1>5. \A x \in Calls : SessionInv(x)'
  BY <1>2, <1>3, <1>4, SessionsKept
<1>6. MemoryInv'
  BY <1>2, <1>3, MemoryKept DEF SessionsInv, HistoryKept
<1>7. EarlierRepliesInContext'
  BY <1>2, <1>3, ContextKept
<1>8. QED BY <1>5, <1>6, <1>7 DEF SessionsInv

\* A call creates its session: what was remembered of it is lost, unless all
\* its calls came one after the other, and then there was nothing.
LEMMA CreateKeepsSessions ==
  ASSUME RecordsInv, SessionsInv, NEW c \in Calls, CreateSession(c)
  PROVE  SessionsInv'
<1>1. TypeOK /\ stage[c] = "creating" /\ ~Answered(c) /\ SessionInv(c)
  BY EarlyUnanswered DEF CreateSession, RecordsInv, Early, SessionsInv
<1>2. /\ \A d \in Calls : d # c => stage'[d] = stage[d]
      /\ stage'[c] = "classify" /\ UNCHANGED <<flow, before>>
      /\ known' = known \cup {SessionOf[c]}
      /\ \A s \in Sessions : s # SessionOf[c] => memory'[s] = memory[s]
  BY <1>1 DEF TypeOK, CreateSession, Goto
<1>3. Moves(c) /\ HistoryKept
  BY <1>1, <1>2 DEF Moves, HistoryKept
<1>4. SessionInv(c)'
  <2>1. \A d \in before[c] : stage'[d] = "done"
    BY <1>1, <1>2 DEF SessionInv, TypeOK
  <2>2. QED BY <1>1, <1>2, <2>1 DEF SessionInv, Answered
<1>5. \A x \in Calls : SessionInv(x)'
  BY <1>2, <1>3, <1>4, SessionsKept
<1>6. MemoryInv'
  <2> SUFFICES ASSUME NEW d \in Calls, Answered(d)', OneAtATime(SessionOf[d])'
               PROVE  \E i \in DOMAIN memory'[SessionOf[d]] :
                        memory'[SessionOf[d]][i] = DecisionRow(d)'
    BY DEF MemoryInv, Answered
  <2>1. Answered(d) /\ d # c /\ DecisionRow(d)' = DecisionRow(d) /\ SessionInv(d)
    BY <1>1, <1>2 DEF Answered, DecisionRow, SessionsInv
  <2>2. OneAtATime(SessionOf[d])
    BY <1>3, ConstantsOK, OneAtATimeBefore DEF HistoryKept
  <2>3. SessionOf[d] # SessionOf[c]
    <3> SUFFICES ASSUME SessionOf[d] = SessionOf[c] PROVE FALSE
      OBVIOUS
    <3>1. stage'[d] \notin {"new", "queued"} /\ stage'[c] \notin {"new", "queued"}
      BY <1>2, <2>1 DEF SessionInv, Answered, Early
    <3>2. c \in before'[d] \/ d \in before'[c]
      BY <2>1, <3>1 DEF OneAtATime
    <3>3. CASE c \in before[d]
      BY <1>1, <2>1, <3>3 DEF SessionInv
    <3>4. CASE d \in before[c]
      BY <1>1, <2>1, <3>4 DEF SessionInv, Answered
    <3>5. QED BY <1>2, <3>2, <3>3, <3>4
  <2>4. memory'[SessionOf[d]] = memory[SessionOf[d]]
    BY <1>2, <2>3, ConstantsOK
  <2>5. QED BY <2>1, <2>2, <2>4 DEF SessionsInv, MemoryInv, Answered
<1>7. EarlierRepliesInContext'
  BY <1>2, <1>3, ContextKept
<1>8. QED BY <1>5, <1>6, <1>7 DEF SessionsInv

\* A call comes to its agent: what the others answered before is in memory.
LEMMA DispatchKeepsSessions ==
  ASSUME RecordsInv, SessionsInv, NEW c \in Calls, Dispatch(c)
  PROVE  SessionsInv'
<1>1. /\ TypeOK /\ stage[c] = "dispatch" /\ ~Answered(c) /\ SessionInv(c)
      /\ flow[c] \in Flow /\ EarlyStep(c)
  BY EarlyUnanswered, EarlyKeepsRecords
  DEF Dispatch, RecordsInv, Early, SessionsInv, EarlyAction, TypeOK
<1>2. /\ \A d \in Calls : d # c => stage'[d] = stage[d] /\ flow'[d] = flow[d]
      /\ stage'[c] \in {"agent", "route"} /\ ~Answered(c)'
      /\ UNCHANGED <<memory, known, before>>
  <2>1. \E st \in {"agent", "route"} : \E f : Node(c, st, f)
    BY DEF Dispatch
  <2>2. QED BY <1>1, <2>1, NodeEffect DEF EarlyStep, Answered
<1>3. /\ Moves(c) /\ HistoryKept
      /\ \A x \in Calls : Answered(x)' => Answered(x) /\ flow'[x].target = flow[x].target
  BY <1>1, <1>2 DEF Moves, HistoryKept, Answered
<1>4. SessionInv(c)'
  <2>1. \A d \in before[c] : stage'[d] = "done"
    BY <1>1, <1>2 DEF SessionInv, TypeOK
  <2>2. QED BY <1>1, <1>2, <2>1 DEF SessionInv, Answered, Begun
<1>5. \A x \in Calls : SessionInv(x)'
  BY <1>2, <1>3, <1>4, SessionsKept
<1>6. MemoryInv'
  BY <1>2, <1>3, MemoryKept DEF SessionsInv, HistoryKept
<1>7. EarlierRepliesInContext'
  <2>1. CASE stage'[c] = "route"
    BY <1>2, <1>3, <2>1, ContextKept
  <2>2. CASE stage'[c] = "agent"
    <3>1. /\ flow'[c].target = flow[c].target
          /\ flow'[c].context = ContextFor(c, flow[c].target)
      <4>1. PICK ctx \in SUBSET Calls :
              /\ ctx = ContextFor(c, flow[c].target)
              /\ Node(c, "agent", [flow[c] EXCEPT !.context = ctx])
        BY <1>1, <2>2, ContextType DEF Dispatch, Node, Goto, TypeOK
      <4>2. flow'[c] = [flow[c] EXCEPT !.context = ctx]
        BY <1>1, <4>1, NodeEffect
      <4>3. QED BY <1>1, <4>1, <4>2 DEF Flow
    <3>2. ASSUME NEW d \in Calls PROVE Shown(c, d)'
      <4> SUFFICES ASSUME SessionOf[c] = SessionOf[d], OneAtATime(SessionOf[c])',
                          d \in before'[c], Answered(d)', flow'[c].target # flow'[d].target
                   PROVE  d \in flow'[c].context
        BY DEF Shown
      <4>1. Answered(d) /\ flow'[d].target = flow[d].target
        BY <1>3
      <4>2. OneAtATime(SessionOf[d])
        BY <1>3, ConstantsOK, OneAtATimeBefore DEF HistoryKept
      <4>3. PICK i \in DOMAIN memory[SessionOf[d]] : memory[SessionOf[d]][i] = DecisionRow(d)
        BY <4>1, <4>2 DEF SessionsInv, MemoryInv, Answered
      <4>4. QED BY <3>1, <4>1, <4>3 DEF ContextFor, DecisionRow
    <3>3. ASSUME NEW x \in Calls, NEW d \in Calls PROVE Shown(x, d)'
      BY <1>2, <1>3, <3>2, OthersShown
    <3>4. QED BY <3>3 DEF EarlierRepliesInContext, Shown, Answered
  <2>3. QED BY <1>2, <2>1, <2>2
<1>8. QED BY <1>5, <1>6, <1>7 DEF SessionsInv

\* A call answers: its answer joins those of the session.
LEMMA RememberKeepsSessions ==
  ASSUME RecordsInv, SessionsInv, NEW c \in Calls, Remember(c)
  PROVE  SessionsInv'
<1>1. TypeOK /\ stage[c] = "remember" /\ SessionInv(c) /\ flow[c] \in Flow
  BY DEF Remember, RecordsInv, SessionsInv, TypeOK
<1>2. /\ \A d \in Calls : d # c => stage'[d] = stage[d] /\ flow'[d] = flow[d]
      /\ flow'[c].target = flow[c].target
      /\ stage'[c] = "route" /\ UNCHANGED <<known, before>>
  <2>1. \A d \in Calls : d # c => Same(d)
    BY RememberKeeps
  <2>2. flow'[c].target = flow[c].target
    BY <1>1 DEF Remember, TypeOK, Flow
  <2>3. stage'[c] = "route" /\ UNCHANGED <<known, before>>
    BY <1>1 DEF Remember, Goto, TypeOK
  <2>4. QED BY <2>1, <2>2, <2>3 DEF Same
<1>3. Moves(c) /\ HistoryKept
  BY <1>1, <1>2 DEF Moves, HistoryKept
<1>4. SessionInv(c)'
  <2>1. \A d \in before[c] : stage'[d] = "done"
    BY <1>1, <1>2 DEF SessionInv, TypeOK
  <2>2. QED BY <1>1, <1>2, <2>1 DEF SessionInv, Begun, Early
<1>5. \A x \in Calls : SessionInv(x)'
  BY <1>2, <1>3, <1>4, SessionsKept
<1>6. MemoryInv'
  <2>1. /\ SessionOf[c] \in Sessions /\ memory[SessionOf[c]] \in Seq(Entry)
        /\ \A s \in Sessions : s # SessionOf[c] => memory'[s] = memory[s]
        /\ memory'[SessionOf[c]] = Append(memory[SessionOf[c]], DecisionRow(c))
    <3>1. SessionOf[c] \in Sessions
      BY ConstantsOK
    <3>2. QED BY <1>1, <3>1 DEF Remember, TypeOK, DecisionRow
  <2>2. /\ \A i \in DOMAIN memory[SessionOf[c]] :
             i \in DOMAIN memory'[SessionOf[c]] /\ memory'[SessionOf[c]][i] = memory[SessionOf[c]][i]
        /\ \E i \in DOMAIN memory'[SessionOf[c]] : memory'[SessionOf[c]][i] = DecisionRow(c)
    BY <2>1
  <2> SUFFICES ASSUME NEW d \in Calls, Answered(d)', OneAtATime(SessionOf[d])'
               PROVE  \E i \in DOMAIN memory'[SessionOf[d]] :
                        memory'[SessionOf[d]][i] = DecisionRow(d)'
    BY DEF MemoryInv, Answered
  <2>3. DecisionRow(d)' = DecisionRow(d)
    BY <1>2 DEF DecisionRow
  <2>4. CASE d = c
    BY <2>2, <2>3, <2>4
  <2>5. CASE d # c
    <3>1. Answered(d) /\ OneAtATime(SessionOf[d]) /\ SessionOf[d] \in Sessions
      BY <1>2, <1>3, <2>5, ConstantsOK, OneAtATimeBefore DEF HistoryKept, Answered
    <3>2. PICK i \in DOMAIN memory[SessionOf[d]] : memory[SessionOf[d]][i] = DecisionRow(d)
      BY <3>1 DEF SessionsInv, MemoryInv, Answered
    <3>3. i \in DOMAIN memory'[SessionOf[d]] /\ memory'[SessionOf[d]][i] = memory[SessionOf[d]][i]
      BY <2>1, <2>2, <3>1
    <3>4. QED BY <2>3, <3>2, <3>3
  <2>6. QED BY <2>4, <2>5
<1>7. EarlierRepliesInContext'
  BY <1>2, <1>3, ContextKept
<1>8. QED BY <1>5, <1>6, <1>7 DEF SessionsInv

LEMMA SessionsInit == Init => SessionsInv
<1> SUFFICES ASSUME Init PROVE SessionsInv
  OBVIOUS
<1>1. \A c \in Calls : stage[c] = "new" /\ flow[c].answer = "none" /\ before[c] = {}
  BY DEF Init, InitialState
<1>2. QED BY <1>1 DEF SessionsInv, SessionInv, MemoryInv, EarlierRepliesInContext, Begun

\* Every step keeps what the agents of a session share.
LEMMA SessionsStep == RecordsInv /\ SessionsInv /\ [Next]_vars => SessionsInv'
<1> SUFFICES ASSUME RecordsInv, SessionsInv, [Next]_vars PROVE SessionsInv'
  OBVIOUS
<1>1. CASE UNCHANGED <<stage, flow, memory, known, before>>
  BY <1>1, StillKeepsSessions
<1>2. ASSUME NEW c \in Calls, PlainAction(c) PROVE SessionsInv'
  BY <1>2, NodePlain, SenderPlain, PlainKeepsSessions DEF PlainAction
<1>3. ASSUME NEW c \in Calls,
             \/ Begin(c) \/ FindSession(c) \/ CreateSession(c) \/ Dispatch(c) \/ Remember(c)
      PROVE  SessionsInv'
  BY <1>3, BeginKeepsSessions, FindKeepsSessions, CreateKeepsSessions, DispatchKeepsSessions,
     RememberKeepsSessions
<1>4. ASSUME NEW p \in Posts, Serve(p) PROVE UNCHANGED <<stage, flow, memory, known, before>>
  BY <1>4 DEF Serve, Take, Store, Fail
<1>5. CASE UNCHANGED vars
  BY <1>1, <1>5 DEF vars
<1>6. CASE Next
  BY <1>1, <1>2, <1>3, <1>4, <1>5, <1>6 DEF Next, Progress, Advance, PlainAction, Settled
<1>7. QED BY <1>5, <1>6

\* The whole inductive invariant: posts, ids and records of every call, and
\* what the sessions share.
THEOREM InductiveInvariant == Spec => []IInv
<1>1. Init => IInv
  BY RecordsInit, SessionsInit DEF IInv
<1>2. IInv /\ [Next]_vars => IInv'
  BY RecordsStep, SessionsStep DEF IInv
<1>3. QED BY <1>1, <1>2, PTL DEF Spec

\* An agent is shown what the other agents of its session had answered before
\* its call began, unless two calls of the session were under way together
\* (MemoryBridge: start_session, add_agent_decision, get_context_for_agent).
THEOREM EarlierRepliesShown == Spec => []EarlierRepliesInContext
<1>1. IInv => EarlierRepliesInContext
  BY DEF IInv, SessionsInv
<1>2. QED BY <1>1, InductiveInvariant, PTL

=============================================================================
