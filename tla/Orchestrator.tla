---------------------------- MODULE Orchestrator ----------------------------
(***************************************************************************)
(* POST /triage/multi: the router, its specialist agents, the memory they  *)
(* share and the ProofLayer records they leave (orchestrator/,             *)
(* app/multi_agent_routes.py, app/prooflayer_api.py, prooflayer_graph.py). *)
(*                                                                         *)
(* The gateway records by HTTP in the SAME server: a call holds a thread   *)
(* of the server's pool while the handlers of its posts need one too.  A   *)
(* post is given up after a timeout; its handler still runs when it gets   *)
(* a thread.  The orchestrator singleton is taken as already built.        *)
(***************************************************************************)
EXTENDS Integers, Sequences, FiniteSets

CONSTANTS
  Calls,         \* requests to POST /triage/multi
  Sessions,      \* session ids
  SessionOf,     \* the session each request names
  Intents,       \* what a message may be classified as
  Names,         \* the agents the routing table names
  Agents,        \* the agents loaded into the router
  RoutingTable,  \* what _resolve_agent makes of an intent
  Labels,        \* what the classifier may return: intent, agent, tier
  Steps,         \* trace steps an agent's graph returns
  PoolSize,      \* threads of the server's pool
  MaxFailures,   \* bound on posts the database fails
  NoIntent, NoAgent, NoId

ASSUME ConstantsOK ==
  /\ SessionOf \in [Calls -> Sessions]
  /\ Agents \subseteq Names
  /\ RoutingTable \in [Intents -> Names]
  /\ Labels \subseteq [intent : Intents \cup {NoIntent},
                       hint : Agents \cup {NoAgent}, tier : 1 .. 3]
  /\ Steps \in Nat
  /\ PoolSize \in Nat \ {0} /\ MaxFailures \in Nat
  /\ NoIntent \notin Intents /\ NoAgent \notin Names /\ NoId \notin Calls

VARIABLES
  stage,     \* where each call is
  flow,      \* the router's state of each call
  sent,      \* the kind of post a waiting call waits for
  memory,    \* the decisions the memory bridge holds, by session
  known,     \* the sessions the memory bridge has
  posts,     \* what has become of each post to ProofLayer
  givenUp,   \* posts whose sender stopped waiting
  order,     \* the step order read for each trace-step post
  agentRows, \* decisions recorded by agents
  routeRows, \* decisions recorded by the router
  stepRows,  \* pl_trace_steps of each agent decision, as inserted
  edges,     \* cross-agent edges
  before     \* history: the calls answered before each call was begun

vars == <<stage, flow, sent, memory, known, posts, givenUp, order,
          agentRows, routeRows, stepRows, edges, before>>

tables == <<agentRows, routeRows, stepRows, edges>>

(* The posts of a call: its decision, one per step, its route, the edge. *)
DecisionPost == 0
RoutePost == Steps + 1
EdgePost == Steps + 2
Kinds == 0 .. EdgePost
Posts == Calls \X Kinds

Stages == {"new", "queued", "checking", "creating", "classify", "reflect",
           "escalate", "dispatch", "agent", "awaiting", "remember", "route",
           "done"}
PostStates == {"unsent", "queued", "running", "stored", "failed"}
Answers == {"none", "refused", "error", "escalated", "unconfigured",
            "agent_error", "answered"}

(* RouterState, as far as it steers the call; decisions go by their call.  *)
Flow == [intent : Intents \cup {NoIntent}, target : Names \cup {NoAgent},
         hint : Agents \cup {NoAgent}, tier : 1 .. 3, context : SUBSET Calls,
         answer : Answers, agentId : Calls \cup {NoId},
         routeId : Calls \cup {NoId}]

InitialState == [intent |-> NoIntent, target |-> NoAgent, hint |-> NoAgent,
                 tier |-> 3, context |-> {}, answer |-> "none",
                 agentId |-> NoId, routeId |-> NoId]

Entry == [call : Calls, agent : Agents]
Row == [step : 1 .. Steps, order : Nat]

TypeOK ==
  /\ stage \in [Calls -> Stages]
  /\ flow \in [Calls -> Flow]
  /\ sent \in [Calls -> Kinds]
  /\ memory \in [Sessions -> Seq(Entry)]
  /\ known \subseteq Sessions
  /\ posts \in [Posts -> PostStates]
  /\ givenUp \subseteq Posts
  /\ order \in [Posts -> Nat]
  /\ agentRows \subseteq [call : Calls, agent : Agents]
  /\ routeRows \subseteq [call : Calls, intent : Intents \cup {NoIntent},
                          target : Names, tier : 1 .. 3]
  /\ stepRows \in [Calls -> Seq(Row)]
  /\ edges \subseteq [from : Calls, to : Calls]
  /\ before \in [Calls -> SUBSET Calls]

Init ==
  /\ stage = [c \in Calls |-> "new"]
  /\ flow = [c \in Calls |-> InitialState]
  /\ sent = [c \in Calls |-> DecisionPost]
  /\ memory = [s \in Sessions |-> <<>>]
  /\ known = {}
  /\ posts = [p \in Posts |-> "unsent"]
  /\ givenUp = {}
  /\ order = [p \in Posts |-> 0]
  /\ agentRows = {} /\ routeRows = {} /\ edges = {}
  /\ stepRows = [c \in Calls |-> <<>>]
  /\ before = [c \in Calls |-> {}]

-----------------------------------------------------------------------------
(* The thread pool. *)

Threaded == {c \in Calls : stage[c] \notin {"new", "queued", "done"}}
Handled == {p \in Posts : posts[p] = "running"}

ThreadFree == Cardinality(Threaded) + Cardinality(Handled) < PoolSize

Goto(c, st) == stage' = [stage EXCEPT ![c] = st]

(* A node of the router's graph: nothing but the call's own state moves. *)
Node(c, st, f) ==
  /\ Goto(c, st)
  /\ flow' = [flow EXCEPT ![c] = f]
  /\ UNCHANGED <<sent, memory, known, posts, givenUp, order, tables, before>>

Accept(c) == stage[c] = "new" /\ Node(c, "queued", flow[c])

Begin(c) ==
  /\ stage[c] = "queued" /\ ThreadFree
  /\ Goto(c, "checking")
  /\ before' = [before EXCEPT ![c] = {d \in Calls : stage[d] = "done"}]
  /\ UNCHANGED <<flow, sent, memory, known, posts, givenUp, order, tables>>

(* Empty, blocked or taken for an injection: 422. *)
Refuse(c) ==
  /\ stage[c] = "checking"
  /\ Node(c, "done", [flow[c] EXCEPT !.answer = "refused"])

-----------------------------------------------------------------------------
(* MemoryBridge.  start_session looks, then creates: two steps of a thread.*)
(* route_sync calls it once more, when the session exists.                 *)

(* Variant: the session is created without looking. *)
SessionKnownNever(c) == FALSE

SessionKnown(c) == SessionOf[c] \in known

FindSession(c) ==
  /\ stage[c] = "checking"
  /\ Node(c, IF SessionKnown(c) THEN "classify" ELSE "creating", flow[c])

CreateSession(c) ==
  /\ stage[c] = "creating"
  /\ Goto(c, "classify")
  /\ known' = known \cup {SessionOf[c]}
  /\ memory' = [memory EXCEPT ![SessionOf[c]] = <<>>]
  /\ UNCHANGED <<flow, sent, posts, givenUp, order, tables, before>>

(* What the session's other agents have decided. *)
ContextFor(c, agent) ==
  {memory[SessionOf[c]][i].call : i \in {j \in DOMAIN memory[SessionOf[c]] :
                                    memory[SessionOf[c]][j].agent # agent}}

(* add_agent_decision; start_session has made the session. *)
Remember(c) ==
  /\ stage[c] = "remember"
  /\ Goto(c, "route")
  /\ memory' = [memory EXCEPT ![SessionOf[c]] =
                  Append(@, [call |-> c, agent |-> flow[c].target])]
  /\ flow' = [flow EXCEPT ![c].answer = "answered"]
  /\ UNCHANGED <<sent, known, posts, givenUp, order, tables, before>>

-----------------------------------------------------------------------------
(* The router's graph. *)

TierStage(tier) ==
  CASE tier = 1 -> "dispatch" [] tier = 2 -> "reflect" [] OTHER -> "escalate"

(* The agent the classifier named, if it is loaded, or the table's; the     *)
(* language of these calls is always English.                              *)
TargetOf(l) == IF l.hint # NoAgent THEN l.hint ELSE RoutingTable[l.intent]

(* An intent of null without a known agent makes _resolve_agent raise: 500.*)
Unresolvable(l) == l.intent = NoIntent /\ l.hint = NoAgent

Classify(c) ==
  /\ stage[c] = "classify"
  /\ \E l \in Labels :
       IF Unresolvable(l)
       THEN Node(c, "done", [flow[c] EXCEPT !.answer = "error"])
       ELSE Node(c, TierStage(l.tier),
                 [flow[c] EXCEPT !.intent = l.intent, !.hint = l.hint,
                    !.tier = l.tier, !.target = TargetOf(l)])

Revised(f, intent) ==
  [f EXCEPT !.intent = intent, !.hint = NoAgent, !.target = RoutingTable[intent]]

(* The second opinion is skipped, agrees, or names another intent. *)
Reflect(c) ==
  /\ stage[c] = "reflect"
  /\ \/ Node(c, "dispatch", flow[c])
     \/ \E intent \in Intents \ {flow[c].intent} :
          Node(c, "dispatch", Revised(flow[c], intent))

Escalate(c) ==
  /\ stage[c] = "escalate"
  /\ Node(c, "route", [flow[c] EXCEPT !.answer = "escalated"])

Dispatch(c) ==
  /\ stage[c] = "dispatch"
  /\ IF flow[c].target \in Agents
     THEN Node(c, "agent",
               [flow[c] EXCEPT !.context = ContextFor(c, flow[c].target)])
     ELSE Node(c, "route", [flow[c] EXCEPT !.answer = "unconfigured"])

-----------------------------------------------------------------------------
(* The gateway. *)

Send(c, kind) ==
  /\ Goto(c, "awaiting")
  /\ sent' = [sent EXCEPT ![c] = kind]
  /\ posts' = [posts EXCEPT ![<<c, kind>>] = "queued"]

GoOn(c, st) == Goto(c, st) /\ UNCHANGED <<sent, posts>>

(* The agent's graph classifies and responds, then records; or raises. *)
AgentRecords(c) ==
  /\ stage[c] = "agent"
  /\ Send(c, DecisionPost)
  /\ UNCHANGED <<flow, memory, known, givenUp, order, tables, before>>

AgentRaises(c) ==
  /\ stage[c] = "agent"
  /\ Node(c, "route", [flow[c] EXCEPT !.answer = "agent_error"])

RecordRoute(c) ==
  /\ stage[c] = "route"
  /\ Send(c, RoutePost)
  /\ UNCHANGED <<flow, memory, known, givenUp, order, tables, before>>

DecisionReturned(c, ok) ==
  /\ sent[c] = DecisionPost
  /\ flow' = IF ok THEN [flow EXCEPT ![c].agentId = c] ELSE flow
  /\ IF ok /\ Steps > 0 THEN Send(c, 1) ELSE GoOn(c, "remember")

(* A step that could not be recorded is passed over. *)
StepReturned(c) ==
  /\ sent[c] \in 1 .. Steps
  /\ IF sent[c] < Steps THEN Send(c, sent[c] + 1) ELSE GoOn(c, "remember")
  /\ UNCHANGED flow

(* Variant: a route without an agent's decision is linked too. *)
LinksUnguarded(c, ok) == ok

Links(c, ok) == ok /\ flow[c].agentId # NoId

RouteReturned(c, ok) ==
  /\ sent[c] = RoutePost
  /\ flow' = IF ok THEN [flow EXCEPT ![c].routeId = c] ELSE flow
  /\ IF Links(c, ok) THEN Send(c, EdgePost) ELSE GoOn(c, "done")

EdgeReturned(c) ==
  sent[c] = EdgePost /\ GoOn(c, "done") /\ UNCHANGED flow

Returned(c, ok) ==
  /\ \/ DecisionReturned(c, ok)
     \/ StepReturned(c)
     \/ RouteReturned(c, ok)
     \/ EdgeReturned(c)
  /\ UNCHANGED <<memory, known, order, tables, before>>

Succeeded(c) == posts[<<c, sent[c]>>] = "stored"

(* The response arrives: 201, or the 500 that _post raises on. *)
Receive(c) ==
  /\ stage[c] = "awaiting"
  /\ posts[<<c, sent[c]>>] \in {"stored", "failed"}
  /\ Returned(c, Succeeded(c))
  /\ UNCHANGED givenUp

(* Variant: no timeout on the request. *)
TimeoutNever(c) == FALSE

Timeout(c) == stage[c] = "awaiting"

(* urlopen times out: to the caller this is a post that failed. *)
GiveUp(c) ==
  /\ Timeout(c)
  /\ givenUp' = givenUp \cup {<<c, sent[c]>>}
  /\ Returned(c, FALSE)

-----------------------------------------------------------------------------
(* ProofLayer's handlers, on the threads of the same pool. *)

(* Variant: the handler of a request given up is not started. *)
RunnableIfWaiting(p) == posts[p] = "queued" /\ p \notin givenUp

Runnable(p) == posts[p] = "queued"

IsStep(p) == p[2] \in 1 .. Steps

OrdersOf(c) == {stepRows[c][i].order : i \in DOMAIN stepRows[c]}

(* Variant: the greatest order itself. *)
NextOrderSame(c) == CHOOSE n \in OrdersOf(c) : \A m \in OrdersOf(c) : m <= n

(* SELECT COALESCE(MAX(step_order), -1) + 1 *)
NextOrder(c) ==
  IF OrdersOf(c) = {} THEN 0
  ELSE 1 + CHOOSE n \in OrdersOf(c) : \A m \in OrdersOf(c) : m <= n

(* A handler gets its thread; add_trace_step starts by reading the order.  *)
Take(p) ==
  /\ Runnable(p) /\ ThreadFree
  /\ posts' = [posts EXCEPT ![p] = "running"]
  /\ order' = IF IsStep(p) THEN [order EXCEPT ![p] = NextOrder(p[1])] ELSE order
  /\ UNCHANGED <<stage, flow, sent, memory, known, givenUp, tables, before>>

(* record_decision inserts the decision and the steps sent along with it.  *)
InsertDecision(c) ==
  /\ agentRows' = agentRows \cup {[call |-> c, agent |-> flow[c].target]}
  /\ stepRows' = [stepRows EXCEPT ![c] =
                    [i \in 1 .. Steps |-> [step |-> i, order |-> i - 1]]]
  /\ UNCHANGED <<routeRows, edges>>

InsertStep(p) ==
  /\ stepRows' = [stepRows EXCEPT ![p[1]] =
                    Append(@, [step |-> p[2], order |-> order[p]])]
  /\ UNCHANGED <<agentRows, routeRows, edges>>

InsertRoute(c) ==
  /\ routeRows' = routeRows \cup
       {[call |-> c, intent |-> flow[c].intent, target |-> flow[c].target,
         tier |-> flow[c].tier]}
  /\ UNCHANGED <<agentRows, stepRows, edges>>

InsertEdge(c) ==
  /\ edges' = edges \cup {[from |-> flow[c].routeId, to |-> flow[c].agentId]}
  /\ UNCHANGED <<agentRows, routeRows, stepRows>>

(* One transaction each.  What a post carries its call no longer changes.  *)
Store(p) ==
  /\ posts[p] = "running"
  /\ \/ p[2] = DecisionPost /\ InsertDecision(p[1])
     \/ IsStep(p) /\ InsertStep(p)
     \/ p[2] = RoutePost /\ InsertRoute(p[1])
     \/ p[2] = EdgePost /\ InsertEdge(p[1])
  /\ posts' = [posts EXCEPT ![p] = "stored"]
  /\ UNCHANGED <<stage, flow, sent, memory, known, givenUp, order, before>>

(* The database cannot be reached or refuses: nothing is kept, 500. *)
Fail(p) ==
  /\ p \in Handled
  /\ Cardinality({q \in Posts : posts[q] = "failed"}) < MaxFailures
  /\ posts' = [posts EXCEPT ![p] = "failed"]
  /\ UNCHANGED <<stage, flow, sent, memory, known, givenUp, order, tables, before>>

-----------------------------------------------------------------------------
Advance(c) ==
  \/ Begin(c) \/ Refuse(c) \/ FindSession(c) \/ CreateSession(c)
  \/ Classify(c) \/ Reflect(c) \/ Escalate(c) \/ Dispatch(c)
  \/ AgentRecords(c) \/ AgentRaises(c) \/ RecordRoute(c)
  \/ Receive(c) \/ Remember(c)

Serve(p) == Take(p) \/ Store(p) \/ Fail(p)

Settled ==
  /\ \A c \in Calls : stage[c] = "done"
  /\ \A p \in Posts : posts[p] \in {"unsent", "stored", "failed"}
  /\ UNCHANGED vars

(* Threads are scheduled, timeouts expire, queued handlers get a thread:   *)
(* while something can be done, something is done.  No step can be taken   *)
(* twice, so that alone brings every call to its end.                      *)
Progress ==
  \/ \E c \in Calls : Advance(c) \/ GiveUp(c)
  \/ \E p \in Posts : Serve(p)

Next == (\E c \in Calls : Accept(c)) \/ Progress \/ Settled

Fairness == WF_vars(Progress)

Spec == Init /\ [][Next]_vars /\ Fairness

-----------------------------------------------------------------------------
(* Properties. *)

(* Edges and answers fit (ProofLayerGateway.record_route): an edge leads   *)
(* from the route to the decision of one call, both on record, and the     *)
(* route names the agent that decided, after a revision too; and an agent's*)
(* answer, none of whose posts failed or was given up, has its edge.       *)
EdgesFitAnswers ==
  /\ \A e \in edges :
       \E r \in routeRows, a \in agentRows :
         /\ r.call = e.from /\ a.call = e.to /\ e.from = e.to
         /\ r.target = a.agent /\ r.tier # 3
  /\ \A c \in Calls :
       /\ stage[c] = "done" /\ flow[c].answer = "answered"
       /\ \A k \in Kinds : posts[<<c, k>>] # "failed" /\ <<c, k>> \notin givenUp
       => [from |-> c, to |-> c] \in edges

(* A row that came from a post its sender had stopped waiting for. *)
Late(c, i) == i > Steps /\ <<c, stepRows[c][i].step>> \in givenUp

(* The step orders of a decision (add_trace_step reads MAX(step_order)     *)
(* before it inserts, record_decision counts): none is left out, even when *)
(* the handlers of posts given up run beside the next one and read the     *)
(* same order; and the rows that did not come late are read back, ordered  *)
(* by step_order, as the steps were taken, no two of them with one order.  *)
OrdersDense ==
  \A c \in Calls :
    /\ \A n \in OrdersOf(c) : n = 0 \/ n - 1 \in OrdersOf(c)
    /\ \A i, j \in DOMAIN stepRows[c] :
         i < j /\ ~Late(c, i) /\ ~Late(c, j) =>
           /\ stepRows[c][i].order < stepRows[c][j].order
           /\ i > Steps => stepRows[c][i].step < stepRows[c][j].step

(* "One row per Thought-Action-Observation step recorded inside a decision"*)
(* (schema_v3.sql, pl_trace_steps).                                        *)
OneRowPerStep ==
  \A c \in Calls : \A i, j \in DOMAIN stepRows[c] :
    stepRows[c][i].step = stepRows[c][j].step => i = j

(* The calls of a session that have begun came one after the other. *)
OneAtATime(s) ==
  \A c, d \in {x \in Calls : SessionOf[x] = s /\ stage[x] \notin {"new", "queued"}} :
    c = d \/ c \in before[d] \/ d \in before[c]

(* An agent is shown what the other agents of its session answered before  *)
(* the call began (MemoryBridge), as long as no two calls of the session   *)
(* were under way together: they may both create the session.              *)
EarlierRepliesInContext ==
  \A c, d \in Calls :
    /\ SessionOf[c] = SessionOf[d] /\ OneAtATime(SessionOf[c])
    /\ d \in before[c] /\ flow[d].answer = "answered"
    /\ flow[c].target # flow[d].target
    /\ stage[c] = "agent"
    => d \in flow[c].context

(* Every call that was accepted is answered in the end, although every     *)
(* thread of the pool may be held by a call that waits for a handler that  *)
(* needs one: the timeout of its posts frees it (triage_multi, _post).     *)
EveryCallAnswered == <>[](\A c \in Calls : stage[c] \in {"new", "done"})

(* The ids in a reply's trace are those of records that exist and are the  *)
(* call's own (triage_multi); and once no handler runs or can run, the     *)
(* decision behind every answer is on record, unless the database refused  *)
(* it: giving up on the response does not lose it (_record_node, ingest).  *)
AnswersOnRecord ==
  /\ \A c \in Calls :
       /\ flow[c].agentId # NoId =>
            flow[c].agentId = c /\ \E a \in agentRows : a.call = c
       /\ flow[c].routeId # NoId =>
            flow[c].routeId = c /\ \E r \in routeRows : r.call = c
  /\ (\A p \in Posts : ~Runnable(p) /\ p \notin Handled) =>
       \A c \in Calls : flow[c].answer = "answered" =>
         \/ \E a \in agentRows : a.call = c
         \/ posts[<<c, DecisionPost>>] = "failed"

=============================================================================
