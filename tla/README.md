# A TLA+ development of the AI triage agent

Specifications, model-checking runs and machine-checked proofs for the customer
triage service in this repository. This file is the guide: what the system
consists of, which module models which part, what the runs check, what is
proved, and what is left.

## 1. The system

One FastAPI process (`Dockerfile`: a single uvicorn worker) serves every HTTP
endpoint; Postgres holds tickets, precedents and the ProofLayer graph; the audit
ledger is a JSONL file; an optional Temporal server and worker process run the
durable path.

| Part | State | Operations | Interacts with |
|---|---|---|---|
| Triage service (`app/main.py`, `app/agent_graph.py`, `app_ar/agent_graph.py`) | checkpoints per thread (`InMemorySaver`), session memory (`shared/memory.py`), session language | `POST /triage`, `POST /triage/resume`, six graph nodes | tickets and precedents in Postgres, the audit wrapper, background `record_decision` |
| Audit ledger (`audit/`) | the JSONL file | append through `@audit_record`, read, verify, replay status | called by `/triage`, read by the replay endpoint |
| Durable triage (`app/temporal_*.py`) | workflow history (Temporal), tickets | `POST /triage/durable`, three activities | the same classifier, tools and responder |
| Session and language routing (`app/main.py`) | `_session_language`, `ar_` thread prefix | `_resolve_language`, choice of agent in resume | chooses the thread the triage service works on |
| Orchestrator (`orchestrator/`, `app/multi_agent_routes.py`) | memory bridge, lazy singleton | `POST /triage/multi`: classify, reflect, dispatch, escalate, record | seven specialist agents; the gateway calls ProofLayer over HTTP in the same process |
| Specialist agents (`orchestrator/agents/`) | none; they read the session's memory | classify a message, apply the policy of the department | called by the orchestrator |
| ProofLayer (`app/prooflayer_*.py`) | decision nodes, edges, trace steps, exceptions, agents | record, append a step, link, replay, blame, search | written by triage and by the orchestrator's gateway |
| Risk management (`app/rmf_*.py` on Postgres, `prooflayer-sdaia/P145/prooflayer-rmf/` on SQLite) | contexts, risks, assessments, treatments, reviews | identify, assess, treat, review, report, matrix | shares agents with SDAIA and passports |
| SDAIA and passports (`app/sdaia_api.py`, `prooflayer-sdaia/app/`, `app/passport_api.py`) | agents, risk assessments, incidents, reports, labels | classify, log and report incidents, label by score or by checklist, deployment check, passport | scripts and the API write the same tables |
| Compliance report (`app/compliance.py`) | none of its own | seventy ISO 42001 checks, score and grade, of an agent or of all | counts what ProofLayer recorded, while it is recorded |
| Embedding loader (`shared/embeddings.py`) | the model, a lock | lazy load by many threads | every tool and store |
| Filters (`app/security/`) | none | sanitise, guard, filter the output | refuse or replace a triage reply |
| PDF layout, UI, scripts, proxy, containers | none of their own | read, display, seed | everything above |

### What is hard in it

- **Calls of one thread interleave.** Graph nodes run in a thread pool, one per
  superstep, and each superstep overwrites the thread's checkpoint. `triage`
  reads the checkpoint back only after its `await`, so what it answers with may
  be another run's.
- **A pending approval is a checkpoint with a next node**, and so is a run that
  raised or is still under way; `/triage/resume` cannot tell them apart.
- **The ticket comes before the approval**, and survives a decline.
- **A restart** forgets checkpoints, session memory and queued background tasks,
  and keeps tickets, decisions and the ledger.
- **The ledger's append may be cut short**; what the next append makes of the
  rest decides whether the hash chain still means anything.
- **Temporal delivers at least once**: attempts die with a worker, time out while
  they still execute, and complete late.
- **The orchestrator calls its own server.** A `/triage/multi` call holds a thread
  of the pool while it posts to ProofLayer, whose handlers need a thread of the
  same pool; only the posts' timeout keeps a full pool moving, and a handler whose
  client has given up still runs.
- **The orchestrator is a singleton made without a lock**, by a timer and by
  requests; each maker publishes its own and goes on with the one then current, so
  what the session's memory holds depends on who was last.
- **Overlapping requests for one risk** commit in one order and are stamped in
  another; on SQLite the row and the status are two commits.
- **A compliance record is written row by row by scripts** that may die in between,
  stamped by two clocks of different resolution, and read statement by statement by
  a gate that must not let a dangerous agent pass.
- **A compliance report divides counts of different moments.**

`PROJECT.json` lists each hazard at its line, with the properties that cover it.

### What makes each part correct

- Triage: one outcome per message; a human decides exactly what was held for a
  human; nobody gets another message's answer; at most one ticket per message;
  the recorded traces are what happened; every 200 leaves a decision and a
  ledger entry; every call settles.
- Ledger: readable means verifiable, INTACT means complete, lines do not change.
- Durable path: history stands, what was done fits it, every call is answered.
- Orchestrator: every routed message has one response and at most one route
  decision linked to the agent decision it names; no pool of waiters.
- ProofLayer: the steps of a decision are those of its run, in one order.
- Specialists: what other agents concluded in the session is heeded, and asking
  again never gets a milder treatment.
- RMF: the status of a risk names a record, the last one; report and matrix agree
  with the register.
- SDAIA: a CRITICAL agent is prohibited, a go is evidenced, the risk and label in
  force are the latest the clocks can tell.
- Compliance: what is MET holds of the graph, an agent's report is its own.

## 2. The modules

| Module | What it is |
|---|---|
| `TriageService` | the service and the graph: state, one action per node, handler and background task, properties |
| `EscalationReview` | the abstract promise about a message: answered, or held and then decided once |
| `MCTriageService` | label sets and symmetry for TLC |
| `TriageServiceProofs` | its properties, proved in three parts: types and traces, what any client can rely on, and what clients that wait can rely on, the refinement of `EscalationReview` included |
| `AuditLedger` | the file, appends whole and cut short, reading, verifying, status |
| `AuditLedgerProofs` | its properties, proved from one inductive invariant |
| `DurableTriage` | endpoint, workflow, activities, worker, and the server's delivery |
| `DurableTriageProofs` | its invariants and that history stands, proved |
| `Orchestrator` | router graph, memory bridge, gateway, and ProofLayer's recording handlers on the shared thread pool |
| `MCOrchestrator` | agents, routing table and classifications for TLC |
| `OrchestratorProofs` | its five invariants, proved |
| `Specialists` | the seven agents' classification and policy, and the singleton and its sessions, whose memory they share |
| `MCSpecialists` | the messages asked, for TLC |
| `SpecialistsProofs` | its two properties, proved, and that no agent is milder with more context |
| `RiskLifecycle` | the abstract promise about one risk: records accumulate, the status is open or names one |
| `RiskRegister` | the five-stage cycle on Postgres and on SQLite, the matrix, the report, the process dying |
| `MCRiskRegister` | symmetry for TLC |
| `RiskRegisterProofs` | the refinement of `RiskLifecycle` and three invariants, proved |
| `DeploymentGate` | one agent's compliance record, its writers, the labels, the gate and the passport |
| `MCDeploymentGate` | four instances of it for TLC |
| `DeploymentGateProofs` | its five properties, proved |
| `ComplianceReport` | the seventy checks on a graph that grows while they run |
| `MCComplianceReport` | recorded decisions and graphs at the thresholds, for TLC |
| `ComplianceReportProofs` | its three properties, proved, and the ceiling of the score |

A definition is named after the function or node it translates wherever TLA+
allows; `PROJECT.json` ("map") gives the lines. Operators marked *Variant* in a
comment are plausible bugs of the definition that follows them; no specification
uses them, they only serve to show that each property can be violated.

### 2.1 TriageService

*State and code.* `pc[c]` is the graph node a call executes next, or "idle",
"returned" (the graph's call is over, the handler is not), "done", "lost".
`vals[c]` is the run's copy of `AgentState`, abstracted to what the properties
tell apart: the message, the intent, the effective intent (`revised_intent` when
revised), the escalation flag, whether the tool inserted or merely claimed a
ticket, what the response text says, and the trace steps. `ckpt[t]` is the
latest checkpoint of a thread: the next node and the values. `memory`,
`tickets` and `precedents` are the session memory and the Postgres tables;
`audited` counts a call's ledger entries, and `tasks` and `decisions` are the
sequences of its background tasks and of its recorded decisions, so that a second
one shows. `missed` is a history variable: of which call a store failed, or a
restart took the task.

*Actions.* `StartTriage`, `Refuse`, `FinishTriage` are `triage` before and after
its `await`; `StartResume`, `NothingToResume`, `FinishResume` are
`triage_resume`. `Classify`, `Reflect`, `RunTool`, `StoreMemory`, `Respond`,
`Interrupt` and `Conclude` are the nodes with everything they store;
`NodeRaises` is a node that raises. `RecordDecision` is the background task, one
transaction. `Restart` is the process.

*What is taken from LangGraph* (external, modelled from how the code uses it):

- A run executes one node per superstep and saves a checkpoint after it; nodes
  are synchronous functions in an executor, so other coroutines run in between.
- `ainvoke(dict)` starts at the entry node and discards the work the checkpoint
  had pending. Channels named in the input are overwritten, except `trace_steps`,
  whose reducer is `operator.add`: the empty list leaves the old steps.
- `ainvoke(Command(resume=v))` executes the checkpoint's next node; `v` is
  consumed only by an `interrupt()` of that first superstep. A resumed run that
  reaches `escalation` later is interrupted again.
- `interrupt()` without a value ends `ainvoke` normally and leaves the node next;
  a node that raises makes `ainvoke` raise and leaves it next as well.
- In `triage_resume`, the check and the loading of the checkpoint are one action:
  nothing suspends between them. The run that follows is not atomic.

*Abstractions.* A triage call is its own message. Thread ids are given
(language routing is a component of its own). Confidence values, wording,
embeddings and the context put into prompts are left out; "faq" stands for every
intent served by a lookup, "unknown" for greeting and unknown, which reflection
skips. The output filter's only schema failure that the code can reach is a
confidence out of range, the fault "schema".

### 2.2 EscalationReview

What a caller may rely on whatever the graph does: new → working → answered,
held, refused or failed; held → approved, declined or dropped; nothing else,
every outcome final. `TriageService` implements it under the mapping `StageOf`,
which reads the stage off the replies and the thread's checkpoint, when clients
wait for their replies (`MaxInFlight = 1`) and no node raises. Both conditions
are needed: with overlapping calls, or after a raise, a message is decided twice
or by nobody (see the findings).

### 2.3 AuditLedger

The file is a sequence of lines, a line a sequence of the pieces written to it:
one whole record normally, more when an append landed behind a missing newline.
SHA-256 is taken as injective, so a chain hash is the sequence of calls it was
computed from. In the one server process `_build_and_store` runs without an
`await` between reading the last hash and appending, so an append is one action,
`Store`; `CutShort` is one that ends early by a crash or an error, at the places
that matter (nothing, a part, all but the newline, all of it), and `Skip` is one
that finds the file unreadable and gives up. A JSON object with something after
it on the same line is as unreadable as half an object.

### 2.4 DurableTriage

`step`, `intent` and `tool` are the workflow's history in the server;
`working` holds the attempts that worker threads execute, including those the
server has given up. A call waits for the result of the run it started. The
Temporal server is external: it hands out an attempt of the next activity, takes
the completion only of the attempt in progress, and schedules another one after
a failure or a start-to-close timeout. A second message of a session whose
workflow is open is refused by the server, an uncaught error in the endpoint.

### 2.5 Orchestrator

*State and code.* `stage[c]` is the place a call has reached: the handler, a node
of the router's graph, or "awaiting" a post of the kind `sent[c]`. `flow[c]` is
`RouterState` as far as it steers the call. `memory` and `known` are the memory
bridge's sessions, the decisions in them and those that exist. A post is named by its
call and kind: the agent's decision, one per trace step, the route, the edge. `posts` says how far the server has come
with it, `givenUp` whether its sender still waits; the four tables are what
ProofLayer has committed, a decision's id being the call it was made for.

*Actions.* `Begin`, `Refuse`, `FindSession` are `triage_multi` before routing;
`FindSession` and `CreateSession` are `start_session`, two steps because a thread
switch fits between the look and the assignment. `Classify`, `Reflect`,
`Escalate`, `Dispatch`, `RecordRoute` are the router's nodes; `AgentRecords` and
`AgentRaises` are the specialist's graph; `Remember` is `add_agent_decision`.
`Receive` and `GiveUp` are the two ways a post returns, each followed by what the
gateway does next. `Take`, `Store` and `Fail` are a handler that gets a thread,
commits, or answers 500; for a trace step the greatest order is read at `Take`
and used at `Store`.

*External.* anyio's limiter hands threads to sync handlers; Starlette starts such
a handler even when its client has disconnected meanwhile. The limiter is first
come first served, the model lets any waiting handler go first: more behaviours.

*Abstractions.* The singleton is built; its making, and what the agents answer,
are the subject of `Specialists`. What the
language model or the keyword fallback returns is a member of `Labels`, with its
tier instead of a confidence; the confidence a reflection adjusts is recorded and
shown but steers nothing, and is left out, as is `needs_escalation`. Prefix
matching of intents is part of `RoutingTable`. A restart is not modelled: it ends
every call, and forgets `memory` while the tables stay.

### 2.6 Specialists

*State and code.* `orchestrator` is `_orchestrator`, named after the thread that
made it; `known[o]` and `memory[o]` are the memory bridge of the one made by `o`, its
sessions and the decisions in each. A call looks for the singleton without a lock
(`GetOrchestrator`); if there is none it makes one, publishes it (`Publish`) and takes
the one then current (`TakeCurrent`), which may be another's. Then it looks for its
session (`FindSession`) and creates it if it found none (`CreateSession`), which
replaces one made meanwhile, and the decisions in it: `start_session` has no lock
either. `Dispatch` reads the context and lets the agent decide, `Remember` adds the
decision after the agent recorded it. `Warmer` is the timer of the start-up hook.

*Memory is lost* in both races: a maker that publishes over an orchestrator drops all
of its sessions, a creator that replaces a session drops that one. `lost` is a history
variable, the calls whose answers were dropped so. A drop puts a call into `lost` only
if it was not over when the thread that drops began (`before`): a thread begun later
should have found what was there, and if it does not the properties fail.

*The agents* are operators from a message and a context to an answer: the intent, the
confidence, the outcome of the policy, and `level`, what the agent's policy goes by
(fraud risk, churn probability, severity of a complaint or outage; for an upgrade
request, and only there, whether the customer is at risk). A message is what the agents
search in it: the hits per category of keywords, other signs, amounts. Confidences and
weights are hundredths; no sum of the code's floats lies on a threshold.

*Abstractions.* Routing, escalation and the posts to ProofLayer are in `Orchestrator`;
here a call reaches its agent. The texts of replies and traces, the invented names and
amounts in them, and the registration of agents are left out. Adding a decision looks up
the session and appends; a creator between the two loses that decision as it loses one
added just before, so that this is one action. `before` is a history variable as well.

### 2.7 RiskLifecycle and RiskRegister

*State and code.* `status`, `assessments` and `treatments` are the tables;
contexts and reviews matter by whether there is one. `store` says which
implementation runs. A request of stage 3 or 4 begins (`post_assess`,
`post_treat`, with its transaction's time as `created_at`); with Postgres it commits
row and status together (`Commit`), with SQLite it inserts the row (`insert_row`)
and then, on another connection, sets the status (`update_risk_status`). `Crash` ends
every request and report in hand. The report lists the statuses first, then reads
the rows, then the reviews (`list_risks`, `show_risks`, `get_report`).

*Row order.* `id` is the order in which rows became visible: the rowid of SQLite,
the order of commits in Postgres. `created_at` is the start of the transaction, so
with overlapping requests "latest" by `created_at` and the last commit differ; the
status follows the commit, the register and the matrix follow `created_at`.

*RiskLifecycle* is what both promise, and `KeepsLifecycle` the refinement: the status
shown is the table's, the records are the kinds of the rows. A record may come
before the status that names it, never after.

*Abstractions.* One agent's register. Free text, the validation of requests (422,
404) and lookups without effect are left out. The SQLite prototype reads a report on
several connections; reads with nothing between them that a property sees are one
action.

### 2.8 DeploymentGate

*State and code.* `autonomy` is the agent's row; `assessments` the rows of
`risk_assessments` (seven per run, one commit each: `assess_and_store`, `assess_next`,
`AssessorDies`); `incidents` with the two commits of a critical one (`log_incident`,
`mark_incident_reported`, `LoggerDies`); `labels` with their two writers, each of
which reads before it inserts: the script's score (`compute_ethics_label`,
`save_ethics_label`) and the API's checklist (`sdaia_assess_label`, `insert_label`).
`gate` is a deployment check (`sdaia_deployment_check`) or a passport
(`get_agent_passport`, which reads the risk it shows first) on its way through ten
SELECTs, one action each: eight for the evidence (`ReadEvidence`, in the order of
`_gather_label_evidence`), the risk in force (`ReadRisk`) and the latest label, with
which the decision falls (`compute_deployment_decision`). Anything may be committed
between two of them. A label by checklist gathers its evidence through the same eight
actions (`GatherForLabel`).

*Clock.* The scripts' `_now` is cut to seconds (`Truncate`), Postgres's `NOW()` is
not and is the transaction's start. `LatestBatch` (the rows of the newest stamp) and
`LatestLabels` decide by these stamps; when two labels tie, either may be read. The
clock is assumed not to run backwards.

*Pure parts.* `classify_category`, `classify_agent`, the checklist (`Achieved`), the
score (`compute_score`, with Python's rounding in `Share`), `tier_for_score` and
`Decision` are operators of the record.

*Abstractions.* The reads of one label by score (`compute_ethics_label`) are one action;
those of the gate and of the checklist are not. Several decisions, reports and contexts
are one flag where only their presence counts. Lists and overviews only read.
`gate.prohibit` is a history variable: it remembers that the newest run found the agent
CRITICAL when the check began and that every row saved since is CRITICAL too.

### 2.9 ComplianceReport

*State and code.* The decision graph as far as it is counted: `decisions` is a bag,
since decisions that agree in what the checks look at need not be told apart. A
report of a scope (an agent or everyone) goes through `Requirements`, the catalogue
in the code's order; a check is one action per snapshot it reads (`FirstQuery`,
`LastQuery`), each on a connection of its own; `QueryFails` is the `except` that
makes a requirement NOT_MET. Recordings, exceptions, steps, edges and days come in
between. The checks are operators by clause and annex; `score_pct` and `Grade` are
the score in tenths of a percent and the letter.

*Abstractions.* Policies are the seeded rows; nothing writes
`pl_data_classifications`; texts, evidence lists and recommendations are left out.

## 3. The runs

| Run | Instance | Question |
|---|---|---|
| `TriageOverlap` | 2 calls, 1 resume, 1 thread, 2 in flight, 1 restart, reflection may raise | What survives any interleaving: `VerdictsAreHuman`, `TracesFollowGraph`, `TurnsPaired`, `RepliesLeaveATrail` |
| `TriageSerial` | 2 calls, 2 resumes, 2 threads, 1 in flight, 1 restart, inserts may fail | What a waiting client may rely on: `ReplyIsForItsMessage`, `AtMostOneTicket`, `ResumeDecidesPending`, and the refinement `KeepsReviewPromise` |
| `TriageFaults` | 1 call, 2 resumes, every label, every fault, 1 restart, fair | `EscalatedNotAnswered`, `RepliesLeaveATrail`, `EveryCallSettles` |
| `AuditLedger` | 5 appends, 3 cuts | `ReadableVerifies`, `IntactIsComplete`, `AtMostOneLost`, `LinesStay` |
| `DurableTriage` | 2 calls of one session, 2 troubles of any kind, fair | `TicketsFitAnswers`, `TroubleBeforeDuplicates`, `HistoryStands`, `EveryCallAnswered` |
| `Orchestrator` | 2 calls of one session, 2 threads, 1 trace step, 1 failing post, any number of timeouts, fair | `EdgesFitAnswers`, `EarlierRepliesInContext`, `AnswersOnRecord`, `EveryCallAnswered` |
| `RiskRegister` | 2 risks, 2 requests at once, 3 requests in all, both storages, crashes | `ReportBacksItsStatus`, `StatusIsTheLastWrite`, `MatrixFitsRegister`, and the refinement `KeepsLifecycle` |
| `DeploymentGate` | 2 ticks per second; four instances: 2 assessments over 3 ticks; one HIGH assessment, 2 incidents, 1 label by score; one LIMITED assessment, 1 incident, 1 label by score; 2 labels of both kinds over 3 ticks | `CriticalIsProhibited`, `GoIsEvidenced`, `HighGoOutranksIncidents`, `NeverUnderstated`, `LabelLagsUnderASecond` |
| `ComplianceReport` | five graphs at the thresholds, one event anywhere in the report | `MetHolds`, `OthersChangeNothing`, `NoReportAboveD` |
| `Specialists` | 3 calls, 2 at once, the warmer, 10 messages over 2 sessions | `LaterNeverMilder`, `WarningsHeeded` |

*Bounds.* Two calls and a resume on one thread already give every pair of
supersteps in both orders, with a third party resuming either of them; a second
thread adds only independence, which the serial run includes. One restart
suffices: it returns the volatile state to its initial value. The ledger's
damage is at its tail, so three cuts and two more appends reach every shape of a
tail and what follows it. Two troubles let an attempt be given up and its
successor be lost, or two attempts complete late in either order.
Two threads and two calls let the whole pool wait for itself, which is what any
pool size comes to under enough calls, and let a call run alone beside free
threads. The agents return two trace steps; one keeps that instance small, and the
order of several steps is proved (`OrdersAreDense`) and can be checked by hand
(below). Three
overlapping calls of a new session can lose a remembered decision
(`CreateSession` by the one that looked first), which is why
`EarlierRepliesInContext` speaks of calls one at a time.
Two requests for one risk give every order of two commits or of four SQLite
steps; the third request begins after or between them, and the second risk shows
that nothing leaks. One second of the gate's clock is two ticks, so that two stamps
of the API fall into one stamp of the scripts, and three ticks reach the next
second; one instance holds two runs of different risk, which is what batches mix;
two incidents are one that is resolved and one that is not.
The compliance seeds lie on either side of the checks' thresholds, so that one
recording, exception, step, edge, leap or failing query decides a check; a second
event would decide another. In `Specialists` a call is told what two others said
before: two failed payments are the least that fraud detection heeds. Three calls, two
at once, are also the fewest with which a late maker or creator drops an answer that a
third call should have seen: without `lost` both properties are violated in this
instance, and two of the configurations below show the drop itself.
`MaxInFlight` is not a limit of the code: 1 describes a client that waits, as
`ui/index.html` does, 2 one that does not.

*Deadlock* is not an error in these runs but one: each has a fixed number of calls,
requests or events and ends when they are used up; a risk register, a compliance
record or a report may then rest for good. `Orchestrator` has the action `Settled`
for that end, and deadlock is checked: no pool of calls waiting for each other is
stuck.

*Fairness.* `TriageService` assumes that a ready call progresses and a queued
task runs (the event loop and the executor do that; the language model client
and database connections time out, and their failures are caught), and assumes
nothing of clients or of restarts. `DurableTriage` assumes that a worker polls
again after a crash, that the activity in progress ends, and that the server
delivers results and timeouts. Troubles are bounded: without a bound Temporal
retries for ever and the call waits for ever.
`Orchestrator` assumes only that the server does something while it can do
something (`WF_vars(Progress)`); no step is taken twice, so that suffices, and
without the timeout it does not. That a request is sent is not assumed.
The other modules state no fairness: what they promise is safety, and nothing in the
code makes a script run again that died.

### Findings

Each of these runs is expected to end in a counterexample, because the code does
not do what a text of the repository says.

- `FindingResumeDecidesPending`. Resume is for "an escalation that's pending
  human review" (`README.md:139`); it accepts any thread with something left to
  execute. In the counterexample reflection raises, and the resume that follows
  runs the remaining nodes and is recorded as a human override.
- `FindingNeverTwoTickets`. The docstring of `app/temporal_activities.py` (lines
  7-9) says a crash never double-creates a ticket; that holds between activities,
  not inside one: insert, crash, retry gives two.

Other places where a text and the code part, seen while modelling; the models
follow the code:

- The pending reply says a review is required "before this ticket is created"
  (`app/main.py:232`); the ticket was inserted two nodes earlier, and stays when the
  human declines.
- The trace endpoint promises the trace of one decision (`README.md:142`); later
  decisions of a thread carry the earlier turns' steps too, because the input's
  empty list does not reset a channel reduced by addition. `TracesFollowGraph`
  therefore speaks of a series of turns.
- `app/schema_v3.sql:25` has "One row per Thought→Action→Observation step recorded
  inside a decision"; the gateway sends the steps inside `POST /decisions`, which stores
  them, and then posts each again (`orchestrator/prooflayer_gateway.py:266`, `:275`): two
  rows (`OneRowPerStep`).
- `_get_orchestrator` says "Initialize and cache the orchestrator on first call"
  (`app/multi_agent_routes.py:31`); two threads that find none both make one, and the
  later replaces the earlier, sessions included (`CachedOnFirstCall`).
- `start_session` says "Create or return an existing cross-agent session"
  (`orchestrator/memory_bridge.py:126`); a call that looked before another created the
  session replaces it, and what was remembered in it is gone
  (`ExistingSessionReturned`).
- The sales agent's policy gates upsell recommendations, "not shown to at-risk
  customers" (`orchestrator/agents/sales.py:8`); its code looks at the risk for upgrade
  requests only (`UpsellGated`).
- Billing and technical trouble brings "a higher churn probability and receives a more
  aggressive save offer" (`orchestrator/agents/retention.py:7-9`). The probability rises
  (`WarningsHeeded`); the offer is that of the segment, which is always "medium_value",
  as it is computed from the context's title (`TroubleSweetensOffer`).
- The billing agent's alert after three failed payments never fires: it counts its
  own intent in a context that leaves out its own decisions.
- `app/sdaia_api.py:265-268` calls the label that ran most recently current: right
  up to one second of the scripts' clock (`LabelLagsUnderASecond`).
- Nothing evidences continuous monitoring, so the gate never says "approved", only
  "warning" (`GoIsEvidenced`), and no passport is ACTIVE.
- The compliance catalogue has seventy entries where `app/compliance.py:1523` speaks
  of 65. 23 of them are never met, 29 at best in part; no report scores more than
  49.1%, and none is above D (`NoReportAboveD`). 8.5 and 10.3 may be MET of a graph
  that never was: they read the counts in the unlucky order (`MetHolds`).

Not a finding, since no text excludes it, but visible in `TriageOverlap` with
`ReplyIsForItsMessage` or `ResumeDecidesPending` added: with two calls in flight
on a thread a client may receive the other message's answer, two resumes may both
decide one escalation, and a resume sent while a run is between its nodes executes
the same node twice, `tool_runner` included.

### Further configurations

Not part of the runs above, for use by hand (`tlc -config X.cfg M`). Those named
`Finding_` after a difference in the list above end in its counterexample.

| Configuration | Module | Outcome |
|---|---|---|
| `OrchestratorSteps.cfg` | `MCOrchestrator` | no error: `OrdersDense` for one call of three steps and four threads, so that the handlers of two steps given up read and insert beside the third; without its `Late` the property is violated there |
| `Finding_OneRowPerStep.cfg` | `MCOrchestrator` | a step has two rows |
| `Finding_CachedOnFirstCall.cfg` | `MCSpecialists` | an orchestrator in use is replaced |
| `Finding_ExistingSessionReturned.cfg` | `MCSpecialists` | a session loses a decision |
| `Finding_UpsellGated.cfg` | `MCSpecialists` | a customer who is about to leave is shown the upsell offer |
| `Finding_TroubleSweetensOffer.cfg` | `MCSpecialists` | the save offer stays the same after both kinds of trouble |

## 4. The proofs

TLAPS checks every step; the constants are arbitrary sets and numbers subject to
the named assumptions of their modules: sets are disjoint where a value of one could
be taken for one of another, tables have the types they have in the code, bounds are
numbers (`ConstantsOK`, `MaxCutsOK`, `ThreadAssumption`, and the like); the absence of
a reply is not a reply (`NoneIsNoReply`); a request names one of the seven agents and
counts hits by naturals (`RequestAssumption`); there are finitely many agents, a
decision names its agent and its number of steps, and "everyone" is no agent's name
(`TemplateAssumption`, `NameAssumption`, `SeedAssumption` of `ComplianceReport`). In
every module the argument is the same: an inductive invariant, in named parts that are
each explained where they are defined, holds initially, survives every action, and
implies the properties; then one temporal step.

**TriageServiceProofs, types and traces.** `TypeCorrect` needs `TypeInv`: the type invariant plus
`Placed` (a run in the graph has a thread and a message, a checkpoint with a next
node has a message, a resume in its first superstep has a verdict), because a
node reads what an earlier action left. `HumanVerdicts` and `GraphFollowed`
follow from `TraceInv`, which says of *every* trace in the system, in runs,
checkpoints, queued and recorded decisions, that its steps belong to started
messages, that verdicts in it are human, and that it is ordered; and of every run
and every checkpoint with a next node, that the trace ends where an edge leads to
that node (`At`). The last part is what makes it inductive although runs
overwrite each other's checkpoints: a resume may start from any checkpoint, and
whatever run wrote it, its trace fits its next node. `Owned` ties a running call
to its message, thread and verdict.

**TriageServiceProofs, replies.** For any overlap of calls and any faults.
`EscalatedHeld` needs `AnswerInv`: a run that has yet to reach its last node carries no
answer, and one routed to the responder carries no flag. This must hold of checkpoints
too, as a resume may take up any of them. `MemoryCoherent` needs `HeardInv`: a run past
the classifier, or a checkpoint from which one may be taken up, has its user turn in the
session's memory; that is why no interleaving writes an assistant turn first, and why a
restart, which forgets the memory, must forget the checkpoints as well. `TrailLeft`
counts: `TrailInv` says of every call that its queued and recorded decisions together
are one if it was answered and none otherwise, less the one it misses, and likewise of
its ledger entries. It needs two more parts: nobody is answered before the end, without
which a second answer could add a second decision, and nothing is missed of a call
without an answer, without which a call could be excused beforehand. A fault or a
restart excuses only the call whose store it struck.

**TriageServiceProofs, clients that wait.** Here clients wait for their reply (`MaxInFlight <= 1`), as
`ui/index.html` does; overlapping calls can break each of these properties (end of
section 3). `SerialInv`
says that a thread has one run in flight (`Alone`), that its checkpoint agrees with
the run (`InStep`), and that a triage call works on its own message: `OwnAnswers`
follows. `TicketInv` says that a message whose run or checkpoint stands before the
tool has no ticket: `OneTicket` follows, also when nodes raise. `HeldInv` says that
what is left to run on a thread without a run is an escalation, that its sender was
told to wait, and that no reply has carried a verdict on it. It needs that neither
`classify` nor `reflect` raises, and `FindingResumeDecidesPending` shows why: a raise
leaves a checkpoint that `/triage/resume` takes up. From it follow `ResumesDecide` and
`PromiseKept`, the refinement of `EscalationReview` with `StageOf` as refinement
mapping. The proof goes step by step: `StageRefuse`, `StageSubmit` (the message held
on the thread, and no other, gives way), `StageTold`, `StageDecided`, `StageCrash`;
all other steps stutter (`StageStutters`). `PlaceInv` says that a finished call either
was refused or failed, or has the thread that its stage is read from.

**DurableTriageProofs.** `DataInv` says that the workflow's history agrees with the
step it has come to, and that every attempt at an activity, also one given up long
ago, was given the classification that the history still holds. The second part
makes it inductive: a late attempt may still insert a ticket, so that attempts nobody
waits for must be covered. `TicketsFit` and `HistoryStanding` follow. `TroubleInv`
says that while nothing has gone wrong an activity has one attempt, the one the
server waits for; `DuplicatesTakeTrouble` follows.

**OrchestratorProofs.** For any calls, agents, routing table, number of steps and size
of the thread pool. `PostsInv` orders a call's posts (decision, steps, route, edge), one
on its way at a time unless given up; `FlowInv` says that the ids a call holds are those
of its own stored records and that its classification stands before anything is sent;
`RowsInv` that what was stored is on record as the call still knows it. `EdgesFit` and
`AnswersRecorded` follow. `OrdersInv` says of a decision's rows that their orders leave
none out and that those on time are in order, and of every order that a handler has read
and not yet inserted (`ReadNext`) that it leaves none out either, and is greater than
those of all rows on time unless its post was given up meanwhile. The last part is where
the gateway's one-at-a-time posting enters: a handler that runs beside another has lost
its sender. `OrdersAreDense` follows, for any number of steps and timeouts.
`SessionsInv` ties the memory of a session to the answers of its calls; whoever creates
a session came before every answer in it, unless calls overlapped
(`EarlierRepliesShown`).

**AuditLedgerProofs.** `LedgerInv` says that the first pieces of the lines form a
chain, that only the last line may be unreadable, that a missing newline was left
by an append that was cut short, and that a stored record is kept or is the
second piece of the last line. `ReadableChain`, `IntactComplete`, `OneLost` and
`AppendOnly` follow from it.

**RiskRegisterProofs.** For any risks, requests and bounds and for both storages.
`RegisterInv` says that what a request in hand, a status or a list of risks refers to
has been recorded (`CallOK`, `Backed`), and that the two tables hold what their names
say; `ReportsBacked` and the refinement `LifecycleKept` follow, the latter because
every step maps to `Identify`, `Record`, `Show` or a stutter. `LastWriteShown` needs
`WriteInv`: ids are given in the order of the rows, and with SQLite the last row of a
risk that is not torn may still wait for its status, but then belongs to the only
request for the risk under way. Without that part the invariant is not inductive: a
second request's status could overtake. `MatrixFits` needs `KeysInv`: no two
assessments have the same time or the same id, a transaction that has begun has a
stamp no other has, and every assessed risk has a newest assessment; the register and
the matrix, which choose it in different ways, then choose the same one, and the
assessments counted correspond to the risks one to one. In Postgres this supposes, as
the model does, that no two transactions for a risk start in the same microsecond:
`created_at` is `NOW()`, and the order of the two statements leaves a tie open.

**DeploymentGateProofs.** For any resolution of the clock and any instances. The
arithmetic of the cut clock comes first (`TruncateMonotone`, `TruncateSecond`). `RunInv`
says that no row is later than the newest run's last one and that each category the run
has come to has its row, from which `RiskNotUnderstated` and, with `CriticalEverywhere`
(a CRITICAL agent is CRITICAL in each category), the rows behind `CriticalProhibited`
follow. `LabelInv` orders the stamps by seconds as far as scripts wrote them, and says
that a tier of 4 or more *vouches* for the incidents it was computed over (`Vouched`):
with an unresolved critical one the score is at most 45, and the checklist ends at tier
3. `GateInv` says of a check on its way that every evidence it has read is still backed
by a row (`Backed`), that it noted a CRITICAL run, and, of one that said go, that the
level was an assessment's and the label is still there with the tier that level needs.
It survives whatever is committed between the ten reads since the record only grows;
that the evidence is read before the risk (the assessment it saw stays one) is what
keeps a go from an agent without a level. `GoesEvidenced`, `HighGoesVouched` and
`LabelsLagUnderASecond` follow.

**SpecialistsProofs.** For any calls, sessions, messages and requests, and any
interleaving of the making of the singleton and of its sessions. The weights of a
context are summed by `SumOf`, a fold; that the sum exists, is a natural number, does
not depend on the order and grows with the set is proved by taking a smallest
counterexample among the subsets of a finite set (`Least`, `SumEquation`,
`SumMonotone`). From it follows, agent by agent, `MoreContextNeverMilder`: of two
contexts, one of which goes on where the other ends, the longer gives no lower level and
no less confidence. The invariant then says what the answers were made from. `Placed`: a
thread that makes an orchestrator began before any call was over. `Shared`: a call whose
memory was not dropped works with the current singleton, as does every call begun after
it was over, and none of these creates its session again. `Replied`: every such answer
was made on a beginning of the memory that its session has there. `Remembered`: such a
call, once over, has a place of its own in that memory. So memory grows except where a
thread under way dropped it; a later call saw a longer beginning (`NeverMilder`), and in
it the decisions of those over before it began (`HeedsWarnings`). Neither race is
assumed away: both are actions, and a drop by a thread begun later than the answer would
violate the properties. The two properties are part of the invariant, since what they
say of calls that are over must survive the next ones. The attempt to prove
`WarningsHeeded` in its first form, a higher score whenever there was a warning, failed
for a reason: a message with every sign of fraud and a high amount scores 95, the cap,
out of the blue. The property says so, and the run has such a message.

**ComplianceReportProofs.** For any graph, policies, recordings and days. `Possible`
says what each of the seventy checks can return, whatever its queries count, which
makes a ceiling of 158 of 322 half weights: `ScoreCeiling` (49.1%), and `NeverAboveD`.
The sum over the catalogue is a recursive function; that it exists and grows with its
terms is proved by a smallest counterexample again. For `MetIsMet` the invariant says
that what the first query of a check saw is `Earlier` than what its scope holds now:
every decision is still there, at least as often, and no tally is lower (`GraphGrows`,
from one lemma per recording). Sums of counts then grow (`EarlierCounts`), and clause
by clause a requirement met of an early part and a late whole is met of the late graph
(`MetStays`); 8.5 and 10.3, whose quotient moves the other way, are the exceptions that
the property names. `OthersDoNotCount` is a fact about any two graphs: what a query
sees of one agent is a function of its own decisions and tallies, and each check,
three aside, of what is seen (`SameChecks`).

*Only model-checked:* the liveness properties `EveryCallSettles` and
`EveryCallAnswered` (of the durable path and of the orchestrator) and the orchestrator's
freedom from deadlock, as temporal formulas under fairness and what is enabled are
beyond the prover. Every invariant and every action property that a passing run checks,
and both refinements, are proved. *Only proved:* `OrdersDense`, for which an instance
with two calls and two steps is too large for a run.

## 5. What is left

### Not modelled

- *Session and language routing* (`_resolve_language`, the `ar_` prefix): a
  dictionary and a string test in front of the graph. `TriageService` takes the
  thread of a call as given, so what a session id that itself starts with `ar_` does
  is not covered.
- *The embedding loader* (`shared/embeddings.py`): a check, a lock, a check; the
  unlocked counterpart is in `Specialists`.
- *ProofLayer's queries*, replay, blame, search, lists and overviews: they read and
  present. The passport's ProofLayer profile and the SQLite storage of the
  `prooflayer-sdaia` scripts likewise.
- *The compliance summary and remediation list* run the same checks and present them
  otherwise; the PDF is layout.
- *The filters' regular expressions and the guard classifier* are text processing;
  their outcomes are in `TriageService`.
- *Observability decorators, seeding scripts, static pages, container and proxy
  configuration* keep no state that a protocol depends on.
