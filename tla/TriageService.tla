---------------------------- MODULE TriageService ----------------------------
(***************************************************************************)
(* The triage service: POST /triage and POST /triage/resume (app/main.py)  *)
(* over the LangGraph agent (app/agent_graph.py; app_ar/agent_graph.py has *)
(* the same control).                                                      *)
(*                                                                         *)
(* A call runs the graph one node per superstep.  Each superstep works on  *)
(* the run's own copy of the channel values and then overwrites the        *)
(* checkpoint of the thread, which calls of the same thread share.  Calls  *)
(* interleave between supersteps: nodes execute in a thread pool and the   *)
(* event loop serves other requests meanwhile.                             *)
(*                                                                         *)
(* A triage call is its own message, so "msg" is a member of Calls.  The   *)
(* confidence, the wording and the embedding of a message are left out.    *)
(***************************************************************************)
EXTENDS Naturals, Sequences, FiniteSets

CONSTANTS Calls,        \* POST /triage calls
          Resumes,      \* POST /triage/resume calls
          Threads,      \* checkpoint threads: one per agent and thread_id
          Labels,       \* what the classifier may return: pairs <<intent, needs_escalation>>
          Revisions,    \* the intents reflection may suggest instead
          Faults,       \* the failures that may happen, see FaultKinds
          MaxInFlight,  \* bound on the calls of one thread in flight together
          MaxRestarts,  \* bound on process restarts
          None

Callers == Calls \cup Resumes

(* "faq" stands for every intent answered by a lookup, "unknown" for       *)
(* greeting and unknown, which reflection skips and which use no tool.     *)
Intents == {"faq", "escalation", "unknown"}

Verdicts == {"approved", "declined"}

(* "ticket": the insert fails; "classify", "reflect": the node raises (on  *)
(* an LLM answer without content, on a confidence_adjustment that is no    *)
(* number); "precedent", "audit", "record": the best-effort store of that  *)
(* name fails; "schema": the output filter refuses the classifier's        *)
(* confidence.                                                             *)
FaultKinds == {"ticket", "classify", "reflect", "precedent", "audit", "record", "schema"}

ASSUME ConstantsOK ==
  /\ Calls \cap Resumes = {}
  /\ None \notin Callers \cup Threads \cup Verdicts
  /\ Labels \subseteq Intents \X BOOLEAN
  /\ Revisions \subseteq Intents
  /\ Faults \subseteq FaultKinds
  /\ MaxInFlight \in Nat
  /\ MaxRestarts \in Nat

VARIABLES
  pc,          \* the node a call executes next, or where it stands outside the graph
  thread,      \* the thread a call works on
  vals,        \* a run's private channel values (AgentState) while it is in flight
  verdict,     \* what a resume call carries in Command(resume=...)
  fresh,       \* resume calls still in their first superstep
  ckpt,        \* InMemorySaver: latest checkpoint per thread
  memory,      \* shared.memory: conversation turns per thread_id
  tickets,     \* support tickets inserted for a message (Postgres)
  precedents,  \* precedent rows stored for a message (Postgres)
  audited,     \* entries in the audit ledger for a triage call
  tasks,       \* record_decision background tasks of a call not yet run
  decisions,   \* Decision nodes of a call in the ProofLayer graph (Postgres)
  missed,      \* history: <<call, "decision" or "entry">> the store of which failed
               \* for this very call, or whose queued task a restart cut off
  reply,       \* the HTTP reply of a call
  restarts

stores == <<memory, tickets, precedents>>
records == <<audited, tasks, decisions, missed>>
vars == <<pc, thread, vals, verdict, fresh, ckpt, stores, records, reply, restarts>>

-----------------------------------------------------------------------------
(* Values *)

Nodes == {"classifier", "reflect", "tool_runner", "store_memory", "responder", "escalation"}
Busy == Nodes \cup {"returned"}

Step == [node : Nodes, msg : Calls, obs : {"ok"} \cup Verdicts]

Values == [msg : Calls \cup {None}, intent : Intents \cup {""}, effective : Intents \cup {""},
           esc : BOOLEAN, tool : {"", "lookup", "ticket", "claimed"},
           text : {"", "answer"} \cup Verdicts, steps : Seq(Step)]

Checkpoint == [next : Nodes \cup {"end"}, vals : Values]

Turn == [role : {"user", "assistant"}, msg : Calls]

Reply == [status : {200, 404, 422, 500}, interrupted : BOOLEAN,
          about : Calls \cup {None}, intent : Intents \cup {""}, esc : BOOLEAN,
          text : {"", "answer", "pending", "fallback"} \cup Verdicts]

ASSUME NoneIsNoReply == None \notin Reply

Decision == [call : Callers, about : Calls \cup {None}, override : BOOLEAN,
             intent : Intents \cup {""}, steps : Seq(Step)]

(* The dict a triage call hands to ainvoke.  trace_steps is reduced with   *)
(* operator.add, so the empty list in the input keeps the thread's steps.  *)
Input(m, steps) ==
  [msg |-> m, intent |-> "", effective |-> "", esc |-> FALSE, tool |-> "", text |-> "",
   steps |-> steps]

NoValues == Input(None, <<>>)

(* get_state of a thread nobody used: nothing next, no values. *)
NoCheckpoint == [next |-> "end", vals |-> NoValues]

Error(code) ==
  [status |-> code, interrupted |-> FALSE, about |-> None, intent |-> "", esc |-> FALSE,
   text |-> ""]

Init ==
  /\ pc = [c \in Callers |-> "idle"]
  /\ thread = [c \in Callers |-> None]
  /\ vals = [c \in Callers |-> NoValues]
  /\ verdict = [r \in Resumes |-> None]
  /\ fresh = {}
  /\ ckpt = [t \in Threads |-> NoCheckpoint]
  /\ memory = [t \in Threads |-> <<>>]
  /\ tickets = [m \in Calls |-> 0]
  /\ precedents = [m \in Calls |-> 0]
  /\ audited = [m \in Calls |-> 0]
  /\ tasks = [c \in Callers |-> <<>>]
  /\ decisions = [c \in Callers |-> <<>>]
  /\ missed = {}
  /\ reply = [c \in Callers |-> None]
  /\ restarts = 0

-----------------------------------------------------------------------------
(* The graph.  WithStep appends the trace step every node returns.         *)

(* Variant: the node returns all steps so far, which operator.add repeats. *)
WithStepsRepeated(v, node, obs) ==
  [v EXCEPT !.steps = @ \o Append(@, [node |-> node, msg |-> v.msg, obs |-> obs])]

WithStep(v, node, obs) ==
  [v EXCEPT !.steps = Append(@, [node |-> node, msg |-> v.msg, obs |-> obs])]

(* One superstep: node returned, the values and the next node are saved.   *)
(* A resume value is matched only against the superstep it arrived in.     *)
Superstep(c, v, next) ==
  /\ vals' = [vals EXCEPT ![c] = v]
  /\ ckpt' = [ckpt EXCEPT ![thread[c]] = [next |-> next, vals |-> v]]
  /\ pc' = [pc EXCEPT ![c] = IF next = "end" THEN "returned" ELSE next]
  /\ fresh' = fresh \ {c}
  /\ UNCHANGED <<thread, verdict, records, reply, restarts>>

Say(c, role) ==
  memory' = [memory EXCEPT ![thread[c]] = Append(@, [role |-> role, msg |-> vals[c].msg])]

(* classifier_node: the flag is the LLM's and need not fit the intent; an  *)
(* LLM or parse failure gives <<"unknown", FALSE>>.                        *)
Classify(c) ==
  /\ pc[c] = "classifier"
  /\ \E l \in Labels :
       Superstep(c, WithStep([vals[c] EXCEPT !.intent = l[1], !.effective = l[1], !.esc = l[2]],
                             "classifier", "ok"), "reflect")
  /\ Say(c, "user")
  /\ UNCHANGED <<tickets, precedents>>

(* A revision of the intent can raise needs_escalation and never clears it.*)
Revised(v, i) == [v EXCEPT !.effective = i, !.esc = (i = "escalation") \/ @]

(* What reflection_node may make of the values.  A revision that suggests  *)
(* no valid intent revises to the intent it was given.                     *)
Reviews(v) ==
  IF v.intent = "unknown" THEN {v}
  ELSE {v} \cup {Revised(v, i) : i \in Revisions \cup ({v.intent} \cap Intents)}

Reflect(c) ==
  /\ pc[c] = "reflect"
  /\ \E v \in Reviews(vals[c]) : Superstep(c, WithStep(v, "reflect", "ok"), "tool_runner")
  /\ UNCHANGED stores

(* A node raises: ainvoke propagates, the reply is a 500, and the          *)
(* checkpoint keeps the node as the next one.                              *)
NodeRaises(c) ==
  /\ \/ pc[c] = "classifier" /\ "classify" \in Faults
     \/ pc[c] = "reflect" /\ "reflect" \in Faults /\ vals[c].intent # "unknown"
  /\ pc' = [pc EXCEPT ![c] = "done"]
  /\ reply' = [reply EXCEPT ![c] = Error(500)]
  /\ vals' = [vals EXCEPT ![c] = NoValues]
  /\ fresh' = fresh \ {c}
  /\ UNCHANGED <<thread, verdict, ckpt, stores, records, restarts>>

(* tool_runner_node and ticket_lookup: the ticket is inserted here.  When  *)
(* the insert fails the reply still says that a ticket was created.        *)
RunTool(c) ==
  /\ pc[c] = "tool_runner"
  /\ \/ /\ vals[c].effective # "escalation"
        /\ Superstep(c, WithStep([vals[c] EXCEPT !.tool = "lookup"], "tool_runner", "ok"),
                     "store_memory")
        /\ UNCHANGED tickets
     \/ /\ vals[c].effective = "escalation"
        /\ Superstep(c, WithStep([vals[c] EXCEPT !.tool = "ticket"], "tool_runner", "ok"),
                     "store_memory")
        /\ tickets' = [tickets EXCEPT ![vals[c].msg] = @ + 1]
     \/ /\ vals[c].effective = "escalation" /\ "ticket" \in Faults
        /\ Superstep(c, WithStep([vals[c] EXCEPT !.tool = "claimed"], "tool_runner", "ok"),
                     "store_memory")
        /\ UNCHANGED tickets
  /\ UNCHANGED <<memory, precedents>>

(* Variant: route on the intent instead of the flag. *)
RouteOnIntent(v) == IF v.effective = "escalation" THEN "escalation" ELSE "responder"

RouteAfterMemory(v) == IF v.esc THEN "escalation" ELSE "responder"

StoreMemory(c) ==
  /\ pc[c] = "store_memory"
  /\ \/ precedents' = [precedents EXCEPT ![vals[c].msg] = @ + 1]
     \/ "precedent" \in Faults /\ UNCHANGED precedents
  /\ Superstep(c, WithStep(vals[c], "store_memory", "ok"), RouteAfterMemory(vals[c]))
  /\ Say(c, "assistant")
  /\ UNCHANGED tickets

Respond(c) ==
  /\ pc[c] = "responder"
  /\ Superstep(c, WithStep([vals[c] EXCEPT !.text = "answer"], "responder", "ok"), "end")
  /\ UNCHANGED stores

(* interrupt() has a value only in the superstep that a resume started. *)
HasVerdict(c) == c \in fresh

(* Variants: escalation completes by itself; the node waits in place. *)
InterruptNever(c) ==
  /\ pc[c] = "escalation" /\ ~HasVerdict(c)
  /\ Superstep(c, WithStep([vals[c] EXCEPT !.text = "approved"], "escalation", "approved"), "end")
  /\ UNCHANGED stores

InterruptInPlace(c) ==
  /\ pc[c] = "escalation" /\ ~HasVerdict(c)
  /\ UNCHANGED vars

(* escalation_node without a resume value: interrupt() suspends the run,   *)
(* ainvoke returns, and the checkpoint still has "escalation" as next.     *)
Interrupt(c) ==
  /\ pc[c] = "escalation" /\ ~HasVerdict(c)
  /\ pc' = [pc EXCEPT ![c] = "returned"]
  /\ UNCHANGED <<thread, vals, verdict, fresh, ckpt, stores, records, reply, restarts>>

(* Variants: the ticket is created once more on approval; the interrupt is *)
(* not consumed by the answer.                                             *)
ConcludeWithTicket(c) ==
  /\ pc[c] = "escalation" /\ HasVerdict(c)
  /\ Superstep(c, WithStep([vals[c] EXCEPT !.text = verdict[c]], "escalation", verdict[c]),
               "end")
  /\ tickets' = [tickets EXCEPT ![vals[c].msg] = @ + 1]
  /\ UNCHANGED <<memory, precedents>>

ConcludeKeepingInterrupt(c) ==
  /\ pc[c] = "escalation" /\ HasVerdict(c)
  /\ LET v == WithStep([vals[c] EXCEPT !.text = verdict[c]], "escalation", verdict[c]) IN
       /\ vals' = [vals EXCEPT ![c] = v]
       /\ ckpt' = [ckpt EXCEPT ![thread[c]] = [next |-> "escalation", vals |-> v]]
  /\ pc' = [pc EXCEPT ![c] = "returned"]
  /\ fresh' = fresh \ {c}
  /\ UNCHANGED <<thread, verdict, stores, records, reply, restarts>>

(* escalation_node with one: the human's answer becomes the response. *)
Conclude(c) ==
  /\ pc[c] = "escalation" /\ HasVerdict(c)
  /\ Superstep(c, WithStep([vals[c] EXCEPT !.text = verdict[c]], "escalation", verdict[c]),
               "end")
  /\ UNCHANGED stores

-----------------------------------------------------------------------------
(* POST /triage *)

InFlight(t) == {c \in Callers : thread[c] = t /\ pc[c] \in Busy}

(* The service itself bounds nothing.  MaxInFlight = 1 is a client that    *)
(* waits for its reply, as ui/index.html does by disabling the input.      *)
Admits(t) == Cardinality(InFlight(t)) < MaxInFlight

(* Variants: a new message clears the session memory; a new message lets a *)
(* pending run continue instead of replacing it.                           *)
StartTriageClearing(c, t) ==
  /\ pc[c] = "idle"
  /\ Admits(t)
  /\ LET v == Input(c, ckpt[t].vals.steps) IN
       /\ vals' = [vals EXCEPT ![c] = v]
       /\ ckpt' = [ckpt EXCEPT ![t] = [next |-> "classifier", vals |-> v]]
  /\ pc' = [pc EXCEPT ![c] = "classifier"]
  /\ thread' = [thread EXCEPT ![c] = t]
  /\ memory' = [memory EXCEPT ![t] = <<>>]
  /\ UNCHANGED <<verdict, fresh, tickets, precedents, records, reply, restarts>>

StartTriageContinuing(c, t) ==
  /\ pc[c] = "idle"
  /\ Admits(t)
  /\ LET s == IF ckpt[t].next # "end" THEN ckpt[t]
              ELSE [next |-> "classifier", vals |-> Input(c, ckpt[t].vals.steps)] IN
       /\ vals' = [vals EXCEPT ![c] = s.vals]
       /\ ckpt' = [ckpt EXCEPT ![t] = s]
       /\ pc' = [pc EXCEPT ![c] = s.next]
  /\ thread' = [thread EXCEPT ![c] = t]
  /\ UNCHANGED <<verdict, fresh, stores, records, reply, restarts>>

(* The message passes the filters and ainvoke(dict) starts a run: pending  *)
(* work of the thread's checkpoint is discarded, its steps are kept.       *)
StartTriage(c, t) ==
  /\ pc[c] = "idle"
  /\ Admits(t)
  /\ LET v == Input(c, ckpt[t].vals.steps) IN
       /\ vals' = [vals EXCEPT ![c] = v]
       /\ ckpt' = [ckpt EXCEPT ![t] = [next |-> "classifier", vals |-> v]]
  /\ pc' = [pc EXCEPT ![c] = "classifier"]
  /\ thread' = [thread EXCEPT ![c] = t]
  /\ UNCHANGED <<verdict, fresh, stores, records, reply, restarts>>

(* An empty message, a blocked one, or a suspected injection. *)
Refuse(c) ==
  /\ pc[c] = "idle"
  /\ pc' = [pc EXCEPT ![c] = "done"]
  /\ reply' = [reply EXCEPT ![c] = Error(422)]
  /\ UNCHANGED <<thread, vals, verdict, fresh, ckpt, stores, records, restarts>>

(* Variant: a pending interrupt is not reported. *)
TriageReplyWithoutNext(s) ==
  [status |-> 200, interrupted |-> FALSE, about |-> s.vals.msg, intent |-> s.vals.intent,
   esc |-> s.vals.esc, text |-> s.vals.text]

(* The reply is built from get_state, read after the await: it reports the *)
(* latest checkpoint of the thread, whichever run wrote it.                *)
TriageReply(s) ==
  IF s.next # "end"
  THEN [status |-> 200, interrupted |-> TRUE, about |-> s.vals.msg, intent |-> s.vals.intent,
        esc |-> TRUE, text |-> "pending"]
  ELSE [status |-> 200, interrupted |-> FALSE, about |-> s.vals.msg, intent |-> s.vals.intent,
        esc |-> s.vals.esc, text |-> s.vals.text]

Fallback(m) ==
  [status |-> 200, interrupted |-> FALSE, about |-> m, intent |-> "unknown", esc |-> FALSE,
   text |-> "fallback"]

DecisionOf(c, r, steps) ==
  [call |-> c, about |-> r.about, override |-> c \in Resumes, intent |-> r.intent,
   steps |-> steps]

(* Variant: the task is added by the language's handler and once more by   *)
(* the one that called it.                                                 *)
AnswerQueuedTwice(c, r, steps) ==
  /\ pc' = [pc EXCEPT ![c] = "done"]
  /\ reply' = [reply EXCEPT ![c] = r]
  /\ tasks' = [tasks EXCEPT ![c] = @ \o <<DecisionOf(c, r, steps), DecisionOf(c, r, steps)>>]
  /\ vals' = [vals EXCEPT ![c] = NoValues]
  /\ UNCHANGED <<thread, verdict, fresh, ckpt, stores, decisions, restarts>>

(* Return a 200: queue record_decision; the caller's audit wrapper comes   *)
(* next, in the same turn of the event loop.                               *)
Answer(c, r, steps) ==
  /\ pc' = [pc EXCEPT ![c] = "done"]
  /\ reply' = [reply EXCEPT ![c] = r]
  /\ tasks' = [tasks EXCEPT ![c] = Append(@, DecisionOf(c, r, steps))]
  /\ vals' = [vals EXCEPT ![c] = NoValues]
  /\ UNCHANGED <<thread, verdict, fresh, ckpt, stores, decisions, restarts>>

FinishTriage(c) ==
  /\ c \in Calls
  /\ pc[c] = "returned"
  /\ LET s == ckpt[thread[c]] IN
       \/ Answer(c, TriageReply(s), s.vals.steps)
       \/ /\ "schema" \in Faults /\ s.next = "end"
          /\ Answer(c, Fallback(s.vals.msg), s.vals.steps)
  /\ \/ audited' = [audited EXCEPT ![c] = @ + 1] /\ UNCHANGED missed
     \/ /\ "audit" \in Faults
        /\ missed' = missed \cup {<<c, "entry">>} /\ UNCHANGED audited

-----------------------------------------------------------------------------
(* POST /triage/resume *)

(* Variant: the handler does not check that anything is pending. *)
ResumableAlways(s) == TRUE

(* The guard of the handler: the thread has something left to execute. *)
Resumable(s) == s.next # "end"

(* ainvoke(Command(resume=approved)) executes the checkpoint's next node   *)
(* on the checkpoint's values, whichever node that is.                     *)
StartResume(r, t, approval) ==
  /\ pc[r] = "idle"
  /\ Admits(t)
  /\ Resumable(ckpt[t])
  /\ pc' = [pc EXCEPT ![r] = ckpt[t].next]
  /\ thread' = [thread EXCEPT ![r] = t]
  /\ vals' = [vals EXCEPT ![r] = ckpt[t].vals]
  /\ verdict' = [verdict EXCEPT ![r] = approval]
  /\ fresh' = fresh \cup {r}
  /\ UNCHANGED <<ckpt, stores, records, reply, restarts>>

NothingToResume(r, t) ==
  /\ pc[r] = "idle"
  /\ ~Resumable(ckpt[t])
  /\ pc' = [pc EXCEPT ![r] = "done"]
  /\ reply' = [reply EXCEPT ![r] = Error(404)]
  /\ UNCHANGED <<thread, vals, verdict, fresh, ckpt, stores, records, restarts>>

(* Unlike triage, resume answers from the values ainvoke returned. *)
ResumeReply(v) ==
  [status |-> 200, interrupted |-> FALSE, about |-> v.msg, intent |-> v.intent, esc |-> v.esc,
   text |-> v.text]

FinishResume(r) ==
  /\ r \in Resumes
  /\ pc[r] = "returned"
  /\ Answer(r, ResumeReply(vals[r]), vals[r].steps)
  /\ UNCHANGED <<audited, missed>>

-----------------------------------------------------------------------------
(* Background tasks and restarts *)

(* Variant: a task whose insert went through and then raised stays queued. *)
RecordDecisionAgain(c) ==
  /\ tasks[c] # <<>>
  /\ decisions' = [decisions EXCEPT ![c] = Append(@, Head(tasks[c]))]
  /\ \/ tasks' = [tasks EXCEPT ![c] = Tail(@)]
     \/ "record" \in Faults /\ UNCHANGED tasks
  /\ UNCHANGED <<pc, thread, vals, verdict, fresh, ckpt, stores, audited, missed, reply,
                 restarts>>

RecordDecision(c) ==
  /\ tasks[c] # <<>>
  /\ tasks' = [tasks EXCEPT ![c] = Tail(@)]
  /\ \/ decisions' = [decisions EXCEPT ![c] = Append(@, Head(tasks[c]))] /\ UNCHANGED missed
     \/ /\ "record" \in Faults
        /\ missed' = missed \cup {<<c, "decision">>} /\ UNCHANGED decisions
  /\ UNCHANGED <<pc, thread, vals, verdict, fresh, ckpt, stores, audited, reply, restarts>>

(* The process stops and starts again: checkpoints, session memory, runs   *)
(* and queued tasks are gone; what is in Postgres or the ledger stays.     *)
Restart ==
  /\ restarts < MaxRestarts
  /\ restarts' = restarts + 1
  /\ pc' = [c \in Callers |-> IF pc[c] \in Busy THEN "lost" ELSE pc[c]]
  /\ vals' = [c \in Callers |-> NoValues]
  /\ fresh' = {}
  /\ ckpt' = [t \in Threads |-> NoCheckpoint]
  /\ memory' = [t \in Threads |-> <<>>]
  /\ tasks' = [c \in Callers |-> <<>>]
  /\ missed' = missed \cup {<<c, "decision">> : c \in {c \in Callers : tasks[c] # <<>>}}
  /\ UNCHANGED <<thread, verdict, tickets, precedents, audited, decisions, reply>>

RunNode(c) ==
  \/ Classify(c) \/ Reflect(c) \/ NodeRaises(c) \/ RunTool(c) \/ StoreMemory(c)
  \/ Respond(c) \/ Interrupt(c) \/ Conclude(c)

Progress(c) == RunNode(c) \/ FinishTriage(c) \/ FinishResume(c)

Next ==
  \/ \E c \in Calls : Refuse(c)
  \/ \E c \in Calls, t \in Threads : StartTriage(c, t)
  \/ \E r \in Resumes, t \in Threads : NothingToResume(r, t)
  \/ \E r \in Resumes, t \in Threads, a \in Verdicts : StartResume(r, t, a)
  \/ \E c \in Callers : Progress(c)
  \/ \E c \in Callers : RecordDecision(c)
  \/ Restart

Spec == Init /\ [][Next]_vars

(* Nodes end: LLM calls and connections have timeouts and their failures   *)
(* are caught; the event loop runs every ready coroutine and queued task.  *)
(* Clients owe nothing, and neither does a restart.                        *)
FairSpec ==
  /\ Spec
  /\ \A c \in Callers : WF_vars(Progress(c))
  /\ \A c \in Callers : WF_vars(RecordDecision(c))

-----------------------------------------------------------------------------
(* Properties *)

TypeOK ==
  /\ pc \in [Callers -> Busy \cup {"idle", "done", "lost"}]
  /\ thread \in [Callers -> Threads \cup {None}]
  /\ vals \in [Callers -> Values]
  /\ verdict \in [Resumes -> Verdicts \cup {None}]
  /\ fresh \subseteq Resumes
  /\ ckpt \in [Threads -> Checkpoint]
  /\ memory \in [Threads -> Seq(Turn)]
  /\ tickets \in [Calls -> Nat]
  /\ precedents \in [Calls -> Nat]
  /\ audited \in [Calls -> Nat]
  /\ tasks \in [Callers -> Seq(Decision)]
  /\ decisions \in [Callers -> Seq(Decision)]
  /\ missed \subseteq Callers \X {"decision", "entry"}
  /\ reply \in [Callers -> Reply \cup {None}]
  /\ restarts \in 0..MaxRestarts

Answered(c) == reply[c] # None /\ reply[c].status = 200

(* Every trace the system holds: in a run, in a checkpoint, or recorded. *)
TracesOf(log) == {log[i].steps : i \in DOMAIN log}

Traces ==
  {vals[c].steps : c \in Callers} \cup {ckpt[t].vals.steps : t \in Threads}
    \cup UNION {TracesOf(tasks[c]) \cup TracesOf(decisions[c]) : c \in Callers}

(* No trace claims a verdict that no human gave: an escalation step that   *)
(* says approved or declined was produced on the thread of its message by  *)
(* a /triage/resume call carrying that verdict (escalation_node,           *)
(* triage_resume), however runs of the thread interleave.                  *)
ReviewedByHuman(step) ==
  step.obs \in Verdicts =>
    \E r \in Resumes : verdict[r] = step.obs /\ thread[r] = thread[step.msg]

VerdictsAreHuman == \A s \in Traces : \A i \in DOMAIN s : ReviewedByHuman(s[i])

(* A trace is a series of turns, each a prefix of the graph's edges for    *)
(* one message (build_triage_agent): no node is skipped, repeated or       *)
(* reordered inside a turn, and a new turn starts at the classifier, even  *)
(* when runs of the thread overwrite each other's checkpoints.             *)
Edges ==
  {<<"classifier", "reflect">>, <<"reflect", "tool_runner">>, <<"tool_runner", "store_memory">>,
   <<"store_memory", "responder">>, <<"store_memory", "escalation">>}

Follows(a, b) ==
  IF a.msg = b.msg THEN <<a.node, b.node>> \in Edges ELSE b.node = "classifier"

TracesFollowGraph ==
  \A s \in Traces :
    /\ s # <<>> => s[1].node = "classifier"
    /\ \A i \in 1 .. Len(s) - 1 : Follows(s[i], s[i + 1])

(* A message flagged needs_escalation is never answered by the responder:  *)
(* no reply to anyone carries a generated answer together with the flag    *)
(* (route_after_memory), unless the output filter replaced it whole.       *)
EscalatedNotAnswered ==
  \A c \in Callers : Answered(c) /\ reply[c].text = "answer" => ~reply[c].esc

(* The history later prompts are built from (to_context_block) is          *)
(* coherent: an assistant turn comes after the user turn of its message,   *)
(* whatever runs share the session and whatever a restart cut short.       *)
TurnsPaired ==
  \A t \in Threads : \A i \in DOMAIN memory[t] :
    memory[t][i].role = "assistant" =>
      \E j \in 1 .. i - 1 : memory[t][j] = [role |-> "user", msg |-> memory[t][i].msg]

(* The decisions that stand for a call, queued or recorded. *)
Trail(c) == tasks[c] \o decisions[c]

(* A 200 leaves its trail (triage, triage_resume, audit_record): exactly   *)
(* one decision, queued or recorded, that states what the reply stated,    *)
(* and exactly one ledger entry for a triage call; the call misses one     *)
(* only if the store failed for this very call, or a restart came between  *)
(* its reply and its task.  A call without a 200 leaves nothing.           *)
RepliesLeaveATrail ==
  \A c \in Callers :
    IF Answered(c)
    THEN /\ Len(Trail(c)) = IF <<c, "decision">> \in missed THEN 0 ELSE 1
         /\ \A i \in DOMAIN Trail(c) :
              Trail(c)[i].about = reply[c].about /\ Trail(c)[i].intent = reply[c].intent
         /\ c \in Calls => audited[c] = IF <<c, "entry">> \in missed THEN 0 ELSE 1
    ELSE Trail(c) = <<>> /\ (c \in Calls => audited[c] = 0)

(* The answer a client gets is the answer to the message it sent, although *)
(* triage reads the thread's latest checkpoint only after its await.       *)
ReplyIsForItsMessage == \A c \in Calls : Answered(c) => reply[c].about = c

(* The agent inserts at most one ticket per message. *)
AtMostOneTicket == \A m \in Calls : tickets[m] <= 1

(* /triage/resume answers 200 only for a message whose caller was told     *)
(* that it awaits approval, and its answer carries the human's verdict:    *)
(* "Approve/decline an escalation that's pending human review" (README).   *)
ResumeDecidesPending ==
  \A r \in Resumes : Answered(r) =>
    /\ reply[r].about \in Calls
    /\ Answered(reply[r].about) /\ reply[reply[r].about].interrupted
    /\ reply[r].text = verdict[r]

(* What has become of a message, read off the replies and the checkpoint   *)
(* of its thread: once held it stays held while the thread is still about  *)
(* it and no reply has carried a verdict.                                  *)
VerdictOn(m) == {reply[r].text : r \in {r \in Resumes : Answered(r) /\ reply[r].about = m}}

StageOf(m) ==
  CASE pc[m] = "idle" -> "new"
    [] pc[m] = "lost" -> "failed"
    [] pc[m] \in Busy -> "working"
    [] OTHER ->
         IF reply[m].status = 422 THEN "refused"
         ELSE IF reply[m].status = 500 THEN "failed"
         ELSE IF ~reply[m].interrupted THEN "answered"
         ELSE IF VerdictOn(m) # {} THEN CHOOSE v \in VerdictOn(m) : TRUE
         ELSE IF ckpt[thread[m]].vals.msg = m THEN "held"
         ELSE "dropped"

(* When clients wait for their replies and no node raises, the service     *)
(* keeps the promise of EscalationReview (triage, triage_resume): one      *)
(* outcome per message, decided by a human exactly when it was held.       *)
Review == INSTANCE EscalationReview WITH Messages <- Calls,
                                         stage <- [m \in Calls |-> StageOf(m)]

KeepsReviewPromise == Review!Spec

(* Every call that entered the graph is answered, or cut off by a restart, *)
(* and its queued decision is eventually taken up or lost with the process.*)
EveryCallSettles ==
  \A c \in Callers :
    /\ pc[c] \in Busy ~> pc[c] \in {"done", "lost"}
    /\ tasks[c] # <<>> ~> tasks[c] = <<>>

=============================================================================
