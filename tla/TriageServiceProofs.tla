------------------------- MODULE TriageServiceProofs -------------------------
(***************************************************************************)
(* Theorems about TriageService, for every number of calls, resumes and    *)
(* threads, every set of labels, revisions and faults.  In three parts:    *)
(*   1. types, and what a step may do, with any number of calls in flight  *)
(*      on a thread;                                                       *)
(*   2. what a client can rely on: what replies say, the session memory    *)
(*      later prompts are built from, the trail a reply leaves; however    *)
(*      the calls of a thread interleave;                                  *)
(*   3. what the service promises to clients that wait for their reply     *)
(*      (MaxInFlight is 1): the answer is to the message sent, a message   *)
(*      has at most one ticket and, when no node raises, the service       *)
(*      implements EscalationReview.                                       *)
(***************************************************************************)
EXTENDS TriageService, FiniteSetTheorems, TLAPS

-----------------------------------------------------------------------------
(* Part 1.  Types and steps.                                               *)

(* What types need beyond TypeOK: a call in flight has its thread and its  *)
(* message, so has a checkpoint with something left to run, and a resume   *)
(* value that may be consumed is a verdict.                                *)
Placed ==
  /\ \A c \in Callers : pc[c] \in Busy => thread[c] \in Threads /\ vals[c].msg \in Calls
  /\ \A t \in Threads : ckpt[t].next # "end" => ckpt[t].vals.msg \in Calls
  /\ \A r \in fresh : verdict[r] \in Verdicts

TypeInv == TypeOK /\ Placed

-----------------------------------------------------------------------------
(* Operators on values *)

(* A trace step is appended to typed values without touching the message.  *)
LEMMA WithStepType ==
  ASSUME NEW v \in Values, v.msg \in Calls, NEW node \in Nodes, NEW obs \in {"ok"} \cup Verdicts
  PROVE  /\ WithStep(v, node, obs) \in Values
         /\ WithStep(v, node, obs).msg = v.msg
         /\ WithStep(v, node, obs).steps
              = Append(v.steps, [node |-> node, msg |-> v.msg, obs |-> obs])
<1> DEFINE s == [node |-> node, msg |-> v.msg, obs |-> obs]
<1>1. s \in Step
  BY DEF Step
<1>2. v.steps \in Seq(Step)
  BY DEF Values
<1>3. Append(v.steps, s) \in Seq(Step)
  <2> HIDE DEF s
  <2> QED
    BY <1>1, <1>2
<1> QED
  BY <1>3 DEF WithStep, Values

(* The values a triage call starts from are typed. *)
LEMMA InputType ==
  ASSUME NEW m \in Calls \cup {None}, NEW s \in Seq(Step)
  PROVE  /\ Input(m, s) \in Values
         /\ Input(m, s).msg = m
         /\ Input(m, s).steps = s
BY DEF Input, Values

(* The values of an unused thread: well formed, of no message, no steps.   *)
LEMMA NoValuesType ==
  NoValues \in Values /\ NoValues.msg = None /\ NoValues.steps = <<>>
<1>1. <<>> \in Seq(Step)
  OBVIOUS
<1> QED
  BY <1>1, InputType DEF NoValues

(* A review keeps the message and the steps of the values. *)
LEMMA ReviewsType ==
  ASSUME NEW v \in Values, NEW w \in Reviews(v)
  PROVE  w \in Values /\ w.msg = v.msg /\ w.steps = v.steps
<1>1. CASE w = v
  BY <1>1
<1>2. CASE \E i \in Intents : w = Revised(v, i)
  BY <1>2 DEF Revised, Values
<1> QED
  BY <1>1, <1>2, ConstantsOK DEF Reviews

(* The reply of a resume call is typed, whatever its run left behind. *)
LEMMA ResumeReplyType ==
  ASSUME NEW v \in Values
  PROVE  ResumeReply(v) \in Reply
<1>1. v.msg \in Calls \cup {None} /\ v.intent \in Intents \cup {""} /\ v.esc \in BOOLEAN
  BY DEF Values
<1>2. v.text \in {"", "answer", "pending", "fallback"} \cup Verdicts
  BY DEF Values
<1>3. 200 \in {200, 404, 422, 500} /\ FALSE \in BOOLEAN
  OBVIOUS
<1> DEFINE s == {200, 404, 422, 500}
           t == {"", "answer", "pending", "fallback"} \cup Verdicts
           i == Intents \cup {""}
           b == BOOLEAN
<1>4. /\ 200 \in s /\ FALSE \in b
      /\ v.intent \in i /\ v.esc \in b /\ v.text \in t
  BY <1>1, <1>2, <1>3
<1>5. Reply = [status : s, interrupted : b, about : Calls \cup {None}, intent : i, esc : b,
               text : t]
  BY DEF Reply
<1> HIDE DEF s, t, i, b
<1> QED
  BY <1>1, <1>4, <1>5 DEF ResumeReply

-----------------------------------------------------------------------------
(* Type correctness *)

(* A service that has just started satisfies the strengthened type         *)
(* invariant.                                                              *)
LEMMA InitTyped == Init => TypeInv
<1> SUFFICES ASSUME Init PROVE TypeInv
  OBVIOUS
<1>1. NoCheckpoint \in Checkpoint /\ NoCheckpoint.next = "end"
  BY NoValuesType DEF NoCheckpoint, Checkpoint
<1>2. TypeOK
  BY <1>1, NoValuesType, ConstantsOK DEF Init, TypeOK, Callers
<1>3. Placed
  BY <1>1 DEF Init, Placed, Busy, Nodes
<1> QED
  BY <1>2, <1>3 DEF TypeInv

Stored ==
  memory \in [Threads -> Seq(Turn)] /\ tickets \in [Calls -> Nat] /\ precedents \in [Calls -> Nat]

(* A superstep that produced typed values, and left the stores typed, keeps *)
(* the types.                                                               *)
LEMMA SuperstepTyped ==
  ASSUME TypeInv, NEW c \in Callers, pc[c] \in Nodes,
         NEW v \in Values, v.msg \in Calls, NEW next \in Nodes \cup {"end"},
         Superstep(c, v, next), Stored'
  PROVE  TypeInv'
<1> USE DEF TypeInv
<1>1. thread[c] \in Threads
  BY DEF Placed, Busy
<1>2. [next |-> next, vals |-> v] \in Checkpoint
  BY DEF Checkpoint
<1>3. pc' \in [Callers -> Busy \cup {"idle", "done", "lost"}]
  BY DEF Superstep, TypeOK, Busy
<1>4. ckpt' \in [Threads -> Checkpoint]
  BY <1>1, <1>2 DEF Superstep, TypeOK
<1>5. Placed'
  <2>1. ASSUME NEW d \in Callers, pc'[d] \in Busy
        PROVE  thread'[d] \in Threads /\ vals'[d].msg \in Calls
    <3>1. CASE d = c
      BY <3>1, <1>1 DEF Superstep, TypeOK
    <3>2. CASE d # c
      BY <3>2, <2>1 DEF Superstep, TypeOK, Placed
    <3> QED
      BY <3>1, <3>2
  <2>2. ASSUME NEW t \in Threads, ckpt'[t].next # "end"
        PROVE  ckpt'[t].vals.msg \in Calls
    BY <2>2 DEF Superstep, TypeOK, Placed
  <2>3. ASSUME NEW r \in fresh'
        PROVE  verdict'[r] \in Verdicts
    BY DEF Superstep, TypeOK, Placed
  <2> QED
    BY <2>1, <2>2, <2>3 DEF Placed
<1> QED
  BY <1>3, <1>4, <1>5 DEF Superstep, TypeOK, Stored, records

(* The session memory stays typed when a run says its line. *)
LEMMA SayTyped ==
  ASSUME TypeInv, NEW c \in Callers, pc[c] \in Nodes, NEW role \in {"user", "assistant"},
         Say(c, role)
  PROVE  memory' \in [Threads -> Seq(Turn)]
<1> DEFINE turn == [role |-> role, msg |-> vals[c].msg]
<1>1. thread[c] \in Threads /\ vals[c].msg \in Calls
  BY DEF TypeInv, Placed, Busy
<1>2. turn \in Turn
  BY <1>1 DEF Turn
<1>3. memory[thread[c]] \in Seq(Turn) /\ memory \in [Threads -> Seq(Turn)]
  BY <1>1 DEF TypeInv, TypeOK
<1>4. Append(memory[thread[c]], turn) \in Seq(Turn)
  <2> HIDE DEF turn
  <2> QED
    BY <1>2, <1>3
<1> QED
  BY <1>1, <1>3, <1>4 DEF Say

(* Counting one more, and logging one more, keeps the types. *)
LEMMA CountTyped ==
  ASSUME NEW S, NEW count \in [S -> Nat], NEW x \in S
  PROVE  [count EXCEPT ![x] = @ + 1] \in [S -> Nat]
OBVIOUS

LEMMA LogTyped ==
  ASSUME NEW S, NEW E, NEW log \in [S -> Seq(E)], NEW x \in S, NEW e \in E
  PROVE  [log EXCEPT ![x] = Append(@, e)] \in [S -> Seq(E)]
<1>1. Append(log[x], e) \in Seq(E)
  OBVIOUS
<1> QED
  BY <1>1

(* Every node keeps the types. *)
LEMMA RunNodeTyped ==
  ASSUME TypeInv, NEW c \in Callers, RunNode(c)
  PROVE  TypeInv'
<1> USE DEF TypeInv
<1>1. pc[c] \in Nodes
  BY DEF RunNode, Nodes, Classify, Reflect, NodeRaises, RunTool, StoreMemory, Respond,
         Interrupt, Conclude
<1>2. vals[c] \in Values /\ vals[c].msg \in Calls
  BY <1>1 DEF TypeOK, Placed, Busy
<1>3. CASE Classify(c)
  <2>1. PICK l \in Labels :
          Superstep(c, WithStep([vals[c] EXCEPT !.intent = l[1], !.effective = l[1],
                                                !.esc = l[2]], "classifier", "ok"), "reflect")
    BY <1>3 DEF Classify
  <2> DEFINE w == [vals[c] EXCEPT !.intent = l[1], !.effective = l[1], !.esc = l[2]]
  <2>2. l[1] \in Intents /\ l[2] \in BOOLEAN
    BY ConstantsOK
  <2>3. w \in Values /\ w.msg \in Calls
    BY <1>2, <2>2 DEF Values
  <2> HIDE DEF w
  <2>4. WithStep(w, "classifier", "ok") \in Values
        /\ WithStep(w, "classifier", "ok").msg \in Calls
    BY <2>3, WithStepType DEF Nodes
  <2>5. Superstep(c, WithStep(w, "classifier", "ok"), "reflect")
    BY <2>1 DEF w
  <2>6. memory' \in [Threads -> Seq(Turn)]
    BY <1>1, <1>3, SayTyped DEF Classify
  <2> QED
    <3>1. Stored'
      BY <1>3, <2>6 DEF Stored, TypeOK, Classify
    <3> QED
      BY <1>1, <2>4, <2>5, <3>1, SuperstepTyped DEF Nodes
<1>4. CASE Reflect(c)
  <2>1. PICK v \in Reviews(vals[c]) : Superstep(c, WithStep(v, "reflect", "ok"), "tool_runner")
    BY <1>4 DEF Reflect
  <2>2. v \in Values /\ v.msg \in Calls
    BY <1>2, ReviewsType
  <2>3. WithStep(v, "reflect", "ok") \in Values /\ WithStep(v, "reflect", "ok").msg \in Calls
    BY <2>2, WithStepType DEF Nodes
  <2> QED
    <3>1. Stored'
      BY <1>4 DEF Stored, TypeOK, Reflect, stores
    <3> QED
      BY <1>1, <2>1, <2>3, <3>1, SuperstepTyped DEF Nodes
<1>5. CASE NodeRaises(c)
  <2>1. Error(500) \in Reply
    BY DEF Error, Reply
  <2>2. Placed'
    BY <1>5 DEF NodeRaises, Placed, TypeOK, Busy, Nodes
  <2> QED
    BY <1>5, <2>1, <2>2, NoValuesType DEF NodeRaises, TypeOK, stores, records
<1>6. CASE RunTool(c)
  <2>1. PICK tool \in {"lookup", "ticket", "claimed"} :
          Superstep(c, WithStep([vals[c] EXCEPT !.tool = tool], "tool_runner", "ok"),
                    "store_memory")
    BY <1>6 DEF RunTool
  <2> DEFINE w == [vals[c] EXCEPT !.tool = tool]
  <2>2. w \in Values /\ w.msg \in Calls
    BY <1>2 DEF Values
  <2> HIDE DEF w
  <2>3. WithStep(w, "tool_runner", "ok") \in Values
        /\ WithStep(w, "tool_runner", "ok").msg \in Calls
    BY <2>2, WithStepType DEF Nodes
  <2>4. Superstep(c, WithStep(w, "tool_runner", "ok"), "store_memory")
    BY <2>1 DEF w
  <2>5. tickets' \in [Calls -> Nat]
    <3>1. PICK x \in Calls : tickets' = tickets \/ tickets' = [tickets EXCEPT ![x] = @ + 1]
      BY <1>2, <1>6 DEF RunTool
    <3>2. tickets \in [Calls -> Nat]
      BY DEF TypeOK
    <3> QED
      BY <3>1, <3>2, CountTyped
  <2> QED
    <3>1. Stored'
      BY <1>6, <2>5 DEF Stored, TypeOK, RunTool
    <3> QED
      BY <1>1, <2>3, <2>4, <3>1, SuperstepTyped DEF Nodes
<1>7. CASE StoreMemory(c)
  <2>1. WithStep(vals[c], "store_memory", "ok") \in Values
        /\ WithStep(vals[c], "store_memory", "ok").msg \in Calls
    BY <1>2, WithStepType DEF Nodes
  <2>2. RouteAfterMemory(vals[c]) \in Nodes \cup {"end"}
    BY DEF RouteAfterMemory, Nodes
  <2>3. Superstep(c, WithStep(vals[c], "store_memory", "ok"), RouteAfterMemory(vals[c]))
    BY <1>7 DEF StoreMemory
  <2>4. memory' \in [Threads -> Seq(Turn)]
    BY <1>1, <1>7, SayTyped DEF StoreMemory
  <2>5. precedents' \in [Calls -> Nat]
    <3>1. PICK x \in Calls : precedents' = precedents \/ precedents' = [precedents EXCEPT ![x] = @ + 1]
      BY <1>2, <1>7 DEF StoreMemory
    <3>2. precedents \in [Calls -> Nat]
      BY DEF TypeOK
    <3> QED
      BY <3>1, <3>2, CountTyped
  <2> QED
    <3>1. Stored'
      BY <1>7, <2>4, <2>5 DEF Stored, TypeOK, StoreMemory
    <3> QED
      BY <1>1, <2>1, <2>2, <2>3, <3>1, SuperstepTyped
<1>8. CASE Respond(c)
  <2> DEFINE w == [vals[c] EXCEPT !.text = "answer"]
  <2>1. w \in Values /\ w.msg \in Calls
    BY <1>2 DEF Values
  <2>2. Superstep(c, WithStep(w, "responder", "ok"), "end")
    BY <1>8 DEF Respond
  <2> HIDE DEF w
  <2>3. WithStep(w, "responder", "ok") \in Values /\ WithStep(w, "responder", "ok").msg \in Calls
    BY <2>1, WithStepType DEF Nodes
  <2> QED
    <3>1. Stored'
      BY <1>8 DEF Stored, TypeOK, Respond, stores
    <3> QED
      BY <1>1, <2>2, <2>3, <3>1, SuperstepTyped
<1>9. CASE Interrupt(c)
  <2>1. Placed'
    BY <1>1, <1>9 DEF Interrupt, Placed, TypeOK, Busy
  <2> QED
    BY <1>9, <2>1 DEF Interrupt, TypeOK, Busy, stores, records
<1>10. CASE Conclude(c)
  <2>1. verdict[c] \in Verdicts
    BY <1>10 DEF Conclude, HasVerdict, Placed
  <2> DEFINE w == [vals[c] EXCEPT !.text = verdict[c]]
  <2>2. w \in Values /\ w.msg \in Calls
    BY <1>2, <2>1 DEF Values
  <2>3. Superstep(c, WithStep(w, "escalation", verdict[c]), "end")
    BY <1>10 DEF Conclude
  <2> HIDE DEF w
  <2>4. WithStep(w, "escalation", verdict[c]) \in Values
        /\ WithStep(w, "escalation", verdict[c]).msg \in Calls
    BY <2>1, <2>2, WithStepType DEF Nodes
  <2> QED
    <3>1. Stored'
      BY <1>10 DEF Stored, TypeOK, Conclude, stores
    <3> QED
      BY <1>1, <2>3, <2>4, <3>1, SuperstepTyped
<1> QED
  BY <1>3, <1>4, <1>5, <1>6, <1>7, <1>8, <1>9, <1>10 DEF RunNode

(* Building a reply and queueing its decision keeps the types. *)
LEMMA AnswerTyped ==
  ASSUME TypeInv, NEW c \in Callers, NEW r \in Reply, NEW s \in Seq(Step), Answer(c, r, s),
         audited' \in [Calls -> Nat], missed' \subseteq Callers \X {"decision", "entry"}
  PROVE  TypeInv'
<1> USE DEF TypeInv
<1>1. DecisionOf(c, r, s) \in Decision
  <2>1. r.about \in Calls \cup {None} /\ r.intent \in Intents \cup {""}
    BY ZenonT(60) DEF Reply
  <2>2. (c \in Resumes) \in BOOLEAN
    OBVIOUS
  <2> QED
    BY <2>1, <2>2 DEF DecisionOf, Decision
<1>2. Placed'
  BY DEF Answer, Placed, TypeOK, Busy, Nodes
<1>3. tasks' \in [Callers -> Seq(Decision)]
  <2>1. PICK d \in Decision : tasks' = [tasks EXCEPT ![c] = Append(@, d)]
    BY <1>1 DEF Answer
  <2> QED
    BY <2>1, LogTyped DEF TypeOK
<1> QED
  BY <1>2, <1>3, NoValuesType DEF Answer, TypeOK, stores

(* No step of a handler, a node, a background task or a restart breaks it. *)
LEMMA TypedStep ==
  ASSUME TypeInv, [Next]_vars
  PROVE  TypeInv'
<1> USE DEF TypeInv
<1>1. ASSUME NEW c \in Calls, Refuse(c)
      PROVE  TypeInv'
  <2>1. Error(422) \in Reply /\ c \in Callers
    BY DEF Error, Reply, Callers
  <2>2. Placed'
    BY <1>1 DEF Refuse, Placed, TypeOK, Busy, Nodes
  <2> QED
    BY <1>1, <2>1, <2>2 DEF Refuse, TypeOK, stores, records
<1>2. ASSUME NEW c \in Calls, NEW t \in Threads, StartTriage(c, t)
      PROVE  TypeInv'
  <2> DEFINE v == Input(c, ckpt[t].vals.steps)
  <2>1. ckpt[t].vals.steps \in Seq(Step) /\ c \in Callers /\ c \notin Resumes
    BY ConstantsOK DEF TypeOK, Checkpoint, Values, Callers
  <2>2. v \in Values /\ v.msg = c
    BY <2>1, InputType
  <2>3. /\ vals' = [vals EXCEPT ![c] = v]
        /\ ckpt' = [ckpt EXCEPT ![t] = [next |-> "classifier", vals |-> v]]
        /\ pc' = [pc EXCEPT ![c] = "classifier"]
        /\ thread' = [thread EXCEPT ![c] = t]
        /\ UNCHANGED <<verdict, fresh, stores, records, reply, restarts>>
    BY <1>2 DEF StartTriage
  <2> HIDE DEF v
  <2>4. [next |-> "classifier", vals |-> v] \in Checkpoint
    BY <2>2 DEF Checkpoint, Nodes
  <2>5. Placed'
    BY <2>1, <2>2, <2>3 DEF Placed, TypeOK
  <2> QED
    BY <2>1, <2>2, <2>3, <2>4, <2>5 DEF TypeOK, Busy, Nodes, stores, records
<1>3. ASSUME NEW r \in Resumes, NEW t \in Threads, NothingToResume(r, t)
      PROVE  TypeInv'
  <2>1. Error(404) \in Reply /\ r \in Callers
    BY DEF Error, Reply, Callers
  <2>2. Placed'
    BY <1>3 DEF NothingToResume, Placed, TypeOK, Busy, Nodes
  <2> QED
    BY <1>3, <2>1, <2>2 DEF NothingToResume, TypeOK, stores, records
<1>4. ASSUME NEW r \in Resumes, NEW t \in Threads, NEW a \in Verdicts, StartResume(r, t, a)
      PROVE  TypeInv'
  <2>1. ckpt[t] \in Checkpoint /\ ckpt[t].next # "end" /\ r \in Callers
    BY <1>4 DEF StartResume, Resumable, TypeOK, Callers
  <2>2. ckpt[t].next \in Nodes /\ ckpt[t].vals \in Values /\ ckpt[t].vals.msg \in Calls
    BY <2>1 DEF Checkpoint, Placed
  <2>3. Placed'
    BY <1>4, <2>1, <2>2 DEF StartResume, Placed, TypeOK
  <2> QED
    BY <1>4, <2>1, <2>2, <2>3 DEF StartResume, TypeOK, Busy, stores, records
<1>5. ASSUME NEW c \in Callers, RunNode(c)
      PROVE  TypeInv'
  BY <1>5, RunNodeTyped
<1>6. ASSUME NEW c \in Callers, FinishTriage(c)
      PROVE  TypeInv'
  <2>1. audited' \in [Calls -> Nat] /\ missed' \subseteq Callers \X {"decision", "entry"}
    BY <1>6, CountTyped DEF FinishTriage, TypeOK
  <2>2. ckpt[thread[c]] \in Checkpoint
    BY <1>6 DEF FinishTriage, Placed, TypeOK, Busy
  <2>3. ckpt[thread[c]].vals \in Values
    BY <2>2 DEF Checkpoint
  <2>4. TriageReply(ckpt[thread[c]]) \in Reply
    BY <2>3 DEF TriageReply, Reply, Values
  <2>5. ckpt[thread[c]].vals.steps \in Seq(Step)
    BY <2>3 DEF Values
  <2>6. Fallback(ckpt[thread[c]].vals.msg) \in Reply
    BY <2>3 DEF Fallback, Reply, Values, Intents
  <2> QED
    BY <1>6, <2>1, <2>4, <2>5, <2>6, AnswerTyped DEF FinishTriage
<1>7. ASSUME NEW r \in Callers, FinishResume(r)
      PROVE  TypeInv'
  <2>1. vals[r] \in Values
    BY DEF TypeOK
  <2>2. ResumeReply(vals[r]) \in Reply /\ vals[r].steps \in Seq(Step)
    BY <2>1, ResumeReplyType DEF Values
  <2> QED
    BY <1>7, <2>2, AnswerTyped DEF FinishResume, TypeOK
<1>8. ASSUME NEW c \in Callers, RecordDecision(c)
      PROVE  TypeInv'
  <2>1. tasks[c] \in Seq(Decision) /\ tasks[c] # <<>>
    BY <1>8 DEF RecordDecision, TypeOK
  <2>2. Head(tasks[c]) \in Decision /\ Tail(tasks[c]) \in Seq(Decision)
    BY <2>1
  <2>3. tasks' \in [Callers -> Seq(Decision)]
    BY <1>8, <2>2 DEF RecordDecision, TypeOK
  <2>4. decisions' \in [Callers -> Seq(Decision)]
    <3>1. PICK d \in Decision : d = Head(tasks[c])
      BY <2>2
    <3>2. decisions' = decisions \/ decisions' = [decisions EXCEPT ![c] = Append(@, d)]
      BY <1>8, <3>1 DEF RecordDecision
    <3>3. decisions \in [Callers -> Seq(Decision)]
      BY DEF TypeOK
    <3>4. [decisions EXCEPT ![c] = Append(@, d)] \in [Callers -> Seq(Decision)]
      BY Zenon, <3>3, LogTyped
    <3> QED
      BY <3>2, <3>3, <3>4
  <2>5. missed' \subseteq Callers \X {"decision", "entry"}
    BY <1>8 DEF RecordDecision, TypeOK
  <2> QED
    BY <1>8, <2>3, <2>4, <2>5 DEF RecordDecision, TypeOK, Placed, stores
<1>9. CASE Restart
  <2>1. NoCheckpoint \in Checkpoint /\ NoCheckpoint.next = "end"
    BY NoValuesType DEF NoCheckpoint, Checkpoint
  <2>2. Placed'
    BY <1>9, <2>1 DEF Restart, Placed, TypeOK, Busy, Nodes
  <2>3. pc' \in [Callers -> Busy \cup {"idle", "done", "lost"}]
    BY <1>9 DEF Restart, TypeOK
  <2>4. restarts' \in 0..MaxRestarts
    BY <1>9, ConstantsOK DEF Restart, TypeOK
  <2>5. missed' \subseteq Callers \X {"decision", "entry"}
    BY <1>9 DEF Restart, TypeOK
  <2>6. tasks' \in [Callers -> Seq(Decision)]
    BY <1>9 DEF Restart
  <2> QED
    BY <1>9, <2>1, <2>2, <2>3, <2>4, <2>5, <2>6, NoValuesType DEF Restart, TypeOK
<1>10. CASE UNCHANGED vars
  BY <1>10 DEF vars, stores, records, TypeOK, Placed
<1> QED
  BY <1>1, <1>2, <1>3, <1>4, <1>5, <1>6, <1>7, <1>8, <1>9, <1>10 DEF Next, Progress

(* Every variable keeps its type, and every run in flight has a thread and *)
(* a message, whatever calls interleave, fail or are cut off.              *)
THEOREM Typed == Spec => []TypeInv
<1>1. Init => TypeInv
  BY InitTyped
<1>2. TypeInv /\ [Next]_vars => TypeInv'
  BY TypedStep
<1> QED
  BY <1>1, <1>2, PTL DEF Spec

(* Every store, checkpoint, run and reply keeps its type, for any number   *)
(* of calls, threads and restarts.                                         *)
THEOREM TypeCorrect == Spec => []TypeOK
<1>1. TypeInv => TypeOK
  BY DEF TypeInv
<1> QED
  BY <1>1, Typed, PTL

-----------------------------------------------------------------------------
(* The traces                                                              *)
(*                                                                         *)
(* VerdictsAreHuman and TracesFollowGraph speak of whole traces.  What is  *)
(* inductive says in addition where a run stands: its message is a call    *)
(* of its own thread, and the last step of its trace leads to the node it  *)
(* executes next.                                                          *)

Owned ==
  /\ \A c \in Callers : vals[c].msg \in Calls =>
       pc[vals[c].msg] # "idle" /\ thread[vals[c].msg] = thread[c]
  /\ \A t \in Threads : ckpt[t].vals.msg \in Calls =>
       pc[ckpt[t].vals.msg] # "idle" /\ thread[ckpt[t].vals.msg] = t
  /\ \A r \in Resumes : verdict[r] \in Verdicts => pc[r] # "idle"

Known(s) == \A i \in DOMAIN s : pc[s[i].msg] # "idle" /\ ReviewedByHuman(s[i])

Ordered(s) ==
  /\ s # <<>> => s[1].node = "classifier"
  /\ \A i \in 1 .. Len(s) - 1 : Follows(s[i], s[i + 1])

At(v, next) ==
  IF next = "classifier"
  THEN \A i \in DOMAIN v.steps : v.steps[i].msg # v.msg
  ELSE /\ Len(v.steps) > 0
       /\ v.steps[Len(v.steps)].msg = v.msg
       /\ <<v.steps[Len(v.steps)].node, next>> \in Edges

TraceInv ==
  /\ Owned
  /\ \A s \in Traces : Known(s) /\ Ordered(s)
  /\ \A c \in Callers : pc[c] \in Nodes => At(vals[c], pc[c])
  /\ \A t \in Threads : ckpt[t].next # "end" => At(ckpt[t].vals, ckpt[t].next)

(* Every trace is a sequence of steps, before and after a step.            *)
LEMMA TracesType ==
  ASSUME TypeOK, NEW s \in Traces
  PROVE  s \in Seq(Step)
<1>1. ASSUME NEW c \in Callers PROVE vals[c].steps \in Seq(Step)
  BY DEF TypeOK, Values
<1>2. ASSUME NEW t \in Threads PROVE ckpt[t].vals.steps \in Seq(Step)
  <2>1. ckpt[t].vals \in Values
    BY DEF TypeOK, Checkpoint
  <2> QED
    BY <2>1 DEF Values
<1>3. ASSUME NEW log \in Seq(Decision), s \in TracesOf(log) PROVE s \in Seq(Step)
  <2>1. PICK i \in DOMAIN log : s = log[i].steps
    BY <1>3 DEF TracesOf
  <2>2. log[i] \in Decision
    BY <2>1
  <2> QED
    BY <2>1, <2>2 DEF Decision
<1>4. \A c \in Callers : tasks[c] \in Seq(Decision) /\ decisions[c] \in Seq(Decision)
  BY DEF TypeOK
<1> QED
  BY <1>1, <1>2, <1>3, <1>4 DEF Traces

(* What queueing and taking up a decision make of the traces of a log.     *)
LEMMA LogTraces ==
  /\ TracesOf(<<>>) = {}
  /\ \A log \in Seq(Decision), d \in Decision :
       TracesOf(Append(log, d)) = TracesOf(log) \cup {d.steps}
  /\ \A log \in Seq(Decision) : log # <<>> =>
       TracesOf(Tail(log)) \subseteq TracesOf(log) /\ Head(log).steps \in TracesOf(log)
<1>1. TracesOf(<<>>) = {}
  BY DEF TracesOf
<1>2. ASSUME NEW log \in Seq(Decision), NEW d \in Decision
      PROVE  TracesOf(Append(log, d)) = TracesOf(log) \cup {d.steps}
  <2>1. /\ DOMAIN Append(log, d) = 1 .. Len(log) + 1 /\ DOMAIN log = 1 .. Len(log)
        /\ Append(log, d)[Len(log) + 1] = d
        /\ \A i \in 1 .. Len(log) : Append(log, d)[i] = log[i]
        /\ Len(log) \in Nat
    OBVIOUS
  <2>2. TracesOf(Append(log, d)) \subseteq TracesOf(log) \cup {d.steps}
    BY <2>1 DEF TracesOf
  <2>3. TracesOf(log) \subseteq TracesOf(Append(log, d))
    BY <2>1 DEF TracesOf
  <2>4. d.steps \in TracesOf(Append(log, d))
    BY <2>1 DEF TracesOf
  <2> QED
    BY <2>2, <2>3, <2>4
<1>3. ASSUME NEW log \in Seq(Decision), log # <<>>
      PROVE  TracesOf(Tail(log)) \subseteq TracesOf(log) /\ Head(log).steps \in TracesOf(log)
  <2>1. /\ DOMAIN Tail(log) = 1 .. Len(log) - 1 /\ DOMAIN log = 1 .. Len(log)
        /\ \A i \in 1 .. Len(log) - 1 : Tail(log)[i] = log[i + 1]
        /\ Len(log) \in Nat /\ Len(log) # 0 /\ Head(log) = log[1]
    BY <1>3
  <2> QED
    BY <2>1 DEF TracesOf
<1> QED
  BY <1>1, <1>2, <1>3

(* A call that has started stays on its thread, and a resume call keeps    *)
(* the verdict it carries: what ReviewedByHuman relies on.                 *)
LEMMA Settled ==
  ASSUME TypeInv, Owned, [Next]_vars
  PROVE  /\ \A c \in Callers : pc[c] # "idle" => pc'[c] # "idle" /\ thread'[c] = thread[c]
         /\ \A r \in Resumes : verdict[r] \in Verdicts =>
              pc'[r] # "idle" /\ verdict'[r] = verdict[r]
<1> USE DEF TypeInv
<1>1. ASSUME NEW c \in Calls, Refuse(c)
      PROVE  /\ \A d \in Callers : pc[d] # "idle" => pc'[d] # "idle" /\ thread'[d] = thread[d]
             /\ verdict' = verdict
  BY <1>1 DEF Refuse, TypeOK
<1>2. ASSUME NEW c \in Calls, NEW t \in Threads, StartTriage(c, t)
      PROVE  /\ \A d \in Callers : pc[d] # "idle" => pc'[d] # "idle" /\ thread'[d] = thread[d]
             /\ verdict' = verdict
  BY <1>2 DEF StartTriage, TypeOK
<1>3. ASSUME NEW r \in Resumes, NEW t \in Threads, NothingToResume(r, t)
      PROVE  /\ \A d \in Callers : pc[d] # "idle" => pc'[d] # "idle" /\ thread'[d] = thread[d]
             /\ verdict' = verdict
  BY <1>3 DEF NothingToResume, TypeOK
<1>4. ASSUME NEW r \in Resumes, NEW t \in Threads, NEW a \in Verdicts, StartResume(r, t, a)
      PROVE  /\ \A d \in Callers : pc[d] # "idle" => pc'[d] # "idle" /\ thread'[d] = thread[d]
             /\ \A q \in Resumes : verdict[q] \in Verdicts => verdict'[q] = verdict[q]
  <2>1. ckpt[t].next \in Nodes /\ pc[r] = "idle"
    BY <1>4 DEF StartResume, Resumable, TypeOK, Checkpoint
  <2>2. verdict[r] \notin Verdicts
    BY <2>1 DEF Owned
  <2> QED
    BY <1>4, <2>1, <2>2 DEF StartResume, TypeOK, Nodes, Owned
<1>5. ASSUME NEW c \in Callers, Progress(c)
      PROVE  /\ \A d \in Callers : pc[d] # "idle" => pc'[d] # "idle" /\ thread'[d] = thread[d]
             /\ verdict' = verdict
  BY <1>5 DEF Progress, RunNode, Classify, Reflect, NodeRaises, RunTool, StoreMemory, Respond,
              Interrupt, Conclude, FinishTriage, FinishResume, Answer, Superstep, TypeOK,
              RouteAfterMemory
<1>6. ASSUME NEW c \in Callers, RecordDecision(c)
      PROVE  pc' = pc /\ thread' = thread /\ verdict' = verdict
  BY <1>6 DEF RecordDecision
<1>7. CASE Restart
  BY <1>7 DEF Restart, TypeOK, Owned, Callers
<1>8. CASE UNCHANGED vars
  BY <1>8 DEF vars, Owned
<1> QED
  BY <1>1, <1>2, <1>3, <1>4, <1>5, <1>6, <1>7, <1>8 DEF Next, Owned, Callers

(* A trace known before a step is known after it.                          *)
LEMMA KnownStable ==
  ASSUME TypeInv, Owned, [Next]_vars, NEW s \in Seq(Step), Known(s)
  PROVE  Known(s)'
<1> SUFFICES ASSUME NEW i \in DOMAIN s
             PROVE  pc'[s[i].msg] # "idle" /\ ReviewedByHuman(s[i])'
  BY DEF Known
<1>1. s[i] \in Step
  OBVIOUS
<1>2. s[i].msg \in Callers
  BY <1>1 DEF Step, Callers
<1>3. pc[s[i].msg] # "idle" /\ ReviewedByHuman(s[i])
  BY DEF Known
<1>4. pc'[s[i].msg] # "idle" /\ thread'[s[i].msg] = thread[s[i].msg]
  BY <1>2, <1>3, Settled
<1>5. ReviewedByHuman(s[i])'
  <2>1. CASE s[i].obs \notin Verdicts
    BY <2>1 DEF ReviewedByHuman
  <2>2. CASE s[i].obs \in Verdicts
    <3>1. PICK r \in Resumes : verdict[r] = s[i].obs /\ thread[r] = thread[s[i].msg]
      BY <1>3, <2>2 DEF ReviewedByHuman
    <3>2. verdict'[r] = s[i].obs /\ thread'[r] = thread[r]
      BY <2>2, <3>1, Settled DEF Owned, Callers
    <3> QED
      BY <1>4, <3>1, <3>2 DEF ReviewedByHuman
  <2> QED
    BY <2>1, <2>2
<1> QED
  BY <1>4, <1>5

(* What Append does to a trace. *)
LEMMA AppendFacts ==
  ASSUME NEW s \in Seq(Step), NEW e \in Step
  PROVE  LET new == Append(s, e) IN
         /\ Len(s) \in Nat /\ Len(new) = Len(s) + 1 /\ new[Len(new)] = e
         /\ \A i \in DOMAIN new : new[i] = e \/ (i \in DOMAIN s /\ new[i] = s[i])
OBVIOUS

(* Appending the step of the node a run stands at keeps the trace ordered. *)
LEMMA AppendOrdered ==
  ASSUME NEW v \in Values, NEW n \in Nodes, At(v, n), Ordered(v.steps),
         NEW s \in Step, s.node = n, s.msg = v.msg
  PROVE  Ordered(Append(v.steps, s))
<1> DEFINE old == v.steps
           new == Append(old, s)
<1>1. old \in Seq(Step)
  BY DEF Values
<1>2. /\ Len(new) = Len(old) + 1 /\ Len(old) \in Nat
      /\ new[Len(old) + 1] = s
      /\ \A i \in 1 .. Len(old) : new[i] = old[i]
      /\ DOMAIN old = 1 .. Len(old)
  BY <1>1
<1>3. /\ old # <<>> => old[1].node = "classifier"
      /\ \A i \in 1 .. Len(old) - 1 : Follows(old[i], old[i + 1])
  BY DEF Ordered
<1>4. IF n = "classifier"
      THEN \A i \in DOMAIN old : old[i].msg # v.msg
      ELSE Len(old) > 0 /\ old[Len(old)].msg = v.msg /\ <<old[Len(old)].node, n>> \in Edges
  BY DEF At
<1>5. Len(old) = 0 <=> old = <<>>
  BY <1>1
<1> HIDE DEF new, old
<1>6. new[1].node = "classifier"
  <2>1. CASE Len(old) = 0
    BY <2>1, <1>2, <1>4
  <2>2. CASE Len(old) > 0
    BY <2>2, <1>2, <1>3, <1>5
  <2> QED
    BY <2>1, <2>2, <1>2
<1>7. ASSUME NEW i \in 1 .. Len(old)
      PROVE  Follows(new[i], new[i + 1])
  <2>1. CASE i = Len(old)
    <3>1. new[i] = old[i] /\ new[i + 1] = s /\ i \in DOMAIN old
      BY <2>1, <1>2, <1>7
    <3> QED
      BY <3>1, <2>1, <1>4 DEF Follows
  <2>2. CASE i # Len(old)
    <3>1. i \in 1 .. Len(old) - 1
      BY <2>2, <1>2, <1>7
    <3>2. new[i] = old[i] /\ new[i + 1] = old[i + 1]
      BY <3>1, <1>2
    <3> QED
      BY <3>1, <3>2, <1>3
  <2> QED
    BY <2>1, <2>2
<1>8. Len(new) - 1 = Len(old)
  BY <1>2
<1> QED
  BY <1>6, <1>7, <1>8 DEF Ordered, new, old

(* After its step a run stands at the node an edge leads to. *)
LEMMA StepTaken ==
  ASSUME NEW old \in Values, NEW v \in Values, NEW n \in Nodes,
         NEW e \in Step, e.node = n, e.msg = old.msg,
         v.msg = old.msg, v.steps = Append(old.steps, e)
  PROVE  /\ \A i \in DOMAIN v.steps :
              v.steps[i] = e \/ (i \in DOMAIN old.steps /\ v.steps[i] = old.steps[i])
         /\ \A next \in Nodes : <<n, next>> \in Edges => At(v, next)
<1> DEFINE s == old.steps
           t == v.steps
<1>1. s \in Seq(Step) /\ t = Append(s, e)
  BY DEF Values
<1> HIDE DEF s, t
<1>2. /\ Len(s) \in Nat /\ Len(t) = Len(s) + 1 /\ t[Len(t)] = e
      /\ \A i \in DOMAIN t : t[i] = e \/ (i \in DOMAIN s /\ t[i] = s[i])
  BY <1>1, AppendFacts
<1>3. Len(t) > 0 /\ t[Len(t)].msg = v.msg /\ t[Len(t)].node = n
  BY <1>2
<1>4. ASSUME NEW next \in Nodes, <<n, next>> \in Edges
      PROVE  At(v, next)
  <2>1. next # "classifier"
    BY SMTT(30), <1>4 DEF Edges
  <2> QED
    BY <1>3, <1>4, <2>1 DEF At, t
<1> QED
  BY <1>2, <1>4 DEF s, t

(* One superstep, whichever node executed: the trace grows by the step of  *)
(* the node the run stood at, and the run moves along an edge.             *)
LEMMA SuperstepTraced ==
  ASSUME TypeInv, TraceInv, [Next]_vars, NEW c \in Callers, pc[c] \in Nodes,
         NEW v \in Values, v.msg = vals[c].msg,
         NEW obs \in {"ok"} \cup Verdicts, NEW next \in Nodes \cup {"end"},
         v.steps = Append(vals[c].steps, [node |-> pc[c], msg |-> vals[c].msg, obs |-> obs]),
         next # "end" => <<pc[c], next>> \in Edges,
         obs \in Verdicts => c \in Resumes /\ verdict[c] = obs,
         Superstep(c, v, next)
  PROVE  TraceInv'
<1> USE DEF TypeInv
<1>1. PICK old \in Values : old = vals[c] /\ old.msg \in Calls
  BY DEF TypeOK, Placed, Busy
<1>2. PICK n \in Nodes : n = pc[c]
  OBVIOUS
<1> DEFINE step == [node |-> n, msg |-> old.msg, obs |-> obs]
<1>3. step \in Step /\ step.node = n /\ step.msg = old.msg /\ step.obs = obs
  BY <1>1 DEF Step
<1>4. Known(old.steps) /\ Ordered(old.steps) /\ At(old, n)
  BY <1>1, <1>2 DEF TraceInv, Traces
<1>5. thread[c] \in Threads /\ thread[old.msg] = thread[c] /\ pc[old.msg] # "idle"
  BY <1>1 DEF TraceInv, Owned, Placed, Busy
<1>6. old.steps \in Seq(Step)
  BY <1>1 DEF Values
<1>7. v.steps = Append(old.steps, step) /\ v.msg = old.msg
  BY <1>1, <1>2
<1>8. /\ vals' = [vals EXCEPT ![c] = v]
      /\ ckpt' = [ckpt EXCEPT ![thread[c]] = [next |-> next, vals |-> v]]
      /\ pc' = [pc EXCEPT ![c] = IF next = "end" THEN "returned" ELSE next]
      /\ UNCHANGED <<thread, verdict, tasks, decisions>>
  BY DEF Superstep, records
<1> HIDE DEF step
<1>9. Owned
  BY DEF TraceInv
<1>10. /\ \A d \in Callers : pc[d] # "idle" => pc'[d] # "idle" /\ thread'[d] = thread[d]
       /\ \A r \in Resumes : verdict[r] \in Verdicts =>
            pc'[r] # "idle" /\ verdict'[r] = verdict[r]
  BY <1>9, Settled
<1>11. Known(old.steps)'
  BY <1>4, <1>6, <1>9, KnownStable
<1>12. pc'[step.msg] # "idle" /\ ReviewedByHuman(step)'
  <2>1. pc'[old.msg] # "idle" /\ thread'[old.msg] = thread[c] /\ old.msg \in Callers
    BY <1>1, <1>5, <1>10 DEF Callers
  <2>2. CASE obs \notin Verdicts
    BY <2>1, <2>2, <1>3 DEF ReviewedByHuman
  <2>3. CASE obs \in Verdicts
    BY <2>1, <2>3, <1>3, <1>8 DEF ReviewedByHuman
  <2> QED
    BY <2>1, <2>2, <2>3, <1>3
<1>13. Known(v.steps)'
  <2>1. \A i \in DOMAIN v.steps :
          v.steps[i] = step \/ (i \in DOMAIN old.steps /\ v.steps[i] = old.steps[i])
    BY ZenonT(60), <1>3, <1>7, StepTaken
  <2> QED
    BY <2>1, <1>11, <1>12 DEF Known
<1>14. Ordered(v.steps)
  BY <1>3, <1>4, <1>7, AppendOrdered
<1>15. ASSUME next # "end" PROVE At(v, next)
  BY <1>2, <1>3, <1>7, <1>15, StepTaken
<1>16. Owned'
  <2>1. v.msg = old.msg /\ old.msg \in Callers
    BY <1>1, <1>7 DEF Callers
  <2>2. ASSUME NEW d \in Callers, vals'[d].msg \in Calls
        PROVE  pc'[vals'[d].msg] # "idle" /\ thread'[vals'[d].msg] = thread'[d]
    <3>1. CASE d = c
      BY <3>1, <2>1, <1>5, <1>8, <1>10 DEF TypeOK
    <3>2. CASE d # c
      <4>1. vals'[d] = vals[d]
        BY <3>2, <1>8 DEF TypeOK
      <4> QED
        BY <4>1, <2>2, <1>8, <1>9, <1>10 DEF Owned, Callers
    <3> QED
      BY <3>1, <3>2
  <2>3. ASSUME NEW t \in Threads, ckpt'[t].vals.msg \in Calls
        PROVE  pc'[ckpt'[t].vals.msg] # "idle" /\ thread'[ckpt'[t].vals.msg] = t
    <3>1. CASE t = thread[c]
      <4>1. ckpt'[t].vals = v
        BY <3>1, <1>8 DEF TypeOK
      <4> QED
        BY <4>1, <3>1, <2>1, <1>5, <1>10
    <3>2. CASE t # thread[c]
      <4>1. ckpt'[t] = ckpt[t]
        BY <3>2, <1>8 DEF TypeOK
      <4> QED
        BY <4>1, <2>3, <1>9, <1>10 DEF Owned, Callers
    <3> QED
      BY <3>1, <3>2
  <2>4. \A r \in Resumes : verdict'[r] \in Verdicts => pc'[r] # "idle"
    BY <1>8, <1>10
  <2> QED
    BY <2>2, <2>3, <2>4 DEF Owned
<1>17. ASSUME NEW s \in Traces' PROVE Known(s)' /\ Ordered(s)
  <2>1. CASE s = v.steps
    BY <2>1, <1>13, <1>14
  <2>2. CASE s # v.steps
    <3>1. s \in Traces
      <4>1. CASE \E d \in Callers : s = vals'[d].steps
        BY <4>1, <2>2, <1>8 DEF Traces, TypeOK
      <4>2. CASE \E t \in Threads : s = ckpt'[t].vals.steps
        <5>1. PICK t \in Threads : s = ckpt'[t].vals.steps
          BY <4>2
        <5>2. CASE t = thread[c]
          BY <5>1, <5>2, <2>2, <1>8 DEF TypeOK
        <5>3. CASE t # thread[c]
          BY <5>1, <5>3, <1>8 DEF TypeOK, Traces
        <5> QED
          BY <5>2, <5>3
      <4>3. CASE \E d \in Callers : s \in TracesOf(tasks[d]) \cup TracesOf(decisions[d])
        BY <4>3 DEF Traces
      <4> QED
        BY <4>1, <4>2, <4>3, <1>8 DEF Traces
    <3>2. s \in Seq(Step)
      BY <3>1, TracesType
    <3> QED
      BY <3>1, <3>2, <1>9, KnownStable DEF TraceInv
  <2> QED
    BY <2>1, <2>2
<1>18. ASSUME NEW d \in Callers, pc'[d] \in Nodes
       PROVE  At(vals'[d], pc'[d])
  <2>1. CASE d = c
    <3>1. next # "end" /\ pc'[d] = next /\ vals'[d] = v
      BY <1>8, <2>1, <1>18 DEF TypeOK, Nodes
    <3> QED
      BY <3>1, <1>15
  <2>2. CASE d # c
    BY <2>2, <1>8, <1>18 DEF TypeOK, TraceInv
  <2> QED
    BY <2>1, <2>2
<1>19. ASSUME NEW t \in Threads, ckpt'[t].next # "end"
       PROVE  At(ckpt'[t].vals, ckpt'[t].next)
  <2>1. CASE t = thread[c]
    <3>1. ckpt'[t] = [next |-> next, vals |-> v]
      BY <2>1, <1>8 DEF TypeOK
    <3> QED
      BY <3>1, <1>15, <1>19
  <2>2. CASE t # thread[c]
    BY <2>2, <1>8, <1>19 DEF TypeOK, TraceInv
  <2> QED
    BY <2>1, <2>2
<1> QED
  BY <1>16, <1>17, <1>18, <1>19 DEF TraceInv, Ordered, Follows, Edges, At

(* A step that starts no run and stores no new trace keeps the invariant.  *)
LEMMA QuietTraced ==
  ASSUME TypeInv, TraceInv, [Next]_vars, Traces' \subseteq Traces \cup {<<>>},
         \A c \in Callers : vals'[c] = vals[c] \/ vals'[c].msg = None,
         \A c \in Callers : pc'[c] \in Nodes => pc'[c] = pc[c] /\ vals'[c] = vals[c],
         \A t \in Threads : ckpt'[t] = ckpt[t] \/ ckpt'[t] = NoCheckpoint,
         thread' = thread, verdict' = verdict
  PROVE  TraceInv'
<1> USE DEF TypeInv
<1>1. Owned
  BY DEF TraceInv
<1>2. /\ \A d \in Callers : pc[d] # "idle" => pc'[d] # "idle" /\ thread'[d] = thread[d]
      /\ \A r \in Resumes : verdict[r] \in Verdicts =>
           pc'[r] # "idle" /\ verdict'[r] = verdict[r]
  BY <1>1, Settled
<1>3. NoCheckpoint.next = "end" /\ NoCheckpoint.vals.msg = None /\ None \notin Calls
  BY NoValuesType, ConstantsOK DEF NoCheckpoint, Callers
<1>4. \A r \in Resumes : verdict'[r] \in Verdicts => pc'[r] # "idle"
  BY <1>2
<1>5. Owned'
  BY <1>1, <1>2, <1>3, <1>4 DEF Owned, Callers
<1>6. ASSUME NEW s \in Traces' PROVE Known(s)' /\ Ordered(s)
  <2>1. CASE s = <<>>
    BY <2>1 DEF Known, Ordered
  <2>2. CASE s # <<>>
    BY <2>2, <1>1, TracesType, KnownStable DEF TraceInv
  <2> QED
    BY <2>1, <2>2
<1>7. \A c \in Callers : pc'[c] \in Nodes => At(vals'[c], pc'[c])
  BY DEF TraceInv
<1>8. \A t \in Threads : ckpt'[t].next # "end" => At(ckpt'[t].vals, ckpt'[t].next)
  BY <1>3 DEF TraceInv
<1> QED
  BY <1>5, <1>6, <1>7, <1>8 DEF TraceInv, Ordered, Follows, Edges, At

(* A node that runs appends one step to its trace: the step that follows   *)
(* the last one in the graph, with a verdict only if a human gave it.      *)
LEMMA RunNodeTraced ==
  ASSUME TypeInv, TraceInv, [Next]_vars, NEW c \in Callers, RunNode(c)
  PROVE  TraceInv'
<1> USE DEF TypeInv
<1>1. pc[c] \in Nodes
  BY DEF RunNode, Nodes, Classify, Reflect, NodeRaises, RunTool, StoreMemory, Respond,
         Interrupt, Conclude
<1>2. vals[c] \in Values /\ vals[c].msg \in Calls
  BY <1>1 DEF TypeOK, Placed, Busy
<1>3. ASSUME NEW w \in Values, w.msg = vals[c].msg, w.steps = vals[c].steps,
             NEW obs \in {"ok"} \cup Verdicts, NEW next \in Nodes \cup {"end"},
             next # "end" => <<pc[c], next>> \in Edges,
             obs \in Verdicts => c \in Resumes /\ verdict[c] = obs,
             Superstep(c, WithStep(w, pc[c], obs), next)
      PROVE  TraceInv'
  <2> DEFINE v == WithStep(w, pc[c], obs)
  <2>1. /\ v \in Values /\ v.msg = vals[c].msg
        /\ v.steps = Append(vals[c].steps, [node |-> pc[c], msg |-> vals[c].msg, obs |-> obs])
    <3>1. w.msg \in Calls
      BY <1>2, <1>3
    <3>2. /\ v \in Values /\ v.msg = w.msg
          /\ v.steps = Append(w.steps, [node |-> pc[c], msg |-> w.msg, obs |-> obs])
      BY <1>1, <3>1, WithStepType
    <3> HIDE DEF v
    <3> QED
      BY <1>3, <3>2
  <2>2. Superstep(c, v, next)
    BY <1>3
  <2> HIDE DEF v
  <2> QED
    BY <1>1, <1>3, <2>1, <2>2, SuperstepTraced
<1>4. CASE Classify(c)
  <2>1. PICK l \in Labels :
          Superstep(c, WithStep([vals[c] EXCEPT !.intent = l[1], !.effective = l[1],
                                                !.esc = l[2]], "classifier", "ok"), "reflect")
    BY <1>4 DEF Classify
  <2> DEFINE w == [vals[c] EXCEPT !.intent = l[1], !.effective = l[1], !.esc = l[2]]
  <2>2. l[1] \in Intents /\ l[2] \in BOOLEAN
    BY ConstantsOK
  <2>3. w \in Values /\ w.msg = vals[c].msg /\ w.steps = vals[c].steps
    BY <1>2, <2>2 DEF Values
  <2>4. Superstep(c, WithStep(w, pc[c], "ok"), "reflect")
    BY <1>4, <2>1 DEF Classify
  <2>5. "reflect" \in Nodes /\ <<pc[c], "reflect">> \in Edges
    BY <1>4 DEF Classify, Edges, Nodes
  <2> HIDE DEF w
  <2> QED
    BY <1>3, <2>3, <2>4, <2>5 DEF Verdicts
<1>5. CASE Reflect(c)
  <2>1. PICK w \in Reviews(vals[c]) : Superstep(c, WithStep(w, "reflect", "ok"), "tool_runner")
    BY <1>5 DEF Reflect
  <2>2. w \in Values /\ w.msg = vals[c].msg /\ w.steps = vals[c].steps
    BY <1>2, ReviewsType
  <2>3. Superstep(c, WithStep(w, pc[c], "ok"), "tool_runner")
    BY <1>5, <2>1 DEF Reflect
  <2>4. "tool_runner" \in Nodes /\ <<pc[c], "tool_runner">> \in Edges
    BY <1>5 DEF Reflect, Edges, Nodes
  <2> QED
    BY <1>3, <2>2, <2>3, <2>4 DEF Verdicts
<1>6. CASE NodeRaises(c)
  <2>1. vals' = [vals EXCEPT ![c] = NoValues] /\ pc' = [pc EXCEPT ![c] = "done"]
        /\ UNCHANGED <<ckpt, thread, verdict, tasks, decisions>>
    BY <1>6 DEF NodeRaises, records
  <2>2. Traces' \subseteq Traces \cup {<<>>}
    BY <2>1, NoValuesType DEF Traces, TypeOK
  <2> QED
    BY <2>1, <2>2, NoValuesType, QuietTraced DEF TypeOK, Nodes
<1>7. CASE RunTool(c)
  <2>1. PICK tool \in {"lookup", "ticket", "claimed"} :
          Superstep(c, WithStep([vals[c] EXCEPT !.tool = tool], "tool_runner", "ok"),
                    "store_memory")
    BY <1>7 DEF RunTool
  <2> DEFINE w == [vals[c] EXCEPT !.tool = tool]
  <2>2. w \in Values /\ w.msg = vals[c].msg /\ w.steps = vals[c].steps
    BY <1>2 DEF Values
  <2>3. Superstep(c, WithStep(w, pc[c], "ok"), "store_memory")
    BY <1>7, <2>1 DEF RunTool
  <2>4. "store_memory" \in Nodes /\ <<pc[c], "store_memory">> \in Edges
    BY <1>7 DEF RunTool, Edges, Nodes
  <2> HIDE DEF w
  <2> QED
    BY <1>3, <2>2, <2>3, <2>4 DEF Verdicts
<1>8. CASE StoreMemory(c)
  <2> DEFINE next == RouteAfterMemory(vals[c])
  <2>1. Superstep(c, WithStep(vals[c], pc[c], "ok"), next)
    BY <1>8 DEF StoreMemory
  <2>2. next \in Nodes /\ <<pc[c], next>> \in Edges
    BY <1>8 DEF StoreMemory, RouteAfterMemory, Edges, Nodes
  <2> HIDE DEF next
  <2> QED
    BY <1>2, <1>3, <2>1, <2>2 DEF Verdicts
<1>9. CASE Respond(c)
  <2> DEFINE w == [vals[c] EXCEPT !.text = "answer"]
  <2>1. w \in Values /\ w.msg = vals[c].msg /\ w.steps = vals[c].steps
    BY <1>2 DEF Values
  <2>2. Superstep(c, WithStep(w, pc[c], "ok"), "end")
    BY <1>9 DEF Respond
  <2> HIDE DEF w
  <2> QED
    BY <1>3, <2>1, <2>2 DEF Verdicts
<1>10. CASE Interrupt(c)
  <2>1. pc' = [pc EXCEPT ![c] = "returned"]
        /\ UNCHANGED <<vals, ckpt, thread, verdict, tasks, decisions>>
    BY <1>10 DEF Interrupt, records
  <2>2. Traces' = Traces
    BY <2>1 DEF Traces
  <2> QED
    BY <2>1, <2>2, QuietTraced DEF TypeOK, Nodes
<1>11. CASE Conclude(c)
  <2>1. c \in Resumes /\ verdict[c] \in Verdicts
    BY <1>11 DEF Conclude, HasVerdict, Placed, TypeOK
  <2> DEFINE w == [vals[c] EXCEPT !.text = verdict[c]]
  <2>2. w \in Values /\ w.msg = vals[c].msg /\ w.steps = vals[c].steps
    BY <1>2, <2>1 DEF Values
  <2>3. Superstep(c, WithStep(w, pc[c], verdict[c]), "end")
    BY <1>11 DEF Conclude
  <2> HIDE DEF w
  <2> QED
    BY <1>3, <2>1, <2>2, <2>3
<1> QED
  BY <1>4, <1>5, <1>6, <1>7, <1>8, <1>9, <1>10, <1>11 DEF RunNode

(* The clients' and the handlers' steps around the graph.                  *)
LEMMA TracedStep ==
  ASSUME TypeInv, TraceInv, [Next]_vars
  PROVE  TraceInv'
<1> USE DEF TypeInv
<1>1. ASSUME NEW c \in Calls, Refuse(c) PROVE TraceInv'
  <2>1. Traces' = Traces
    BY <1>1 DEF Refuse, records, Traces
  <2> QED
    BY <1>1, <2>1, QuietTraced DEF Refuse, TypeOK, Nodes
<1>2. ASSUME NEW c \in Calls, NEW t \in Threads, StartTriage(c, t) PROVE TraceInv'
  <2>1. PICK old \in Seq(Step) : old = ckpt[t].vals.steps
    BY DEF TypeOK, Checkpoint, Values
  <2>2. Known(old) /\ Ordered(old) /\ old \in Traces
    BY <2>1 DEF TraceInv, Traces
  <2> DEFINE v == Input(c, old)
  <2>3. v \in Values /\ v.msg = c /\ v.steps = old
    BY <2>1, InputType
  <2>4. /\ pc[c] = "idle" /\ c \in Callers /\ c \notin Resumes
        /\ vals' = [vals EXCEPT ![c] = v]
        /\ ckpt' = [ckpt EXCEPT ![t] = [next |-> "classifier", vals |-> v]]
        /\ pc' = [pc EXCEPT ![c] = "classifier"]
        /\ thread' = [thread EXCEPT ![c] = t]
        /\ UNCHANGED <<verdict, tasks, decisions>>
    BY <1>2, <2>1, ConstantsOK DEF StartTriage, records, Callers
  <2> HIDE DEF v
  <2>5. Owned
    BY DEF TraceInv
  <2>6. \A d \in Callers : pc[d] # "idle" => pc'[d] # "idle" /\ thread'[d] = thread[d]
    BY <2>5, Settled
  <2>7. At(v, "classifier")
    <3>1. ASSUME NEW i \in DOMAIN old PROVE old[i].msg # c
      BY <2>2, <2>4 DEF Known
    <3> QED
      BY <3>1, <2>3 DEF At
  <2>8. Owned'
    <3>1. ASSUME NEW d \in Callers, vals'[d].msg \in Calls
          PROVE  pc'[vals'[d].msg] # "idle" /\ thread'[vals'[d].msg] = thread'[d]
      <4>1. CASE d = c
        BY <4>1, <2>3, <2>4 DEF TypeOK
      <4>2. CASE d # c
        <5>1. vals'[d] = vals[d] /\ thread'[d] = thread[d]
          BY <4>2, <2>4 DEF TypeOK
        <5> QED
          BY <5>1, <3>1, <2>5, <2>6 DEF Owned, Callers
      <4> QED
        BY <4>1, <4>2
    <3>2. ASSUME NEW u \in Threads, ckpt'[u].vals.msg \in Calls
          PROVE  pc'[ckpt'[u].vals.msg] # "idle" /\ thread'[ckpt'[u].vals.msg] = u
      <4>1. CASE u = t
        BY <4>1, <2>3, <2>4 DEF TypeOK
      <4>2. CASE u # t
        <5>1. ckpt'[u] = ckpt[u]
          BY <4>2, <2>4 DEF TypeOK
        <5> QED
          BY <5>1, <3>2, <2>5, <2>6 DEF Owned, Callers
      <4> QED
        BY <4>1, <4>2
    <3>3. \A r \in Resumes : verdict'[r] \in Verdicts => pc'[r] # "idle"
      BY <2>4, <2>5, <2>6 DEF Owned, Callers
    <3> QED
      BY <3>1, <3>2, <3>3 DEF Owned
  <2>9. Traces' \subseteq Traces
    <3>1. ASSUME NEW d \in Callers PROVE vals'[d].steps \in Traces
      BY <2>2, <2>3, <2>4 DEF TypeOK, Traces
    <3>2. ASSUME NEW u \in Threads PROVE ckpt'[u].vals.steps \in Traces
      <4>1. CASE u = t
        BY <4>1, <2>2, <2>3, <2>4 DEF TypeOK
      <4>2. CASE u # t
        BY <4>2, <2>4 DEF TypeOK, Traces
      <4> QED
        BY <4>1, <4>2
    <3> QED
      BY <3>1, <3>2, <2>4 DEF Traces
  <2>10. \A s \in Traces' : Known(s)' /\ Ordered(s)
    BY <2>5, <2>9, TracesType, KnownStable DEF TraceInv
  <2>11. \A d \in Callers : pc'[d] \in Nodes => At(vals'[d], pc'[d])
    BY <2>4, <2>7 DEF TypeOK, TraceInv
  <2>12. \A u \in Threads : ckpt'[u].next # "end" => At(ckpt'[u].vals, ckpt'[u].next)
    <3>1. ASSUME NEW u \in Threads, ckpt'[u].next # "end"
          PROVE  At(ckpt'[u].vals, ckpt'[u].next)
      <4>1. CASE u = t
        <5>1. ckpt'[u] = [next |-> "classifier", vals |-> v]
          BY <4>1, <2>4 DEF TypeOK
        <5> QED
          BY <5>1, <2>7
      <4>2. CASE u # t
        BY <4>2, <3>1, <2>4 DEF TypeOK, TraceInv
      <4> QED
        BY <4>1, <4>2
    <3> QED
      BY <3>1
  <2> QED
    BY <2>8, <2>10, <2>11, <2>12 DEF TraceInv, Ordered, Follows, Edges, At
<1>3. ASSUME NEW r \in Resumes, NEW t \in Threads, NothingToResume(r, t) PROVE TraceInv'
  <2>1. Traces' = Traces
    BY <1>3 DEF NothingToResume, records, Traces
  <2> QED
    BY <1>3, <2>1, QuietTraced DEF NothingToResume, TypeOK, Nodes
<1>4. ASSUME NEW r \in Resumes, NEW t \in Threads, NEW a \in Verdicts, StartResume(r, t, a)
      PROVE  TraceInv'
  <2>1. /\ r \in Callers /\ ckpt[t].next # "end"
        /\ vals' = [vals EXCEPT ![r] = ckpt[t].vals]
        /\ pc' = [pc EXCEPT ![r] = ckpt[t].next]
        /\ thread' = [thread EXCEPT ![r] = t]
        /\ verdict' = [verdict EXCEPT ![r] = a]
        /\ UNCHANGED <<ckpt, tasks, decisions>>
    BY <1>4 DEF StartResume, Resumable, records, Callers
  <2>2. Owned
    BY DEF TraceInv
  <2>3. /\ \A d \in Callers : pc[d] # "idle" => pc'[d] # "idle" /\ thread'[d] = thread[d]
        /\ \A q \in Resumes : verdict[q] \in Verdicts =>
             pc'[q] # "idle" /\ verdict'[q] = verdict[q]
    BY <2>2, Settled
  <2>4. pc'[r] # "idle"
    BY <2>1 DEF TypeOK, Checkpoint, Nodes
  <2>5. Owned'
    <3>1. ASSUME NEW d \in Callers, vals'[d].msg \in Calls
          PROVE  pc'[vals'[d].msg] # "idle" /\ thread'[vals'[d].msg] = thread'[d]
      <4>1. CASE d = r
        <5>1. vals'[d] = ckpt[t].vals /\ thread'[d] = t
          BY <4>1, <2>1 DEF TypeOK
        <5> QED
          BY <5>1, <3>1, <2>2, <2>3 DEF Owned, Callers
      <4>2. CASE d # r
        <5>1. vals'[d] = vals[d] /\ thread'[d] = thread[d]
          BY <4>2, <2>1 DEF TypeOK
        <5> QED
          BY <5>1, <3>1, <2>2, <2>3 DEF Owned, Callers
      <4> QED
        BY <4>1, <4>2
    <3>2. \A u \in Threads : ckpt'[u].vals.msg \in Calls =>
            pc'[ckpt'[u].vals.msg] # "idle" /\ thread'[ckpt'[u].vals.msg] = u
      BY <2>1, <2>2, <2>3 DEF Owned, Callers
    <3>3. \A q \in Resumes : verdict'[q] \in Verdicts => pc'[q] # "idle"
      BY <2>1, <2>3, <2>4 DEF TypeOK
    <3> QED
      BY <3>1, <3>2, <3>3 DEF Owned
  <2>6. Traces' \subseteq Traces
    BY <2>1 DEF TypeOK, Traces
  <2>7. \A s \in Traces' : Known(s)' /\ Ordered(s)
    BY <2>2, <2>6, TracesType, KnownStable DEF TraceInv
  <2>8. \A d \in Callers : pc'[d] \in Nodes => At(vals'[d], pc'[d])
    BY <2>1 DEF TypeOK, TraceInv
  <2>9. \A u \in Threads : ckpt'[u].next # "end" => At(ckpt'[u].vals, ckpt'[u].next)
    BY <2>1 DEF TraceInv
  <2> QED
    BY <2>5, <2>7, <2>8, <2>9 DEF TraceInv, Ordered, Follows, Edges, At
<1>5. ASSUME NEW c \in Callers, RunNode(c) PROVE TraceInv'
  BY <1>5, RunNodeTraced
<1>6. ASSUME NEW c \in Callers, NEW r, NEW s \in Traces, Answer(c, r, s), TypeOK' PROVE TraceInv'
  <2>1. /\ pc' = [pc EXCEPT ![c] = "done"]
        /\ vals' = [vals EXCEPT ![c] = NoValues]
        /\ tasks' = [tasks EXCEPT ![c] = Append(@, DecisionOf(c, r, s))]
        /\ UNCHANGED <<thread, verdict, ckpt, decisions>>
    BY <1>6 DEF Answer
  <2> DEFINE e == DecisionOf(c, r, s)
  <2>2. e.steps = s
    BY DEF DecisionOf
  <2> HIDE DEF e
  <2>3. TracesOf(tasks'[c]) = TracesOf(tasks[c]) \cup {s}
    <3>1. tasks[c] \in Seq(Decision) /\ tasks'[c] \in Seq(Decision)
          /\ tasks'[c] = Append(tasks[c], e)
      BY <1>6, <2>1 DEF TypeOK, e
    <3>2. e \in Decision
      <4>1. tasks'[c][Len(tasks[c]) + 1] = e /\ Len(tasks[c]) + 1 \in DOMAIN tasks'[c]
        BY <3>1
      <4> QED
        BY <3>1, <4>1
    <3> QED
      BY <2>2, <3>1, <3>2, LogTraces
  <2>4. \A d \in Callers : d # c => tasks'[d] = tasks[d]
    BY <2>1 DEF TypeOK
  <2>5. Traces' \subseteq Traces \cup {<<>>}
    <3>1. \A d \in Callers : vals'[d].steps \in Traces \cup {<<>>}
      BY <2>1, NoValuesType DEF TypeOK, Traces
    <3>2. \A d \in Callers : TracesOf(tasks'[d]) \cup TracesOf(decisions'[d]) \subseteq Traces
      <4>1. ASSUME NEW d \in Callers
            PROVE  TracesOf(tasks[d]) \cup TracesOf(decisions[d]) \subseteq Traces
        BY DEF Traces
      <4> QED
        <5>1. ASSUME NEW d \in Callers
              PROVE  TracesOf(tasks'[d]) \cup TracesOf(decisions'[d]) \subseteq Traces
          <6>1. decisions' = decisions /\ s \in Traces
            BY <1>6, <2>1
          <6>2. CASE d = c
            BY <2>3, <4>1, <6>1, <6>2
          <6>3. CASE d # c
            BY <2>4, <4>1, <6>1, <6>3
          <6> QED
            BY <6>2, <6>3
        <5> QED
          BY <5>1
    <3>3. \A t \in Threads : ckpt'[t].vals.steps \in Traces
      BY <2>1 DEF Traces
    <3>4. ASSUME NEW x \in Traces' PROVE x \in Traces \cup {<<>>}
      <4>1. \/ \E d \in Callers : x = vals'[d].steps
            \/ \E t \in Threads : x = ckpt'[t].vals.steps
            \/ \E d \in Callers : x \in TracesOf(tasks'[d]) \cup TracesOf(decisions'[d])
        BY DEF Traces
      <4> QED
        BY <3>1, <3>2, <3>3, <4>1
    <3> QED
      BY <3>4
  <2> QED
    BY <2>1, <2>5, NoValuesType, QuietTraced DEF TypeOK, Nodes
<1>7. ASSUME NEW c \in Callers, FinishTriage(c) PROVE TraceInv'
  <2>1. ckpt[thread[c]].vals.steps \in Traces
    BY <1>7 DEF FinishTriage, Traces, TypeInv, Placed, Busy
  <2> QED
    BY <1>6, <1>7, <2>1, TypedStep DEF FinishTriage
<1>8. ASSUME NEW r \in Callers, FinishResume(r) PROVE TraceInv'
  <2>1. vals[r].steps \in Traces
    BY DEF Traces
  <2> QED
    BY <1>6, <1>8, <2>1, TypedStep DEF FinishResume
<1>9. ASSUME NEW c \in Callers, RecordDecision(c) PROVE TraceInv'
  <2>1. Traces' \subseteq Traces
    <3>1. /\ tasks[c] \in Seq(Decision) /\ decisions[c] \in Seq(Decision) /\ tasks[c] # <<>>
          /\ Head(tasks[c]) \in Decision
      BY <1>9 DEF RecordDecision, TypeOK
    <3>2. /\ tasks'[c] = Tail(tasks[c])
          /\ decisions'[c] \in {decisions[c], Append(decisions[c], Head(tasks[c]))}
          /\ \A d \in Callers : d # c => tasks'[d] = tasks[d] /\ decisions'[d] = decisions[d]
          /\ UNCHANGED <<vals, ckpt>>
      BY <1>9 DEF RecordDecision, TypeOK
    <3>3. TracesOf(tasks'[c]) \cup TracesOf(decisions'[c])
            \subseteq TracesOf(tasks[c]) \cup TracesOf(decisions[c])
      <4>1. PICK e \in Decision : e = Head(tasks[c])
        BY <3>1
      <4>2. TracesOf(tasks'[c]) \subseteq TracesOf(tasks[c]) /\ e.steps \in TracesOf(tasks[c])
        BY <3>1, <3>2, <4>1, LogTraces
      <4>3. TracesOf(Append(decisions[c], e)) = TracesOf(decisions[c]) \cup {e.steps}
        BY <3>1, LogTraces
      <4> QED
        <5>1. decisions'[c] = decisions[c] \/ decisions'[c] = Append(decisions[c], e)
          BY <3>2, <4>1
        <5>2. TracesOf(decisions'[c]) \subseteq TracesOf(decisions[c]) \cup TracesOf(tasks[c])
          BY <4>2, <4>3, <5>1
        <5> QED
          BY <4>2, <5>2
    <3> QED
      BY <3>2, <3>3 DEF Traces
  <2> QED
    BY <1>9, <2>1, QuietTraced DEF RecordDecision
<1>10. CASE Restart
  <2>1. NoCheckpoint.vals.steps = <<>>
    BY NoValuesType DEF NoCheckpoint
  <2>2. Traces' \subseteq Traces \cup {<<>>}
    BY <1>10, <2>1, NoValuesType, LogTraces DEF Restart, Traces
  <2> QED
    <3>1. /\ \A c \in Callers : pc'[c] \in Nodes => FALSE
          /\ \A c \in Callers : vals'[c].msg = None
          /\ \A t \in Threads : ckpt'[t] = NoCheckpoint
          /\ thread' = thread /\ verdict' = verdict
      BY <1>10, NoValuesType DEF Restart, TypeOK, Busy, Nodes
    <3> QED
      BY <2>2, <3>1, QuietTraced
<1>11. CASE UNCHANGED vars
  BY <1>11, QuietTraced DEF vars, stores, records, Traces
<1> QED
  BY <1>1, <1>2, <1>3, <1>4, <1>5, <1>7, <1>8, <1>9, <1>10, <1>11 DEF Next, Progress

(* The traces in runs, checkpoints, queued and recorded decisions satisfy  *)
(* the inductive invariant in every reachable state.                       *)
THEOREM Traced == Spec => []TraceInv
<1>1. Init => TraceInv
  <2> SUFFICES ASSUME Init PROVE TraceInv
    OBVIOUS
  <2>1. NoCheckpoint.next = "end" /\ NoCheckpoint.vals = NoValues /\ None \notin Calls
    BY ConstantsOK DEF NoCheckpoint, Callers
  <2>2. Traces \subseteq {<<>>}
    BY <2>1, NoValuesType, LogTraces DEF Init, Traces
  <2>3. Known(<<>>) /\ Ordered(<<>>)
    BY DEF Known, Ordered
  <2>4. Owned
    BY <2>1, NoValuesType, ConstantsOK DEF Init, Owned, Verdicts, Callers
  <2> QED
    BY <2>1, <2>2, <2>3, <2>4 DEF Init, TraceInv, Nodes
<1>2. TypeInv /\ TraceInv /\ [Next]_vars => TraceInv'
  BY TracedStep
<1> QED
  BY <1>1, <1>2, Typed, PTL DEF Spec

(* No trace, running, checkpointed or recorded, holds a verdict that no    *)
(* human gave on the thread of its message (escalation_node, resume).      *)
THEOREM HumanVerdicts == Spec => []VerdictsAreHuman
<1>1. TraceInv => VerdictsAreHuman
  BY DEF TraceInv, Known, VerdictsAreHuman
<1> QED
  BY <1>1, Traced, PTL

(* Every trace is a series of turns along the edges of the graph, however  *)
(* many calls overwrite each other's checkpoints (build_triage_agent).     *)
THEOREM GraphFollowed == Spec => []TracesFollowGraph
<1>1. TraceInv => TracesFollowGraph
  BY DEF TraceInv, Ordered, TracesFollowGraph
<1> QED
  BY <1>1, Traced, PTL

-----------------------------------------------------------------------------
(* Part 2.  What a client can rely on.                                     *)

(* One step of a run                                                       *)

(* What a superstep of c makes of its values: a message has no answer      *)
(* before its last node, which the flag decides after store_memory.        *)
Moved(c, v, next) ==
  /\ v.msg = vals[c].msg
  /\ \/ next # "end" /\ <<pc[c], next>> \in Edges /\ v.text = vals[c].text
     \/ next = "end" /\ pc[c] = "responder" /\ v.text = "answer" /\ v.esc = vals[c].esc
     \/ next = "end" /\ pc[c] = "escalation" /\ c \in fresh /\ v.text = verdict[c]
          /\ v.text \in Verdicts
  /\ next = "responder" => ~v.esc
  /\ next = "escalation" => v.esc

(* A node raises, waits for a human, or makes a superstep. *)
LEMMA NodeRuns ==
  ASSUME TypeInv, NEW c \in Callers, RunNode(c)
  PROVE  \/ NodeRaises(c)
         \/ Interrupt(c)
         \/ \E v \in Values, next \in Nodes \cup {"end"} : Superstep(c, v, next) /\ Moved(c, v, next)
<1> USE DEF TypeInv
<1>1. pc[c] \in Nodes /\ vals[c] \in Values /\ vals[c].msg \in Calls
  <2>1. pc[c] \in Nodes
    BY DEF RunNode, Nodes, Classify, Reflect, NodeRaises, RunTool, StoreMemory, Respond,
           Interrupt, Conclude
  <2> QED
    BY <2>1 DEF TypeOK, Placed, Busy
<1>2. ASSUME NEW w \in Values, w.msg = vals[c].msg, NEW n \in Nodes, n = pc[c],
             NEW obs \in {"ok"} \cup Verdicts, NEW next \in Nodes \cup {"end"},
             Superstep(c, WithStep(w, n, obs), next), Moved(c, w, next)
      PROVE  \E v \in Values : Superstep(c, v, next) /\ Moved(c, v, next)
  <2> DEFINE v == WithStep(w, n, obs)
  <2>1. v \in Values
    BY <1>1, <1>2, WithStepType
  <2>2. v.msg = w.msg /\ v.text = w.text /\ v.esc = w.esc
    BY <1>2 DEF WithStep, Values
  <2>3. Superstep(c, v, next)
    BY <1>2
  <2> HIDE DEF v
  <2>4. Moved(c, v, next)
    BY <1>2, <2>2 DEF Moved
  <2> QED
    BY <2>1, <2>3, <2>4
<1>3. CASE Classify(c)
  <2>1. PICK l \in Labels :
          Superstep(c, WithStep([vals[c] EXCEPT !.intent = l[1], !.effective = l[1],
                                                !.esc = l[2]], "classifier", "ok"), "reflect")
    BY <1>3 DEF Classify
  <2> DEFINE w == [vals[c] EXCEPT !.intent = l[1], !.effective = l[1], !.esc = l[2]]
  <2>2. l[1] \in Intents /\ l[2] \in BOOLEAN
    BY ConstantsOK
  <2>3. w \in Values /\ w.msg = vals[c].msg /\ w.text = vals[c].text
    BY <1>1, <2>2 DEF Values
  <2>4. Superstep(c, WithStep(w, "classifier", "ok"), "reflect") /\ pc[c] = "classifier"
    BY <1>3, <2>1 DEF Classify
  <2> HIDE DEF w
  <2>5. Moved(c, w, "reflect")
    BY <2>3, <2>4 DEF Moved, Edges
  <2> QED
    BY <1>2, <2>3, <2>4, <2>5 DEF Nodes
<1>4. CASE Reflect(c)
  <2>1. PICK w \in Reviews(vals[c]) : Superstep(c, WithStep(w, "reflect", "ok"), "tool_runner")
    BY <1>4 DEF Reflect
  <2>2. w \in Values /\ w.msg = vals[c].msg /\ pc[c] = "reflect"
    BY <1>1, <1>4, ReviewsType DEF Reflect
  <2>3. w.text = vals[c].text
    <3>1. CASE w = vals[c]
      BY <3>1
    <3>2. CASE \E i \in Intents : w = Revised(vals[c], i)
      BY <1>1, <3>2 DEF Revised, Values
    <3> QED
      BY <3>1, <3>2, ConstantsOK DEF Reviews
  <2>4. Moved(c, w, "tool_runner")
    BY <2>2, <2>3 DEF Moved, Edges
  <2> QED
    BY <1>2, <2>1, <2>2, <2>4 DEF Nodes
<1>5. CASE RunTool(c)
  <2>1. PICK tool \in {"lookup", "ticket", "claimed"} :
          Superstep(c, WithStep([vals[c] EXCEPT !.tool = tool], "tool_runner", "ok"),
                    "store_memory")
    BY <1>5 DEF RunTool
  <2> DEFINE w == [vals[c] EXCEPT !.tool = tool]
  <2>2. w \in Values /\ w.msg = vals[c].msg /\ w.text = vals[c].text
    BY <1>1 DEF Values
  <2>3. Superstep(c, WithStep(w, "tool_runner", "ok"), "store_memory") /\ pc[c] = "tool_runner"
    BY <1>5, <2>1 DEF RunTool
  <2> HIDE DEF w
  <2>4. Moved(c, w, "store_memory")
    BY <2>2, <2>3 DEF Moved, Edges
  <2> QED
    BY <1>2, <2>2, <2>3, <2>4 DEF Nodes
<1>6. CASE StoreMemory(c)
  <2>1. PICK next \in Nodes : next = RouteAfterMemory(vals[c])
    BY DEF RouteAfterMemory, Nodes
  <2>2. Superstep(c, WithStep(vals[c], "store_memory", "ok"), next) /\ pc[c] = "store_memory"
    BY <1>6, <2>1 DEF StoreMemory
  <2>3. Moved(c, vals[c], next)
    BY <1>1, <2>1, <2>2 DEF Moved, Edges, RouteAfterMemory, Values
  <2> QED
    BY <1>1, <1>2, <2>2, <2>3 DEF Nodes
<1>7. CASE Respond(c)
  <2> DEFINE w == [vals[c] EXCEPT !.text = "answer"]
  <2>1. w \in Values /\ w.msg = vals[c].msg /\ w.text = "answer" /\ w.esc = vals[c].esc
    BY <1>1 DEF Values
  <2>2. Superstep(c, WithStep(w, "responder", "ok"), "end") /\ pc[c] = "responder"
    BY <1>7 DEF Respond
  <2> HIDE DEF w
  <2>3. Moved(c, w, "end")
    BY <2>1, <2>2 DEF Moved
  <2> QED
    BY <1>2, <2>1, <2>2, <2>3 DEF Nodes
<1>8. CASE Conclude(c)
  <2>1. verdict[c] \in Verdicts /\ c \in fresh
    BY <1>8 DEF Conclude, HasVerdict, Placed
  <2> DEFINE w == [vals[c] EXCEPT !.text = verdict[c]]
  <2>2. w \in Values /\ w.msg = vals[c].msg /\ w.text = verdict[c]
    BY <1>1, <2>1 DEF Values
  <2>3. Superstep(c, WithStep(w, "escalation", verdict[c]), "end") /\ pc[c] = "escalation"
    BY <1>8 DEF Conclude
  <2> HIDE DEF w
  <2>4. Moved(c, w, "end")
    BY <2>1, <2>2, <2>3 DEF Moved
  <2> QED
    BY <1>2, <2>1, <2>2, <2>3, <2>4 DEF Nodes
<1> QED
  BY <1>3, <1>4, <1>5, <1>6, <1>7, <1>8 DEF RunNode

(* Which actions there are, with a run's superstep as one of them.         *)
LEMMA StepCases ==
  ASSUME TypeInv, [Next]_vars
  PROVE  \/ \E c \in Calls : Refuse(c)
         \/ \E c \in Calls, t \in Threads : StartTriage(c, t)
         \/ \E r \in Resumes, t \in Threads : NothingToResume(r, t)
         \/ \E r \in Resumes, t \in Threads, a \in Verdicts : StartResume(r, t, a)
         \/ \E c \in Callers : NodeRaises(c) \/ Interrupt(c)
         \/ \E c \in Callers, v \in Values, next \in Nodes \cup {"end"} :
              RunNode(c) /\ pc[c] \in Nodes /\ Superstep(c, v, next) /\ Moved(c, v, next)
         \/ \E c \in Callers : FinishTriage(c) \/ FinishResume(c)
         \/ \E c \in Callers : RecordDecision(c)
         \/ Restart
         \/ UNCHANGED vars
<1>1. ASSUME NEW c \in Callers, RunNode(c)
      PROVE  \/ NodeRaises(c) \/ Interrupt(c)
             \/ \E v \in Values, next \in Nodes \cup {"end"} :
                  pc[c] \in Nodes /\ Superstep(c, v, next) /\ Moved(c, v, next)
  <2>1. pc[c] \in Nodes
    BY <1>1 DEF RunNode, Nodes, Classify, Reflect, NodeRaises, RunTool, StoreMemory, Respond,
                Interrupt, Conclude
  <2> QED
    BY <1>1, <2>1, NodeRuns
<1> QED
  BY <1>1 DEF Next, Progress

(* What a superstep does to the run, its checkpoint and the others.        *)
RunMoves(c, v, next) ==
  /\ thread[c] \in Threads /\ vals'[c] = v
  /\ pc'[c] = IF next = "end" THEN "returned" ELSE next
  /\ ckpt'[thread[c]] = [next |-> next, vals |-> v]
  /\ \A d \in Callers : d # c => pc'[d] = pc[d] /\ vals'[d] = vals[d]
  /\ \A t \in Threads : t # thread[c] => ckpt'[t] = ckpt[t]
  /\ UNCHANGED <<thread, verdict, records, reply, restarts>>

LEMMA SuperstepEffect ==
  ASSUME TypeInv, NEW c \in Callers, pc[c] \in Nodes, NEW v \in Values,
         NEW next \in Nodes \cup {"end"}, Superstep(c, v, next)
  PROVE  RunMoves(c, v, next)
BY DEF RunMoves, Superstep, TypeInv, TypeOK, Placed, Busy

-----------------------------------------------------------------------------
(* What an answer says                                                     *)

(* Values with something left to run carry no answer yet, and no flagged   *)
(* ones come to the responder; values with its answer are not flagged.     *)
Ready(v, next) == v.text = "" /\ (next = "responder" => ~v.esc)
Sound(v) == v.text = "answer" => ~v.esc

SaidInv ==
  /\ \A c \in Callers : Sound(vals[c]) /\ (pc[c] \in Nodes => Ready(vals[c], pc[c]))
  /\ \A t \in Threads :
       Sound(ckpt[t].vals) /\ (ckpt[t].next # "end" => Ready(ckpt[t].vals, ckpt[t].next))

AnswerInv == SaidInv /\ EscalatedNotAnswered

(* Nothing is said by the values a run leaves, or by an error. *)
LEMMA NothingSaid ==
  /\ NoValues.text = "" /\ Sound(NoValues)
  /\ NoCheckpoint.vals = NoValues /\ NoCheckpoint.next = "end"
  /\ \A code : Sound(Error(code))
BY DEF NoValues, Input, NoCheckpoint, Error, Sound

(* A reply is as sound as what it is built from. *)
LEMMA ReplySound ==
  /\ \A s : Sound(s.vals) => Sound(TriageReply(s))
  /\ \A v : Sound(v) => Sound(ResumeReply(v))
  /\ \A m : Sound(Fallback(m))
BY DEF Sound, TriageReply, ResumeReply, Fallback

(* A reply given to one call and none to the others. *)
LEMMA OneReply ==
  ASSUME TypeInv, EscalatedNotAnswered, NEW c \in Callers, NEW r,
         reply' = [reply EXCEPT ![c] = r], Sound(r)
  PROVE  EscalatedNotAnswered'
<1>1. \A d \in Callers : reply'[d] = IF d = c THEN r ELSE reply[d]
  BY DEF TypeInv, TypeOK
<1> QED
  BY <1>1 DEF EscalatedNotAnswered, Answered, Sound

LEMMA AnswerInit == Init => AnswerInv
BY NothingSaid DEF Init, AnswerInv, SaidInv, EscalatedNotAnswered, Answered, Nodes

(* A step that neither starts a run nor gives an answer: values are kept   *)
(* or forgotten.                                                           *)
LEMMA QuietSaid ==
  ASSUME SaidInv,
         \A c \in Callers : vals'[c] = vals[c] \/ vals'[c] = NoValues,
         \A c \in Callers : pc'[c] \in Nodes => pc'[c] = pc[c] /\ vals'[c] = vals[c],
         \A t \in Threads : ckpt'[t] = ckpt[t] \/ ckpt'[t] = NoCheckpoint
  PROVE  SaidInv'
<1>1. ASSUME NEW c \in Callers
      PROVE  Sound(vals'[c]) /\ (pc'[c] \in Nodes => Ready(vals'[c], pc'[c]))
  BY NothingSaid DEF SaidInv
<1>2. ASSUME NEW t \in Threads
      PROVE  Sound(ckpt'[t].vals)
             /\ (ckpt'[t].next # "end" => Ready(ckpt'[t].vals, ckpt'[t].next))
  BY NothingSaid DEF SaidInv
<1> QED
  BY <1>1, <1>2 DEF SaidInv, Sound, Ready

(* Steps that run no node and answer nothing. *)
LEMMA AnswerQuiet ==
  ASSUME TypeInv, AnswerInv,
         \/ \E c \in Calls : Refuse(c)
         \/ \E r \in Resumes, t \in Threads : NothingToResume(r, t)
         \/ \E c \in Callers : NodeRaises(c) \/ Interrupt(c)
         \/ \E c \in Callers : RecordDecision(c)
         \/ Restart
         \/ UNCHANGED vars
  PROVE  AnswerInv'
<1> USE DEF TypeInv, TypeOK, AnswerInv
<1>1. ASSUME NEW c \in Callers, NEW code,
             reply' = [reply EXCEPT ![c] = Error(code)], pc' = [pc EXCEPT ![c] = "done"],
             vals' = vals \/ vals' = [vals EXCEPT ![c] = NoValues], ckpt' = ckpt
      PROVE  AnswerInv'
  <2>1. EscalatedNotAnswered'
    BY <1>1, OneReply, NothingSaid
  <2>2. SaidInv'
    BY <1>1, QuietSaid DEF Nodes
  <2> QED
    BY <2>1, <2>2
<1>2. ASSUME reply' = reply, vals' = vals \/ vals' = [c \in Callers |-> NoValues],
             ckpt' = ckpt \/ ckpt' = [t \in Threads |-> NoCheckpoint],
             \A c \in Callers : pc'[c] \in Nodes => pc'[c] = pc[c] /\ vals'[c] = vals[c]
      PROVE  AnswerInv'
  <2>1. SaidInv'
    BY <1>2, QuietSaid
  <2> QED
    BY <1>2, <2>1 DEF EscalatedNotAnswered, Answered
<1>3. CASE \E c \in Calls : Refuse(c)
  BY ZenonT(60), <1>1, <1>3 DEF Refuse, Callers
<1>4. CASE \E r \in Resumes, t \in Threads : NothingToResume(r, t)
  BY ZenonT(60), <1>1, <1>4 DEF NothingToResume, Callers
<1>5. CASE \E c \in Callers : NodeRaises(c)
  BY ZenonT(60), <1>1, <1>5 DEF NodeRaises
<1>6. CASE \E c \in Callers : Interrupt(c)
  BY <1>2, <1>6 DEF Interrupt, Nodes
<1>7. CASE \E c \in Callers : RecordDecision(c)
  BY <1>2, <1>7 DEF RecordDecision
<1>8. CASE Restart
  BY <1>2, <1>8 DEF Restart, Busy, Nodes
<1>9. CASE UNCHANGED vars
  BY <1>2, <1>9 DEF vars
<1> QED
  BY <1>3, <1>4, <1>5, <1>6, <1>7, <1>8, <1>9

(* A run comes to a node ready for it, its checkpoint with it or as it was. *)
LEMMA RunComes ==
  ASSUME TypeInv, AnswerInv, NEW c \in Callers, NEW v, NEW next \in Nodes,
         Ready(v, next), reply' = reply,
         vals' = [vals EXCEPT ![c] = v], pc' = [pc EXCEPT ![c] = next],
         \A t \in Threads : ckpt'[t] = ckpt[t] \/ ckpt'[t] = [next |-> next, vals |-> v]
  PROVE  AnswerInv'
<1>1. Sound(v)
  BY DEF Ready, Sound
<1>2. ASSUME NEW d \in Callers
      PROVE  Sound(vals'[d]) /\ (pc'[d] \in Nodes => Ready(vals'[d], pc'[d]))
  BY <1>1 DEF AnswerInv, SaidInv, TypeInv, TypeOK
<1>3. ASSUME NEW t \in Threads
      PROVE  Sound(ckpt'[t].vals)
             /\ (ckpt'[t].next # "end" => Ready(ckpt'[t].vals, ckpt'[t].next))
  BY <1>1 DEF AnswerInv, SaidInv
<1>4. SaidInv'
  BY <1>2, <1>3 DEF SaidInv, Sound, Ready
<1> QED
  BY <1>4 DEF AnswerInv, EscalatedNotAnswered, Answered

(* A run begins with an empty answer; a resumed one with the values of its *)
(* checkpoint, which has something left to run.                            *)
LEMMA AnswerStart ==
  ASSUME TypeInv, AnswerInv, NEW c \in Callers, NEW t \in Threads,
         StartTriage(c, t) \/ \E a \in Verdicts : StartResume(c, t, a)
  PROVE  AnswerInv'
<1>1. CASE StartTriage(c, t)
  <2> DEFINE v == Input(c, ckpt[t].vals.steps)
  <2>1. /\ vals' = [vals EXCEPT ![c] = v] /\ pc' = [pc EXCEPT ![c] = "classifier"]
        /\ ckpt' = [ckpt EXCEPT ![t] = [next |-> "classifier", vals |-> v]] /\ reply' = reply
    BY <1>1 DEF StartTriage
  <2>2. Ready(v, "classifier") /\ "classifier" \in Nodes
    BY DEF Ready, Input, Nodes
  <2> HIDE DEF v
  <2>3. \A u \in Threads : ckpt'[u] = ckpt[u] \/ ckpt'[u] = [next |-> "classifier", vals |-> v]
    BY <2>1 DEF TypeInv, TypeOK
  <2> QED
    BY <2>1, <2>2, <2>3, RunComes
<1>2. CASE \E a \in Verdicts : StartResume(c, t, a)
  <2>1. ckpt[t].next # "end" /\ ckpt[t].next \in Nodes
    BY <1>2 DEF StartResume, Resumable, TypeInv, TypeOK, Checkpoint
  <2>2. Ready(ckpt[t].vals, ckpt[t].next)
    BY <2>1 DEF AnswerInv, SaidInv
  <2>3. /\ vals' = [vals EXCEPT ![c] = ckpt[t].vals] /\ pc' = [pc EXCEPT ![c] = ckpt[t].next]
        /\ ckpt' = ckpt /\ reply' = reply
    BY <1>2 DEF StartResume
  <2> QED
    BY <2>1, <2>2, <2>3, RunComes
<1> QED
  BY <1>1, <1>2

(* A run moves: only the responder answers, and only without the flag.     *)
LEMMA AnswerMoved ==
  ASSUME TypeInv, AnswerInv, NEW c \in Callers, pc[c] \in Nodes, NEW v \in Values,
         NEW next \in Nodes \cup {"end"}, Superstep(c, v, next), Moved(c, v, next)
  PROVE  AnswerInv'
<1>1. RunMoves(c, v, next)
  BY SuperstepEffect
<1>2. Ready(vals[c], pc[c])
  BY DEF AnswerInv, SaidInv
<1>3. Sound(v) /\ (next # "end" => Ready(v, next))
  BY <1>2 DEF Moved, Ready, Sound, Verdicts
<1>4. ASSUME NEW d \in Callers
      PROVE  Sound(vals'[d]) /\ (pc'[d] \in Nodes => Ready(vals'[d], pc'[d]))
  <2>1. CASE d = c
    <3>1. "returned" \notin Nodes
      BY DEF Nodes
    <3> QED
      BY <1>1, <1>3, <2>1, <3>1 DEF RunMoves
  <2>2. CASE d # c
    BY <1>1, <2>2 DEF RunMoves, AnswerInv, SaidInv
  <2> QED
    BY <2>1, <2>2
<1>5. ASSUME NEW t \in Threads
      PROVE  Sound(ckpt'[t].vals)
             /\ (ckpt'[t].next # "end" => Ready(ckpt'[t].vals, ckpt'[t].next))
  <2>1. ckpt'[t] = ckpt[t] \/ ckpt'[t] = [next |-> next, vals |-> v]
    BY <1>1 DEF RunMoves
  <2> QED
    BY <1>3, <2>1 DEF AnswerInv, SaidInv
<1>6. SaidInv'
  BY <1>4, <1>5 DEF SaidInv, Sound, Ready
<1>7. EscalatedNotAnswered'
  BY <1>1 DEF RunMoves, AnswerInv, EscalatedNotAnswered, Answered
<1> QED
  BY <1>6, <1>7 DEF AnswerInv

(* A call replies: with what the checkpoint, or its own run, may say.      *)
LEMMA AnswerGiven ==
  ASSUME TypeInv, AnswerInv, NEW c \in Callers, FinishTriage(c) \/ FinishResume(c)
  PROVE  AnswerInv'
<1>1. pc[c] = "returned" /\ thread[c] \in Threads
  BY DEF FinishTriage, FinishResume, TypeInv, Placed, Busy
<1>2. Sound(ckpt[thread[c]].vals) /\ Sound(vals[c])
  BY <1>1 DEF AnswerInv, SaidInv
<1>3. PICK r, s : Answer(c, r, s) /\ Sound(r)
  BY <1>2, ReplySound DEF FinishTriage, FinishResume
<1>4. EscalatedNotAnswered'
  BY <1>3, OneReply DEF Answer, AnswerInv
<1>5. SaidInv'
  BY <1>3, QuietSaid DEF Answer, AnswerInv, TypeInv, TypeOK, Nodes
<1> QED
  BY <1>4, <1>5 DEF AnswerInv

(* A message flagged needs_escalation is never answered by the responder,  *)
(* although triage reads the thread's checkpoint after its await, and a    *)
(* resume may go on from a node other than escalation.                     *)
THEOREM EscalatedHeld == Spec => []EscalatedNotAnswered
<1>1. TypeInv /\ AnswerInv /\ [Next]_vars => AnswerInv'
  <2> SUFFICES ASSUME TypeInv, AnswerInv, [Next]_vars PROVE AnswerInv'
    OBVIOUS
  <2>1. Calls \subseteq Callers /\ Resumes \subseteq Callers
    BY DEF Callers
  <2> QED
    BY <2>1, StepCases, AnswerQuiet, AnswerStart, AnswerMoved, AnswerGiven
<1>2. AnswerInv => EscalatedNotAnswered
  BY DEF AnswerInv
<1> QED
  BY <1>1, <1>2, AnswerInit, Typed, PTL DEF Spec

-----------------------------------------------------------------------------
(* The session memory                                                      *)

HeardIn(s, m) == \E j \in DOMAIN s : s[j] = [role |-> "user", msg |-> m]

Paired(s) ==
  \A i \in DOMAIN s : s[i].role = "assistant" =>
    \E j \in 1 .. i - 1 : s[j] = [role |-> "user", msg |-> s[i].msg]

(* A run past the classifier has its message in the memory of its thread,  *)
(* and so has a checkpoint from which such a run may be taken up again.    *)
HeardInv ==
  /\ \A c \in Callers : pc[c] \in Nodes \ {"classifier"} => HeardIn(memory[thread[c]], vals[c].msg)
  /\ \A t \in Threads : ckpt[t].next \in Nodes \ {"classifier"} =>
       HeardIn(memory[t], ckpt[t].vals.msg)

TurnsInv == HeardInv /\ \A t \in Threads : Paired(memory[t])

(* No message is forgotten, turns stay paired, and a user's turn is heard. *)
Extends(old, new, role, m) ==
  /\ Paired(new)
  /\ \A n : HeardIn(old, n) => HeardIn(new, n)
  /\ role = "user" => HeardIn(new, m)

(* A turn is said after all those already in the memory. *)
LEMMA TurnSaid ==
  ASSUME NEW old \in Seq(Turn), NEW m \in Calls, NEW role \in {"user", "assistant"},
         Paired(old), role = "assistant" => HeardIn(old, m),
         NEW new, new = Append(old, [role |-> role, msg |-> m])
  PROVE  Extends(old, new, role, m)
<1> DEFINE turn == [role |-> role, msg |-> m]
<1>1. turn \in Turn
  BY DEF Turn
<1>2. turn.role = role /\ turn.msg = m
  OBVIOUS
<1> HIDE DEF turn
<1>3. /\ Len(old) \in Nat /\ DOMAIN old = 1 .. Len(old) /\ DOMAIN new = 1 .. Len(old) + 1
      /\ new[Len(old) + 1] = turn /\ \A i \in 1 .. Len(old) : new[i] = old[i]
  <2>1. new = Append(old, turn)
    BY DEF turn
  <2> QED
    BY <1>1, <2>1
<1>4. \A n : HeardIn(old, n) => HeardIn(new, n)
  BY <1>3 DEF HeardIn
<1>5. role = "user" => HeardIn(new, m)
  <2>1. role = "user" => new[Len(old) + 1] = [role |-> "user", msg |-> m]
    BY <1>3 DEF turn
  <2> QED
    BY <1>3, <2>1 DEF HeardIn
<1>6. ASSUME NEW i \in DOMAIN new, new[i].role = "assistant"
      PROVE  \E j \in 1 .. i - 1 : new[j] = [role |-> "user", msg |-> new[i].msg]
  <2>1. CASE i \in 1 .. Len(old)
    <3>1. PICK j \in 1 .. i - 1 : old[j] = [role |-> "user", msg |-> old[i].msg]
      BY <1>3, <1>6, <2>1 DEF Paired
    <3> QED
      BY <1>3, <2>1, <3>1
  <2>2. CASE i = Len(old) + 1
    <3>1. PICK j \in DOMAIN old : old[j] = [role |-> "user", msg |-> m]
      BY <1>2, <1>3, <1>6, <2>2 DEF HeardIn
    <3>2. j \in 1 .. i - 1 /\ new[j] = old[j] /\ new[i].msg = m
      BY <1>2, <1>3, <2>2, <3>1
    <3> QED
      BY <3>1, <3>2
  <2> QED
    BY <1>3, <2>1, <2>2
<1> QED
  BY <1>4, <1>5, <1>6 DEF Extends, Paired

(* What the memory of the threads is after a step of run c: whatever was   *)
(* heard before, and the message of the run once it is classified.         *)
Remembers(c) ==
  /\ \A t \in Threads : Paired(memory'[t])
  /\ \A t \in Threads : \A n : HeardIn(memory[t], n) => HeardIn(memory'[t], n)
  /\ pc[c] = "classifier" => HeardIn(memory'[thread[c]], vals[c].msg)

LEMMA RunRemembers ==
  ASSUME TypeInv, TurnsInv, NEW c \in Callers, pc[c] \in Nodes, RunNode(c),
         ~NodeRaises(c), ~Interrupt(c)
  PROVE  Remembers(c)
<1>1. /\ thread[c] \in Threads /\ vals[c].msg \in Calls
      /\ memory[thread[c]] \in Seq(Turn) /\ memory \in [Threads -> Seq(Turn)]
  BY DEF TypeInv, TypeOK, Placed, Busy
<1>2. CASE pc[c] \notin {"classifier", "store_memory"}
  <2>1. memory' = memory
    BY <1>2 DEF RunNode, Classify, Reflect, RunTool, StoreMemory, Respond, Conclude, stores
  <2> QED
    BY <1>2, <2>1 DEF Remembers, TurnsInv
<1>3. CASE pc[c] \in {"classifier", "store_memory"}
  <2>1. PICK role \in {"user", "assistant"} :
          Say(c, role) /\ (role = "assistant" <=> pc[c] = "store_memory")
    BY <1>3 DEF RunNode, Classify, Reflect, RunTool, StoreMemory, Respond, Conclude
  <2>2. /\ memory'[thread[c]] = Append(memory[thread[c]], [role |-> role, msg |-> vals[c].msg])
        /\ \A t \in Threads : t # thread[c] => memory'[t] = memory[t]
    BY <1>1, <2>1 DEF Say
  <2>3. role = "assistant" => HeardIn(memory[thread[c]], vals[c].msg)
    BY <2>1 DEF TurnsInv, HeardInv
  <2>4. Paired(memory[thread[c]])
    BY <1>1 DEF TurnsInv
  <2>5. Extends(memory[thread[c]], memory'[thread[c]], role, vals[c].msg)
    BY <1>1, <2>2, <2>3, <2>4, TurnSaid
  <2>6. pc[c] = "classifier" => role = "user"
    BY <2>1
  <2> QED
    BY <2>2, <2>5, <2>6 DEF Extends, Remembers, TurnsInv
<1> QED
  BY <1>2, <1>3

LEMMA TurnsInit == Init => TurnsInv
BY DEF Init, TurnsInv, HeardInv, Paired, NoCheckpoint, Nodes

(* A step that says nothing, or after which nothing of the process is left. *)
LEMMA TurnsQuiet ==
  ASSUME TurnsInv,
         \/ memory' = memory
         \/ /\ memory' = [t \in Threads |-> <<>>]
            /\ \A c \in Callers : pc'[c] \notin Nodes
            /\ \A t \in Threads : ckpt'[t].next = "end",
         \A t \in Threads : \/ ckpt'[t] = ckpt[t]
                            \/ ckpt'[t].next \in {"classifier", "end"},
         \A c \in Callers : pc'[c] \in Nodes \ {"classifier"} =>
           \/ pc'[c] = pc[c] /\ vals'[c] = vals[c] /\ thread'[c] = thread[c]
           \/ \E t \in Threads : /\ thread'[c] = t /\ pc'[c] = ckpt[t].next
                                 /\ vals'[c] = ckpt[t].vals
  PROVE  TurnsInv'
<1>1. CASE memory' = memory
  <2>1. ASSUME NEW c \in Callers, pc'[c] \in Nodes \ {"classifier"}
        PROVE  HeardIn(memory[thread'[c]], vals'[c].msg)
    BY <2>1 DEF TurnsInv, HeardInv
  <2>2. ASSUME NEW t \in Threads, ckpt'[t].next \in Nodes \ {"classifier"}
        PROVE  HeardIn(memory[t], ckpt'[t].vals.msg)
    <3>1. ckpt'[t] = ckpt[t]
      BY <2>2 DEF Nodes
    <3> QED
      BY <2>2, <3>1 DEF TurnsInv, HeardInv
  <2> QED
    BY <1>1, <2>1, <2>2 DEF TurnsInv, HeardInv, HeardIn, Paired
<1>2. CASE memory' = [t \in Threads |-> <<>>] /\ memory' # memory
  BY <1>2 DEF TurnsInv, HeardInv, Paired, Nodes
<1> QED
  BY <1>1, <1>2

(* A run moves: those of its thread have heard no less than before.        *)
LEMMA TurnsMoved ==
  ASSUME TypeInv, TurnsInv, NEW c \in Callers, pc[c] \in Nodes, NEW v \in Values,
         NEW next \in Nodes \cup {"end"}, RunMoves(c, v, next), Moved(c, v, next), Remembers(c)
  PROVE  TurnsInv'
<1>1. HeardIn(memory'[thread[c]], v.msg)
  <2>1. v.msg = vals[c].msg /\ thread[c] \in Threads
    BY DEF Moved, RunMoves
  <2>2. CASE pc[c] = "classifier"
    BY <2>1, <2>2 DEF Remembers
  <2>3. CASE pc[c] # "classifier"
    BY <2>1, <2>3 DEF Remembers, TurnsInv, HeardInv
  <2> QED
    BY <2>2, <2>3
<1>2. ASSUME NEW d \in Callers, pc'[d] \in Nodes \ {"classifier"}
      PROVE  HeardIn(memory'[thread'[d]], vals'[d].msg)
  <2>1. CASE d = c
    BY <1>1, <2>1 DEF RunMoves
  <2>2. CASE d # c
    <3>1. pc[d] = pc'[d] /\ vals'[d] = vals[d] /\ thread'[d] = thread[d]
      BY <2>2 DEF RunMoves
    <3>2. HeardIn(memory[thread[d]], vals[d].msg) /\ thread[d] \in Threads
      BY <1>2, <3>1 DEF TurnsInv, HeardInv, TypeInv, Placed, Busy
    <3> QED
      BY <3>1, <3>2 DEF Remembers
  <2> QED
    BY <2>1, <2>2
<1>3. ASSUME NEW t \in Threads, ckpt'[t].next \in Nodes \ {"classifier"}
      PROVE  HeardIn(memory'[t], ckpt'[t].vals.msg)
  <2>1. CASE t = thread[c]
    BY <1>1, <2>1 DEF RunMoves
  <2>2. CASE t # thread[c]
    BY <1>3, <2>2 DEF RunMoves, Remembers, TurnsInv, HeardInv
  <2> QED
    BY <2>1, <2>2
<1> QED
  BY <1>2, <1>3 DEF TurnsInv, HeardInv, Remembers, HeardIn, Paired

(* Nodes are the only actions that say anything. *)
LEMMA TurnsStep ==
  ASSUME TypeInv, TurnsInv, [Next]_vars
  PROVE  TurnsInv'
<1> USE DEF TypeInv, TypeOK
<1>1. ASSUME NEW c \in Calls, Refuse(c) PROVE TurnsInv'
  BY <1>1, TurnsQuiet DEF Refuse, stores, Nodes, Callers
<1>2. ASSUME NEW c \in Calls, NEW t \in Threads, StartTriage(c, t) PROVE TurnsInv'
  <2> DEFINE v == Input(c, ckpt[t].vals.steps)
  <2>1. /\ pc' = [pc EXCEPT ![c] = "classifier"] /\ vals' = [vals EXCEPT ![c] = v]
        /\ ckpt' = [ckpt EXCEPT ![t] = [next |-> "classifier", vals |-> v]]
        /\ thread' = [thread EXCEPT ![c] = t] /\ memory' = memory /\ c \in Callers
    BY <1>2 DEF StartTriage, stores, Callers
  <2> HIDE DEF v
  <2>2. \A d \in Callers : pc'[d] \in Nodes \ {"classifier"} =>
          pc'[d] = pc[d] /\ vals'[d] = vals[d] /\ thread'[d] = thread[d]
    BY <2>1
  <2>3. \A u \in Threads : ckpt'[u] = ckpt[u] \/ ckpt'[u].next \in {"classifier", "end"}
    BY <2>1
  <2> QED
    BY <2>1, <2>2, <2>3, TurnsQuiet
<1>3. ASSUME NEW r \in Resumes, NEW t \in Threads, NothingToResume(r, t) PROVE TurnsInv'
  BY <1>3, TurnsQuiet DEF NothingToResume, stores, Nodes, Callers
<1>4. ASSUME NEW r \in Resumes, NEW t \in Threads, NEW a \in Verdicts, StartResume(r, t, a)
      PROVE  TurnsInv'
  <2>1. \A d \in Callers :
          \/ pc'[d] = pc[d] /\ vals'[d] = vals[d] /\ thread'[d] = thread[d]
          \/ thread'[d] = t /\ pc'[d] = ckpt[t].next /\ vals'[d] = ckpt[t].vals
    BY <1>4 DEF StartResume
  <2> QED
    BY <1>4, <2>1, TurnsQuiet DEF StartResume, stores
<1>5. ASSUME NEW c \in Callers, NodeRaises(c) \/ Interrupt(c) PROVE TurnsInv'
  <2>1. \A d \in Callers : pc'[d] \in Nodes =>
          pc'[d] = pc[d] /\ vals'[d] = vals[d] /\ thread'[d] = thread[d]
    BY <1>5 DEF NodeRaises, Interrupt, Nodes
  <2> QED
    BY <1>5, <2>1, TurnsQuiet DEF NodeRaises, Interrupt, stores
<1>6. ASSUME NEW c \in Callers, NEW v \in Values, NEW next \in Nodes \cup {"end"},
             RunNode(c), pc[c] \in Nodes, Superstep(c, v, next), Moved(c, v, next)
      PROVE  TurnsInv'
  <2>1. RunMoves(c, v, next)
    BY <1>6, SuperstepEffect
  <2>2. ~NodeRaises(c) /\ ~Interrupt(c)
    <3>1. ckpt'[thread[c]] = [next |-> next, vals |-> v] /\ vals'[c] = v /\ vals'[c].msg \in Calls
      BY <1>6, <2>1 DEF RunMoves, Moved, Placed, Busy
    <3>2. ~NodeRaises(c)
      BY <1>6, <3>1, NoValuesType, ConstantsOK DEF NodeRaises, Callers
    <3>3. ASSUME Interrupt(c) PROVE FALSE
      <4>1. pc'[c] = "returned" /\ pc[c] = "escalation" /\ c \notin fresh
        BY <3>3 DEF Interrupt, HasVerdict
      <4>2. next = "end"
        BY <2>1, <4>1 DEF RunMoves, Nodes
      <4> QED
        BY <1>6, <4>1, <4>2 DEF Moved
    <3> QED
      BY <3>2, <3>3
  <2>3. Remembers(c)
    BY <1>6, <2>2, RunRemembers
  <2> QED
    BY <1>6, <2>1, <2>3, TurnsMoved
<1>7. ASSUME NEW c \in Callers, FinishTriage(c) \/ FinishResume(c) PROVE TurnsInv'
  <2>1. PICK r, s : Answer(c, r, s)
    BY <1>7 DEF FinishTriage, FinishResume
  <2>2. \A d \in Callers : pc'[d] \in Nodes =>
          pc'[d] = pc[d] /\ vals'[d] = vals[d] /\ thread'[d] = thread[d]
    BY <2>1 DEF Answer, Nodes
  <2> QED
    BY <2>1, <2>2, TurnsQuiet DEF Answer, stores
<1>8. ASSUME NEW c \in Callers, RecordDecision(c) PROVE TurnsInv'
  BY <1>8, TurnsQuiet DEF RecordDecision, stores
<1>9. CASE Restart
  BY <1>9, TurnsQuiet, NothingSaid DEF Restart, Nodes, Busy
<1>10. CASE UNCHANGED vars
  BY <1>10, TurnsQuiet DEF vars, stores
<1> QED
  BY <1>1, <1>2, <1>3, <1>4, <1>5, <1>6, <1>7, <1>8, <1>9, <1>10, StepCases

(* Every assistant turn that a later prompt is built from follows the user *)
(* turn of its message, whatever runs share the session and whatever a     *)
(* restart or a resume cut into (add_turn in classifier and store_memory). *)
THEOREM MemoryCoherent == Spec => []TurnsPaired
<1>1. TypeInv /\ TurnsInv /\ [Next]_vars => TurnsInv'
  BY TurnsStep
<1>2. TurnsInv => TurnsPaired
  BY DEF TurnsInv, Paired, TurnsPaired
<1> QED
  BY <1>1, <1>2, TurnsInit, Typed, PTL DEF Spec

-----------------------------------------------------------------------------
(* The trail of a reply                                                    *)

(* RepliesLeaveATrail for one call; and nobody is answered before the end. *)
Trailed(c) ==
  IF Answered(c)
  THEN /\ Len(Trail(c)) = IF <<c, "decision">> \in missed THEN 0 ELSE 1
       /\ \A i \in DOMAIN Trail(c) :
            Trail(c)[i].about = reply[c].about /\ Trail(c)[i].intent = reply[c].intent
       /\ c \in Calls => audited[c] = IF <<c, "entry">> \in missed THEN 0 ELSE 1
  ELSE Trail(c) = <<>> /\ (c \in Calls => audited[c] = 0)

(* Nothing is missed of a call that has not been answered. *)
Unmissed(c) == ~Answered(c) => <<c, "decision">> \notin missed /\ <<c, "entry">> \notin missed

TrailInv ==
  /\ \A c \in Callers : pc[c] # "done" => reply[c] = None
  /\ \A c \in Callers : Trailed(c)
  /\ \A c \in Callers : Unmissed(c)

LEMMA TrailInit == Init => TrailInv
BY DEF Init, TrailInv, Trailed, Unmissed, Answered, Trail, Callers

(* A call whose reply, decision and entry stay as they are.                *)
LEMMA TrailKept ==
  ASSUME NEW c \in Callers, Trailed(c), Answered(c)' <=> Answered(c),
         Answered(c) => reply'[c] = reply[c],
         Trail(c)' = Trail(c), c \in Calls => audited'[c] = audited[c],
         \A kind \in {"decision", "entry"} : <<c, kind>> \in missed' <=> <<c, kind>> \in missed
  PROVE  Trailed(c)'
<1> HIDE DEF Trail, Answered
<1>1. (<<c, "decision">> \in missed)' <=> <<c, "decision">> \in missed
  OBVIOUS
<1>2. (<<c, "entry">> \in missed)' <=> <<c, "entry">> \in missed
  OBVIOUS
<1>3. CASE Answered(c)
  BY <1>1, <1>2, <1>3 DEF Trailed
<1>4. CASE ~Answered(c)
  BY <1>4 DEF Trailed
<1> QED
  BY <1>3, <1>4

LEMMA ErrorStatus == \A code \in {404, 422, 500} : Error(code).status # 200
<1>1. ASSUME NEW code \in {404, 422, 500} PROVE Error(code).status = code
  BY DEF Error
<1> QED
  BY <1>1

(* A step that answers nobody and records nothing. *)
LEMMA TrailQuiet ==
  ASSUME TypeInv, TrailInv, UNCHANGED records,
         \A c \in Callers : pc[c] = "done" => pc'[c] = "done",
         \A c \in Callers :
           \/ reply'[c] = reply[c]
           \/ pc[c] # "done" /\ pc'[c] = "done" /\ \E code \in {404, 422, 500} : reply'[c] = Error(code)
  PROVE  TrailInv'
<1>1. ASSUME NEW c \in Callers
      PROVE  Trailed(c)' /\ Unmissed(c)'
  <2>1. Answered(c)' <=> Answered(c)
    <3>1. CASE reply'[c] = reply[c]
      BY <3>1 DEF Answered
    <3>2. CASE reply[c] = None /\ reply'[c].status # 200
      BY <3>2 DEF Answered
    <3>3. \A code \in {404, 422, 500} : Error(code).status # 200
      BY ErrorStatus
    <3> QED
      BY <3>1, <3>2, <3>3 DEF TrailInv
  <2>2. Answered(c) => reply'[c] = reply[c]
    BY DEF TrailInv, Answered
  <2>3. Trail(c)' = Trail(c) /\ audited' = audited /\ missed' = missed
    BY DEF Trail, records
  <2>4. Trailed(c)'
    BY <2>1, <2>2, <2>3, TrailKept DEF TrailInv
  <2> QED
    BY <2>1, <2>3, <2>4 DEF TrailInv, Unmissed
<1>2. \A c \in Callers : pc'[c] # "done" => reply'[c] = None
  BY DEF TrailInv
<1> QED
  BY <1>1, <1>2 DEF TrailInv

(* What may happen to the ledger entry of a call that answers.             *)
Entered(c) ==
  \/ c \notin Calls /\ UNCHANGED <<audited, missed>>
  \/ c \in Calls /\ audited' = [audited EXCEPT ![c] = @ + 1] /\ missed' = missed
  \/ c \in Calls /\ audited' = audited /\ missed' = missed \cup {<<c, "entry">>}

(* What the length of two joined logs says of each. *)
LEMMA JoinedLogs ==
  ASSUME NEW E, NEW a \in Seq(E), NEW b \in Seq(E)
  PROVE  /\ a \o b = <<>> => a = <<>> /\ b = <<>>
         /\ a # <<>> => a \o b # <<>>
         /\ a # <<>> /\ Len(a \o b) \in {0, 1} => Len(a) = 1 /\ b = <<>>
<1>1. PICK m \in Nat, n \in Nat : m = Len(a) /\ n = Len(b)
  OBVIOUS
<1>2. Len(a \o b) = m + n
  BY <1>1
<1>3. Len(<<>>) = 0 /\ (m = 0 => a = <<>>) /\ (n = 0 => b = <<>>)
  BY <1>1
<1>4. a \o b = <<>> => m = 0 /\ n = 0
  BY <1>2, <1>3
<1>5. a # <<>> => m # 0
  BY <1>3
<1> QED
  BY <1>1, <1>2, <1>3, <1>4, <1>5

(* A call answers: its decision says what the reply says.                  *)
LEMMA TrailAnswered ==
  ASSUME TypeInv, TrailInv, NEW c \in Callers, NEW r \in Reply, NEW s,
         Answer(c, r, s), r.status = 200, pc[c] # "done", Entered(c)
  PROVE  TrailInv'
<1> DEFINE e == DecisionOf(c, r, s)
<1>1. /\ pc' = [pc EXCEPT ![c] = "done"] /\ reply' = [reply EXCEPT ![c] = r]
      /\ tasks' = [tasks EXCEPT ![c] = Append(@, e)] /\ decisions' = decisions
  BY DEF Answer
<1>2. e.about = r.about /\ e.intent = r.intent
  BY DEF DecisionOf
<1> HIDE DEF e
<1>3. \A d \in Callers : /\ pc'[d] = IF d = c THEN "done" ELSE pc[d]
                         /\ reply'[d] = IF d = c THEN r ELSE reply[d]
  BY <1>1 DEF TypeInv, TypeOK
<1>4. Answered(c)' /\ ~Answered(c)
  BY <1>3, NoneIsNoReply DEF Answered, TrailInv
<1>5. /\ Trail(c) = <<>> /\ (c \in Calls => audited[c] = 0)
      /\ <<c, "decision">> \notin missed /\ <<c, "entry">> \notin missed
  BY <1>4 DEF TrailInv, Trailed, Unmissed
<1>6. Trail(c)' = <<e>>
  <2>1. tasks[c] \in Seq(Decision) /\ decisions[c] \in Seq(Decision)
    BY DEF TypeInv, TypeOK
  <2>2. tasks[c] = <<>> /\ decisions[c] = <<>>
    BY <1>5, <2>1, JoinedLogs DEF Trail
  <2>3. tasks'[c] = <<e>> /\ decisions'[c] = <<>>
    BY <1>1, <2>2 DEF TypeInv, TypeOK
  <2> QED
    BY <2>3 DEF Trail
<1>7. Trailed(c)'
  <2>1. Len(<<e>>) = 1 /\ DOMAIN <<e>> = {1} /\ <<e>>[1] = e
    OBVIOUS
  <2>2. reply'[c] = r /\ <<c, "decision">> \notin missed'
    BY <1>3, <1>5 DEF Entered
  <2>3. c \in Calls => audited'[c] = IF <<c, "entry">> \in missed' THEN 0 ELSE 1
    BY <1>5 DEF Entered, TypeInv, TypeOK
  <2> QED
    BY <1>2, <1>4, <1>6, <2>1, <2>2, <2>3 DEF Trailed
<1>8. ASSUME NEW d \in Callers, d # c
      PROVE  Trailed(d)' /\ Unmissed(d)'
  <2>1. Trail(d)' = Trail(d)
    BY <1>1, <1>8 DEF Trail, TypeInv, TypeOK
  <2>2. reply'[d] = reply[d] /\ (Answered(d)' <=> Answered(d))
    BY <1>3, <1>8 DEF Answered
  <2>3. /\ d \in Calls => audited'[d] = audited[d]
        /\ \A kind \in {"decision", "entry"} : <<d, kind>> \in missed' <=> <<d, kind>> \in missed
    BY <1>8 DEF Entered, TypeInv, TypeOK
  <2>4. Trailed(d)'
    BY <2>1, <2>2, <2>3, TrailKept DEF TrailInv
  <2> QED
    BY <2>2, <2>3, <2>4 DEF TrailInv, Unmissed
<1>9. \A d \in Callers : pc'[d] # "done" => reply'[d] = None
  BY <1>3 DEF TrailInv
<1>10. Unmissed(c)'
  BY <1>4 DEF Unmissed
<1> QED
  BY <1>7, <1>8, <1>9, <1>10 DEF TrailInv

LEMMA TrailFinished ==
  ASSUME TypeInv, TrailInv, NEW c \in Callers, FinishTriage(c) \/ FinishResume(c)
  PROVE  TrailInv'
<1>1. CASE FinishTriage(c)
  <2> DEFINE s == ckpt[thread[c]]
  <2>1. s \in Checkpoint /\ s.vals \in Values /\ pc[c] # "done"
    BY <1>1 DEF FinishTriage, TypeInv, TypeOK, Placed, Busy, Checkpoint
  <2>2. /\ Answer(c, TriageReply(s), s.vals.steps) \/ Answer(c, Fallback(s.vals.msg), s.vals.steps)
        /\ Entered(c)
    BY <1>1 DEF FinishTriage, Entered
  <2> HIDE DEF s
  <2>3. TriageReply(s) \in Reply
    BY <2>1 DEF TriageReply, Reply, Values
  <2>4. Fallback(s.vals.msg) \in Reply
    BY <2>1 DEF Fallback, Reply, Values, Intents
  <2>5. TriageReply(s).status = 200 /\ Fallback(s.vals.msg).status = 200
    BY DEF TriageReply, Fallback
  <2> QED
    BY <2>1, <2>2, <2>3, <2>4, <2>5, TrailAnswered
<1>2. CASE FinishResume(c)
  <2>1. vals[c] \in Values /\ pc[c] # "done" /\ c \notin Calls
    BY <1>2, ConstantsOK DEF FinishResume, TypeInv, TypeOK
  <2>2. Answer(c, ResumeReply(vals[c]), vals[c].steps) /\ Entered(c)
    BY <1>2, <2>1 DEF FinishResume, Entered
  <2>3. ResumeReply(vals[c]) \in Reply /\ ResumeReply(vals[c]).status = 200
    BY <2>1, ResumeReplyType DEF ResumeReply
  <2> QED
    BY <2>1, <2>2, <2>3, TrailAnswered
<1> QED
  BY <1>1, <1>2

(* A call whose one decision goes missing.                                 *)
LEMMA TrailMissed ==
  ASSUME NEW c \in Callers, Trailed(c), Answered(c), Answered(c)', reply'[c] = reply[c],
         Trail(c)' = <<>>, audited' = audited, <<c, "decision">> \in missed',
         <<c, "entry">> \in missed' <=> <<c, "entry">> \in missed
  PROVE  Trailed(c)'
<1>1. Len(<<>>) = 0 /\ DOMAIN <<>> = {}
  OBVIOUS
<1>2. (<<c, "entry">> \in missed)' <=> <<c, "entry">> \in missed
  OBVIOUS
<1> HIDE DEF Trail, Answered
<1> QED
  BY <1>1, <1>2 DEF Trailed

(* A call with a queued task has been answered, and it is its one decision.*)
LEMMA TrailQueued ==
  ASSUME TypeInv, TrailInv, NEW c \in Callers, tasks[c] # <<>>
  PROVE  /\ Answered(c) /\ tasks[c] \in Seq(Decision) /\ decisions[c] = <<>>
         /\ tasks[c] = <<Head(tasks[c])>>
<1>1. tasks[c] \in Seq(Decision) /\ decisions[c] \in Seq(Decision)
  BY DEF TypeInv, TypeOK
<1>2. Trail(c) # <<>>
  BY <1>1, JoinedLogs DEF Trail
<1>3. Answered(c) /\ Len(Trail(c)) \in {0, 1}
  BY <1>2 DEF TrailInv, Trailed
<1>4. Len(tasks[c]) = 1 /\ decisions[c] = <<>>
  BY <1>1, <1>3, JoinedLogs DEF Trail
<1>5. tasks[c] = <<Head(tasks[c])>>
  BY <1>1, <1>4
<1> QED
  BY <1>1, <1>3, <1>4, <1>5

(* A background task is taken up: its decision is kept, or its store fails.*)
LEMMA TrailRecorded ==
  ASSUME TypeInv, TrailInv, NEW c \in Callers, RecordDecision(c)
  PROVE  TrailInv'
<1>1. /\ tasks[c] # <<>> /\ tasks' = [tasks EXCEPT ![c] = Tail(@)]
      /\ UNCHANGED <<pc, reply, audited>>
      /\ \/ decisions' = [decisions EXCEPT ![c] = Append(@, Head(tasks[c]))] /\ missed' = missed
         \/ decisions' = decisions /\ missed' = missed \cup {<<c, "decision">>}
  BY DEF RecordDecision
<1>2. \A d \in Callers : reply'[d] = reply[d] /\ (Answered(d)' <=> Answered(d))
  BY <1>1 DEF Answered
<1>3. PICK e : Answered(c) /\ decisions[c] = <<>> /\ tasks[c] = <<e>> /\ e = Head(tasks[c])
  BY <1>1, TrailQueued
<1>4. tasks'[c] = <<>>
  <2>1. tasks'[c] = Tail(tasks[c])
    BY <1>1 DEF TypeInv, TypeOK
  <2>2. Tail(<<e>>) = <<>>
    OBVIOUS
  <2> QED
    BY <1>3, <2>1, <2>2
<1>5. Trailed(c)'
  <2>1. CASE missed' = missed
    <3>1. CASE <<c, "decision">> \in missed
      <4>1. Len(Trail(c)) = 0
        BY <1>3, <3>1 DEF TrailInv, Trailed
      <4> QED
        BY <1>3, <4>1 DEF Trail
    <3>2. CASE <<c, "decision">> \notin missed
      <4>1. decisions'[c] = <<e>>
        BY <1>1, <1>3, <2>1, <3>2 DEF TypeInv, TypeOK
      <4>2. Trail(c)' = <<e>> /\ Trail(c) = <<e>>
        BY <1>3, <1>4, <4>1 DEF Trail
      <4> QED
        BY <1>1, <1>2, <2>1, <4>2, TrailKept DEF TrailInv
    <3> QED
      BY <3>1, <3>2
  <2>2. CASE decisions' = decisions /\ missed' = missed \cup {<<c, "decision">>}
    <3>1. Trail(c)' = <<>>
      BY <1>3, <1>4, <2>2 DEF Trail
    <3>2. Trailed(c)
      BY DEF TrailInv
    <3>3. <<c, "entry">> \in missed' <=> <<c, "entry">> \in missed
      BY <2>2
    <3> QED
      BY <1>1, <1>2, <1>3, <2>2, <3>1, <3>2, <3>3, TrailMissed
  <2> QED
    BY <1>1, <2>1, <2>2
<1>6. ASSUME NEW d \in Callers, d # c
      PROVE  Trailed(d)' /\ Unmissed(d)'
  <2>1. Trail(d)' = Trail(d)
    BY <1>1, <1>6 DEF Trail, TypeInv, TypeOK
  <2>2. \A kind \in {"decision", "entry"} : <<d, kind>> \in missed' <=> <<d, kind>> \in missed
    BY <1>1, <1>6
  <2>3. Trailed(d)'
    BY <1>1, <1>2, <2>1, <2>2, TrailKept DEF TrailInv
  <2> QED
    BY <1>2, <2>2, <2>3 DEF TrailInv, Unmissed
<1>7. Unmissed(c)'
  BY <1>2, <1>3 DEF Unmissed
<1>8. \A d \in Callers : pc'[d] # "done" => reply'[d] = None
  BY <1>1 DEF TrailInv
<1> QED
  BY <1>5, <1>6, <1>7, <1>8 DEF TrailInv

(* After a restart what was queued is missing, and nothing else.           *)
LEMMA TrailRestarted ==
  ASSUME TypeInv, TrailInv, Restart
  PROVE  TrailInv'
<1>1. /\ tasks' = [c \in Callers |-> <<>>] /\ UNCHANGED <<audited, decisions, reply>>
      /\ missed' = missed \cup {<<c, "decision">> : c \in {c \in Callers : tasks[c] # <<>>}}
      /\ \A c \in Callers : pc[c] = "done" => pc'[c] = "done"
  BY DEF Restart, TypeInv, TypeOK, Busy, Nodes
<1>2. \A c \in Callers : reply'[c] = reply[c] /\ (Answered(c)' <=> Answered(c))
  BY <1>1 DEF Answered
<1>3. \A c \in Callers : /\ <<c, "entry">> \in missed' <=> <<c, "entry">> \in missed
                         /\ tasks[c] # <<>> => <<c, "decision">> \in missed'
                         /\ tasks[c] = <<>> => (<<c, "decision">> \in missed' <=> <<c, "decision">> \in missed)
  BY <1>1
<1>4. ASSUME NEW c \in Callers
      PROVE  Trailed(c)' /\ Unmissed(c)'
  <2>1. Trailed(c)
    BY DEF TrailInv
  <2>2. CASE tasks[c] # <<>>
    <3>1. Answered(c) /\ decisions[c] = <<>>
      BY <2>2, TrailQueued
    <3>2. Trail(c)' = <<>>
      BY <1>1, <3>1 DEF Trail
    <3>3. Trailed(c)'
      BY <1>1, <1>2, <1>3, <2>1, <2>2, <3>1, <3>2, TrailMissed
    <3> QED
      BY <1>2, <3>1, <3>3 DEF Unmissed
  <2>3. CASE tasks[c] = <<>>
    <3>1. Trail(c)' = Trail(c)
      BY <1>1, <2>3 DEF Trail
    <3>2. \A kind \in {"decision", "entry"} : <<c, kind>> \in missed' <=> <<c, kind>> \in missed
      BY <1>3, <2>3
    <3>3. Trailed(c)'
      BY <1>1, <1>2, <2>1, <3>1, <3>2, TrailKept
    <3> QED
      BY <1>2, <3>2, <3>3 DEF TrailInv, Unmissed
  <2> QED
    BY <2>2, <2>3
<1>5. \A c \in Callers : pc'[c] # "done" => reply'[c] = None
  BY <1>1 DEF TrailInv
<1> QED
  BY <1>4, <1>5 DEF TrailInv

LEMMA TrailStep ==
  ASSUME TypeInv, TrailInv, [Next]_vars
  PROVE  TrailInv'
<1> USE DEF TypeInv, TypeOK
<1>1. ASSUME NEW c \in Callers, Refuse(c) \/ NodeRaises(c) \/ \E t \in Threads : NothingToResume(c, t)
      PROVE  TrailInv'
  <2>1. PICK code \in {404, 422, 500} :
          pc' = [pc EXCEPT ![c] = "done"] /\ reply' = [reply EXCEPT ![c] = Error(code)]
    BY <1>1 DEF Refuse, NodeRaises, NothingToResume
  <2>2. pc[c] # "done" /\ UNCHANGED records
    BY <1>1 DEF Refuse, NodeRaises, NothingToResume
  <2> QED
    BY <2>1, <2>2, TrailQuiet
<1>2. ASSUME NEW c \in Callers,
             \/ Interrupt(c)
             \/ \E t \in Threads : StartTriage(c, t)
             \/ \E t \in Threads, a \in Verdicts : StartResume(c, t, a)
             \/ \E v, next : pc[c] \in Nodes /\ Superstep(c, v, next)
      PROVE  TrailInv'
  <2>1. /\ UNCHANGED <<reply, records>> /\ pc[c] # "done"
        /\ \A d \in Callers : d # c => pc'[d] = pc[d]
    BY <1>2 DEF Interrupt, StartTriage, StartResume, Superstep, Nodes
  <2> QED
    BY <2>1, TrailQuiet
<1>3. CASE UNCHANGED vars
  BY <1>3, TrailQuiet DEF vars
<1>4. Calls \subseteq Callers /\ Resumes \subseteq Callers
  BY DEF Callers
<1> QED
  BY <1>1, <1>2, <1>3, <1>4, StepCases, TrailFinished, TrailRecorded, TrailRestarted

(* A 200 leaves its trail: exactly one decision, which states what the     *)
(* reply stated, and for a triage call exactly one ledger entry; a call    *)
(* misses one only if the store failed for it, or a restart came between   *)
(* its reply and its background task (record_decision, audit_record).      *)
THEOREM TrailLeft == Spec => []RepliesLeaveATrail
<1>1. TypeInv /\ TrailInv /\ [Next]_vars => TrailInv'
  BY TrailStep
<1>2. TrailInv => RepliesLeaveATrail
  BY DEF TrailInv, Trailed, RepliesLeaveATrail
<1> QED
  BY <1>1, <1>2, TrailInit, Typed, PTL DEF Spec

-----------------------------------------------------------------------------
(* Part 3.  Clients that wait for their reply.                             *)

(* The inductive invariant                                                 *)

(* A thread has one run in flight, which agrees with the checkpoint, and a *)
(* triage call works on its own message.                                   *)
Alone ==
  \A c, d \in Callers : pc[c] \in Busy /\ pc[d] \in Busy /\ thread[c] = thread[d] => c = d

InStep(c) ==
  /\ ckpt[thread[c]].vals = vals[c]
  /\ pc[c] \in Nodes => ckpt[thread[c]].next = pc[c]
  /\ c \in Calls => vals[c].msg = c

SerialInv ==
  /\ Alone
  /\ \A c \in Callers : pc[c] \in Busy => InStep(c)
  /\ ReplyIsForItsMessage

(* A message that has not come past the tool has no ticket. *)
BeforeTicket == {"classifier", "reflect", "tool_runner"}

TicketInv ==
  /\ \A m \in Calls : tickets[m] \in {0, 1} /\ (pc[m] = "idle" => tickets[m] = 0)
  /\ \A t \in Threads :
       ckpt[t].next \in BeforeTicket => tickets[ckpt[t].vals.msg] = 0

(* What is left to run on a thread without a run waits for a human, whose  *)
(* verdict no reply has carried: its message was held.                     *)
Undecided(m) == \A r \in Resumes : Answered(r) => reply[r].about # m

Held(m) == m \in Calls /\ Answered(m) /\ reply[m].interrupted /\ Undecided(m)

Idle(t) == \A c \in Callers : pc[c] \in Busy => thread[c] # t

Decides(r) ==
  /\ Held(vals[r].msg)
  /\ verdict[r] \in Verdicts
  /\ \/ pc[r] = "escalation" /\ r \in fresh
     \/ pc[r] = "returned" /\ vals[r].text = verdict[r] /\ ckpt[thread[r]].next = "end"

HeldInv ==
  /\ \A t \in Threads :
       Idle(t) /\ ckpt[t].next # "end" => ckpt[t].next = "escalation" /\ Held(ckpt[t].vals.msg)
  /\ \A c \in Calls : pc[c] = "returned" => ckpt[thread[c]].next \in {"end", "escalation"}
  /\ \A r \in Resumes : pc[r] \in Busy => Decides(r)
  /\ ResumeDecidesPending

-----------------------------------------------------------------------------
(* Waiting clients                                                         *)

(* A thread that admits a call has no run in flight. *)
LEMMA AdmitsIdle ==
  ASSUME MaxInFlight <= 1, Alone, NEW t \in Threads, Admits(t)
  PROVE  Idle(t)
<1> SUFFICES ASSUME NEW c \in Callers, pc[c] \in Busy, thread[c] = t PROVE FALSE
  BY DEF Idle
<1>1. InFlight(t) = {c}
  BY DEF InFlight, Alone
<1>2. Cardinality(InFlight(t)) = 1
  BY <1>1, FS_Singleton
<1> QED
  BY <1>2, ConstantsOK DEF Admits

(* An answer given to one call, or none at all. *)
Replies(c, r) == reply'[c] = r /\ \A d \in Callers : d # c => reply'[d] = reply[d]

(* A step that starts no run and moves none: runs end, or stay as they are.*)
LEMMA SerialQuiet ==
  ASSUME SerialInv,
         \A c \in Callers : pc'[c] \in Busy =>
           /\ pc[c] \in Busy /\ thread'[c] = thread[c] /\ vals'[c] = vals[c] /\ ckpt' = ckpt
           /\ pc'[c] \in Nodes => pc'[c] = pc[c],
         \A c \in Calls : Answered(c)' => (Answered(c) /\ reply'[c] = reply[c]) \/ reply'[c].about = c
  PROVE  SerialInv'
<1>1. Alone'
  BY DEF SerialInv, Alone
<1>2. ASSUME NEW c \in Callers, pc'[c] \in Busy PROVE InStep(c)'
  BY <1>2 DEF SerialInv, InStep
<1>3. ReplyIsForItsMessage'
  BY DEF SerialInv, ReplyIsForItsMessage
<1> QED
  BY <1>1, <1>2, <1>3 DEF SerialInv

(* What starts a run on a thread, with a message or where it was left. *)
Starts(c, t, v, n) ==
  /\ pc'[c] = n /\ thread'[c] = t /\ vals'[c] = v
  /\ ckpt'[t] = [next |-> n, vals |-> v]
  /\ \A d \in Callers : d # c => pc'[d] = pc[d] /\ thread'[d] = thread[d] /\ vals'[d] = vals[d]
  /\ \A u \in Threads : u # t => ckpt'[u] = ckpt[u]
  /\ reply' = reply

LEMMA SerialStarts ==
  ASSUME TypeInv, SerialInv, NEW c \in Callers, NEW t \in Threads, NEW v \in Values,
         NEW n \in Nodes, Starts(c, t, v, n), Idle(t), c \in Calls => v.msg = c
  PROVE  SerialInv'
<1>1. Alone'
  BY DEF SerialInv, Alone, Starts, Idle
<1>2. ASSUME NEW d \in Callers, pc'[d] \in Busy PROVE InStep(d)'
  <2>1. CASE d = c
    BY <2>1 DEF InStep, Starts
  <2>2. CASE d # c
    <3>1. pc[d] \in Busy /\ thread'[d] = thread[d] /\ thread[d] \in Threads /\ thread[d] # t
      BY <1>2, <2>2 DEF Starts, Idle, TypeInv, Placed
    <3> QED
      BY <2>2, <3>1 DEF SerialInv, InStep, Starts
  <2> QED
    BY <2>1, <2>2
<1>3. ReplyIsForItsMessage'
  BY DEF SerialInv, ReplyIsForItsMessage, Answered, Starts
<1> QED
  BY <1>1, <1>2, <1>3 DEF SerialInv

(* Starting a run as the handlers do. *)
LEMMA TriageStarts ==
  ASSUME TypeInv, NEW c \in Calls, NEW t \in Threads, StartTriage(c, t)
  PROVE  /\ Input(c, ckpt[t].vals.steps) \in Values
         /\ Input(c, ckpt[t].vals.steps).msg = c
         /\ Starts(c, t, Input(c, ckpt[t].vals.steps), "classifier")
<1> DEFINE v == Input(c, ckpt[t].vals.steps)
<1>1. ckpt[t].vals.steps \in Seq(Step) /\ c \in Callers
  BY DEF TypeInv, TypeOK, Checkpoint, Values, Callers
<1>2. v \in Values /\ v.msg = c
  BY <1>1, InputType
<1>3. /\ vals' = [vals EXCEPT ![c] = v]
      /\ ckpt' = [ckpt EXCEPT ![t] = [next |-> "classifier", vals |-> v]]
      /\ pc' = [pc EXCEPT ![c] = "classifier"]
      /\ thread' = [thread EXCEPT ![c] = t]
      /\ reply' = reply
  BY DEF StartTriage
<1> HIDE DEF v
<1>4. Starts(c, t, v, "classifier")
  BY <1>1, <1>3 DEF Starts, TypeInv, TypeOK
<1> QED
  BY <1>2, <1>4 DEF v

LEMMA ResumeStarts ==
  ASSUME TypeInv, NEW r \in Resumes, NEW t \in Threads, NEW a \in Verdicts, StartResume(r, t, a)
  PROVE  /\ ckpt[t].next \in Nodes /\ ckpt[t].vals \in Values
         /\ Starts(r, t, ckpt[t].vals, ckpt[t].next)
<1>1. ckpt[t] \in Checkpoint /\ ckpt[t].next # "end" /\ r \in Callers
  BY DEF StartResume, Resumable, TypeInv, TypeOK, Callers
<1>2. ckpt[t] = [next |-> ckpt[t].next, vals |-> ckpt[t].vals]
  BY <1>1 DEF Checkpoint
<1>3. Starts(r, t, ckpt[t].vals, ckpt[t].next)
  BY <1>1, <1>2 DEF StartResume, Starts, TypeInv, TypeOK
<1> QED
  BY <1>1, <1>3 DEF Checkpoint

LEMMA SerialMoves ==
  ASSUME TypeInv, SerialInv, NEW c \in Callers, pc[c] \in Nodes, NEW v \in Values,
         NEW next \in Nodes \cup {"end"}, RunMoves(c, v, next), v.msg = vals[c].msg
  PROVE  SerialInv'
<1>1. Alone'
  BY DEF SerialInv, Alone, RunMoves, Busy
<1>2. ASSUME NEW d \in Callers, pc'[d] \in Busy PROVE InStep(d)'
  <2>1. CASE d = c
    <3>1. pc[c] \in Busy /\ InStep(c)
      BY DEF SerialInv, Busy
    <3> QED
      BY <2>1, <3>1 DEF InStep, RunMoves, Nodes
  <2>2. CASE d # c
    <3>1. pc[d] \in Busy /\ pc[c] \in Busy /\ thread[d] \in Threads
      BY <1>2, <2>2 DEF RunMoves, TypeInv, Placed, Busy
    <3>2. thread[d] # thread[c]
      BY <2>2, <3>1 DEF SerialInv, Alone
    <3> QED
      BY <2>2, <3>1, <3>2 DEF SerialInv, InStep, RunMoves
  <2> QED
    BY <2>1, <2>2
<1>3. ReplyIsForItsMessage'
  BY DEF SerialInv, ReplyIsForItsMessage, Answered, RunMoves
<1> QED
  BY <1>1, <1>2, <1>3 DEF SerialInv

(* What ends a call: a refusal, or the reply of a run that has returned.   *)
TurnedWith(c, code) ==
  /\ pc' = [pc EXCEPT ![c] = "done"] /\ reply' = [reply EXCEPT ![c] = Error(code)]
  /\ ckpt' = ckpt /\ thread' = thread /\ verdict' = verdict /\ tickets' = tickets
  /\ vals' = vals \/ vals' = [vals EXCEPT ![c] = NoValues]
  /\ (pc[c] = "idle" /\ fresh' = fresh) \/ NodeRaises(c)

Turned(c) == \E code \in {404, 422, 500} : TurnedWith(c, code)

LEMMA WhoIsTurned ==
  /\ \A c \in Calls : Refuse(c) => Turned(c)
  /\ \A r \in Resumes, t \in Threads : NothingToResume(r, t) => Turned(r)
  /\ \A c \in Callers : NodeRaises(c) => Turned(c)
BY DEF Turned, TurnedWith, Refuse, NothingToResume, NodeRaises, stores

(* The reply of a finished call: about the message of its values. *)
Ends(c, r) ==
  /\ pc[c] = "returned"
  /\ pc' = [pc EXCEPT ![c] = "done"] /\ reply' = [reply EXCEPT ![c] = r]
  /\ vals' = [vals EXCEPT ![c] = NoValues]
  /\ ckpt' = ckpt /\ thread' = thread /\ verdict' = verdict /\ tickets' = tickets /\ fresh' = fresh
  /\ r.status = 200
  /\ \/ /\ c \in Calls /\ r.about = ckpt[thread[c]].vals.msg
        /\ r.interrupted <=> ckpt[thread[c]].next # "end"
     \/ c \in Resumes /\ r = ResumeReply(vals[c])

LEMMA WhoEnds ==
  ASSUME TypeInv, NEW c \in Callers, FinishTriage(c) \/ FinishResume(c)
  PROVE  \E r \in Reply : Ends(c, r)
<1>1. CASE FinishResume(c)
  <2>1. ResumeReply(vals[c]) \in Reply
    BY ResumeReplyType DEF TypeInv, TypeOK
  <2>2. Ends(c, ResumeReply(vals[c]))
    BY <1>1 DEF FinishResume, Answer, Ends, ResumeReply, stores
  <2> QED
    BY <2>1, <2>2
<1>2. CASE FinishTriage(c)
  <2> DEFINE s == ckpt[thread[c]]
  <2>1. s \in Checkpoint /\ s.vals \in Values
    BY <1>2 DEF FinishTriage, TypeInv, TypeOK, Placed, Busy, Checkpoint
  <2>2. PICK r : /\ \E steps : Answer(c, r, steps)
                 /\ r = TriageReply(s) \/ (r = Fallback(s.vals.msg) /\ s.next = "end")
    BY <1>2 DEF FinishTriage
  <2> HIDE DEF s
  <2>3. TriageReply(s) \in Reply
    BY <2>1 DEF TriageReply, Reply, Values
  <2>4. Fallback(s.vals.msg) \in Reply
    BY <2>1 DEF Fallback, Reply, Values, Intents
  <2>5. r.status = 200 /\ r.about = s.vals.msg /\ (r.interrupted <=> s.next # "end")
    BY <2>2 DEF TriageReply, Fallback
  <2>6. Ends(c, r)
    BY <1>2, <2>2, <2>5 DEF FinishTriage, Answer, Ends, stores, s
  <2> QED
    BY <2>2, <2>3, <2>4, <2>6
<1> QED
  BY <1>1, <1>2

LEMMA SerialInit == Init => SerialInv
<1> SUFFICES ASSUME Init PROVE SerialInv
  OBVIOUS
<1>1. \A c \in Callers : pc[c] \notin Busy /\ ~Answered(c)
  BY DEF Init, Busy, Nodes, Answered
<1> QED
  BY <1>1 DEF SerialInv, Alone, ReplyIsForItsMessage, Callers

LEMMA SerialStep ==
  ASSUME MaxInFlight <= 1, TypeInv, SerialInv, [Next]_vars
  PROVE  SerialInv'
<1>1. ASSUME NEW c \in Callers, Turned(c) PROVE SerialInv'
  <2>1. \A d \in Calls : Answered(d)' => Answered(d) /\ reply'[d] = reply[d]
    BY <1>1, ErrorStatus DEF Turned, TurnedWith, Answered, TypeInv, TypeOK, Callers
  <2>2. \A d \in Callers : pc'[d] \in Busy =>
          pc'[d] = pc[d] /\ thread'[d] = thread[d] /\ vals'[d] = vals[d] /\ ckpt' = ckpt
    BY <1>1 DEF Turned, TurnedWith, TypeInv, TypeOK, Busy, Nodes
  <2> QED
    BY <2>1, <2>2, SerialQuiet
<1>2. ASSUME NEW c \in Callers, NEW r \in Reply, Ends(c, r) PROVE SerialInv'
  <2>1. \A d \in Callers : pc'[d] \in Busy =>
          pc'[d] = pc[d] /\ thread'[d] = thread[d] /\ vals'[d] = vals[d] /\ ckpt' = ckpt
    BY <1>2 DEF Ends, TypeInv, TypeOK, Busy, Nodes
  <2>2. c \in Calls => r.about = c
    BY <1>2, ConstantsOK DEF Ends, SerialInv, InStep, Busy
  <2>3. \A d \in Calls :
          Answered(d)' => (Answered(d) /\ reply'[d] = reply[d]) \/ reply'[d].about = d
    BY <1>2, <2>2 DEF Ends, Answered, TypeInv, TypeOK, Callers
  <2> QED
    BY <2>1, <2>3, SerialQuiet
<1>3. ASSUME NEW c \in Calls, NEW t \in Threads, StartTriage(c, t) PROVE SerialInv'
  <2>1. Idle(t)
    BY <1>3, AdmitsIdle DEF StartTriage, SerialInv
  <2> QED
    BY <1>3, <2>1, TriageStarts, SerialStarts DEF Callers, Nodes
<1>4. ASSUME NEW r \in Resumes, NEW t \in Threads, NEW a \in Verdicts, StartResume(r, t, a)
      PROVE  SerialInv'
  <2>1. Idle(t) /\ r \notin Calls
    BY <1>4, AdmitsIdle, ConstantsOK DEF StartResume, SerialInv
  <2> QED
    BY <1>4, <2>1, ResumeStarts, SerialStarts DEF Callers
<1>5. ASSUME NEW c \in Callers, Interrupt(c) PROVE SerialInv'
  <2>1. \A d \in Callers : pc'[d] \in Busy =>
          /\ pc[d] \in Busy /\ thread'[d] = thread[d] /\ vals'[d] = vals[d] /\ ckpt' = ckpt
          /\ pc'[d] \in Nodes => pc'[d] = pc[d]
    BY <1>5 DEF Interrupt, TypeInv, TypeOK, Busy, Nodes
  <2> QED
    BY <1>5, <2>1, SerialQuiet DEF Interrupt, Answered
<1>6. ASSUME NEW c \in Callers, NEW v \in Values, NEW next \in Nodes \cup {"end"},
             pc[c] \in Nodes, Superstep(c, v, next), Moved(c, v, next)
      PROVE  SerialInv'
  BY <1>6, SuperstepEffect, SerialMoves DEF Moved
<1>7. ASSUME NEW c \in Callers, RecordDecision(c) PROVE SerialInv'
  BY <1>7, SerialQuiet DEF RecordDecision, Answered
<1>8. CASE Restart
  <2>1. \A c \in Callers : pc'[c] \notin Busy
    BY <1>8 DEF Restart, Busy, Nodes
  <2> QED
    BY <1>8, <2>1, SerialQuiet DEF Restart, Answered
<1>9. CASE UNCHANGED vars
  BY <1>9, SerialQuiet DEF vars, Answered
<1> QED
  BY <1>1, <1>2, <1>3, <1>4, <1>5, <1>6, <1>7, <1>8, <1>9, StepCases, WhoIsTurned, WhoEnds
     DEF Callers

THEOREM Serial == ASSUME MaxInFlight <= 1 PROVE Spec => []SerialInv
<1>1. TypeInv /\ SerialInv /\ [Next]_vars => SerialInv'
  BY SerialStep
<1> QED
  BY <1>1, SerialInit, Typed, PTL DEF Spec

(* A client that waits for its reply gets the answer to the message it     *)
(* sent, whatever other threads do, although triage reads the thread's     *)
(* checkpoint only after its await.                                        *)
THEOREM OwnAnswers == ASSUME MaxInFlight <= 1 PROVE Spec => []ReplyIsForItsMessage
<1>1. SerialInv => ReplyIsForItsMessage
  BY DEF SerialInv
<1> QED
  BY <1>1, Serial, PTL

-----------------------------------------------------------------------------
(* Tickets                                                                 *)

LEMMA TicketInit == Init => TicketInv
<1> SUFFICES ASSUME Init PROVE TicketInv
  OBVIOUS
<1>1. \A t \in Threads : ckpt[t].next = "end"
  BY DEF Init, NoCheckpoint
<1>2. \A m \in Calls : tickets[m] = 0
  BY DEF Init
<1> QED
  BY <1>1, <1>2 DEF TicketInv, BeforeTicket

(* No ticket is made, no call is idle again, and no checkpoint goes back.  *)
LEMMA TicketQuiet ==
  ASSUME TypeInv, TicketInv, tickets' = tickets,
         \A m \in Calls : pc'[m] = "idle" => pc[m] = "idle",
         \A t \in Threads : ckpt'[t].next \in BeforeTicket =>
           ckpt[t].next \in BeforeTicket /\ ckpt'[t].vals.msg = ckpt[t].vals.msg
  PROVE  TicketInv'
<1>1. \A m \in Calls : tickets'[m] \in {0, 1} /\ (pc'[m] = "idle" => tickets'[m] = 0)
  BY DEF TicketInv
<1>2. \A t \in Threads : ckpt'[t].next \in BeforeTicket => tickets'[ckpt'[t].vals.msg] = 0
  BY DEF TicketInv
<1> QED
  BY <1>1, <1>2, SMTT(30) DEF TicketInv

(* Only tool_runner makes a ticket. *)
LEMMA WhoMakesTickets ==
  ASSUME NEW c \in Callers, RunNode(c)
  PROVE  \/ tickets' = tickets
         \/ pc[c] = "tool_runner" /\ tickets' = [tickets EXCEPT ![vals[c].msg] = @ + 1]
BY DEF RunNode, Classify, Reflect, NodeRaises, RunTool, StoreMemory, Respond, Interrupt, Conclude,
       stores

LEMMA TicketMoves ==
  ASSUME TypeInv, Owned, SerialInv, TicketInv, NEW c \in Callers, pc[c] \in Nodes, RunNode(c),
         NEW v \in Values, NEW next \in Nodes \cup {"end"}, RunMoves(c, v, next), Moved(c, v, next)
  PROVE  TicketInv'
<1> DEFINE u == thread[c]
           m == vals[c].msg
<1>1. /\ u \in Threads /\ m \in Calls /\ v.msg = m
      /\ ckpt[u].next = pc[c] /\ ckpt[u].vals.msg = m
  BY DEF TypeInv, Placed, SerialInv, InStep, Busy, Moved
<1>2. pc'[c] # "idle" /\ \A d \in Callers : d # c => pc'[d] = pc[d]
  BY DEF RunMoves, Nodes
<1>3. next \in BeforeTicket => pc[c] \in BeforeTicket /\ pc[c] # "tool_runner"
  BY DEF Moved, Edges, BeforeTicket
<1>4. ckpt'[u].next = next /\ ckpt'[u].vals.msg = m
      /\ \A t \in Threads : t # u => ckpt'[t] = ckpt[t]
  BY <1>1 DEF RunMoves
<1>5. CASE tickets' = tickets
  <2>1. \A d \in Calls : pc'[d] = "idle" => pc[d] = "idle"
    BY <1>2 DEF Callers
  <2>2. \A t \in Threads : ckpt'[t].next \in BeforeTicket =>
          ckpt[t].next \in BeforeTicket /\ ckpt'[t].vals.msg = ckpt[t].vals.msg
    BY <1>1, <1>3, <1>4
  <2> QED
    BY <1>5, <2>1, <2>2, TicketQuiet
<1>6. CASE pc[c] = "tool_runner" /\ tickets' = [tickets EXCEPT ![m] = @ + 1]
  <2>1. tickets[m] = 0
    BY <1>1, <1>6 DEF TicketInv, BeforeTicket
  <2>2. tickets'[m] = 1 /\ \A d \in Calls : d # m => tickets'[d] = tickets[d]
    BY <1>1, <1>6, <2>1 DEF TypeInv, TypeOK
  <2>3. pc[m] # "idle" /\ thread[m] = u /\ m \in Callers
    BY <1>1 DEF Owned, Callers
  <2>4. pc'[m] # "idle"
    BY <1>2, <2>3
  <2>5. ASSUME NEW d \in Calls PROVE tickets'[d] \in {0, 1} /\ (pc'[d] = "idle" => tickets'[d] = 0)
    BY <1>2, <2>2, <2>4 DEF TicketInv, Callers
  <2>6. ASSUME NEW t \in Threads, ckpt'[t].next \in BeforeTicket
        PROVE  tickets'[ckpt'[t].vals.msg] = 0
    <3>1. t # u /\ ckpt'[t] = ckpt[t]
      BY <1>3, <1>4, <1>6, <2>6
    <3>2. tickets[ckpt[t].vals.msg] = 0 /\ ckpt[t].next # "end"
      BY <2>6, <3>1 DEF TicketInv, BeforeTicket
    <3>3. ckpt[t].vals.msg \in Calls /\ thread[ckpt[t].vals.msg] = t
      BY <3>2 DEF TypeInv, Placed, Owned
    <3> QED
      BY <2>2, <2>3, <3>1, <3>2, <3>3
  <2> QED
    BY <2>5, <2>6 DEF TicketInv, BeforeTicket
<1> QED
  BY <1>5, <1>6, WhoMakesTickets

LEMMA TicketStep ==
  ASSUME TypeInv, Owned, SerialInv, TicketInv, [Next]_vars
  PROVE  TicketInv'
<1>1. ASSUME NEW c \in Callers, Turned(c) PROVE TicketInv'
  <2>1. \A d \in Calls : pc'[d] = "idle" => pc[d] = "idle"
    BY <1>1 DEF Turned, TurnedWith, TypeInv, TypeOK, Callers
  <2> QED
    BY <1>1, <2>1, TicketQuiet DEF Turned, TurnedWith
<1>2. ASSUME NEW c \in Callers, NEW r \in Reply, Ends(c, r) PROVE TicketInv'
  <2>1. \A d \in Calls : pc'[d] = "idle" => pc[d] = "idle"
    BY <1>2 DEF Ends, TypeInv, TypeOK, Callers
  <2> QED
    BY <1>2, <2>1, TicketQuiet DEF Ends
<1>3. ASSUME NEW c \in Calls, NEW t \in Threads, StartTriage(c, t) PROVE TicketInv'
  <2>1. PICK v \in Values : v.msg = c /\ Starts(c, t, v, "classifier")
    BY <1>3, TriageStarts
  <2>2. tickets' = tickets /\ pc[c] = "idle"
    BY <1>3 DEF StartTriage, stores
  <2>3. ASSUME NEW d \in Calls PROVE tickets'[d] \in {0, 1} /\ (pc'[d] = "idle" => tickets'[d] = 0)
    BY <2>1, <2>2 DEF Starts, TicketInv, Callers
  <2>4. ASSUME NEW u \in Threads, ckpt'[u].next \in BeforeTicket
        PROVE  tickets'[ckpt'[u].vals.msg] = 0
    BY <2>1, <2>2, <2>4 DEF Starts, TicketInv
  <2> QED
    BY <2>3, <2>4 DEF TicketInv, BeforeTicket
<1>4. ASSUME NEW r \in Resumes, NEW t \in Threads, NEW a \in Verdicts, StartResume(r, t, a)
      PROVE  TicketInv'
  <2>1. \A d \in Calls : pc'[d] = "idle" => pc[d] = "idle"
    BY <1>4, ResumeStarts DEF Starts, Callers, Nodes
  <2> QED
    BY <1>4, <2>1, TicketQuiet DEF StartResume, stores
<1>5. ASSUME NEW c \in Callers, Interrupt(c) PROVE TicketInv'
  <2>1. \A d \in Calls : pc'[d] = "idle" => pc[d] = "idle"
    BY <1>5 DEF Interrupt, TypeInv, TypeOK, Callers
  <2> QED
    BY <1>5, <2>1, TicketQuiet DEF Interrupt, stores
<1>6. ASSUME NEW c \in Callers, NEW v \in Values, NEW next \in Nodes \cup {"end"},
             RunNode(c), pc[c] \in Nodes, Superstep(c, v, next), Moved(c, v, next)
      PROVE  TicketInv'
  BY <1>6, SuperstepEffect, TicketMoves
<1>7. ASSUME NEW c \in Callers, RecordDecision(c) PROVE TicketInv'
  BY <1>7, TicketQuiet DEF RecordDecision, stores
<1>8. CASE Restart
  <2>1. \A t \in Threads : ckpt'[t].next \notin BeforeTicket
    BY <1>8 DEF Restart, NoCheckpoint, BeforeTicket
  <2>2. \A d \in Calls : pc'[d] = "idle" => pc[d] = "idle"
    BY <1>8 DEF Restart, Callers
  <2> QED
    BY <1>8, <2>1, <2>2, TicketQuiet DEF Restart
<1>9. CASE UNCHANGED vars
  BY <1>9, TicketQuiet DEF vars, stores
<1> QED
  BY <1>1, <1>2, <1>3, <1>4, <1>5, <1>6, <1>7, <1>8, <1>9, StepCases, WhoIsTurned, WhoEnds
     DEF Callers

(* A message has one ticket at most as long as clients wait: a resume      *)
(* never goes through tool_runner a second time, because the checkpoint it *)
(* starts from has left it when the ticket is there.                       *)
THEOREM OneTicket == ASSUME MaxInFlight <= 1 PROVE Spec => []AtMostOneTicket
<1>1. TypeInv /\ TraceInv /\ SerialInv /\ TicketInv /\ [Next]_vars => TicketInv'
  BY TicketStep DEF TraceInv
<1>2. TypeInv /\ TicketInv => AtMostOneTicket
  BY DEF TicketInv, AtMostOneTicket
<1> QED
  BY <1>1, <1>2, TicketInit, Typed, Traced, Serial, PTL DEF Spec

-----------------------------------------------------------------------------
(* Escalations                                                             *)

(* The answers given stay as they are, and no new one is given. *)
SameAnswers ==
  \A c \in Callers : (Answered(c)' <=> Answered(c)) /\ (Answered(c) => reply'[c] = reply[c])

LEMMA HeldSame ==
  ASSUME SameAnswers, NEW m
  PROVE  Held(m)' <=> Held(m)
<1>1. Undecided(m)' <=> Undecided(m)
  BY DEF SameAnswers, Undecided, Callers
<1>2. m \in Calls => (Answered(m)' <=> Answered(m)) /\ (Answered(m) => reply'[m] = reply[m])
  BY DEF SameAnswers, Callers
<1> HIDE DEF SameAnswers, Answered, Undecided
<1> QED
  BY <1>1, <1>2 DEF Held

LEMMA DecidedSame ==
  ASSUME SameAnswers, ResumeDecidesPending,
         \A r \in Resumes : Answered(r) => verdict'[r] = verdict[r]
  PROVE  ResumeDecidesPending'
<1> SUFFICES ASSUME NEW r \in Resumes, Answered(r)'
             PROVE  (/\ reply[r].about \in Calls
                     /\ Answered(reply[r].about) /\ reply[reply[r].about].interrupted
                     /\ reply[r].text = verdict[r])'
  BY DEF ResumeDecidesPending
<1>1. Answered(r) /\ reply'[r] = reply[r] /\ verdict'[r] = verdict[r]
  BY DEF SameAnswers, Callers
<1> DEFINE m == reply[r].about
<1>2. m \in Calls /\ Answered(m) /\ reply[m].interrupted /\ reply[r].text = verdict[r]
  BY <1>1 DEF ResumeDecidesPending
<1>3. Answered(m)' /\ reply'[m] = reply[m]
  BY <1>2 DEF SameAnswers, Callers
<1> QED
  BY <1>1, <1>2, <1>3

LEMMA HeldInit == Init => HeldInv
<1> SUFFICES ASSUME Init PROVE HeldInv
  OBVIOUS
<1>1. \A t \in Threads : ckpt[t].next = "end"
  BY DEF Init, NoCheckpoint
<1>2. \A c \in Callers : pc[c] = "idle" /\ ~Answered(c)
  BY DEF Init, Answered
<1> QED
  BY <1>1, <1>2 DEF HeldInv, ResumeDecidesPending, Callers, Busy, Nodes

(* A step that answers nobody, starts no run and moves none. *)
LEMMA HeldQuiet ==
  ASSUME HeldInv, SameAnswers, verdict' = verdict,
         \A c \in Callers : pc'[c] \in Busy =>
           /\ pc'[c] = pc[c] /\ thread'[c] = thread[c] /\ vals'[c] = vals[c]
           /\ ckpt' = ckpt /\ fresh' = fresh,
         \A t \in Threads : Idle(t)' /\ ckpt'[t].next # "end" => Idle(t) /\ ckpt'[t] = ckpt[t]
  PROVE  HeldInv'
<1>1. ASSUME NEW t \in Threads, Idle(t)', ckpt'[t].next # "end"
      PROVE  (ckpt[t].next = "escalation" /\ Held(ckpt[t].vals.msg))'
  <2>1. ckpt'[t] = ckpt[t] /\ ckpt[t].next = "escalation" /\ Held(ckpt[t].vals.msg)
    BY <1>1 DEF HeldInv
  <2>2. Held(ckpt[t].vals.msg)'
    BY <2>1, HeldSame
  <2> QED
    BY <2>1, <2>2
<1>2. \A c \in Calls : pc'[c] = "returned" => ckpt'[thread'[c]].next \in {"end", "escalation"}
  BY DEF HeldInv, Callers, Busy
<1>3. ASSUME NEW r \in Resumes, pc'[r] \in Busy PROVE Decides(r)'
  <2>1. Decides(r) /\ pc'[r] = pc[r] /\ thread'[r] = thread[r] /\ vals'[r] = vals[r]
        /\ ckpt' = ckpt /\ fresh' = fresh
    BY <1>3 DEF HeldInv, Callers
  <2>2. Held(vals[r].msg)'
    BY <2>1, HeldSame DEF Decides
  <2> QED
    BY <2>1, <2>2 DEF Decides
<1>4. ResumeDecidesPending'
  BY DecidedSame DEF HeldInv
<1> QED
  BY <1>1, <1>2, <1>3, <1>4 DEF HeldInv

(* The run of c ends or moves; what another run stands on stays.           *)
LEMMA OthersDecide ==
  ASSUME TypeInv, SerialInv, HeldInv, NEW c \in Callers, pc[c] \in Busy,
         NEW r \in Resumes, r # c, pc'[r] \in Busy,
         pc'[r] = pc[r], thread' = thread, vals'[r] = vals[r], verdict' = verdict,
         r \in fresh' <=> r \in fresh,
         \A t \in Threads : t # thread[c] => ckpt'[t] = ckpt[t],
         Held(vals[r].msg)'
  PROVE  Decides(r)'
<1>1. pc[r] \in Busy /\ r \in Callers /\ thread[r] \in Threads /\ thread[r] # thread[c]
  BY DEF SerialInv, Alone, TypeInv, Placed, Callers
<1>2. Decides(r) /\ ckpt'[thread[r]] = ckpt[thread[r]]
  BY <1>1 DEF HeldInv
<1> QED
  BY <1>2 DEF Decides

LEMMA HeldMoves ==
  ASSUME TypeInv, SerialInv, HeldInv, NEW c \in Callers, pc[c] \in Nodes, NEW v \in Values,
         NEW next \in Nodes \cup {"end"}, Superstep(c, v, next), RunMoves(c, v, next),
         Moved(c, v, next)
  PROVE  HeldInv'
<1>1. SameAnswers
  BY DEF SameAnswers, Answered, RunMoves
<1>2. pc[c] \in Busy /\ pc'[c] \in Busy /\ \A d \in Callers : pc'[d] \in Busy <=> pc[d] \in Busy
  BY DEF RunMoves, Busy
<1>3. ASSUME NEW t \in Threads, Idle(t)', ckpt'[t].next # "end"
      PROVE  (ckpt[t].next = "escalation" /\ Held(ckpt[t].vals.msg))'
  <2>1. Idle(t) /\ t # thread[c]
    BY <1>2, <1>3 DEF Idle, RunMoves
  <2>2. ckpt'[t] = ckpt[t]
    BY <2>1 DEF RunMoves
  <2>3. ckpt[t].next = "escalation" /\ Held(ckpt[t].vals.msg)
    BY <1>3, <2>1, <2>2 DEF HeldInv
  <2>4. Held(ckpt[t].vals.msg)'
    BY <1>1, <2>2, <2>3, HeldSame
  <2> QED
    BY <2>2, <2>3, <2>4
<1>4. ASSUME NEW d \in Calls, pc'[d] = "returned"
      PROVE  ckpt'[thread'[d]].next \in {"end", "escalation"}
  <2>1. CASE d = c
    BY <1>4, <2>1 DEF RunMoves, Nodes
  <2>2. CASE d # c
    <3>1. pc[d] = "returned" /\ d \in Callers /\ thread[d] \in Threads /\ thread[d] # thread[c]
      BY <1>2, <1>4, <2>2 DEF RunMoves, SerialInv, Alone, TypeInv, Placed, Callers, Busy
    <3> QED
      BY <3>1 DEF HeldInv, RunMoves
  <2> QED
    BY <2>1, <2>2
<1>5. ASSUME NEW r \in Resumes, pc'[r] \in Busy PROVE Decides(r)'
  <2>1. Held(vals[r].msg) /\ Decides(r)
    BY <1>2, <1>5 DEF HeldInv, Decides, Callers
  <2>2. CASE r = c
    <3>1. pc[c] = "escalation" /\ c \in fresh
      BY <2>1, <2>2 DEF Decides, Nodes
    <3>2. next = "end" /\ v.text = verdict[c] /\ v.text \in Verdicts /\ v.msg = vals[c].msg
      BY <3>1 DEF Moved, Edges
    <3>3. /\ pc'[c] = "returned" /\ vals'[c] = v /\ verdict' = verdict /\ thread' = thread
          /\ ckpt'[thread[c]].next = "end"
      BY <3>2 DEF RunMoves
    <3>4. Held(vals[c].msg)'
      BY <1>1, <2>1, <2>2, <3>2, <3>3, HeldSame
    <3> QED
      BY <2>2, <3>2, <3>3, <3>4 DEF Decides
  <2>3. CASE r # c
    <3>1. pc'[r] = pc[r] /\ vals'[r] = vals[r] /\ thread' = thread /\ verdict' = verdict
          /\ (r \in fresh' <=> r \in fresh)
          /\ \A t \in Threads : t # thread[c] => ckpt'[t] = ckpt[t]
      BY <2>3 DEF RunMoves, Superstep, Callers
    <3>2. Held(vals[r].msg)'
      BY <1>1, <2>1, <3>1, HeldSame
    <3> QED
      BY <1>2, <1>5, <2>3, <3>1, <3>2, OthersDecide
  <2> QED
    BY <2>2, <2>3
<1>6. ResumeDecidesPending'
  BY <1>1, DecidedSame DEF HeldInv, RunMoves
<1> QED
  BY <1>3, <1>4, <1>5, <1>6 DEF HeldInv

(* A run starts: no reply changes, and a resume takes up a held message.   *)
LEMMA HeldStarts ==
  ASSUME TypeInv, TrailInv, HeldInv, NEW c \in Callers, NEW t \in Threads, NEW v \in Values,
         NEW n \in Nodes, Starts(c, t, v, n), Idle(t), pc[c] = "idle",
         \A r \in Resumes : r # c => verdict'[r] = verdict[r] /\ (r \in fresh' <=> r \in fresh),
         c \in Resumes =>
           c \in fresh' /\ verdict'[c] \in Verdicts /\ n = "escalation" /\ Held(v.msg)
  PROVE  HeldInv'
<1>1. SameAnswers
  BY DEF SameAnswers, Answered, Starts
<1>2. ~Answered(c)
  BY DEF TrailInv, Answered
<1>3. \A d \in Callers : d # c =>
        pc'[d] = pc[d] /\ thread'[d] = thread[d] /\ vals'[d] = vals[d]
        /\ (pc[d] \in Busy => ckpt'[thread[d]] = ckpt[thread[d]])
  BY DEF Starts, Idle, TypeInv, Placed
<1>4. ASSUME NEW u \in Threads, Idle(u)', ckpt'[u].next # "end"
      PROVE  (ckpt[u].next = "escalation" /\ Held(ckpt[u].vals.msg))'
  <2>1. u # t
    BY <1>4 DEF Idle, Starts, Busy
  <2>2. Idle(u) /\ ckpt'[u] = ckpt[u]
    BY <1>3, <1>4, <2>1 DEF Idle, Starts, Busy, Nodes
  <2>3. ckpt[u].next = "escalation" /\ Held(ckpt[u].vals.msg)
    BY <1>4, <2>2 DEF HeldInv
  <2>4. Held(ckpt[u].vals.msg)'
    BY <1>1, <2>2, <2>3, HeldSame
  <2> QED
    BY <2>2, <2>3, <2>4
<1>5. ASSUME NEW d \in Calls, pc'[d] = "returned"
      PROVE  ckpt'[thread'[d]].next \in {"end", "escalation"}
  BY <1>3, <1>5 DEF HeldInv, Starts, Nodes, Callers, Busy
<1>6. ASSUME NEW r \in Resumes, pc'[r] \in Busy PROVE Decides(r)'
  <2>1. CASE r = c
    <3>1. /\ pc'[c] = "escalation" /\ vals'[c] = v /\ Held(v.msg)
          /\ c \in fresh' /\ verdict'[c] \in Verdicts
      BY <2>1 DEF Starts
    <3>2. Held(vals[c].msg)'
      BY <1>1, <3>1, HeldSame
    <3> QED
      BY <2>1, <3>1, <3>2 DEF Decides
  <2>2. CASE r # c
    <3>1. pc'[r] = pc[r] /\ thread'[r] = thread[r] /\ vals'[r] = vals[r]
          /\ ckpt'[thread[r]] = ckpt[thread[r]] /\ verdict'[r] = verdict[r]
          /\ (r \in fresh' <=> r \in fresh) /\ Decides(r)
      BY <1>3, <1>6, <2>2 DEF HeldInv, Callers
    <3>2. Held(vals[r].msg)'
      BY <1>1, <3>1, HeldSame DEF Decides
    <3> QED
      BY <3>1, <3>2 DEF Decides
  <2> QED
    BY <2>1, <2>2
<1>7. ResumeDecidesPending'
  BY <1>1, <1>2, DecidedSame DEF HeldInv
<1> QED
  BY <1>4, <1>5, <1>6, <1>7 DEF HeldInv

(* An answer: reports of it, and which threads and runs it leaves alone.   *)
LEMMA Answering ==
  ASSUME TypeInv, SerialInv, TrailInv, NEW c \in Callers, NEW a \in Reply, Ends(c, a)
  PROVE  /\ ~Answered(c) /\ Answered(c)' /\ reply'[c] = a
         /\ \A d \in Callers : d # c => /\ pc'[d] = pc[d] /\ vals'[d] = vals[d]
                                        /\ reply'[d] = reply[d] /\ (Answered(d)' <=> Answered(d))
         /\ pc[c] \in Busy /\ pc'[c] = "done" /\ thread[c] \in Threads
         /\ \A t \in Threads : Idle(t)' /\ t # thread[c] => Idle(t)
         /\ UNCHANGED <<ckpt, thread, verdict, fresh>>
<1>1. ~Answered(c) /\ pc[c] \in Busy /\ thread[c] \in Threads
  BY DEF Ends, TrailInv, Answered, TypeInv, Placed, Busy
<1>2. a # None /\ a.status = 200
  BY NoneIsNoReply DEF Ends
<1>3. \A d \in Callers :
        /\ pc'[d] = IF d = c THEN "done" ELSE pc[d]
        /\ reply'[d] = IF d = c THEN a ELSE reply[d]
        /\ vals'[d] = IF d = c THEN NoValues ELSE vals[d]
  BY DEF Ends, TypeInv, TypeOK
<1>4. Answered(c)' /\ \A d \in Callers : d # c => (Answered(d)' <=> Answered(d))
  BY <1>2, <1>3 DEF Answered
<1>5. thread' = thread /\ ckpt' = ckpt /\ verdict' = verdict /\ fresh' = fresh
  BY DEF Ends
<1>6. \A t \in Threads : Idle(t)' /\ t # thread[c] => Idle(t)
  BY <1>3, <1>5 DEF Idle
<1> QED
  BY <1>1, <1>3, <1>4, <1>5, <1>6

(* An answer to a triage call holds its message, if the run was left.      *)
LEMMA HeldTold ==
  ASSUME TypeInv, SerialInv, TrailInv, HeldInv, NEW c \in Calls, NEW a \in Reply, Ends(c, a)
  PROVE  /\ HeldInv'
         /\ a.interrupted => Held(c)'
<1>1. c \in Callers /\ c \notin Resumes
  BY ConstantsOK DEF Callers
<1>2. /\ ~Answered(c) /\ Answered(c)' /\ reply'[c] = a
      /\ \A d \in Callers : d # c => /\ pc'[d] = pc[d] /\ vals'[d] = vals[d]
                                     /\ reply'[d] = reply[d] /\ (Answered(d)' <=> Answered(d))
      /\ pc[c] \in Busy /\ pc'[c] = "done" /\ thread[c] \in Threads
      /\ \A t \in Threads : Idle(t)' /\ t # thread[c] => Idle(t)
      /\ UNCHANGED <<ckpt, thread, verdict, fresh>>
  BY <1>1, Answering
<1>3. \A r \in Resumes : reply'[r] = reply[r] /\ (Answered(r)' <=> Answered(r))
  BY <1>1, <1>2 DEF Callers
<1>4. \A r \in Resumes : Answered(r) => reply[r].about # c
  BY <1>2 DEF HeldInv, ResumeDecidesPending
<1>5. \A m : Undecided(m)' <=> Undecided(m)
  BY <1>3 DEF Undecided
<1>6. Undecided(c)'
  BY <1>4, <1>5 DEF Undecided
<1>7. ASSUME NEW m, Held(m) PROVE Held(m)'
  <2>1. m \in Calls /\ m # c /\ m \in Callers /\ Answered(m) /\ reply[m].interrupted /\ Undecided(m)
    BY <1>2, <1>7 DEF Held, Callers
  <2>2. Answered(m)' /\ reply'[m] = reply[m]
    BY <1>2, <2>1
  <2> QED
    BY <1>5, <2>1, <2>2 DEF Held
<1>8. a.interrupted => Held(c)'
  BY <1>2, <1>6 DEF Held
<1>9. /\ ckpt[thread[c]].vals.msg = c /\ ckpt[thread[c]].next \in {"end", "escalation"}
      /\ a.interrupted <=> ckpt[thread[c]].next # "end"
  <2>1. vals[c].msg = c /\ ckpt[thread[c]].vals = vals[c]
    BY <1>1, <1>2 DEF SerialInv, InStep
  <2> QED
    BY <1>1, <2>1 DEF Ends, HeldInv
<1>10. ASSUME NEW t \in Threads, Idle(t)', ckpt'[t].next # "end"
       PROVE  (ckpt[t].next = "escalation" /\ Held(ckpt[t].vals.msg))'
  <2>1. CASE t = thread[c]
    <3>1. ckpt'[t].next = "escalation" /\ Held(c)' /\ ckpt'[t].vals.msg = c
      BY <1>2, <1>8, <1>9, <1>10, <2>1
    <3> QED
      BY <3>1 DEF Held, Answered, Undecided
  <2>2. CASE t # thread[c]
    <3>1. ckpt' = ckpt /\ ckpt[t].next = "escalation" /\ Held(ckpt[t].vals.msg)
      BY <1>2, <1>10, <2>2 DEF HeldInv
    <3>2. Held(ckpt[t].vals.msg)'
      BY <1>7, <3>1
    <3> QED
      BY <3>1, <3>2
  <2> QED
    BY <2>1, <2>2
<1>11. ASSUME NEW d \in Calls, pc'[d] = "returned"
       PROVE  ckpt'[thread'[d]].next \in {"end", "escalation"}
  BY <1>2, <1>11 DEF HeldInv, Callers
<1>12. ASSUME NEW r \in Resumes, pc'[r] \in Busy PROVE Decides(r)'
  <2>1. Decides(r) /\ pc'[r] = pc[r] /\ vals'[r] = vals[r] /\ UNCHANGED <<ckpt, thread, verdict, fresh>>
    BY <1>1, <1>2, <1>12 DEF HeldInv, Callers
  <2>2. Held(vals[r].msg)'
    BY <1>7, <2>1 DEF Decides
  <2> QED
    BY <2>1, <2>2 DEF Decides
<1>13. ResumeDecidesPending'
  <2> SUFFICES ASSUME NEW r \in Resumes, Answered(r)'
               PROVE  (/\ reply[r].about \in Calls
                       /\ Answered(reply[r].about) /\ reply[reply[r].about].interrupted
                       /\ reply[r].text = verdict[r])'
    BY DEF ResumeDecidesPending
  <2>1. Answered(r) /\ reply'[r] = reply[r] /\ verdict'[r] = verdict[r]
    BY <1>2, <1>3
  <2>2. PICK m \in Calls : /\ m = reply[r].about /\ m # c /\ Answered(m)
                           /\ reply[m].interrupted /\ reply[r].text = verdict[r]
    BY <1>4, <2>1 DEF HeldInv, ResumeDecidesPending
  <2>3. Answered(m)' /\ reply'[m] = reply[m]
    BY <1>2, <2>2 DEF Callers
  <2>4. Answered(reply[r].about)'
    BY <2>1, <2>2, <2>3 DEF Answered
  <2> QED
    BY <2>1, <2>2, <2>3, <2>4
<1> QED
  BY <1>8, <1>10, <1>11, <1>12, <1>13 DEF HeldInv

(* An answer to a resume call carries its verdict on the held message, of  *)
(* which no other thread or run knows.                                     *)
LEMMA HeldDecided ==
  ASSUME TypeInv, Owned, SerialInv, TrailInv, HeldInv, NEW c \in Resumes, NEW a \in Reply, Ends(c, a)
  PROVE  /\ HeldInv'
         /\ Held(vals[c].msg) /\ a.about = vals[c].msg /\ a.text = verdict[c]
         /\ ckpt[thread[c]].vals.msg = vals[c].msg /\ verdict[c] \in Verdicts
<1>1. c \in Callers /\ c \notin Calls
  BY ConstantsOK DEF Callers
<1>2. /\ ~Answered(c) /\ Answered(c)' /\ reply'[c] = a
      /\ \A d \in Callers : d # c => /\ pc'[d] = pc[d] /\ vals'[d] = vals[d]
                                     /\ reply'[d] = reply[d] /\ (Answered(d)' <=> Answered(d))
      /\ pc[c] \in Busy /\ pc'[c] = "done" /\ thread[c] \in Threads
      /\ \A t \in Threads : Idle(t)' /\ t # thread[c] => Idle(t)
      /\ UNCHANGED <<ckpt, thread, verdict, fresh>>
  BY <1>1, Answering
<1>3. pc[c] = "returned" /\ a = ResumeReply(vals[c])
  BY <1>1 DEF Ends
<1>4. PICK m \in Calls : m = vals[c].msg /\ Held(m)
  BY <1>2 DEF HeldInv, Decides, Held
<1>5. /\ vals[c].text = verdict[c] /\ ckpt[thread[c]].next = "end"
      /\ ckpt[thread[c]].vals.msg = m /\ thread[m] = thread[c] /\ m \in Callers
  BY <1>1, <1>2, <1>3, <1>4 DEF HeldInv, Decides, SerialInv, InStep, Owned, Callers
<1>6. a.about = m /\ a.text = verdict[c]
  BY <1>3, <1>4, <1>5 DEF ResumeReply
<1>7. ASSUME NEW n, Held(n), n # m PROVE Held(n)'
  <2>1. n \in Calls /\ n \in Callers /\ n # c /\ Answered(n) /\ reply[n].interrupted /\ Undecided(n)
    BY <1>1, <1>7 DEF Held, Callers
  <2>2. Answered(n)' /\ reply'[n] = reply[n]
    BY <1>2, <2>1
  <2>3. Undecided(n)'
    BY <1>2, <1>6, <1>7, <2>1 DEF Undecided, Callers
  <2> QED
    BY <2>1, <2>2, <2>3 DEF Held
<1>8. ASSUME NEW t \in Threads, Idle(t)', ckpt'[t].next # "end"
      PROVE  (ckpt[t].next = "escalation" /\ Held(ckpt[t].vals.msg))'
  <2>1. t # thread[c] /\ Idle(t) /\ ckpt' = ckpt
    BY <1>2, <1>5, <1>8
  <2>2. ckpt[t].next = "escalation" /\ Held(ckpt[t].vals.msg)
    BY <1>8, <2>1 DEF HeldInv
  <2>3. ckpt[t].vals.msg # m
    BY <1>5, <2>1, <2>2 DEF Owned, Held
  <2>4. Held(ckpt[t].vals.msg)'
    BY <1>7, <2>1, <2>2, <2>3
  <2> QED
    BY <2>1, <2>2, <2>4
<1>9. ASSUME NEW d \in Calls, pc'[d] = "returned"
      PROVE  ckpt'[thread'[d]].next \in {"end", "escalation"}
  BY <1>1, <1>2, <1>9 DEF HeldInv, Callers
<1>10. ASSUME NEW r \in Resumes, pc'[r] \in Busy PROVE Decides(r)'
  <2>1. r # c /\ r \in Callers
    BY <1>2, <1>10 DEF Busy, Nodes, Callers
  <2>2. Decides(r) /\ pc'[r] = pc[r] /\ vals'[r] = vals[r] /\ UNCHANGED <<ckpt, thread, verdict, fresh>>
    BY <1>2, <1>10, <2>1 DEF HeldInv
  <2>3. Held(vals[r].msg)
    BY <2>2 DEF Decides
  <2>4. thread[r] # thread[c]
    BY <1>1, <1>2, <1>10, <2>1, <2>2 DEF SerialInv, Alone
  <2>5. vals[r].msg # m
    BY <1>5, <2>1, <2>3, <2>4 DEF Owned, Held
  <2>6. Held(vals[r].msg)'
    BY <1>7, <2>2, <2>3, <2>5
  <2> QED
    BY <2>2, <2>6 DEF Decides
<1>11. ResumeDecidesPending'
  <2> SUFFICES ASSUME NEW r \in Resumes, Answered(r)'
               PROVE  (/\ reply[r].about \in Calls
                       /\ Answered(reply[r].about) /\ reply[reply[r].about].interrupted
                       /\ reply[r].text = verdict[r])'
    BY DEF ResumeDecidesPending
  <2>1. PICK n \in Calls : /\ n = reply'[r].about /\ Answered(n) /\ reply[n].interrupted
                           /\ reply'[r].text = verdict[r]
    <3>1. CASE r = c
      BY <1>2, <1>4, <1>6, <3>1 DEF Held
    <3>2. CASE r # c
      <4>1. Answered(r) /\ reply'[r] = reply[r]
        BY <1>2, <3>2 DEF Callers
      <4> QED
        BY <4>1 DEF HeldInv, ResumeDecidesPending
    <3> QED
      BY <3>1, <3>2
  <2>2. Answered(n)' /\ reply'[n] = reply[n]
    BY <1>1, <1>2, <2>1 DEF Callers
  <2>3. Answered(reply[r].about)'
    BY <2>1, <2>2 DEF Answered
  <2> QED
    BY <1>2, <2>1, <2>2, <2>3
<1>12. verdict[c] \in Verdicts
  BY <1>1, <1>2 DEF HeldInv, Decides
<1> QED
  BY <1>4, <1>5, <1>6, <1>8, <1>9, <1>10, <1>11, <1>12 DEF HeldInv

(* A new run starts on a thread without one; a resume call only where a    *)
(* message is held.                                                        *)
LEMMA HeldStarted ==
  ASSUME TypeInv, SerialInv, TrailInv, HeldInv, MaxInFlight <= 1,
         \/ \E c \in Calls, t \in Threads : StartTriage(c, t)
         \/ \E r \in Resumes, t \in Threads, a \in Verdicts : StartResume(r, t, a)
  PROVE  HeldInv'
<1>1. ASSUME NEW c \in Calls, NEW t \in Threads, StartTriage(c, t) PROVE HeldInv'
  <2>1. PICK v \in Values : Starts(c, t, v, "classifier")
    BY <1>1, TriageStarts
  <2>2. pc[c] = "idle" /\ Idle(t) /\ verdict' = verdict /\ fresh' = fresh
    BY <1>1, AdmitsIdle DEF StartTriage, SerialInv
  <2> QED
    BY <2>1, <2>2, HeldStarts, ConstantsOK DEF Callers, Nodes
<1>2. ASSUME NEW r \in Resumes, NEW t \in Threads, NEW a \in Verdicts, StartResume(r, t, a)
      PROVE  HeldInv'
  <2>1. /\ ckpt[t].next \in Nodes /\ ckpt[t].vals \in Values
        /\ Starts(r, t, ckpt[t].vals, ckpt[t].next)
    BY <1>2, ResumeStarts
  <2>2. pc[r] = "idle" /\ Idle(t) /\ ckpt[t].next # "end"
    BY <1>2, AdmitsIdle DEF StartResume, SerialInv, Resumable
  <2>3. ckpt[t].next = "escalation" /\ Held(ckpt[t].vals.msg)
    BY <2>2 DEF HeldInv
  <2>4. r \in fresh' /\ verdict'[r] \in Verdicts
        /\ \A q \in Resumes : q # r => verdict'[q] = verdict[q] /\ (q \in fresh' <=> q \in fresh)
    BY <1>2 DEF StartResume, TypeInv, TypeOK
  <2> QED
    BY <2>1, <2>2, <2>3, <2>4, HeldStarts DEF Callers
<1> QED
  BY <1>1, <1>2

(* A call that is turned away, or a step of no run. *)
LEMMA HeldElsewhere ==
  ASSUME TypeInv, TrailInv, HeldInv, "classify" \notin Faults, "reflect" \notin Faults,
         \/ \E c \in Callers : Turned(c)
         \/ \E c \in Callers : RecordDecision(c)
         \/ Restart
         \/ UNCHANGED vars
  PROVE  HeldInv' /\ SameAnswers
<1>1. ASSUME NEW c \in Callers, Turned(c) PROVE HeldInv' /\ SameAnswers
  <2>1. PICK code \in {404, 422, 500} : TurnedWith(c, code)
    BY <1>1 DEF Turned
  <2>2. /\ pc' = [pc EXCEPT ![c] = "done"] /\ reply' = [reply EXCEPT ![c] = Error(code)]
        /\ vals' = vals \/ vals' = [vals EXCEPT ![c] = NoValues]
        /\ pc[c] = "idle" /\ UNCHANGED <<ckpt, thread, verdict, fresh>>
    BY <2>1 DEF TurnedWith, NodeRaises
  <2>3. ~Answered(c) /\ ~Answered(c)'
    BY <2>2, ErrorStatus DEF TrailInv, Answered, TypeInv, TypeOK
  <2>4. \A d \in Callers : d # c => pc'[d] = pc[d] /\ vals'[d] = vals[d] /\ reply'[d] = reply[d]
    BY <2>1, <2>2 DEF TypeInv, TypeOK
  <2>5. SameAnswers
    BY <2>3, <2>4 DEF SameAnswers, Answered
  <2>6. pc[c] \notin Busy /\ pc'[c] \notin Busy
    BY <2>2 DEF TypeInv, TypeOK, Busy, Nodes
  <2>7. \A t \in Threads : Idle(t)' => Idle(t)
    BY <2>2, <2>4, <2>6 DEF Idle
  <2>8. \A d \in Callers : pc'[d] \in Busy =>
          /\ pc'[d] = pc[d] /\ thread'[d] = thread[d] /\ vals'[d] = vals[d]
          /\ ckpt' = ckpt /\ fresh' = fresh
    BY <2>2, <2>4, <2>6
  <2> QED
    BY <2>2, <2>5, <2>7, <2>8, HeldQuiet
<1>2. ASSUME NEW c \in Callers, RecordDecision(c) PROVE HeldInv' /\ SameAnswers
  <2>1. UNCHANGED <<pc, thread, vals, verdict, fresh, ckpt, reply>>
    BY <1>2 DEF RecordDecision
  <2>2. SameAnswers
    BY <2>1 DEF SameAnswers, Answered
  <2> QED
    BY <2>1, <2>2, HeldQuiet DEF Idle
<1>3. CASE Restart
  <2>1. /\ \A c \in Callers : pc'[c] \notin Busy
        /\ \A t \in Threads : ckpt'[t].next = "end"
        /\ verdict' = verdict /\ reply' = reply
    BY <1>3 DEF Restart, Busy, Nodes, NoCheckpoint
  <2>2. SameAnswers
    BY <2>1 DEF SameAnswers, Answered
  <2> QED
    BY <2>1, <2>2, HeldQuiet
<1>4. CASE UNCHANGED vars
  <2>1. UNCHANGED <<pc, thread, vals, verdict, fresh, ckpt, reply>>
    BY <1>4 DEF vars
  <2>2. SameAnswers
    BY <2>1 DEF SameAnswers, Answered
  <2> QED
    BY <2>1, <2>2, HeldQuiet DEF Idle
<1> QED
  BY <1>1, <1>2, <1>3, <1>4

(* A triage run comes to escalation without a verdict and is left there.   *)
LEMMA HeldInterrupted ==
  ASSUME TypeInv, SerialInv, HeldInv, NEW c \in Callers, Interrupt(c)
  PROVE  HeldInv' /\ SameAnswers
<1>1. /\ pc[c] = "escalation" /\ c \notin fresh /\ pc'[c] = "returned"
      /\ \A d \in Callers : d # c => pc'[d] = pc[d]
      /\ UNCHANGED <<thread, vals, verdict, fresh, ckpt, reply>>
  BY DEF Interrupt, HasVerdict, TypeInv, TypeOK
<1>2. c \notin Resumes
  BY <1>1 DEF HeldInv, Decides, Busy, Nodes
<1>3. SameAnswers
  BY <1>1 DEF SameAnswers, Answered
<1>4. \A d \in Callers : pc'[d] \in Busy <=> pc[d] \in Busy
  BY <1>1 DEF Busy, Nodes
<1>5. ASSUME NEW t \in Threads, Idle(t)', ckpt'[t].next # "end"
      PROVE  (ckpt[t].next = "escalation" /\ Held(ckpt[t].vals.msg))'
  <2>1. Idle(t) /\ ckpt' = ckpt
    BY <1>1, <1>4, <1>5 DEF Idle
  <2>2. ckpt[t].next = "escalation" /\ Held(ckpt[t].vals.msg)
    BY <1>5, <2>1 DEF HeldInv
  <2>3. Held(ckpt[t].vals.msg)'
    BY <1>3, <2>1, <2>2, HeldSame
  <2> QED
    BY <2>1, <2>2, <2>3
<1>6. ASSUME NEW d \in Calls, pc'[d] = "returned"
      PROVE  ckpt'[thread'[d]].next \in {"end", "escalation"}
  <2>1. CASE d = c
    <3>1. ckpt[thread[c]].next = "escalation"
      BY <1>1 DEF SerialInv, InStep, Busy, Nodes
    <3> QED
      BY <1>1, <2>1, <3>1
  <2>2. CASE d # c
    BY <1>1, <1>6, <2>2 DEF HeldInv, Callers
  <2> QED
    BY <2>1, <2>2
<1>7. ASSUME NEW r \in Resumes, pc'[r] \in Busy PROVE Decides(r)'
  <2>1. r # c /\ Decides(r) /\ pc'[r] = pc[r]
    BY <1>1, <1>2, <1>4, <1>7 DEF HeldInv, Callers
  <2>2. Held(vals[r].msg)'
    BY <1>1, <1>3, <2>1, HeldSame DEF Decides
  <2> QED
    BY <1>1, <2>1, <2>2 DEF Decides
<1>8. ResumeDecidesPending'
  BY <1>1, <1>3, DecidedSame DEF HeldInv
<1> QED
  BY <1>3, <1>5, <1>6, <1>7, <1>8 DEF HeldInv

LEMMA HeldStep ==
  ASSUME MaxInFlight <= 1, "classify" \notin Faults, "reflect" \notin Faults,
         TypeInv, Owned, SerialInv, TrailInv, HeldInv, [Next]_vars
  PROVE  HeldInv'
<1>1. ASSUME NEW c \in Callers, NEW a \in Reply, Ends(c, a) PROVE HeldInv'
  BY <1>1, HeldTold, HeldDecided DEF Callers
<1>2. ASSUME NEW c \in Callers, NEW v \in Values, NEW next \in Nodes \cup {"end"},
             pc[c] \in Nodes, Superstep(c, v, next), Moved(c, v, next)
      PROVE  HeldInv'
  BY <1>2, SuperstepEffect, HeldMoves
<1> QED
  BY <1>1, <1>2, StepCases, WhoIsTurned, WhoEnds, HeldStarted, HeldElsewhere, HeldInterrupted
     DEF Callers

LEMMA TrailHolds == Spec => []TrailInv
<1>1. TypeInv /\ TrailInv /\ [Next]_vars => TrailInv'
  BY TrailStep
<1> QED
  BY <1>1, TrailInit, Typed, PTL DEF Spec

THEOREM HeldForHumans ==
  ASSUME MaxInFlight <= 1, "classify" \notin Faults, "reflect" \notin Faults
  PROVE  Spec => []HeldInv
<1>1. TypeInv /\ TraceInv /\ SerialInv /\ TrailInv /\ HeldInv /\ [Next]_vars => HeldInv'
  BY HeldStep DEF TraceInv
<1> QED
  BY <1>1, HeldInit, Typed, Traced, Serial, TrailHolds, PTL DEF Spec

(* A resume answers only for a message whose sender was told that it waits *)
(* for a human, and with that human's verdict, when clients wait for their *)
(* replies and no node raises.                                             *)
THEOREM ResumesDecide ==
  ASSUME MaxInFlight <= 1, "classify" \notin Faults, "reflect" \notin Faults
  PROVE  Spec => []ResumeDecidesPending
<1>1. HeldInv => ResumeDecidesPending
  BY DEF HeldInv
<1> QED
  BY <1>1, HeldForHumans, PTL

-----------------------------------------------------------------------------
(* The refinement of EscalationReview                                      *)

(* The stage of a message whose call is done, from its reply, the verdicts *)
(* on it and the message its thread is about.                              *)
DoneStage(m, r, verdicts, about) ==
  IF r.status = 422 THEN "refused"
  ELSE IF r.status = 500 THEN "failed"
  ELSE IF ~r.interrupted THEN "answered"
  ELSE IF verdicts # {} THEN CHOOSE v \in verdicts : TRUE
  ELSE IF about = m THEN "held"
  ELSE "dropped"

StageIs(m) ==
  /\ pc[m] = "idle" => StageOf(m) = "new"
  /\ pc[m] = "lost" => StageOf(m) = "failed"
  /\ pc[m] \in Busy => StageOf(m) = "working"
  /\ pc[m] = "done" =>
       StageOf(m) = DoneStage(m, reply[m], VerdictOn(m), ckpt[thread[m]].vals.msg)

LEMMA StageCases == \A m \in Calls : StageIs(m) /\ StageIs(m)'
BY DEF StageIs, StageOf, DoneStage, Busy, Nodes

(* The text of a verdict is not the name of another stage. *)
Texts == {"", "answer", "pending", "fallback"} \cup Verdicts

LEMMA VerdictTexts == TypeInv => \A m : VerdictOn(m) \in SUBSET Texts
<1>1. ASSUME TypeInv, NEW r \in Resumes, Answered(r)
      PROVE  reply[r].text \in Texts
  <2>1. reply[r] \in Reply
    BY <1>1 DEF Answered, TypeInv, TypeOK, Callers
  <2> QED
    BY <2>1 DEF Reply, Texts
<1> QED
  BY <1>1 DEF VerdictOn

LEMMA NoVerdicts ==
  /\ \A m : VerdictOn(m) = {} <=> Undecided(m)
  /\ \A m : (VerdictOn(m) = {} <=> Undecided(m))'
BY DEF VerdictOn, Undecided

LEMMA SameVerdicts ==
  ASSUME NEW m,
         \A r \in Resumes :
           \/ reply'[r] = reply[r] /\ (Answered(r)' <=> Answered(r))
           \/ ~Answered(r) /\ ~Answered(r)'
           \/ ~Answered(r) /\ reply'[r].about # m
  PROVE  VerdictOn(m)' = VerdictOn(m)
<1> DEFINE About(r) == Answered(r) /\ reply[r].about = m
<1>1. \A r \in Resumes : (About(r)' <=> About(r)) /\ (About(r) => reply'[r] = reply[r])
  OBVIOUS
<1>2. VerdictOn(m) = {reply[r].text : r \in {r \in Resumes : About(r)}}
      /\ VerdictOn(m)' = {reply'[r].text : r \in {r \in Resumes : About(r)'}}
  BY DEF VerdictOn
<1> HIDE DEF About
<1> QED
  BY <1>1, <1>2

(* Telling the stages of a done call apart: which is held, and what        *)
(* becomes of one when its thread is about another message.                *)
IsHeld(m, r, verdicts, about) ==
  r.status \notin {422, 500} /\ r.interrupted /\ verdicts = {} /\ about = m

StagesApart(m, r, verdicts, about, other) ==
  /\ IsHeld(m, r, verdicts, about) =>
       /\ DoneStage(m, r, verdicts, about) = "held"
       /\ DoneStage(m, r, verdicts, other) = "dropped"
  /\ ~IsHeld(m, r, verdicts, about) =>
       /\ DoneStage(m, r, verdicts, about) # "held"
       /\ DoneStage(m, r, verdicts, other) = DoneStage(m, r, verdicts, about)
  /\ DoneStage(m, r, verdicts, about) # "working"

LEMMA DoneStages ==
  ASSUME NEW m, NEW r \in Reply, NEW verdicts \in SUBSET Texts, NEW about, NEW other, other # m
  PROVE  StagesApart(m, r, verdicts, about, other)
<1> USE DEF IsHeld, StagesApart
<1>1. CASE r.status = 422
  BY <1>1 DEF DoneStage
<1>2. CASE r.status # 422 /\ r.status = 500
  BY <1>2 DEF DoneStage
<1>3. CASE r.status \notin {422, 500} /\ ~r.interrupted
  BY <1>3 DEF DoneStage
<1>4. CASE r.status \notin {422, 500} /\ r.interrupted /\ verdicts # {}
  <2>1. PICK v \in verdicts : v = CHOOSE w \in verdicts : TRUE
    BY <1>4
  <2>2. v \notin {"new", "working", "held", "dropped"}
    BY DEF Texts, Verdicts
  <2>3. DoneStage(m, r, verdicts, about) = v /\ DoneStage(m, r, verdicts, other) = v
    BY <1>4, <2>1 DEF DoneStage
  <2> QED
    BY <1>4, <2>2, <2>3
<1>5. CASE r.status \notin {422, 500} /\ r.interrupted /\ verdicts = {}
  BY <1>5 DEF DoneStage
<1> QED
  BY <1>1, <1>2, <1>3, <1>4, <1>5

(* Where a done call stands: it was refused, failed, or has its thread.    *)
PlaceInv ==
  \A m \in Calls : pc[m] = "done" =>
    reply[m] \in Reply /\ (reply[m].status \in {422, 500} \/ thread[m] \in Threads)

LEMMA PlaceInit == Init => PlaceInv
BY DEF Init, PlaceInv, Callers

LEMMA PlaceKept ==
  ASSUME PlaceInv,
         \A m \in Calls : pc'[m] = "done" =>
           \/ pc[m] = "done" /\ reply'[m] = reply[m] /\ thread'[m] = thread[m]
           \/ reply'[m] \in Reply /\ (reply'[m].status \in {422, 500} \/ thread'[m] \in Threads)
  PROVE  PlaceInv'
BY DEF PlaceInv

LEMMA PlaceStep ==
  ASSUME TypeInv, PlaceInv, [Next]_vars
  PROVE  PlaceInv'
<1>1. ASSUME NEW c \in Callers, NEW code \in {422, 500},
             pc' = [pc EXCEPT ![c] = "done"], reply' = [reply EXCEPT ![c] = Error(code)],
             thread' = thread
      PROVE  PlaceInv'
  <2>1. Error(code) \in Reply /\ Error(code).status = code
    BY DEF Error, Reply
  <2>2. \A m \in Calls : pc'[m] = "done" =>
          \/ pc[m] = "done" /\ reply'[m] = reply[m] /\ thread'[m] = thread[m]
          \/ reply'[m] \in Reply /\ reply'[m].status \in {422, 500}
    BY <1>1, <2>1 DEF TypeInv, TypeOK, Callers
  <2> QED
    BY <2>2, PlaceKept
<1>2. ASSUME NEW c \in Callers, NEW a \in Reply, Ends(c, a) PROVE PlaceInv'
  <2>1. thread[c] \in Threads
    BY <1>2 DEF Ends, TypeInv, Placed, Busy
  <2>2. \A m \in Calls : pc'[m] = "done" =>
          \/ pc[m] = "done" /\ reply'[m] = reply[m] /\ thread'[m] = thread[m]
          \/ reply'[m] \in Reply /\ thread'[m] \in Threads
    BY <1>2, <2>1 DEF Ends, TypeInv, TypeOK, Callers
  <2> QED
    BY <2>2, PlaceKept
<1>3. ASSUME reply' = reply \/ \E r \in Resumes : \E w : reply' = [reply EXCEPT ![r] = w],
             \A m \in Calls : pc'[m] = "done" => pc[m] = "done" /\ thread'[m] = thread[m]
      PROVE  PlaceInv'
  <2>1. ASSUME NEW r \in Resumes, NEW w, reply' = [reply EXCEPT ![r] = w]
        PROVE  \A m \in Calls : reply'[m] = reply[m]
    BY <2>1, ConstantsOK DEF TypeInv, TypeOK, Callers
  <2>2. \A m \in Calls : reply'[m] = reply[m]
    BY <1>3, <2>1
  <2> QED
    BY <1>3, <2>2, PlaceKept
<1>4. CASE \E c \in Calls : Refuse(c)
  BY <1>1, <1>4, ZenonT(60) DEF Refuse, Callers
<1>5. CASE \E c \in Callers : NodeRaises(c)
  BY <1>1, <1>5, ZenonT(60) DEF NodeRaises
<1>6. ASSUME NEW r \in Resumes, NEW t \in Threads, NothingToResume(r, t) PROVE PlaceInv'
  <2>1. \A m \in Calls : pc'[m] = pc[m] /\ thread'[m] = thread[m]
    BY <1>6, ConstantsOK DEF NothingToResume, TypeInv, TypeOK, Callers
  <2> QED
    BY <1>3, <1>6, <2>1 DEF NothingToResume
<1>7. CASE \E c \in Calls, t \in Threads : StartTriage(c, t)
  BY <1>3, <1>7 DEF StartTriage, TypeInv, TypeOK, Callers
<1>8. ASSUME NEW r \in Resumes, NEW t \in Threads, NEW a \in Verdicts, StartResume(r, t, a)
      PROVE  PlaceInv'
  <2>1. \A m \in Calls : pc'[m] = pc[m] /\ thread'[m] = thread[m]
    BY <1>8, ConstantsOK DEF StartResume, TypeInv, TypeOK, Callers
  <2> QED
    BY <1>3, <1>8, <2>1 DEF StartResume
<1>9. CASE \E c \in Callers : Interrupt(c)
  BY <1>3, <1>9 DEF Interrupt, TypeInv, TypeOK, Callers
<1>10. ASSUME NEW c \in Callers, NEW v \in Values, NEW next \in Nodes \cup {"end"},
              Superstep(c, v, next)
       PROVE  PlaceInv'
  <2>1. \A m \in Calls : pc'[m] = "done" => pc[m] = "done"
    BY <1>10 DEF Superstep, TypeInv, TypeOK, Nodes, Callers
  <2> QED
    BY <1>3, <1>10, <2>1 DEF Superstep
<1>11. CASE \E c \in Callers : RecordDecision(c)
  BY <1>3, <1>11 DEF RecordDecision
<1>12. CASE Restart
  BY <1>3, <1>12 DEF Restart, Callers
<1>13. CASE UNCHANGED vars
  BY <1>3, <1>13 DEF vars
<1> QED
  BY <1>2, <1>4, <1>5, <1>6, <1>7, <1>8, <1>9, <1>10, <1>11, <1>12, <1>13, StepCases, WhoEnds

-----------------------------------------------------------------------------
(* Stages before and after a step *)

(* A message keeps its stage when its call, its verdicts and the message   *)
(* its thread is about do.                                                 *)
LEMMA StageKept ==
  ASSUME TypeInv, PlaceInv, NEW m \in Calls,
         pc'[m] = pc[m] \/ (pc[m] \in Busy /\ pc'[m] \in Busy),
         pc[m] = "done" => /\ reply'[m] = reply[m] /\ VerdictOn(m)' = VerdictOn(m)
                           /\ thread'[m] = thread[m]
                           /\ thread[m] \in Threads =>
                                (ckpt'[thread[m]].vals.msg = m <=> ckpt[thread[m]].vals.msg = m)
  PROVE  StageOf(m)' = StageOf(m)
<1>1. StageIs(m) /\ StageIs(m)'
  BY StageCases
<1>2. pc[m] \in Busy \cup {"idle", "done", "lost"}
  BY DEF TypeInv, TypeOK, Callers
<1>3. CASE pc[m] \in Busy
  BY <1>1, <1>3 DEF StageIs
<1>4. CASE pc[m] \in {"idle", "lost"}
  BY <1>1, <1>4 DEF StageIs, Busy, Nodes
<1>5. CASE pc[m] = "done"
  <2> DEFINE a == ckpt[thread[m]].vals.msg
             b == ckpt'[thread[m]].vals.msg
  <2>1. pc'[m] = "done" /\ reply'[m] = reply[m] /\ VerdictOn(m)' = VerdictOn(m) /\ thread'[m] = thread[m]
    BY <1>5 DEF Busy, Nodes
  <2>2. /\ StageOf(m) = DoneStage(m, reply[m], VerdictOn(m), a)
        /\ StageOf(m)' = DoneStage(m, reply[m], VerdictOn(m), b)
    BY <1>1, <1>5, <2>1 DEF StageIs
  <2>3. reply[m].status \in {422, 500} \/ (b = m <=> a = m)
    BY <1>5 DEF PlaceInv
  <2> HIDE DEF a, b
  <2>4. DoneStage(m, reply[m], VerdictOn(m), a) = DoneStage(m, reply[m], VerdictOn(m), b)
    BY <2>3 DEF DoneStage
  <2> QED
    BY <2>2, <2>4
<1> QED
  BY <1>2, <1>3, <1>4, <1>5

(* A held message is dropped when its thread is about another message.     *)
LEMMA StageLeft ==
  ASSUME TypeInv, PlaceInv, NEW m \in Calls, pc[m] = "done", pc'[m] = "done",
         reply'[m] = reply[m], VerdictOn(m)' = VerdictOn(m), thread'[m] = thread[m],
         ckpt'[thread[m]].vals.msg # m
  PROVE  /\ StageOf(m)' = IF StageOf(m) = "held" THEN "dropped" ELSE StageOf(m)
         /\ StageOf(m) = "held" => ckpt[thread[m]].vals.msg = m
<1>1. PICK r \in Reply : r = reply[m]
  BY DEF PlaceInv
<1>2. PICK V \in SUBSET Texts : V = VerdictOn(m)
  BY VerdictTexts
<1>3. PICK a : a = ckpt[thread[m]].vals.msg
  OBVIOUS
<1>4. PICK b : b = ckpt'[thread[m]].vals.msg
  OBVIOUS
<1>5. StageOf(m) = DoneStage(m, r, V, a) /\ StageOf(m)' = DoneStage(m, r, V, b)
  BY <1>1, <1>2, <1>3, <1>4, StageCases DEF StageIs
<1>6. StagesApart(m, r, V, a, b)
  BY <1>4, DoneStages
<1>7. IsHeld(m, r, V, a) => a = m
  BY DEF IsHeld
<1> QED
  BY <1>3, <1>5, <1>6, <1>7 DEF StagesApart

(* Steps of EscalationReview, message by message. *)
LEMMA OneMoves ==
  ASSUME NEW c \in Calls, \A m \in Calls : m # c => StageOf(m)' = StageOf(m)
  PROVE  Review!Move(c, StageOf(c), StageOf(c)')
BY DEF Review!Move

LEMMA NoneMoves ==
  ASSUME \A m \in Calls : StageOf(m)' = StageOf(m)
  PROVE  [m \in Calls |-> StageOf(m)]' = [m \in Calls |-> StageOf(m)]
OBVIOUS

(* Nobody answers, and no thread comes to be about another message.        *)
LEMMA StagesQuiet ==
  ASSUME TypeInv, PlaceInv, SameAnswers,
         \A m \in Calls : /\ pc'[m] = pc[m] \/ (pc[m] \in Busy /\ pc'[m] \in Busy)
                          /\ thread'[m] = thread[m] /\ reply'[m] = reply[m],
         \A t \in Threads : ckpt'[t].vals.msg = ckpt[t].vals.msg
  PROVE  \A m \in Calls : StageOf(m)' = StageOf(m)
<1> SUFFICES ASSUME NEW m \in Calls PROVE StageOf(m)' = StageOf(m)
  OBVIOUS
<1>1. VerdictOn(m)' = VerdictOn(m)
  <2>1. \A r \in Resumes : \/ reply'[r] = reply[r] /\ (Answered(r)' <=> Answered(r))
                           \/ ~Answered(r) /\ ~Answered(r)'
    BY DEF SameAnswers, Callers
  <2> HIDE DEF Answered
  <2> QED
    BY <2>1, SameVerdicts
<1> QED
  BY <1>1, StageKept

(* A message is refused. *)
LEMMA StageRefuse ==
  ASSUME TypeInv, PlaceInv, NEW c \in Calls, Refuse(c)
  PROVE  Review!Refuse(c)
<1>1. c \in Callers /\ c \notin Resumes
  BY ConstantsOK DEF Callers
<1>2. /\ pc[c] = "idle" /\ pc'[c] = "done" /\ reply'[c] = Error(422)
      /\ \A d \in Callers : d # c => pc'[d] = pc[d] /\ reply'[d] = reply[d]
      /\ thread' = thread /\ ckpt' = ckpt
  BY <1>1 DEF Refuse, TypeInv, TypeOK
<1>3. StageOf(c) = "new"
  BY <1>2, StageCases DEF StageIs
<1>4. StageOf(c)' = "refused"
  <2>1. StageOf(c)' = DoneStage(c, reply'[c], VerdictOn(c)', ckpt'[thread'[c]].vals.msg)
    BY <1>2, StageCases DEF StageIs
  <2>2. Error(422).status = 422
    BY DEF Error
  <2> QED
    BY <1>2, <2>1, <2>2 DEF DoneStage
<1>5. ASSUME NEW m \in Calls, m # c PROVE StageOf(m)' = StageOf(m)
  <2>1. VerdictOn(m)' = VerdictOn(m)
    <3>1. \A r \in Resumes : reply'[r] = reply[r] /\ (Answered(r)' <=> Answered(r))
      BY <1>1, <1>2 DEF Answered, Callers
    <3> HIDE DEF Answered
    <3> QED
      BY <3>1, SameVerdicts
  <2> QED
    BY <1>2, <1>5, <2>1, StageKept DEF Callers
<1> QED
  BY <1>3, <1>4, <1>5, OneMoves DEF Review!Refuse

(* A message is submitted: the one its thread held gives way.              *)
LEMMA StageSubmit ==
  ASSUME TypeInv, Owned, PlaceInv, NEW c \in Calls, NEW t \in Threads, StartTriage(c, t)
  PROVE  Review!Submit(c)
<1> DEFINE h == ckpt[t].vals.msg
           out == {m \in Calls : m = h /\ StageOf(m) = "held"}
<1>1. PICK v \in Values : v.msg = c /\ Starts(c, t, v, "classifier")
  BY TriageStarts
<1>2. /\ pc[c] = "idle" /\ pc'[c] = "classifier" /\ reply' = reply /\ ckpt'[t].vals.msg = c
      /\ \A d \in Callers : d # c => pc'[d] = pc[d] /\ thread'[d] = thread[d]
      /\ \A u \in Threads : u # t => ckpt'[u] = ckpt[u]
  BY <1>1 DEF StartTriage, Starts
<1>3. StageOf(c) = "new" /\ StageOf(c)' = "working"
  BY <1>2, StageCases DEF StageIs, Busy, Nodes
<1>4. \A m \in Calls : VerdictOn(m)' = VerdictOn(m)
  <2>1. \A r \in Resumes : reply'[r] = reply[r] /\ (Answered(r)' <=> Answered(r))
    BY <1>2 DEF Answered
  <2> HIDE DEF Answered
  <2> QED
    BY <2>1, SameVerdicts
<1>5. ASSUME NEW m \in Calls, m # c
      PROVE  StageOf(m)' = IF m \in out THEN "dropped" ELSE StageOf(m)
  <2>1. m \in Callers /\ pc'[m] = pc[m] /\ thread'[m] = thread[m] /\ reply'[m] = reply[m]
    BY <1>2, <1>5 DEF Callers
  <2>2. CASE pc[m] = "done" /\ thread[m] = t
    <3>1. pc'[m] = "done" /\ VerdictOn(m)' = VerdictOn(m) /\ ckpt'[thread[m]].vals.msg # m
      BY <1>2, <1>4, <1>5, <2>1, <2>2
    <3>2. /\ StageOf(m)' = IF StageOf(m) = "held" THEN "dropped" ELSE StageOf(m)
          /\ StageOf(m) = "held" => h = m
      BY <2>1, <2>2, <3>1, StageLeft
    <3> QED
      BY <3>2
  <2>3. CASE ~(pc[m] = "done" /\ thread[m] = t)
    <3>1. StageOf(m)' = StageOf(m)
      BY <1>2, <1>4, <2>1, <2>3, StageKept
    <3>2. m \notin out
      <4>1. ASSUME m = h, StageOf(m) = "held" PROVE FALSE
        <5>1. thread[m] = t /\ pc[m] # "idle" /\ pc[m] # "done"
          BY <2>3, <4>1 DEF Owned
        <5>2. StageIs(m) /\ pc[m] \in Busy \cup {"idle", "done", "lost"}
          BY <2>1, StageCases DEF TypeInv, TypeOK
        <5> QED
          BY <4>1, <5>1, <5>2 DEF StageIs
      <4> QED
        BY <4>1
    <3> QED
      BY <3>1, <3>2
  <2> QED
    BY <2>2, <2>3
<1>6. out \in {{}} \cup {{x} : x \in {x \in Calls : StageOf(x) = "held"}}
  BY DEF out
<1> HIDE DEF out
<1>7. [m \in Calls |-> StageOf(m)]' =
        [m \in Calls |-> IF m = c THEN "working" ELSE IF m \in out THEN "dropped" ELSE StageOf(m)]
  BY <1>3, <1>5
<1> QED
  BY <1>3, <1>6, <1>7 DEF Review!Submit

(* A run returns to its caller: the message is answered, or held.          *)
LEMMA StageTold ==
  ASSUME TypeInv, SerialInv, TrailInv, HeldInv, PlaceInv,
         NEW c \in Calls, NEW a \in Reply, Ends(c, a)
  PROVE  Review!Hold(c) \/ Review!Answer(c)
<1>1. c \in Callers /\ c \notin Resumes
  BY ConstantsOK DEF Callers
<1>2. /\ reply'[c] = a /\ pc[c] \in Busy /\ pc'[c] = "done" /\ thread[c] \in Threads
      /\ \A d \in Callers : d # c =>
           pc'[d] = pc[d] /\ reply'[d] = reply[d] /\ (Answered(d)' <=> Answered(d))
      /\ UNCHANGED <<ckpt, thread>>
  BY <1>1, Answering
<1>3. a.status = 200
  BY DEF Ends
<1>4. ckpt[thread[c]].vals.msg = c
  BY <1>1, <1>2 DEF SerialInv, InStep
<1>5. StageOf(c) = "working"
  BY <1>2, StageCases DEF StageIs
<1>6. StageOf(c)' = IF a.interrupted THEN "held" ELSE "answered"
  <2>1. StageOf(c)' = DoneStage(c, a, VerdictOn(c)', c)
    BY <1>2, <1>4, StageCases DEF StageIs
  <2>2. a.interrupted => VerdictOn(c)' = {}
    BY HeldTold, NoVerdicts DEF Held
  <2> QED
    BY <1>3, <2>1, <2>2 DEF DoneStage
<1>7. ASSUME NEW m \in Calls, m # c PROVE StageOf(m)' = StageOf(m)
  <2>1. VerdictOn(m)' = VerdictOn(m)
    <3>1. \A r \in Resumes : reply'[r] = reply[r] /\ (Answered(r)' <=> Answered(r))
      BY <1>1, <1>2 DEF Callers
    <3> HIDE DEF Answered
    <3> QED
      BY <3>1, SameVerdicts
  <2>2. pc'[m] = pc[m] /\ reply'[m] = reply[m] /\ thread'[m] = thread[m] /\ ckpt' = ckpt
    BY <1>2, <1>7 DEF Callers
  <2> QED
    BY <2>1, <2>2, StageKept
<1>8. Review!Move(c, "working", StageOf(c)')
  BY <1>5, <1>7, OneMoves
<1> QED
  BY <1>6, <1>8 DEF Review!Hold, Review!Answer

(* A resume call returns: its verdict decides the held message.            *)
LEMMA StageDecided ==
  ASSUME TypeInv, Owned, SerialInv, TrailInv, HeldInv, PlaceInv,
         NEW c \in Resumes, NEW a \in Reply, Ends(c, a)
  PROVE  \E h \in Calls : Review!Decide(h)
<1>1. c \in Callers /\ c \notin Calls
  BY ConstantsOK DEF Callers
<1>2. /\ ~Answered(c) /\ Answered(c)' /\ reply'[c] = a
      /\ pc[c] \in Busy /\ pc'[c] = "done" /\ thread[c] \in Threads
      /\ \A d \in Callers : d # c =>
           pc'[d] = pc[d] /\ reply'[d] = reply[d] /\ (Answered(d)' <=> Answered(d))
      /\ UNCHANGED <<ckpt, thread>>
  BY <1>1, Answering
<1>3. PICK v \in Verdicts : v = verdict[c]
  BY HeldDecided
<1>4. PICK h \in Calls : /\ h = vals[c].msg /\ Held(h) /\ a.about = h /\ a.text = v
                         /\ ckpt[thread[c]].vals.msg = h
  BY <1>3, HeldDecided DEF Held
<1>5. /\ h \in Callers /\ h # c /\ pc[h] = "done" /\ reply[h] # None
      /\ reply[h].status = 200 /\ reply[h].interrupted
      /\ thread[h] = thread[c]
  <2>1. h \in Callers /\ h # c /\ reply[h] # None /\ reply[h].status = 200 /\ reply[h].interrupted
    BY <1>1, <1>4 DEF Held, Answered, Callers
  <2>2. pc[h] = "done"
    BY <2>1 DEF TrailInv
  <2>3. thread[h] = thread[c]
    BY <1>1, <1>4 DEF Owned
  <2> QED
    BY <2>1, <2>2, <2>3
<1>6. StageOf(h) = "held"
  <2>1. StageOf(h) = DoneStage(h, reply[h], VerdictOn(h), h)
    BY <1>4, <1>5, StageCases DEF StageIs
  <2>2. VerdictOn(h) = {}
    BY <1>4, NoVerdicts DEF Held
  <2> QED
    BY <1>5, <2>1, <2>2 DEF DoneStage
<1>7. StageOf(h)' = v
  <2>1. StageOf(h)' = DoneStage(h, reply[h], VerdictOn(h)', h)
    <3>1. pc'[h] = "done" /\ reply'[h] = reply[h] /\ ckpt'[thread'[h]].vals.msg = h
      BY <1>2, <1>4, <1>5
    <3> QED
      BY <3>1, StageCases DEF StageIs
  <2>2. VerdictOn(h)' = {v}
    <3>1. \A r \in Resumes : (Answered(r) /\ reply[r].about = h)' <=> r = c
      BY <1>1, <1>2, <1>4 DEF Held, Undecided, Callers
    <3>2. reply'[c].text = v
      BY <1>2, <1>4
    <3> QED
      BY <3>1, <3>2 DEF VerdictOn
  <2>3. (CHOOSE w \in {v} : TRUE) = v
    OBVIOUS
  <2> QED
    BY <1>5, <2>1, <2>2, <2>3 DEF DoneStage
<1>8. ASSUME NEW m \in Calls, m # h PROVE StageOf(m)' = StageOf(m)
  <2>1. VerdictOn(m)' = VerdictOn(m)
    <3>1. \A r \in Resumes :
            \/ reply'[r] = reply[r] /\ (Answered(r)' <=> Answered(r))
            \/ ~Answered(r) /\ reply'[r].about # m
      BY <1>2, <1>4, <1>8 DEF Callers
    <3> HIDE DEF Answered
    <3> QED
      BY <3>1, SameVerdicts
  <2>2. pc'[m] = pc[m] /\ reply'[m] = reply[m] /\ thread'[m] = thread[m] /\ ckpt' = ckpt
    BY <1>1, <1>2 DEF Callers
  <2> QED
    BY <2>1, <2>2, StageKept
<1>9. Review!Move(h, "held", v)
  BY <1>6, <1>7, <1>8, OneMoves
<1> QED
  BY <1>9 DEF Review!Decide, Verdicts

(* A restart fails what is under way and drops what is held.               *)
LEMMA StageCrash ==
  ASSUME TypeInv, PlaceInv, Restart
  PROVE  Review!Crash
<1>1. /\ \A c \in Callers : pc'[c] = IF pc[c] \in Busy THEN "lost" ELSE pc[c]
      /\ \A t \in Threads : ckpt'[t] = NoCheckpoint
      /\ UNCHANGED <<thread, reply>>
  BY DEF Restart
<1>2. \A m \in Calls : VerdictOn(m)' = VerdictOn(m)
  <2>1. \A r \in Resumes : reply'[r] = reply[r] /\ (Answered(r)' <=> Answered(r))
    BY <1>1 DEF Answered
  <2> HIDE DEF Answered
  <2> QED
    BY <2>1, SameVerdicts
<1>3. NoCheckpoint.vals.msg = None /\ None \notin Calls
  BY ConstantsOK DEF NoCheckpoint, NoValues, Input, Callers
<1>4. ASSUME NEW m \in Calls
      PROVE  StageOf(m)' = CASE StageOf(m) = "working" -> "failed"
                             [] StageOf(m) = "held" -> "dropped"
                             [] OTHER -> StageOf(m)
  <2>1. m \in Callers /\ pc[m] \in Busy \cup {"idle", "done", "lost"} /\ StageIs(m) /\ StageIs(m)'
    BY StageCases DEF TypeInv, TypeOK, Callers
  <2>2. CASE pc[m] \in Busy
    <3>1. StageOf(m) = "working" /\ StageOf(m)' = "failed"
      BY <1>1, <2>1, <2>2 DEF StageIs
    <3> QED
      BY <3>1
  <2>3. CASE pc[m] \in {"idle", "lost"}
    <3>1. StageOf(m)' = StageOf(m) /\ StageOf(m) \in {"new", "failed"}
      BY <1>1, <2>1, <2>3 DEF StageIs, Busy, Nodes
    <3> QED
      BY <3>1
  <2>4. CASE pc[m] = "done"
    <3>1. pc'[m] = "done" /\ reply'[m] = reply[m] /\ thread'[m] = thread[m]
      BY <1>1, <2>1, <2>4 DEF Busy, Nodes
    <3>2. StageOf(m) # "working"
      <4>1. PICK r \in Reply : r = reply[m]
        BY <2>4 DEF PlaceInv
      <4>2. PICK V \in SUBSET Texts : V = VerdictOn(m)
        BY VerdictTexts
      <4>3. PICK b : b = ckpt[thread[m]].vals.msg
        OBVIOUS
      <4>4. PICK o : o # m
        BY <1>3
      <4>5. StageOf(m) = DoneStage(m, r, V, b)
        BY <2>1, <2>4, <4>1, <4>2, <4>3 DEF StageIs
      <4> QED
        BY <4>4, <4>5, DoneStages DEF StagesApart
    <3>3. CASE thread[m] \in Threads
      <4>1. ckpt'[thread[m]].vals.msg # m
        BY <1>1, <1>3, <3>3
      <4>2. StageOf(m)' = IF StageOf(m) = "held" THEN "dropped" ELSE StageOf(m)
        BY <1>2, <2>4, <3>1, <4>1, StageLeft
      <4> QED
        BY <3>2, <4>2
    <3>4. CASE thread[m] \notin Threads
      <4>1. reply[m].status \in {422, 500}
        BY <2>4, <3>4 DEF PlaceInv
      <4>2. StageOf(m)' = StageOf(m)
        BY <1>2, <2>4, <3>1, <3>4, StageKept
      <4>3. StageOf(m) \in {"refused", "failed"}
        BY <2>1, <2>4, <4>1 DEF StageIs, DoneStage
      <4> QED
        BY <4>2, <4>3
    <3> QED
      BY <3>3, <3>4
  <2> QED
    BY <2>1, <2>2, <2>3, <2>4
<1> QED
  BY <1>4 DEF Review!Crash

(* The steps of which the promise says nothing.                            *)
LEMMA StageStutters ==
  ASSUME TypeInv, SerialInv, TrailInv, PlaceInv,
         \/ \E r \in Resumes, t \in Threads : NothingToResume(r, t)
         \/ \E r \in Resumes, t \in Threads, a \in Verdicts : StartResume(r, t, a)
         \/ \E c \in Callers : Interrupt(c)
         \/ \E c \in Callers, v \in Values, next \in Nodes \cup {"end"} :
              pc[c] \in Nodes /\ Superstep(c, v, next) /\ Moved(c, v, next)
         \/ \E c \in Callers : RecordDecision(c)
         \/ UNCHANGED vars
  PROVE  \A m \in Calls : StageOf(m)' = StageOf(m)
<1>1. CASE \E r \in Resumes, t \in Threads : NothingToResume(r, t)
  <2>1. PICK r \in Resumes, t \in Threads : NothingToResume(r, t)
    BY <1>1
  <2>2. /\ pc[r] = "idle" /\ reply' = [reply EXCEPT ![r] = Error(404)]
        /\ pc' = [pc EXCEPT ![r] = "done"] /\ thread' = thread /\ ckpt' = ckpt
    BY <2>1 DEF NothingToResume
  <2>3. r \in Callers /\ r \notin Calls
    BY ConstantsOK DEF Callers
  <2>4. ~Answered(r) /\ ~Answered(r)'
    BY <2>2, <2>3, ErrorStatus DEF TrailInv, Answered, TypeInv, TypeOK
  <2>5. \A d \in Callers : d # r =>
          pc'[d] = pc[d] /\ reply'[d] = reply[d] /\ (Answered(d)' <=> Answered(d))
    BY <2>2 DEF Answered, TypeInv, TypeOK
  <2>6. SameAnswers
    BY <2>4, <2>5 DEF SameAnswers
  <2> QED
    BY <2>2, <2>3, <2>5, <2>6, StagesQuiet DEF Callers
<1>2. CASE \E r \in Resumes, t \in Threads, a \in Verdicts : StartResume(r, t, a)
  <2>1. PICK r \in Resumes, t \in Threads, a \in Verdicts : StartResume(r, t, a)
    BY <1>2
  <2>2. ckpt' = ckpt /\ reply' = reply
    BY <2>1 DEF StartResume
  <2>3. \A m \in Calls : pc'[m] = pc[m] /\ thread'[m] = thread[m]
    BY <2>1, ConstantsOK DEF StartResume, TypeInv, TypeOK, Callers
  <2>4. SameAnswers
    BY <2>2 DEF SameAnswers, Answered
  <2> QED
    BY <2>2, <2>3, <2>4, StagesQuiet
<1>3. CASE \E c \in Callers : Interrupt(c)
  <2>1. PICK c \in Callers : Interrupt(c)
    BY <1>3
  <2>2. UNCHANGED <<thread, ckpt, reply>>
    BY <2>1 DEF Interrupt
  <2>3. \A m \in Calls : pc'[m] = pc[m] \/ (pc[m] \in Busy /\ pc'[m] \in Busy)
    BY <2>1 DEF Interrupt, TypeInv, TypeOK, Busy, Nodes, Callers
  <2>4. SameAnswers
    BY <2>2 DEF SameAnswers, Answered
  <2> QED
    BY <2>2, <2>3, <2>4, StagesQuiet
<1>4. CASE \E c \in Callers, v \in Values, next \in Nodes \cup {"end"} :
             pc[c] \in Nodes /\ Superstep(c, v, next) /\ Moved(c, v, next)
  <2>1. PICK c \in Callers, v \in Values, next \in Nodes \cup {"end"} :
               pc[c] \in Nodes /\ RunMoves(c, v, next) /\ v.msg = vals[c].msg
    BY <1>4, SuperstepEffect DEF Moved
  <2>2. UNCHANGED <<thread, reply>>
    BY <2>1 DEF RunMoves
  <2>3. \A m \in Calls : pc'[m] = pc[m] \/ (pc[m] \in Busy /\ pc'[m] \in Busy)
    BY <2>1 DEF RunMoves, Busy, Callers
  <2>4. SameAnswers
    BY <2>2 DEF SameAnswers, Answered
  <2>5. ckpt[thread[c]].vals.msg = vals[c].msg
    BY <2>1 DEF SerialInv, InStep, Busy
  <2>6. \A t \in Threads : ckpt'[t].vals.msg = ckpt[t].vals.msg
    BY <2>1, <2>5 DEF RunMoves
  <2> QED
    BY <2>2, <2>3, <2>4, <2>6, StagesQuiet
<1>5. CASE \E c \in Callers : RecordDecision(c)
  <2>1. UNCHANGED <<pc, thread, ckpt, reply>>
    BY <1>5 DEF RecordDecision
  <2>2. SameAnswers
    BY <2>1 DEF SameAnswers, Answered
  <2> QED
    BY <2>1, <2>2, StagesQuiet
<1>6. CASE UNCHANGED vars
  <2>1. UNCHANGED <<pc, thread, ckpt, reply>>
    BY <1>6 DEF vars
  <2>2. SameAnswers
    BY <2>1 DEF SameAnswers, Answered
  <2> QED
    BY <2>1, <2>2, StagesQuiet
<1> QED
  BY <1>1, <1>2, <1>3, <1>4, <1>5, <1>6

LEMMA ReviewInit == Init => Review!Init
<1> SUFFICES ASSUME Init PROVE Review!Init
  OBVIOUS
<1>1. \A m \in Calls : pc[m] = "idle"
  BY DEF Init, Callers
<1>2. \A m \in Calls : StageOf(m) = "new"
  BY <1>1, StageCases DEF StageIs
<1> QED
  BY <1>2 DEF Review!Init

LEMMA ReviewStep ==
  ASSUME "classify" \notin Faults, "reflect" \notin Faults,
         TypeInv, Owned, SerialInv, TrailInv, HeldInv, PlaceInv, [Next]_vars
  PROVE  [Review!Next]_([m \in Calls |-> StageOf(m)])
<1>1. CASE \E c \in Calls : Refuse(c)
  BY <1>1, StageRefuse DEF Review!Next
<1>2. CASE \E c \in Calls, t \in Threads : StartTriage(c, t)
  BY <1>2, StageSubmit DEF Review!Next
<1>3. CASE \E c \in Callers : FinishTriage(c) \/ FinishResume(c)
  <2>1. PICK c \in Callers, a \in Reply : Ends(c, a)
    BY <1>3, WhoEnds
  <2>2. CASE c \in Calls
    BY <2>1, <2>2, StageTold DEF Review!Next
  <2>3. CASE c \in Resumes
    BY <2>1, <2>3, StageDecided DEF Review!Next
  <2> QED
    BY <2>2, <2>3 DEF Callers
<1>4. CASE Restart
  BY <1>4, StageCrash DEF Review!Next
<1>5. ASSUME NEW c \in Callers, NodeRaises(c) PROVE FALSE
  BY <1>5 DEF NodeRaises
<1>6. CASE \A m \in Calls : StageOf(m)' = StageOf(m)
  BY <1>6, NoneMoves
<1> QED
  BY <1>1, <1>2, <1>3, <1>4, <1>5, <1>6, StepCases, StageStutters

LEMMA PlaceHolds == Spec => []PlaceInv
<1>1. TypeInv /\ PlaceInv /\ [Next]_vars => PlaceInv'
  BY PlaceStep
<1> QED
  BY <1>1, PlaceInit, Typed, PTL DEF Spec

(* When clients wait for their replies and no node raises, the service     *)
(* implements EscalationReview: a message has one outcome, and a human     *)
(* decides exactly the messages that were held (triage, triage_resume).    *)
THEOREM PromiseKept ==
  ASSUME MaxInFlight <= 1, "classify" \notin Faults, "reflect" \notin Faults
  PROVE  Spec => KeepsReviewPromise
<1>1. /\ TypeInv /\ TraceInv /\ SerialInv /\ TrailInv /\ HeldInv /\ PlaceInv /\ [Next]_vars
      => [Review!Next]_([m \in Calls |-> StageOf(m)])
  BY ReviewStep DEF TraceInv
<1> QED
  BY <1>1, ReviewInit, Typed, Traced, Serial, TrailHolds, HeldForHumans, PlaceHolds, PTL
     DEF Spec, KeepsReviewPromise, Review!Spec

=============================================================================
