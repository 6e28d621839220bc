---------------------------- MODULE DurableTriage ----------------------------
(***************************************************************************)
(* The durable path: POST /triage/durable (app/temporal_routes.py) starts  *)
(* TriageAgentWorkflow (app/temporal_workflows.py), whose three activities *)
(* (app/temporal_activities.py) a worker process executes in a thread pool *)
(* (app/temporal_worker.py).                                               *)
(*                                                                         *)
(* The Temporal server is external: it persists what a workflow has        *)
(* completed, hands an attempt of the next activity to the worker, gives   *)
(* the attempt up after its start-to-close timeout and schedules another,  *)
(* and refuses the completion of an attempt it has given up.  A thread     *)
(* that executes such an attempt is not stopped.                           *)
(*                                                                         *)
(* A call is its own message, and names the workflow it starts.            *)
(***************************************************************************)
EXTENDS Naturals

CONSTANTS Calls,       \* POST /triage/durable calls
          WorkflowIds, \* triage-<session_id>
          Intents,     \* what the classifier may return
          Troubles,    \* what may go wrong, see TroubleKinds
          MaxTroubles, \* bound on how often
          None

(* "timeout": an executing attempt is given up; "raise": classify raises   *)
(* on an answer without content; "insert": the ticket's insert fails;      *)
(* "crash": the worker process dies.                                       *)
TroubleKinds == {"timeout", "raise", "insert", "crash"}

ASSUME ConstantsOK ==
  /\ "escalation" \in Intents
  /\ None \notin Intents \cup WorkflowIds
  /\ Troubles \subseteq TroubleKinds
  /\ MaxTroubles \in Nat

VARIABLES
  pc,        \* a call: idle, waiting for its workflow, answered, refused, or cut off
  id,        \* the workflow id a call asked for
  step,      \* the activity the workflow of a call executes next, per the server
  intent,    \* the classification in the workflow's history
  tool,      \* what the tool's result in the history says of a ticket
  attempt,   \* the number of the current attempt at that activity
  polled,    \* workflows whose current attempt a worker has taken
  working,   \* attempts that worker threads execute or have executed
  tickets,   \* support tickets inserted for a message (Postgres)
  reply,     \* the intent a call was answered with
  troubles

vars == <<pc, id, step, intent, tool, attempt, polled, working, tickets, reply, troubles>>

Activities == {"classify", "tool", "respond"}

(* The tool's result: no word of a ticket, an inserted one, or one whose   *)
(* insert failed and that the result speaks of all the same.               *)
ToolResults == {"lookup", "ticket", "claimed"}

(* What executing an attempt returned; "" while it executes. *)
Results == Intents \cup ToolResults \cup {"", "text"}

Attempt == [call : Calls, activity : Activities, number : Nat, given : Intents \cup {None},
            result : Results]

Running(c) == step[c] \in Activities

Init ==
  /\ pc = [c \in Calls |-> "idle"]
  /\ id = [c \in Calls |-> None]
  /\ step = [c \in Calls |-> "none"]
  /\ intent = [c \in Calls |-> None]
  /\ tool = [c \in Calls |-> None]
  /\ attempt = [c \in Calls |-> 0]
  /\ polled = {}
  /\ working = {}
  /\ tickets = [c \in Calls |-> 0]
  /\ reply = [c \in Calls |-> None]
  /\ troubles = 0

Trouble(kind) ==
  /\ kind \in Troubles
  /\ troubles < MaxTroubles
  /\ troubles' = troubles + 1

-----------------------------------------------------------------------------
(* POST /triage/durable *)

Taken(w) == \E c \in Calls : id[c] = w /\ Running(c)

(* start_workflow: an id may be reused once its workflow has completed.    *)
Start(c, w) ==
  /\ pc[c] = "idle"
  /\ ~Taken(w)
  /\ pc' = [pc EXCEPT ![c] = "waiting"]
  /\ id' = [id EXCEPT ![c] = w]
  /\ step' = [step EXCEPT ![c] = "classify"]
  /\ attempt' = [attempt EXCEPT ![c] = 1]
  /\ UNCHANGED <<intent, tool, polled, working, tickets, reply, troubles>>

(* 422 on an empty message, 503 when the server is unreachable, and 500    *)
(* when the session's workflow still runs: WorkflowAlreadyStartedError is  *)
(* not caught.                                                             *)
Refuse(c) ==
  /\ pc[c] = "idle"
  /\ pc' = [pc EXCEPT ![c] = "refused"]
  /\ UNCHANGED <<id, step, intent, tool, attempt, polled, working, tickets, reply, troubles>>

(* handle.result() of the run this call started. *)
Answer(c) ==
  /\ pc[c] = "waiting"
  /\ step[c] = "completed"
  /\ pc' = [pc EXCEPT ![c] = "answered"]
  /\ reply' = [reply EXCEPT ![c] = intent[c]]
  /\ UNCHANGED <<id, step, intent, tool, attempt, polled, working, tickets, troubles>>

(* The API process stops while the call waits; the workflow goes on.       *)
CutOff(c) ==
  /\ pc[c] = "waiting"
  /\ pc' = [pc EXCEPT ![c] = "cut"]
  /\ UNCHANGED <<id, step, intent, tool, attempt, polled, working, tickets, reply, troubles>>

-----------------------------------------------------------------------------
(* The worker *)

(* Variant: an attempt that a worker has taken is handed out again. *)
PollAgain(c) ==
  /\ Running(c)
  /\ polled' = polled \cup {c}
  /\ working' = working \cup {[call |-> c, activity |-> step[c], number |-> attempt[c],
                               given |-> intent[c], result |-> ""]}
  /\ UNCHANGED <<pc, id, step, intent, tool, attempt, tickets, reply, troubles>>

(* An attempt is handed out with its arguments, which run() takes from the *)
(* results in the history.                                                 *)
Poll(c) ==
  /\ Running(c) /\ c \notin polled
  /\ polled' = polled \cup {c}
  /\ working' = working \cup {[call |-> c, activity |-> step[c], number |-> attempt[c],
                               given |-> intent[c], result |-> ""]}
  /\ UNCHANGED <<pc, id, step, intent, tool, attempt, tickets, reply, troubles>>

Returns(a, r) == working' = (working \ {a}) \cup {[a EXCEPT !.result = r]}

(* classify_activity: the model's answer may differ between attempts. *)
Classify(a) ==
  /\ a.activity = "classify" /\ a.result = ""
  /\ \E i \in Intents : Returns(a, i)
  /\ UNCHANGED <<pc, id, step, intent, tool, attempt, polled, tickets, reply, troubles>>

(* run_tool_activity: ticket_lookup inserts, or fails to and says it did.  *)
RunTool(a) ==
  /\ a.activity = "tool" /\ a.result = ""
  /\ \/ /\ a.given = "escalation"
        /\ Returns(a, "ticket")
        /\ tickets' = [tickets EXCEPT ![a.call] = @ + 1]
        /\ UNCHANGED troubles
     \/ /\ a.given = "escalation"
        /\ Returns(a, "claimed")
        /\ Trouble("insert")
        /\ UNCHANGED tickets
     \/ /\ a.given # "escalation"
        /\ Returns(a, "lookup")
        /\ UNCHANGED <<tickets, troubles>>
  /\ UNCHANGED <<pc, id, step, intent, tool, attempt, polled, reply>>

(* generate_response_activity; it falls back to the tool output. *)
Respond(a) ==
  /\ a.activity = "respond" /\ a.result = ""
  /\ Returns(a, "text")
  /\ UNCHANGED <<pc, id, step, intent, tool, attempt, polled, tickets, reply, troubles>>

(* The worker dies with every attempt it executes. *)
WorkerCrash ==
  /\ working # {}
  /\ Trouble("crash")
  /\ working' = {}
  /\ UNCHANGED <<pc, id, step, intent, tool, attempt, polled, tickets, reply>>

-----------------------------------------------------------------------------
(* The server *)

Current(a) ==
  /\ a.call \in polled /\ a.activity = step[a.call] /\ a.number = attempt[a.call]

After(activity) ==
  CASE activity = "classify" -> "tool"
    [] activity = "tool" -> "respond"
    [] activity = "respond" -> "completed"

(* Each result goes to its place in the history. *)
Enter(a) ==
  /\ intent' = IF a.activity = "classify" THEN [intent EXCEPT ![a.call] = a.result] ELSE intent
  /\ tool' = IF a.activity = "tool" THEN [tool EXCEPT ![a.call] = a.result] ELSE tool

(* Variants: an activity's late completion is taken as well; every result  *)
(* is taken for the classification.                                        *)
CompleteLate(a) ==
  /\ a.result # ""
  /\ Enter(a)
  /\ working' = working \ {a}
  /\ step' = [step EXCEPT ![a.call] = After(a.activity)]
  /\ attempt' = [attempt EXCEPT ![a.call] = 1]
  /\ polled' = polled \ {a.call}
  /\ UNCHANGED <<pc, id, tickets, reply, troubles>>

CompleteMixedUp(a) ==
  /\ a.result # ""
  /\ Current(a)
  /\ intent' = [intent EXCEPT ![a.call] = a.result]
  /\ working' = working \ {a}
  /\ step' = [step EXCEPT ![a.call] = After(a.activity)]
  /\ attempt' = [attempt EXCEPT ![a.call] = 1]
  /\ polled' = polled \ {a.call}
  /\ UNCHANGED <<pc, id, tool, tickets, reply, troubles>>

(* A completion enters the history and run() goes on to the next activity. *)
Complete(a) ==
  /\ a.result # ""
  /\ Current(a)
  /\ Enter(a)
  /\ working' = working \ {a}
  /\ step' = [step EXCEPT ![a.call] = After(a.activity)]
  /\ attempt' = [attempt EXCEPT ![a.call] = 1]
  /\ polled' = polled \ {a.call}
  /\ UNCHANGED <<pc, id, tickets, reply, troubles>>

(* "Activity not found on completion": the attempt was given up. *)
Reject(a) ==
  /\ a.result # ""
  /\ ~Current(a)
  /\ working' = working \ {a}
  /\ UNCHANGED <<pc, id, step, intent, tool, attempt, polled, tickets, reply, troubles>>

Retry(c) ==
  /\ attempt' = [attempt EXCEPT ![c] = @ + 1]
  /\ polled' = polled \ {c}

(* classify() raises; the default retry policy schedules another attempt.  *)
Fail(a) ==
  /\ a.activity = "classify" /\ a.result = ""
  /\ Current(a)
  /\ Trouble("raise")
  /\ working' = working \ {a}
  /\ Retry(a.call)
  /\ UNCHANGED <<pc, id, step, intent, tool, tickets, reply>>

Executing(c) == \E a \in working : a.call = c /\ Current(a)

(* Start-to-close timeout of an attempt that a worker still executes ...   *)
TimeOut(c) ==
  /\ c \in polled
  /\ Executing(c)
  /\ Trouble("timeout")
  /\ Retry(c)
  /\ UNCHANGED <<pc, id, step, intent, tool, working, tickets, reply>>

(* Variants: nobody gives up an attempt that died with its worker; the     *)
(* whole workflow starts over.                                             *)
TimeOutNever(c) == FALSE /\ UNCHANGED vars

TimeOutStartingOver(c) ==
  /\ c \in polled
  /\ ~Executing(c)
  /\ Retry(c)
  /\ step' = [step EXCEPT ![c] = "classify"]
  /\ UNCHANGED <<pc, id, intent, tool, working, tickets, reply, troubles>>

(* ... and of one that died with its worker. *)
TimeOutLost(c) ==
  /\ c \in polled
  /\ ~Executing(c)
  /\ Retry(c)
  /\ UNCHANGED <<pc, id, step, intent, tool, working, tickets, reply, troubles>>

Work(a) == Classify(a) \/ RunTool(a) \/ Respond(a)

Report(a) == Complete(a) \/ Reject(a)

Next ==
  \/ \E c \in Calls, w \in WorkflowIds : Start(c, w)
  \/ \E c \in Calls : Refuse(c) \/ Answer(c) \/ CutOff(c)
  \/ \E c \in Calls : Poll(c) \/ TimeOut(c) \/ TimeOutLost(c)
  \/ \E a \in working : Work(a) \/ Report(a) \/ Fail(a)
  \/ WorkerCrash

Spec == Init /\ [][Next]_vars

(* A worker is restarted and polls; activities end (the LLM client and the *)
(* database have timeouts); the server delivers results and timeouts.      *)
FairSpec ==
  /\ Spec
  /\ \A c \in Calls :
       /\ WF_vars(Poll(c))
       /\ WF_vars(TimeOutLost(c))
       /\ WF_vars(Answer(c))
       /\ WF_vars(\E a \in working : a.call = c /\ Current(a) /\ (Work(a) \/ Report(a)))

-----------------------------------------------------------------------------
(* Properties *)

TypeOK ==
  /\ pc \in [Calls -> {"idle", "waiting", "answered", "refused", "cut"}]
  /\ id \in [Calls -> WorkflowIds \cup {None}]
  /\ step \in [Calls -> Activities \cup {"none", "completed"}]
  /\ intent \in [Calls -> Intents \cup {None}]
  /\ tool \in [Calls -> ToolResults \cup {None}]
  /\ attempt \in [Calls -> Nat]
  /\ polled \subseteq Calls
  /\ working \subseteq Attempt
  /\ tickets \in [Calls -> Nat]
  /\ reply \in [Calls -> Intents \cup {None}]
  /\ troubles \in 0..MaxTroubles

(* Tickets fit answers, whatever attempts came back in whatever order: the *)
(* tool acts on the classification in the workflow's history, so that a    *)
(* ticket exists only for a message recorded as an escalation, and only an *)
(* answer to an escalation names a ticket; it names one that was inserted, *)
(* unless the insert failed (TriageAgentWorkflow.run, ticket_lookup).      *)
TicketsFitAnswers ==
  \A c \in Calls :
    /\ tickets[c] > 0 => intent[c] = "escalation"
    /\ pc[c] = "answered" =>
         /\ tool[c] = "ticket" => tickets[c] > 0
         /\ reply[c] = "escalation" <=> tool[c] \in {"ticket", "claimed"}

(* More than one ticket takes a repeated attempt, so trouble. *)
TroubleBeforeDuplicates == \A c \in Calls : tickets[c] > 1 => troubles > 0

(* "The workflow resumes from the next activity instead of re-running the  *)
(* completed one": no step goes back, and history is never rewritten.      *)
Rank == [none |-> 0, classify |-> 1, tool |-> 2, respond |-> 3, completed |-> 4]

HistoryStands ==
  [][\A c \in Calls :
       /\ Rank[step'[c]] >= Rank[step[c]]
       /\ intent[c] # None => intent'[c] = intent[c]]_vars

(* A started call is answered, whatever attempts are lost with a worker or *)
(* given up, unless its own connection is cut off.                         *)
EveryCallAnswered == \A c \in Calls : pc[c] = "waiting" ~> pc[c] \in {"answered", "cut"}

(* "Never double-creates a support ticket" (app/temporal_activities.py).   *)
NeverTwoTickets == \A c \in Calls : tickets[c] <= 1

=============================================================================
