------------------------- MODULE DurableTriageProofs -------------------------
(* Proofs about DurableTriage, for any calls, workflow ids, intents, kinds   *)
(* of trouble and bound on it.  Nothing is assumed of the names: an intent   *)
(* may be called like a tool's result.                                       *)
EXTENDS DurableTriage, TLAPS

-------------------------------------------------------------------------------
(* The inductive invariant.                                                  *)

\* What the tool's result may say of a ticket, given the classification that
\* the history holds and the tickets there are.
ToolFits(r, c) ==
  /\ r \in ToolResults
  /\ r = "ticket" => tickets[c] > 0
  /\ r \in {"ticket", "claimed"} <=> intent[c] = "escalation"

\* The history of a workflow agrees with how far it has come.
HistoryInv(c) ==
  /\ pc[c] = "idle" => step[c] = "none"
  /\ step[c] \in {"none", "classify"} => intent[c] = None
  /\ step[c] \in {"tool", "respond", "completed"} => intent[c] \in Intents
  /\ step[c] \in {"respond", "completed"} => ToolFits(tool[c], c)
  /\ pc[c] = "answered" => step[c] = "completed" /\ reply[c] = intent[c]
  /\ tickets[c] > 0 => intent[c] = "escalation"

\* An attempt, also one the server gave up long ago, was given the
\* classification that the history still holds, and what it returned fits it.
AttemptInv(a) ==
  /\ a.activity = "classify" => a.result \in Intents \cup {""}
  /\ a.activity # "classify" => a.given = intent[a.call] /\ a.given \in Intents
  /\ a.activity = "tool" /\ a.result # "" => ToolFits(a.result, a.call)

DataInv ==
  /\ TypeOK
  /\ \A c \in Calls : HistoryInv(c)
  /\ \A a \in working : AttemptInv(a)

\* While nothing went wrong there is one attempt per activity, the one the
\* server waits for, and it is neither lost nor given up.
Untroubled(c) ==
  /\ attempt[c] <= 1
  /\ c \in polled => \E a \in working : a.call = c
  /\ \A a \in working : a.call = c =>
       /\ Current(a)
       /\ \A b \in working : b.call = c => b = a
  /\ tickets[c] <= 1
  /\ step[c] = "tool" /\ c \notin polled => tickets[c] = 0
  /\ \A a \in working : a.call = c /\ a.activity = "tool" /\ a.result = "" => tickets[c] = 0

TroubleInv == troubles = 0 => \A c \in Calls : Untroubled(c)

IInv == DataInv /\ TroubleInv

-------------------------------------------------------------------------------
(* Types and the agreement of history, attempts and tickets.                 *)

\* Initially there is neither history nor attempt.
LEMMA DataInit == Init => DataInv
  BY ConstantsOK DEF Init, DataInv, TypeOK, HistoryInv, Activities

\* Starting a workflow.
LEMMA StartKeepsData ==
  ASSUME DataInv, NEW c \in Calls, NEW w \in WorkflowIds, Start(c, w)
  PROVE  DataInv'
<1>1. TypeOK'
  BY DEF DataInv, TypeOK, Start, Activities
<1>2. ASSUME NEW d \in Calls PROVE HistoryInv(d)'
  BY DEF DataInv, TypeOK, HistoryInv, ToolFits, Start
<1>3. ASSUME NEW a \in working PROVE AttemptInv(a)'
  BY <1>3 DEF DataInv, TypeOK, AttemptInv, ToolFits, Start
<1>4. QED BY <1>1, <1>2, <1>3 DEF DataInv, Start

\* Troubles are counted up to their bound.
LEMMA TroubleType ==
  ASSUME troubles \in 0..MaxTroubles, NEW kind, Trouble(kind)
  PROVE  troubles' \in 0..MaxTroubles
  BY ConstantsOK DEF Trouble

\* What happens to the call alone.
LEMMA CallKeepsData ==
  ASSUME DataInv, NEW c \in Calls, Refuse(c) \/ Answer(c) \/ CutOff(c)
  PROVE  DataInv'
<1>1. TypeOK'
  BY DEF DataInv, TypeOK, HistoryInv, Refuse, Answer, CutOff
<1>2. ASSUME NEW d \in Calls PROVE HistoryInv(d)'
  BY DEF DataInv, TypeOK, HistoryInv, ToolFits, Refuse, Answer, CutOff
<1>3. ASSUME NEW a \in working PROVE AttemptInv(a)'
  BY <1>3 DEF DataInv, AttemptInv, ToolFits, Refuse, Answer, CutOff
<1>4. QED BY <1>1, <1>2, <1>3 DEF DataInv, Refuse, Answer, CutOff

\* An attempt is handed out with the classification of the history.
LEMMA PollKeepsData ==
  ASSUME DataInv, NEW c \in Calls, Poll(c)
  PROVE  DataInv'
<1> DEFINE new == [call |-> c, activity |-> step[c], number |-> attempt[c],
                   given |-> intent[c], result |-> ""]
<1>1. new \in Attempt
  BY DEF DataInv, TypeOK, Poll, Running, Attempt, Results
<1>2. TypeOK'
  BY <1>1 DEF DataInv, TypeOK, Poll
<1>3. ASSUME NEW d \in Calls PROVE HistoryInv(d)'
  BY DEF DataInv, HistoryInv, ToolFits, Poll
<1>4. AttemptInv(new)
  BY DEF DataInv, HistoryInv, AttemptInv, Poll, Running, Activities
<1>5. ASSUME NEW a \in working' PROVE AttemptInv(a)
  BY <1>4, <1>5 DEF DataInv, Poll
<1>6. ASSUME NEW a \in working' PROVE AttemptInv(a)'
  BY <1>5, <1>6 DEF AttemptInv, ToolFits, Poll
<1>7. QED BY <1>2, <1>3, <1>6 DEF DataInv

\* An attempt's result replaces none.
LEMMA ReturnsType ==
  ASSUME working \subseteq Attempt, NEW a \in working, NEW r \in Results, Returns(a, r)
  PROVE  /\ working' \subseteq Attempt
         /\ \A b \in working' : b \in working \/ b = [a EXCEPT !.result = r]
         /\ [a EXCEPT !.result = r] \in Attempt
  BY DEF Returns, Attempt

\* The model classifies.
LEMMA ClassifyKeepsData ==
  ASSUME DataInv, NEW a \in working, Classify(a)
  PROVE  DataInv'
<1>1. PICK i \in Intents : Returns(a, i)
  BY DEF Classify
<1>2. i \in Results /\ working \subseteq Attempt
  BY DEF Results, DataInv, TypeOK
<1> DEFINE done == [a EXCEPT !.result = i]
<1>3. /\ working' \subseteq Attempt
      /\ \A b \in working' : b \in working \/ b = done
  BY <1>1, <1>2, ReturnsType
<1>4. TypeOK'
  BY <1>3 DEF DataInv, TypeOK, Classify
<1>5. ASSUME NEW d \in Calls PROVE HistoryInv(d)'
  BY DEF DataInv, HistoryInv, ToolFits, Classify
<1>6. AttemptInv(done)
  <2>1. done.activity = "classify" /\ done.result = i
    BY <1>2 DEF Classify, Attempt
  <2>2. QED BY <2>1 DEF AttemptInv
<1>7. ASSUME NEW b \in working' PROVE AttemptInv(b)
  BY <1>3, <1>6, <1>7 DEF DataInv
<1>8. ASSUME NEW b \in working' PROVE AttemptInv(b)'
  BY <1>7, <1>8 DEF AttemptInv, ToolFits, Classify
<1>9. QED BY <1>4, <1>5, <1>8 DEF DataInv

\* The tool inserts a ticket, fails to, or looks something else up.
LEMMA RunToolKeepsData ==
  ASSUME DataInv, NEW a \in working, RunTool(a)
  PROVE  DataInv'
<1>1. a \in Attempt /\ working \subseteq Attempt
  BY DEF DataInv, TypeOK
<1>2. a.call \in Calls /\ a.activity = "tool" /\ a.given = intent[a.call]
  BY <1>1 DEF DataInv, AttemptInv, RunTool, Attempt
<1>3. PICK r \in ToolResults :
        /\ Returns(a, r)
        /\ r = "ticket" => tickets' = [tickets EXCEPT ![a.call] = @ + 1]
        /\ r # "ticket" => tickets' = tickets
        /\ r \in {"ticket", "claimed"} <=> a.given = "escalation"
        /\ troubles' \in 0..MaxTroubles
  <2>1. troubles \in 0..MaxTroubles
    BY DEF DataInv, TypeOK
  <2>2. CASE /\ a.given = "escalation" /\ Returns(a, "ticket") /\ UNCHANGED troubles
             /\ tickets' = [tickets EXCEPT ![a.call] = @ + 1]
    <3>1. "ticket" \in ToolResults
      BY DEF ToolResults
    <3>2. QED BY <2>1, <2>2, <3>1
  <2>3. CASE /\ a.given = "escalation" /\ Returns(a, "claimed") /\ Trouble("insert")
             /\ UNCHANGED tickets
    <3>1. troubles' \in 0..MaxTroubles
      BY <2>1, <2>3, TroubleType
    <3>2. "claimed" \in ToolResults
      BY DEF ToolResults
    <3>3. QED BY <2>3, <3>1, <3>2
  <2>4. CASE /\ a.given # "escalation" /\ Returns(a, "lookup")
             /\ UNCHANGED <<tickets, troubles>>
    <3>1. "lookup" \in ToolResults
      BY DEF ToolResults
    <3>2. QED BY <2>1, <2>4, <3>1
  <2>5. QED BY <2>2, <2>3, <2>4 DEF RunTool
<1>4. r \in Results
  BY DEF Results
<1> DEFINE done == [a EXCEPT !.result = r]
<1>5. /\ working' \subseteq Attempt
      /\ \A b \in working' : b \in working \/ b = done
  BY <1>1, <1>3, <1>4, ReturnsType
<1>6. /\ tickets' \in [Calls -> Nat]
      /\ \A c \in Calls : tickets'[c] >= tickets[c]
      /\ r = "ticket" => tickets'[a.call] > 0
      /\ \A c \in Calls : tickets'[c] > 0 => intent[c] = "escalation"
  BY <1>2, <1>3 DEF DataInv, TypeOK, HistoryInv
<1>7. TypeOK'
  BY <1>3, <1>5, <1>6 DEF DataInv, TypeOK, RunTool
<1>8. \A c \in Calls : \A x : ToolFits(x, c) => ToolFits(x, c)'
  <2>1. \A c \in Calls : tickets[c] > 0 => tickets'[c] > 0
    BY <1>6 DEF DataInv, TypeOK
  <2>2. QED BY <2>1 DEF ToolFits, RunTool
<1>9. ASSUME NEW d \in Calls PROVE HistoryInv(d)'
  BY <1>6, <1>8 DEF DataInv, HistoryInv, RunTool
<1>10. AttemptInv(done)'
  <2>1. done.activity = "tool" /\ done.result = r /\ done.call = a.call /\ done.given = a.given
    BY <1>1, <1>2 DEF Attempt
  <2>2. a.given = intent'[a.call] /\ a.given \in Intents
    BY <1>2 DEF DataInv, AttemptInv, RunTool
  <2>3. ToolFits(r, a.call)'
    BY <1>3, <1>6, <2>2 DEF ToolFits
  <2>4. QED BY <2>1, <2>2, <2>3 DEF AttemptInv
<1>11. ASSUME NEW b \in working PROVE AttemptInv(b)'
  <2>1. b.call \in Calls
    BY <1>1, <1>11 DEF Attempt
  <2>2. AttemptInv(b)
    BY <1>11 DEF DataInv
  <2>3. QED BY <1>8, <2>1, <2>2 DEF AttemptInv, RunTool
<1>12. QED BY <1>5, <1>7, <1>9, <1>10, <1>11 DEF DataInv

\* The response is generated.
LEMMA RespondKeepsData ==
  ASSUME DataInv, NEW a \in working, Respond(a)
  PROVE  DataInv'
<1>1. Returns(a, "text") /\ "text" \in Results /\ working \subseteq Attempt
  BY DEF Respond, Results, DataInv, TypeOK
<1> DEFINE done == [a EXCEPT !.result = "text"]
<1>2. /\ working' \subseteq Attempt
      /\ \A b \in working' : b \in working \/ b = done
  BY <1>1, ReturnsType
<1>3. TypeOK'
  BY <1>2 DEF DataInv, TypeOK, Respond
<1>4. ASSUME NEW d \in Calls PROVE HistoryInv(d)'
  BY DEF DataInv, HistoryInv, ToolFits, Respond
<1>5. AttemptInv(done)
  <2>1. done.activity = "respond" /\ done.call = a.call /\ done.given = a.given
    BY <1>1 DEF Respond, Attempt
  <2>2. QED BY <2>1 DEF AttemptInv, Respond, DataInv
<1>6. ASSUME NEW b \in working' PROVE AttemptInv(b)
  BY <1>2, <1>5, <1>6 DEF DataInv
<1>7. ASSUME NEW b \in working' PROVE AttemptInv(b)'
  BY <1>6, <1>7 DEF AttemptInv, ToolFits, Respond
<1>8. QED BY <1>3, <1>4, <1>7 DEF DataInv

\* A completion that the server takes is one of the current activity, so that
\* a classification is recorded only where none was.
LEMMA CompleteKeepsData ==
  ASSUME DataInv, NEW a \in working, Complete(a)
  PROVE  DataInv'
<1>1. /\ a \in Attempt /\ a.call \in Calls /\ a.activity \in Activities
      /\ working \subseteq Attempt
      /\ a.activity = step[a.call]
      /\ a.result # ""
  BY DEF DataInv, TypeOK, Complete, Current, Attempt
<1>2. working' \subseteq working
  BY DEF Complete
<1>3. CASE a.activity = "classify"
  <2>1. /\ a.result \in Intents
        /\ intent' = [intent EXCEPT ![a.call] = a.result]
        /\ tool' = tool
        /\ step' = [step EXCEPT ![a.call] = "tool"]
    BY <1>1, <1>3 DEF Complete, Enter, After, DataInv, AttemptInv
  <2>2. intent[a.call] = None /\ ~(tickets[a.call] > 0)
    BY <1>1, <1>3, ConstantsOK DEF DataInv, HistoryInv
  <2>3. TypeOK'
    BY <1>1, <1>2, <2>1 DEF DataInv, TypeOK, Complete, Activities
  <2>4. ASSUME NEW d \in Calls PROVE HistoryInv(d)'
    <3>1. CASE d = a.call
      <4>1. step'[d] = "tool" /\ step[d] = "classify" /\ intent'[d] \in Intents
        BY <1>1, <1>3, <2>1, <3>1 DEF DataInv, TypeOK
      <4>2. QED BY <1>1, <2>2, <3>1, <4>1 DEF DataInv, HistoryInv, Complete
    <3>2. CASE d # a.call
      <4>1. step'[d] = step[d] /\ intent'[d] = intent[d]
        BY <1>1, <2>1, <3>2 DEF DataInv, TypeOK
      <4>2. QED BY <2>1, <4>1 DEF DataInv, HistoryInv, ToolFits, Complete
    <3>3. QED BY <3>1, <3>2
  <2>5. ASSUME NEW b \in working PROVE AttemptInv(b)'
    <3>1. b \in Attempt /\ AttemptInv(b)
      BY <1>1, <2>5 DEF DataInv
    <3>2. CASE b.activity = "classify"
      BY <3>1, <3>2 DEF AttemptInv
    <3>3. CASE b.activity # "classify"
      <4>1. b.call # a.call
        BY <2>2, <3>1, <3>3, ConstantsOK DEF AttemptInv
      <4>2. intent'[b.call] = intent[b.call] /\ tickets' = tickets
        BY <2>1, <3>1, <4>1 DEF DataInv, TypeOK, Attempt, Complete
      <4>3. QED BY <3>1, <4>2 DEF AttemptInv, ToolFits
    <3>4. QED BY <3>2, <3>3
  <2>6. QED BY <1>2, <2>3, <2>4, <2>5 DEF DataInv
<1>4. CASE a.activity = "tool"
  <2>1. /\ intent' = intent
        /\ tool' = [tool EXCEPT ![a.call] = a.result]
        /\ step' = [step EXCEPT ![a.call] = "respond"]
        /\ ToolFits(a.result, a.call)
    BY <1>1, <1>4 DEF Complete, Enter, After, DataInv, AttemptInv
  <2>2. TypeOK'
    BY <1>1, <1>2, <2>1 DEF DataInv, TypeOK, Complete, Activities, ToolFits
  <2>3. ASSUME NEW d \in Calls PROVE HistoryInv(d)'
    <3>1. \A x : ToolFits(x, d)' <=> ToolFits(x, d)
      BY <2>1 DEF ToolFits, Complete
    <3>2. CASE d = a.call
      <4>1. step'[d] = "respond" /\ step[d] = "tool" /\ ToolFits(tool'[d], d)
        BY <1>1, <1>4, <2>1, <3>2 DEF DataInv, TypeOK
      <4>2. QED BY <1>1, <2>1, <3>1, <3>2, <4>1 DEF DataInv, HistoryInv, Complete
    <3>3. CASE d # a.call
      <4>1. step'[d] = step[d] /\ tool'[d] = tool[d]
        BY <1>1, <2>1, <3>3 DEF DataInv, TypeOK
      <4>2. QED BY <2>1, <3>1, <4>1 DEF DataInv, HistoryInv, Complete
    <3>4. QED BY <3>2, <3>3
  <2>4. ASSUME NEW b \in working PROVE AttemptInv(b)'
    BY <2>1, <2>4 DEF DataInv, AttemptInv, ToolFits, Complete
  <2>5. QED BY <1>2, <2>2, <2>3, <2>4 DEF DataInv
<1>5. CASE a.activity = "respond"
  <2>1. /\ intent' = intent
        /\ tool' = tool
        /\ step' = [step EXCEPT ![a.call] = "completed"]
    BY <1>1, <1>5 DEF Complete, Enter, After
  <2>2. TypeOK'
    BY <1>1, <1>2, <2>1 DEF DataInv, TypeOK, Complete
  <2>3. ASSUME NEW d \in Calls PROVE HistoryInv(d)'
    <3>1. \A x : ToolFits(x, d)' <=> ToolFits(x, d)
      BY <2>1 DEF ToolFits, Complete
    <3>2. CASE d = a.call
      <4>1. step'[d] = "completed" /\ step[d] = "respond" /\ ToolFits(tool'[d], d)
        BY <1>1, <1>5, <2>1, <3>2 DEF DataInv, TypeOK, HistoryInv
      <4>2. QED BY <1>1, <2>1, <3>1, <3>2, <4>1 DEF DataInv, HistoryInv, Complete
    <3>3. CASE d # a.call
      <4>1. step'[d] = step[d] /\ tool'[d] = tool[d]
        BY <1>1, <2>1, <3>3 DEF DataInv, TypeOK
      <4>2. QED BY <2>1, <3>1, <4>1 DEF DataInv, HistoryInv, Complete
    <3>4. QED BY <3>2, <3>3
  <2>4. ASSUME NEW b \in working PROVE AttemptInv(b)'
    BY <2>1, <2>4 DEF DataInv, AttemptInv, ToolFits, Complete
  <2>5. QED BY <1>2, <2>2, <2>3, <2>4 DEF DataInv
<1>6. QED BY <1>1, <1>3, <1>4, <1>5 DEF Activities

\* Refused completions, failed and lost attempts, and a crash lose attempts
\* and repeat them, and leave the history alone.
LEMMA RetryKeepsData ==
  ASSUME DataInv,
         \/ \E a \in working : Reject(a) \/ Fail(a)
         \/ \E c \in Calls : TimeOut(c) \/ TimeOutLost(c)
         \/ WorkerCrash
  PROVE  DataInv'
<1>1. /\ UNCHANGED <<pc, id, step, intent, tool, tickets, reply>>
      /\ working' \subseteq working
  BY DEF Reject, Fail, TimeOut, TimeOutLost, WorkerCrash
<1>2. troubles' \in 0..MaxTroubles
  <2>1. \/ troubles' = troubles
        \/ \E kind \in TroubleKinds : Trouble(kind)
    BY DEF Reject, Fail, TimeOut, TimeOutLost, WorkerCrash, TroubleKinds
  <2>2. QED BY <2>1, TroubleType DEF DataInv, TypeOK
<1>3. attempt' \in [Calls -> Nat] /\ polled' \subseteq Calls
  <2>1. ASSUME NEW c \in Calls, Retry(c) PROVE attempt' \in [Calls -> Nat] /\ polled' \subseteq Calls
    BY <2>1 DEF DataInv, TypeOK, Retry
  <2>2. \A a \in working : a.call \in Calls
    BY DEF DataInv, TypeOK, Attempt
  <2>3. QED BY <2>1, <2>2 DEF DataInv, TypeOK, Reject, Fail, TimeOut, TimeOutLost, WorkerCrash
<1>4. TypeOK'
  BY <1>1, <1>2, <1>3 DEF DataInv, TypeOK
<1>5. ASSUME NEW d \in Calls PROVE HistoryInv(d)'
  BY <1>1 DEF DataInv, HistoryInv, ToolFits
<1>6. ASSUME NEW b \in working PROVE AttemptInv(b)'
  BY <1>1, <1>6 DEF DataInv, AttemptInv, ToolFits
<1>7. QED BY <1>1, <1>4, <1>5, <1>6 DEF DataInv

\* Every step keeps types, history and attempts.
LEMMA DataStep == DataInv /\ [Next]_vars => DataInv'
<1> SUFFICES ASSUME DataInv, [Next]_vars PROVE DataInv'
  OBVIOUS
<1>1. CASE UNCHANGED vars
  BY <1>1 DEF vars, DataInv, TypeOK, HistoryInv, AttemptInv, ToolFits
<1>2. CASE Next
  BY <1>2, StartKeepsData, CallKeepsData, PollKeepsData, ClassifyKeepsData, RunToolKeepsData,
     RespondKeepsData, CompleteKeepsData, RetryKeepsData
  DEF Next, Work, Report
<1>3. QED BY <1>1, <1>2

-------------------------------------------------------------------------------
(* Nothing repeated without trouble.                                         *)

\* A workflow that was not started, or that no worker has polled, has no attempt.
LEMMA NoAttempt ==
  ASSUME NEW c \in Calls, Untroubled(c), DataInv,
         c \notin polled \/ step[c] \notin Activities
  PROVE  c \notin polled /\ \A a \in working : a.call # c
<1>1. ASSUME NEW a \in working, a.call = c PROVE FALSE
  <2>1. Current(a) /\ a \in Attempt
    BY <1>1 DEF Untroubled, DataInv, TypeOK
  <2>2. QED BY <1>1, <2>1 DEF Current, Attempt
<1>2. QED BY <1>1 DEF Untroubled

LEMMA StartUntroubled ==
  ASSUME DataInv, \A c \in Calls : Untroubled(c),
         NEW c \in Calls, NEW w \in WorkflowIds, Start(c, w)
  PROVE  \A d \in Calls : Untroubled(d)'
<1>1. c \notin polled /\ \A a \in working : a.call # c
  BY NoAttempt DEF DataInv, HistoryInv, Start, Activities
<1>2. tickets[c] = 0
  BY ConstantsOK DEF DataInv, HistoryInv, TypeOK, Start
<1>3. Untroubled(c)'
  <2>1. attempt'[c] = 1 /\ step'[c] = "classify"
    BY DEF Start, DataInv, TypeOK
  <2>2. UNCHANGED <<polled, working, tickets>>
    BY DEF Start
  <2>3. attempt'[c] <= 1 /\ tickets'[c] <= 1
    BY <1>2, <2>1, <2>2
  <2>4. QED BY <1>1, <1>2, <2>1, <2>2, <2>3 DEF Untroubled
<1>4. ASSUME NEW d \in Calls, d # c PROVE Untroubled(d)'
  <2>1. step'[d] = step[d] /\ attempt'[d] = attempt[d]
    BY <1>4 DEF Start, DataInv, TypeOK
  <2>2. \A a \in working : a.call = d => (Current(a)' <=> Current(a))
    BY <2>1 DEF Current, Start
  <2>3. QED BY <2>1, <2>2 DEF Untroubled, Start
<1>5. QED BY <1>3, <1>4

LEMMA PollUntroubled ==
  ASSUME DataInv, \A c \in Calls : Untroubled(c), NEW c \in Calls, Poll(c)
  PROVE  \A d \in Calls : Untroubled(d)'
<1>1. \A a \in working : a.call # c
  BY NoAttempt DEF Poll
<1>2. PICK new :
        /\ working' = working \cup {new}
        /\ new.call = c /\ new.activity = step[c] /\ new.number = attempt[c]
  <2> DEFINE n == [call |-> c, activity |-> step[c], number |-> attempt[c],
                   given |-> intent[c], result |-> ""]
  <2>1. n.call = c /\ n.activity = step[c] /\ n.number = attempt[c]
    OBVIOUS
  <2>2. working' = working \cup {n}
    BY DEF Poll
  <2>3. QED BY <2>1, <2>2
<1>3. Untroubled(c)'
  <2>1. new \in working' /\ \A a \in working' : a.call = c => a = new
    BY <1>1, <1>2
  <2>2. Current(new)'
    BY <1>2 DEF Current, Poll
  <2>3. step[c] = "tool" => tickets[c] = 0
    BY DEF Untroubled, Poll
  <2>4. QED BY <1>2, <2>1, <2>2, <2>3 DEF Untroubled, Poll
<1>4. ASSUME NEW d \in Calls, d # c PROVE Untroubled(d)'
  <2>1. \A a : a.call = d => (a \in working' <=> a \in working)
    BY <1>2, <1>4
  <2>2. \A a \in working : a.call = d => (Current(a)' <=> Current(a))
    BY <1>4 DEF Current, Poll
  <2>3. d \in polled' <=> d \in polled
    BY <1>4 DEF Poll
  <2>4. UNCHANGED <<attempt, step, tickets>>
    BY DEF Poll
  <2>5. attempt[d] <= 1 /\ tickets[d] <= 1
    BY DEF Untroubled
  <2>6. d \in polled' => \E a \in working' : a.call = d
    BY <2>1, <2>3 DEF Untroubled
  <2>7. \A a \in working' : a.call = d =>
          /\ Current(a)'
          /\ \A b \in working' : b.call = d => b = a
    BY <2>1, <2>2 DEF Untroubled
  <2>8. step'[d] = "tool" /\ d \notin polled' => tickets'[d] = 0
    BY <2>3, <2>4 DEF Untroubled
  <2>9. \A a \in working' : a.call = d /\ a.activity = "tool" /\ a.result = "" => tickets'[d] = 0
    BY <2>1, <2>4 DEF Untroubled
  <2>10. QED BY <2>4, <2>5, <2>6, <2>7, <2>8, <2>9 DEF Untroubled
<1>5. QED BY <1>3, <1>4

\* Executing the one attempt leaves one attempt.
LEMMA ReturnsUntroubled ==
  ASSUME DataInv, \A c \in Calls : Untroubled(c),
         NEW a \in working, NEW r \in Results, Returns(a, r),
         UNCHANGED <<step, attempt, polled>>,
         \A c \in Calls : c # a.call => tickets'[c] = tickets[c],
         tickets'[a.call] <= 1,
         a.activity = "tool" => r # ""
  PROVE  \A d \in Calls : Untroubled(d)'
<1>1. a \in Attempt
  BY DEF DataInv, TypeOK
<1>2. PICK done \in Attempt :
        /\ working' = (working \ {a}) \cup {done}
        /\ done.call = a.call /\ done.activity = a.activity /\ done.number = a.number
        /\ done.result = r
  <2>1. [a EXCEPT !.result = r] \in Attempt
    BY <1>1 DEF Attempt
  <2>2. /\ [a EXCEPT !.result = r].call = a.call
        /\ [a EXCEPT !.result = r].activity = a.activity
        /\ [a EXCEPT !.result = r].number = a.number
        /\ [a EXCEPT !.result = r].result = r
    BY <1>1 DEF Attempt
  <2>3. QED BY <2>1, <2>2 DEF Returns
<1>3. \A b : Current(b)' <=> Current(b)
  BY DEF Current
<1>4. ASSUME NEW d \in Calls, d = a.call PROVE Untroubled(d)'
  <2>1. Current(a) /\ \A b \in working' : b.call = d => b = done
    BY <1>2, <1>4 DEF Untroubled
  <2>2. Current(done) /\ done \in working'
    BY <1>2, <2>1 DEF Current
  <2>3. step[d] = a.activity /\ d \in polled
    BY <1>4, <2>1 DEF Current
  <2>4. QED BY <1>2, <1>3, <1>4, <2>1, <2>2, <2>3 DEF Untroubled
<1>5. ASSUME NEW d \in Calls, d # a.call PROVE Untroubled(d)'
  <2>1. \A b : b.call = d => (b \in working' <=> b \in working)
    BY <1>2, <1>5
  <2>2. QED BY <1>3, <1>5, <2>1 DEF Untroubled
<1>6. QED BY <1>4, <1>5

LEMMA WorkUntroubled ==
  ASSUME DataInv, \A c \in Calls : Untroubled(c), troubles = 0, troubles' = 0,
         NEW a \in working, Work(a)
  PROVE  \A d \in Calls : Untroubled(d)'
<1>1. a \in Attempt /\ a.call \in Calls
  BY DEF DataInv, TypeOK, Attempt
<1>2. tickets[a.call] <= 1 /\ tickets \in [Calls -> Nat]
  BY <1>1 DEF Untroubled, DataInv, TypeOK
<1>3. CASE Classify(a)
  <2>1. PICK i \in Results : Returns(a, i)
    BY <1>3 DEF Classify, Results
  <2>2. QED BY <1>1, <1>2, <1>3, <2>1, ReturnsUntroubled DEF Classify
<1>4. CASE Respond(a)
  <2>1. "text" \in Results
    BY DEF Results
  <2>2. QED BY <1>1, <1>2, <1>4, <2>1, ReturnsUntroubled DEF Respond
<1>5. CASE RunTool(a)
  <2>1. tickets[a.call] = 0
    BY <1>1, <1>5 DEF RunTool, Untroubled
  <2>2. PICK r \in Results : Returns(a, r) /\ r # ""
    BY <1>5 DEF RunTool, Results, ToolResults
  <2>3. tickets' = tickets \/ tickets' = [tickets EXCEPT ![a.call] = @ + 1]
    BY <1>5 DEF RunTool
  <2>4. /\ \A c \in Calls : c # a.call => tickets'[c] = tickets[c]
        /\ tickets'[a.call] <= 1
    BY <1>1, <1>2, <2>1, <2>3
  <2>5. QED BY <1>1, <1>5, <2>2, <2>4, ReturnsUntroubled DEF RunTool
<1>6. QED BY <1>3, <1>4, <1>5 DEF Work

LEMMA CompleteUntroubled ==
  ASSUME DataInv, \A c \in Calls : Untroubled(c), NEW a \in working, Complete(a)
  PROVE  \A d \in Calls : Untroubled(d)'
<1>1. a \in Attempt /\ a.call \in Calls
  BY DEF DataInv, TypeOK, Attempt
<1>2. ASSUME NEW d \in Calls, d = a.call PROVE Untroubled(d)'
  <2>1. \A b \in working' : b.call # d
    BY <1>2 DEF Untroubled, Complete
  <2>2. d \notin polled' /\ attempt'[d] = 1
    BY <1>2 DEF Complete, DataInv, TypeOK
  <2>3. step'[d] = "tool" => step[d] = "classify"
    BY <1>1, <1>2 DEF Complete, Current, After, Attempt, Activities, DataInv, TypeOK
  <2>4. step[d] = "classify" => tickets[d] = 0
    BY ConstantsOK DEF DataInv, HistoryInv, TypeOK
  <2>5. tickets'[d] = tickets[d]
    BY DEF Complete
  <2>6. tickets[d] <= 1
    BY DEF Untroubled
  <2>7. attempt'[d] <= 1 /\ tickets'[d] <= 1
    BY <2>2, <2>5, <2>6
  <2>8. QED BY <2>1, <2>2, <2>3, <2>4, <2>5, <2>7 DEF Untroubled
<1>3. ASSUME NEW d \in Calls, d # a.call PROVE Untroubled(d)'
  <2>1. step'[d] = step[d] /\ attempt'[d] = attempt[d] /\ (d \in polled' <=> d \in polled)
    BY <1>3 DEF Complete, DataInv, TypeOK
  <2>2. \A b : b.call = d => (b \in working' <=> b \in working)
    BY <1>3 DEF Complete
  <2>3. \A b \in working : b.call = d => (Current(b)' <=> Current(b))
    BY <2>1 DEF Current
  <2>4. tickets'[d] = tickets[d]
    BY DEF Complete
  <2>5. attempt[d] <= 1 /\ tickets[d] <= 1
    BY DEF Untroubled
  <2>6. d \in polled' => \E b \in working' : b.call = d
    BY <2>1, <2>2 DEF Untroubled
  <2>7. \A b \in working' : b.call = d =>
          /\ Current(b)'
          /\ \A e \in working' : e.call = d => e = b
    BY <2>2, <2>3 DEF Untroubled
  <2>8. step'[d] = "tool" /\ d \notin polled' => tickets'[d] = 0
    BY <2>1, <2>4 DEF Untroubled
  <2>9. \A b \in working' : b.call = d /\ b.activity = "tool" /\ b.result = "" => tickets'[d] = 0
    BY <2>2, <2>4 DEF Untroubled
  <2>10. QED BY <2>1, <2>4, <2>5, <2>6, <2>7, <2>8, <2>9 DEF Untroubled
<1>4. QED BY <1>2, <1>3

\* Every step keeps what holds until something goes wrong.
LEMMA TroubleStep == DataInv /\ TroubleInv /\ [Next]_vars => TroubleInv'
<1> SUFFICES ASSUME DataInv, TroubleInv, [Next]_vars, troubles' = 0
             PROVE  \A d \in Calls : Untroubled(d)'
  BY DEF TroubleInv
<1>1. ASSUME NEW kind, Trouble(kind) PROVE FALSE
  BY <1>1, ConstantsOK DEF Trouble, DataInv, TypeOK
<1>2. ~WorkerCrash /\ (\A a \in working : ~Fail(a)) /\ (\A c \in Calls : ~TimeOut(c))
  BY <1>1 DEF WorkerCrash, Fail, TimeOut
<1>3. troubles = 0
  BY <1>1, <1>2 DEF vars, Next, Start, Refuse, Answer, CutOff, Poll, TimeOutLost, Work, Report,
     Classify, RunTool, Respond, Complete, Reject
<1>4. \A c \in Calls : Untroubled(c)
  BY <1>3 DEF TroubleInv
<1>5. \A a \in working : ~Reject(a)
  BY <1>4 DEF Reject, Untroubled, DataInv, TypeOK, Attempt
<1>6. \A c \in Calls : ~TimeOutLost(c)
  BY <1>4 DEF TimeOutLost, Executing, Untroubled
<1>7. CASE UNCHANGED <<step, attempt, polled, working, tickets>>
  BY ZenonT(60), <1>4, <1>7 DEF Untroubled, Current
<1>8. QED BY <1>2, <1>3, <1>4, <1>5, <1>6, <1>7, StartUntroubled, PollUntroubled,
             WorkUntroubled, CompleteUntroubled
          DEF Next, vars, Refuse, Answer, CutOff, Report

LEMMA TroubleInit == Init => TroubleInv
<1> SUFFICES ASSUME Init, NEW c \in Calls PROVE Untroubled(c)
  BY DEF TroubleInv
<1>1. attempt[c] = 0 /\ tickets[c] = 0 /\ polled = {} /\ working = {}
  BY DEF Init
<1>2. QED BY <1>1 DEF Untroubled

-------------------------------------------------------------------------------
(* Theorems.                                                                 *)

\* The inductive invariant holds of every behaviour of the durable path.
THEOREM InductiveInvariant == Spec => []IInv
<1>1. Init => IInv
  BY DataInit, TroubleInit DEF IInv
<1>2. IInv /\ [Next]_vars => IInv'
  BY DataStep, TroubleStep DEF IInv
<1>3. QED BY <1>1, <1>2, PTL DEF Spec

\* Every variable keeps its type: in particular the history never holds an
\* empty classification or a result that belongs to another activity.
THEOREM TypeCorrect == Spec => []TypeOK
<1>1. IInv => TypeOK
  BY DEF IInv, DataInv
<1>2. QED BY <1>1, InductiveInvariant, PTL

\* Tickets fit answers, for any number of calls and troubles: a ticket exists
\* only for a message the history records as an escalation, and an answer
\* names a ticket exactly when it answers an escalation.
THEOREM TicketsFit == Spec => []TicketsFitAnswers
<1>1. IInv => TicketsFitAnswers
  <2> SUFFICES ASSUME IInv, NEW c \in Calls
               PROVE  /\ tickets[c] > 0 => intent[c] = "escalation"
                      /\ pc[c] = "answered" =>
                           /\ tool[c] = "ticket" => tickets[c] > 0
                           /\ reply[c] = "escalation" <=> tool[c] \in {"ticket", "claimed"}
    BY DEF TicketsFitAnswers
  <2>1. HistoryInv(c)
    BY DEF IInv, DataInv
  <2>2. QED BY <2>1 DEF HistoryInv, ToolFits
<1>2. QED BY <1>1, InductiveInvariant, PTL

\* A second ticket for one message takes a timeout, a crash, or another
\* trouble: the server alone never has an activity executed twice.
THEOREM DuplicatesTakeTrouble == Spec => []TroubleBeforeDuplicates
<1>1. IInv => TroubleBeforeDuplicates
  <2> SUFFICES ASSUME IInv, NEW c \in Calls, tickets[c] > 1, ~(troubles > 0) PROVE FALSE
    BY DEF TroubleBeforeDuplicates
  <2>1. troubles = 0 /\ tickets[c] \in Nat
    BY ConstantsOK DEF IInv, DataInv, TypeOK
  <2>2. Untroubled(c)
    BY <2>1 DEF IInv, TroubleInv
  <2>3. tickets[c] <= 1
    BY <2>2 DEF Untroubled
  <2>4. QED BY <2>1, <2>3
<1>2. QED BY <1>1, InductiveInvariant, PTL

\* The workflow goes on from where it was: no step back, and a recorded
\* classification is never replaced, also not by a late attempt's.
THEOREM HistoryStanding == Spec => HistoryStands
<1> DEFINE Stands == \A c \in Calls :
                       /\ Rank[step'[c]] >= Rank[step[c]]
                       /\ intent[c] # None => intent'[c] = intent[c]
<1>1. ASSUME IInv, [Next]_vars PROVE Stands \/ UNCHANGED vars
  <2>1. /\ TypeOK
        /\ \A c \in Calls : HistoryInv(c)
        /\ \A c \in Calls : Rank[step[c]] \in Nat
    <3>1. TypeOK /\ \A c \in Calls : HistoryInv(c)
      BY <1>1 DEF IInv, DataInv
    <3>2. QED BY <3>1 DEF TypeOK, Rank, Activities
  <2>2. CASE UNCHANGED <<step, intent>>
    BY <2>1, <2>2
  <2>3. ASSUME NEW c \in Calls, NEW w \in WorkflowIds, Start(c, w) PROVE Stands
    <3>1. step[c] = "none"
      BY <2>1, <2>3 DEF Start, HistoryInv
    <3>2. QED BY <2>1, <2>3, <3>1 DEF Start, TypeOK, Rank
  <2>4. ASSUME NEW a \in working, Complete(a) PROVE Stands
    <3>1. a.call \in Calls /\ a.activity \in Activities /\ a.activity = step[a.call]
      BY <2>1, <2>4 DEF Complete, Current, TypeOK, Attempt
    <3>2. step' = [step EXCEPT ![a.call] = After(step[a.call])]
      BY <2>4, <3>1 DEF Complete
    <3>3. Rank[After(step[a.call])] >= Rank[step[a.call]]
      BY <3>1 DEF After, Activities, Rank
    <3>4. a.activity = "classify" => intent[a.call] = None
      BY <2>1, <3>1 DEF HistoryInv
    <3>5. \A c \in Calls : intent[c] # None => intent'[c] = intent[c]
      BY <2>1, <2>4, <3>1, <3>4 DEF Complete, Enter, TypeOK
    <3>6. \A c \in Calls : Rank[step'[c]] >= Rank[step[c]]
      BY <2>1, <3>1, <3>2, <3>3 DEF TypeOK
    <3>7. QED BY <3>5, <3>6
  <2>5. QED BY <1>1, <2>2, <2>3, <2>4 DEF Next, vars, Refuse, Answer, CutOff, Poll, TimeOut,
                TimeOutLost, Work, Report, Fail, Classify, RunTool, Respond, Reject, WorkerCrash
<1>2. QED BY <1>1, InductiveInvariant, PTL DEF Spec, HistoryStands

=============================================================================
