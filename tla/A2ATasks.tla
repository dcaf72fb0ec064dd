------------------------------ MODULE A2ATasks ------------------------------
(***************************************************************************)
(* The task runtime of one A2A agent: JSON-RPC requests and the alarm       *)
(* handler share a store of task records.                                   *)
(*                                                                          *)
(* cancel, pushConfigSet and resubmit read a record, wait for an on-chain   *)
(* signature check and write back what they made of it; the alarm handler   *)
(* reads a record, runs the skill and writes back.  put replaces a record   *)
(* whatever it holds by then.  Storage calls alone are no interruption: the *)
(* Durable Object delivers no other event while one is pending, and the     *)
(* in-memory store never waits.  A put reaches the disk as a whole; a crash *)
(* may fall between any other two writes.                                   *)
(***************************************************************************)
EXTENDS Integers, FiniteSets

CONSTANTS
  Tasks,       \* task ids
  UniqueIds,   \* newTaskId is configured; without it every task gets the same id
  Messages,    \* signed messages that pass every other check of the gate
  Calls,       \* concurrent requests on existing tasks
  NoTask,      \* an unknown task id
  Idle,        \* no call, or no alarm handler, running
  MaxCrashes   \* bound on evictions and failing alarms

TaskState ==
  {"submitted", "working", "completed", "failed", "canceled",
   "input-required", "rejected", "auth-required"}

Terminal == {"completed", "failed", "canceled", "rejected"}

Record == [state : TaskState, rev : Nat, push : BOOLEAN]

Call ==
  [op : {"cancel", "push"}, task : Tasks, snap : Record]
    \union [op : {"resubmit"}, task : Tasks, snap : Record, message : Messages]

(* The alarm handler between two tasks, running one, or pushing its result. *)
Worker ==
  [at : {"loop"}, todo : SUBSET Tasks]
    \union [at : {"running", "pushing"}, todo : SUBSET Tasks, task : Tasks, snap : Record]

ASSUME TaskAssumption ==
  /\ NoTask \notin Record
  /\ Idle \notin Call \union Worker
  /\ UniqueIds \in BOOLEAN
  /\ MaxCrashes \in Nat

VARIABLES
  tasks,     \* the stored record of each task id
  due,       \* the index of tasks to process
  seen,      \* reserved message ids
  accepted,  \* history: how often a message created or resumed a task
  alarm,     \* the one alarm: off, set for a later time, or about to go off
  call, worker, crashes

storeVars == <<tasks, due, seen, accepted>>
vars == <<storeVars, alarm, call, worker, crashes>>

Init ==
  /\ tasks = [t \in Tasks |-> NoTask]
  /\ due = {} /\ seen = {}
  /\ accepted = [m \in Messages |-> 0]
  /\ alarm = "off"
  /\ call = [c \in Calls |-> Idle]
  /\ worker = Idle
  /\ crashes = 0

-----------------------------------------------------------------------------
(* Lifecycle *)

(* TASK_TRANSITIONS                                                         *)
TaskTransitions_CancelFinished(from) ==
  IF from \in {"submitted", "working", "completed"}
  THEN {"working", "rejected", "auth-required", "canceled"} ELSE {}
TaskTransitions(from) ==
  CASE from = "submitted" -> {"working", "rejected", "auth-required", "canceled"}
    [] from = "auth-required" -> {"submitted"}
    [] from = "working" -> {"completed", "failed", "canceled", "input-required", "auth-required"}
    [] from = "input-required" -> {"working"}
    [] OTHER -> {}

CanTaskTransition(from, to) == to \in TaskTransitions(from)

(* applyTransition, where it is legal.                                      *)
ApplyTransition(r, to) == [state |-> to, rev |-> r.rev + 1, push |-> r.push]

(* What dispatchTask makes of a submitted task.  An unknown skill rejects   *)
(* it; a handler completes, fails, asks for input or for a fresh grant, or  *)
(* hands the task off, which completes or fails it.                         *)
Outcomes == {"rejected", "completed", "failed", "input-required", "auth-required"}
Dispatched(r, to) ==
  IF to = "rejected" THEN ApplyTransition(r, to)
  ELSE ApplyTransition(ApplyTransition(r, "working"), to)

(* put: the record and its place in the due index.                          *)
IsDue(t, s) == s \in {"submitted", "working"}
Put(t, r) ==
  /\ tasks' = [tasks EXCEPT ![t] = r]
  /\ due' = IF IsDue(t, r.state) THEN due \union {t} ELSE due \ {t}

(* reserveMessageId, the last check of authorizeA2aMessage.                 *)
Reservable_Always(m) == TRUE
Reservable(m) == m \notin seen
Reserve(m) == Reservable(m) /\ seen' = seen \union {m}

(* A message put to use: the task it creates or resumes is stored.          *)
Accept(m, t, r) ==
  /\ Reserve(m)
  /\ accepted' = [accepted EXCEPT ![m] = @ + 1]
  /\ Put(t, r)

(* A message used up for nothing: its input is not what it signed, or the   *)
(* vault write throws.                                                      *)
Burn(m) == Reserve(m) /\ UNCHANGED <<tasks, due, accepted>>

-----------------------------------------------------------------------------
(* Requests.  The Durable Object sets the alarm after message/send and      *)
(* tasks/resubmit, whatever they return but not when they throw: 1.5        *)
(* seconds from then, in place of the time it was set for before.           *)
SetAlarm == alarm' = "set"
SetAlarmIf(b) == alarm' = IF b THEN "set" ELSE alarm

NewTask(m, t, push) ==
  /\ UniqueIds => tasks[t] = NoTask
  /\ Accept(m, t, [state |-> "submitted", rev |-> 1, push |-> push])

MessageSend(m, t, push) ==
  /\ NewTask(m, t, push)
  /\ SetAlarm
  /\ UNCHANGED <<call, worker, crashes>>

MessageRefused(m, throws) ==
  /\ Burn(m) \/ UNCHANGED <<tasks, due, seen, accepted>>
  /\ SetAlarmIf(~throws)
  /\ UNCHANGED <<call, worker, crashes>>

(* The read of tasksCancel, pushConfigSet and resubmit, up to the wait for  *)
(* the signature check.                                                     *)
StartCall(c, k) ==
  /\ call[c] = Idle
  /\ tasks[k.task] = k.snap
  /\ k.op = "resubmit" => k.snap.state = "auth-required"
  /\ call' = [call EXCEPT ![c] = k]
  /\ UNCHANGED <<storeVars, alarm, worker, crashes>>

(* The check fails, or the caller is no party to the task.                 *)
RefuseCall(c) ==
  /\ call[c] # Idle
  /\ SetAlarmIf(call[c].op = "resubmit")
  /\ call' = [call EXCEPT ![c] = Idle]
  /\ UNCHANGED <<storeVars, worker, crashes>>

TasksCancel(c) ==
  LET k == call[c] IN
  /\ k # Idle /\ k.op = "cancel"
  /\ IF CanTaskTransition(k.snap.state, "canceled")
     THEN Put(k.task, ApplyTransition(k.snap, "canceled"))
     ELSE UNCHANGED <<tasks, due>>
  /\ call' = [call EXCEPT ![c] = Idle]
  /\ UNCHANGED <<seen, accepted, alarm, worker, crashes>>

PushConfigSet(c) ==
  LET k == call[c] IN
  /\ k # Idle /\ k.op = "push"
  /\ Put(k.task, [k.snap EXCEPT !.push = TRUE])
  /\ call' = [call EXCEPT ![c] = Idle]
  /\ UNCHANGED <<seen, accepted, alarm, worker, crashes>>

Resubmit(c) ==
  LET k == call[c] IN
  /\ k # Idle /\ k.op = "resubmit"
  /\ Accept(k.message, k.task, ApplyTransition(k.snap, "submitted"))
  /\ SetAlarm
  /\ call' = [call EXCEPT ![c] = Idle]
  /\ UNCHANGED <<worker, crashes>>

ResubmitBurns(c, throws) ==
  LET k == call[c] IN
  /\ k # Idle /\ k.op = "resubmit"
  /\ Burn(k.message)
  /\ SetAlarmIf(~throws)
  /\ call' = [call EXCEPT ![c] = Idle]
  /\ UNCHANGED <<worker, crashes>>

-----------------------------------------------------------------------------
(* alarm() and processDue                                                   *)

(* Time passes: the alarm goes off next unless a request comes first and    *)
(* postpones it.  While a handler runs no other starts, so how near the     *)
(* next alarm is matters only after it.                                     *)
AlarmNears ==
  /\ alarm = "set" /\ worker = Idle
  /\ alarm' = "near"
  /\ UNCHANGED <<storeVars, call, worker, crashes>>

AlarmFires ==
  /\ alarm = "near" /\ worker = Idle
  /\ alarm' = "off"
  /\ worker' = [at |-> "loop", todo |-> due]
  /\ UNCHANGED <<storeVars, call, crashes>>

Loop(todo) == [at |-> "loop", todo |-> todo]

(* The next task of the list: skipped unless it is still submitted.         *)
Runnable(t) == tasks[t] # NoTask /\ tasks[t].state = "submitted"

SkipTask(t) ==
  /\ worker # Idle /\ worker.at = "loop" /\ t \in worker.todo
  /\ ~Runnable(t)
  /\ worker' = Loop(worker.todo \ {t})
  /\ UNCHANGED <<storeVars, alarm, call, crashes>>

StartTask(t) ==
  /\ worker # Idle /\ worker.at = "loop" /\ t \in worker.todo
  /\ Runnable(t)
  /\ worker' = [at |-> "running", todo |-> worker.todo \ {t}, task |-> t, snap |-> tasks[t]]
  /\ UNCHANGED <<storeVars, alarm, call, crashes>>

(* What is stored, and whether the webhook is told next.                    *)
Finish(t, todo, r) ==
  /\ Put(t, r)
  /\ worker' = IF r.state \in Terminal /\ r.push
               THEN [at |-> "pushing", todo |-> todo, task |-> t, snap |-> r]
               ELSE Loop(todo)
  /\ UNCHANGED <<seen, accepted, alarm, call, crashes>>

FinishTask(outcome) ==
  /\ worker # Idle /\ worker.at = "running"
  /\ Finish(worker.task, worker.todo, Dispatched(worker.snap, outcome))

(* deliverPush is best effort: the loop goes on whatever it returns.        *)
DeliverPush ==
  /\ worker # Idle /\ worker.at = "pushing"
  /\ worker' = Loop(worker.todo)
  /\ UNCHANGED <<storeVars, alarm, call, crashes>>

(* The list is done; whatever is due by now gets another alarm.             *)
Rearm_Never == FALSE
Rearm == due # {}

AlarmEnds ==
  /\ worker # Idle /\ worker.at = "loop" /\ worker.todo = {}
  /\ SetAlarmIf(Rearm)
  /\ worker' = Idle
  /\ UNCHANGED <<storeVars, call, crashes>>

-----------------------------------------------------------------------------
(* Failures.  A Durable Object runs an alarm handler again that threw or    *)
(* was evicted.                                                             *)
AlarmRetried == SetAlarmIf(worker # Idle /\ alarm = "off")

AlarmThrows ==
  /\ crashes < MaxCrashes
  /\ worker # Idle /\ worker.at # "loop"
  /\ AlarmRetried
  /\ worker' = Idle
  /\ crashes' = crashes + 1
  /\ UNCHANGED <<storeVars, call>>

Evicted ==
  /\ crashes < MaxCrashes
  /\ AlarmRetried
  /\ call' = [c \in Calls |-> Idle]
  /\ worker' = Idle
  /\ crashes' = crashes + 1

Crash == Evicted /\ UNCHANGED storeVars

(* A crash inside messageSend or resubmit: the message is used up and its   *)
(* task is stored without an alarm, or not at all.                          *)
CrashInSend(m, t, push) ==
  /\ Evicted
  /\ NewTask(m, t, push) \/ Burn(m)

CrashInResubmit(c) ==
  LET k == call[c] IN
  /\ k # Idle /\ k.op = "resubmit"
  /\ Evicted
  /\ Accept(k.message, k.task, ApplyTransition(k.snap, "submitted"))

Request(c) ==
  \/ RefuseCall(c) \/ TasksCancel(c) \/ PushConfigSet(c)
  \/ Resubmit(c) \/ CrashInResubmit(c)
  \/ \E throws \in BOOLEAN : ResubmitBurns(c, throws)

ProcessDue ==
  \/ \E t \in Tasks : SkipTask(t) \/ StartTask(t)
  \/ \E o \in Outcomes : FinishTask(o)
  \/ DeliverPush \/ AlarmEnds

StartSomeCall(c) ==
  \E t \in {u \in Tasks : tasks[u] # NoTask} :
    \/ \E op \in {"cancel", "push"} : StartCall(c, [op |-> op, task |-> t, snap |-> tasks[t]])
    \/ \E m \in Messages :
         StartCall(c, [op |-> "resubmit", task |-> t, snap |-> tasks[t], message |-> m])

Next ==
  \/ \E m \in Messages, t \in Tasks, p \in BOOLEAN : MessageSend(m, t, p)
  \/ \E m \in Messages, throws \in BOOLEAN : MessageRefused(m, throws)
  \/ \E c \in Calls : StartSomeCall(c) \/ Request(c)
  \/ AlarmNears \/ AlarmFires \/ ProcessDue
  \/ AlarmThrows \/ Crash
  \/ \E m \in Messages, t \in Tasks, p \in BOOLEAN : CrashInSend(m, t, p)

Spec == Init /\ [][Next]_vars

(* Time passes, an alarm that nothing postpones goes off and a running      *)
(* handler goes on: skills return (an alarm that runs too long is aborted,  *)
(* which is AlarmThrows).  Requests may postpone an alarm that is near, for *)
(* ever if they keep coming: near is not yet gone off.                      *)
FairSpec ==
  Spec /\ WF_vars(AlarmNears) /\ WF_vars(AlarmFires) /\ WF_vars(ProcessDue)

-----------------------------------------------------------------------------
(* Properties *)

(* The type invariant.  The store never holds a working task: dispatchTask  *)
(* goes through working on its way to the outcome and only that is put.     *)
TypeOK ==
  /\ tasks \in [Tasks -> Record \union {NoTask}]
  /\ \A t \in Tasks : tasks[t] # NoTask => tasks[t].state # "working"
  /\ due \subseteq Tasks
  /\ seen \subseteq Messages
  /\ accepted \in [Messages -> Nat]
  /\ alarm \in {"off", "set", "near"}
  /\ call \in [Calls -> Call \union {Idle}]
  /\ worker \in Worker \union {Idle}
  /\ crashes \in Nat

(* FR-4.3: a signed message creates or resumes at most one task, whatever   *)
(* requests carrying it interleave and whatever crashes in between.         *)
MessageUsedOnce == \A m \in Messages : accepted[m] <= 1

(* The due index is exactly the set of submitted tasks, so processDue       *)
(* neither overlooks one nor keeps re-arming its alarm for a finished one.  *)
DueIsSubmitted ==
  due = {t \in Tasks : tasks[t] # NoTask /\ tasks[t].state = "submitted"}

(* Somebody is about to write back a record of t read before its last put.  *)
StaleWriter(t) ==
  \/ \E c \in Calls : call[c] # Idle /\ call[c].task = t /\ call[c].snap # tasks[t]
  \/ worker # Idle /\ worker.at = "running" /\ worker.task = t /\ worker.snap # tasks[t]

(* A finished task changes its state only under a lost update: when a call  *)
(* or the alarm handler read it before it finished; or when message/send    *)
(* puts a new task under the same id, where ids are not configured unique.  *)
(* No operation that read the final state leaves it.                        *)
FinalUnlessStale ==
  [][\A t \in Tasks :
       /\ tasks[t] # NoTask /\ tasks[t].state \in Terminal
       /\ tasks'[t].state # tasks[t].state
       => StaleWriter(t) \/ tasks'[t].rev = 1]_vars

Woken == alarm # "off" \/ worker # Idle

(* A request puts off an alarm that was about to go off.                    *)
Postponed == alarm = "near" /\ alarm' = "set"

(* Once an alarm is set or its handler runs, a due task is eventually       *)
(* processed or withdrawn, through handler failures, evictions and requests *)
(* that race it, one that puts a finished task back to submitted included:  *)
(* unless message/send and tasks/resubmit, refused ones too, keep coming    *)
(* often enough to postpone the alarm again and again without end.          *)
AlarmedTaskIsProcessed ==
  <>[][~Postponed]_vars => \A t \in Tasks : (Woken /\ t \in due) ~> (t \notin due)

Listed(t) == worker # Idle /\ t \in worker.todo
Running(t) == worker # Idle /\ worker.at = "running" /\ worker.task = t

(* DueIsNotOverlooked: while a task stays due, no step loses sight of it:   *)
(* alarm() hands over to an alarm or a running handler, processDue starts   *)
(* with every due task on its list, takes a task off it only to run it, and *)
(* ends the run of a task that stays due only by dying.                     *)
DueIsNotOverlooked ==
  [][\A t \in due \intersect due' :
       /\ Woken => Woken'
       /\ worker = Idle /\ worker' # Idle => Listed(t)'
       /\ Listed(t) => Listed(t)' \/ Running(t)' \/ worker' = Idle
       /\ Running(t) => Running(t)' \/ worker' = Idle]_vars
=============================================================================
