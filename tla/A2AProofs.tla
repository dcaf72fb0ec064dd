----------------------------- MODULE A2AProofs -----------------------------
(***************************************************************************)
(* Proofs about A2ATasks, for any number of tasks, messages, concurrent     *)
(* requests and crashes.                                                    *)
(***************************************************************************)
EXTENDS A2ATasks, TLAPS

(* A message that was put to use is reserved.                               *)
AcceptedIsSeen ==
  \A m \in Messages : accepted[m] = 0 \/ (accepted[m] = 1 /\ m \in seen)

(* The store: the records and the due index.                                *)
StoreOK ==
  /\ tasks \in [Tasks -> Record \union {NoTask}]
  /\ \A t \in Tasks : tasks[t] # NoTask => tasks[t].state # "working"
  /\ due \subseteq Tasks
  /\ DueIsSubmitted

MessagesOK ==
  /\ seen \subseteq Messages
  /\ accepted \in [Messages -> Nat]
  /\ AcceptedIsSeen

(* What a request or the alarm handler remembers of a record: the alarm     *)
(* handler works on a submitted task, tasks/resubmit on a parked one.       *)
CallsOK ==
  /\ call \in [Calls -> Call \union {Idle}]
  /\ \A c \in Calls : call[c] # Idle =>
       /\ call[c].snap.state # "working"
       /\ call[c].op = "resubmit" => call[c].snap.state = "auth-required"

WorkerOK ==
  /\ worker \in Worker \union {Idle}
  /\ worker # Idle /\ worker.at = "running" => worker.snap.state = "submitted"

RestOK == alarm \in {"off", "set", "near"} /\ crashes \in Nat

(* The inductive invariant, by the piece of state it constrains.            *)
Inv == StoreOK /\ MessagesOK /\ CallsOK /\ WorkerOK /\ RestOK

(* It contains the type invariant and the exactness of the due index.       *)
LEMMA InvImplies == Inv => TypeOK /\ DueIsSubmitted
BY DEF Inv, TypeOK, StoreOK, MessagesOK, CallsOK, WorkerOK, RestOK

(* applyTransition yields a record in the state it moves to.                *)
LEMMA ApplyTransitionType ==
  ASSUME NEW r \in Record, NEW to \in TaskState
  PROVE  ApplyTransition(r, to) \in Record /\ ApplyTransition(r, to).state = to
BY DEF ApplyTransition, Record

(* dispatchTask never leaves a task in working.                             *)
LEMMA DispatchedType ==
  ASSUME NEW r \in Record, NEW o \in Outcomes
  PROVE  Dispatched(r, o) \in Record /\ Dispatched(r, o).state = o
<1>1. o \in TaskState /\ "working" \in TaskState
  BY DEF Outcomes, TaskState
<1> QED
  BY <1>1, ApplyTransitionType DEF Dispatched

(* put keeps the due index equal to the submitted tasks, because no stored  *)
(* record is working.                                                       *)
LEMMA PutKeepsStore ==
  ASSUME StoreOK, NEW t \in Tasks, NEW r \in Record, r.state # "working", Put(t, r)
  PROVE  StoreOK'
<1>1. NoTask \notin Record
  BY TaskAssumption
<1>2. tasks' \in [Tasks -> Record \union {NoTask}] /\ due' \subseteq Tasks
  BY DEF StoreOK, Put
<1>3. \A u \in Tasks : tasks'[u] = IF u = t THEN r ELSE tasks[u]
  BY DEF StoreOK, Put
<1>4. \A u \in Tasks : u \in due' <=> tasks'[u] # NoTask /\ tasks'[u].state = "submitted"
  <2> SUFFICES ASSUME NEW u \in Tasks
               PROVE  u \in due' <=> tasks'[u] # NoTask /\ tasks'[u].state = "submitted"
    OBVIOUS
  <2>1. CASE u = t
    BY <1>1, <1>3, <2>1 DEF Put, IsDue, StoreOK
  <2>2. CASE u # t
    BY <1>3, <2>2 DEF Put, StoreOK, DueIsSubmitted
  <2> QED BY <2>1, <2>2
<1>5. \A u \in Tasks : tasks'[u] # NoTask => tasks'[u].state # "working"
  BY <1>3 DEF StoreOK
<1> QED
  BY <1>2, <1>4, <1>5 DEF StoreOK, DueIsSubmitted

(* reserveMessageId hands a message id out once.                            *)
LEMMA ReserveKeepsMessages ==
  ASSUME MessagesOK, NEW m \in Messages, Reserve(m)
  PROVE  /\ accepted' = accepted => MessagesOK'
         /\ accepted' = [accepted EXCEPT ![m] = @ + 1] => MessagesOK'
<1>1. accepted[m] = 0 /\ seen' = seen \union {m}
  BY DEF MessagesOK, AcceptedIsSeen, Reserve, Reservable
<1>2. ASSUME accepted' = accepted PROVE MessagesOK'
  BY <1>1, <1>2 DEF MessagesOK, AcceptedIsSeen
<1>3. ASSUME accepted' = [accepted EXCEPT ![m] = @ + 1] PROVE MessagesOK'
  <2>1. accepted' \in [Messages -> Nat] /\ seen' \subseteq Messages
    BY <1>1, <1>3 DEF MessagesOK
  <2>2. \A x \in Messages : accepted'[x] = 0 \/ (accepted'[x] = 1 /\ x \in seen')
    BY <1>1, <1>3 DEF MessagesOK, AcceptedIsSeen
  <2> QED BY <2>1, <2>2 DEF MessagesOK, AcceptedIsSeen
<1> QED BY <1>2, <1>3

(* Both ends of a signed message: put to use, or used up.                   *)
LEMMA AcceptKeeps ==
  ASSUME StoreOK, MessagesOK, NEW m \in Messages, NEW t \in Tasks,
         NEW r \in Record, r.state # "working", Accept(m, t, r)
  PROVE  StoreOK' /\ MessagesOK'
BY PutKeepsStore, ReserveKeepsMessages DEF Accept

LEMMA BurnKeeps ==
  ASSUME StoreOK, MessagesOK, NEW m \in Messages, Burn(m)
  PROVE  StoreOK' /\ MessagesOK'
<1>1. StoreOK'
  BY DEF Burn, StoreOK, DueIsSubmitted
<1> QED BY <1>1, ReserveKeepsMessages DEF Burn

LEMMA NewTaskKeeps ==
  ASSUME StoreOK, MessagesOK, NEW m \in Messages, NEW t \in Tasks,
         NEW p \in BOOLEAN, NewTask(m, t, p)
  PROVE  StoreOK' /\ MessagesOK'
<1> DEFINE r == [state |-> "submitted", rev |-> 1, push |-> p]
<1>1. r \in Record /\ r.state # "working"
  BY DEF Record, TaskState
<1>2. Accept(m, t, r)
  BY DEF NewTask
<1> HIDE DEF r
<1> QED BY <1>1, <1>2, AcceptKeeps

(* What is not touched stays as it was.                                     *)
LEMMA Unchanged ==
  /\ StoreOK /\ UNCHANGED <<tasks, due>> => StoreOK'
  /\ MessagesOK /\ UNCHANGED <<seen, accepted>> => MessagesOK'
  /\ CallsOK /\ UNCHANGED call => CallsOK'
  /\ WorkerOK /\ UNCHANGED worker => WorkerOK'
BY DEF StoreOK, MessagesOK, CallsOK, WorkerOK, DueIsSubmitted, AcceptedIsSeen

(* A finished request leaves its slot.                                      *)
LEMMA CallEnds ==
  ASSUME CallsOK, NEW c \in Calls, call' = [call EXCEPT ![c] = Idle]
  PROVE  CallsOK'
BY DEF CallsOK

(* What a request in flight holds.                                          *)
LEMMA CallType ==
  ASSUME CallsOK, NEW c \in Calls, call[c] # Idle
  PROVE  /\ call[c].task \in Tasks /\ call[c].snap \in Record
         /\ call[c].snap.state # "working"
         /\ call[c].op = "resubmit" =>
              call[c].message \in Messages /\ call[c].snap.state = "auth-required"
BY DEF CallsOK, Call

(* What the alarm handler holds.                                            *)
LEMMA WorkerType ==
  ASSUME WorkerOK, worker # Idle
  PROVE  /\ worker.todo \subseteq Tasks
         /\ worker.at \in {"loop", "running", "pushing"}
         /\ worker.at # "loop" => worker.task \in Tasks /\ worker.snap \in Record
         /\ worker.at = "running" => worker.snap.state = "submitted"
BY DEF WorkerOK, Worker

LEMMA LoopType ==
  ASSUME NEW S \in SUBSET Tasks, worker' = Loop(S) PROVE WorkerOK'
BY DEF Loop, Worker, WorkerOK

(* A request that is starting remembers what the store holds.               *)
LEMMA CallStarts ==
  ASSUME Inv, NEW c \in Calls, StartSomeCall(c)
  PROVE  Inv'
<1> USE DEF Inv
<1>1. PICK t \in Tasks :
        /\ tasks[t] # NoTask
        /\ \/ \E op \in {"cancel", "push"} : StartCall(c, [op |-> op, task |-> t, snap |-> tasks[t]])
           \/ \E m \in Messages :
                StartCall(c, [op |-> "resubmit", task |-> t, snap |-> tasks[t], message |-> m])
  BY DEF StartSomeCall
<1>2. tasks[t] \in Record /\ tasks[t].state # "working"
  BY <1>1 DEF StoreOK
<1>3. ASSUME NEW k \in Call, k.snap = tasks[t], StartCall(c, k) PROVE Inv'
  <2>1. CallsOK'
    BY <1>2, <1>3 DEF CallsOK, StartCall
  <2> QED BY <1>3, <2>1, Unchanged DEF StartCall, storeVars, RestOK
<1>4. ASSUME NEW op \in {"cancel", "push"}
      PROVE  LET k == [op |-> op, task |-> t, snap |-> tasks[t]]
             IN k \in Call /\ k.snap = tasks[t]
  BY <1>2 DEF Call
<1>5. ASSUME NEW m \in Messages
      PROVE  LET k == [op |-> "resubmit", task |-> t, snap |-> tasks[t], message |-> m]
             IN k \in Call /\ k.snap = tasks[t]
  BY <1>2 DEF Call
<1> QED BY <1>1, <1>3, <1>4, <1>5

(* The end of a request: the record it read, one state on, replaces what    *)
(* the store holds by then.                                                 *)
LEMMA RequestKeeps ==
  ASSUME Inv, NEW c \in Calls, Request(c)
  PROVE  Inv'
<1> USE DEF Inv
<1> DEFINE k == call[c]
<1>1. CASE RefuseCall(c)
  <2>1. CallsOK' BY <1>1, CallEnds DEF RefuseCall
  <2> QED BY <1>1, <2>1, Unchanged DEF RefuseCall, storeVars, RestOK, SetAlarm, SetAlarmIf
<1>2. CASE TasksCancel(c)
  <2>1. /\ k # Idle /\ k.task \in Tasks /\ k.snap \in Record /\ k.snap.state # "working"
    BY <1>2, CallType DEF TasksCancel
  <2>2. StoreOK'
    <3>1. CASE CanTaskTransition(k.snap.state, "canceled")
      <4> DEFINE r == ApplyTransition(k.snap, "canceled")
      <4>1. r \in Record /\ r.state # "working"
        BY <2>1, ApplyTransitionType DEF TaskState
      <4>2. Put(k.task, r)
        BY <1>2, <3>1 DEF TasksCancel
      <4> HIDE DEF r
      <4> QED BY <2>1, <4>1, <4>2, PutKeepsStore
    <3>2. CASE ~CanTaskTransition(k.snap.state, "canceled")
      BY <1>2, <3>2, Unchanged DEF TasksCancel
    <3> QED BY <3>1, <3>2
  <2>3. CallsOK' BY <1>2, CallEnds DEF TasksCancel
  <2> QED BY <1>2, <2>2, <2>3, Unchanged DEF TasksCancel, RestOK
<1>3. CASE PushConfigSet(c)
  <2>1. /\ k # Idle /\ k.task \in Tasks /\ k.snap \in Record /\ k.snap.state # "working"
    BY <1>3, CallType DEF PushConfigSet
  <2> DEFINE r == [k.snap EXCEPT !.push = TRUE]
  <2>2. r \in Record /\ r.state # "working"
    BY <2>1 DEF Record
  <2>3. Put(k.task, r)
    BY <1>3 DEF PushConfigSet
  <2> HIDE DEF r
  <2>4. StoreOK' BY <2>1, <2>2, <2>3, PutKeepsStore
  <2>5. CallsOK' BY <1>3, CallEnds DEF PushConfigSet
  <2> QED BY <1>3, <2>4, <2>5, Unchanged DEF PushConfigSet, RestOK
<1>4. ASSUME k # Idle, k.op = "resubmit",
             Accept(k.message, k.task, ApplyTransition(k.snap, "submitted"))
      PROVE  StoreOK' /\ MessagesOK'
  <2>1. k.task \in Tasks /\ k.snap \in Record /\ k.message \in Messages
    BY <1>4, CallType
  <2> DEFINE r == ApplyTransition(k.snap, "submitted")
  <2>2. r \in Record /\ r.state # "working"
    BY <2>1, ApplyTransitionType DEF TaskState
  <2>3. Accept(k.message, k.task, r)
    BY <1>4
  <2> HIDE DEF r
  <2> QED BY <2>1, <2>2, <2>3, AcceptKeeps
<1>5. CASE Resubmit(c)
  <2>1. StoreOK' /\ MessagesOK' BY <1>4, <1>5 DEF Resubmit
  <2>2. CallsOK' BY <1>5, CallEnds DEF Resubmit
  <2> QED BY <1>5, <2>1, <2>2, Unchanged DEF Resubmit, RestOK, SetAlarm, SetAlarmIf
<1>6. CASE CrashInResubmit(c)
  <2>1. StoreOK' /\ MessagesOK' BY <1>4, <1>6 DEF CrashInResubmit
  <2>2. CallsOK' /\ WorkerOK' /\ RestOK'
    BY <1>6 DEF CrashInResubmit, Evicted, AlarmRetried, CallsOK, WorkerOK, RestOK, SetAlarm, SetAlarmIf
  <2> QED BY <2>1, <2>2
<1>7. ASSUME NEW throws \in BOOLEAN, ResubmitBurns(c, throws) PROVE Inv'
  <2>1. k.message \in Messages BY <1>7, CallType DEF ResubmitBurns
  <2>2. StoreOK' /\ MessagesOK' BY <1>7, <2>1, BurnKeeps DEF ResubmitBurns
  <2>3. CallsOK' BY <1>7, CallEnds DEF ResubmitBurns
  <2> QED BY <1>7, <2>2, <2>3, Unchanged DEF ResubmitBurns, RestOK, SetAlarm, SetAlarmIf
<1> QED BY <1>1, <1>2, <1>3, <1>5, <1>6, <1>7 DEF Request

(* A step of the alarm handler.                                             *)
LEMMA ProcessDueKeeps ==
  ASSUME Inv, ProcessDue
  PROVE  Inv'
<1> USE DEF Inv
<1>1. ASSUME NEW t \in Tasks, SkipTask(t) PROVE Inv'
  <2>1. WorkerOK' BY <1>1, WorkerType, LoopType DEF SkipTask
  <2> QED BY <1>1, <2>1, Unchanged DEF SkipTask, storeVars, RestOK
<1>2. ASSUME NEW t \in Tasks, StartTask(t) PROVE Inv'
  <2>1. tasks[t] \in Record
    BY <1>2 DEF StartTask, Runnable, StoreOK
  <2>2. WorkerOK'
    BY <1>2, <2>1, WorkerType DEF StartTask, Runnable, WorkerOK, Worker
  <2> QED BY <1>2, <2>2, Unchanged DEF StartTask, storeVars, RestOK
<1>3. ASSUME NEW o \in Outcomes, FinishTask(o) PROVE Inv'
  <2> DEFINE r == Dispatched(worker.snap, o)
  <2>1. /\ worker # Idle /\ worker.at = "running"
        /\ worker.task \in Tasks /\ worker.snap \in Record /\ worker.todo \subseteq Tasks
    BY <1>3, WorkerType DEF FinishTask
  <2>2. r \in Record /\ r.state # "working"
    BY <2>1, DispatchedType DEF Outcomes
  <2>3. Finish(worker.task, worker.todo, r)
    BY <1>3 DEF FinishTask
  <2> HIDE DEF r
  <2>4. StoreOK' BY <2>1, <2>2, <2>3, PutKeepsStore DEF Finish
  <2>5. WorkerOK'
    BY <2>1, <2>2, <2>3 DEF Finish, Loop, WorkerOK, Worker
  <2> QED BY <2>3, <2>4, <2>5, Unchanged DEF Finish, RestOK
<1>4. CASE DeliverPush
  <2>1. WorkerOK' BY <1>4, WorkerType, LoopType DEF DeliverPush
  <2> QED BY <1>4, <2>1, Unchanged DEF DeliverPush, storeVars, RestOK
<1>5. CASE AlarmEnds
  <2>1. WorkerOK' BY <1>5 DEF AlarmEnds, WorkerOK
  <2> QED BY <1>5, <2>1, Unchanged DEF AlarmEnds, storeVars, RestOK, SetAlarm, SetAlarmIf
<1> QED BY <1>1, <1>2, <1>3, <1>4, <1>5 DEF ProcessDue

(* The invariant is inductive.                                              *)
LEMMA InvInit == Init => Inv
<1> SUFFICES ASSUME Init PROVE Inv
  OBVIOUS
<1>1. StoreOK BY DEF Init, StoreOK, DueIsSubmitted
<1>2. MessagesOK BY DEF Init, MessagesOK, AcceptedIsSeen
<1>3. CallsOK /\ WorkerOK /\ RestOK BY DEF Init, CallsOK, WorkerOK, RestOK
<1> QED BY <1>1, <1>2, <1>3 DEF Inv

LEMMA InvStep == Inv /\ [Next]_vars => Inv'
<1> SUFFICES ASSUME Inv, [Next]_vars PROVE Inv'
  OBVIOUS
<1> USE DEF Inv
<1>1. ASSUME NEW m \in Messages, NEW t \in Tasks, NEW p \in BOOLEAN, MessageSend(m, t, p)
      PROVE  Inv'
  BY <1>1, NewTaskKeeps, Unchanged DEF MessageSend, RestOK, SetAlarm, SetAlarmIf
<1>2. ASSUME NEW m \in Messages, NEW throws \in BOOLEAN, MessageRefused(m, throws)
      PROVE  Inv'
  <2>1. StoreOK' /\ MessagesOK' BY <1>2, BurnKeeps, Unchanged DEF MessageRefused
  <2> QED BY <1>2, <2>1, Unchanged DEF MessageRefused, RestOK, SetAlarm, SetAlarmIf
<1>3. ASSUME NEW c \in Calls, StartSomeCall(c) \/ Request(c) PROVE Inv'
  BY <1>3, CallStarts, RequestKeeps
<1>4. CASE AlarmFires
  <2>1. WorkerOK' BY <1>4 DEF AlarmFires, WorkerOK, Worker, StoreOK
  <2> QED BY <1>4, <2>1, Unchanged DEF AlarmFires, storeVars, RestOK
<1>5. CASE ProcessDue
  BY <1>5, ProcessDueKeeps
<1>11. CASE AlarmNears
  BY <1>11, Unchanged DEF AlarmNears, storeVars, RestOK
<1>6. ASSUME Evicted PROVE CallsOK' /\ WorkerOK' /\ RestOK'
  BY <1>6 DEF Evicted, AlarmRetried, CallsOK, WorkerOK, RestOK, SetAlarm, SetAlarmIf
<1>7. CASE AlarmThrows
  <2>1. WorkerOK' /\ RestOK' BY <1>7 DEF AlarmThrows, AlarmRetried, WorkerOK, RestOK, SetAlarm, SetAlarmIf
  <2> QED BY <1>7, <2>1, Unchanged DEF AlarmThrows, storeVars
<1>8. CASE Crash
  BY <1>6, <1>8, Unchanged DEF Crash, storeVars
<1>9. ASSUME NEW m \in Messages, NEW t \in Tasks, NEW p \in BOOLEAN, CrashInSend(m, t, p)
      PROVE  Inv'
  BY <1>6, <1>9, NewTaskKeeps, BurnKeeps DEF CrashInSend
<1>10. CASE UNCHANGED vars
  BY <1>10, Unchanged DEF vars, storeVars, RestOK
<1> QED BY <1>1, <1>2, <1>3, <1>4, <1>5, <1>7, <1>8, <1>9, <1>10, <1>11 DEF Next

LEMMA InvHolds == Spec => []Inv
BY InvInit, InvStep, PTL DEF Spec

-----------------------------------------------------------------------------
(* The stored records, requests and alarm handler are well formed, and no   *)
(* stored task is working: dispatchTask's intermediate state is not put.    *)
THEOREM TypeCorrect == Spec => []TypeOK
BY InvHolds, InvImplies, PTL

(* FR-4.3: reserveMessageId lets a signed message create or resume at most  *)
(* one task, under any interleaving of requests and any number of crashes.  *)
THEOREM MessagesAreUsedOnce == Spec => []MessageUsedOnce
<1>1. Inv => MessageUsedOnce
  BY DEF Inv, MessagesOK, AcceptedIsSeen, MessageUsedOnce
<1> QED BY InvHolds, <1>1, PTL

(* The due index that put maintains is exactly the set of submitted tasks.  *)
THEOREM DueIndexIsExact == Spec => []DueIsSubmitted
BY InvHolds, InvImplies, PTL

(* A finished task changes its state only through a writer whose copy is    *)
(* out of date, or when message/send puts a new task under the same id:     *)
(* reading, awaiting and putting back is the one way to leave a terminal    *)
(* state.                                                                   *)
THEOREM FinalUnlessStaleHolds == Spec => FinalUnlessStale
<1> DEFINE Leaves(t) ==
       /\ tasks[t] # NoTask /\ tasks[t].state \in Terminal
       /\ tasks'[t].state # tasks[t].state
<1>1. ASSUME Inv, [Next]_vars, NEW t \in Tasks, Leaves(t)
      PROVE  StaleWriter(t) \/ tasks'[t].rev = 1
  <2> USE DEF Inv
  <2>1. tasks \in [Tasks -> Record \union {NoTask}]
    BY <1>1 DEF StoreOK
  <2>2. ~UNCHANGED tasks
    BY <1>1
  <2>3. ASSUME NEW u \in Tasks, NEW r, Put(u, r) PROVE u = t
    BY <1>1, <2>1, <2>3 DEF Put
  <2>4. ASSUME NEW m \in Messages, NEW u \in Tasks, NEW p \in BOOLEAN, NewTask(m, u, p)
        PROVE  tasks'[t].rev = 1
    <3>1. u = t BY <2>3, <2>4 DEF NewTask, Accept
    <3> QED BY <2>1, <2>4, <3>1 DEF NewTask, Accept, Put
  <2>5. ASSUME NEW c \in Calls, Request(c) PROVE StaleWriter(t)
    <3> DEFINE k == call[c]
    <3>1. k # Idle
      BY <2>5 DEF Request, RefuseCall, TasksCancel, PushConfigSet, Resubmit,
                  CrashInResubmit, ResubmitBurns
    <3>2. /\ k.task \in Tasks /\ k.snap \in Record
          /\ k.op = "resubmit" => k.snap.state = "auth-required"
      BY <1>1, <3>1, CallType
    <3>3. k.task = t
      BY <2>2, <2>3, <2>5, <3>2
         DEF Request, RefuseCall, TasksCancel, PushConfigSet, Resubmit,
             CrashInResubmit, ResubmitBurns, Accept, Burn, storeVars
    <3> SUFFICES ASSUME k.snap = tasks[t] PROVE FALSE
      BY <3>1, <3>3 DEF StaleWriter
    <3>4. k.snap.state \in Terminal
      BY <1>1
    <3>5. ~CanTaskTransition(k.snap.state, "canceled")
      BY <3>4 DEF CanTaskTransition, TaskTransitions, Terminal
    <3>6. PushConfigSet(c)
      BY <2>2, <2>5, <3>2, <3>4, <3>5
         DEF Request, RefuseCall, TasksCancel, Resubmit,
             CrashInResubmit, ResubmitBurns, Burn, storeVars, Terminal
    <3> QED BY <1>1, <2>1, <3>2, <3>3, <3>6 DEF PushConfigSet, Put, Record
  <2>6. CASE ProcessDue
    <3>1. PICK o \in Outcomes : FinishTask(o)
      BY <2>2, <2>6 DEF ProcessDue, SkipTask, StartTask, DeliverPush, AlarmEnds, storeVars
    <3>2. /\ worker # Idle /\ worker.at = "running"
          /\ worker.task \in Tasks /\ worker.snap.state = "submitted"
      BY <1>1, <3>1, WorkerType DEF FinishTask
    <3>3. worker.task = t
      BY <2>3, <3>1, <3>2 DEF FinishTask, Finish
    <3>4. worker.snap # tasks[t]
      BY <1>1, <3>2 DEF Terminal
    <3> QED BY <3>2, <3>3, <3>4 DEF StaleWriter
  <2> QED
    BY <1>1, <2>2, <2>4, <2>5, <2>6
       DEF Next, MessageSend, MessageRefused, Burn, StartSomeCall, StartCall, AlarmNears, AlarmFires,
           AlarmThrows, Crash, CrashInSend, storeVars, vars
<1>2. Inv /\ [Next]_vars => [\A t \in Tasks : Leaves(t) => StaleWriter(t) \/ tasks'[t].rev = 1]_vars
  BY <1>1
<1> QED BY InvHolds, <1>2, PTL DEF Spec, FinalUnlessStale

-----------------------------------------------------------------------------
(* Due tasks *)

NotOverlooked(t) ==
  /\ Woken => Woken'
  /\ worker = Idle /\ worker' # Idle => Listed(t)'
  /\ Listed(t) => Listed(t)' \/ Running(t)' \/ worker' = Idle
  /\ Running(t) => Running(t)' \/ worker' = Idle

(* A step that leaves the handler alone may set the alarm, sooner or later, *)
(* but not clear it.                                                        *)
LEMMA HandlerUntouched ==
  ASSUME NEW t, UNCHANGED worker, alarm # "off" => alarm' # "off" PROVE NotOverlooked(t)
BY DEF NotOverlooked, Woken, Listed, Running

(* A handler that ends or dies while something is due leaves an alarm.      *)
LEMMA HandlerGone ==
  ASSUME NEW t, worker' = Idle, Woken => alarm' # "off" PROVE NotOverlooked(t)
BY DEF NotOverlooked, Woken, Listed, Running

(* A handler that goes on keeps the task on its list.                       *)
LEMMA HandlerGoesOn ==
  ASSUME NEW t, worker # Idle, worker' # Idle, t \in worker.todo => t \in worker'.todo \/ Running(t)',
         ~Running(t)
  PROVE  NotOverlooked(t)
BY DEF NotOverlooked, Woken, Listed

LEMMA ProcessDueOverlooksNone ==
  ASSUME Inv, ProcessDue, NEW t \in due, t \in due'
  PROVE  NotOverlooked(t)
<1>0. worker # Idle
  BY DEF ProcessDue, SkipTask, StartTask, FinishTask, DeliverPush, AlarmEnds
<1>1. /\ t \in Tasks /\ Runnable(t) /\ WorkerOK /\ Inv'
      /\ worker.todo \subseteq Tasks
  BY <1>0, ProcessDueKeeps, WorkerType DEF Inv, StoreOK, DueIsSubmitted, Runnable
<1>2. \A S \in SUBSET Tasks : Loop(S) # Idle /\ Loop(S).todo = S
  BY TaskAssumption DEF Loop, Worker
<1>3. ASSUME NEW u \in Tasks, SkipTask(u) PROVE NotOverlooked(t)
  <2>1. u # t /\ worker.at = "loop" /\ worker' = Loop(worker.todo \ {u})
    BY <1>1, <1>3 DEF SkipTask
  <2>2. worker' # Idle /\ worker'.todo = worker.todo \ {u}
    BY <1>1, <1>2, <2>1
  <2> QED
    BY <1>0, <2>1, <2>2, HandlerGoesOn DEF Running
<1>4. ASSUME NEW u \in Tasks, StartTask(u) PROVE NotOverlooked(t)
  <2>1. /\ worker.at = "loop"
        /\ worker' = [at |-> "running", todo |-> worker.todo \ {u}, task |-> u, snap |-> tasks[u]]
    BY <1>4 DEF StartTask
  <2>2. worker' # Idle
    <3>1. tasks[u] \in Record
      BY <1>4 DEF Inv, StoreOK, StartTask, Runnable
    <3> QED
      BY <1>1, <2>1, <3>1, TaskAssumption DEF Worker
  <2>3. worker'.at = "running" /\ worker'.todo = worker.todo \ {u} /\ worker'.task = u
    BY <2>1
  <2> QED
    BY <1>0, <2>1, <2>2, <2>3, HandlerGoesOn DEF Running
<1>5. ASSUME NEW o \in Outcomes, FinishTask(o) PROVE NotOverlooked(t)
  <2> DEFINE r == Dispatched(worker.snap, o)
  <2>1. /\ worker.at = "running" /\ worker.task \in Tasks /\ worker.snap \in Record
        /\ Finish(worker.task, worker.todo, r)
    BY <1>0, <1>1, <1>5, WorkerType DEF FinishTask
  <2>2. r \in Record /\ ~IsDue(worker.task, r.state)
    BY <2>1, DispatchedType DEF Outcomes, IsDue
  <2> HIDE DEF r
  <2>3. worker.task \notin due'
    BY <2>1, <2>2 DEF Finish, Put
  <2>4. worker' # Idle /\ worker'.todo = worker.todo
    <3>1. CASE worker' = Loop(worker.todo)
      BY <1>1, <1>2, <3>1
    <3>2. CASE worker' = [at |-> "pushing", todo |-> worker.todo, task |-> worker.task, snap |-> r]
      BY <1>1, <2>1, <2>2, <3>2, TaskAssumption DEF Worker
    <3> QED
      BY <2>1, <3>1, <3>2 DEF Finish
  <2> QED
    BY <1>0, <2>3, <2>4, HandlerGoesOn DEF Running
<1>6. ASSUME DeliverPush PROVE NotOverlooked(t)
  <2>1. worker.at = "pushing" /\ worker' # Idle /\ worker'.todo = worker.todo
    BY <1>1, <1>2, <1>6 DEF DeliverPush
  <2> QED
    BY <1>0, <2>1, HandlerGoesOn DEF Running
<1>7. ASSUME AlarmEnds PROVE NotOverlooked(t)
  <2>1. worker' = Idle /\ alarm' = "set"
    BY <1>7 DEF AlarmEnds, Rearm, SetAlarmIf
  <2> QED
    BY <2>1, HandlerGone
<1> QED
  BY <1>3, <1>4, <1>5, <1>6, <1>7 DEF ProcessDue

(* A due task that an alarm or a handler knows of is never lost sight of:   *)
(* what alarm() and processDue do between two steps of requests, through    *)
(* evictions and failing skills.                                            *)
THEOREM DueTasksAreNotOverlooked == Spec => DueIsNotOverlooked
<1>1. ASSUME Inv, [Next]_vars, NEW t \in due, t \in due' PROVE NotOverlooked(t)
  <2>1. ASSUME AlarmFires PROVE NotOverlooked(t)
    <3>1. worker = Idle /\ worker' = Loop(due)
      BY <2>1 DEF AlarmFires, Loop
    <3>2. Loop(due) # Idle /\ Loop(due).todo = due
      BY <1>1, TaskAssumption DEF Loop, Worker, Inv, StoreOK
    <3> QED
      BY <1>1, <3>1, <3>2 DEF NotOverlooked, Woken, Listed, Running
  <2>2. ASSUME AlarmRetried, worker' = Idle PROVE NotOverlooked(t)
    <3>1. Woken => alarm' # "off"
      BY <2>2 DEF AlarmRetried, SetAlarmIf, Woken
    <3> QED
      BY <2>2, <3>1, HandlerGone
  <2>3. ASSUME UNCHANGED worker, alarm # "off" => alarm' # "off" PROVE NotOverlooked(t)
    BY <2>3, HandlerUntouched
  <2>4. ASSUME NEW c \in Calls, StartSomeCall(c) \/ Request(c) PROVE NotOverlooked(t)
    <3>1. CASE CrashInResubmit(c)
      BY <2>2, <3>1 DEF CrashInResubmit, Evicted
    <3>2. CASE ~CrashInResubmit(c)
      <4>1. UNCHANGED worker /\ (alarm # "off" => alarm' # "off")
        BY <2>4, <3>2 DEF StartSomeCall, StartCall, Request, RefuseCall, TasksCancel,
               PushConfigSet, Resubmit, ResubmitBurns, SetAlarm, SetAlarmIf
      <4> QED
        BY <2>3, <4>1
    <3> QED
      BY <3>1, <3>2
  <2>5. ASSUME AlarmThrows \/ Crash PROVE NotOverlooked(t)
    BY <2>2, <2>5 DEF AlarmThrows, Crash, Evicted
  <2>6. ASSUME NEW m \in Messages, NEW u \in Tasks, NEW p \in BOOLEAN, CrashInSend(m, u, p)
        PROVE  NotOverlooked(t)
    BY <2>2, <2>6 DEF CrashInSend, Evicted
  <2>7. ASSUME NEW m \in Messages, NEW u \in Tasks, NEW p \in BOOLEAN, MessageSend(m, u, p)
        PROVE  NotOverlooked(t)
    BY <2>3, <2>7 DEF MessageSend, SetAlarm
  <2>8. ASSUME NEW m \in Messages, NEW throws \in BOOLEAN, MessageRefused(m, throws)
        PROVE  NotOverlooked(t)
    <3>1. UNCHANGED worker /\ (alarm # "off" => alarm' # "off")
      BY <2>8 DEF MessageRefused, SetAlarmIf
    <3> QED
      BY <2>3, <3>1
  <2>9. ASSUME ProcessDue PROVE NotOverlooked(t)
    BY <1>1, <2>9, ProcessDueOverlooksNone
  <2>10. CASE UNCHANGED vars
    BY <2>3, <2>10 DEF vars
  <2>11. CASE AlarmNears
    BY <2>3, <2>11 DEF AlarmNears
  <2> QED
    BY <1>1, <2>1, <2>4, <2>5, <2>6, <2>7, <2>8, <2>9, <2>10, <2>11 DEF Next
<1>2. Inv /\ [Next]_vars => [\A t \in due \intersect due' :
       /\ Woken => Woken'
       /\ worker = Idle /\ worker' # Idle => Listed(t)'
       /\ Listed(t) => Listed(t)' \/ Running(t)' \/ worker' = Idle
       /\ Running(t) => Running(t)' \/ worker' = Idle]_vars
  BY <1>1 DEF NotOverlooked
<1> QED
  BY InvHolds, <1>2, PTL DEF Spec, DueIsNotOverlooked
=============================================================================
