------------------------- MODULE TaskServiceProofs -------------------------
(***************************************************************************)
(* ModbusClient implements TaskService: the initial states map to the      *)
(* initial state, and every step of the two threads maps to a step of the  *)
(* service or to a stutter.  Under WakeAfterSettle, as the call protocol.  *)
(***************************************************************************)
EXTENDS ModbusClientProofs

(* hist names the task run last; a task that waits in the queue comes after it. *)
HistBehind ==
  /\ hist.id <= pushed
  /\ q_task # <<>> /\ ~Running => hist.id < pushed

LEMMA HistBehindInit == Init => HistBehind
  BY DEF Init, HistBehind

LEMMA SubmitBehind ==
  ASSUME TypeInv, HistBehind, NEW info, NEW task, NEW api, NEW dev, NEW stage,
         Submit(info, task, api, dev, stage), UNCHANGED hist
  PROVE  HistBehind' /\ hist.id # pushed'
<1>1. hist.id \in Nat /\ pushed \in Nat /\ pushed' = pushed + 1 /\ hist' = hist
  BY DEF Submit, TypeInv, TypeOK, History
<1> QED
  BY <1>1 DEF HistBehind

LEMMA HistBehindStep ==
  TypeInv /\ CallInv /\ WakeAfterSettle /\ HistBehind /\ [Next]_vars => HistBehind'
<1> SUFFICES ASSUME TypeInv, CallInv, WakeAfterSettle, HistBehind, [Next]_vars
             PROVE  HistBehind'
  OBVIOUS
<1>0. hist.id \in Nat /\ pushed \in Nat
  BY DEF TypeInv, TypeOK, History
<1>1. CASE \E info, task, api, dev, stage : Submit(info, task, api, dev, stage) /\ UNCHANGED hist
  BY <1>1, SubmitBehind
<1>2. CASE UNCHANGED <<hist, pushed, q_task, pc>>
  BY <1>2 DEF HistBehind, Running
<1>3. CASE RunTask
  <2>1. /\ q_task # <<>> /\ Head(q_task) = q_task[1] /\ q_task[1].id = pushed /\ pc' = "front"
        /\ pushed' = pushed /\ hist'.id = Head(q_task).id
    BY <1>3, FrontAndRest DEF RunTask, callerVars, TypeInv, TypeOK, CallInv, OneTask
  <2> QED
    BY <1>0, <2>1 DEF HistBehind, Running
<1>4. CASE Thread /\ ~RunTask
  <2>1. /\ pushed' = pushed /\ hist'.id = hist.id
        /\ q_task' = q_task \/ q_task' = Tail(q_task)
    BY <1>4 DEF Thread, Worker, CheckStop, Sleep, StartExchange, LaunchFails, WriteRequest,
       WriteThrows, ReadReply, ReadThrows, CallbackValid, CallbackInvalid, Settle, Retire,
       callerVars, TypeInv, TypeOK, History
  <2>2. CASE Retire
    <3>1. q_task \in Seq(Task) /\ q_task # <<>> /\ Len(q_task) <= 1
      BY <2>2, RunningFacts DEF Retire, Running, CallInv, OneTask, TypeInv, TypeOK
    <3>2. Len(Tail(q_task)) = 0 /\ Tail(q_task) \in Seq(Task)
      <4>1. /\ Tail(q_task) \in Seq(Task) /\ Len(Tail(q_task)) = Len(q_task) - 1
            /\ Len(q_task) \in Nat /\ Len(q_task) > 0
        BY <3>1, FrontAndRest
      <4> QED
        BY <3>1, <4>1
    <3>3. q_task' = <<>>
      BY <2>2, <3>2, EmptySeq DEF Retire
    <3> QED
      BY <2>1, <3>3 DEF HistBehind
  <2>3. CASE ~Retire
    <3>1. q_task' = q_task /\ (Running' <=> Running)
      BY <1>4, <2>3 DEF Thread, Worker, CheckStop, Sleep, StartExchange, LaunchFails, WriteRequest,
         WriteThrows, ReadReply, ReadThrows, CallbackValid, CallbackInvalid, Settle,
         callerVars, Running, AfterWorker
    <3> QED
      BY <2>1, <3>1 DEF HistBehind
  <2> QED
    BY <2>2, <2>3
<1>5. CASE Call \/ Wake
  <2>1. \/ UNCHANGED <<hist, pushed, q_task, pc>>
        \/ \E info, task, api, dev, stage : Submit(info, task, api, dev, stage) /\ UNCHANGED hist
    BY <1>5 DEF Call, Wake, addServer, setServerAsAvailable, setServerRecordMaxSize, taskPing,
       taskWriteRegister, taskReadRegisters, taskReadFile, taskWriteFile, Reject, start, setupWrite,
       stop, Destroy, WakeReturn, WakeControl, WakeTransfer, Join, callerVars, threadVars
  <2> QED
    BY <1>1, <1>2, <2>1
<1> QED
  BY <1>2, <1>3, <1>4, <1>5 DEF Next, Terminated, vars
-----------------------------------------------------------------------------
(* The mapping. *)

Mapped == <<caller.pc, caller.code, Decision, Requests>>

LEMMA ServiceInit == Init => Service!Init
  BY DEF Init, reset, Decision, Requests, Service!Init, Service!NoRequests

(* Submit begins a new task: whatever ran before has another id. *)
LEMMA SubmitServed ==
  ASSUME TypeInv, HistBehind, NEW info, NEW task, NEW api, NEW dev, NEW stage,
         Submit(info, task, api, dev, stage), UNCHANGED hist, ~info.done,
         caller.pc = "idle" \/ Decision = "success"
  PROVE  Service!Submit
<1>1. /\ hist'.id # pushed' /\ caller'.pc = "waiting" /\ caller'.code = "no_error"
      /\ task_info' = info
  BY SubmitBehind DEF Submit
<1>2. Decision' = "queued" /\ Requests' = [need |-> 0, sent |-> 0, acked |-> 0]
  BY <1>1 DEF Decision, Requests
<1> QED
  BY <1>1, <1>2 DEF Service!Submit, Service!NoRequests

(* Steps of the application thread outside the handshake with the thread. *)
LEMMA CallServed ==
  ASSUME WakeAfterSettle, TypeInv, HistBehind, Call
  PROVE  [Service!Next]_Mapped
<1>1. CASE caller.pc = "idle" /\ caller'.pc = "idle" /\ caller'.code = caller.code
  BY <1>1 DEF Mapped, Decision, Requests
<1>2. CASE \E api, dev, code : Reject(api, dev, code) /\ code \in ClientErrors \ {"no_error"}
  BY <1>2 DEF Reject, Return, Decision, Requests, Service!Reject, Service!Next
<1>3. CASE \E info, task, api, dev, stage :
             Submit(info, task, api, dev, stage) /\ UNCHANGED hist /\ ~info.done /\ caller.pc = "idle"
  BY <1>3, SubmitServed DEF Service!Next
<1>4. CASE Destroy
  BY <1>4 DEF Destroy, Decision, Requests, Service!Close, Service!Next, TypeInv, TypeOK, Caller
<1>5. CASE \E a \in Addr : addServer(a) \/ setServerAsAvailable(a) \/ setServerRecordMaxSize(a)
  BY <1>1, <1>5 DEF addServer, setServerAsAvailable, setServerRecordMaxSize, callerVars
<1>6. CASE setupWrite \/ stop \/ \E d \in Device : start(d)
  BY <1>1, <1>6 DEF setupWrite, stop, start, callerVars
<1>7. CASE \E a \in Addr : taskPing(a) \/ taskWriteRegister(a) \/ taskReadRegisters(a)
  <2>1. \A a : ~reset("ping", 1, a).done /\ ~reset("reg_write", 1, a).done /\ ~reset("regs_read", 1, a).done
    BY DEF reset
  <2>2. "server_not_connected" \in ClientErrors \ {"no_error"}
    BY DEF ClientErrors
  <2> QED
    BY <1>2, <1>3, <1>7, <2>1, <2>2 DEF taskPing, taskWriteRegister, taskReadRegisters
<1>8. CASE \E a \in Addr : taskReadFile(a) \/ taskWriteFile(a)
  <2>1. \A a : ~reset("reg_write", 1, a).done
    BY DEF reset
  <2>2. {"server_not_connected", "max_record_length_not_configured", "file_buffer_is_empty"}
          \subseteq ClientErrors \ {"no_error"}
    BY DEF ClientErrors
  <2> QED
    BY <1>2, <1>3, <1>8, <2>1, <2>2 DEF taskReadFile, taskWriteFile
<1> QED
  BY <1>4, <1>5, <1>6, <1>7, <1>8 DEF Call

(* What the caller finds when it wakes is the decision. *)
LEMMA WakeServed ==
  ASSUME WakeAfterSettle, TypeInv, HistBehind, Wake
  PROVE  [Service!Next]_Mapped
<1>1. CASE WakeReturn
  <2>1. /\ Decision = IF task_info.error_code = "no_error" THEN "success" ELSE "failure"
        /\ caller'.pc = "idle" /\ caller'.code = task_info.error_code
        /\ task_info.error_code \in ClientErrors
    BY <1>1 DEF WakeReturn, Woken, Return, Decision, TypeInv, TypeOK, TaskInfo
  <2>2. Decision' = "none" /\ Requests' = [need |-> 0, sent |-> 0, acked |-> 0]
    BY <2>1 DEF Decision, Requests
  <2> QED
    BY <2>1, <2>2 DEF Service!Return, Service!NoRequests, Service!Next
<1>2. CASE WakeControl
  <2>1. Decision = "success"
    BY <1>2 DEF WakeControl, Woken, Decision
  <2>2. CASE Submit(reset("reg_write", 1, caller.dev), "reg_write", caller.api, caller.dev, "control")
    <3>1. ~reset("reg_write", 1, caller.dev).done
      BY DEF reset
    <3> QED
      BY <1>2, <2>1, <2>2, <3>1, SubmitServed DEF WakeControl, Service!Next
  <2>3. CASE Return(caller.api, caller.dev, "server_not_connected")
    <3>1. caller'.pc = "idle" /\ caller'.code = "server_not_connected"
      BY <2>3 DEF Return
    <3>2. Decision' = "none" /\ Requests' = [need |-> 0, sent |-> 0, acked |-> 0]
      BY <3>1 DEF Decision, Requests
    <3> QED
      BY <2>1, <3>1, <3>2 DEF Service!Return, Service!NoRequests, Service!Next, ClientErrors
  <2> QED
    BY <1>2, <2>2, <2>3 DEF WakeControl
<1>3. CASE WakeTransfer
  <2>1. Decision = "success" /\ ~reset("undefined", 0, server_not_found).done
    BY <1>3 DEF WakeTransfer, Woken, Decision, reset
  <2> QED
    BY <1>3, <2>1, SubmitServed DEF WakeTransfer, Service!Next
<1>4. CASE Join
  BY <1>4 DEF Join, Decision, Requests, Service!Gone, Service!Next, TypeInv, TypeOK, Caller
<1> QED
  BY <1>1, <1>2, <1>3, <1>4 DEF Wake

(* With an exchange in hand the task of the waiting call is running. *)
LEMMA InHandIsRunning ==
  ASSUME WakeAfterSettle, TypeInv, CallInv, InHand
  PROVE  /\ Running /\ caller.pc = "waiting" /\ hist.id = pushed /\ ~task_info.done
         /\ Decision = "running"
         /\ Requests = [need |-> hist.need, sent |-> hist.sent, acked |-> hist.acked]
         /\ hist.acked = hist.need - Len(q_exchange) /\ hist.acked < hist.need
         /\ hist.need \in Nat /\ hist.sent \in Nat /\ hist.acked \in Nat
<1>1. Running /\ q_exchange # <<>> /\ ~task_info.done /\ hist.acked = hist.need - Len(q_exchange)
  BY RunningFacts DEF InHand, Running, CallInv, ExchangeInHand
<1>2. caller.pc = "waiting" /\ hist.id = pushed
  BY <1>1, RunningFacts DEF CallInv, OneTask
<1>3. hist.acked < hist.need /\ hist.need \in Nat /\ hist.sent \in Nat /\ hist.acked \in Nat
  BY <1>1, RunningFacts
<1> QED
  BY <1>1, <1>2, <1>3 DEF Decision, Requests

LEMMA RunTaskServed ==
  ASSUME WakeAfterSettle, TypeInv, TypeInv', CallInv, CallInv', HistBehind, RunTask
  PROVE  Service!Next
<1>1. q_task # <<>> /\ ~Running /\ Running' /\ q_task' = q_task /\ caller' = caller /\ pushed' = pushed
  BY DEF RunTask, Running, callerVars
<1>2. caller.pc = "waiting" /\ ~task_info.done /\ hist.id < pushed /\ q_task[1].id = pushed
  BY <1>1 DEF CallInv, OneTask, FreshInfo, HistBehind
<1>3. Decision = "queued"
  BY <1>2 DEF Decision, TypeInv, TypeOK, History
<1>4. ~task_info'.done /\ hist'.id = pushed /\ hist'.sent = 0 /\ hist'.acked = 0 /\ hist'.need \in Nat
  <2>1. ~task_info'.done
    BY <1>2 DEF RunTask, reset
  <2>2. Head(q_task) = q_task[1] /\ hist'.need \in Nat
    BY <1>1, FrontAndRest DEF TypeInv, TypeOK, History
  <2> QED
    BY <1>2, <2>1, <2>2 DEF RunTask
<1>5. Decision' = "running" /\ Requests' = [need |-> hist'.need, sent |-> 0, acked |-> 0]
  BY <1>1, <1>2, <1>4 DEF Decision, Requests
<1>6. Requests' \in [need : Nat, sent : {0}, acked : {0}]
  BY <1>4, <1>5
<1> QED
  BY <1>1, <1>3, <1>5, <1>6 DEF Service!Begin, Service!Next

LEMMA WriteRequestServed ==
  ASSUME WakeAfterSettle, TypeInv, CallInv, WriteRequest
  PROVE  Service!Next
<1>1. InHand /\ UNCHANGED <<caller, pushed, task_info>>
  BY DEF WriteRequest, InHand, callerVars
<1>2. hist.sent = hist.acked
  BY <1>1 DEF WriteRequest, CallInv, ExchangeInHand
<1>3. hist'.id = hist.id /\ hist'.need = hist.need /\ hist'.acked = hist.acked /\ hist'.sent = hist.sent + 1
  BY DEF WriteRequest, TypeInv, TypeOK, History
<1>4. Decision' = "running" /\ Requests' = [Requests EXCEPT !.sent = Requests.sent + 1]
  BY <1>1, <1>3, InHandIsRunning DEF Decision, Requests
<1> QED
  BY <1>1, <1>2, <1>4, InHandIsRunning DEF Service!Request, Service!Next

LEMMA CallbackServed ==
  ASSUME WakeAfterSettle, TypeInv, CallInv, CallbackValid \/ CallbackInvalid
  PROVE  [Service!Next]_Mapped
<1>0. InHand /\ UNCHANGED <<caller, pushed>> /\ pc = "callback"
  BY DEF CallbackValid, CallbackInvalid, InHand, callerVars
<1>1. CASE CallbackInvalid
  <2>1. task_info'.done /\ task_info'.error_code # "no_error" /\ hist' = hist
    BY <1>1 DEF CallbackInvalid, TypeInv, TypeOK, TaskInfo
  <2>2. Decision' = "failure" /\ Requests' = Requests
    BY <1>0, <2>1, InHandIsRunning DEF Decision, Requests
  <2> QED
    BY <1>0, <2>2, InHandIsRunning DEF Service!Fail, Service!Next
<1>2. CASE CallbackValid
  <2>1. /\ task_info'.error_code = CallbackCode
        /\ task_info'.done <=> task_info.counter + 1 = task_info.num_of_exchanges
        /\ hist'.need = hist.need /\ hist'.id = hist.id /\ hist'.sent = hist.sent
        /\ hist'.acked = IF CallbackCode = "no_error" THEN hist.acked + 1 ELSE hist.acked
    BY <1>0, <1>2, InHandIsRunning DEF CallbackValid, TypeInv, TypeOK, TaskInfo, History
  <2>2. /\ task_info.counter = hist.acked /\ task_info.num_of_exchanges = hist.need
        /\ hist.sent = hist.acked + 1
    BY <1>0, <1>2, InHandIsRunning DEF CallbackValid, ChecksumValid, CallInv, ExchangeInHand, BoundInfo
  <2>3. CASE CallbackCode = "no_error"
    <3>1. /\ Decision' = IF hist.acked + 1 = hist.need THEN "success" ELSE "running"
          /\ Requests' = [Requests EXCEPT !.acked = Requests.acked + 1]
      BY <1>0, <2>1, <2>2, <2>3, InHandIsRunning DEF Decision, Requests
    <3> QED
      BY <1>0, <2>2, <3>1, InHandIsRunning DEF Service!Answer, Service!Next
  <2>4. CASE CallbackCode # "no_error"
    <3>1. Requests' = Requests /\ Decision' \in {"failure", "running"}
      BY <1>0, <2>1, <2>4, InHandIsRunning DEF Decision, Requests
    <3> QED
      BY <1>0, <3>1, InHandIsRunning DEF Service!Fail, Service!Next, Mapped
  <2> QED
    BY <2>3, <2>4
<1> QED
  BY <1>1, <1>2

LEMMA ThreadServed ==
  ASSUME WakeAfterSettle, TypeInv, TypeInv', CallInv, CallInv', HistBehind, Thread
  PROVE  [Service!Next]_Mapped
<1>1. CASE ~(RunTask \/ WriteRequest \/ CallbackValid \/ CallbackInvalid)
  <2>1. UNCHANGED <<caller, pushed, hist>> /\ task_info'.done = task_info.done
    BY <1>1 DEF Thread, Worker, CheckStop, Sleep, StartExchange, LaunchFails, WriteThrows, ReadReply,
       ReadThrows, Settle, Retire, callerVars, TypeInv, TypeOK, TaskInfo
  <2>2. task_info.done => task_info'.error_code = task_info.error_code
    <3>1. CASE StartExchange \/ CheckStop \/ Sleep \/ ReadReply \/ Settle \/ Retire
      BY <3>1 DEF StartExchange, CheckStop, Sleep, ReadReply, Settle, Retire, TypeInv, TypeOK, TaskInfo
    <3>2. CASE LaunchFails \/ WriteThrows \/ ReadThrows
      BY <3>2, InHandIsRunning DEF LaunchFails, WriteThrows, ReadThrows, InHand
    <3> QED
      BY <1>1, <3>1, <3>2 DEF Thread, Worker
  <2> QED
    BY <2>1, <2>2 DEF Decision, Requests, Mapped
<1> QED
  BY <1>1, RunTaskServed, WriteRequestServed, CallbackServed

LEMMA ServiceStep ==
  WakeAfterSettle /\ TypeInv /\ CallInv /\ HistBehind /\ [Next]_vars /\ TypeInv' /\ CallInv'
    => [Service!Next]_Mapped
<1>1. UNCHANGED vars => UNCHANGED Mapped
  BY DEF vars, Mapped, Decision, Requests
<1> QED
  BY <1>1, CallServed, WakeServed, ThreadServed DEF Next, Terminated

(* ModbusClient implements TaskService. *)
THEOREM ServesTasks == ASSUME WakeAfterSettle PROVE Spec => ServiceSpec
<1>1. UNCHANGED Mapped => UNCHANGED Service!vars
  BY DEF Mapped, Service!vars
<1>2. TypeInv /\ CallInv /\ HistBehind /\ [Next]_vars => HistBehind'
  BY HistBehindStep
<1>3. TypeInv /\ CallInv /\ HistBehind /\ [Next]_vars /\ TypeInv' /\ CallInv'
        => [Service!Next]_Service!vars
  BY <1>1, ServiceStep
<1> QED
  BY <1>2, <1>3, Invariance, HistBehindInit, ServiceInit, PTL DEF Spec, ServiceSpec, Service!Spec
=============================================================================
