------------------------- MODULE ModbusClientProofs -------------------------
(***************************************************************************)
(* Proofs about ModbusClient, for any set of servers and devices, any      *)
(* number of tasks and any size of file.                                   *)
(***************************************************************************)
EXTENDS ModbusClient, SequenceTheorems, TLAPS

(* What a task's closure queues is a sequence of exchanges. *)
LEMMA ExchangesOfType ==
  ASSUME TypeOK, NEW t \in Task
  PROVE  /\ ExchangesOf(t) \in Seq(Exchange)
         /\ Len(ExchangesOf(t)) = (IF t.task \in FileTask THEN file.num_of_records ELSE 1)
         /\ Len(ExchangesOf(t)) \in Nat
<1> DEFINE n == IF t.task \in FileTask THEN file.num_of_records ELSE 1
           e(i) == [id |-> t.id, task |-> t.task, dev |-> t.dev, record |-> i - 1]
<1>1. n \in Nat
  BY DEF TypeOK, File
<1>2. ASSUME NEW i \in 1 .. n PROVE e(i) \in Exchange
  BY <1>1 DEF Task, Exchange
<1>3. [i \in 1 .. n |-> e(i)] \in [1 .. n -> Exchange]
  BY <1>2
<1>4. ExchangesOf(t) = [i \in 1 .. n |-> e(i)]
  BY DEF ExchangesOf
<1> HIDE DEF n, e
<1>5. ExchangesOf(t) \in [1 .. n -> Exchange]
  BY <1>3, <1>4
<1>6. ExchangesOf(t) \in Seq(Exchange)
  BY <1>1, <1>5, SeqDef
<1>7. Len(ExchangesOf(t)) = n
  BY <1>1, <1>5, <1>6, LenProperties
<1> QED
  BY <1>1, <1>6, <1>7 DEF n

(* Changing what is known of one server keeps the type of servers. *)
LEMMA ServersUpdate ==
  ASSUME NEW s \in [Addr -> ServerInfo], NEW a, NEW b \in BOOLEAN
  PROVE  /\ [s EXCEPT ![a].status = "unavailable"] \in [Addr -> ServerInfo]
         /\ [s EXCEPT ![a].status = "available"] \in [Addr -> ServerInfo]
         /\ [s EXCEPT ![a].sized = b] \in [Addr -> ServerInfo]
         /\ [s EXCEPT ![a].first = b] \in [Addr -> ServerInfo]
  BY DEF ServerInfo

(* The front of a queue and what a pop leaves. *)
LEMMA FrontAndRest ==
  ASSUME NEW S, NEW q \in Seq(S), q # <<>>
  PROVE  /\ Head(q) \in S /\ Head(q) = q[1]
         /\ Tail(q) \in Seq(S)
         /\ Len(Tail(q)) = Len(q) - 1
         /\ \A i \in 1 .. Len(q) - 1 : Tail(q)[i] = q[i + 1]
         /\ Len(q) \in Nat /\ Len(q) > 0
  BY HeadTailProperties, EmptySeq, LenProperties

(* Queueing a task keeps the types of what it writes. *)
LEMMA SubmitType ==
  ASSUME TypeOK, NEW info \in TaskInfo, NEW task \in ClientTasks, NEW api \in ClientTasks,
         NEW dev \in Addr, NEW stage \in Stage, Submit(info, task, api, dev, stage)
  PROVE  /\ pushed' \in Nat /\ task_info' \in TaskInfo /\ q_task' \in Seq(Task)
         /\ caller' \in Caller
         /\ UNCHANGED <<port, threadVars, thread_stop>>
<1>1. [id |-> pushed + 1, task |-> task, dev |-> dev] \in Task
  BY DEF TypeOK, Task
<1>2. q_task' \in Seq(Task)
  BY <1>1, AppendProperties DEF TypeOK, Submit
<1> QED
  BY <1>2 DEF TypeOK, Submit, Caller, Stage, ClientErrors

LEMMA ResetType ==
  ASSUME NEW task \in ClientTasks \cup {"undefined"}, NEW n \in Nat,
         NEW index \in Addr \cup {server_not_found}
  PROVE  reset(task, n, index) \in TaskInfo
  BY DEF reset, TaskInfo, ClientErrors

(* What exchangeCallback writes to task_info. *)
LEMMA InfoUpdate ==
  ASSUME NEW i \in TaskInfo, NEW code \in ClientErrors, NEW d \in BOOLEAN
  PROVE  [i EXCEPT !.counter = i.counter + 1, !.error_code = code, !.done = d] \in TaskInfo
<1> DEFINE j == [i EXCEPT !.counter = i.counter + 1]
           k == [j EXCEPT !.error_code = code]
           l == [k EXCEPT !.done = d]
<1>1. j \in TaskInfo
  BY DEF TaskInfo
<1>2. k \in TaskInfo
  <2> HIDE DEF j
  <2> QED  BY <1>1 DEF TaskInfo
<1>3. l \in TaskInfo
  <2> HIDE DEF k
  <2> QED  BY <1>2 DEF TaskInfo
<1>4. [i EXCEPT !.counter = i.counter + 1, !.error_code = code, !.done = d] = l
  OBVIOUS
<1> QED
  BY <1>3, <1>4

(* What the API call that is waiting is about. *)
WaitingCall ==
  caller.pc = "waiting" =>
    /\ caller.api \in ClientTasks
    /\ caller.dev \in Addr
    /\ caller.stage \in {"counter", "control", "transfer"} <=> caller.api \in FileTask

(* The steps of the application thread keep the types, one step per action. *)
LEMMA CallerTypeStep ==
  TypeOK /\ WaitingCall /\ (Call \/ Wake) => TypeOK' /\ WaitingCall'
<1> SUFFICES ASSUME TypeOK, WaitingCall, Call \/ Wake PROVE TypeOK' /\ WaitingCall'
  OBVIOUS
<1> USE DEF TypeOK, callerVars, threadVars
<1>1. ASSUME NEW a \in Addr, addServer(a) PROVE TypeOK' /\ WaitingCall'
  BY <1>1, ServersUpdate DEF addServer, WaitingCall
<1>2. ASSUME NEW a \in Addr, setServerAsAvailable(a) PROVE TypeOK' /\ WaitingCall'
  BY <1>2, ServersUpdate DEF setServerAsAvailable, WaitingCall
<1>3. ASSUME NEW a \in Addr, setServerRecordMaxSize(a) PROVE TypeOK' /\ WaitingCall'
  <2>1. PICK nonzero \in BOOLEAN : servers' = [servers EXCEPT ![a].sized = nonzero]
    BY <1>3 DEF setServerRecordMaxSize
  <2> QED
    BY <1>3, <2>1, ServersUpdate DEF setServerRecordMaxSize, WaitingCall
<1>4. CASE setupWrite
  BY <1>4, ConstantsAssumption DEF setupWrite, File, WaitingCall
<1>5. ASSUME NEW d \in Device, start(d) PROVE TypeOK' /\ WaitingCall'
  BY <1>5 DEF start, WaitingCall
<1>6. CASE stop
  BY <1>6, ResetType DEF stop, WaitingCall
<1>7. CASE Destroy
  BY <1>7 DEF Destroy, Caller, WaitingCall
<1>8. CASE Join
  BY <1>8 DEF Join, Caller, WaitingCall
<1>9. ASSUME NEW a \in Addr, taskPing(a) PROVE TypeOK' /\ WaitingCall'
  BY <1>9, SubmitType, ResetType
     DEF taskPing, Reject, Return, Caller, Stage, ClientTasks, FileTask, ClientErrors, WaitingCall, Submit
<1>10. ASSUME NEW a \in Addr, taskWriteRegister(a) PROVE TypeOK' /\ WaitingCall'
  BY <1>10, SubmitType, ResetType
     DEF taskWriteRegister, Reject, Return, Caller, Stage, ClientTasks, FileTask, ClientErrors, WaitingCall, Submit
<1>11. ASSUME NEW a \in Addr, taskReadRegisters(a) PROVE TypeOK' /\ WaitingCall'
  <2>1. CASE Reject("regs_read", a, "server_not_connected")
    BY <1>11, <2>1 DEF Reject, Return, Caller, Stage, ClientTasks, FileTask, ClientErrors, WaitingCall
  <2>2. CASE /\ \E first \in BOOLEAN : servers' = [servers EXCEPT ![a].first = first]
             /\ Submit(reset("regs_read", 1, a), "regs_read", "regs_read", a, "single")
             /\ UNCHANGED <<file, hist>>
    <3>1. PICK first \in BOOLEAN : servers' = [servers EXCEPT ![a].first = first]
      BY <2>2
    <3> QED
      BY <1>11, <2>2, <3>1, SubmitType, ResetType, ServersUpdate
      DEF Stage, ClientTasks, FileTask, WaitingCall, Submit
  <2> QED
    BY <1>11, <2>1, <2>2 DEF taskReadRegisters
<1>12. ASSUME NEW a \in Addr, taskReadFile(a) PROVE TypeOK' /\ WaitingCall'
  <2>1. CASE \/ Reject("file_read", a, "server_not_connected")
             \/ Reject("file_read", a, "max_record_length_not_configured")
    BY <1>12, <2>1 DEF Reject, Return, Caller, Stage, ClientTasks, FileTask, ClientErrors, WaitingCall
  <2>2. CASE /\ \E n \in 0 .. MaxRecords :
                  file' = [num_of_records |-> n, counter |-> 0, ready |-> FALSE]
             /\ Submit(reset("reg_write", 1, a), "reg_write", "file_read", a, "counter")
             /\ UNCHANGED <<servers, hist>>
    <3>1. file' \in File
      BY <2>2, ConstantsAssumption DEF File
    <3> QED
      BY <1>12, <2>2, <3>1, SubmitType, ResetType
         DEF Stage, ClientTasks, FileTask, WaitingCall, Submit
  <2> QED
    BY <1>12, <2>1, <2>2 DEF taskReadFile
<1>13. ASSUME NEW a \in Addr, taskWriteFile(a) PROVE TypeOK' /\ WaitingCall'
  <2>1. CASE \/ Reject("file_write", a, "server_not_connected")
             \/ Reject("file_write", a, "file_buffer_is_empty")
             \/ Reject("file_write", a, "max_record_length_not_configured")
    BY <1>13, <2>1 DEF Reject, Return, Caller, Stage, ClientTasks, FileTask, ClientErrors, WaitingCall
  <2>2. CASE /\ Submit(reset("reg_write", 1, a), "reg_write", "file_write", a, "counter")
             /\ UNCHANGED <<servers, file, hist>>
    BY <1>13, <2>2, SubmitType, ResetType
       DEF Stage, ClientTasks, FileTask, WaitingCall, Submit
  <2> QED
    BY <1>13, <2>1, <2>2 DEF taskWriteFile
<1>14. CASE WakeReturn
  BY <1>14 DEF WakeReturn, Woken, Return, Caller, TaskInfo, Stage, WaitingCall
<1>15. CASE WakeControl
  <2>1. caller.api \in FileTask /\ caller.dev \in Addr
    BY <1>15 DEF WakeControl, Woken, WaitingCall
  <2>2. CASE Submit(reset("reg_write", 1, caller.dev), "reg_write", caller.api, caller.dev, "control")
    BY <1>15, <2>1, <2>2, SubmitType, ResetType
       DEF WakeControl, ClientTasks, FileTask, Stage, WaitingCall, Submit
  <2>3. CASE ~Available(caller.dev) /\ Return(caller.api, caller.dev, "server_not_connected")
             /\ UNCHANGED <<port, pushed, task_info, q_task, threadVars, thread_stop>>
    BY <1>15, <2>1, <2>3 DEF WakeControl, Return, Caller, Stage, ClientErrors, ClientTasks, WaitingCall
  <2> QED
    BY <1>15, <2>2, <2>3 DEF WakeControl
<1>16. CASE WakeTransfer
  <2>1. caller.api \in FileTask /\ caller.dev \in Addr
    BY <1>16 DEF WakeTransfer, Woken, WaitingCall
  <2> QED
    BY <1>16, <2>1, SubmitType, ResetType
       DEF WakeTransfer, ClientTasks, FileTask, Stage, WaitingCall, Submit
<1> QED
  BY <1>1, <1>2, <1>3, <1>4, <1>5, <1>6, <1>7, <1>8, <1>9, <1>10, <1>11, <1>12, <1>13,
     <1>14, <1>15, <1>16
  DEF Call, Wake

(* The steps of the client thread keep the types. *)
LEMMA ThreadTypeStep ==
  TypeOK /\ ExchangesOfFrontTask /\ WaitingCall /\ Thread => TypeOK' /\ WaitingCall'
<1> SUFFICES ASSUME TypeOK, ExchangesOfFrontTask, Thread PROVE TypeOK' /\ UNCHANGED caller
  BY DEF WaitingCall
<1> USE DEF TypeOK, callerVars, threadVars
<1>1. CASE CheckStop
  BY <1>1 DEF CheckStop
<1>2. CASE Sleep
  BY <1>2 DEF Sleep
<1>3. CASE RunTask
  <2>1. Head(q_task) \in Task
    BY <1>3, FrontAndRest DEF RunTask
  <2>2. q_exchange' \in Seq(Exchange) /\ hist' \in History
    BY <1>3, <2>1, ExchangesOfType DEF RunTask, History, Task
  <2>3. task_info' \in TaskInfo
    BY <1>3, <2>1, ResetType DEF RunTask, Task, File, ClientTasks
  <2> QED
    BY <1>3, <2>2, <2>3 DEF RunTask
<1>4. CASE StartExchange \/ LaunchFails
  <2>1. q_exchange # <<>>
    BY <1>4 DEF StartExchange, LaunchFails
  <2>2. Head(q_exchange).task \in ClientTasks
    <3>1. Head(q_exchange) \in Exchange
      BY <2>1, FrontAndRest
    <3> QED
      BY <3>1 DEF Exchange
  <2>3. CASE StartExchange
    BY <2>2, <2>3 DEF StartExchange, TaskInfo
  <2>4. CASE LaunchFails
    BY <2>2, <2>4 DEF LaunchFails, TaskInfo, ClientErrors
  <2> QED
    BY <1>4, <2>3, <2>4
<1>5. CASE WriteRequest
  BY <1>5 DEF WriteRequest, Reply, History
<1>6. CASE WriteThrows
  BY <1>6 DEF WriteThrows, Reply, TaskInfo, ClientErrors, AfterWorker
<1>7. CASE ReadReply
  BY <1>7 DEF ReadReply, Reply, AfterWorker
<1>8. CASE ReadThrows
  BY <1>8 DEF ReadThrows, Reply, TaskInfo, ClientErrors, AfterWorker
<1>9. CASE CallbackValid
  <2>1. servers' \in {servers} \cup ServersAfterReply
    BY <1>9 DEF CallbackValid
  <2>2. ASSUME NEW s \in ServersAfterReply PROVE s \in [Addr -> ServerInfo]
    <3>1. CASE task_info.task = "ping"
      <4>1. s = [servers EXCEPT ![task_info.index].status = "available"]
        BY <2>2, <3>1 DEF ServersAfterReply
      <4> QED
        BY <4>1, ServersUpdate
    <3>2. CASE task_info.task # "ping" /\ s # servers
      <4>1. PICK b \in BOOLEAN : s = [servers EXCEPT ![task_info.index].sized = b]
        BY <2>2, <3>2 DEF ServersAfterReply
      <4> QED
        BY <4>1, ServersUpdate
    <3> QED
      BY <3>1, <3>2
  <2>3. servers' \in [Addr -> ServerInfo]
    BY <2>1, <2>2
  <2>4. LoadRecord \in File
    <3>1. CASE file.counter + 1 = file.num_of_records
      BY <3>1 DEF LoadRecord, File
    <3>2. CASE file.counter + 1 # file.num_of_records
      <4>1. LoadRecord = [file EXCEPT !.counter = file.counter + 1]
        BY <3>2 DEF LoadRecord, File
      <4> QED
        BY <4>1 DEF File
    <3> QED
      BY <3>1, <3>2
  <2>5. file' \in File
    BY <1>9, <2>4 DEF CallbackValid
  <2>6. CallbackCode \in ClientErrors
    BY DEF CallbackCode, ClientErrors, TaskInfo
  <2>7. task_info' \in TaskInfo
    BY <1>9, <2>6, InfoUpdate DEF CallbackValid, TaskInfo
  <2>8. hist' \in History
    BY <1>9 DEF CallbackValid, History
  <2> QED
    BY <1>9, <2>3, <2>5, <2>7, <2>8 DEF CallbackValid
<1>10. CASE CallbackInvalid
  <2>1. servers' \in [Addr -> ServerInfo]
    BY <1>10, ServersUpdate DEF CallbackInvalid
  <2>2. task_info' \in TaskInfo
    BY <1>10, InfoUpdate DEF CallbackInvalid, ClientErrors
  <2> QED
    BY <1>10, <2>1, <2>2 DEF CallbackInvalid
<1>11. CASE Settle
  <2>1. q_exchange # <<>>
    BY <1>11 DEF Settle, ExchangesOfFrontTask, Running
  <2>2. q_exchange' \in Seq(Exchange)
    BY <1>11, <2>1, FrontAndRest, EmptySeq DEF Settle
  <2> QED
    BY <1>11, <2>2 DEF Settle
<1>12. CASE Retire
  <2>1. q_task # <<>>
    BY <1>12 DEF Retire, ExchangesOfFrontTask, Running
  <2> QED
    BY <1>12, <2>1, FrontAndRest DEF Retire
<1> QED
  BY <1>1, <1>2, <1>3, <1>4, <1>5, <1>6, <1>7, <1>8, <1>9, <1>10, <1>11, <1>12
  DEF Thread, Worker

(* The caller only appends to q_task and leaves the rest of the queues alone. *)
LEMMA CallerKeepsFront ==
  ASSUME TypeOK, Call \/ Wake
  PROVE  /\ UNCHANGED <<pc, q_exchange, hist>>
         /\ q_task # <<>> => q_task' # <<>> /\ q_task'[1] = q_task[1]
<1> USE DEF callerVars, threadVars
<1>1. \/ UNCHANGED q_task
      \/ \E e : q_task' = Append(q_task, e)
  BY DEF Call, Wake, addServer, setServerAsAvailable, setServerRecordMaxSize, setupWrite, start,
     stop, Destroy, Join, taskPing, taskWriteRegister, taskReadRegisters, taskReadFile,
     taskWriteFile, WakeReturn, WakeControl, WakeTransfer, Reject, Submit
<1>2. UNCHANGED <<pc, q_exchange, hist>>
  BY DEF Call, Wake, addServer, setServerAsAvailable, setServerRecordMaxSize, setupWrite, start,
     stop, Destroy, Join, taskPing, taskWriteRegister, taskReadRegisters, taskReadFile,
     taskWriteFile, WakeReturn, WakeControl, WakeTransfer, Woken, Reject, Submit
<1>3. ASSUME q_task # <<>>, NEW e, q_task' = Append(q_task, e)
      PROVE  q_task' # <<>> /\ q_task'[1] = q_task[1]
  <2>1. Len(q_task) \in Nat /\ Len(q_task) > 0
    BY <1>3, FrontAndRest DEF TypeOK
  <2>2. Len(q_task') = Len(q_task) + 1 /\ q_task'[1] = q_task[1]
    BY <1>3, <2>1 DEF TypeOK
  <2> QED
    BY <2>1, <2>2
<1> QED
  BY <1>1, <1>2, <1>3

(* The queues stay in step. *)
LEMMA QueueStep ==
  TypeOK /\ ExchangesOfFrontTask /\ [Next]_vars => ExchangesOfFrontTask'
<1> SUFFICES ASSUME TypeOK, ExchangesOfFrontTask, [Next]_vars PROVE ExchangesOfFrontTask'
  OBVIOUS
<1> USE DEF callerVars, threadVars
<1>1. CASE Call \/ Wake
  <2>1. UNCHANGED <<pc, q_exchange, hist>>
    BY <1>1, CallerKeepsFront
  <2>2. q_task # <<>> => q_task' # <<>> /\ q_task'[1] = q_task[1]
    BY <1>1, CallerKeepsFront
  <2>3. q_exchange # <<>> => q_task # <<>>
    BY DEF ExchangesOfFrontTask
  <2>4. q_exchange = <<>> => DOMAIN q_exchange = {}
    OBVIOUS
  <2> QED
    BY <2>1, <2>2, <2>3, <2>4 DEF ExchangesOfFrontTask, Running
<1>2. CASE RunTask
  <2> DEFINE t == Head(q_task)
  <2>1. t \in Task /\ q_task[1] = t /\ q_task # <<>>
    BY <1>2, FrontAndRest DEF RunTask, TypeOK
  <2>2. Len(ExchangesOf(t)) \in Nat /\ ExchangesOf(t) \in Seq(Exchange)
    BY <2>1, ExchangesOfType
  <2>3. \A i \in DOMAIN ExchangesOf(t) :
          ExchangesOf(t)[i] = [id |-> t.id, task |-> t.task, dev |-> t.dev, record |-> i - 1]
    BY DEF ExchangesOf
  <2>4. \A i \in DOMAIN ExchangesOf(t) : i \in Nat
    BY <2>2
  <2>5. hist'.need = Len(ExchangesOf(t)) /\ hist'.id = t.id /\ q_exchange' = ExchangesOf(t)
        /\ pc' = "front" /\ q_task' = q_task
    BY <1>2 DEF RunTask
  <2> HIDE DEF t
  <2> QED
    BY <2>1, <2>2, <2>3, <2>4, <2>5 DEF ExchangesOfFrontTask, Running
<1>3. CASE CheckStop \/ Sleep \/ StartExchange \/ LaunchFails \/ Worker
           \/ CallbackValid \/ CallbackInvalid
  <2>1. UNCHANGED <<q_task, q_exchange>> /\ hist'.need = hist.need /\ hist'.id = hist.id
    BY <1>3 DEF TypeOK, History, Worker, CheckStop, Sleep, StartExchange, LaunchFails, WriteRequest,
       WriteThrows, ReadReply, ReadThrows, CallbackValid, CallbackInvalid
  <2>2. Running <=> Running'
    BY <1>3 DEF Running, Worker, CheckStop, Sleep, StartExchange, LaunchFails, WriteRequest,
       WriteThrows, ReadReply, ReadThrows, CallbackValid, CallbackInvalid, AfterWorker
  <2>3. Running' => (pc = "front" /\ q_exchange # <<>>) \/ pc # "front"
    BY <1>3, <2>2 DEF Running, Worker, CheckStop, Sleep, StartExchange, LaunchFails, WriteRequest,
       WriteThrows, ReadReply, ReadThrows, CallbackValid, CallbackInvalid
  <2> QED
    BY <2>1, <2>2, <2>3 DEF ExchangesOfFrontTask
<1>4. CASE Settle
  <2>1. Running /\ q_exchange # <<>> /\ Running' /\ pc' = "front"
    BY <1>4 DEF Settle, Running, ExchangesOfFrontTask
  <2>2. CASE q_exchange' = <<>>
    BY <1>4, <2>1, <2>2 DEF Settle, ExchangesOfFrontTask, TypeOK, History
  <2>3. CASE q_exchange' = Tail(q_exchange)
    <3>1. /\ Len(q_exchange) \in Nat /\ Len(q_exchange) > 0
          /\ Len(q_exchange') = Len(q_exchange) - 1
          /\ q_exchange' \in Seq(Exchange)
          /\ \A i \in 1 .. Len(q_exchange) - 1 : q_exchange'[i] = q_exchange[i + 1]
      BY <2>1, <2>3, FrontAndRest DEF TypeOK
    <3>2. DOMAIN q_exchange' = 1 .. Len(q_exchange) - 1 /\ DOMAIN q_exchange = 1 .. Len(q_exchange)
      BY <3>1 DEF TypeOK
    <3>3. hist.need \in Nat /\ Len(q_exchange) <= hist.need
      BY DEF TypeOK, History, ExchangesOfFrontTask
    <3>4. ASSUME NEW i \in DOMAIN q_exchange'
          PROVE  q_exchange'[i] =
                   [id |-> q_task[1].id, task |-> q_task[1].task, dev |-> q_task[1].dev,
                    record |-> hist.need - Len(q_exchange') + i - 1]
      <4>1. i + 1 \in DOMAIN q_exchange /\ q_exchange'[i] = q_exchange[i + 1] /\ i \in Nat
        BY <3>1, <3>2
      <4>2. hist.need - Len(q_exchange) + (i + 1) - 1 = hist.need - Len(q_exchange') + i - 1
        <5>1. Len(q_exchange') = Len(q_exchange) - 1
          BY <3>1
        <5>2. hist.need \in Int /\ Len(q_exchange) \in Int /\ i \in Int
          BY <3>1, <3>3, <4>1
        <5> QED
          BY <5>1, <5>2
      <4> QED
        BY <4>1, <4>2 DEF ExchangesOfFrontTask
    <3> QED
      BY <1>4, <2>1, <3>1, <3>3, <3>4 DEF Settle, ExchangesOfFrontTask
  <2> QED
    BY <1>4, <2>2, <2>3 DEF Settle
<1>5. CASE Retire
  BY <1>5 DEF Retire, ExchangesOfFrontTask, Running, TypeOK, History
<1>6. CASE UNCHANGED vars
  BY <1>6 DEF vars, ExchangesOfFrontTask, Running
<1> QED
  BY <1>1, <1>2, <1>3, <1>4, <1>5, <1>6 DEF Next, Thread, Terminated

-----------------------------------------------------------------------------
TypeInv == TypeOK /\ ExchangesOfFrontTask /\ WaitingCall

LEMMA TypeInvInit == Init => TypeInv
<1> SUFFICES ASSUME Init PROVE TypeInv
  OBVIOUS
<1>1. servers \in [Addr -> ServerInfo]
  BY DEF Init, ServerInfo
<1>2. TypeOK
  BY <1>1, ConstantsAssumption, ResetType, EmptySeq
     DEF Init, TypeOK, File, Caller, Stage, ClientErrors, Reply, History
<1>3. ExchangesOfFrontTask
  BY ConstantsAssumption DEF Init, ExchangesOfFrontTask, Running
<1> QED
  BY <1>2, <1>3 DEF TypeInv, WaitingCall, Init

LEMMA TypeInvStep == TypeInv /\ [Next]_vars => TypeInv'
<1> SUFFICES ASSUME TypeInv, [Next]_vars PROVE TypeInv'
  OBVIOUS
<1>1. CASE UNCHANGED vars
  BY <1>1 DEF vars, TypeInv, TypeOK, ExchangesOfFrontTask, WaitingCall, Running
<1>2. CASE Call \/ Wake
  BY <1>2, CallerTypeStep, QueueStep DEF TypeInv
<1>3. CASE Thread
  BY <1>3, ThreadTypeStep, QueueStep DEF TypeInv
<1> QED
  BY <1>1, <1>2, <1>3 DEF Next, Terminated

(* The state is always well typed: what the closures, exchangeCallback and the
   API calls write to the shared task_info, servers, file and queues. *)
THEOREM TypeCorrect == Spec => []TypeOK
<1>1. Spec => []TypeInv
  BY TypeInvInit, TypeInvStep, PTL DEF Spec
<1> QED
  BY <1>1, PTL DEF TypeInv

(* front() and pop() of clientThread never meet an empty queue, and q_exchange
   is always the rest of the task at the front of q_task, even while the
   application thread pushes: no assumption on timing is used. *)
THEOREM QueuesInStep == Spec => []ExchangesOfFrontTask
<1>1. Spec => []TypeInv
  BY TypeInvInit, TypeInvStep, PTL DEF Spec
<1> QED
  BY <1>1, PTL DEF TypeInv

-----------------------------------------------------------------------------
(* The inductive invariant of the call protocol, when no poll of `done' falls
   between done.store and q_task.pop. *)

(* At most one task is queued, and it is the one the caller waits for. *)
OneTask ==
  /\ Len(q_task) <= 1
  /\ q_task # <<>> => /\ caller.pc = "waiting"
                      /\ q_task[1].id = pushed
                      /\ q_task[1].dev = caller.dev

(* Until the thread runs the task, task_info is as the caller reset it. *)
FreshInfo ==
  q_task # <<>> /\ ~Running =>
    /\ ~task_info.done
    /\ task_info.error_code = "no_error"
    /\ q_task[1].task \notin FileTask =>
         /\ task_info.task = q_task[1].task
         /\ task_info.index = q_task[1].dev
         /\ task_info.num_of_exchanges = 1
         /\ task_info.counter = 0

(* While it runs, task_info describes that very task. *)
BoundInfo ==
  Running =>
    /\ task_info.task = q_task[1].task
    /\ task_info.index = q_task[1].dev
    /\ task_info.num_of_exchanges = hist.need
    /\ task_info.task \notin FileTask => hist.need = 1

InHand == pc \in {"write", "read", "callback"} \/ (pc = "front" /\ q_exchange # <<>>)

(* With an exchange in hand, every earlier one was answered well. *)
ExchangeInHand ==
  InHand =>
    /\ ~task_info.done
    /\ ~error_in_task
    /\ task_info.counter = hist.acked
    /\ hist.acked = hist.need - Len(q_exchange)
    /\ pc # "front" => task_info.length = q_exchange[1].task
    /\ pc \in {"front", "write"} => hist.sent = hist.acked
    /\ pc = "read" => hist.sent = hist.acked + 1
    /\ pc # "callback" => task_info.error_code = "no_error"
    /\ pc = "callback" =>
         /\ response_data # "empty" => hist.sent = hist.acked + 1
         /\ task_info.error_code \in {"no_error", "system"}
         /\ task_info.error_code = "system" => response_data \notin {"misfit", "full"}

(* After the callback, a good exchange is counted once; `done' means the last. *)
ExchangeSettled ==
  pc = "settle" /\ task_info.error_code = "no_error" =>
    /\ ~error_in_task
    /\ task_info.counter = hist.acked
    /\ hist.acked = hist.need - Len(q_exchange) + 1
    /\ hist.sent = hist.acked
    /\ task_info.done <=> hist.acked = hist.need

(* A task that ended without `done' ended for one of the known causes. *)
NotDoneCause ==
  /\ ~task_info.done
  /\ \/ pc = "settle" /\ task_info.error_code # "no_error"
     \/ pc = "front" /\ q_exchange = <<>>
     \/ caller.pc = "waiting" /\ q_task = <<>>
  => HangCause

(* The thread ends early, or because the destructor asked for it. *)
ExitCause ==
  /\ pc = "exited" => EarlyThread \/ thread_stop
  /\ thread_stop => caller.pc \in {"joining", "gone"}

Window == hist.acked <= hist.sent /\ hist.sent <= hist.acked + 1

CallInv ==
  WakeAfterSettle =>
    /\ OneTask /\ FreshInfo /\ BoundInfo /\ ExchangeInHand /\ ExchangeSettled
    /\ NotDoneCause /\ ExitCause /\ Window /\ SuccessIsEarned /\ ErrorTellsTheReply

(* Facts of a running task that every step of the thread needs. *)
LEMMA RunningFacts ==
  ASSUME TypeInv
  PROVE  /\ Running => q_task # <<>> /\ q_task[1] \in Task /\ hist.id = q_task[1].id
         /\ Running /\ pc # "front" => q_exchange # <<>>
         /\ Len(q_exchange) \in Nat /\ Len(q_exchange) <= hist.need
         /\ q_exchange # <<>> => /\ Len(q_exchange) > 0
                                /\ Head(q_exchange) = q_exchange[1]
                                /\ q_exchange[1].task = q_task[1].task
                                /\ q_exchange[1].id = q_task[1].id
                                /\ q_exchange[1].dev = q_task[1].dev
                                /\ q_exchange[1].record = hist.need - Len(q_exchange)
         /\ hist.need \in Nat /\ hist.sent \in Nat /\ hist.acked \in Nat
         /\ task_info.counter \in Nat /\ task_info.num_of_exchanges \in Nat
<1>1. Running => q_task # <<>> /\ hist.id = q_task[1].id
  BY DEF TypeInv, ExchangesOfFrontTask
<1>2. Running => q_task[1] \in Task
  BY <1>1, FrontAndRest DEF TypeInv, TypeOK
<1>3. hist.need \in Nat /\ hist.sent \in Nat /\ hist.acked \in Nat
      /\ task_info.counter \in Nat /\ task_info.num_of_exchanges \in Nat
  BY DEF TypeInv, TypeOK, History, TaskInfo
<1>4. Len(q_exchange) \in Nat /\ Len(q_exchange) <= hist.need
  BY LenProperties DEF TypeInv, TypeOK, ExchangesOfFrontTask
<1>5. ASSUME q_exchange # <<>>
      PROVE  /\ Len(q_exchange) > 0
             /\ Head(q_exchange) = q_exchange[1]
             /\ q_exchange[1] = [id |-> q_task[1].id, task |-> q_task[1].task,
                                 dev |-> q_task[1].dev,
                                 record |-> hist.need - Len(q_exchange) + 1 - 1]
  <2>1. Len(q_exchange) > 0 /\ Head(q_exchange) = q_exchange[1] /\ 1 \in DOMAIN q_exchange
    BY <1>5, FrontAndRest, LenProperties DEF TypeInv, TypeOK
  <2> QED
    BY <2>1 DEF TypeInv, ExchangesOfFrontTask
<1>6. hist.need - Len(q_exchange) + 1 - 1 = hist.need - Len(q_exchange)
  BY <1>3, <1>4
<1> QED
  BY <1>1, <1>2, <1>3, <1>4, <1>5, <1>6 DEF TypeInv, ExchangesOfFrontTask

(* Taking up the task at the front of q_task. *)
LEMMA RunTaskCallStep ==
  ASSUME WakeAfterSettle, TypeInv, TypeInv', CallInv, RunTask
  PROVE  CallInv'
<1>0. OneTask /\ FreshInfo /\ Window /\ ExitCause
  BY DEF CallInv
<1>1. q_task # <<>> /\ ~Running /\ q_task[1] \in Task /\ Head(q_task) = q_task[1]
  BY FrontAndRest DEF RunTask, Running, TypeInv, TypeOK
<1>2. /\ Len(ExchangesOf(q_task[1])) = (IF q_task[1].task \in FileTask THEN file.num_of_records ELSE 1)
      /\ Len(ExchangesOf(q_task[1])) \in Nat
  BY <1>1, ExchangesOfType DEF TypeInv
<1>3. /\ UNCHANGED <<q_task, caller, pushed, thread_stop>>
      /\ q_exchange' = ExchangesOf(q_task[1]) /\ pc' = "front" /\ error_in_task' = FALSE
      /\ hist' = [id |-> q_task[1].id, need |-> Len(q_exchange'), sent |-> 0, acked |-> 0]
  BY <1>1 DEF RunTask, callerVars
<1>4. /\ ~task_info'.done /\ task_info'.error_code = "no_error" /\ task_info'.counter = 0
      /\ task_info'.task = q_task[1].task /\ task_info'.index = q_task[1].dev
      /\ task_info'.num_of_exchanges = Len(q_exchange')
  BY <1>0, <1>1, <1>2, <1>3 DEF RunTask, FreshInfo, reset
<1>5. hist'.need = Len(q_exchange') /\ hist'.sent = 0 /\ hist'.acked = 0 /\ Len(q_exchange') \in Nat
  BY <1>2, <1>3
<1>6. OneTask' /\ FreshInfo' /\ ExitCause'
  BY <1>0, <1>3, <1>5 DEF OneTask, FreshInfo, ExitCause, Running
<1>7. BoundInfo'
  BY <1>2, <1>3, <1>4, <1>5 DEF BoundInfo
<1>8. ExchangeInHand' /\ ExchangeSettled' /\ Window'
  BY <1>3, <1>4, <1>5 DEF ExchangeInHand, InHand, ExchangeSettled, Window
<1>9. NotDoneCause'
  <2>1. q_exchange' = <<>> => Len(q_exchange') = 0
    OBVIOUS
  <2> QED
    BY <1>1, <1>2, <1>3, <1>4, <2>1 DEF NotDoneCause, HangCause
<1>10. SuccessIsEarned' /\ ErrorTellsTheReply'
  BY <1>4 DEF SuccessIsEarned, ErrorTellsTheReply
<1> QED
  BY <1>6, <1>7, <1>8, <1>9, <1>10 DEF CallInv

(* A reply with a good checksum. *)
LEMMA CallbackValidCallStep ==
  ASSUME WakeAfterSettle, TypeInv, TypeInv', CallInv, CallbackValid
  PROVE  CallInv'
<1>0. OneTask /\ FreshInfo /\ BoundInfo /\ ExchangeInHand /\ ExitCause /\ Window
  BY DEF CallInv
<1>1. /\ UNCHANGED <<q_task, q_exchange, caller, pushed, thread_stop, response_data, error_in_task>>
      /\ pc = "callback" /\ pc' = "settle"
      /\ task_info'.task = task_info.task /\ task_info'.index = task_info.index
      /\ task_info'.num_of_exchanges = task_info.num_of_exchanges
      /\ task_info'.counter = task_info.counter + 1
      /\ task_info'.error_code = CallbackCode
      /\ task_info'.done = IF task_info.counter + 1 = task_info.num_of_exchanges
                             THEN TRUE ELSE task_info.done
      /\ hist'.need = hist.need /\ hist'.id = hist.id /\ hist'.sent = hist.sent
      /\ hist'.acked = IF CallbackCode = "no_error" THEN hist.acked + 1 ELSE hist.acked
  BY DEF CallbackValid, callerVars, TypeInv, TypeOK, TaskInfo, History
<1>2. /\ Running /\ InHand /\ Running' /\ ~InHand'
      /\ q_task # <<>> /\ q_exchange # <<>> /\ Len(q_exchange) > 0
      /\ caller.pc = "waiting" /\ q_task[1].id = pushed /\ hist.id = pushed
  BY <1>0, <1>1, RunningFacts DEF Running, InHand, OneTask
<1>3. /\ task_info.task = q_exchange[1].task /\ task_info.length = Head(q_exchange).task
      /\ task_info.num_of_exchanges = hist.need /\ task_info.counter = hist.acked
      /\ hist.acked = hist.need - Len(q_exchange) /\ hist.acked < hist.need
      /\ ~task_info.done /\ ~error_in_task
  BY <1>0, <1>1, <1>2, RunningFacts DEF BoundInfo, ExchangeInHand
<1>4. /\ response_data \in {"refused", "misfit", "full"} /\ hist.sent = hist.acked + 1
      /\ task_info.error_code \in {"no_error", "system"}
      /\ task_info.error_code = "system" => response_data = "refused"
  BY <1>0, <1>1, <1>2 DEF ExchangeInHand, CallbackValid, ChecksumValid
<1>5. /\ CallbackCode \in {"no_error", "server_exception", "internal"}
      /\ CallbackCode = "server_exception" <=> response_data = "refused"
      /\ CallbackCode = "internal" => task_info.task = "file_read"
  BY <1>3, <1>4 DEF CallbackCode, LengthMatches
<1>6. OneTask' /\ FreshInfo' /\ BoundInfo' /\ ExchangeInHand' /\ ExitCause'
  BY <1>0, <1>1, <1>2 DEF OneTask, FreshInfo, BoundInfo, ExchangeInHand, ExitCause
<1>7. /\ task_info'.done <=> hist.acked + 1 = hist.need
      /\ hist.acked \in Nat /\ hist.need \in Nat /\ hist.sent \in Nat
  BY <1>1, <1>3, RunningFacts
<1>8. ExchangeSettled' /\ Window' /\ SuccessIsEarned'
  BY <1>1, <1>2, <1>3, <1>4, <1>5, <1>7 DEF ExchangeSettled, Window, SuccessIsEarned
<1>9. NotDoneCause'
  BY <1>0, <1>1, <1>2, <1>3, <1>5, <1>7 DEF NotDoneCause, HangCause, BoundInfo
<1>10. ErrorTellsTheReply'
  BY <1>1, <1>4, <1>5 DEF ErrorTellsTheReply
<1> QED
  BY <1>6, <1>8, <1>9, <1>10 DEF CallInv

(* A step outside any task: the state of the task that ran last stays. *)
LEMMA IdleThreadCallStep ==
  ASSUME WakeAfterSettle, TypeInv, CallInv, CheckStop \/ Sleep
  PROVE  CallInv'
<1>1. /\ ~Running /\ ~Running' /\ ~InHand' /\ pc' \in {"inner", "outer", "exited"}
      /\ pc' = "exited" => thread_stop
      /\ UNCHANGED <<q_task, caller, pushed, task_info, hist, thread_stop, response_data>>
  BY DEF CheckStop, Sleep, Running, InHand, callerVars
<1>2. OneTask' /\ FreshInfo' /\ BoundInfo' /\ ExchangeInHand' /\ ExchangeSettled'
  BY <1>1 DEF CallInv, OneTask, FreshInfo, BoundInfo, ExchangeInHand, ExchangeSettled
<1>3. NotDoneCause'
  BY <1>1 DEF CallInv, NotDoneCause, HangCause, CheckStop, Sleep
<1>4. ExitCause' /\ Window' /\ SuccessIsEarned' /\ ErrorTellsTheReply'
  BY <1>1 DEF CallInv, ExitCause, Window, SuccessIsEarned, ErrorTellsTheReply
<1> QED
  BY <1>2, <1>3, <1>4 DEF CallInv

(* What the steps from the launch of an exchange to its callback leave alone. *)
LEMMA WorkerFrame ==
  ASSUME TypeInv,
         StartExchange \/ LaunchFails \/ Worker \/ CallbackInvalid
  PROVE  /\ UNCHANGED <<q_task, q_exchange, caller, pushed, thread_stop>>
         /\ Running /\ Running' /\ InHand /\ q_exchange # <<>> /\ q_task # <<>>
         /\ task_info'.task = task_info.task
         /\ task_info'.index = task_info.index
         /\ task_info'.num_of_exchanges = task_info.num_of_exchanges
         /\ hist'.need = hist.need /\ hist'.id = hist.id /\ hist'.acked = hist.acked
<1>1. UNCHANGED <<q_task, q_exchange, caller, pushed, thread_stop>>
  BY DEF StartExchange, LaunchFails, Worker, WriteRequest, WriteThrows, ReadReply, ReadThrows,
     CallbackInvalid, callerVars
<1>2. Running /\ Running' /\ InHand
  BY DEF StartExchange, LaunchFails, Worker, WriteRequest, WriteThrows, ReadReply, ReadThrows,
     CallbackInvalid, Running, InHand, AfterWorker
<1>3. /\ task_info'.task = task_info.task
      /\ task_info'.index = task_info.index
      /\ task_info'.num_of_exchanges = task_info.num_of_exchanges
  BY DEF StartExchange, LaunchFails, Worker, WriteRequest, WriteThrows, ReadReply, ReadThrows,
     CallbackInvalid, TypeInv, TypeOK, TaskInfo
<1>4. hist'.need = hist.need /\ hist'.id = hist.id /\ hist'.acked = hist.acked
  BY DEF StartExchange, LaunchFails, Worker, WriteRequest, WriteThrows, ReadReply, ReadThrows,
     CallbackInvalid, TypeInv, TypeOK, History
<1> QED
  BY <1>1, <1>2, <1>3, <1>4, RunningFacts DEF InHand

(* The exchange in hand is launched, sent, answered, or fails on the way. *)
LEMMA WorkerCallStep ==
  ASSUME WakeAfterSettle, TypeInv, CallInv,
         StartExchange \/ LaunchFails \/ Worker \/ CallbackInvalid
  PROVE  CallInv'
<1>1. OneTask' /\ FreshInfo' /\ BoundInfo'
  BY WorkerFrame DEF CallInv, OneTask, FreshInfo, BoundInfo
<1>2. ExitCause'
  BY WorkerFrame DEF CallInv, ExitCause, Running
<1>3. /\ ExchangeInHand /\ Window /\ NotDoneCause /\ ~task_info.done /\ ~error_in_task
      /\ task_info.counter = hist.acked /\ hist.acked = hist.need - Len(q_exchange)
  BY WorkerFrame DEF CallInv, ExchangeInHand
<1>4. hist.acked \in Nat /\ hist.sent \in Nat
  BY RunningFacts
<1>5. CASE StartExchange
  <2>1. /\ pc = "front" /\ pc' = "write" /\ UNCHANGED <<error_in_task, hist>>
        /\ task_info'.length = q_exchange[1].task /\ ~task_info'.done
        /\ task_info'.error_code = task_info.error_code
        /\ task_info'.counter = task_info.counter
    BY <1>3, <1>5, RunningFacts DEF StartExchange, TypeInv, TypeOK, TaskInfo
  <2> QED
    BY <1>1, <1>2, <1>3, <2>1, WorkerFrame
       DEF CallInv, ExchangeInHand, InHand, ExchangeSettled, NotDoneCause, Window,
           SuccessIsEarned, ErrorTellsTheReply
<1>6. CASE LaunchFails
  <2>1. /\ pc' = "settle" /\ UNCHANGED hist /\ AsyncThrows
        /\ ~task_info'.done /\ task_info'.error_code = "system"
    BY <1>3, <1>6 DEF LaunchFails, TypeInv, TypeOK, TaskInfo
  <2> QED
    BY <1>1, <1>2, <1>3, <2>1
       DEF CallInv, ExchangeInHand, InHand, ExchangeSettled, NotDoneCause, HangCause, Window,
           SuccessIsEarned, ErrorTellsTheReply
<1>7. CASE WriteRequest
  <2>1. /\ pc = "write" /\ pc' = "read" /\ UNCHANGED <<task_info, error_in_task>>
        /\ hist'.sent = hist.sent + 1
    BY <1>7 DEF WriteRequest, TypeInv, TypeOK, History
  <2> QED
    BY <1>1, <1>2, <1>3, <1>4, <2>1, WorkerFrame
       DEF CallInv, ExchangeInHand, InHand, ExchangeSettled, NotDoneCause, Window,
           SuccessIsEarned, ErrorTellsTheReply
<1>8. CASE WriteThrows \/ ReadReply \/ ReadThrows
  <2>1. /\ pc \in {"write", "read"} /\ pc' = "callback" /\ UNCHANGED <<error_in_task, hist>>
        /\ ~task_info'.done /\ task_info'.counter = task_info.counter
        /\ task_info'.length = task_info.length
        /\ task_info'.error_code \in {task_info.error_code, "system"}
        /\ task_info'.error_code = "system" =>
              task_info.error_code = "system" \/ response_data' \in {"empty", "corrupt", "refused"}
        /\ pc = "write" => response_data' = "empty"
    BY <1>3, <1>8 DEF WriteThrows, ReadReply, ReadThrows, AfterWorker, TypeInv, TypeOK, TaskInfo
  <2> QED
    BY <1>1, <1>2, <1>3, <2>1, WorkerFrame
       DEF CallInv, ExchangeInHand, InHand, ExchangeSettled, NotDoneCause, Window,
           SuccessIsEarned, ErrorTellsTheReply
<1>9. CASE CallbackInvalid
  <2>1. /\ pc = "callback" /\ pc' = "settle" /\ UNCHANGED <<response_data, hist>>
        /\ task_info'.done
        /\ response_data \in {"empty", "corrupt"}
        /\ task_info'.error_code = IF response_data = "empty" THEN "timeout" ELSE "bad_crc"
    BY <1>9 DEF CallbackInvalid, ChecksumValid, TypeInv, TypeOK, TaskInfo, Reply
  <2> QED
    BY <1>1, <1>2, <1>3, <2>1
       DEF CallInv, ExchangeInHand, InHand, ExchangeSettled, NotDoneCause, Window,
           SuccessIsEarned, ErrorTellsTheReply
<1> QED
  BY <1>5, <1>6, <1>7, <1>8, <1>9 DEF Worker

(* After the callback: the next exchange, or the end of the task. *)
LEMMA SettleCallStep ==
  ASSUME WakeAfterSettle, TypeInv, CallInv, Settle
  PROVE  CallInv'
<1>1. /\ pc = "settle" /\ pc' = "front" /\ Running /\ Running'
      /\ UNCHANGED <<q_task, caller, pushed, task_info, hist, thread_stop, response_data,
                     error_in_task>>
  BY DEF Settle, Running, callerVars
<1>2. OneTask' /\ FreshInfo' /\ BoundInfo' /\ ExchangeSettled' /\ ExitCause' /\ Window'
      /\ SuccessIsEarned' /\ ErrorTellsTheReply'
  BY <1>1 DEF CallInv, OneTask, FreshInfo, BoundInfo, ExchangeSettled, ExitCause, Window,
     SuccessIsEarned, ErrorTellsTheReply
<1>3. CASE task_info.error_code # "no_error"
  <2>1. q_exchange' = <<>>
    BY <1>3 DEF Settle
  <2> QED
    BY <1>1, <1>2, <1>3, <2>1 DEF CallInv, ExchangeInHand, InHand, NotDoneCause, HangCause
<1>4. CASE task_info.error_code = "no_error"
  <2>1. q_exchange # <<>>
    BY <1>1, RunningFacts
  <2>2. /\ Len(q_exchange') = Len(q_exchange) - 1 /\ Len(q_exchange) \in Nat
        /\ q_exchange' \in Seq(Exchange)
    BY <1>4, <2>1, FrontAndRest DEF Settle, TypeInv, TypeOK
  <2>3. q_exchange' = <<>> <=> Len(q_exchange') = 0
    BY <2>2, EmptySeq
  <2>4. /\ ~error_in_task /\ task_info.counter = hist.acked /\ hist.sent = hist.acked
        /\ hist.acked = hist.need - Len(q_exchange')
        /\ task_info.done <=> hist.acked = hist.need
    BY <1>1, <1>4, <2>2, RunningFacts DEF CallInv, ExchangeSettled
  <2>5. q_exchange' = <<>> <=> task_info.done
    BY <2>2, <2>3, <2>4, RunningFacts
  <2>6. ExchangeInHand'
    BY <1>1, <1>4, <2>4, <2>5 DEF ExchangeInHand, InHand
  <2>7. NotDoneCause'
    BY <1>1, <1>2, <2>5 DEF NotDoneCause, OneTask, Running, TypeInv, ExchangesOfFrontTask
  <2> QED
    BY <1>2, <2>6, <2>7 DEF CallInv
<1> QED
  BY <1>3, <1>4

(* The end of a task. *)
LEMMA RetireCallStep ==
  ASSUME WakeAfterSettle, TypeInv, CallInv, Retire
  PROVE  CallInv'
<1>1. /\ pc = "front" /\ pc' = "inner" /\ Running /\ ~Running' /\ ~InHand' /\ q_exchange = <<>>
      /\ UNCHANGED <<caller, pushed, task_info, hist, thread_stop, response_data>>
  BY DEF Retire, Running, InHand, callerVars
<1>2. q_task' = <<>> /\ Len(q_task') = 0
  <2>1. q_task # <<>> /\ Len(q_task) <= 1
    BY <1>1, RunningFacts DEF CallInv, OneTask
  <2>2. Len(q_task') = 0 /\ q_task' \in Seq(Task)
    <3>1. /\ q_task' = Tail(q_task) /\ q_task \in Seq(Task)
          /\ q_task' \in Seq(Task) /\ Len(q_task') = Len(q_task) - 1
          /\ Len(q_task) \in Nat /\ Len(q_task) > 0
      BY <2>1, FrontAndRest DEF Retire, TypeInv, TypeOK
    <3> QED
      BY <2>1, <3>1
  <2> QED
    BY <2>2, EmptySeq
<1>3. NotDoneCause'
  BY <1>1 DEF CallInv, NotDoneCause, HangCause
<1> QED
  BY <1>1, <1>2, <1>3 DEF CallInv, OneTask, FreshInfo, BoundInfo, ExchangeInHand, ExchangeSettled,
     ExitCause, Window, SuccessIsEarned, ErrorTellsTheReply

LEMMA ThreadCallStep ==
  ASSUME WakeAfterSettle, TypeInv, TypeInv', CallInv, Thread
  PROVE  CallInv'
BY RunTaskCallStep, CallbackValidCallStep, IdleThreadCallStep, WorkerCallStep, SettleCallStep,
   RetireCallStep DEF Thread

(* An idle caller and a caller that has just been told have no task queued. *)
LEMMA NothingQueued ==
  ASSUME WakeAfterSettle, TypeInv, CallInv,
         caller.pc # "waiting" \/ Woken
  PROVE  q_task = <<>> /\ ~Running /\ ~InHand /\ q_exchange = <<>>
<1>1. q_task = <<>>
  BY DEF Woken, CallInv, OneTask, FreshInfo, Running
<1>2. ~Running
  BY <1>1, RunningFacts
<1> QED
  BY <1>1, <1>2 DEF TypeInv, ExchangesOfFrontTask, InHand, Running

(* Queueing a task whose task_info is reset accordingly. *)
LEMMA SubmitCallStep ==
  ASSUME WakeAfterSettle, TypeInv, CallInv, q_task = <<>>, ~Running, ~thread_stop, 
         caller.pc \in {"idle", "waiting"},
         NEW info, NEW task, NEW api, NEW dev, NEW stage,
         Submit(info, task, api, dev, stage), UNCHANGED hist,
         \/ info = reset("undefined", 0, server_not_found) /\ task \in FileTask
         \/ info = reset(task, 1, dev)
  PROVE  CallInv'
<1>1. /\ q_task' = <<[id |-> pushed + 1, task |-> task, dev |-> dev]>>
      /\ pushed' = pushed + 1 /\ caller'.pc = "waiting" /\ caller'.dev = dev
      /\ task_info' = info
      /\ UNCHANGED <<q_exchange, pc, error_in_task, response_data, thread_stop, hist>>
  BY DEF Submit, threadVars
<1>2. q_task'[1] = [id |-> pushed + 1, task |-> task, dev |-> dev] /\ q_task' # <<>>
      /\ Len(q_task') = 1
  BY <1>1
<1>3. ~task_info'.done /\ task_info'.error_code = "no_error" /\ task_info'.counter = 0
  BY <1>1 DEF reset
<1>4. task \notin FileTask => task_info'.task = task /\ task_info'.index = dev
                              /\ task_info'.num_of_exchanges = 1
  BY <1>1 DEF reset
<1>5. ~Running' /\ ~InHand' /\ pc' # "settle" /\ pc' # "front"
  BY <1>1, RunningFacts DEF Running, InHand
<1>6. OneTask' /\ FreshInfo' /\ BoundInfo' /\ ExchangeInHand' /\ ExchangeSettled'
  BY <1>1, <1>2, <1>3, <1>4, <1>5 DEF OneTask, FreshInfo, BoundInfo, ExchangeInHand, ExchangeSettled
<1>7. NotDoneCause' /\ ExitCause' /\ Window' /\ SuccessIsEarned' /\ ErrorTellsTheReply'
  BY <1>1, <1>2, <1>3, <1>5
     DEF CallInv, NotDoneCause, ExitCause, Window, SuccessIsEarned, ErrorTellsTheReply
<1> QED
  BY <1>6, <1>7 DEF CallInv

(* A step of the caller that touches no task. *)
LEMMA QuietCallStep ==
  ASSUME WakeAfterSettle, TypeInv, CallInv, q_task = <<>>, ~Running,
         UNCHANGED <<pushed, q_task, threadVars, hist>>,
         caller'.pc # "waiting",
         thread_stop' => caller'.pc \in {"joining", "gone"}, thread_stop => thread_stop',
         UNCHANGED task_info \/ task_info' = reset("undefined", 0, server_not_found)
  PROVE  CallInv'
<1>1. ~Running' /\ ~InHand' /\ q_task' = <<>> /\ Len(q_task') = 0 /\ pc' # "settle" /\ pc' # "front"
      /\ pc' = pc /\ hist' = hist /\ response_data' = response_data /\ pushed' = pushed
  BY RunningFacts DEF Running, InHand, threadVars
<1>2. OneTask' /\ FreshInfo' /\ BoundInfo' /\ ExchangeInHand' /\ ExchangeSettled' /\ NotDoneCause'
  BY <1>1 DEF OneTask, FreshInfo, BoundInfo, ExchangeInHand, ExchangeSettled, NotDoneCause
<1>3. ExitCause' /\ Window'
  BY <1>1 DEF CallInv, ExitCause, Window
<1>4. SuccessIsEarned' /\ ErrorTellsTheReply'
  BY <1>1 DEF CallInv, SuccessIsEarned, ErrorTellsTheReply, reset
<1> QED
  BY <1>2, <1>3, <1>4 DEF CallInv

LEMMA CallerCallStep ==
  ASSUME WakeAfterSettle, TypeInv, CallInv, Call \/ Wake
  PROVE  CallInv'
<1> USE DEF callerVars
<1>1. ExitCause
  BY DEF CallInv
<1>2. caller.pc # "waiting" \/ Woken
  BY DEF Call, Wake, addServer, setServerAsAvailable, setServerRecordMaxSize, setupWrite, start,
     stop, Destroy, Join, taskPing, taskWriteRegister, taskReadRegisters, taskReadFile,
     taskWriteFile, WakeReturn, WakeControl, WakeTransfer, Reject
<1>3. q_task = <<>> /\ ~Running
  BY <1>2, NothingQueued
<1>4. CASE \E a \in Addr : addServer(a) \/ setServerAsAvailable(a) \/ setServerRecordMaxSize(a)
  BY <1>1, <1>3, <1>4, QuietCallStep
     DEF addServer, setServerAsAvailable, setServerRecordMaxSize, ExitCause
<1>5. CASE setupWrite \/ stop \/ \E d \in Device : start(d)
  BY <1>1, <1>3, <1>5, QuietCallStep DEF setupWrite, stop, start, ExitCause
<1>6. CASE Destroy \/ Join
  BY <1>1, <1>3, <1>6, QuietCallStep DEF Destroy, Join, ExitCause, TypeInv, TypeOK, Caller
<1>7. CASE \E api, dev, code : Reject(api, dev, code)
  BY <1>1, <1>3, <1>7, QuietCallStep DEF Reject, Return, ExitCause
<1>8. ASSUME NEW a \in Addr,
             taskPing(a) \/ taskWriteRegister(a) \/ taskReadRegisters(a),
             ~ \E api, dev, code : Reject(api, dev, code)
      PROVE  CallInv'
  <2>1. PICK task \in {"ping", "reg_write", "regs_read"} :
          /\ caller.pc = "idle" /\ UNCHANGED hist
          /\ Submit(reset(task, 1, a), task, task, a, "single")
    BY <1>8 DEF taskPing, taskWriteRegister, taskReadRegisters
  <2> QED
    BY <1>1, <1>3, <2>1, SubmitCallStep DEF ExitCause
<1>9. ASSUME NEW a \in Addr,
             taskReadFile(a) \/ taskWriteFile(a),
             ~ \E api, dev, code : Reject(api, dev, code)
      PROVE  CallInv'
  <2>1. PICK api \in FileTask :
          /\ caller.pc = "idle" /\ UNCHANGED hist
          /\ Submit(reset("reg_write", 1, a), "reg_write", api, a, "counter")
    BY <1>9 DEF taskReadFile, taskWriteFile, FileTask
  <2> QED
    BY <1>1, <1>3, <2>1, SubmitCallStep DEF ExitCause
<1>10. CASE WakeReturn
  BY <1>1, <1>3, <1>10, QuietCallStep DEF WakeReturn, Woken, Return, ExitCause
<1>11. CASE WakeControl
  <2>1. caller.pc = "waiting" /\ UNCHANGED hist
    BY <1>11 DEF WakeControl, Woken
  <2>2. CASE Submit(reset("reg_write", 1, caller.dev), "reg_write", caller.api, caller.dev, "control")
    BY <1>1, <1>3, <2>1, <2>2, SubmitCallStep DEF ExitCause
  <2>3. CASE /\ Return(caller.api, caller.dev, "server_not_connected")
             /\ UNCHANGED <<port, pushed, task_info, q_task, threadVars, thread_stop>>
    BY <1>1, <1>3, <2>1, <2>3, QuietCallStep DEF Return, ExitCause
  <2> QED
    BY <1>11, <2>2, <2>3 DEF WakeControl
<1>12. CASE WakeTransfer
  <2>1. /\ caller.pc = "waiting" /\ UNCHANGED hist /\ caller.api \in FileTask
        /\ Submit(reset("undefined", 0, server_not_found), caller.api, caller.api, caller.dev,
                  "transfer")
    BY <1>12 DEF WakeTransfer, Woken, TypeInv, WaitingCall
  <2> QED
    BY <1>1, <1>3, <2>1, SubmitCallStep DEF ExitCause
<1> QED
  BY <1>4, <1>5, <1>6, <1>7, <1>8, <1>9, <1>10, <1>11, <1>12 DEF Call, Wake

LEMMA CallInvStep == TypeInv /\ CallInv /\ [Next]_vars => CallInv'
<1> SUFFICES ASSUME WakeAfterSettle, TypeInv, CallInv, [Next]_vars PROVE CallInv'
  BY DEF CallInv
<1>1. CASE UNCHANGED vars
  BY <1>1 DEF vars, CallInv, OneTask, FreshInfo, BoundInfo, ExchangeInHand, ExchangeSettled,
     NotDoneCause, HangCause, ExitCause, Window, SuccessIsEarned, ErrorTellsTheReply, Running, InHand
<1>2. CASE Call \/ Wake
  BY <1>2, CallerCallStep
<1>3. CASE Thread
  BY <1>3, ThreadCallStep, TypeInvStep
<1> QED
  BY <1>1, <1>2, <1>3 DEF Next, Terminated

LEMMA CallInvInit == Init => CallInv
BY ConstantsAssumption
   DEF Init, CallInv, OneTask, FreshInfo, BoundInfo, ExchangeInHand, ExchangeSettled, NotDoneCause,
       ExitCause, Window, SuccessIsEarned, ErrorTellsTheReply, Running, InHand, reset

LEMMA Invariance == Spec => [](TypeInv /\ CallInv)
BY TypeInvInit, TypeInvStep, CallInvInit, CallInvStep, PTL DEF Spec

(* No request is sent and no reply is judged for any call but the one that
   waits: the server entry written by exchangeCallback is the caller's own. *)
THEOREM RequestsAreOwned == Spec => []RequestOfTheWaitingCall
<1>1. TypeInv /\ CallInv => RequestOfTheWaitingCall
  BY RunningFacts DEF CallInv, OneTask, BoundInfo, ExchangeInHand, InHand, Running,
     RequestOfTheWaitingCall
<1> QED
  BY <1>1, Invariance, PTL

(* Stop and wait, for a file of any number of records. *)
THEOREM StopsAndWaits == Spec => []StopAndWait
<1>1. TypeInv /\ CallInv => StopAndWait
  BY RunningFacts DEF CallInv, ExchangeInHand, InHand, Running, Window, StopAndWait
<1> QED
  BY <1>1, Invariance, PTL

(* A call that reports success has had every one of its requests answered. *)
THEOREM SuccessIsReal == Spec => []SuccessIsEarned
<1>1. TypeInv /\ CallInv => SuccessIsEarned
  BY DEF CallInv, SuccessIsEarned
<1> QED
  BY <1>1, Invariance, PTL

(* The error code of a finished call is a function of the last reply. *)
THEOREM ErrorsAreTold == Spec => []ErrorTellsTheReply
<1>1. TypeInv /\ CallInv => ErrorTellsTheReply
  BY DEF CallInv, ErrorTellsTheReply
<1> QED
  BY <1>1, Invariance, PTL

(* The list of the causes of a hang is complete. *)
THEOREM HangsAreKnown == Spec => []OnlyKnownHangs
<1>1. TypeInv /\ CallInv => OnlyKnownHangs
  BY DEF CallInv, NotDoneCause, ExitCause, Hung, HangCause, OnlyKnownHangs
<1> QED
  BY <1>1, Invariance, PTL

-----------------------------------------------------------------------------
(* The file buffer during taskReadFile. *)

(* What is queued is what the stage of the API call says. *)
StageTask ==
  q_task # <<>> =>
    q_task[1].task = IF caller.stage \in {"counter", "control"} THEN "reg_write" ELSE caller.api

(* The records loaded are the records answered well, from an empty buffer to a
   complete one. *)
FileProgress ==
  caller.pc = "waiting" /\ caller.api = "file_read" =>
    /\ caller.stage \in {"counter", "control"} \/ (q_task # <<>> /\ ~Running) =>
         file.counter = 0 /\ ~file.ready
    /\ caller.stage = "transfer" =>
         /\ InHand => /\ file.counter = hist.acked
                      /\ file.num_of_records = hist.need
                      /\ ~file.ready
         /\ pc = "settle" /\ task_info.error_code = "no_error" =>
              /\ file.counter = hist.acked
              /\ file.num_of_records = hist.need
              /\ file.ready <=> hist.acked = hist.need
         /\ task_info.done /\ task_info.error_code = "no_error" =>
              file.ready /\ file.counter = file.num_of_records

FileInv == WakeAfterSettle => StageTask /\ FileProgress

(* A reply with a good checksum is loaded once, and no other reply is. *)
LEMMA CallbackValidFileStep ==
  ASSUME WakeAfterSettle, TypeInv, CallInv, FileInv, CallbackValid
  PROVE  FileInv'
<1>1. /\ UNCHANGED <<q_task, q_exchange, caller, pushed, response_data>>
      /\ pc = "callback" /\ pc' = "settle"
      /\ task_info'.error_code = CallbackCode
      /\ task_info'.done = IF task_info.counter + 1 = task_info.num_of_exchanges
                             THEN TRUE ELSE task_info.done
      /\ hist'.need = hist.need
      /\ hist'.acked = IF CallbackCode = "no_error" THEN hist.acked + 1 ELSE hist.acked
  BY DEF CallbackValid, callerVars, TypeInv, TypeOK, TaskInfo, History
<1>2. /\ Running /\ InHand /\ Running' /\ ~InHand'
      /\ caller.pc = "waiting" /\ q_task # <<>> /\ q_exchange # <<>>
  BY <1>1, RunningFacts DEF CallInv, OneTask, Running, InHand
<1>3. /\ task_info.task = q_task[1].task /\ ~task_info.done
      /\ task_info.counter = hist.acked /\ task_info.num_of_exchanges = hist.need
      /\ hist.acked \in Nat /\ hist.need \in Nat
  BY <1>1, <1>2, RunningFacts DEF CallInv, BoundInfo, ExchangeInHand
<1>4. StageTask'
  BY <1>1 DEF FileInv, StageTask
<1>5. ASSUME caller.api = "file_read", caller.stage \notin {"counter", "control"}
      PROVE  /\ task_info.task = "file_read"
             /\ caller.stage = "transfer" =>
                  /\ file.counter = hist.acked /\ ~file.ready
                  /\ file.num_of_records = hist.need
  BY <1>2, <1>3, <1>5 DEF FileInv, StageTask, FileProgress
<1>6. ASSUME caller.api = "file_read", caller.stage = "transfer", CallbackCode = "no_error"
      PROVE  /\ file'.counter = hist.acked + 1
             /\ file'.num_of_records = hist.need
             /\ file'.ready <=> hist.acked + 1 = hist.need
  <2>1. LengthMatches /\ RecordFits /\ task_info.task = "file_read"
    BY <1>5, <1>6 DEF CallbackCode
  <2>2. file' = LoadRecord
    BY <2>1 DEF CallbackValid
  <2>3. /\ file'.counter = file.counter + 1
        /\ file'.num_of_records = file.num_of_records
        /\ file'.ready = IF file.counter + 1 = file.num_of_records THEN TRUE ELSE file.ready
    BY <2>2 DEF LoadRecord, TypeInv, TypeOK, File
  <2> QED
    BY <1>5, <1>6, <2>3
<1>7. ASSUME caller.api = "file_read", caller.stage \in {"counter", "control"}
      PROVE  UNCHANGED file
  BY <1>2, <1>3, <1>7 DEF FileInv, StageTask, CallbackValid
<1>8. FileProgress'
  <2>1. CASE caller.api = "file_read" /\ caller.stage \in {"counter", "control"}
    BY <1>1, <1>2, <1>7, <2>1 DEF FileInv, FileProgress
  <2>2. CASE caller.api = "file_read" /\ caller.stage = "transfer"
    <3>1. CASE CallbackCode = "no_error"
      BY <1>1, <1>2, <1>3, <1>6, <2>2, <3>1 DEF FileProgress
    <3>2. CASE CallbackCode # "no_error"
      BY <1>1, <1>2, <2>2, <3>2 DEF FileProgress
    <3> QED
      BY <3>1, <3>2
  <2> QED
    BY <1>1, <1>2, <2>1, <2>2 DEF FileProgress
<1> QED
  BY <1>4, <1>8 DEF FileInv

(* The other steps of the client thread leave the file alone. *)
LEMMA ThreadFileStep ==
  ASSUME WakeAfterSettle, TypeInv, TypeInv', CallInv, CallInv', FileInv, Thread
  PROVE  FileInv'
<1>1. CASE CallbackValid
  BY <1>1, CallbackValidFileStep
<1>2. CASE RunTask
  <2>1. /\ UNCHANGED <<file, caller, q_task>> /\ ~Running /\ Running' /\ pc' = "front"
        /\ q_task # <<>> /\ Head(q_task) = q_task[1] /\ q_task[1] \in Task
        /\ q_exchange' = ExchangesOf(q_task[1])
        /\ hist'.need = Len(ExchangesOf(q_task[1])) /\ hist'.acked = 0
    BY <1>2, FrontAndRest DEF RunTask, callerVars, Running, TypeInv, TypeOK
  <2>2. ~task_info'.done
    BY <1>2, <2>1 DEF RunTask, CallInv, FreshInfo, reset
  <2>3. /\ caller.pc = "waiting"
        /\ caller.api = "file_read" => file.counter = 0 /\ ~file.ready
    BY <2>1 DEF CallInv, OneTask, FileInv, FileProgress
  <2>4. caller.api = "file_read" /\ caller.stage = "transfer" => q_task[1].task = "file_read"
    BY <2>1 DEF FileInv, StageTask
  <2>5. caller.api = "file_read" /\ caller.stage = "transfer" => hist'.need = file.num_of_records
    BY <2>1, <2>4, ExchangesOfType DEF TypeInv, FileTask
  <2> QED
    BY <2>1, <2>2, <2>3, <2>5 DEF FileInv, StageTask, FileProgress
<1>3. CASE CheckStop \/ Sleep
  <2>1. ~Running /\ ~Running' /\ ~InHand' /\ pc' # "settle"
        /\ UNCHANGED <<file, caller, q_task, task_info>>
    BY <1>3 DEF CheckStop, Sleep, callerVars, Running, InHand
  <2> QED
    BY <2>1 DEF FileInv, StageTask, FileProgress
<1>4. CASE StartExchange \/ LaunchFails \/ Worker \/ CallbackInvalid
  <2>1. UNCHANGED file
    BY <1>4 DEF StartExchange, LaunchFails, Worker, WriteRequest, WriteThrows, ReadReply,
       ReadThrows, CallbackInvalid
  <2>2. /\ UNCHANGED <<q_task, caller>> /\ Running' /\ InHand
        /\ hist'.need = hist.need /\ hist'.acked = hist.acked
    BY <1>4, WorkerFrame
  <2>3. pc' = "settle" => task_info'.error_code # "no_error"
    BY <1>4 DEF StartExchange, LaunchFails, Worker, WriteRequest, WriteThrows, ReadReply,
       ReadThrows, CallbackInvalid, CallInv, ExchangeInHand, InHand, AfterWorker,
       TypeInv, TypeOK, TaskInfo
  <2>4. task_info'.done => task_info'.error_code # "no_error"
    <3>1. CASE InHand'
      BY <3>1 DEF CallInv, ExchangeInHand
    <3>2. CASE ~InHand'
      <4>1. pc' = "settle"
        BY <1>4, <3>2 DEF StartExchange, LaunchFails, Worker, WriteRequest, WriteThrows,
           ReadReply, ReadThrows, CallbackInvalid, InHand, AfterWorker
      <4> QED
        BY <2>3, <4>1
    <3> QED
      BY <3>1, <3>2
  <2> QED
    BY <2>1, <2>2, <2>3, <2>4 DEF FileInv, StageTask, FileProgress
<1>5. CASE Settle
  <2>1. /\ UNCHANGED <<file, caller, q_task, task_info, hist>>
        /\ pc = "settle" /\ pc' = "front" /\ Running /\ Running'
    BY <1>5 DEF Settle, callerVars, Running
  <2>2. InHand' => ~task_info'.done /\ task_info'.error_code = "no_error"
    BY <2>1 DEF CallInv, ExchangeInHand
  <2>3. task_info.error_code = "no_error" => (task_info.done <=> hist.acked = hist.need)
    BY <2>1 DEF CallInv, ExchangeSettled
  <2> QED
    BY <2>1, <2>2, <2>3 DEF FileInv, StageTask, FileProgress
<1>6. CASE Retire
  <2>1. /\ UNCHANGED <<file, caller, task_info>>
        /\ ~InHand' /\ pc' = "inner"
    BY <1>6 DEF Retire, callerVars, InHand
  <2>2. q_task' = <<>>
    <3>1. /\ q_task # <<>> /\ Len(q_task) <= 1
      BY <1>6, RunningFacts DEF Retire, CallInv, OneTask, Running
    <3>2. /\ q_task \in Seq(Task) /\ q_task' \in Seq(Task) /\ Len(q_task') = Len(q_task) - 1
          /\ Len(q_task) \in Nat /\ Len(q_task) > 0
      BY <1>6, <3>1, FrontAndRest DEF Retire, TypeInv, TypeOK
    <3> QED
      BY <3>1, <3>2, EmptySeq
  <2> QED
    BY <2>1, <2>2 DEF FileInv, StageTask, FileProgress
<1> QED
  BY <1>1, <1>2, <1>3, <1>4, <1>5, <1>6 DEF Thread

(* taskReadFile empties the buffer; no other call touches it while it waits. *)
LEMMA CallerFileStep ==
  ASSUME WakeAfterSettle, TypeInv, CallInv, FileInv, Call \/ Wake
  PROVE  FileInv'
<1> USE DEF callerVars, threadVars
<1>1. caller.pc # "waiting" \/ Woken
  BY DEF Call, Wake, addServer, setServerAsAvailable, setServerRecordMaxSize, setupWrite, start,
     stop, Destroy, Join, taskPing, taskWriteRegister, taskReadRegisters, taskReadFile,
     taskWriteFile, WakeReturn, WakeControl, WakeTransfer, Reject
<1>2. q_task = <<>> /\ ~Running /\ ~InHand /\ UNCHANGED <<pc, q_exchange>>
  BY <1>1, NothingQueued, CallerKeepsFront DEF TypeInv
<1>3. ~Running' /\ ~InHand' /\ pc' # "settle"
  BY <1>2 DEF Running, InHand
<1>4. CASE caller'.pc # "waiting" /\ UNCHANGED q_task
  BY <1>2, <1>4 DEF FileInv, StageTask, FileProgress
<1>5. ASSUME NEW info, NEW task, NEW api \in ClientTasks, NEW dev, NEW stage,
             Submit(info, task, api, dev, stage), ~info.done,
             task = IF stage \in {"counter", "control"} THEN "reg_write" ELSE api,
             api = "file_read" => file'.counter = 0 /\ ~file'.ready
      PROVE  FileInv'
  <2>1. /\ q_task' = <<[id |-> pushed + 1, task |-> task, dev |-> dev]>>
        /\ caller'.api = api /\ caller'.stage = stage /\ ~task_info'.done
    BY <1>2, <1>5 DEF Submit
  <2>2. q_task'[1].task = task
    BY <2>1
  <2> QED
    BY <1>3, <1>5, <2>1, <2>2 DEF FileInv, StageTask, FileProgress
<1>6. CASE \/ \E a \in Addr : addServer(a) \/ setServerAsAvailable(a) \/ setServerRecordMaxSize(a)
           \/ \E d \in Device : start(d)
           \/ setupWrite \/ stop \/ Destroy \/ Join \/ WakeReturn
           \/ \E api, dev, code : Reject(api, dev, code)
  BY <1>4, <1>6 DEF addServer, setServerAsAvailable, setServerRecordMaxSize, setupWrite, start, stop,
     Destroy, Join, WakeReturn, Reject, Return, TypeInv, TypeOK, Caller
<1>7. ASSUME NEW a \in Addr,
             taskPing(a) \/ taskWriteRegister(a) \/ taskReadRegisters(a),
             ~ \E api, dev, code : Reject(api, dev, code)
      PROVE  FileInv'
  <2>1. PICK task \in {"ping", "reg_write", "regs_read"} :
          Submit(reset(task, 1, a), task, task, a, "single")
    BY <1>7 DEF taskPing, taskWriteRegister, taskReadRegisters
  <2>2. ~reset(task, 1, a).done
    BY DEF reset
  <2> QED
    BY <1>5, <2>1, <2>2 DEF ClientTasks
<1>8. ASSUME NEW a \in Addr,
             taskReadFile(a) \/ taskWriteFile(a),
             ~ \E api, dev, code : Reject(api, dev, code)
      PROVE  FileInv'
  <2>1. PICK api \in FileTask :
          /\ Submit(reset("reg_write", 1, a), "reg_write", api, a, "counter")
          /\ api = "file_read" => file'.counter = 0 /\ ~file'.ready
    BY <1>8 DEF taskReadFile, taskWriteFile, FileTask
  <2>2. ~reset("reg_write", 1, a).done
    BY DEF reset
  <2> QED
    BY <1>5, <2>1, <2>2 DEF ClientTasks
<1>9. CASE WakeControl \/ WakeTransfer
  <2>1. /\ caller.pc = "waiting" /\ caller.stage \in {"counter", "control"} /\ UNCHANGED file
        /\ caller.api \in FileTask
        /\ caller.api = "file_read" => file.counter = 0 /\ ~file.ready
    BY <1>9 DEF WakeControl, WakeTransfer, Woken, TypeInv, WaitingCall, FileInv, FileProgress
  <2>2. CASE Submit(reset("reg_write", 1, caller.dev), "reg_write", caller.api, caller.dev, "control")
    BY <1>5, <2>1, <2>2 DEF reset, ClientTasks, FileTask
  <2>3. CASE Submit(reset("undefined", 0, server_not_found), caller.api, caller.api, caller.dev,
                    "transfer")
    BY <1>5, <2>1, <2>3 DEF reset, ClientTasks, FileTask
  <2>4. CASE Return(caller.api, caller.dev, "server_not_connected") /\ UNCHANGED q_task
    BY <1>4, <2>4 DEF Return
  <2> QED
    BY <1>9, <2>2, <2>3, <2>4 DEF WakeControl, WakeTransfer
<1> QED
  BY <1>6, <1>7, <1>8, <1>9 DEF Call, Wake

LEMMA FileInvStep == TypeInv /\ CallInv /\ FileInv /\ [Next]_vars => FileInv'
<1> SUFFICES ASSUME WakeAfterSettle, TypeInv, CallInv, FileInv, [Next]_vars PROVE FileInv'
  BY DEF FileInv
<1>1. CASE UNCHANGED vars
  BY <1>1 DEF vars, FileInv, StageTask, FileProgress, Running, InHand
<1>2. CASE Call \/ Wake
  BY <1>2, CallerFileStep
<1>3. CASE Thread
  BY <1>3, ThreadFileStep, TypeInvStep, CallInvStep
<1> QED
  BY <1>1, <1>2, <1>3 DEF Next, Terminated

LEMMA FileInvariance == Spec => [](TypeInv /\ CallInv /\ FileInv)
<1>1. Init => FileInv
  BY DEF Init, FileInv, StageTask, FileProgress
<1> QED
  BY <1>1, TypeInvInit, TypeInvStep, CallInvInit, CallInvStep, FileInvStep, PTL DEF Spec

(* Each record of a file is loaded at its own place. *)
THEOREM RecordsAreInPlace == Spec => []RecordInPlace
<1>1. TypeInv /\ CallInv /\ FileInv => RecordInPlace
  <2> SUFFICES ASSUME TypeInv, CallInv, FileInv, WakeAfterSettle, pc = "callback",
                      task_info.task = "file_read"
               PROVE  q_exchange[1].record = file.counter /\ ~file.ready
    BY DEF RecordInPlace
  <2>1. Running /\ InHand /\ q_task # <<>> /\ q_exchange # <<>>
    BY RunningFacts DEF Running, InHand
  <2>2. caller.pc = "waiting" /\ q_task[1].task = "file_read"
    BY <2>1 DEF CallInv, OneTask, BoundInfo
  <2>3. caller.api = "file_read" /\ caller.stage \notin {"counter", "control"}
    BY <2>1, <2>2 DEF FileInv, StageTask
  <2>4. q_exchange[1].record = hist.acked
    BY <2>1, RunningFacts DEF CallInv, ExchangeInHand
  <2> QED
    BY <2>1, <2>2, <2>3, <2>4 DEF FileInv, FileProgress, TypeInv, WaitingCall, FileTask
<1> QED
  BY <1>1, FileInvariance, PTL

(* taskReadFile never returns success with a planned record not loaded and
   counted, or the file not ready. *)
THEOREM ReadFilesAreCounted == Spec => ReadFileIsCounted
<1>1. TypeInv /\ CallInv /\ FileInv /\ [Next]_vars =>
        [WakeAfterSettle /\ WakeReturn /\ caller.stage = "transfer" /\ caller.api = "file_read"
           /\ caller'.code = "no_error" =>
         file.ready /\ file.counter = file.num_of_records]_vars
  BY ConstantsAssumption DEF ReadFileIsCounted, FileInv, FileProgress, WakeReturn, Woken, Return
<1> QED
  BY <1>1, FileInvariance, PTL DEF ReadFileIsCounted, Spec

(* Only a ping answered by that very server, or the application itself, makes
   a server available. *)
THEOREM OnlyPingMakesAvailable == ASSUME WakeAfterSettle PROVE Spec => AvailableOnlyByPing
<1>1. ASSUME TypeInv, CallInv, [Next]_vars, NEW a \in Addr,
             servers[a].status # "available", servers'[a].status = "available"
      PROVE  setServerAsAvailable(a)
             \/ (pc = "callback" /\ q_exchange[1].task = "ping" /\ q_exchange[1].dev = a)
  <2>1. servers \in [Addr -> ServerInfo]
    BY <1>1 DEF TypeInv, TypeOK
  <2>2. servers' # servers
    BY <1>1
  <2>3. CASE CallbackValid
    <3>1. /\ pc = "callback" /\ q_task # <<>> /\ q_exchange # <<>>
          /\ task_info.task = q_exchange[1].task /\ task_info.index = q_exchange[1].dev
      BY <1>1, <2>3, RunningFacts DEF CallbackValid, CallInv, BoundInfo, Running
    <3>2. CASE task_info.task = "ping"
      <4>1. servers' = [servers EXCEPT ![task_info.index].status = "available"]
        BY <2>2, <2>3, <3>2 DEF CallbackValid, ServersAfterReply
      <4> QED
        BY <1>1, <2>1, <3>1, <3>2, <4>1 DEF ServerInfo
    <3>3. CASE task_info.task # "ping"
      <4>1. PICK b \in BOOLEAN : servers' = [servers EXCEPT ![task_info.index].sized = b]
        BY <2>2, <2>3, <3>3 DEF CallbackValid, ServersAfterReply
      <4> QED
        BY <1>1, <2>1, <4>1 DEF ServerInfo
    <3> QED
      BY <3>2, <3>3
  <2>4. CASE CallbackInvalid
    BY <1>1, <2>1, <2>4 DEF CallbackInvalid, ServerInfo
  <2>5. CASE Thread /\ ~CallbackValid /\ ~CallbackInvalid
    BY <2>2, <2>5 DEF Thread, Worker, CheckStop, Sleep, RunTask, StartExchange, LaunchFails,
       WriteRequest, WriteThrows, ReadReply, ReadThrows, Settle, Retire
  <2>6. CASE \E b \in Addr : addServer(b)
    BY <1>1, <2>1, <2>6 DEF addServer, ServerInfo
  <2>7. CASE \E b \in Addr : setServerAsAvailable(b)
    BY <1>1, <2>1, <2>7 DEF setServerAsAvailable, ServerInfo
  <2>8. CASE \E b \in Addr : setServerRecordMaxSize(b)
    BY <1>1, <2>1, <2>8 DEF setServerRecordMaxSize, ServerInfo
  <2>9. CASE \E b \in Addr : taskReadRegisters(b)
    BY <1>1, <2>1, <2>9 DEF taskReadRegisters, Reject, ServerInfo
  <2>10. CASE \/ \E b \in Addr : taskPing(b) \/ taskWriteRegister(b) \/ taskReadFile(b) \/ taskWriteFile(b)
              \/ \E d \in Device : start(d)
              \/ setupWrite \/ stop \/ Destroy \/ Wake
    BY <2>2, <2>10 DEF taskPing, taskWriteRegister, taskReadFile, taskWriteFile, Reject, start,
       setupWrite, stop, Destroy, Wake, WakeReturn, WakeControl, WakeTransfer, Join
  <2> QED
    BY <1>1, <2>2, <2>3, <2>4, <2>5, <2>6, <2>7, <2>8, <2>9, <2>10 DEF Next, Call, Terminated, vars
<1>2. TypeInv /\ CallInv /\ [Next]_vars =>
        [\A a \in Addr :
           servers[a].status # "available" /\ servers'[a].status = "available" =>
             \/ setServerAsAvailable(a)
             \/ pc = "callback" /\ q_exchange[1].task = "ping" /\ q_exchange[1].dev = a]_vars
  BY <1>1
<1> QED
  BY <1>2, Invariance, PTL DEF AvailableOnlyByPing, Spec
=============================================================================
