---------------------------- MODULE ModbusClient ----------------------------
(***************************************************************************)
(* sm::ModbusClient (core/client/src/client.cpp): the application thread   *)
(* that calls the API, the client thread that runs the queued tasks, and   *)
(* the std::async worker that does one request/reply on the serial port.   *)
(*                                                                         *)
(* The application thread submits a task (task_info.reset + q_task.push)   *)
(* and polls task_info.done every 50 ms.  The client thread turns the task *)
(* at the front of q_task into exchanges, runs them one at a time and      *)
(* calls exchangeCallback after each.  Nothing but `done' synchronises the *)
(* two: error_code, the queues and `servers' are plain shared memory.      *)
(*                                                                         *)
(* A reply is one of the five cases exchangeCallback tells apart: no bytes,*)
(* a bad checksum, a good one on a frame of another length (an exception), *)
(* the expected length with a content that does not fit, and a good reply. *)
(* A record size is only zero or not.  hist is a history variable: what    *)
(* was really done for the task that ran last.                             *)
(***************************************************************************)
EXTENDS Naturals, Sequences

CONSTANTS
  Addr,              \* server addresses on the bus
  server_not_found,  \* the index -1
  Device,            \* serial port paths
  Closed,            \* the state of a port that is not open
  MaxTasks,          \* bound: tasks pushed to q_task in a behaviour
  MaxRecords,        \* bound: records of one file
  EarlyThread,       \* the thread may start before thread_stop is constructed
  AsyncThrows,       \* std::async may throw std::system_error
  WakeAfterSettle    \* timing: no poll of `done' falls between done.store and q_task.pop

ASSUME ConstantsAssumption ==
  /\ server_not_found \notin Addr
  /\ Closed \notin Device
  /\ MaxTasks \in Nat \ {0}
  /\ MaxRecords \in Nat \ {0}
  /\ EarlyThread \in BOOLEAN
  /\ AsyncThrows \in BOOLEAN
  /\ WakeAfterSettle \in BOOLEAN

VARIABLES
  servers,        \* Addr -> what the client knows of each server
  file,           \* the File buffer shared by taskReadFile and taskWriteFile
  port,           \* the open device, or Closed
  caller,         \* the application thread: pc, running API call, its result
  pushed,         \* number of tasks pushed so far; the last one has this id
  task_info,      \* TaskInfo
  q_task,         \* queue of tasks, pushed by the caller, popped by the thread
  q_exchange,     \* queue of exchanges of the task at the front of q_task
  response_data,  \* the reply to the current exchange, as exchangeCallback sees it
  pc,             \* where clientThread (or the worker it waits for) is
  error_in_task,  \* local of clientThread
  thread_stop,    \* set by the destructor
  hist            \* history: the task run last, its exchanges planned, sent, answered well

vars == <<servers, file, port, caller, pushed, task_info, q_task, q_exchange,
          response_data, pc, error_in_task, thread_stop, hist>>

callerVars == <<port, caller, pushed, thread_stop>>
threadVars == <<q_exchange, response_data, pc, error_in_task>>

-----------------------------------------------------------------------------
(* Types. *)

FileTask    == {"file_read", "file_write"}
ClientTasks == {"regs_read", "reg_write", "ping"} \cup FileTask
Reply       == {"empty", "corrupt", "refused", "misfit", "full"}
ClientErrors ==
  {"no_error", "bad_crc", "timeout", "server_exception", "server_not_connected",
   "file_buffer_is_empty", "max_record_length_not_configured", "internal", "system"}
Stage       == {"none", "single", "counter", "control", "transfer"}
Task        == [id : Nat, task : ClientTasks, dev : Addr]
Exchange    == [id : Nat, task : ClientTasks, dev : Addr, record : Nat]

ServerInfo  == [status : {"absent", "unavailable", "available"},
                sized  : BOOLEAN,     \* record_size # 0
                first  : BOOLEAN]     \* reg_start_address <= the record_size register
File        == [num_of_records : Nat, counter : Nat, ready : BOOLEAN]
TaskInfo    == [task : ClientTasks \cup {"undefined"}, length : ClientTasks \cup {"zero"},
                error_code : ClientErrors, num_of_exchanges : Nat, counter : Nat,
                index : Addr \cup {server_not_found}, done : BOOLEAN]
Caller      == [pc : {"idle", "waiting", "joining", "gone"},
                api : ClientTasks \cup {"none"}, dev : Addr \cup {server_not_found},
                stage : Stage, code : ClientErrors]
History     == [id : Nat, need : Nat, sent : Nat, acked : Nat]

-----------------------------------------------------------------------------
(* Mutant: the two adjacent int parameters in the wrong order. *)
resetSwapped(task, n, index) ==
  [task |-> task, length |-> "zero", error_code |-> "no_error",
   num_of_exchanges |-> index, counter |-> 0, index |-> n, done |-> FALSE]

(* TaskInfo::reset; attributes.length is named by the request it fits. *)
reset(task, n, index) ==
  [task |-> task, length |-> "zero", error_code |-> "no_error",
   num_of_exchanges |-> n, counter |-> 0, index |-> index, done |-> FALSE]

Init ==
  /\ servers = [a \in Addr |-> [status |-> "absent", sized |-> FALSE, first |-> FALSE]]
  /\ file = [num_of_records |-> 0, counter |-> 0, ready |-> FALSE]
  /\ port = Closed
  /\ caller = [pc |-> "idle", api |-> "none", dev |-> server_not_found,
               stage |-> "none", code |-> "no_error"]
  /\ pushed = 0
  /\ task_info = reset("undefined", 0, server_not_found)
  /\ q_task = <<>>
  /\ q_exchange = <<>>
  /\ response_data = "empty"
  \* client_thread is declared before thread_stop: the thread may read the flag
  \* before its initialiser has run, find it set, and end at once.
  /\ pc \in {"outer"} \cup (IF EarlyThread THEN {"exited"} ELSE {})
  /\ error_in_task = FALSE
  /\ thread_stop = FALSE
  /\ hist = [id |-> 0, need |-> 0, sent |-> 0, acked |-> 0]

-----------------------------------------------------------------------------
(* The application thread. *)

Known(a)     == servers[a].status # "absent"
Available(a) == servers[a].status = "available"

Return(api, dev, code) ==
  caller' = [pc |-> "idle", api |-> api, dev |-> dev, stage |-> "none", code |-> code]

(* Bound: a call starts only if all the tasks it may push are within MaxTasks. *)
Budget(n) == pushed + n <= MaxTasks

(* An API call that ends before it queues anything. *)
Reject(api, dev, code) ==
  /\ caller.pc = "idle"
  /\ Return(api, dev, code)
  /\ UNCHANGED <<servers, file, port, pushed, task_info, q_task, threadVars, thread_stop, hist>>

(* task_info.reset(...); q_task.push(...); then the loop on task_info.done. *)
Submit(info, task, api, dev, stage) ==
  /\ pushed' = pushed + 1
  /\ task_info' = info
  /\ q_task' = Append(q_task, [id |-> pushed + 1, task |-> task, dev |-> dev])
  /\ caller' = [pc |-> "waiting", api |-> api, dev |-> dev, stage |-> stage,
                code |-> "no_error"]
  /\ UNCHANGED <<port, threadVars, thread_stop>>

(* Mutant: a new server starts as available. *)
addServerAvailable(a) ==
  /\ caller.pc = "idle"
  /\ ~Known(a)
  /\ servers' = [servers EXCEPT ![a].status = "available"]
  /\ UNCHANGED <<file, callerVars, task_info, q_task, threadVars, hist>>

addServer(a) ==
  /\ caller.pc = "idle"
  /\ ~Known(a)
  /\ servers' = [servers EXCEPT ![a].status = "unavailable"]
  /\ UNCHANGED <<file, callerVars, task_info, q_task, threadVars, hist>>

setServerAsAvailable(a) ==
  /\ caller.pc = "idle"
  /\ Known(a)
  /\ servers' = [servers EXCEPT ![a].status = "available"]
  /\ UNCHANGED <<file, callerVars, task_info, q_task, threadVars, hist>>

setServerRecordMaxSize(a) ==
  /\ caller.pc = "idle"
  /\ Known(a)
  /\ \E nonzero \in BOOLEAN : servers' = [servers EXCEPT ![a].sized = nonzero]
  /\ UNCHANGED <<file, callerVars, task_info, q_task, threadVars, hist>>

(* File::setupWriteFromMemory / setupWriteFromDrive, called on client.file:
   the buffer is flushed first; an empty or unreadable source leaves it unready. *)
setupWrite ==
  /\ caller.pc = "idle"
  /\ \E n \in 0 .. MaxRecords, ok \in BOOLEAN :
       /\ ok => n > 0
       /\ file' = [num_of_records |-> n, counter |-> 0, ready |-> ok]
  /\ UNCHANGED <<servers, callerVars, task_info, q_task, threadVars, hist>>

(* Opening can fail; an open port of another path is closed first. *)
start(d) ==
  /\ caller.pc = "idle"
  /\ port' \in IF port = d THEN {d} ELSE {d, Closed}
  /\ UNCHANGED <<servers, file, caller, pushed, task_info, q_task, threadVars, thread_stop, hist>>

stop ==
  /\ caller.pc = "idle"
  /\ port' = Closed
  /\ task_info' = reset("undefined", 0, server_not_found)
  /\ UNCHANGED <<servers, file, caller, pushed, q_task, threadVars, thread_stop, hist>>

taskPing(a) ==
  \/ /\ ~Known(a)
     /\ Reject("ping", a, "server_not_connected")
  \/ /\ Known(a)
     /\ caller.pc = "idle" /\ Budget(1)
     /\ Submit(reset("ping", 1, a), "ping", "ping", a, "single")
     /\ UNCHANGED <<servers, file, hist>>

taskWriteRegister(a) ==
  \/ /\ ~Available(a)
     /\ Reject("reg_write", a, "server_not_connected")
  \/ /\ Available(a)
     /\ caller.pc = "idle" /\ Budget(1)
     /\ Submit(reset("reg_write", 1, a), "reg_write", "reg_write", a, "single")
     /\ UNCHANGED <<servers, file, hist>>

taskReadRegisters(a) ==
  \/ /\ ~Available(a)
     /\ Reject("regs_read", a, "server_not_connected")
  \/ /\ Available(a)
     /\ caller.pc = "idle" /\ Budget(1)
     /\ \E first \in BOOLEAN : servers' = [servers EXCEPT ![a].first = first]
     /\ Submit(reset("regs_read", 1, a), "regs_read", "regs_read", a, "single")
     /\ UNCHANGED <<file, hist>>

(* taskReadFile up to the wait inside its first taskWriteRegister.  setupRead
   gives 0 records for an empty file and for one of too many records. *)
taskReadFile(a) ==
  \/ /\ ~Available(a)
     /\ Reject("file_read", a, "server_not_connected")
  \/ /\ Available(a)
     /\ ~servers[a].sized
     /\ Reject("file_read", a, "max_record_length_not_configured")
  \/ /\ Available(a)
     /\ servers[a].sized
     /\ caller.pc = "idle" /\ Budget(3)
     /\ \E n \in 0 .. MaxRecords :
          file' = [num_of_records |-> n, counter |-> 0, ready |-> FALSE]
     /\ Submit(reset("reg_write", 1, a), "reg_write", "file_read", a, "counter")
     /\ UNCHANGED <<servers, hist>>

taskWriteFile(a) ==
  \/ /\ ~Available(a)
     /\ Reject("file_write", a, "server_not_connected")
  \/ /\ Available(a)
     /\ ~file.ready
     /\ Reject("file_write", a, "file_buffer_is_empty")
  \/ /\ Available(a)
     /\ file.ready
     /\ ~servers[a].sized
     /\ Reject("file_write", a, "max_record_length_not_configured")
  \/ /\ Available(a)
     /\ file.ready
     /\ servers[a].sized
     /\ caller.pc = "idle" /\ Budget(3)
     /\ Submit(reset("reg_write", 1, a), "reg_write", "file_write", a, "counter")
     /\ UNCHANGED <<servers, file, hist>>

(* One poll of task_info.done that succeeds, and the read of error_code. *)
Woken ==
  /\ caller.pc = "waiting"
  /\ task_info.done
  /\ WakeAfterSettle => pc \in {"outer", "inner"}

(* The wait is over and so is the API call. *)
WakeReturn ==
  /\ Woken
  /\ task_info.error_code # "no_error" \/ caller.stage \in {"single", "transfer"}
  /\ Return(caller.api, caller.dev, task_info.error_code)
  /\ UNCHANGED <<servers, file, port, pushed, task_info, q_task, threadVars, thread_stop, hist>>

(* record_counter is written: write the control register next, through
   taskWriteRegister and its own check of the status. *)
WakeControl ==
  /\ Woken
  /\ task_info.error_code = "no_error"
  /\ caller.stage = "counter"
  /\ \/ /\ Available(caller.dev)
        /\ Submit(reset("reg_write", 1, caller.dev), "reg_write", caller.api,
                  caller.dev, "control")
     \/ /\ ~Available(caller.dev)
        /\ Return(caller.api, caller.dev, "server_not_connected")
        /\ UNCHANGED <<port, pushed, task_info, q_task, threadVars, thread_stop>>
  /\ UNCHANGED <<servers, file, hist>>

(* The server is prepared: task_info.reset(), then queue the transfer. *)
WakeTransfer ==
  /\ Woken
  /\ task_info.error_code = "no_error"
  /\ caller.stage = "control"
  /\ Submit(reset("undefined", 0, server_not_found), caller.api, caller.api,
            caller.dev, "transfer")
  /\ UNCHANGED <<servers, file, hist>>

(* ~ModbusClient: raise thread_stop, then join. *)
Destroy ==
  /\ caller.pc = "idle"
  /\ thread_stop' = TRUE
  /\ caller' = [caller EXCEPT !.pc = "joining"]
  /\ UNCHANGED <<servers, file, port, pushed, task_info, q_task, threadVars, hist>>

Join ==
  /\ caller.pc = "joining"
  /\ pc = "exited"
  /\ caller' = [caller EXCEPT !.pc = "gone"]
  /\ UNCHANGED <<servers, file, port, pushed, task_info, q_task, threadVars, thread_stop, hist>>

-----------------------------------------------------------------------------
(* The client thread. *)

(* Mutant: the thread never looks at thread_stop. *)
CheckStopNever ==
  /\ pc = "outer"
  /\ pc' = "inner"
  /\ UNCHANGED <<servers, file, callerVars, task_info, q_task, q_exchange, response_data,
                 error_in_task, hist>>

CheckStop ==
  /\ pc = "outer"
  /\ pc' = IF thread_stop THEN "exited" ELSE "inner"
  /\ UNCHANGED <<servers, file, callerVars, task_info, q_task, q_exchange, response_data,
                 error_in_task, hist>>

Sleep ==
  /\ pc = "inner"
  /\ q_task = <<>>
  /\ pc' = "outer"
  /\ UNCHANGED <<servers, file, callerVars, task_info, q_task, q_exchange, response_data,
                 error_in_task, hist>>

(* Mutant: the records of a file are numbered from 1. *)
ExchangesFromOne(t) ==
  [i \in 1 .. (IF t.task \in FileTask THEN file.num_of_records ELSE 1) |->
     [id |-> t.id, task |-> t.task, dev |-> t.dev, record |-> i]]

(* The exchanges a task's closure pushes: one, or one per record of the file. *)
ExchangesOf(t) ==
  [i \in 1 .. (IF t.task \in FileTask THEN file.num_of_records ELSE 1) |->
     [id |-> t.id, task |-> t.task, dev |-> t.dev, record |-> i - 1]]

(* q_task.front()(): a file task's closure resets task_info once more. *)
RunTask ==
  /\ pc = "inner"
  /\ q_task # <<>>
  /\ LET t == Head(q_task) IN
       /\ q_exchange' = ExchangesOf(t)
       /\ task_info' = IF t.task \in FileTask
                         THEN reset(t.task, file.num_of_records, t.dev)
                         ELSE task_info
       /\ hist' = [id |-> t.id, need |-> Len(ExchangesOf(t)), sent |-> 0, acked |-> 0]
  /\ error_in_task' = FALSE
  /\ pc' = "front"
  /\ UNCHANGED <<servers, file, callerVars, q_task, response_data>>

(* q_exchange.front()(): compose the request, set the attributes, launch. *)
StartExchange ==
  /\ pc = "front"
  /\ q_exchange # <<>>
  /\ task_info' = [task_info EXCEPT !.length = Head(q_exchange).task]
  /\ pc' = "write"
  /\ UNCHANGED <<servers, file, callerVars, q_task, q_exchange, response_data,
                 error_in_task, hist>>

(* std::async throws: the catch block of clientThread, no callback. *)
LaunchFails ==
  /\ AsyncThrows
  /\ pc = "front"
  /\ q_exchange # <<>>
  /\ task_info' = [task_info EXCEPT !.length = Head(q_exchange).task,
                                    !.error_code = "system"]
  /\ error_in_task' = TRUE
  /\ pc' = "settle"
  /\ UNCHANGED <<servers, file, callerVars, q_task, q_exchange, response_data, hist>>

AfterWorker == IF error_in_task THEN "settle" ELSE "callback"

(* callServerExchange: response_data.clear(), then writeBinary. *)
WriteRequest ==
  /\ pc = "write"
  /\ port # Closed
  /\ response_data' = "empty"
  /\ hist' = [hist EXCEPT !.sent = @ + 1]
  /\ pc' = "read"
  /\ UNCHANGED <<servers, file, callerVars, task_info, q_task, q_exchange, error_in_task>>

(* Mutant: response_data is not cleared before the request is written. *)
WriteThrowsStale ==
  /\ pc = "write"
  /\ task_info' = [task_info EXCEPT !.error_code = "system"]
  /\ pc' = AfterWorker
  /\ UNCHANGED <<servers, file, callerVars, q_task, q_exchange, response_data,
                 error_in_task, hist>>

WriteThrows ==
  /\ pc = "write"
  /\ response_data' = "empty"
  /\ task_info' = [task_info EXCEPT !.error_code = "system"]
  /\ pc' = AfterWorker
  /\ UNCHANGED <<servers, file, callerVars, q_task, q_exchange, error_in_task, hist>>

(* readBinary waits for attributes.length bytes or for the port's timeout. *)
ReadReply ==
  /\ pc = "read"
  /\ response_data' \in IF task_info.length = "zero" THEN {"empty"} ELSE Reply
  /\ pc' = AfterWorker
  /\ UNCHANGED <<servers, file, callerVars, task_info, q_task, q_exchange, error_in_task, hist>>

ReadThrows ==
  /\ pc = "read"
  /\ response_data' \in {"empty", "corrupt", "refused"}
  /\ task_info' = [task_info EXCEPT !.error_code = "system"]
  /\ pc' = AfterWorker
  /\ UNCHANGED <<servers, file, callerVars, q_task, q_exchange, error_in_task, hist>>

-----------------------------------------------------------------------------
(* exchangeCallback. *)

ChecksumValid == response_data \in {"refused", "misfit", "full"}
LengthMatches == response_data # "refused" /\ task_info.length = Head(q_exchange).task

(* File::loadRecordFromMessage: the record fits into the file buffer. *)
RecordFits == response_data = "full" /\ file.counter < file.num_of_records

(* Mutant: the result of loadRecordFromMessage is ignored. *)
CallbackCodeIgnoresFile ==
  IF ~LengthMatches THEN "server_exception" ELSE task_info.error_code

CallbackCode ==
  IF ~LengthMatches THEN "server_exception"
  ELSE IF task_info.task = "file_read" /\ ~RecordFits THEN "internal"
  ELSE task_info.error_code

(* Mutant: the counter is compared before it is incremented. *)
LoadRecordLate ==
  [file EXCEPT !.counter = file.counter + 1, !.ready = IF file.counter = file.num_of_records THEN TRUE ELSE file.ready]

LoadRecord ==
  [file EXCEPT !.counter = file.counter + 1, !.ready = IF file.counter + 1 = file.num_of_records THEN TRUE ELSE file.ready]

(* readRegs: regs[first_register] of a register range that starts low enough
   becomes the record size, whatever its value. *)
ServersAfterReply ==
  IF task_info.task = "ping"
    THEN {[servers EXCEPT ![task_info.index].status = "available"]}
  ELSE IF task_info.task = "regs_read" /\ response_data = "full"
          /\ servers[task_info.index].first
    THEN {[servers EXCEPT ![task_info.index].sized = nonzero] : nonzero \in BOOLEAN}
  ELSE {servers}

(* Mutant: done is set without looking at the counter. *)
CallbackValidDone ==
  /\ pc = "callback"
  /\ ChecksumValid
  /\ servers' \in IF LengthMatches THEN ServersAfterReply ELSE {servers}
  /\ file' = IF LengthMatches /\ task_info.task = "file_read" /\ RecordFits
               THEN LoadRecord ELSE file
  /\ task_info' = [task_info EXCEPT
                     !.counter = task_info.counter + 1, !.error_code = CallbackCode, !.done = TRUE]
  /\ hist' = [hist EXCEPT !.acked = IF CallbackCode = "no_error" THEN @ + 1 ELSE @]
  /\ pc' = "settle"
  /\ UNCHANGED <<callerVars, q_task, q_exchange, response_data, error_in_task>>

(* The checksum is good: done only when the last exchange has been counted. *)
CallbackValid ==
  /\ pc = "callback"
  /\ ChecksumValid
  /\ servers' \in IF LengthMatches THEN ServersAfterReply ELSE {servers}
  /\ file' = IF LengthMatches /\ task_info.task = "file_read" /\ RecordFits
               THEN LoadRecord ELSE file
  /\ task_info' = [task_info EXCEPT
                     !.counter = task_info.counter + 1,
                     !.error_code = CallbackCode,
                     !.done = IF task_info.counter + 1 = task_info.num_of_exchanges
                                THEN TRUE ELSE task_info.done]
  /\ hist' = [hist EXCEPT !.acked = IF CallbackCode = "no_error" THEN @ + 1 ELSE @]
  /\ pc' = "settle"
  /\ UNCHANGED <<callerVars, q_task, q_exchange, response_data, error_in_task>>

(* Mutant: done is not set on an error. *)
CallbackInvalidNotDone ==
  /\ pc = "callback"
  /\ ~ChecksumValid
  /\ servers' = IF response_data = "empty" /\ task_info.index \in Addr
                  THEN [servers EXCEPT ![task_info.index].status = "unavailable"]
                  ELSE servers
  /\ task_info' = [task_info EXCEPT
                     !.counter = task_info.counter + 1,
                     !.error_code = IF response_data = "empty" THEN "timeout" ELSE "bad_crc"]
  /\ pc' = "settle"
  /\ UNCHANGED <<file, callerVars, q_task, q_exchange, response_data, error_in_task, hist>>

(* No reply, or a damaged one: the task is over.  With index -1, which only a
   stale exchange meets (RequestOfTheWaitingCall), the code writes outside the
   vector; the model then changes no server. *)
CallbackInvalid ==
  /\ pc = "callback"
  /\ ~ChecksumValid
  /\ servers' = IF response_data = "empty" /\ task_info.index \in Addr
                  THEN [servers EXCEPT ![task_info.index].status = "unavailable"]
                  ELSE servers
  /\ task_info' = [task_info EXCEPT
                     !.counter = task_info.counter + 1,
                     !.error_code = IF response_data = "empty" THEN "timeout" ELSE "bad_crc",
                     !.done = TRUE]
  /\ pc' = "settle"
  /\ UNCHANGED <<file, callerVars, q_task, q_exchange, response_data, error_in_task, hist>>

-----------------------------------------------------------------------------
(* Mutant: the exchange in hand is popped on an error too, the rest stays. *)
SettleKeepsRest ==
  /\ pc = "settle"
  /\ q_exchange' = Tail(q_exchange)
  /\ pc' = "front"
  /\ UNCHANGED <<servers, file, callerVars, task_info, q_task, response_data,
                 error_in_task, hist>>

(* Mutant: an exchange that failed stays in the queue and is sent again. *)
SettleRetries ==
  /\ pc = "settle"
  /\ q_exchange' = IF task_info.error_code # "no_error" THEN q_exchange ELSE Tail(q_exchange)
  /\ pc' = "front"
  /\ UNCHANGED <<servers, file, callerVars, task_info, q_task, response_data,
                 error_in_task, hist>>

(* After the callback: drop the rest of the task on an error, else go on. *)
Settle ==
  /\ pc = "settle"
  /\ q_exchange' = IF task_info.error_code # "no_error" THEN <<>> ELSE Tail(q_exchange)
  /\ pc' = "front"
  /\ UNCHANGED <<servers, file, callerVars, task_info, q_task, response_data,
                 error_in_task, hist>>

Retire ==
  /\ pc = "front"
  /\ q_exchange = <<>>
  /\ q_task' = Tail(q_task)
  /\ pc' = "inner"
  /\ UNCHANGED <<servers, file, callerVars, task_info, q_exchange, response_data,
                 error_in_task, hist>>

-----------------------------------------------------------------------------
Call ==
  \/ \E a \in Addr :
       \/ addServer(a) \/ setServerAsAvailable(a) \/ setServerRecordMaxSize(a)
       \/ taskPing(a) \/ taskWriteRegister(a) \/ taskReadRegisters(a)
       \/ taskReadFile(a) \/ taskWriteFile(a)
  \/ \E d \in Device : start(d)
  \/ setupWrite \/ stop \/ Destroy

Wake == WakeReturn \/ WakeControl \/ WakeTransfer \/ Join

Worker == WriteRequest \/ WriteThrows \/ ReadReply \/ ReadThrows

Thread ==
  \/ CheckStop \/ Sleep \/ RunTask \/ StartExchange \/ LaunchFails \/ Worker
  \/ CallbackValid \/ CallbackInvalid \/ Settle \/ Retire

(* The object is gone: nothing more happens. *)
Terminated == caller.pc = "gone" /\ UNCHANGED vars

Next == Call \/ Wake \/ Thread \/ Terminated

Spec == Init /\ [][Next]_vars

(* The operating system keeps running both threads and readBinary has a
   timeout; whether the application makes another call is its own choice. *)
FairSpec == Spec /\ WF_vars(Thread) /\ WF_vars(Wake)

-----------------------------------------------------------------------------
(* Types of the whole state. *)
TypeOK ==
  /\ servers \in [Addr -> ServerInfo]
  /\ file \in File
  /\ port \in Device \cup {Closed}
  /\ caller \in Caller
  /\ pushed \in Nat
  /\ task_info \in TaskInfo
  /\ q_task \in Seq(Task)
  /\ q_exchange \in Seq(Exchange)
  /\ response_data \in Reply
  /\ pc \in {"outer", "inner", "front", "write", "read", "callback", "settle", "exited"}
  /\ error_in_task \in BOOLEAN
  /\ thread_stop \in BOOLEAN
  /\ hist \in History

Running == pc \in {"front", "write", "read", "callback", "settle"}

(* The two unsynchronised queues stay in step, whatever the caller does in the
   meantime: front() and pop() are never called on an empty queue, and
   q_exchange holds the last exchanges of the task at the front of q_task, in
   record order, with none missing, repeated or left over from another task. *)
ExchangesOfFrontTask ==
  /\ Running => q_task # <<>> /\ hist.id = q_task[1].id
  /\ Running /\ pc # "front" => q_exchange # <<>>
  /\ ~Running => q_exchange = <<>>
  /\ Len(q_exchange) <= hist.need
  /\ \A i \in DOMAIN q_exchange :
       q_exchange[i] = [id |-> q_task[1].id, task |-> q_task[1].task, dev |-> q_task[1].dev,
                        record |-> hist.need - Len(q_exchange) + i - 1]

(* A request goes out, and its reply is judged, only for the API call that is
   waiting for it: its task, its server, its entry of `servers', and a call
   that has not been told that it is done. *)
RequestOfTheWaitingCall ==
  WakeAfterSettle /\ pc \in {"write", "read", "callback"} =>
    /\ caller.pc = "waiting"
    /\ ~task_info.done
    /\ q_exchange[1].id = pushed
    /\ task_info.index = caller.dev
    /\ q_exchange[1].dev = caller.dev
    /\ task_info.task = q_exchange[1].task
    /\ task_info.length = q_exchange[1].task

(* Stop and wait: the exchange in hand is the first one not yet answered well,
   so no request follows a failed one, and no record is skipped or repeated. *)
StopAndWait ==
  WakeAfterSettle =>
    /\ pc \in {"write", "read", "callback"} =>
         /\ q_exchange[1].record = hist.acked
         /\ task_info.error_code \in {"no_error", "system"}
    /\ hist.acked <= hist.sent
    /\ hist.sent <= hist.acked + 1

(* done without an error means that every request of the task that was pushed
   last was sent and answered well, and that there was at least one. *)
SuccessIsEarned ==
  WakeAfterSettle /\ task_info.done /\ task_info.error_code = "no_error" =>
    /\ hist.id = pushed
    /\ hist.need > 0
    /\ hist.acked = hist.need

(* The reply in hand goes to the place in the file buffer its record was asked
   for: File counts loaded records on its own, the request names record i. *)
RecordInPlace ==
  WakeAfterSettle /\ pc = "callback" /\ task_info.task = "file_read" =>
    q_exchange[1].record = file.counter /\ ~file.ready

(* taskReadFile returns success only with every record it planned loaded and
   counted, and the file marked as ready.  That says nothing of the bytes: the
   last record of several whole ones is asked for with length 0 (file.cpp:185),
   the last byte of an odd size not at all (client.cpp:250). *)
ReadFileIsCounted ==
  [][WakeAfterSettle /\ WakeReturn /\ caller.stage = "transfer" /\ caller.api = "file_read"
       /\ caller'.code = "no_error" =>
     file.ready /\ file.counter = file.num_of_records]_vars

(* "the server will be marked as available if ClientTasks::ping completes
   successfully" (client.hpp:90): otherwise only setServerAsAvailable does. *)
AvailableOnlyByPing ==
  [][\A a \in Addr :
       servers[a].status # "available" /\ servers'[a].status = "available" =>
         \/ setServerAsAvailable(a)
         \/ pc = "callback" /\ q_exchange[1].task = "ping" /\ q_exchange[1].dev = a]_vars

(* A call that waits for a task the thread has finished with waits for ever. *)
Hung ==
  /\ caller.pc = "waiting"
  /\ ~task_info.done
  /\ q_task = <<>> \/ pc = "exited"

(* What a hang can come from: the thread never ran, std::async threw, a file of
   no records, or a good checksum on a bad reply before the last record. *)
HangCause ==
  \/ pc = "exited" /\ EarlyThread
  \/ task_info.error_code = "system" /\ AsyncThrows
  \/ task_info.num_of_exchanges = 0 /\ task_info.task \in FileTask
  \/ /\ task_info.error_code \in {"server_exception", "internal"}
     /\ task_info.task \in FileTask
     /\ task_info.counter < task_info.num_of_exchanges

(* A completion is lost for no other cause; in particular a time-out, a bad
   checksum and every answer to a one-request task reach the caller. *)
OnlyKnownHangs == WakeAfterSettle /\ Hung => HangCause

(* The error of a finished call tells what the last reply was; so an error of
   the port, which callServerExchange stores in error_code and exchangeCallback
   overwrites, is never what the caller sees. *)
ErrorTellsTheReply ==
  WakeAfterSettle /\ task_info.done =>
    /\ task_info.error_code = "timeout" <=> response_data = "empty"
    /\ task_info.error_code = "bad_crc" <=> response_data = "corrupt"
    /\ task_info.error_code = "server_exception" <=> response_data = "refused"
    /\ task_info.error_code = "internal" => task_info.task = "file_read"
    /\ task_info.error_code # "system"

(* Every call that waits returns, unless it hangs for a known cause. *)
CallsEnd == caller.pc = "waiting" ~> caller.pc = "idle" \/ (Hung /\ HangCause)

(* ~ModbusClient returns: the join finds the thread at its end. *)
DestructorEnds == caller.pc = "joining" ~> caller.pc = "gone"

(* server_exception, "the server did not process the command and returned an
   exception" (error.cpp:32), is an answer of the API: a call whose server
   refuses ends with it. *)
ExceptionReachesCaller ==
  caller.pc = "waiting" /\ task_info.error_code = "server_exception"
    ~> caller.pc = "idle" /\ caller.code = "server_exception"
-----------------------------------------------------------------------------
(* The refinement mapping to TaskService: a task is begun when the thread has
   taken it up, and decided when the caller can see done. *)

Decision ==
  IF caller.pc # "waiting" THEN "none"
  ELSE IF task_info.done
    THEN IF task_info.error_code = "no_error" THEN "success" ELSE "failure"
  ELSE IF hist.id = pushed THEN "running" ELSE "queued"

Requests ==
  IF caller.pc = "waiting" /\ hist.id = pushed
    THEN [need |-> hist.need, sent |-> hist.sent, acked |-> hist.acked]
    ELSE [need |-> 0, sent |-> 0, acked |-> 0]

Service == INSTANCE TaskService WITH
  Codes <- ClientErrors, phase <- caller.pc, code <- caller.code,
  decision <- Decision, requests <- Requests

(* The two threads and their unsynchronised queues do what an application reads
   out of client.hpp: one task at a time, decided once, and a success only after
   every request of it was answered well.  It needs WakeAfterSettle. *)
ServiceSpec == Service!Spec
=============================================================================
