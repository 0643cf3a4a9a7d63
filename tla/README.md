# sm-utility: a TLA+ model

`sm-utility` is a Modbus RTU client and a Modbus RTU server for small data nodes:
registers, and files that are read and written record by record over a serial line. This directory
models its core logic in TLA+, checks it with TLC on small instances and proves its
main safety properties with TLAPS for every value of the constants.

Every part that carries state shared by threads, or state that survives from one request to
the next, is modelled: the client's task machinery and its file buffer, the server's
register and file handling, its main loop with timer and interface, and the reader thread of
the desktop server. `Link` joins a client and a node by a line that loses, damages and delays
frames. `TaskService`
is what the client promises, and the client is shown to implement it. What is left is listed under
[Not modelled](#not-modelled) and [Plan](#plan).

## Inventory

| component | code | state | operations |
|---|---|---|---|
| ModbusClient | `core/client` client.cpp, client.hpp | `servers`, `task_info`, `q_task`, `q_exchange`, `response_data`, the serial port, `thread_stop` | `addServer`, `setServer*`, `start`, `stop`, `taskPing`, `taskWriteRegister`, `taskReadRegisters`, `taskReadFile`, `taskWriteFile`; `clientThread`, `callServerExchange`, `exchangeCallback`; the destructor |
| File | `core/client` file.cpp | the bytes, `num_of_records`, `counter`, `ready` | `setupRead`, `setupWriteFromDrive/Memory`, `loadRecordFromMessage`, `getActualRecordLength` |
| ModbusMessage | `core/client` message.cpp, `core/common` modbus.hpp | none | compose a frame, check its CRC, extract its data |
| ModbusServer | `core/server` server.cpp | `tx_length` | `serverTask`: one request to one reply |
| ServerResources, BufferControl | `core/server` resources.cpp, resources.hpp | registers, files, `file_record_counter`; `buffer_size`, `record_counter`, `extended_mode` | `readRegister`, `writeRegister`, `readFile`, `writeFile`, `setFile`, `setRegister`, `setBufferSize` |
| ServerLogic | `core/server` init.cpp | none (fills the registers) | `init`, the callbacks `control` and `setRecordCounter` |
| DataNode | `core/server` node.hpp | the frame buffer | `start`, `loop`, `handleTimeOut`, `handleReady` |
| Com, Timer | `core/server` com.hpp, timer.hpp | `configured`, `ready`, `busy`; `done`, `started`, `timeout_ms` | `readData`, `setReady`, ...; `start`, `stop`, `setDone` |
| DesktopCom | `target/server/desktop` platform.cpp | `buffer_support`, `reading_done`, `thread_stop`, a mutex, two condition variables | `platformReadData`, `serverThread`, the destructor |
| Bootloader | `core/server` boot.hpp | - | a template nobody instantiates |
| programs | `target/*/desktop` main.cpp | - | parse arguments, make a fixed sequence of calls |

How they interact:

- **Application and client thread.** A task function resets `task_info`, pushes a closure
  to `q_task` and polls `task_info.done` every 50 ms. The client thread runs the closure,
  which fills `q_exchange`; each exchange composes a request and launches a `std::async`
  worker that writes it and reads the reply; `exchangeCallback` then judges the reply,
  updates `servers`, the file and `task_info`, and may set `done`. A file transfer is
  three tasks in a row: two register writes and the transfer itself.
- **Client and server.** One request, one reply, on a half-duplex line. The node reads a
  fixed number of bytes (`BufferControl::getBufferSize`): 8 for a command. Writing the
  control register switches the size to that of a file request; the server's own count
  of accepted file requests switches it back. The registers are at addresses from 0x9C40 on; the
  client's file calls send their bare ids 1 and 2, which the node refuses ([Findings](#findings)).
- **Node and reader thread.** `readData` hands the buffer to `serverThread` and sleeps
  until the frame is complete; `serverTask` works on it in place; `sendData` returns it.

What is hard in it, and what it must satisfy:

- *Client*: unsynchronised queues and flags between two threads; failures at each step of
  an exchange; a completion signal that is set in some branches only. Right means: the
  queues stay in step, a request belongs to the call that waits, one request at a
  time, success only if everything was answered, every call returns, every error told.
- *Server*: state that survives requests (framing, counter), 8-bit sizes, comparisons at
  array bounds. Right means: a framing some request has, frames that fit, counts that
  stay bounded, a refused request that changes nothing, a callback at the end of an operation.
- *DesktopCom*: notifications without the mutex and three separate writes. Right means:
  the buffer has one owner, a frame taken is whole, nobody sleeps for ever.
- *DataNode*: flags set by interrupts between any two statements, a timer whose handler races
  the frame it is for. Right means: the node always listens, with the size the server wants;
  each frame is answered once or dropped by the timeout.
- *File*: sizes rounded up, cut to 16 bits, and read and written by different rules. Right means: every
  record lies in the buffer, and the records together are the file.
- *Client and node together*: addresses and sizes that each side computes by rules of its own, frames without a
  start mark, answers that are not compared with their request. Right means: nothing is left on the line
  between two calls, an answer belongs to its request, a write that succeeded is done, a file call
  succeeds on a line without faults. The last of these does not hold.

`PROJECT.json` lists every hazard at its line with the properties that cover it.

## The modules

| module | contents |
|---|---|
| `ModbusClient` | the client: state, 30 actions, properties |
| `ModbusClientProofs` | its theorems |
| `TaskService` | the abstract specification: what the client promises the application |
| `TaskServiceProofs` | the theorem that the client implements it |
| `FileBuffer` | `File`, as operators on its fields |
| `FileBufferProofs` | its theorems |
| `Link` | client, line and node together; takes its steps from `FileBuffer` and `ModbusServer` |
| `LinkProofs` | its types and what becomes of file calls, whatever happens to the line |
| `LinkAnswersProofs` | its theorems about a line that only loses frames |
| `DataNode` | the loop of the server over `Com` and `Timer` |
| `DataNodeProofs` | its theorems |
| `DesktopCom` | the handshake of the node with its reader thread |
| `DesktopComProofs` | its theorems |
| `ModbusServer` | serverTask on ServerResources, BufferControl and ServerLogic |
| `ModbusServerProofs` | its theorems |
| `MCModbusClient`, `MCDesktopCom`, `MCModbusServer`, `MCDataNode`, `MCLink` | the instances TLC checks |

A definition whose comment starts with `Mutant` is a plausible mistake in the code it
stands next to. None is used by the specification. Replacing the real definition by it
must break a property, which shows that the property can see that code.

### ModbusClient

Names follow the code. `caller` is the application thread (`pc`, the API call, the
stage of a file call), `pc` is where the client thread or the worker it waits for is:

| action | code |
|---|---|
| `addServer`, `setServer*`, `start`, `stop`, `setupWrite` | the functions of these names |
| `taskPing` ... `taskWriteFile` | the function up to its first wait; each early return is a disjunct (`Reject`) |
| `WakeReturn`, `WakeControl`, `WakeTransfer` | a poll of `done` that succeeds, and the rest of the function up to the next wait or its end |
| `CheckStop`, `Sleep`, `RunTask`, `Retire` | the two outer loops of `clientThread` |
| `StartExchange`, `LaunchFails` | `createServerRequest`; `std::async` throws |
| `WriteRequest`, `WriteThrows`, `ReadReply`, `ReadThrows` | `callServerExchange` |
| `CallbackValid`, `CallbackInvalid`, `Settle` | `exchangeCallback`, and what `clientThread` does after it |
| `Destroy`, `Join` | the destructor |

A reply is one of the five cases `exchangeCallback` tells apart: no bytes, a bad
checksum, a good checksum on another length, the right length with content that does
not fit the file, and a good reply. Any of them may come to any request, so lost,
damaged, late and foreign replies are covered. A record size is zero or not.
`attributes.length` is represented by the kind of request it fits. `hist` is a history
variable: which task ran last, how many exchanges it planned, sent, and had answered.

`EarlyThread` and `AsyncThrows` switch two failures of the environment: the thread is
declared before `thread_stop` and may start before its initialiser; `std::async` may throw.

`WakeAfterSettle` is a timing assumption: no poll of `done` falls between
`done.store(true)` in `exchangeCallback` and the end of that task in `clientThread`, a few
instructions against a poll every 50 ms. With it the properties hold and are
proved. Without it (`ClientRace`, `ClientRaceBug`) one sees what the code really guarantees: the
queues stay in step, the rest does not. Properties that need the assumption name it.

### TaskService

Nine actions say what an application reads out of client.hpp: a call submits a task or is
rejected; the task is begun once; its requests go out one at a time, each after a good answer to the one
before; it is decided once, as a success exactly when its last request is answered well;
the call returns with that decision. `ModbusClient` ends with the mapping: a task is queued until
the thread has taken it up (`hist.id = pushed`), running until `done`, and then a success or
a failure by `error_code`. The queues, the worker and all flags disappear in stuttering steps. A call that
hangs is a task never decided, which a safety specification allows; `CallsEnd` says when that happens.

### FileBuffer

A `File` is a record of its members; each member function maps it to the new one, with its
early returns and conversions: the 16-bit number of records that is compared with its limit after it was
cut, the buffer that is padded for a file to write and not for one to read, `file_size`, which
`setupWriteFromMemory` leaves alone. `allocated` is the length of the array, and `SetupFits`
and `SliceFits` say what the copies in file.cpp and client.cpp:317 need of it.

### Link

The line is two queues of bytes, up to the node and down to the client. A queue is its size
and the set of whole frames in it, each with the place of its first byte; other bytes have no
meaning. The node takes `buffer_size` bytes, the client as many as its answer should have
(`Take`); a frame that loses a byte is none any more, and what is left of it comes before the
next. Only a frame that is exactly the bytes taken (`Front`) has a good checksum. What a node does with a
frame is the action of `ModbusServer` for the function, address and value in it (`Handle`), refusals
included; what the client does with the buffer are the operators of `FileBuffer`. A register write carries the
address its caller names, unchanged (`WriteRegister`, message.cpp:58): an application names addresses from 0x9C40 on,
`taskReadFile` and `taskWriteFile` name 2 and 1. The rest of a file call, after its two register
writes, is modelled all the same: a foreign answer of 8 bytes may take it there. The bytes of files are left
out, as no file arrives.

The client's two threads are one here: `RequestOfTheWaitingCall`
and `StopAndWait` of `ModbusClient` show that there is one call and one exchange at a time.
The application may ping, read the record size, write any register but the one behind their array, set up
and transfer files, set the record size, and set the node available itself. The node is one that reads
like the desktop's: its receive timeout never starts, as nothing sets `busy`.

Faults are a request or an answer lost (`Lose`), and, counted as `log.noise`: one damaged, a
`readBinary` that returns too early with nothing or with some bytes, and a client that is stopped and started again while
the node goes on, with its input kept or dropped. `log.own` notes whether each answer the client believed
was the one to the request it had sent (but a ping's, which only asks whether somebody is there), `log.forced`
whether the application made the node available without a ping, `log.rest` how many bytes of an answer
an early read left.

### DataNode

One action is one statement of the loop that an interrupt can fall before. `sync` is a platform
that reads inside `platformReadData` and never sets `busy`, as the desktop's; `async` is one that
com.hpp and timer.hpp are written for: the first byte sets `busy`, the last one `ready`, the timer `done`.
`serverTask` is the size it leaves. `hist` counts frames that arrived, were answered, and were
dropped by the timeout. `FrameInWindow` allows a whole frame to end between
`flush` and the new `readData` of the timeout handler, with the old read still open.

### DesktopCom

One step is one access to shared state that the other thread can see. `main` is the node
thread, `server` is `serverThread`. Waiting on a condition variable is: evaluate the
predicate with the mutex held; release it and sleep; be woken; take the mutex again.
A notification reaches only a thread that sleeps. Spurious wake-ups are actions without
fairness. `filled` is a history variable: bytes of this call's frame in the buffer.

`prompt` is the timing of a behaviour, chosen at its start from `Prompts`: if it is TRUE the reader sleeps when
a call starts and does not wake spuriously inside it, which is what the protocol relies on between two frames,
several milliseconds apart; if it is FALSE a call may meet the reader anywhere. `TypeOK` and `BufferOwned` hold for both; the other
properties have `prompt` as a premise, and `EveryReadIsComplete` and `EveryReadCompletes` state them without it:
`ComStaleBug` and `ComLostWakeBug` show what happens then.

### ModbusServer

One action is one `serverTask`, per function and per outcome. A frame is one for another address, one with a bad CRC,
or a request of any function. Nothing in server.cpp compares the function or the length field of a request with
the size of the frame, so every function is answered in every framing, and the fields and half words it reads behind
a short frame are whatever an earlier one has left there: any `Payload`. In `Link` the frames have the size their client
gives them. A record is a row of half words; `data` maps a cell
`<<file, record, half word>>` to its content. `defined` becomes FALSE when the code
indexes behind an array; nothing is said about the program after that.
`file_record_counter` has no initialiser and starts with any value of `Unset`. `hist`
counts what was accepted since the last reset, independently of that counter.

`setFile` and `setFlashAccess` are part of the public interface and called before the
node starts, so the files are a constant. At this commit no program calls them and every
file request is refused; the model covers any files.

## The runs

Parameters are in the `.cfg` files.

| run | question | result |
|---|---|---|
| `Client` | safety of the client, do calls and the destructor return, and does it implement `TaskService`? | yes, 295 000 states; calls end but for the causes named by `HangCause` |
| `ClientRace` | what holds when a poll may fall anywhere | the queues stay in step, 1.85 million states |
| `ClientRaceBug` | a server is available only after its ping (client.hpp:90) | violated without `WakeAfterSettle` |
| `ClientHangBug` | a server's exception reaches the caller (error.cpp:33) | violated: the call waits for ever |
| `Com` | who owns the buffer, with any timing; with `prompt` also: whole frames, nobody forgotten, reads and the destructor end | hold, 645 states |
| `ComStaleBug` | `setReady` only when a read is complete (com.hpp:103) | violated without `prompt` |
| `ComLostWakeBug` | every read starts, and returns when the bytes have come (platform.cpp:68) | violated: the notification is lost |
| `ServerSafety` | framing, bounds of transfers, refusals, callbacks | hold, 34 000 states |
| `Node` | is each frame answered once or dropped by the timeout, does the node always listen, with the right size? | holds, 2 700 states |
| `NodeTimerBug` | `isStarted` tells whether the timer is running (timer.hpp:58) | violated: `stop` does not clear it |
| `Link` | what is left between two calls, which answers are believed, are register writes done, how far do file calls get? | nothing, the right ones, yes; to their first register write; 2.27 million states |
| `LinkTransferBug` | a file call succeeds on a line without faults (client.cpp:176, init.cpp:27) | violated: the node refuses its first register write |

**Bounds.** *Client*: one server and one device, four tasks (`MaxTasks`), files of at most
two records (`MaxRecords`). Four tasks are a whole file transfer (three) and a task before
or after it; two records are a first and a last one, the only cases the code tells apart;
several servers only differ in the index, and a second one would matter only where
exchanges of two calls meet, which the proofs cover for any set. *DesktopCom*: two sizes, so that the framing changes between calls.
*Server*: records of one half word (a record size of 3, odd), one file of three records in memory with a callback and one
of a single record in flash, so that the count of one file can meet the other; ids,
records and lengths one past what exists; addresses one before to one past the
registers; quantities up to one that wraps; register values 0 to 2 (both commands
and none); for the uninitialised counter 0, 1 and 65535, which wraps.
*Node*: three sizes, the smallest of two bytes, so that there is a frame with nothing, one
byte or several between its first byte and its last; six frames, enough for a timeout to fall on any
of the first ones and for frames after it. *Link*: six calls, faults and restarts together (`MaxEvents`), in any mix: without the premises
of `OwnAnswer` a foreign answer is believed after three (node made available, a call, its early end, a call), after five (seven bytes left over) and after
six (two faults), so each premise is needed within the bound; records of four bytes, which is also
the record size the program sets; a file of two records for reading and writing and one of one record that
can only be read; an empty file and one of two records to read, one of one record to write; the control register (40001) and the record counter (40002) for the application to write to, with
the value 2, which prepares a write; a `readBinary` that ends too early has returned nothing or one byte. The theorems have no such bound.
*DesktopCom*, timing: `Com` checks both values of `prompt`, the two `Bug` runs only FALSE.

**Deadlock** is allowed (`CHECK_DEADLOCK FALSE`) in `Client`, where
the client thread may end at once (`EarlyThread`) or a call hangs for one of the known causes,
in the server's runs, where leaving an array ends the model, in `Link` and `LinkTransferBug`, where the events are used up,
and in `Node` and `NodeTimerBug`, where no frame comes any more and a blocking platform waits for the next one. The other
runs check it; the end of the destructor is a stuttering step (`Terminated`).

**Fairness.** *Client*: weak fairness of the client thread with its worker (it is
scheduled, and `readBinary` has a timeout) and of the caller's poll. Making a call is a
choice and has none. *DesktopCom*: weak fairness of both threads; strong fairness of taking the
mutex, which a thread gets in turn; the bytes of a frame arrive, as the property asks for a read that can
end. Spurious wake-ups have none. *Node*: weak fairness of the loop, which runs for ever, and of
a running timer; bytes have none. *Server* and *Link* have no liveness property and no fairness.

## Findings

1. **File calls never get beyond their first register write** (client.cpp:274, 280, 341, 347). `taskReadFile` and `taskWriteFile`
   pass the bare ids of `RegisterDefinitions`, 2 and 1, to `taskWriteRegister`, which puts them into the frame unchanged
   (message.cpp:58). The node refuses every address below `holding_regs_offset`, 0x9C40 (resources.cpp:89), with
   an exception of 5 bytes; the client waits for 8 and returns `server_exception` (client.cpp:438). No fault is
   needed (`LinkTransferBug`), and nothing but an answer to another request gets a call further: `FileCallsFail` proves it
   for any faults, files and record sizes.
2. **A race after `done`** (client.cpp:469/483 against 388-398). `done` is set before the
   client thread has looked at `error_code` and cleaned up. A caller that wakes there
   resets `task_info`; the old task's remaining exchanges then run under the new task's
   `task_info`, and a late answer to an old request marks a server as available.
3. **A lost completion** (client.cpp:467). With a good checksum `done` is set only at the last
   exchange, but an error before it drops the rest of the task. The call waits for ever. The same
   happens for a file of no records and when `std::async` throws (`HangCause`).
4. **A stale frame** (platform.cpp:65-67). The request to the reader is three unguarded writes.
5. **A lost notification** (platform.cpp:69). The node and its reader both sleep.
6. **A timer that stays started** (timer.hpp:50). `stop` clears `done` and not `started`, which `isStarted` returns as
   "currently running" (timer.hpp:58). The loop starts the timer only when `isStarted` is false (node.hpp:49), so the
   receive timeout works once in the life of a node; a frame that stops half way after that is never given up.

In the same loop `busy`, which com.hpp:95 documents as the current state of the interface ("Checks if the interface is currently
busy"), is set by `setBusy` and cleared by nothing. On a platform that sets it at the first byte (none in the repository does, the
`async` one of the model stands for it) the timeout that it starts therefore fires on healthy traffic too and may drop a complete frame (node.hpp:72). `FramesAccounted` and `FramesAnswered` allow
that drop and say that nothing else loses a frame. The callback of a file, documented for "the end of write operation"
(resources.hpp:106), runs at the end of a read too (resources.cpp:194); the model has it (`ReadRecord`).

Seen in the model where no document says otherwise:
`writeRegister` and `readRegister` accept an index one behind the registers
(resources.cpp:94, 120); `fileWrite` gets the record's address instead of the data received
(resources.cpp:163); an error of the port is always overwritten (client.cpp:534, 477); `setDone` is `const` and stores to a
member that is not mutable (timer.hpp:75), so a platform that calls it does not compile, and the model takes it as the
store it is meant to be; from a record size of 242 on a write request is longer than the node's buffer, and from 244 on its
size wraps (init.cpp:44).

Of the file buffer, in the theorems of `FileBufferProofs`: the last record of a
file of several whole records is asked for with length 0 (file.cpp:185), and the last byte of a file of odd size is
not asked for (client.cpp:250), so that a read which succeeds by the count of its records (`ReadFileIsCounted`) need
not be complete; a buffer filled by a read is not padded, so writing it back reads behind it (client.cpp:317);
more than 65535 records wrap before they are compared with the limit (file.cpp:168).

Of the line, where `OwnAnswer` and `WriteIsDone` have their premises:

- An application that writes a command to the control register itself (`CommandFraming`) leaves the node in the longer framing, and
  no file call brings it back. Two requests of 8 bytes are then taken for one frame, the exception for its bad
  checksum is 5 bytes long, and a ping believes it.
- An answer is never compared with its request. One read that ends early leaves its answer on the line. If the next call is a ping, as
  the client demands after a timeout, the ping cuts it; if the application makes the node available itself (`log.forced`), the old
  answer is taken for the next one. After two faults it is also taken without that.
- A read that ends early with one byte of an answer of 8 leaves seven, the length of the answer
  to a register read, and from there on the two sides never meet a frame's end again until the input is dropped (`log.rest`).

## What is proved

The theorems are about `Spec`, for every value of the constants that satisfies the
module's named assumption; those of `FileBufferProofs` are about every file size up to 10000 records and
every record size.

| module | theorem | property |
|---|---|---|
| ModbusClientProofs | `TypeCorrect` | `TypeOK` |
| | `QueuesInStep` | `ExchangesOfFrontTask` |
| | `RequestsAreOwned` | `RequestOfTheWaitingCall` |
| | `StopsAndWaits` | `StopAndWait` |
| | `SuccessIsReal` | `SuccessIsEarned` |
| | `ErrorsAreTold` | `ErrorTellsTheReply` |
| | `HangsAreKnown` | `OnlyKnownHangs` |
| | `RecordsAreInPlace` | `RecordInPlace` |
| | `ReadFilesAreCounted` | `ReadFileIsCounted`: as many records loaded as the file has, whatever their lengths |
| | `OnlyPingMakesAvailable` | `AvailableOnlyByPing`, assuming `WakeAfterSettle` |
| TaskServiceProofs | `ServesTasks` | `ServiceSpec`, assuming `WakeAfterSettle` |
| DataNodeProofs | `NodeTypes` | `TypeOK` |
| | `NodeHears` | `NeverDeaf` |
| | `NodeFrames` | `ReadMatchesFraming` |
| | `NodeOwnsBuffer` | `BufferIsStable` |
| | `NodeAccounts` | `FramesAccounted` |
| FileBufferProofs | `ReadRecordsFit` | the records of a file to read fit its buffer at the lengths requested |
| | `WriteStaysInside` | the copies and slices of a file to write lie in its buffer, if the server's record size is not the larger one |
| | `ReadBufferIsNotPadded` | exactly when a buffer filled by a read can be written back |
| DesktopComProofs | `ComTypeCorrect` | `TypeOK` |
| | `BufferIsOwned` | `BufferOwned` |
| | `FramesAreWhole` | `ReadyMeansComplete`, whose premise is `prompt` |
| | `NodeIsServed` | `NobodyForgotten`, whose premise is `prompt` |
| ModbusServerProofs | `ServerTypeCorrect` | `TypeOK` |
| | `FramesFit` | `BufferFits` |
| | `CountsAreBounded` | `TransfersAreBounded` |
| | `CallbacksAreEarned` | `CallbackEarned` |
| | `RefusalsChangeNothing` | `RefusedMeansUntouched` |
| LinkProofs | `LinkTypeCorrect` | `TypeOK`, with any faults |
| | `FileCallsFail` | `FileCallsGetNowhere`, with any faults |
| LinkAnswersProofs | `LinkInStep` | `InStep`, any number of frames lost |
| | `LinkOwnAnswer` | `log.noise = 0 => OwnAnswer`, any number of frames lost |
| | `LinkWriteIsDone` | `log.noise = 0 => WriteIsDone`, any number of frames lost |

`LinkAssumption` leaves out one address for the application to write to, the one behind the registers (40004):
writing there leaves their array (resources.cpp:94), and nothing is said of a program after that.

**Client.** `TypeInv` is typing, `ExchangesOfFrontTask` and that a waiting call names a
server; the three are inductive together under any timing: the caller only appends to
`q_task`, and only the client thread touches `q_exchange`. The other properties need to
know whose task is running, which none of them says. `CallInv` does: at most one task is
queued and it is the waiting caller's (`OneTask`); until it runs `task_info` is fresh, while
it runs `task_info` describes it (`FreshInfo`, `BoundInfo`); with an exchange in hand
everything before it was answered well and counted once (`ExchangeInHand`,
`ExchangeSettled`); a task that ended without `done` ended for a known cause. It is
inductive under `WakeAfterSettle`, because a caller is then woken only between two tasks, with both
queues empty. `FileInv` adds that the queued task is the one the
caller's stage asks for, and that the records loaded are the records answered well, from none to
all of them. The action properties follow from these
by one step per action.

**TaskService.** The refinement uses the client's invariants `TypeInv` and `CallInv`: initial states map to
the initial state, and every action under them is one abstract step or leaves the mapped
variables alone. What makes it go through is that the counters of `hist` move with `task_info.counter`
(`ExchangeInHand`, `ExchangeSettled`), so that `done` without an error is
the abstract success.

**DataNode.** `IInv` adds three facts to the properties: where `after` and `pc` can meet (`Places`); a
closed read means a frame that is ready, just taken or in the hands of the blocking platform
(`ClosedRead`); a ready frame is a complete one (`ReadyFrame`). It holds for both
platforms and for any timing; two of the properties have `~FrameInWindow` as a premise.

**FileBuffer.** Lemmas give quotient and remainder as numbers with `size = q * r + m` (`Division`), the products of
a larger index (`Monotone`) and the number of records as the quotient rounded up (`RoundedUp`, where the
bound on the size makes the 16-bit cut the identity). The theorems are then linear in these products.

**DesktopCom.** `HandshakeInv` says where each thread holds the mutex, that
`buffer_support` is filled in by the node and emptied by the reader, and that a
`reading_done` of this call comes after the pointer was taken back. It is inductive with any timing
and gives `BufferOwned`. `PromptInv` adds what the assumption buys: a call meets
a sleeping reader, and from then to the end of the frame the request stays in
`buffer_support` and the reader is at work.

**Server.** `ServerInv` has three parts: the types of registers and records; a
framing that is one of three, with the counter equal to `hist.accepted` after
a reset and below the largest file; the reply's type and length. The 8- and 16-bit conversions are
kept (`u8`, `u16`); lemmas give their ranges and where they are the identity.
`BufferFits` has the premise `record_size <= 241`: above it a write request is longer
than `max_adu_size`, and from 244 on `12 + record_size` wraps. The program uses 208. `TransfersAreBounded` is about the count
of a transfer: one that is given up leaves the node in the longer framing, where it reads no request of 8 bytes by itself.

**Link, any faults.** `TypeInv` says of the line that its frames lie one after the other, that every request in it
is one this client sends and every answer one this node gives, with the numbers of calls made so far (`RequestsOK`, `AnswersOK`); of
the client that stage, call and index fit each other (`Staged`) and that a transfer has its file (`CallOK`). It holds with
every fault, because a fault only takes frames away or moves them (`TakeOK`, `LostOK`, `DamagedOK`, `EchoedOK`). The node's part is
`ServerInv` of `ModbusServerProofs`, used through `INSTANCE`; lemmas (`Same...`) carry its actions over. `FileInv` adds the
reason why a file call fails: while it waits for its first answer, the request on the way up that bears its number
names register 2, and whatever is on the way down with that number is an exception or the request sent back. An answer that
would take the call on is then one to another request, which `log.own` remembers.

**Link, frames lost.** `InStep` is not inductive: it says nothing about the middle of a call. `CleanInv` does: with the node
in command framing, there is at most one frame on the line, and while a call waits it is its request on the way up
(`Asked`), the answer to it on the way down (`Answered`), or nothing, because one of them was lost
(`Silent`). Answers have the length of the kind of call and its outcome, which is why the one that succeeded to
`taskWriteRegister` says that the register holds the value. The longer framing is never left in these calls
(`StaysLonger`), so a state with command framing has always had it.

**Only model-checked**: all liveness (`CallsEnd`, `DestructorEnds`, `ReadCompletes`,
`StopCompletes`, `FramesAnswered`), which rests on fairness, outside the proof system's reach; `OwnAnswer` and `WriteIsDone` of
`Link` after one fault that is not a lost frame; the six violations.

## Not modelled

- The bytes of frames and the CRC table: a frame in one piece has a good checksum, anything
  else has not. That a damaged frame may pass by chance is not modelled.
- In `Link`: the bytes of files (no file arrives), flash files, exceptions of the port, a restart of the node, several nodes
  on the line, a node whose receive timeout works.
- Torn or reordered accesses to the unsynchronised queues and `error_code`: undefined
  behaviour below the level of these models. Operations on them are atomic here.
- `ModbusClient::configure`, `platformSendData`, `platformFlush`: one call of the serial port each.
- The serial port (a git submodule, not in the tree): modelled from its use.
- Exceptions that leave `serverThread` or `platformSendData`: they end the program.
- `Bootloader`: never instantiated, and its entry point is private.
- Command lines, logging, formatting and build files.

## Plan

In order of importance:

1. `ReadService`: the abstract promise of `readData` (one frame per call, whole) and the refinement from
   `DesktopCom` under `prompt`, first with TLC, then proved; then `DataNode`'s `sync` platform is that service.
2. `OwnAnswer` and `WriteIsDone` after one fault that is not a lost frame, as theorems: which bytes a late answer may leave on the line.
3. `Link` with a node that restarts, and with several nodes: which answers a client may then take for its own. If the client's
   file calls are corrected to name addresses, the bytes of files, and that they arrive.
4. `Crc16`, the table against the polynomial, over short frames, TLC only.
