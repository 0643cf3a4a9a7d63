---------------------------- MODULE ModbusServer ----------------------------
(***************************************************************************)
(* The server side of the line: ModbusServer::serverTask (server.cpp) on   *)
(* ServerResources (resources.cpp), BufferControl and the two control      *)
(* registers of ServerLogic (init.cpp).                                    *)
(*                                                                         *)
(* The node reads exactly buffer_size bytes and gives them to serverTask.  *)
(* They are a frame for another address, one with a bad CRC, or a request  *)
(* of any function: nothing compares a function or a length field with the *)
(* size of the frame, so the fields a function reads may also be bytes of  *)
(* an earlier frame.  One action is one serverTask, from the buffer to the *)
(* reply.  A record is a row of half words and data maps a cell            *)
(* <<file, record, half word>> to its content.                             *)
(***************************************************************************)
EXTENDS Integers

CONSTANTS
  record_size,   \* bytes of a record, the argument of DataNode
  files,         \* 1..files_count -> FileInfo, as set by setFile before start
  flash_access,  \* setFlashAccess was called: fileWrite # nullptr
  Unset,         \* what the uninitialised file_record_counter may hold
  Value,         \* bound: the register values a client writes
  Payload        \* bound: the half words found behind a write request

registers_count      == 4
files_count          == 2
holding_regs_offset  == 40000
max_num_of_records   == 10000
max_adu_size         == 253
default_buffer_size  == 8
file_request_size    == 12  \* a read request; a write request without its data
exception_size       == 5

(* uint8_t and uint16_t, and the conversions to them. *)
Byte     == 0..255
HalfWord == {n \in Nat : n < 65536}
u8(n)    == n % 256
u16(n)   == n % 65536

FileInfo ==
  [property_read : BOOLEAN, property_write : BOOLEAN, property_flash : BOOLEAN,
   callback : BOOLEAN, amount_of_records : 0..max_num_of_records]
File     == 1..files_count
Words    == record_size \div 2
Register == 0..registers_count - 1

ASSUME ServerAssumption ==
  /\ record_size \in Byte
  /\ files \in [File -> FileInfo]
  /\ flash_access \in BOOLEAN
  /\ Unset \subseteq HalfWord
  /\ Value \subseteq HalfWord
  /\ Payload # {}

(* RegisterDefinitions and their attributes, set by ServerLogic::init. *)
record_size_reg    == 0
control_reg        == 1
record_counter_reg == 2
Readable           == {record_size_reg}
Writable           == {control_reg, record_counter_reg}

file_read_prepare  == 1
file_write_prepare == 2

Cell == UNION {{f} \X (0..files[f].amount_of_records - 1) \X (0..Words - 1) : f \in File}

VARIABLES
  value,                \* registers[..].value
  data,                 \* Cell -> the half word in the memory of the file
  buffer_control,       \* BufferControl
  file_record_counter,  \* of whatever file was accessed last
  reply,                \* the request answered last: function, exception, tx_length
  called,               \* the file whose callback that request ran, or 0
  defined,              \* FALSE once the program left the bounds of an array
  hist                  \* history: accepted record requests since the last reset,
                        \* and whether there was a reset

vars == <<value, data, buffer_control, file_record_counter, reply, called, defined, hist>>
resourceVars == <<value, data, buffer_control, file_record_counter, hist>>

Function == {"none", "foreign", "garbage", "unsupported", "write_reg", "read_regs",
             "write_file", "read_file"}

(* memory: what is in the files when the node starts. *)
StartsWith(memory) ==
  /\ value = [r \in Register |-> IF r = record_size_reg THEN record_size ELSE 0]
  /\ data = memory
  /\ buffer_control = [extended_mode |-> FALSE, record_counter |-> 0,
                       buffer_size |-> default_buffer_size]
  /\ file_record_counter \in Unset
  /\ reply = [function |-> "none", exception |-> 0, tx_length |-> 0]
  /\ called = 0
  /\ defined = TRUE
  /\ hist = [accepted |-> 0, reset |-> FALSE]

Init == StartsWith([c \in Cell |-> CHOOSE p \in Payload : TRUE])

-----------------------------------------------------------------------------
(* BufferControl *)

(* Mutant: a longer buffer is not noted as extended mode. *)
setBufferSizePlain(b, n) ==
  IF u8(n) < default_buffer_size THEN b ELSE [b EXCEPT !.buffer_size = u8(n)]

(* The size is a uint8_t. *)
setBufferSize(b, n) ==
  LET size == u8(n)
  IN IF size < default_buffer_size THEN b
     ELSE [extended_mode  |-> b.extended_mode \/ size > default_buffer_size,
           record_counter |-> b.record_counter,
           buffer_size    |-> size]

(* Mutant: a write is prepared with the record counter instead of the record size. *)
RegisterCallbackCounter(b, reg, v) ==
  IF reg = record_counter_reg THEN [b EXCEPT !.record_counter = v]
  ELSE IF v = file_read_prepare THEN setBufferSize(b, file_request_size)
  ELSE IF v = file_write_prepare THEN setBufferSize(b, file_request_size + b.record_counter)
  ELSE b

(* The callbacks ServerLogic::control and ServerLogic::setRecordCounter. *)
RegisterCallback(b, reg, v) ==
  IF reg = record_counter_reg THEN [b EXCEPT !.record_counter = v]
  ELSE IF v = file_read_prepare THEN setBufferSize(b, file_request_size)
  ELSE IF v = file_write_prepare THEN setBufferSize(b, file_request_size + record_size)
  ELSE b

-----------------------------------------------------------------------------
(* Replies.  Nobody clears the frame: serverTask sends it back by default. *)

Answer(f, n) == reply' = [function |-> f, exception |-> 0, tx_length |-> u8(n)]
Echo(f)      == Answer(f, buffer_control.buffer_size)

(* generateException *)
Refuse(f, e) ==
  /\ reply' = [function |-> f, exception |-> e, tx_length |-> exception_size]
  /\ called' = 0
  /\ UNCHANGED <<value, data, defined>>

KeepTransfer == UNCHANGED <<buffer_control, file_record_counter, hist>>

(* The program accessed memory behind an array; nothing is known after that. *)
LeaveBounds ==
  /\ defined' = FALSE
  /\ UNCHANGED <<resourceVars, reply, called>>

ForeignAddress ==
  /\ defined
  /\ Echo("foreign") /\ called' = 0
  /\ UNCHANGED <<resourceVars, defined>>

BadCrc ==
  /\ defined
  /\ Refuse("garbage", 3) /\ KeepTransfer

Unsupported ==
  /\ defined
  /\ Refuse("unsupported", 1) /\ KeepTransfer

-----------------------------------------------------------------------------
(* Registers.  Bound: addresses and quantities up to one past the array. *)

Address  == holding_regs_offset - 1 .. holding_regs_offset + registers_count + 1
Quantity == 0..registers_count + 1

Offset(address) == address - holding_regs_offset

WriteRegister(address, v) ==
  /\ defined
  /\ Offset(address) \in Writable
  /\ value' = [value EXCEPT ![Offset(address)] = v]
  /\ buffer_control' = RegisterCallback(buffer_control, Offset(address), v)
  /\ Echo("write_reg") /\ called' = 0
  /\ UNCHANGED <<data, file_record_counter, defined, hist>>

(* `>' lets the index registers_count pass: the attributes found there are
   those of files[0], which follows registers, and its data is taken for a callback. *)
BehindRegisters(address) == Offset(address) = registers_count

WriteBehindRegisters(address) ==
  /\ defined
  /\ BehindRegisters(address) /\ files[1].property_write
  /\ LeaveBounds

RefuseWriteRegister(address) ==
  /\ defined
  /\ \/ Offset(address) \notin Writable \cup {registers_count}
     \/ BehindRegisters(address) /\ ~files[1].property_write
  /\ Refuse("write_reg", 4) /\ KeepTransfer

(* registers.size() - quantity is a size_t: a larger quantity wraps and passes. *)
InRange(address, quantity) ==
  /\ Offset(address) >= 0
  /\ quantity <= registers_count => Offset(address) <= registers_count - quantity

AllReadable(address, n) == \A i \in 0..n - 1 : Offset(address) + i \in Readable

(* The loop reaches an index behind the array. *)
RunsBehind(address, quantity) ==
  \E i \in 0..quantity - 1 :
    Offset(address) + i >= registers_count /\ AllReadable(address, i)

ReadRegister(address, quantity) ==
  /\ defined
  /\ InRange(address, quantity) /\ AllReadable(address, quantity)
  /\ Answer("read_regs", 2 + u8(quantity * 2) + 1 + 2) /\ called' = 0
  /\ UNCHANGED <<resourceVars, defined>>

ReadBehindRegisters(address, quantity) ==
  /\ defined
  /\ InRange(address, quantity) /\ RunsBehind(address, quantity)
  /\ LeaveBounds

RefuseReadRegister(address, quantity) ==
  /\ defined
  /\ InRange(address, quantity) => /\ ~AllReadable(address, quantity)
                                   /\ ~RunsBehind(address, quantity)
  /\ Refuse("read_regs", 2) /\ KeepTransfer

-----------------------------------------------------------------------------
(* Files. *)

(* Mutant: the next transfer starts with the count of the last one. *)
resetKeepsCounter ==
  /\ file_record_counter' = file_record_counter
  /\ buffer_control' = setBufferSize(buffer_control, default_buffer_size)
  /\ hist' = [accepted |-> 0, reset |-> TRUE]

resetFileOperation ==
  /\ file_record_counter' = 0
  /\ buffer_control' = setBufferSize(buffer_control, default_buffer_size)
  /\ hist' = [accepted |-> 0, reset |-> TRUE]

(* getAccessToRecord; length in half words. *)
Accessible(f, record, length) ==
  /\ length <= Words
  /\ f \in File
  /\ record <= max_num_of_records
  /\ record <= files[f].amount_of_records - 1

(* Mutant: the count has to pass the number of records. *)
fileOperationProcessLate(f) ==
  LET counter == u16(file_record_counter + 1)
  IN IF counter > files[f].amount_of_records
     THEN resetFileOperation /\ called' = IF files[f].callback THEN f ELSE 0
     ELSE /\ file_record_counter' = counter
          /\ hist' = [hist EXCEPT !.accepted = @ + 1]
          /\ called' = 0
          /\ UNCHANGED buffer_control

(* fileOperationProcess, for a write and for a read alike. *)
fileOperationProcess(f) ==
  LET counter == u16(file_record_counter + 1)
  IN IF counter >= files[f].amount_of_records
     THEN resetFileOperation /\ called' = IF files[f].callback THEN f ELSE 0
     ELSE /\ file_record_counter' = counter
          /\ hist' = [hist EXCEPT !.accepted = @ + 1]
          /\ called' = 0
          /\ UNCHANGED buffer_control

(* well_formed: the reference type is 6 and the byte counter in 7..245. *)
WriteGranted(f, record, length, well_formed) ==
  /\ defined /\ well_formed
  /\ Accessible(f, record, length) /\ files[f].property_write

(* payload: the half words in the buffer behind the head of the request. *)
WriteRecord(f, record, length, well_formed, payload) ==
  /\ WriteGranted(f, record, length, well_formed) /\ ~files[f].property_flash
  /\ data' = [c \in Cell |-> IF c[1] = f /\ c[2] = record /\ c[3] < length
                             THEN payload[c[3]] ELSE data[c]]
  /\ fileOperationProcess(f)
  /\ Echo("write_file")
  /\ UNCHANGED <<value, defined>>

(* fileWrite gets p_record, not the bytes received: the flash keeps its content. *)
WriteFlash(f, record, length, well_formed) ==
  /\ WriteGranted(f, record, length, well_formed) /\ files[f].property_flash
  /\ flash_access
  /\ fileOperationProcess(f)
  /\ Echo("write_file")
  /\ UNCHANGED <<value, data, defined>>

(* No fileWrite, or it failed. *)
FlashFails(f, record, length, well_formed) ==
  /\ WriteGranted(f, record, length, well_formed) /\ files[f].property_flash
  /\ resetFileOperation
  /\ Refuse("write_file", 2)

RefuseWriteFile(f, record, length, well_formed) ==
  /\ defined
  /\ IF well_formed
     THEN /\ ~(Accessible(f, record, length) /\ files[f].property_write)
          /\ Refuse("write_file", 2)
     ELSE Refuse("write_file", 3)
  /\ KeepTransfer

(* Mutant: a file that must not be read is refused after it was counted. *)
RefuseReadFileCounted(f, record, length, well_formed) ==
  /\ defined /\ well_formed
  /\ Accessible(f, record, length) /\ ~files[f].property_read
  /\ Refuse("read_file", 2)
  /\ file_record_counter' = u16(file_record_counter + 1)
  /\ UNCHANGED <<buffer_control, hist>>

ReadRecord(f, record, length, well_formed) ==
  /\ defined /\ well_formed
  /\ Accessible(f, record, length) /\ files[f].property_read
  /\ fileOperationProcess(f)
  /\ Answer("read_file", 2 + u8(length * 2 + 3) + 2)
  /\ UNCHANGED <<value, data, defined>>

RefuseReadFile(f, record, length, well_formed) ==
  /\ defined
  /\ IF well_formed
     THEN /\ ~(Accessible(f, record, length) /\ files[f].property_read)
          /\ Refuse("read_file", 2)
     ELSE Refuse("read_file", 3)
  /\ KeepTransfer

-----------------------------------------------------------------------------
(* One serverTask on a request of each function. *)

WriteRegisterRequest(address, v) ==
  WriteRegister(address, v) \/ WriteBehindRegisters(address) \/ RefuseWriteRegister(address)

ReadRegisterRequest(address, quantity) ==
  \/ ReadRegister(address, quantity)
  \/ ReadBehindRegisters(address, quantity)
  \/ RefuseReadRegister(address, quantity)

WriteFileRequest(f, record, length, well_formed, payload) ==
  \/ WriteRecord(f, record, length, well_formed, payload)
  \/ WriteFlash(f, record, length, well_formed)
  \/ FlashFails(f, record, length, well_formed)
  \/ RefuseWriteFile(f, record, length, well_formed)

ReadFileRequest(f, record, length, well_formed) ==
  ReadRecord(f, record, length, well_formed) \/ RefuseReadFile(f, record, length, well_formed)

(* Bounds: ids, records and lengths up to one past what exists. *)
FileId   == 0..files_count + 1
RecordId == 0..(CHOOSE n \in {files[f].amount_of_records : f \in File} :
                  \A f \in File : files[f].amount_of_records <= n)

RegisterRequest ==
  \E address \in Address :
    \/ \E v \in Value : WriteRegisterRequest(address, v)
    \/ \E quantity \in Quantity : ReadRegisterRequest(address, quantity)

FileWriteRequest ==
  \E f \in FileId, record \in RecordId, length \in 0..Words + 1, well_formed \in BOOLEAN :
    \E payload \in [0..Words - 1 -> Payload] :
      WriteFileRequest(f, record, length, well_formed, payload)

FileReadRequest ==
  \E f \in FileId, record \in RecordId, length \in 0..Words + 1, well_formed \in BOOLEAN :
    ReadFileRequest(f, record, length, well_formed)

Next == ForeignAddress \/ BadCrc \/ Unsupported \/ RegisterRequest
        \/ FileWriteRequest \/ FileReadRequest

Spec == Init /\ [][Next]_vars

-----------------------------------------------------------------------------
(* Properties *)

(* Type invariant; a frame longer than a command is noted as extended mode. *)
TypeOK ==
  /\ value \in [Register -> HalfWord]
  /\ data \in [Cell -> Payload]
  /\ buffer_control \in [extended_mode : BOOLEAN, record_counter : HalfWord,
                         buffer_size : default_buffer_size..255]
  /\ buffer_control.buffer_size > default_buffer_size => buffer_control.extended_mode
  /\ file_record_counter \in HalfWord
  /\ reply \in [function : Function, exception : 0..4, tx_length : Byte]
  /\ called \in File \cup {0}
  /\ defined \in BOOLEAN
  /\ hist \in [accepted : Nat, reset : BOOLEAN]

(* What is read into DataNode::buffer and what serverTask builds in it fit, and
   the node waits for a command, a read request or a whole write request: no
   sequence of control writes leaves it in a framing no request has.  For record
   sizes whose write request fits the buffer; above, 12 + record_size does not. *)
BufferFits ==
  record_size <= max_adu_size - file_request_size =>
    /\ buffer_control.buffer_size
         \in {default_buffer_size, file_request_size, file_request_size + record_size}
    /\ buffer_control.buffer_size <= max_adu_size
    /\ reply.tx_length <= max_adu_size

(* A request answered with an exception changed no register and no record, and
   only a failing flash write ends the transfer in progress. *)
RefusedMeansUntouched ==
  [][reply'.exception # 0 =>
       /\ UNCHANGED <<value, data>>
       /\ \/ UNCHANGED <<buffer_control, file_record_counter>>
          \/ /\ reply'.function = "write_file"
             /\ file_record_counter' = 0
             /\ buffer_control'.buffer_size = default_buffer_size]_vars

(* fileOperationProcess calls back at the end of an operation: since the last
   resetFileOperation as many requests were accepted as the file has records.
   Before the first reset nothing is promised, the counter is uninitialised. *)
CallbackEarned ==
  [][called' # 0 /\ defined' /\ hist.reset =>
       hist.accepted + 1 >= files[called'].amount_of_records]_vars

(* The count of a transfer is bounded: without a reset fewer requests are accepted
   than the largest file has records, also after refusals and a change of file.
   It does not say that a transfer ends: one that is broken off leaves the node in
   the longer framing. *)
TransfersAreBounded ==
  hist.reset /\ hist.accepted > 0 =>
    \E f \in File : hist.accepted < files[f].amount_of_records
=============================================================================
