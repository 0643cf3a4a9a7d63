-------------------------------- MODULE Link --------------------------------
(***************************************************************************)
(* One ModbusClient (client.cpp) and one node (ModbusServer) on a serial   *)
(* line.  Neither side looks for the start of a frame: the node takes      *)
(* buffer_size bytes, the client as many as its answer should have, and    *)
(* what is left stays for the next one.  The line is therefore a queue of  *)
(* bytes, with the places in it where a whole frame starts.                *)
(*                                                                         *)
(* The client's two threads are one here, as RequestOfTheWaitingCall and   *)
(* StopAndWait of ModbusClient allow: one call, one exchange at a time.    *)
(* The bytes of files are left out.                                        *)
(***************************************************************************)
EXTENDS FileBuffer

CONSTANTS
  record_size, files, flash_access, Unset,  \* as in ModbusServer
  ReadSizes,       \* bound: the file sizes taskReadFile is called with
  WriteSizes,      \* bound: the sizes of files to write
  RecordSizes,     \* bound: the record sizes the program sets
  WriteAddresses,  \* bound: the registers the application writes itself
  RegisterValues,  \* bound: and the values
  Shorts,          \* bound: the bytes a readBinary that ends too early returns
  MaxEvents        \* bound: calls, faults of the line and restarts together

VARIABLES
  value, data, buffer_control, file_record_counter, reply, called, defined, hist,
  up, down,    \* the line to the node and the line back
  client,      \* ModbusClient: the call in progress, servers[0], the last result
  file,        \* ModbusClient::file
  log          \* history: calls, frames lost, other faults (noise), the bytes of an
               \* answer that a read left behind, whether the application forced
               \* the node to be available, and whether each answer believed was
               \* the one to the request sent

serverVars == <<value, data, buffer_control, file_record_counter, reply, called, defined, hist>>
vars == <<serverVars, up, down, client, file, log>>

Content == {0}
Server  == INSTANCE ModbusServer WITH Value <- HalfWord, Payload <- Content

(* Not the address behind the registers: writing there leaves their array. *)
LinkAssumption ==
  /\ record_size \in Server!Byte
  /\ files \in [Server!File -> Server!FileInfo]
  /\ flash_access \in BOOLEAN
  /\ Unset \subseteq HalfWord
  /\ ReadSizes \subseteq Nat /\ WriteSizes \subseteq Nat \ {0}
  /\ RecordSizes \subseteq 1..255
  /\ WriteAddresses \subseteq HalfWord
                      \ {Server!holding_regs_offset + Server!registers_count}
  /\ RegisterValues \subseteq HalfWord
  /\ Shorts \subseteq Nat
  /\ MaxEvents \in Nat

ASSUME LinkAssumed == LinkAssumption

-----------------------------------------------------------------------------
(* The line. *)

Empty == [size |-> 0, frames |-> {}]

Put(line, len, msg) ==
  [size   |-> line.size + len,
   frames |-> line.frames \cup {[at |-> line.size, len |-> len, msg |-> msg]}]

Ahead(f, n) == [at |-> f.at - n, len |-> f.len, msg |-> f.msg]

(* The first n bytes are read; a frame that loses a byte is no longer one. *)
Take(line, n) ==
  [size   |-> line.size - n,
   frames |-> {Ahead(f, n) : f \in {g \in line.frames : g.at >= n}}]

(* The frame that is, from its first byte to its last, the next n bytes. *)
Front(line, n) == {f \in line.frames : f.at = 0 /\ f.len = n}

-----------------------------------------------------------------------------
(* The client. *)

NewClient ==
  [call |-> "none", stage |-> "none", index |-> 0, expected |-> 0, sent |-> 0,
   available |-> FALSE, record_size |-> 0, did |-> "none", result |-> "none",
   wrote |-> <<0, 0>>]

Init ==
  /\ Server!Init
  /\ up = Empty /\ down = Empty
  /\ client = NewClient
  /\ file = NewFile
  /\ log = [calls |-> 0, lost |-> 0, noise |-> 0, rest |-> 0,
            forced |-> FALSE, own |-> TRUE]

Faults    == log.lost + log.noise
MayHappen == log.calls + Faults < MaxEvents

Idle    == client.call = "none"
Waiting == client.call \notin {"none", "stuck"}

(* Frames: address and checksum, a PDU of a fixed size, and the data. *)
rtu_adu_size           == 3
min_pdu_with_data_size == 5
RequestPdu == [ping |-> 5, write_reg |-> 5, read_regs |-> 5, write_file |-> 9, read_file |-> 9]
AnswerPdu  == [ping |-> 2, write_reg |-> 5, read_regs |-> 2, write_file |-> 9, read_file |-> 4]

createMessage(kind, extra)     == rtu_adu_size + RequestPdu[kind] + extra
getExpectedLength(kind, extra) == rtu_adu_size + AnswerPdu[kind] + extra

(* createServerRequest and writeBinary: a request with n bytes of data, whose
   answer should have m. *)
Request(c, kind, args, n, m) ==
  /\ up' = Put(up, createMessage(kind, n), [kind |-> kind, id |-> c.sent + 1, args |-> args])
  /\ client' = [c EXCEPT !.sent = c.sent + 1, !.expected = getExpectedLength(kind, m)]

(* Mutant: the address of the register is made of its number. *)
WriteRegisterOffset(c, reg, v) ==
  Request(c, "write_reg",
          <<IF reg < Server!registers_count THEN Server!holding_regs_offset + reg ELSE reg, v>>,
          0, 0)

(* What the caller names goes into the frame as it is. *)
WriteRegister(c, reg, v) == Request(c, "write_reg", <<reg, v>>, 0, 0)

Call ==
  /\ Idle /\ MayHappen
  /\ log' = [log EXCEPT !.calls = log.calls + 1]
  /\ UNCHANGED <<serverVars, down>>

Calling(name, stage) ==
  [client EXCEPT !.call = name, !.stage = stage,
                 !.did = "none", !.result = "none", !.wrote = <<0, 0>>]

taskPing ==
  /\ Call
  /\ Request(Calling("ping", "single"), "ping", <<>>, 0, 0)
  /\ UNCHANGED file

taskWriteRegister(address, v) ==
  /\ Call /\ client.available
  /\ WriteRegister([Calling("write_reg", "single") EXCEPT !.wrote = <<address, v>>], address, v)
  /\ UNCHANGED file

(* The record size register alone, as in main. *)
taskReadRegisters ==
  /\ Call /\ client.available
  /\ Request(Calling("regs", "single"), "read_regs",
             <<Server!holding_regs_offset + Server!record_size_reg, 1>>, 0, 2)
  /\ UNCHANGED file

(* RegisterDefinitions::record_counter and control are sent as they are, without
   the offset that makes an address of them: the node knows no such register. *)
taskReadFile(id, size) ==
  /\ Call /\ client.available /\ client.record_size # 0
  /\ file' = setupRead(file, id, size, client.record_size)
  /\ WriteRegister(Calling("read", "counter"), Server!record_counter_reg, file'.num_of_records)

taskWriteFile ==
  /\ Call /\ client.available /\ file.ready /\ client.record_size # 0
  /\ WriteRegister(Calling("write", "counter"), Server!record_counter_reg, file.num_of_records)
  /\ UNCHANGED file

(* Between two calls. *)
setServerAsAvailable ==
  /\ Idle
  /\ client' = [client EXCEPT !.available = TRUE]
  /\ log' = [log EXCEPT !.forced = log.forced \/ ~client.available]
  /\ UNCHANGED <<serverVars, up, down, file>>

(* setServerRecordMaxSize: the program knows the node. *)
setServerRecordMaxSize(rs) ==
  /\ Idle
  /\ client' = [client EXCEPT !.record_size = rs]
  /\ UNCHANGED <<serverVars, up, down, file, log>>

(* file.setupWriteFromMemory or setupWriteFromDrive; the last result is no longer
   about the file in the buffer. *)
setup(id, size, rs) ==
  /\ Idle
  /\ file' \in {setupWriteFromMemory(file, id, size, rs),
                setupWriteFromDrive(file, id, size, size, rs)}
  /\ client' = [client EXCEPT !.did = "none"]
  /\ UNCHANGED <<serverVars, up, down, log>>

(* A write names the record size in half words and in a byte counter. *)
RequestRecord(c, i) ==
  LET words == getActualRecordLength(file, i) \div 2
  IN IF c.call = "read"
     THEN Request(c, "read_file", <<file.id, i, words>>, 0, 2 * words)
     ELSE Request(c, "write_file",
                  <<file.id, i, c.record_size \div 2, Server!u8(c.record_size + 7) \in 7..245>>,
                  c.record_size, c.record_size)

(* Mutant: the exchanges of a call that failed stay in their queue. *)
FinishKeepsExchanges(c, result) == [c EXCEPT !.call = "none", !.expected = 0,
                                             !.did = c.call, !.result = result]

Finish(c, result) == [c EXCEPT !.call = "none", !.stage = "none", !.index = 0, !.expected = 0,
                               !.did = c.call, !.result = result]

(* task_info.done is not set and the caller waits for ever. *)
Stuck == [client EXCEPT !.call = "stuck", !.stage = "none", !.expected = 0]

LastExchange == client.stage = "record" => client.index = file.num_of_records - 1

(* The record size that an answer of the right length gives; if it is not one to
   read_regs, regs[first_register] of an empty vector is read. *)
RecordSizeIn(msg) ==
  IF client.call # "regs" THEN {client.record_size}
  ELSE IF msg.kind = "read_regs" THEN {value[Server!record_size_reg]}
  ELSE Server!Byte

AfterSingle(msg) ==
  /\ client.stage = "single"
  /\ \E rs \in RecordSizeIn(msg) :
       client' = [Finish(client, "ok") EXCEPT
                    !.available = client.available \/ client.call = "ping",
                    !.record_size = rs]
  /\ UNCHANGED <<up, file>>

AfterCounter ==
  /\ client.stage = "counter"
  /\ WriteRegister([client EXCEPT !.stage = "control"], Server!control_reg,
                   IF client.call = "read" THEN Server!file_read_prepare
                                           ELSE Server!file_write_prepare)
  /\ UNCHANGED file

AfterControl ==
  /\ client.stage = "control"
  /\ IF file.num_of_records = 0 THEN client' = Stuck /\ UNCHANGED up
     ELSE RequestRecord([client EXCEPT !.stage = "record"], 0)
  /\ UNCHANGED file

(* The length field of an answer; another frame has any byte in its place. *)
DataLengthIn(msg) == IF msg.kind = "read_file" THEN {Server!u8(2 * msg.n)} ELSE Server!Byte

AfterRecord(msg) ==
  /\ client.stage = "record"
  /\ \E length \in DataLengthIn(msg) :
       IF client.call = "read" /\ ~Loads(file, length)
       THEN /\ client' = IF LastExchange THEN Finish(client, "failed") ELSE Stuck
            /\ UNCHANGED <<up, file>>
       ELSE /\ file' = IF client.call = "read" THEN Loaded(file, length) ELSE file
            /\ IF LastExchange THEN client' = Finish(client, "ok") /\ UNCHANGED up
               ELSE RequestRecord([client EXCEPT !.index = client.index + 1], client.index + 1)

(* exchangeCallback: an answer of the expected length is believed, whatever
   function, address and record it is for. *)
Believe(msg) ==
  /\ AfterSingle(msg) \/ AfterCounter \/ AfterControl \/ AfterRecord(msg)
  /\ log' = [log EXCEPT
               !.own = log.own /\ \/ client.call = "ping"
                                  \/ msg.id = client.sent /\ msg.kind # "echo"]

(* Mutant: the bytes that came before a timeout stay in the port. *)
NoAnswerLeft(n) ==
  /\ client' = [Finish(client, "failed") EXCEPT !.available = client.available /\ n > 0]
  /\ UNCHANGED <<serverVars, up, down, file>>

(* readBinary returned n bytes, and they are no answer: a good checksum on
   another length is an exception, else it is a bad checksum or nothing. *)
NoAnswer(n) ==
  /\ client' = IF n >= min_pdu_with_data_size /\ Front(down, n) # {} /\ ~LastExchange
               THEN Stuck
               ELSE [Finish(client, "failed") EXCEPT !.available = client.available /\ n > 0]
  /\ down' = Take(down, n)
  /\ UNCHANGED <<serverVars, up, file>>

(* Mutant: the client reads a frame and does not look at its length. *)
ReceiveAnyFrame ==
  /\ Waiting
  /\ \E f \in down.frames :
       f.at = 0 /\ down' = Take(down, f.len) /\ Believe(f.msg)
  /\ UNCHANGED serverVars

ReceiveAnswer ==
  /\ Waiting /\ down.size >= client.expected
  /\ \/ \E f \in Front(down, client.expected) :
          down' = Take(down, client.expected) /\ Believe(f.msg) /\ UNCHANGED serverVars
     \/ /\ Front(down, client.expected) = {}
        /\ NoAnswer(client.expected) /\ UNCHANGED log

ServerWaits == up.size < buffer_control.buffer_size

(* Nothing more will come. *)
TimeOut ==
  /\ Waiting /\ ServerWaits /\ down.size < client.expected
  /\ NoAnswer(down.size)
  /\ UNCHANGED log

-----------------------------------------------------------------------------
(* The node. *)

Handle(msg) ==
  \/ msg.kind = "ping" /\ Server!Unsupported
  \/ msg.kind = "write_reg" /\ Server!WriteRegisterRequest(msg.args[1], msg.args[2])
  \/ msg.kind = "read_regs" /\ Server!ReadRegisterRequest(msg.args[1], msg.args[2])
  \/ /\ msg.kind = "write_file"
     /\ Server!WriteFileRequest(msg.args[1], msg.args[2], msg.args[3], msg.args[4],
                                [w \in 0..Server!Words - 1 |-> 0])
  \/ /\ msg.kind = "read_file"
     /\ Server!ReadFileRequest(msg.args[1], msg.args[2], msg.args[3], TRUE)

(* An answer that carries n half words. *)
Answer(kind, id, n) == [kind |-> kind, id |-> id, n |-> n]

AnswerTo(msg) ==
  IF reply'.exception # 0 THEN Answer("exception", msg.id, 0)
  ELSE Answer(msg.kind, msg.id, IF msg.kind = "read_file" THEN msg.args[3] ELSE 0)

ServeFrame(n) ==
  \E f \in Front(up, n) :
    /\ Handle(f.msg)
    /\ down' = Put(down, reply'.tx_length, AnswerTo(f.msg))

(* The n bytes as they came: a request among them comes back whole. *)
Echoed(n) ==
  [size   |-> down.size + n,
   frames |-> down.frames \cup
     {[at |-> down.size + f.at, len |-> f.len, msg |-> Answer("echo", f.msg.id, 0)] :
        f \in {g \in up.frames : g.at + g.len <= n}}]

(* The n bytes are no request: the checksum is wrong, or, if they do not start
   with one, they may look like a frame for another node, and are sent back. *)
ServeBytes(n) ==
  /\ Front(up, n) = {}
  /\ \/ /\ Server!BadCrc
        /\ down' = Put(down, reply'.tx_length, Answer("exception", 0, 0))
     \/ /\ \A f \in up.frames : f.at # 0
        /\ Server!ForeignAddress
        /\ down' = Echoed(n)

(* DataNode reads buffer_size bytes, serverTask answers them in place. *)
Serve ==
  /\ ~ServerWaits
  /\ up' = Take(up, buffer_control.buffer_size)
  /\ ServeFrame(buffer_control.buffer_size) \/ ServeBytes(buffer_control.buffer_size)
  /\ UNCHANGED <<client, file, log>>

-----------------------------------------------------------------------------
(* Faults. *)

Lose    == MayHappen /\ log' = [log EXCEPT !.lost = log.lost + 1]
Disturb == MayHappen /\ log' = [log EXCEPT !.noise = log.noise + 1]

(* A frame is lost, or a byte of it is changed. *)
Lost(line, f) ==
  [size   |-> line.size - f.len,
   frames |-> {Ahead(g, IF g.at > f.at THEN f.len ELSE 0) : g \in line.frames \ {f}}]

Damaged(line, f) == [size |-> line.size, frames |-> line.frames \ {f}]

SpoilRequest ==
  /\ \E f \in up.frames : \/ Lose /\ up' = Lost(up, f)
                          \/ Disturb /\ up' = Damaged(up, f)
  /\ UNCHANGED <<serverVars, down, client, file>>

SpoilAnswer ==
  /\ \E f \in down.frames : \/ Lose /\ down' = Lost(down, f)
                            \/ Disturb /\ down' = Damaged(down, f)
  /\ UNCHANGED <<serverVars, up, client, file>>

(* readBinary gives up too early: its timeout is shorter than the answer takes,
   or it returns what it has. *)
EndEarly ==
  /\ Waiting /\ MayHappen
  /\ \E n \in Shorts :
       /\ n < client.expected /\ n <= down.size /\ NoAnswer(n)
       /\ log' = [log EXCEPT !.noise = log.noise + 1,
                             !.rest = IF n > 0 THEN down.size - n ELSE log.rest]

(* The client is stopped and started again, with or without its input. *)
Restart ==
  /\ Disturb
  /\ client' = [NewClient EXCEPT !.sent = client.sent]
  /\ file' = NewFile
  /\ down' \in {down, Empty}
  /\ UNCHANGED <<serverVars, up>>

-----------------------------------------------------------------------------
Next ==
  \/ taskPing \/ taskReadRegisters \/ taskWriteFile
  \/ \E address \in WriteAddresses, v \in RegisterValues : taskWriteRegister(address, v)
  \/ \E id \in DOMAIN files, size \in ReadSizes : taskReadFile(id, size)
  \/ \E id \in DOMAIN files, size \in WriteSizes, rs \in RecordSizes : setup(id, size, rs)
  \/ setServerAsAvailable \/ \E rs \in RecordSizes : setServerRecordMaxSize(rs)
  \/ ReceiveAnswer \/ TimeOut \/ Serve
  \/ SpoilRequest \/ SpoilAnswer \/ EndEarly \/ Restart

Spec == Init /\ [][Next]_vars

-----------------------------------------------------------------------------
(* Properties *)

(* The frames on a line: one after the other, within its bytes.  No frame is
   longer than the request that writes the longest record. *)
LongestFrame == Server!file_request_size + 255

LineOK(line) ==
  /\ line.size \in Nat
  /\ \A f \in line.frames :
       /\ f.at \in Nat /\ f.len \in 0..LongestFrame
       /\ f.at + f.len <= line.size
       /\ \A g \in line.frames \ {f} : f.at + f.len <= g.at \/ g.at + g.len <= f.at

(* Types. *)
TypeOK ==
  /\ Server!TypeOK
  /\ LineOK(up) /\ LineOK(down)
  /\ \A f \in up.frames \cup down.frames : f.msg.id \in 0..client.sent
  /\ client.call \in {"none", "ping", "write_reg", "regs", "read", "write", "stuck"}
  /\ client.stage \in {"none", "single", "counter", "control", "record"}
  /\ client.stage = "none" <=> ~Waiting
  /\ client.stage = "record" => client.index \in 0..file.num_of_records - 1
  /\ client.record_size \in Server!Byte
  /\ file \in FileObject

(* The application has not written the control register: the node is in command
   framing, as it was since the start. *)
CommandFraming == ~buffer_control.extended_mode

(* Whatever frames the line has lost as a whole, between two calls nothing is left
   on it: the next answer read is the next one sent. *)
InStep ==
  log.noise = 0 /\ CommandFraming /\ Idle => up = Empty /\ down = Empty

(* Frames are only lost, or there is one fault of another kind: then the application
   does not make the node available itself, so that the ping which must come first
   cuts a late answer, and a read that ends too early leaves less than the answer
   to read_regs has, or it is never read in step again. *)
FewFaults ==
  /\ CommandFraming
  /\ log.noise # 0 => /\ Faults = 1 /\ ~log.forced
                      /\ log.rest < getExpectedLength("read_regs", 2)

(* The client compares no answer with its request, and still believes none to
   another one. *)
OwnAnswer == FewFaults => log.own

(* A register write that succeeded is in the node's register, under the same
   faults. *)
WriteIsDone ==
  FewFaults /\ Idle /\ client.did = "write_reg" /\ client.result = "ok" =>
    value[Server!Offset(client.wrote[1])] = client.wrote[2]

(* The node refuses the first register write of every file call, so whatever
   happens to the line, no file call gets beyond it, and none succeeds, unless
   the client has believed an answer to another request. *)
FileCallsGetNowhere ==
  /\ client.stage \in {"control", "record"} => ~log.own
  /\ client.did \in {"read", "write"} /\ client.result = "ok" => ~log.own

(* On a line without faults a file call with the records of the node's file and the
   right to them succeeds: "in case of success we expect message with the same
   length" (client.cpp:176), of the node's "record counter register" (init.cpp:27).
   Violated (LinkTransferBug). *)
FileCallsSucceed ==
  Faults = 0 /\ CommandFraming /\ Idle /\ client.did \in {"read", "write"}
    /\ file.record_size = record_size
    /\ file.num_of_records = files[file.id].amount_of_records
    /\ (client.did = "read" => files[file.id].property_read)
    /\ (client.did = "write" => files[file.id].property_write)
  => client.result = "ok"
=============================================================================
