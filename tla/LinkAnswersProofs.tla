-------------------------- MODULE LinkAnswersProofs --------------------------
(***************************************************************************)
(* Theorems of Link for a line that may lose any number of frames and does *)
(* nothing else: the client and the node stay in step, and every answer    *)
(* that is believed is the one to the request sent.                        *)
(***************************************************************************)
EXTENDS LinkProofs

(* A line with one frame on it, from its first byte to its last. *)
One(len, msg) == [size |-> len, frames |-> {[at |-> 0, len |-> len, msg |-> msg]}]

LEMMA OnePut == ASSUME NEW len \in Nat, NEW msg PROVE Put(Empty, len, msg) = One(len, msg)
  BY DEF Put, Empty, One

LEMMA OneTaken ==
  ASSUME NEW len \in Nat \ {0}, NEW msg PROVE Take(One(len, msg), len) = Empty
<1>1. One(len, msg).size = len /\ One(len, msg).frames = {[at |-> 0, len |-> len, msg |-> msg]}
  BY DEF One
<1>2. {g \in One(len, msg).frames : g.at >= len} = {}
  BY <1>1
<1>3. len - len = 0
  OBVIOUS
<1> QED  BY <1>1, <1>2, <1>3 DEF Take, Empty

LEMMA OneFront ==
  ASSUME NEW len \in Nat, NEW msg, NEW n \in Nat
  PROVE  /\ n # len => Front(One(len, msg), n) = {}
         /\ n = len => Front(One(len, msg), n) # {}
         /\ \A f \in Front(One(len, msg), n) : f.msg = msg /\ n = len
<1> DEFINE f == [at |-> 0, len |-> len, msg |-> msg]
<1>1. One(len, msg).frames = {f} /\ f.at = 0 /\ f.len = len /\ f.msg = msg
  BY DEF One
<1> HIDE DEF f
<1> QED  BY <1>1 DEF Front

LEMMA OneLost ==
  ASSUME NEW len \in Nat, NEW msg, NEW f \in One(len, msg).frames
  PROVE  Lost(One(len, msg), f) = Empty
<1> DEFINE g == [at |-> 0, len |-> len, msg |-> msg]
<1>1. One(len, msg).frames = {g} /\ One(len, msg).size = len /\ g.len = len /\ len - len = 0
  BY DEF One
<1> HIDE DEF g
<1>2. f = g /\ One(len, msg).frames \ {f} = {}
  BY <1>1
<1> QED  BY <1>1, <1>2 DEF Lost, Empty

LEMMA EmptyTaken == Take(Empty, 0) = Empty
<1>1. Empty.size = 0 /\ Empty.frames = {} /\ 0 - 0 = 0
  BY DEF Empty
<1> QED  BY <1>1 DEF Take, Empty

-----------------------------------------------------------------------------
(* The node never leaves its long framing. *)

Longer(b, c) == b.extended_mode => c.extended_mode

LEMMA BufferStaysLonger ==
  ASSUME NEW b \in [extended_mode : BOOLEAN, record_counter : HalfWord, buffer_size : 8..255]
  PROVE  /\ \A n : Longer(b, Server!setBufferSize(b, n))
         /\ \A reg, v : Longer(b, Server!RegisterCallback(b, reg, v))
<1>1. ASSUME NEW n PROVE Longer(b, Server!setBufferSize(b, n))
  BY DEF Longer, Server!setBufferSize
<1>2. ASSUME NEW v PROVE Longer(b, [b EXCEPT !.record_counter = v])
  BY DEF Longer
<1>3. Longer(b, b)
  BY DEF Longer
<1>4. ASSUME NEW reg, NEW v PROVE Longer(b, Server!RegisterCallback(b, reg, v))
  BY <1>1, <1>2, <1>3 DEF Server!RegisterCallback
<1> QED  BY <1>1, <1>4

LEMMA StaysLonger ==
  ASSUME NodeOK, Serve, buffer_control.extended_mode PROVE buffer_control'.extended_mode
<1>1. buffer_control \in [extended_mode : BOOLEAN, record_counter : HalfWord, buffer_size : 8..255]
  BY DEF NodeOK, Node!ServerInv, Node!TransferOK, Node!GoodBuffer, Node!BufferControl,
     Node!default_buffer_size, Node!HalfWord, HalfWord
<1>2. CASE buffer_control' = buffer_control
  BY <1>2
<1>3. CASE Server!resetFileOperation
  BY <1>1, <1>3, BufferStaysLonger DEF Server!resetFileOperation, Longer
<1>4. ASSUME NEW reg, NEW v, buffer_control' = Server!RegisterCallback(buffer_control, reg, v)
      PROVE  buffer_control'.extended_mode
  BY <1>1, <1>4, BufferStaysLonger DEF Longer
<1>5. ASSUME NEW f, Server!fileOperationProcess(f) PROVE buffer_control'.extended_mode
  BY <1>2, <1>3, <1>5 DEF Server!fileOperationProcess
<1>6. ASSUME NEW msg, Handle(msg) PROVE buffer_control'.extended_mode
  <2>1. CASE Server!Unsupported
    BY <1>2, <2>1 DEF Server!Unsupported, Server!KeepTransfer
  <2>2. ASSUME NEW a, NEW v, Server!WriteRegisterRequest(a, v)
        PROVE  buffer_control'.extended_mode
    BY <1>2, <1>4, <2>2
       DEF Server!WriteRegisterRequest, Server!WriteRegister, Server!WriteBehindRegisters,
           Server!RefuseWriteRegister, Server!KeepTransfer, Server!LeaveBounds,
           Server!resourceVars
  <2>3. ASSUME NEW a, NEW n, Server!ReadRegisterRequest(a, n)
        PROVE  buffer_control'.extended_mode
    BY <1>2, <2>3
       DEF Server!ReadRegisterRequest, Server!ReadRegister, Server!ReadBehindRegisters,
           Server!RefuseReadRegister, Server!KeepTransfer, Server!LeaveBounds,
           Server!resourceVars
  <2>4. ASSUME NEW f, NEW r, NEW n, NEW ok, NEW payload,
               Server!WriteFileRequest(f, r, n, ok, payload)
        PROVE  buffer_control'.extended_mode
    BY <1>2, <1>3, <1>5, <2>4
       DEF Server!WriteFileRequest, Server!WriteRecord, Server!WriteFlash, Server!FlashFails,
           Server!RefuseWriteFile, Server!KeepTransfer
  <2>5. ASSUME NEW f, NEW r, NEW n, NEW ok, Server!ReadFileRequest(f, r, n, ok)
        PROVE  buffer_control'.extended_mode
    BY <1>2, <1>5, <2>5
       DEF Server!ReadFileRequest, Server!ReadRecord, Server!RefuseReadFile, Server!KeepTransfer
  <2> QED  BY <1>6, <2>1, <2>2, <2>3, <2>4, <2>5 DEF Handle
<1>7. ASSUME Server!BadCrc \/ Server!ForeignAddress PROVE buffer_control'.extended_mode
  BY <1>2, <1>7 DEF Server!BadCrc, Server!ForeignAddress, Server!KeepTransfer, Server!resourceVars
<1> QED  BY <1>6, <1>7 DEF Serve, ServeFrame, ServeBytes

-----------------------------------------------------------------------------
(* Between the two. *)

(* The request of the call in progress. *)
Asks(msg) ==
  /\ msg.id = client.sent
  /\ \/ client.call = "ping" /\ msg.kind = "ping"
     \/ client.call = "regs" /\ msg.kind = "read_regs"
     \/ client.call = "write_reg" /\ msg.kind = "write_reg" /\ msg.args = client.wrote
     \/ client.stage = "counter" /\ msg.kind = "write_reg" /\ msg.args[1] = 2

(* The register write of the last call is done. *)
Wrote == value[client.wrote[1] - 40000] = client.wrote[2]

(* The answer to it: an exception, but for the registers and a write that is done. *)
Answers(len, msg) ==
  /\ msg.id = client.sent /\ msg.kind # "echo"
  /\ \/ client.call = "ping" /\ len = 5
     \/ client.call = "regs" /\ len = 7
     \/ client.call = "write_reg" /\ (len = 5 \/ (len = 8 /\ Wrote))
     \/ client.stage = "counter" /\ len = 5

Silent   == up = Empty /\ down = Empty
Asked    == down = Empty /\ \E msg : up = One(8, msg) /\ Asks(msg)
Answered ==
  /\ up = Empty
  /\ \E len, msg : len \in Nat \ {0} /\ down = One(len, msg) /\ Answers(len, msg)

Expects ==
  /\ client.call = "ping" => client.expected = 5
  /\ client.call = "regs" => client.expected = 7
  /\ client.call = "write_reg" => client.expected = 8 /\ client.wrote[1] # 40004

(* A call has one frame on the line, its request or the answer to it, or none. *)
CleanState ==
  /\ log.own
  /\ client.call # "stuck"
  /\ Expects
  /\ IF Idle THEN Silent ELSE Asked \/ Answered \/ Silent
  /\ Idle /\ client.did = "write_reg" /\ client.result = "ok" => Wrote

Clean    == log.noise = 0 /\ CommandFraming
CleanInv == Clean => CleanState

Known == TypeInv /\ log \in LogType /\ FileInv

(* With no foreign answer believed a file call is still at its first write. *)
LEMMA CleanStages ==
  ASSUME Known, CleanState
  PROVE  /\ client.stage \notin {"control", "record"} /\ LastExchange
         /\ client.stage = "counter" => client.expected = 8
         /\ Staged(client) /\ client.sent \in Nat
         /\ Idle \/ Waiting
  BY FileType DEF Known, CleanState, FileInv, FileCallsGetNowhere, LastExchange, Idle, Waiting

LEMMA CleanInit == Init => CleanInv
  BY NewClientOK DEF Init, CleanInv, CleanState, Expects, Silent, Idle

LEMMA CleanSingle ==
  ASSUME Known, CleanState, SingleCall PROVE CleanState'
<1>1. /\ Idle /\ client'.stage = "single" /\ client'.did = "none"
      /\ client'.sent = client.sent + 1
      /\ UNCHANGED <<serverVars, down>> /\ log' = [log EXCEPT !.calls = log.calls + 1]
      /\ TypeInv'
  BY SingleCallTypes DEF Known
<1>2. PICK kind, args, m, c :
        /\ Single(kind, args, m) /\ createMessage(kind, 0) = 8
        /\ client'.expected = getExpectedLength(kind, m)
        /\ Request(c, kind, args, 0, m) /\ c.sent = client.sent
        /\ client'.wrote \in WriteAddresses \X RegisterValues \/ kind # "write_reg"
  BY SingleCallTypes DEF Known
<1> DEFINE msg == [kind |-> kind, id |-> c.sent + 1, args |-> args]
<1>3. up' = Put(up, 8, msg)
  BY <1>2 DEF Request
<1>4. msg.kind = kind /\ msg.id = client.sent + 1 /\ msg.args = args
  BY <1>2
<1> HIDE DEF msg
<1>5. up' = One(8, msg) /\ down' = Empty
  BY <1>1, <1>3, OnePut DEF CleanState, Silent
<1>6. Asks(msg)'
  BY <1>1, <1>2, <1>4 DEF Single, Asks
<1>7. Expects'
  <2>1. /\ getExpectedLength("ping", 0) = 5 /\ getExpectedLength("read_regs", 2) = 7
        /\ getExpectedLength("write_reg", 0) = 8
    BY Lengths
  <2>2. client'.wrote \in WriteAddresses \X RegisterValues => client'.wrote[1] # 40004
    BY LinkAssumed DEF LinkAssumption, Server!holding_regs_offset, Server!registers_count
  <2> QED  BY <1>2, <2>1, <2>2 DEF Expects, Single
<1>8. log'.own = log.own
  BY <1>1 DEF Known, LogType
<1>9. client'.call \notin {"none", "stuck"}
  BY <1>2 DEF Single
<1> QED  BY <1>1, <1>5, <1>6, <1>7, <1>8, <1>9 DEF CleanState, Asked, Idle

LEMMA CleanFile ==
  ASSUME Known, CleanState, FileCall PROVE CleanState'
<1>1. /\ Idle /\ client'.stage = "counter" /\ client'.did = "none"
      /\ client'.sent = client.sent + 1
      /\ UNCHANGED <<serverVars, down>> /\ log' = [log EXCEPT !.calls = log.calls + 1]
      /\ Staged(client') /\ Staged(client)
  BY FileCallTypes, FileType DEF Known, TypeInv
<1>2. PICK name, n : name \in {"read", "write"} /\ WriteRegister(Calling(name, "counter"), 2, n)
  BY DEF FileCall, taskWriteFile, taskReadFile, Server!record_counter_reg
<1>3. PICK msg : /\ up' = Put(up, 8, msg)
                 /\ msg.kind = "write_reg" /\ msg.id = client.sent + 1 /\ msg.args[1] = 2
  <2> DEFINE c == Calling(name, "counter")
             args == <<2, n>>
             m == [kind |-> "write_reg", id |-> c.sent + 1, args |-> args]
  <2>1. up' = Put(up, createMessage("write_reg", 0), m)
    BY <1>2 DEF WriteRegister, Request
  <2>2. c.sent = client.sent
    BY <1>1, <1>2, CallingFacts
  <2>3. m.kind = "write_reg" /\ m.id = client.sent + 1 /\ m.args[1] = 2
    BY <2>2
  <2> HIDE DEF m
  <2> QED  BY <2>1, <2>3, Lengths
<1>6. up' = One(8, msg) /\ down' = Empty
  BY <1>1, <1>3, OnePut DEF CleanState, Silent
<1>7. Asks(msg)'
  BY <1>1, <1>3 DEF Asks
<1>8. client'.call \notin {"none", "stuck", "ping", "regs", "write_reg"}
  BY <1>1 DEF Staged
<1>9. log'.own = log.own
  BY <1>1 DEF Known, LogType
<1> QED  BY <1>1, <1>6, <1>7, <1>8, <1>9 DEF CleanState, Asked, Idle, Expects

LEMMA CleanBetween ==
  ASSUME Known, CleanState, Between PROVE CleanState'
<1>1. /\ Idle /\ Idle' /\ UNCHANGED <<serverVars, up, down>>
      /\ \/ client'.did = "none"
         \/ /\ client'.did = client.did /\ client'.result = client.result
            /\ client'.wrote = client.wrote
      /\ log' = log \/ log' = [log EXCEPT !.forced = log.forced \/ ~client.available]
  BY BetweenTypes DEF Known
<1>2. log'.own = log.own
  BY <1>1 DEF Known, LogType
<1> QED
  BY <1>1, <1>2 DEF CleanState, Idle, Silent, Expects, Wrote, serverVars

LEMMA CleanReceive ==
  ASSUME Known, CleanState, ReceiveAnswer PROVE CleanState'
<1>1. /\ Waiting /\ down.size >= client.expected /\ Staged(client) /\ ~Idle
      /\ client.stage \notin {"control", "record"}
      /\ client.stage = "counter" => client.expected = 8
  BY CleanStages DEF ReceiveAnswer, Waiting, Idle
<1>2. client.expected \in {5, 7, 8}
  BY <1>1 DEF CleanState, Expects, Staged, ClientType, Calls, Stages, Waiting
<1>3. down # Empty
  BY <1>1, <1>2 DEF Empty
<1>4. PICK len, msg :
        len \in Nat \ {0} /\ up = Empty /\ down = One(len, msg) /\ Answers(len, msg)
  BY <1>1, <1>3 DEF CleanState, Asked, Answered, Silent
<1>5. len = client.expected /\ client.stage = "single"
  <2>1. down.size = len
    BY <1>4 DEF One
  <2> QED
    BY <1>1, <1>2, <1>4, <2>1
       DEF CleanState, Expects, Answers, Staged, ClientType, Calls, Stages, Waiting
<1>6. Front(down, client.expected) # {} /\ \A f \in Front(down, client.expected) : f.msg = msg
  BY <1>4, <1>5, OneFront
<1>7. Believe(msg) /\ down' = Take(down, client.expected) /\ UNCHANGED serverVars
  BY <1>6 DEF ReceiveAnswer
<1>8. down' = Empty
  BY <1>4, <1>5, <1>7, OneTaken
<1>9. AfterSingle(msg)
  BY <1>5, <1>7 DEF Believe, AfterCounter, AfterControl, AfterRecord
<1>10. NodeOK' /\ AnswersOK(down', client.sent)
  <2>1. NodeOK'
    BY <1>7, NodeRests DEF Known, TypeInv
  <2>2. AnswersOK(Empty, client.sent)
    BY EmptyOK DEF AnswersOK, Empty
  <2> QED  BY <1>8, <2>1, <2>2
<1>11. /\ client'.call = "none" /\ client'.did = client.call
       /\ client'.wrote = client.wrote
  BY <1>9, <1>10, SingleTypes DEF Known
<1>12. up' = Empty
  BY <1>4, <1>9 DEF AfterSingle
<1>13. client.call = "write_reg" => Wrote
  BY <1>4, <1>5 DEF CleanState, Expects, Answers
<1>14. Wrote => Wrote'
  BY <1>7, <1>11 DEF Wrote, serverVars
<1>15. log'.own
  <2> DEFINE right == client.call = "ping" \/ (msg.id = client.sent /\ msg.kind # "echo")
  <2>1. log' = [log EXCEPT !.own = log.own /\ right]
    BY <1>7 DEF Believe
  <2>2. right /\ log.own
    BY <1>4 DEF Answers, CleanState
  <2> HIDE DEF right
  <2> QED  BY <2>1, <2>2 DEF Known, LogType
<1> QED
  BY <1>8, <1>11, <1>12, <1>13, <1>14, <1>15 DEF CleanState, Expects, Idle, Silent

LEMMA CleanTimeOut ==
  ASSUME Known, Clean, CleanState, TimeOut PROVE CleanState'
<1>1. Waiting /\ ~Idle /\ LastExchange /\ client.sent \in Nat
  BY CleanStages DEF TimeOut, Waiting, Idle
<1>2. up.size < 8
  <2>1. /\ buffer_control.buffer_size \in 8..255
        /\ buffer_control.buffer_size > 8 => buffer_control.extended_mode
    BY NodeTypes DEF Known, TypeInv
  <2> QED  BY <2>1 DEF TimeOut, ServerWaits, Clean, CommandFraming
<1>3. ~Asked
  BY <1>2 DEF Asked, One
<1>4. up = Empty /\ Take(down, down.size) = Empty /\ down.size \in Nat
  <2>1. CASE Silent
    <3>1. down.size = 0 /\ down = Empty
      BY <2>1 DEF Silent, Empty
    <3> QED  BY <2>1, <3>1, EmptyTaken DEF Silent
  <2>2. CASE Answered
    <3>1. PICK len, msg : len \in Nat \ {0} /\ up = Empty /\ down = One(len, msg)
      BY <2>2 DEF Answered
    <3>2. down.size = len
      BY <3>1 DEF One
    <3> QED  BY <3>1, <3>2, OneTaken
  <2> QED  BY <1>1, <1>3, <2>1, <2>2 DEF CleanState
<1>5. NoAnswer(down.size) /\ log' = log /\ down.size <= down.size
  BY <1>4 DEF TimeOut
<1>6. /\ client'.call \in {"none", "stuck"}
      /\ \/ client'.result = "failed"
         \/ client' = Stuck /\ ~LastExchange
      /\ down' = Take(down, down.size) /\ UNCHANGED <<serverVars, up, file>>
  BY <1>4, <1>5, NoAnswerTypes DEF Known
<1>7. client'.call = "none" /\ client'.result = "failed"
  <2>1. client' = [Finish(client, "failed") EXCEPT
                     !.available = client.available /\ down.size > 0]
    BY <1>1, <1>5 DEF NoAnswer
  <2>2. Finish(client, "failed").call = "none"
    BY CleanStages, CallEnds
  <2>3. client'.call = Finish(client, "failed").call
    BY <2>1
  <2> QED  BY <1>1, <1>6, <2>2, <2>3
<1> QED
  BY <1>4, <1>5, <1>6, <1>7 DEF CleanState, Expects, Idle, Silent

(* The node answers the request on the line. *)
LEMMA CleanServe ==
  ASSUME Known, Clean, CleanState, Serve PROVE CleanState'
<1>1. NodeOK /\ RequestsOK(up, client.sent) /\ Staged(client)
  BY FileType DEF Known, TypeInv
<1>2. buffer_control.buffer_size = 8
  <2>1. /\ buffer_control.buffer_size \in 8..255
        /\ buffer_control.buffer_size > 8 => buffer_control.extended_mode
    BY <1>1, NodeTypes
  <2> QED  BY <2>1 DEF Clean, CommandFraming
<1>3. up.size >= 8 /\ up.size \in Nat
  BY <1>1, <1>2 DEF Serve, ServerWaits, RequestsOK, LineOK
<1>4. up # Empty
  BY <1>3 DEF Empty
<1>5. PICK msg : down = Empty /\ up = One(8, msg) /\ Asks(msg)
  BY <1>4 DEF CleanState, Asked, Answered, Silent
<1>6. ~Idle
  BY <1>4 DEF CleanState, Silent
<1>7. Front(up, 8) # {} /\ \A f \in Front(up, 8) : f.msg = msg
  BY <1>5, OneFront
<1>8. /\ Handle(msg) /\ down' = Put(down, reply'.tx_length, AnswerTo(msg))
      /\ up' = Take(up, 8) /\ client' = client /\ log' = log
  BY <1>2, <1>7 DEF Serve, ServeFrame, ServeBytes
<1>9. RequestOK(msg)
  <2>1. \E f \in up.frames : f.msg = msg
    BY <1>7 DEF Front
  <2> QED  BY <1>1, <2>1 DEF RequestsOK
<1>10. PICK len, answer : len = reply'.tx_length /\ answer = AnswerTo(msg)
  OBVIOUS
<1>11. /\ len \in 0..255 /\ AnswerOK(len, answer) /\ answer.id = msg.id
       /\ msg.kind = "write_reg" /\ msg.args[1] = 2 => answer.kind = "exception"
  BY <1>1, <1>8, <1>9, <1>10, NodeAnswers
<1>12. /\ reply'.exception # 0 => answer.kind = "exception"
       /\ answer.kind \in {"exception", msg.kind} /\ msg.kind # "echo"
  BY <1>5, <1>10 DEF AnswerTo, Answer, Asks
<1>13. Answers(len, answer)' /\ len # 0
  <2>0. answer.kind # "echo" /\ answer.id = client'.sent
    BY <1>5, <1>8, <1>11, <1>12 DEF Asks
  <2>1. CASE client.call = "ping" /\ msg.kind = "ping"
    <3>1. Server!Unsupported
      BY <1>8, <2>1 DEF Handle
    <3>2. len = 5
      BY <1>1, <1>10, <3>1, NodeRefuses
    <3> QED  BY <1>8, <2>0, <2>1, <3>2 DEF Answers
  <2>2. CASE client.call = "regs" /\ msg.kind = "read_regs"
    <3>1. Server!ReadRegisterRequest(40000, 1)
      BY <1>8, <1>9, <2>2 DEF Handle, RequestOK
    <3>2. len = 7
      BY <1>1, <1>10, <3>1, NodeReads
    <3> QED  BY <1>8, <2>0, <2>2, <3>2 DEF Answers
  <2>3. CASE client.call = "write_reg" /\ msg.kind = "write_reg" /\ msg.args = client.wrote
    <3>1. /\ Server!WriteRegisterRequest(client.wrote[1], client.wrote[2])
          /\ client.wrote[1] \in HalfWord /\ client.wrote[2] \in HalfWord
      BY <1>8, <1>9, <2>3 DEF Handle, RequestOK
    <3>2. client.wrote[1] # 40004
      BY <2>3 DEF CleanState, Expects
    <3>3. \/ /\ len = 8
             /\ value'[client.wrote[1] - 40000] = client.wrote[2]
          \/ reply'.exception # 0
      BY <1>1, <1>2, <1>10, <3>1, <3>2, NodeWrites
    <3>4. len = 5 \/ (len = 8 /\ Wrote')
      BY <1>8, <1>11, <1>12, <3>3 DEF AnswerOK, Wrote
    <3> QED  BY <1>8, <2>0, <2>3, <3>4 DEF Answers
  <2>4. CASE client.stage = "counter" /\ msg.kind = "write_reg" /\ msg.args[1] = 2
    <3>1. len = 5
      BY <1>11, <2>4 DEF AnswerOK
    <3> QED  BY <1>8, <2>0, <2>4, <3>1 DEF Answers
  <2> QED  BY <1>5, <2>1, <2>2, <2>3, <2>4 DEF Asks
<1>14. up' = Empty /\ down' = One(len, answer) /\ len \in Nat \ {0}
  <2>1. len \in Nat \ {0}
    BY <1>11, <1>13
  <2>2. 8 \in Nat \ {0}
    OBVIOUS
  <2> QED  BY <1>5, <1>8, <1>10, <2>1, <2>2, OneTaken, OnePut
<1>15. Answered'
  BY <1>13, <1>14 DEF Answered
<1> QED  BY <1>6, <1>8, <1>15 DEF CleanState, Idle, Expects

LEMMA CleanSpoil ==
  ASSUME Known, CleanState, SpoilRequest \/ SpoilAnswer, log'.noise = log.noise
  PROVE  CleanState'
<1>1. ~Disturb
  BY DEF Disturb, Known, LogType
<1>2. UNCHANGED <<serverVars, client, file>> /\ Lose
  BY <1>1 DEF SpoilRequest, SpoilAnswer
<1>3. log'.own = log.own
  BY <1>2 DEF Lose, Known, LogType
<1>4. ~Idle /\ Silent'
  <2>1. CASE SpoilRequest
    <3>1. PICK f \in up.frames : up' = Lost(up, f) /\ down' = down
      BY <1>1, <2>1 DEF SpoilRequest
    <3>2. up # Empty
      BY <3>1 DEF Empty
    <3>3. PICK msg : down = Empty /\ up = One(8, msg)
      BY <3>2 DEF CleanState, Asked, Answered, Silent
    <3> QED  BY <3>1, <3>2, <3>3, OneLost DEF Silent, CleanState
  <2>2. CASE SpoilAnswer
    <3>1. PICK f \in down.frames : down' = Lost(down, f) /\ up' = up
      BY <1>1, <2>2 DEF SpoilAnswer
    <3>2. down # Empty
      BY <3>1 DEF Empty
    <3>3. PICK len, msg : len \in Nat \ {0} /\ up = Empty /\ down = One(len, msg)
      BY <3>2 DEF CleanState, Asked, Answered, Silent
    <3> QED  BY <3>1, <3>2, <3>3, OneLost DEF Silent, CleanState
  <2> QED  BY <2>1, <2>2
<1> QED  BY <1>2, <1>3, <1>4 DEF CleanState, Idle, Expects

LEMMA CleanStep == ASSUME Known, CleanInv, [Next]_vars PROVE CleanInv'
<1> SUFFICES ASSUME Clean' PROVE CleanState'
  BY DEF CleanInv
<1>1. log.noise = 0 /\ log'.noise = 0 /\ ~Disturb /\ ~EndEarly
  <2>1. log.noise \in Nat /\ log'.noise = 0
    BY DEF Known, LogType, Clean
  <2>2. log'.noise >= log.noise /\ (Disturb \/ EndEarly => log'.noise = log.noise + 1)
    BY LogStep DEF Known, Grown
  <2> QED  BY <2>1, <2>2
<1>2. ~buffer_control.extended_mode
  <2>1. ~buffer_control'.extended_mode
    BY DEF Clean, CommandFraming
  <2>2. CASE Serve
    BY <2>1, <2>2, StaysLonger DEF Known, TypeInv
  <2>3. CASE ~Serve
    <3>1. buffer_control' = buffer_control
      <4>1. UNCHANGED serverVars \/ Serve
        BY SingleCallTypes, FileCallTypes, BetweenTypes
           DEF Known, Next, SingleCall, FileCall, Between, ReceiveAnswer, TimeOut, NoAnswer,
               SpoilRequest, SpoilAnswer, EndEarly, Restart, vars, serverVars
      <4> QED  BY <2>3, <4>1 DEF serverVars
    <3> QED  BY <2>1, <3>1
  <2> QED  BY <2>2, <2>3
<1>3. Clean /\ CleanState
  BY <1>1, <1>2 DEF Clean, CommandFraming, CleanInv
<1>4. CASE SingleCall  BY <1>3, <1>4, CleanSingle
<1>5. CASE FileCall  BY <1>3, <1>5, CleanFile
<1>6. CASE Between  BY <1>3, <1>6, CleanBetween
<1>7. CASE ReceiveAnswer  BY <1>3, <1>7, CleanReceive
<1>8. CASE TimeOut  BY <1>3, <1>8, CleanTimeOut
<1>9. CASE Serve  BY <1>3, <1>9, CleanServe
<1>10. CASE SpoilRequest \/ SpoilAnswer  BY <1>1, <1>3, <1>10, CleanSpoil
<1>11. ~Restart
  BY <1>1 DEF Restart
<1>12. CASE UNCHANGED vars
  BY <1>3, <1>12
     DEF vars, serverVars, CleanState, Idle, Silent, Asked, Answered, Asks, Answers, Expects, Wrote
<1> QED
  BY <1>1, <1>4, <1>5, <1>6, <1>7, <1>8, <1>9, <1>10, <1>11, <1>12
     DEF Next, SingleCall, FileCall, Between

LEMMA CleanHolds == Spec => [](Known /\ CleanInv)
<1>1. Init => Known /\ CleanInv
  BY TypeInit, LogInit, FileInit, CleanInit DEF Known
<1>2. Known /\ CleanInv /\ [Next]_vars => (Known /\ CleanInv)'
  BY TypeStep, LogStep, FileStep, CleanStep DEF Known, Grown
<1> QED  BY <1>1, <1>2, PTL DEF Spec

(* As long as only whole frames are lost, however many, and the node is in command
   framing, every call leaves the line empty: readBinary and DataNode, which count
   bytes, never get part of one frame with part of another. *)
THEOREM LinkInStep == Spec => []InStep
<1>1. CleanInv => InStep
  BY DEF CleanInv, Clean, CleanState, InStep, Silent
<1> QED  BY <1>1, CleanHolds, PTL

(* Under the same losses exchangeCallback, which compares neither function nor
   address nor register of an answer with its request, believes no foreign one. *)
THEOREM LinkOwnAnswer == Spec => [](log.noise = 0 => OwnAnswer)
<1>1. CleanInv => (log.noise = 0 => OwnAnswer)
  BY DEF CleanInv, Clean, CleanState, OwnAnswer, FewFaults
<1> QED  BY <1>1, CleanHolds, PTL

(* Under the same losses taskWriteRegister returns without an error only when the
   value is in the node's register. *)
THEOREM LinkWriteIsDone == Spec => [](log.noise = 0 => WriteIsDone)
<1>1. CleanInv => (log.noise = 0 => WriteIsDone)
  BY SameRegisters DEF CleanInv, Clean, CleanState, WriteIsDone, FewFaults, Wrote
<1> QED  BY <1>1, CleanHolds, PTL
=============================================================================
