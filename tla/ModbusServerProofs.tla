------------------------- MODULE ModbusServerProofs -------------------------
(***************************************************************************)
(* Theorems of ModbusServer.  ServerInv is inductive: the types, the three *)
(* framings BufferFits speaks of, that the counter counts the requests     *)
(* accepted since the last reset, and that it stays below the largest file.*)
(***************************************************************************)
EXTENDS ModbusServer, TLAPS

SmallRecord == record_size <= max_adu_size - file_request_size

BufferControl ==
  [extended_mode : BOOLEAN, record_counter : HalfWord, buffer_size : default_buffer_size..255]

(* One of the three framings, and a longer one is noted as extended mode. *)
GoodBuffer(b) ==
  /\ b \in BufferControl
  /\ b.buffer_size > default_buffer_size => b.extended_mode
  /\ SmallRecord =>
       b.buffer_size \in {default_buffer_size, file_request_size, file_request_size + record_size}

Counted == hist.reset => file_record_counter = hist.accepted

DataOK ==
  /\ value \in [Register -> HalfWord]
  /\ data \in [Cell -> Payload]

TransferOK ==
  /\ GoodBuffer(buffer_control)
  /\ file_record_counter \in HalfWord
  /\ hist \in [accepted : Nat, reset : BOOLEAN]
  /\ Counted /\ TransfersAreBounded

ReplyType == [function : Function, exception : 0..4, tx_length : Byte]

ReplyOK ==
  /\ reply \in ReplyType
  /\ SmallRecord => reply.tx_length <= max_adu_size
  /\ called \in File \cup {0}
  /\ defined \in BOOLEAN

ServerInv == DataOK /\ TransferOK /\ ReplyOK

(* The conversions to uint8_t and uint16_t. *)
LEMMA ToByte ==
  ASSUME NEW n \in Nat
  PROVE  u8(n) \in Byte /\ u8(n) <= n /\ (n <= 255 => u8(n) = n)
<1>1. n % 256 \in Int /\ 0 <= n % 256 /\ n % 256 <= 255 /\ n % 256 <= n
  OBVIOUS
<1>2. n <= 255 => n % 256 = n
  OBVIOUS
<1> QED  BY <1>1, <1>2 DEF u8, Byte

LEMMA ToHalfWord ==
  ASSUME NEW n \in Nat
  PROVE  u16(n) \in HalfWord /\ (n <= 65535 => u16(n) = n)
<1>1. n % 65536 \in Int /\ 0 <= n % 65536 /\ n % 65536 < 65536
  OBVIOUS
<1>2. n <= 65535 => n % 65536 = n
  OBVIOUS
<1> QED  BY <1>1, <1>2 DEF u16, HalfWord

LEMMA RecordSize == record_size \in 0..255 /\ Words \in 0..127
<1>1. record_size \in 0..255
  BY ServerAssumption DEF Byte
<1> QED  BY <1>1 DEF Words

(* setBufferSize keeps a good buffer good when it is given one of the framings. *)
LEMMA SetBufferSizeGood ==
  ASSUME NEW b, GoodBuffer(b),
         NEW n \in {default_buffer_size, file_request_size, file_request_size + record_size}
  PROVE  /\ GoodBuffer(setBufferSize(b, n))
         /\ n = default_buffer_size => setBufferSize(b, n).buffer_size = default_buffer_size
<1> DEFINE size == u8(n)
<1>1. /\ size \in 0..255
      /\ SmallRecord => size = n
      /\ n = default_buffer_size => size = default_buffer_size
  <2>1. n \in Nat /\ (SmallRecord => n <= 255) /\ (n = default_buffer_size => n <= 255)
    BY RecordSize DEF SmallRecord, default_buffer_size, file_request_size, max_adu_size
  <2> QED  BY <2>1, ToByte DEF Byte
<1> HIDE DEF size
<1>2. CASE size < default_buffer_size
  <2>1. setBufferSize(b, n) = b  BY <1>2 DEF setBufferSize, size
  <2>2. n # default_buffer_size  BY <1>1, <1>2 DEF default_buffer_size
  <2> QED  BY <2>1, <2>2
<1>3. CASE ~(size < default_buffer_size)
  <2> DEFINE c == setBufferSize(b, n)
  <2>1. c = [extended_mode  |-> b.extended_mode \/ size > default_buffer_size,
             record_counter |-> b.record_counter, buffer_size |-> size]
    BY <1>3 DEF setBufferSize, size
  <2> HIDE DEF c
  <2>2. /\ c.buffer_size = size
        /\ size > default_buffer_size => c.extended_mode
    BY <2>1
  <2>3. c \in BufferControl
    <3>1. b.extended_mode \in BOOLEAN /\ b.record_counter \in HalfWord
      BY DEF GoodBuffer, BufferControl
    <3>2. size \in default_buffer_size..255
      BY <1>1, <1>3 DEF default_buffer_size
    <3> QED  BY <2>1, <3>1, <3>2 DEF BufferControl
  <2>4. GoodBuffer(c)
    BY <2>2, <2>3, <1>1 DEF GoodBuffer
  <2> QED
    BY <2>2, <2>4, <1>1 DEF c
<1> QED BY <1>2, <1>3

LEMMA RegisterCallbackGood ==
  ASSUME NEW b, GoodBuffer(b), NEW reg, NEW v \in HalfWord
  PROVE  GoodBuffer(RegisterCallback(b, reg, v))
<1>1. CASE reg = record_counter_reg
  <2>1. RegisterCallback(b, reg, v) = [b EXCEPT !.record_counter = v]
    BY <1>1 DEF RegisterCallback
  <2> QED  BY <2>1 DEF GoodBuffer, BufferControl
<1>2. CASE reg # record_counter_reg
  BY <1>2, SetBufferSizeGood DEF RegisterCallback
<1> QED BY <1>1, <1>2

LEMMA ServerInit == Init => ServerInv
<1> SUFFICES ASSUME Init PROVE ServerInv
  OBVIOUS
<1>1. DataOK
  <2>1. value \in [Register -> HalfWord]
    BY RecordSize DEF Init, StartsWith, HalfWord
  <2>2. (CHOOSE p \in Payload : TRUE) \in Payload
    BY ServerAssumption
  <2> QED  BY <2>1, <2>2 DEF DataOK, Init, StartsWith
<1>2. TransferOK
  <2>1. GoodBuffer(buffer_control)
    BY DEF Init, StartsWith, GoodBuffer, BufferControl, default_buffer_size, HalfWord
  <2>2. file_record_counter \in HalfWord
    BY ServerAssumption DEF Init, StartsWith
  <2> QED  BY <2>1, <2>2 DEF TransferOK, Init, StartsWith, Counted, TransfersAreBounded
<1>3. ReplyOK
  BY DEF ReplyOK, ReplyType, Init, StartsWith, Function, Byte, max_adu_size
<1> QED BY <1>1, <1>2, <1>3 DEF ServerInv

-----------------------------------------------------------------------------
(* What the pieces of an action keep. *)

LEMMA KeptTransfer ==
  ASSUME TransferOK, UNCHANGED <<buffer_control, file_record_counter, hist>>
  PROVE  TransferOK'
  BY DEF TransferOK, Counted, TransfersAreBounded

LEMMA AnsweredOK ==
  ASSUME ReplyOK, NEW f \in Function, NEW n \in Nat, SmallRecord => n <= max_adu_size,
         Answer(f, n), called' \in File \cup {0}, UNCHANGED defined
  PROVE  ReplyOK'
<1> DEFINE k == u8(n)
<1>1. k \in Byte /\ (SmallRecord => k <= max_adu_size)
  BY ToByte DEF Byte, max_adu_size
<1> HIDE DEF k
<1>2. reply' = [function |-> f, exception |-> 0, tx_length |-> k]
  BY DEF Answer, k
<1> QED  BY <1>1, <1>2 DEF ReplyOK, ReplyType

LEMMA EchoedOK ==
  ASSUME ReplyOK, TransferOK, NEW f \in Function,
         Echo(f), called' \in File \cup {0}, UNCHANGED defined
  PROVE  ReplyOK'
<1>1. buffer_control.buffer_size \in Nat
  BY DEF TransferOK, GoodBuffer, BufferControl, default_buffer_size
<1>2. SmallRecord => buffer_control.buffer_size <= max_adu_size
  BY RecordSize
     DEF TransferOK, GoodBuffer, SmallRecord, default_buffer_size, file_request_size, max_adu_size
<1> QED  BY <1>1, <1>2, AnsweredOK DEF Echo

LEMMA RefusedOK ==
  ASSUME DataOK, ReplyOK, NEW f \in Function, NEW e \in 1..4, Refuse(f, e)
  PROVE  DataOK' /\ ReplyOK' /\ called' = 0 /\ reply'.function = f
<1>1. DataOK'
  BY DEF DataOK, Refuse
<1>2. ReplyOK'
  BY DEF ReplyOK, ReplyType, Refuse, exception_size, Byte, max_adu_size
<1> QED  BY <1>1, <1>2 DEF Refuse

LEMMA ResetOK ==
  ASSUME TransferOK, resetFileOperation
  PROVE  /\ TransferOK'
         /\ file_record_counter' = 0
         /\ buffer_control'.buffer_size = default_buffer_size
<1>1. GoodBuffer(buffer_control') /\ buffer_control'.buffer_size = default_buffer_size
  BY SetBufferSizeGood DEF TransferOK, resetFileOperation
<1>2. file_record_counter' = 0 /\ hist' = [accepted |-> 0, reset |-> TRUE]
  BY DEF resetFileOperation
<1>3. file_record_counter' \in HalfWord /\ hist' \in [accepted : Nat, reset : BOOLEAN]
  BY <1>2 DEF HalfWord
<1>4. Counted' /\ TransfersAreBounded'
  BY <1>2 DEF Counted, TransfersAreBounded
<1> QED  BY <1>1, <1>2, <1>3, <1>4 DEF TransferOK

LEMMA RecordNumber ==
  ASSUME NEW n \in 0..max_num_of_records PROVE n \in Nat /\ n <= 10000
  BY DEF max_num_of_records

LEMMA Records ==
  \A f \in File : files[f].amount_of_records \in Nat /\ files[f].amount_of_records <= 10000
<1> TAKE f \in File
<1>1. files[f] \in FileInfo
  BY ServerAssumption
<1>2. files[f].amount_of_records \in 0..max_num_of_records
  BY <1>1 DEF FileInfo
<1> QED  BY <1>2, RecordNumber

(* One more record request counted, or the transfer ended: the callback has
   then been earned. *)
LEMMA ProcessOK ==
  ASSUME TransferOK, NEW f \in File, fileOperationProcess(f)
  PROVE  /\ TransferOK'
         /\ called' \in File \cup {0}
         /\ called' # 0 /\ hist.reset =>
              hist.accepted + 1 >= files[called'].amount_of_records
<1> DEFINE counter == u16(file_record_counter + 1)
<1>1. counter \in HalfWord
  <2>1. file_record_counter \in Nat
    BY DEF TransferOK, HalfWord
  <2> QED  BY <2>1, ToHalfWord
<1>2. hist.reset => counter = hist.accepted + 1
  <2> SUFFICES ASSUME hist.reset PROVE counter = hist.accepted + 1
    OBVIOUS
  <2>1. hist.accepted \in Nat /\ file_record_counter = hist.accepted
    BY DEF TransferOK, Counted
  <2>2. hist.accepted < 10000
    <3>1. CASE hist.accepted = 0  BY <3>1
    <3>2. CASE hist.accepted > 0
      <4>1. PICK g \in File : hist.accepted < files[g].amount_of_records
        BY <3>2 DEF TransferOK, TransfersAreBounded
      <4> QED  BY <2>1, <4>1, Records
    <3> QED  BY <2>1, <3>1, <3>2
  <2> QED  BY <2>1, <2>2, ToHalfWord
<1>3. hist.accepted \in Nat /\ hist.reset \in BOOLEAN
  BY DEF TransferOK
<1>4. files[f].amount_of_records \in Nat
  BY Records
<1> HIDE DEF counter
<1>5. CASE counter >= files[f].amount_of_records
  <2>1. resetFileOperation /\ called' = IF files[f].callback THEN f ELSE 0
    BY <1>5 DEF fileOperationProcess, counter
  <2>2. TransferOK'
    BY <2>1, ResetOK
  <2>3. called' \in {f, 0}
    BY <2>1
  <2>4. called' # 0 /\ hist.reset => hist.accepted + 1 >= files[called'].amount_of_records
    BY <2>3, <1>2, <1>5
  <2> QED  BY <2>2, <2>3, <2>4
<1>6. CASE ~(counter >= files[f].amount_of_records)
  <2>1. /\ file_record_counter' = counter
        /\ hist' = [hist EXCEPT !.accepted = @ + 1]
        /\ called' = 0
        /\ UNCHANGED buffer_control
    BY <1>6 DEF fileOperationProcess, counter
  <2>2. hist' \in [accepted : Nat, reset : BOOLEAN]
    BY <2>1 DEF TransferOK
  <2>3. hist'.reset = hist.reset /\ hist'.accepted = hist.accepted + 1
    BY <2>1 DEF TransferOK
  <2>4. counter < files[f].amount_of_records
    BY <1>1, <1>4, <1>6 DEF HalfWord
  <2>5. Counted' /\ TransfersAreBounded'
    BY <2>1, <2>3, <2>4, <1>2 DEF Counted, TransfersAreBounded
  <2>6. GoodBuffer(buffer_control')
    BY <2>1 DEF TransferOK
  <2> QED  BY <2>1, <2>2, <2>5, <2>6, <1>1 DEF TransferOK
<1> QED  BY <1>5, <1>6

-----------------------------------------------------------------------------
(* The steps, one lemma per group of actions. *)

(* What a step must keep, and what it may tell the caller of a callback. *)
Kept ==
  /\ ServerInv'
  /\ called' # 0 /\ defined' /\ hist.reset =>
       hist.accepted + 1 >= files[called'].amount_of_records
  /\ reply'.exception # 0 =>
       /\ UNCHANGED <<value, data>>
       /\ \/ UNCHANGED <<buffer_control, file_record_counter>>
          \/ /\ reply'.function = "write_file"
             /\ file_record_counter' = 0
             /\ buffer_control'.buffer_size = default_buffer_size

LEMMA LeaveBoundsKept == ASSUME ServerInv, LeaveBounds PROVE Kept
<1>1. DataOK'  BY DEF ServerInv, DataOK, LeaveBounds, resourceVars
<1>2. TransferOK'  BY KeptTransfer DEF ServerInv, LeaveBounds, resourceVars
<1>3. ReplyOK'  BY DEF ServerInv, ReplyOK, LeaveBounds
<1>4. ~defined' /\ UNCHANGED resourceVars  BY DEF LeaveBounds
<1> QED  BY <1>1, <1>2, <1>3, <1>4 DEF Kept, ServerInv, resourceVars

(* An exception that leaves the transfer alone. *)
LEMMA RefusalKept ==
  ASSUME ServerInv, NEW f \in Function, NEW e \in 1..4, Refuse(f, e), KeepTransfer
  PROVE  Kept
<1>1. DataOK' /\ ReplyOK' /\ called' = 0
  BY RefusedOK DEF ServerInv
<1>2. TransferOK'
  BY KeptTransfer DEF ServerInv, KeepTransfer
<1>3. UNCHANGED <<value, data, buffer_control, file_record_counter>>
  BY DEF Refuse, KeepTransfer
<1> QED  BY <1>1, <1>2, <1>3 DEF Kept, ServerInv

(* A normal answer earns its callback or has none. *)
LEMMA AnswerKept ==
  ASSUME DataOK', TransferOK', ReplyOK', reply'.exception = 0,
         called' # 0 /\ hist.reset => hist.accepted + 1 >= files[called'].amount_of_records
  PROVE  Kept
  BY DEF Kept, ServerInv

LEMMA FrameStep ==
  ASSUME ServerInv, ForeignAddress \/ BadCrc \/ Unsupported PROVE Kept
<1>1. CASE ForeignAddress
  <2>1. DataOK' /\ TransferOK'
    BY <1>1, KeptTransfer DEF ServerInv, DataOK, ForeignAddress, resourceVars
  <2>2. ReplyOK' /\ reply'.exception = 0
    BY <1>1, EchoedOK DEF ServerInv, ForeignAddress, Function, Echo, Answer
  <2> QED  BY <1>1, <2>1, <2>2, AnswerKept DEF ForeignAddress
<1>2. CASE BadCrc  BY <1>2, RefusalKept DEF BadCrc, Function
<1>3. CASE Unsupported  BY <1>3, RefusalKept DEF Unsupported, Function
<1> QED  BY <1>1, <1>2, <1>3

LEMMA WriteRegisterStep ==
  ASSUME ServerInv, NEW address, NEW v \in Value, WriteRegister(address, v) PROVE Kept
<1> DEFINE reg == Offset(address)
<1>1. v \in HalfWord
  BY ServerAssumption
<1>2. DataOK'
  BY <1>1 DEF ServerInv, DataOK, WriteRegister
<1>3. TransferOK'
  <2>1. GoodBuffer(buffer_control')
    BY <1>1, RegisterCallbackGood DEF ServerInv, TransferOK, WriteRegister
  <2> QED  BY <2>1 DEF ServerInv, TransferOK, WriteRegister, Counted, TransfersAreBounded
<1>4. ReplyOK' /\ reply'.exception = 0
  BY EchoedOK DEF ServerInv, WriteRegister, Function, Echo, Answer
<1> QED  BY <1>2, <1>3, <1>4, AnswerKept DEF WriteRegister

LEMMA ReadRegisterStep ==
  ASSUME ServerInv, NEW address \in Address, NEW quantity \in Quantity,
         ReadRegister(address, quantity)
  PROVE  Kept
<1>1. DataOK' /\ TransferOK'
  BY KeptTransfer DEF ServerInv, DataOK, ReadRegister, resourceVars
<1>2. quantity \in 0..5
  BY DEF Quantity, registers_count
<1> DEFINE n == 2 + u8(quantity * 2) + 1 + 2
<1>3. n \in Nat /\ n <= max_adu_size
  <2>1. quantity * 2 \in Nat /\ quantity * 2 <= 255
    BY <1>2
  <2>2. u8(quantity * 2) = quantity * 2
    BY <2>1, ToByte
  <2> QED  BY <1>2, <2>2 DEF max_adu_size
<1> HIDE DEF n
<1>4. Answer("read_regs", n) /\ called' = 0 /\ UNCHANGED defined
  BY DEF ReadRegister, n
<1>5. ReplyOK'
  BY <1>3, <1>4, AnsweredOK DEF ServerInv, Function
<1>6. reply'.exception = 0
  BY <1>4 DEF Answer
<1> QED  BY <1>1, <1>4, <1>5, <1>6, AnswerKept

LEMMA WriteRegisterRequestStep ==
  ASSUME ServerInv, NEW address, NEW v \in Value, WriteRegisterRequest(address, v) PROVE Kept
<1>1. CASE WriteRegister(address, v)
  BY <1>1, WriteRegisterStep
<1>2. CASE WriteBehindRegisters(address)
  BY <1>2, LeaveBoundsKept DEF WriteBehindRegisters
<1>3. CASE RefuseWriteRegister(address)
  BY <1>3, RefusalKept DEF RefuseWriteRegister, Function
<1> QED  BY <1>1, <1>2, <1>3 DEF WriteRegisterRequest

LEMMA ReadRegisterRequestStep ==
  ASSUME ServerInv, NEW address \in Address, NEW quantity \in Quantity,
         ReadRegisterRequest(address, quantity)
  PROVE  Kept
<1>1. CASE ReadRegister(address, quantity)
  BY <1>1, ReadRegisterStep
<1>2. CASE ReadBehindRegisters(address, quantity)
  BY <1>2, LeaveBoundsKept DEF ReadBehindRegisters
<1>3. CASE RefuseReadRegister(address, quantity)
  BY <1>3, RefusalKept DEF RefuseReadRegister, Function
<1> QED  BY <1>1, <1>2, <1>3 DEF ReadRegisterRequest

LEMMA RegisterStep == ASSUME ServerInv, RegisterRequest PROVE Kept
  BY WriteRegisterRequestStep, ReadRegisterRequestStep DEF RegisterRequest

LEMMA WriteRecordStep ==
  ASSUME ServerInv, NEW f, NEW record, NEW length, NEW well_formed,
         NEW payload \in [0..Words - 1 -> Payload],
         WriteRecord(f, record, length, well_formed, payload)
  PROVE  Kept
<1>1. f \in File
  BY DEF WriteRecord, WriteGranted, Accessible
<1>2. DataOK'
  <2>1. ASSUME NEW c \in Cell
        PROVE  (IF c[1] = f /\ c[2] = record /\ c[3] < length
                THEN payload[c[3]] ELSE data[c]) \in Payload
    <3>1. c[3] \in 0..Words - 1
      BY DEF Cell
    <3>2. payload[c[3]] \in Payload /\ data[c] \in Payload
      BY <3>1 DEF ServerInv, DataOK
    <3> QED  BY <3>2
  <2>2. data' \in [Cell -> Payload]
    BY <2>1 DEF WriteRecord
  <2> QED  BY <2>2 DEF ServerInv, DataOK, WriteRecord
<1>3. /\ TransferOK' /\ called' \in File \cup {0}
      /\ called' # 0 /\ hist.reset => hist.accepted + 1 >= files[called'].amount_of_records
  BY <1>1, ProcessOK DEF ServerInv, WriteRecord
<1>4. ReplyOK' /\ reply'.exception = 0
  BY <1>3, EchoedOK DEF ServerInv, WriteRecord, Function, Echo, Answer
<1> QED  BY <1>2, <1>3, <1>4, AnswerKept

LEMMA WriteFlashStep ==
  ASSUME ServerInv, NEW f, NEW record, NEW length, NEW well_formed,
         WriteFlash(f, record, length, well_formed)
  PROVE  Kept
<1>1. f \in File
  BY DEF WriteFlash, WriteGranted, Accessible
<1>2. DataOK'
  BY DEF ServerInv, DataOK, WriteFlash
<1>3. /\ TransferOK' /\ called' \in File \cup {0}
      /\ called' # 0 /\ hist.reset => hist.accepted + 1 >= files[called'].amount_of_records
  BY <1>1, ProcessOK DEF ServerInv, WriteFlash
<1>4. ReplyOK' /\ reply'.exception = 0
  BY <1>3, EchoedOK DEF ServerInv, WriteFlash, Function, Echo, Answer
<1> QED  BY <1>2, <1>3, <1>4, AnswerKept

LEMMA FlashFailsStep ==
  ASSUME ServerInv, NEW f, NEW record, NEW length, NEW well_formed,
         FlashFails(f, record, length, well_formed)
  PROVE  Kept
<1>1. resetFileOperation /\ Refuse("write_file", 2)
  BY DEF FlashFails
<1>2. DataOK' /\ ReplyOK' /\ called' = 0 /\ reply'.function = "write_file"
  BY <1>1, RefusedOK DEF ServerInv, Function
<1>3. TransferOK' /\ file_record_counter' = 0 /\ buffer_control'.buffer_size = default_buffer_size
  BY <1>1, ResetOK DEF ServerInv
<1> QED  BY <1>1, <1>2, <1>3 DEF Kept, ServerInv, Refuse

LEMMA ReadRecordStep ==
  ASSUME ServerInv, NEW f, NEW record, NEW length \in Nat, NEW well_formed,
         ReadRecord(f, record, length, well_formed)
  PROVE  Kept
<1>1. f \in File /\ length <= Words
  BY DEF ReadRecord, Accessible
<1>2. DataOK'
  BY DEF ServerInv, DataOK, ReadRecord
<1>3. /\ TransferOK' /\ called' \in File \cup {0}
      /\ called' # 0 /\ hist.reset => hist.accepted + 1 >= files[called'].amount_of_records
  BY <1>1, ProcessOK DEF ServerInv, ReadRecord
<1> DEFINE n == 2 + u8(length * 2 + 3) + 2
<1>4. n \in Nat /\ (SmallRecord => n <= max_adu_size)
  <2> DEFINE k == u8(length * 2 + 3)
  <2>1. k \in Nat /\ k <= length * 2 + 3
    BY RecordSize, ToByte DEF Byte
  <2>2. length * 2 <= record_size
    BY <1>1, RecordSize DEF Words
  <2> HIDE DEF k
  <2>3. n = 2 + k + 2
    BY DEF k
  <2> QED  BY <2>1, <2>2, <2>3, RecordSize DEF SmallRecord, max_adu_size, file_request_size
<1> HIDE DEF n
<1>5. Answer("read_file", n) /\ UNCHANGED defined
  BY DEF ReadRecord, n
<1>6. ReplyOK'
  BY <1>3, <1>4, <1>5, AnsweredOK DEF ServerInv, Function
<1>7. reply'.exception = 0
  BY <1>5 DEF Answer
<1> QED  BY <1>2, <1>3, <1>6, <1>7, AnswerKept

LEMMA WriteFileRequestStep ==
  ASSUME ServerInv, NEW f, NEW record, NEW length, NEW well_formed,
         NEW payload \in [0..Words - 1 -> Payload],
         WriteFileRequest(f, record, length, well_formed, payload)
  PROVE  Kept
<1>1. CASE WriteRecord(f, record, length, well_formed, payload)
  BY <1>1, WriteRecordStep
<1>2. CASE WriteFlash(f, record, length, well_formed)
  BY <1>2, WriteFlashStep
<1>3. CASE FlashFails(f, record, length, well_formed)
  BY <1>3, FlashFailsStep
<1>4. CASE RefuseWriteFile(f, record, length, well_formed)
  <2>1. KeepTransfer /\ (Refuse("write_file", 2) \/ Refuse("write_file", 3))
    BY <1>4 DEF RefuseWriteFile
  <2> QED  BY <2>1, RefusalKept DEF Function
<1> QED  BY <1>1, <1>2, <1>3, <1>4 DEF WriteFileRequest

LEMMA ReadFileRequestStep ==
  ASSUME ServerInv, NEW f, NEW record, NEW length \in Nat, NEW well_formed,
         ReadFileRequest(f, record, length, well_formed)
  PROVE  Kept
<1>1. CASE ReadRecord(f, record, length, well_formed)
  BY <1>1, ReadRecordStep
<1>2. CASE RefuseReadFile(f, record, length, well_formed)
  <2>1. KeepTransfer /\ (Refuse("read_file", 2) \/ Refuse("read_file", 3))
    BY <1>2 DEF RefuseReadFile
  <2> QED  BY <2>1, RefusalKept DEF Function
<1> QED  BY <1>1, <1>2 DEF ReadFileRequest

LEMMA FileStep == ASSUME ServerInv, FileWriteRequest \/ FileReadRequest PROVE Kept
<1>1. 0..Words + 1 \subseteq Nat
  BY RecordSize
<1> QED
  BY <1>1, WriteFileRequestStep, ReadFileRequestStep DEF FileWriteRequest, FileReadRequest

LEMMA ServerStep == ASSUME ServerInv, Next PROVE Kept
  BY FrameStep, RegisterStep, FileStep DEF Next

LEMMA ServerStutter == ASSUME ServerInv, UNCHANGED vars PROVE ServerInv'
<1>1. DataOK' /\ ReplyOK'
  BY DEF ServerInv, DataOK, ReplyOK, vars
<1>2. TransferOK'
  BY KeptTransfer DEF ServerInv, vars
<1> QED  BY <1>1, <1>2 DEF ServerInv

LEMMA ServerInductive == Spec => []ServerInv
<1>1. ServerInv /\ [Next]_vars => ServerInv'
  BY ServerStep, ServerStutter DEF Kept
<1> QED  BY <1>1, ServerInit, PTL DEF Spec

(* The registers, the records, BufferControl and the replies keep their types,
   for every record size and every set of files. *)
THEOREM ServerTypeCorrect == Spec => []TypeOK
<1>1. ServerInv => TypeOK
  BY DEF ServerInv, DataOK, TransferOK, ReplyOK, ReplyType, GoodBuffer, BufferControl, TypeOK
<1> QED  BY <1>1, ServerInductive, PTL

(* For every record of at most 241 bytes the node is in one of the three
   framings, and frames and replies fit into its buffer. *)
THEOREM FramesFit == Spec => []BufferFits
<1>1. ServerInv => BufferFits
  <2> SUFFICES ASSUME ServerInv, SmallRecord PROVE
        /\ buffer_control.buffer_size
             \in {default_buffer_size, file_request_size, file_request_size + record_size}
        /\ buffer_control.buffer_size <= max_adu_size
        /\ reply.tx_length <= max_adu_size
    BY DEF BufferFits, SmallRecord
  <2>1. buffer_control.buffer_size
          \in {default_buffer_size, file_request_size, file_request_size + record_size}
    BY DEF ServerInv, TransferOK, GoodBuffer
  <2>2. buffer_control.buffer_size <= max_adu_size
    BY <2>1, RecordSize DEF SmallRecord, default_buffer_size, file_request_size, max_adu_size
  <2>3. reply.tx_length <= max_adu_size
    BY DEF ServerInv, ReplyOK
  <2> QED  BY <2>1, <2>2, <2>3
<1> QED  BY <1>1, ServerInductive, PTL

(* After the first reset fewer requests are accepted without another one than the
   largest file has records. *)
THEOREM CountsAreBounded == Spec => []TransfersAreBounded
<1>1. ServerInv => TransfersAreBounded  BY DEF ServerInv, TransferOK
<1> QED  BY <1>1, ServerInductive, PTL

(* After the first reset a callback runs only when as many requests were
   accepted as its file has records. *)
THEOREM CallbacksAreEarned == Spec => CallbackEarned
<1>1. ServerInv /\ [Next]_vars =>
        [called' # 0 /\ defined' /\ hist.reset =>
           hist.accepted + 1 >= files[called'].amount_of_records]_vars
  BY ServerStep DEF Kept
<1> QED  BY <1>1, ServerInductive, PTL DEF Spec, CallbackEarned

(* An exception changes no register and no record, and only a failing flash
   write ends the transfer in progress. *)
THEOREM RefusalsChangeNothing == Spec => RefusedMeansUntouched
<1>1. ServerInv /\ [Next]_vars =>
        [reply'.exception # 0 =>
           /\ UNCHANGED <<value, data>>
           /\ \/ UNCHANGED <<buffer_control, file_record_counter>>
              \/ /\ reply'.function = "write_file"
                 /\ file_record_counter' = 0
                 /\ buffer_control'.buffer_size = default_buffer_size]_vars
  BY ServerStep DEF Kept
<1> QED  BY <1>1, ServerInductive, PTL DEF Spec, RefusedMeansUntouched
=============================================================================
