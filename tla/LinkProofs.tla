----------------------------- MODULE LinkProofs -----------------------------
(***************************************************************************)
(* Theorems of Link for every line: any number of frames lost or damaged,  *)
(* of reads that end too early and of restarts.                            *)
(***************************************************************************)
EXTENDS Link, FileBufferProofs

Node == INSTANCE ModbusServerProofs WITH Value <- HalfWord, Payload <- Content

(* The assumption the theorems of ModbusServerProofs rest on. *)
LEMMA NodeAssumption ==
  /\ record_size \in Node!Byte
  /\ files \in [Node!File -> Node!FileInfo]
  /\ flash_access \in BOOLEAN
  /\ Unset \subseteq Node!HalfWord
  /\ HalfWord \subseteq Node!HalfWord
  /\ Content # {}
<1>1. HalfWord = Node!HalfWord
  BY DEF HalfWord, Node!HalfWord
<1>2. Node!Byte = Server!Byte
  BY DEF Server!Byte, Node!Byte
<1>3. Node!File = Server!File
  BY DEF Server!File, Node!File, Server!files_count, Node!files_count
<1>4. Node!FileInfo = Server!FileInfo
  BY DEF Server!FileInfo, Node!FileInfo, Server!max_num_of_records, Node!max_num_of_records
<1>5. Content # {}
  BY DEF Content
<1> QED
  BY <1>1, <1>2, <1>3, <1>4, <1>5, LinkAssumed DEF LinkAssumption

LEMMA RecordBytes == record_size \in 0..255
  BY LinkAssumed DEF LinkAssumption, Server!Byte

-----------------------------------------------------------------------------
(* The line. *)

(* What a line a holds comes from the line b. *)
Within(a, b) == \A f \in a.frames : \E g \in b.frames : f.len = g.len /\ f.msg = g.msg

LEMMA Farther ==
  ASSUME NEW a \in Nat, NEW len \in Nat, NEW b \in Nat, NEW n \in Nat, a + len <= b
  PROVE  a + len <= b + n
  OBVIOUS

(* What is at a, len bytes long and ends before b, still does when both have moved
   n bytes to the front. *)
LEMMA Moved ==
  ASSUME NEW a \in Nat, NEW b \in Nat, NEW len \in Nat, NEW n \in Nat, a + len <= b
  PROVE  (a - n) + len <= b - n
  OBVIOUS

(* What is left of a line without a frame of it, and a frame in a longer line. *)
LEMMA Remains ==
  ASSUME NEW a \in Nat, NEW b \in Nat, NEW len \in Nat, a + len <= b
  PROVE  b - len \in Nat
  OBVIOUS

(* The same when what is behind the place at has moved by the n bytes lost there. *)
LEMMA ClosedUp ==
  ASSUME NEW a \in Nat, NEW b \in Nat, NEW len \in Nat, NEW at \in Nat, NEW n \in Nat,
         a + len <= b, a + len <= at \/ at + n <= a, b <= at \/ at + n <= b
  PROVE  /\ a - (IF a > at THEN n ELSE 0) \in Nat
         /\ a - (IF a > at THEN n ELSE 0) + len <= b - (IF b > at THEN n ELSE 0)
<1>1. CASE at + n <= a
  BY <1>1
<1>2. CASE at + n <= b /\ ~(at + n <= a)
  BY <1>2
<1>3. CASE b <= at /\ ~(at + n <= a)
  BY <1>3
<1>4. CASE n = 0
  BY <1>4
<1> QED  BY <1>1, <1>2, <1>3, <1>4

LEMMA EmptyOK == LineOK(Empty)
  BY DEF LineOK, Empty

LEMMA PutOK ==
  ASSUME NEW line, LineOK(line), NEW len \in 0..267, NEW msg
  PROVE  /\ LineOK(Put(line, len, msg))
         /\ \A f \in Put(line, len, msg).frames :
              f \in line.frames \/ (f.len = len /\ f.msg = msg)
<1> DEFINE new == [at |-> line.size, len |-> len, msg |-> msg]
<1>1. /\ Put(line, len, msg).frames = line.frames \cup {new}
      /\ Put(line, len, msg).size = line.size + len
  BY DEF Put
<1>2. new.at = line.size /\ new.len = len /\ new.msg = msg
  OBVIOUS
<1> HIDE DEF new
<1>3. line.size \in Nat /\ line.size + len \in Nat
  BY DEF LineOK
<1>4. ASSUME NEW f \in line.frames
      PROVE  /\ f.at \in Nat /\ f.len \in 0..267
             /\ f.at + f.len <= line.size
             /\ \A g \in line.frames \ {f} : f.at + f.len <= g.at \/ g.at + g.len <= f.at
  BY DEF LineOK, LongestFrame, Server!file_request_size
<1>5. ASSUME NEW f \in line.frames \cup {new}
      PROVE  /\ f.at \in Nat /\ f.len \in 0..267
             /\ f.at + f.len <= line.size + len
             /\ \A g \in (line.frames \cup {new}) \ {f} :
                  f.at + f.len <= g.at \/ g.at + g.len <= f.at
  <2>1. CASE f = new
    BY <1>2, <1>3, <1>4, <2>1
  <2>2. CASE f \in line.frames
    <3>1. f.at \in Nat /\ f.len \in 0..267 /\ f.at + f.len <= line.size
      BY <1>4, <2>2
    <3>2. f.at + f.len <= line.size + len
      <4>1. f.at \in Nat /\ f.len \in Nat /\ line.size \in Nat /\ len \in Nat
        BY <1>3, <3>1
      <4> QED  BY <3>1, <4>1, Farther
    <3>3. ASSUME NEW g \in (line.frames \cup {new}) \ {f}
          PROVE  f.at + f.len <= g.at \/ g.at + g.len <= f.at
      BY <1>2, <1>4, <2>2, <3>1
    <3> QED  BY <3>1, <3>2, <3>3
  <2> QED  BY <2>1, <2>2
<1>6. LineOK(Put(line, len, msg))
  BY <1>1, <1>3, <1>5 DEF LineOK, LongestFrame, Server!file_request_size
<1> QED  BY <1>1, <1>2, <1>6

LEMMA TakeOK ==
  ASSUME NEW line, LineOK(line), NEW n \in Nat, n <= line.size
  PROVE  LineOK(Take(line, n)) /\ Within(Take(line, n), line)
<1> DEFINE rest == {g \in line.frames : g.at >= n}
           new  == Take(line, n)
<1>1. new.frames = {Ahead(f, n) : f \in rest} /\ new.size = line.size - n
  BY DEF Take
<1>2. line.size - n \in Nat
  BY DEF LineOK
<1>3. ASSUME NEW f \in rest
      PROVE  /\ Ahead(f, n).at = f.at - n /\ Ahead(f, n).len = f.len
             /\ Ahead(f, n).msg = f.msg
             /\ f \in line.frames /\ f.at >= n
             /\ f.at \in Nat /\ f.len \in 0..267 /\ f.at + f.len <= line.size
             /\ \A g \in rest \ {f} : f.at + f.len <= g.at \/ g.at + g.len <= f.at
  BY DEF LineOK, Ahead, LongestFrame, Server!file_request_size
<1> HIDE DEF rest, new
<1>4. ASSUME NEW f \in rest
      PROVE  /\ f.at - n \in Nat /\ f.at - n + f.len <= line.size - n
             /\ \A g \in rest : g # f =>
                  f.at - n + f.len <= g.at - n \/ g.at - n + g.len <= f.at - n
  <2>1. f.at \in Nat /\ f.len \in 0..267 /\ f.at >= n /\ f.at + f.len <= line.size
    BY <1>3
  <2>2. line.size \in Nat /\ f.at \in Nat /\ f.len \in Nat /\ f.at + f.len <= line.size
    BY <2>1 DEF LineOK
  <2>3. ASSUME NEW g \in rest, g # f
        PROVE  f.at - n + f.len <= g.at - n \/ g.at - n + g.len <= f.at - n
    <3>1. g.at \in Nat /\ g.len \in Nat /\ f.at \in Nat /\ f.len \in Nat
      BY <1>3
    <3>2. f.at + f.len <= g.at => f.at - n + f.len <= g.at - n
      BY <3>1, Moved, Zenon
    <3>3. g.at + g.len <= f.at => g.at - n + g.len <= f.at - n
      BY <3>1, Moved, Zenon
    <3>4. f.at + f.len <= g.at \/ g.at + g.len <= f.at
      BY <1>3, <2>3
    <3> QED  BY <3>2, <3>3, <3>4, Zenon
  <2>4. f.at - n \in Nat
    BY <2>1
  <2>5. f.at - n + f.len <= line.size - n
    BY <2>2, Moved, Zenon
  <2> QED  BY <2>3, <2>4, <2>5
<1>5. ASSUME NEW h \in new.frames
      PROVE  /\ h.at \in Nat /\ h.len \in 0..267 /\ h.at + h.len <= line.size - n
             /\ \A k \in new.frames \ {h} : h.at + h.len <= k.at \/ k.at + k.len <= h.at
             /\ \E g \in line.frames : h.len = g.len /\ h.msg = g.msg
  <2>1. PICK f \in rest : h = Ahead(f, n)
    BY <1>1
  <2>2. h.at = f.at - n /\ h.len = f.len /\ h.msg = f.msg /\ f \in line.frames
    BY <1>3, <2>1
  <2>3. ASSUME NEW k \in new.frames, k # h
        PROVE  h.at + h.len <= k.at \/ k.at + k.len <= h.at
    <3>1. PICK g \in rest : k = Ahead(g, n)
      BY <1>1
    <3>2. k.at = g.at - n /\ k.len = g.len
      BY <1>3, <3>1
    <3>3. g # f
      BY <2>1, <2>3, <3>1
    <3> QED  BY <1>4, <2>2, <3>2, <3>3
  <2> QED  BY <1>3, <1>4, <2>2, <2>3
<1> QED
  BY <1>1, <1>2, <1>5 DEF LineOK, Within, new, LongestFrame, Server!file_request_size

LEMMA LostOK ==
  ASSUME NEW line, LineOK(line), NEW lost \in line.frames
  PROVE  LineOK(Lost(line, lost)) /\ Within(Lost(line, lost), line)
<1> DEFINE rest == line.frames \ {lost}
           by(g) == IF g.at > lost.at THEN lost.len ELSE 0
           new == Lost(line, lost)
<1>1. new.frames = {Ahead(g, by(g)) : g \in rest} /\ new.size = line.size - lost.len
  BY DEF Lost
<1>2. /\ lost.at \in Nat /\ lost.len \in 0..267 /\ lost.at + lost.len <= line.size
      /\ line.size \in Nat
  BY DEF LineOK, LongestFrame, Server!file_request_size
<1>3. ASSUME NEW f \in rest
      PROVE  /\ Ahead(f, by(f)).at = f.at - by(f) /\ Ahead(f, by(f)).len = f.len
             /\ Ahead(f, by(f)).msg = f.msg
             /\ f \in line.frames
             /\ f.at \in Nat /\ f.len \in 0..267 /\ f.at + f.len <= line.size
             /\ f.at + f.len <= lost.at \/ lost.at + lost.len <= f.at
             /\ \A g \in rest \ {f} : f.at + f.len <= g.at \/ g.at + g.len <= f.at
  BY DEF LineOK, Ahead, LongestFrame, Server!file_request_size
<1> HIDE DEF rest, new
<1>4. ASSUME NEW f \in rest
      PROVE  /\ f.at - by(f) \in Nat /\ f.at - by(f) + f.len <= line.size - lost.len
             /\ \A g \in rest : g # f =>
                  f.at - by(f) + f.len <= g.at - by(g) \/ g.at - by(g) + g.len <= f.at - by(f)
  <2>1. /\ f.at \in Nat /\ f.len \in 0..267 /\ f.at + f.len <= line.size
        /\ f.at + f.len <= lost.at \/ lost.at + lost.len <= f.at
    BY <1>3
  <2>0. /\ f.at \in Nat /\ f.len \in Nat /\ lost.at \in Nat /\ lost.len \in Nat
        /\ line.size \in Nat
    BY <1>2, <2>1
  <2>2. ASSUME NEW g \in rest, g # f
        PROVE  f.at - by(f) + f.len <= g.at - by(g) \/ g.at - by(g) + g.len <= f.at - by(f)
    <3>1. /\ g.at \in Nat /\ g.len \in 0..267
          /\ g.at + g.len <= lost.at \/ lost.at + lost.len <= g.at
      BY <1>3
    <3>0. g.at \in Nat /\ g.len \in Nat
      BY <3>1
    <3>2. f.at + f.len <= g.at \/ g.at + g.len <= f.at
      BY <1>3, <2>2
    <3>3. CASE f.at + f.len <= g.at
      <4>1. g.at <= lost.at \/ lost.at + lost.len <= g.at
        BY <1>2, <3>1
      <4>2. f.at - by(f) + f.len <= g.at - by(g)
        BY <2>0, <2>1, <3>0, <3>3, <4>1, ClosedUp
      <4> QED  BY <4>2
    <3>4. CASE g.at + g.len <= f.at
      <4>1. f.at <= lost.at \/ lost.at + lost.len <= f.at
        BY <1>2, <2>1
      <4>2. g.at - by(g) + g.len <= f.at - by(f)
        BY <2>0, <3>0, <3>1, <3>4, <4>1, ClosedUp
      <4> QED  BY <4>2
    <3> QED  BY <3>2, <3>3, <3>4
  <2>3. /\ (IF line.size > lost.at THEN lost.len ELSE 0) = lost.len
        /\ lost.at + lost.len <= line.size
    BY <1>2
  <2>4. /\ f.at - by(f) \in Nat
        /\ f.at - by(f) + f.len <= line.size - (IF line.size > lost.at THEN lost.len ELSE 0)
    BY <2>0, <2>1, <2>3, ClosedUp
  <2> QED  BY <2>2, <2>3, <2>4
<1>5. ASSUME NEW h \in new.frames
      PROVE  /\ h.at \in Nat /\ h.len \in 0..267 /\ h.at + h.len <= line.size - lost.len
             /\ \A k \in new.frames \ {h} : h.at + h.len <= k.at \/ k.at + k.len <= h.at
             /\ \E g \in line.frames : h.len = g.len /\ h.msg = g.msg
  <2>1. PICK f \in rest : h = Ahead(f, by(f))
    BY <1>1
  <2>2. h.at = f.at - by(f) /\ h.len = f.len /\ h.msg = f.msg /\ f \in line.frames
    BY <1>3, <2>1
  <2>3. ASSUME NEW k \in new.frames, k # h
        PROVE  h.at + h.len <= k.at \/ k.at + k.len <= h.at
    <3>1. PICK g \in rest : k = Ahead(g, by(g))
      BY <1>1
    <3>2. k.at = g.at - by(g) /\ k.len = g.len
      BY <1>3, <3>1
    <3>3. g # f
      BY <2>1, <2>3, <3>1
    <3> HIDE DEF by
    <3> QED  BY <1>4, <2>2, <3>2, <3>3
  <2> QED  BY <1>3, <1>4, <2>2, <2>3
<1>6. line.size - lost.len \in Nat
  <2>1. lost.len \in Nat
    BY <1>2
  <2> QED  BY <1>2, <2>1, Remains, Zenon
<1> QED
  BY <1>1, <1>5, <1>6 DEF LineOK, Within, new, LongestFrame, Server!file_request_size

LEMMA DamagedOK ==
  ASSUME NEW line, LineOK(line), NEW f \in line.frames
  PROVE  LineOK(Damaged(line, f)) /\ Within(Damaged(line, f), line)
<1>1. Damaged(line, f).size = line.size /\ Damaged(line, f).frames = line.frames \ {f}
  BY DEF Damaged
<1> QED  BY <1>1 DEF LineOK, Within

(* The bytes the node sends back as they came. *)
LEMMA EchoedOK ==
  ASSUME LineOK(up), LineOK(down), NEW n \in Nat, n <= up.size
  PROVE  /\ LineOK(Echoed(n))
         /\ \A f \in Echoed(n).frames :
              \/ f \in down.frames
              \/ f.msg.kind = "echo" /\ \E g \in up.frames : f.msg.id = g.msg.id
<1> DEFINE back(g) == [at |-> down.size + g.at, len |-> g.len, msg |-> Answer("echo", g.msg.id, 0)]
           sent == {g \in up.frames : g.at + g.len <= n}
           new  == Echoed(n)
<1>1. new.size = down.size + n /\ new.frames = down.frames \cup {back(g) : g \in sent}
  BY DEF Echoed
<1>2. down.size \in Nat /\ down.size + n \in Nat
  BY DEF LineOK
<1>3. ASSUME NEW f \in down.frames
      PROVE  /\ f.at \in Nat /\ f.len \in 0..267 /\ f.at + f.len <= down.size
             /\ \A g \in down.frames \ {f} : f.at + f.len <= g.at \/ g.at + g.len <= f.at
  BY DEF LineOK, LongestFrame, Server!file_request_size
<1>4. ASSUME NEW g \in sent
      PROVE  /\ back(g).at = down.size + g.at /\ back(g).len = g.len
             /\ back(g).msg.kind = "echo" /\ back(g).msg.id = g.msg.id
             /\ g \in up.frames /\ g.at \in Nat /\ g.len \in 0..267 /\ g.at + g.len <= n
             /\ \A h \in sent \ {g} : g.at + g.len <= h.at \/ h.at + h.len <= g.at
  BY DEF LineOK, LongestFrame, Server!file_request_size, Answer
<1> HIDE DEF back, sent, new
<1>5. ASSUME NEW f \in down.frames, NEW g \in sent
      PROVE  f.at + f.len <= back(g).at /\ f.at + f.len <= down.size + n
  <2>0. f.at \in Nat /\ f.len \in Nat /\ f.at + f.len <= down.size
    BY <1>3
  <2>1. /\ f.at \in Nat /\ f.len \in Nat /\ f.at + f.len <= down.size
        /\ g.at \in Nat /\ back(g).at = down.size + g.at
    BY <1>4, <2>0
  <2>2. /\ f.at + f.len <= down.size + g.at
        /\ f.at + f.len <= down.size + n
    BY <1>2, <2>1, Farther, Zenon
  <2> QED  BY <2>1, <2>2
<1>6. ASSUME NEW g \in sent
      PROVE  /\ back(g).at \in Nat /\ back(g).len \in 0..267
             /\ back(g).at + back(g).len <= down.size + n
  BY <1>2, <1>4
<1>7. ASSUME NEW g \in sent, NEW h \in sent, back(g) # back(h)
      PROVE  \/ back(g).at + back(g).len <= back(h).at
             \/ back(h).at + back(h).len <= back(g).at
  <2>1. g # h
    BY <1>7
  <2>2. g.at + g.len <= h.at \/ h.at + h.len <= g.at
    BY <1>4, <2>1
  <2>3. /\ g.at \in Nat /\ g.len \in Nat
        /\ back(g).at = down.size + g.at /\ back(g).len = g.len
    BY <1>4
  <2>4. /\ h.at \in Nat /\ h.len \in Nat
        /\ back(h).at = down.size + h.at /\ back(h).len = h.len
    BY <1>4
  <2> QED  BY <1>2, <2>2, <2>3, <2>4
<1>8. ASSUME NEW f \in new.frames
      PROVE  /\ f.at \in Nat /\ f.len \in 0..267 /\ f.at + f.len <= down.size + n
             /\ \A g \in new.frames \ {f} : f.at + f.len <= g.at \/ g.at + g.len <= f.at
             /\ \/ f \in down.frames
                \/ f.msg.kind = "echo" /\ \E g \in up.frames : f.msg.id = g.msg.id
  <2>1. CASE f \in down.frames
    <3>1. f.at \in Nat /\ f.len \in 0..267 /\ f.at + f.len <= down.size + n
      BY <1>2, <1>3, <2>1
    <3>2. ASSUME NEW g \in new.frames, g # f
          PROVE  f.at + f.len <= g.at \/ g.at + g.len <= f.at
      BY <1>1, <1>3, <1>5, <2>1, <3>2
    <3> QED  BY <2>1, <3>1, <3>2
  <2>2. CASE f \notin down.frames
    <3>1. PICK k \in sent : f = back(k)
      BY <1>1, <2>2
    <3>2. ASSUME NEW g \in new.frames, g # f
          PROVE  f.at + f.len <= g.at \/ g.at + g.len <= f.at
      BY <1>1, <1>5, <1>7, <3>1, <3>2
    <3>3. f.msg.kind = "echo" /\ f.msg.id = k.msg.id /\ k \in up.frames
      BY <1>4, <3>1
    <3> QED  BY <1>6, <3>1, <3>2, <3>3
  <2> QED  BY <2>1, <2>2
<1> QED
  BY <1>1, <1>2, <1>8 DEF LineOK, new, LongestFrame, Server!file_request_size
-----------------------------------------------------------------------------
(* The node. *)

(* A request of this client, whatever its length. *)
RequestOK(msg) ==
  \/ msg.kind = "ping"
  \/ msg.kind = "write_reg" /\ msg.args[1] \in HalfWord /\ msg.args[2] \in HalfWord
  \/ msg.kind = "read_regs" /\ msg.args[1] = 40000 /\ msg.args[2] = 1
  \/ msg.kind = "write_file"
  \/ msg.kind = "read_file" /\ msg.args[3] \in Nat

(* The length of an exception tells it from a register write that was done. *)
AnswerOK(len, msg) ==
  /\ msg.kind = "exception" => len = 5
  /\ msg.kind = "read_file" => msg.n \in Nat

NodeOK ==
  /\ Node!ServerInv
  /\ value[0] = record_size
  /\ reply.exception # 0 => reply.tx_length = 5

(* The same action under the two names it has here. *)
LEMMA SameRefusal ==
  ASSUME NEW f, NEW e, Server!Refuse(f, e)
  PROVE  Node!Refuse(f, e)
  BY DEF Server!Refuse, Node!Refuse, Server!exception_size, Node!exception_size

LEMMA SameKeep == Server!KeepTransfer => Node!KeepTransfer
  BY DEF Server!KeepTransfer, Node!KeepTransfer

LEMMA SameEcho == ASSUME NEW f, Server!Echo(f) PROVE Node!Echo(f)
  BY DEF Server!Echo, Node!Echo, Server!Answer, Node!Answer, Server!u8, Node!u8

LEMMA SameLeave == Server!LeaveBounds => Node!LeaveBounds
  BY DEF Server!LeaveBounds, Node!LeaveBounds, Server!resourceVars, Node!resourceVars

LEMMA SameForeign == ASSUME Server!ForeignAddress PROVE Node!ForeignAddress
  BY SameEcho DEF Server!ForeignAddress, Node!ForeignAddress, Server!resourceVars, Node!resourceVars

LEMMA SameBadCrc == Server!BadCrc => Node!BadCrc
  BY SameRefusal, SameKeep DEF Server!BadCrc, Node!BadCrc

LEMMA SameUnsupported == Server!Unsupported => Node!Unsupported
  BY SameRefusal, SameKeep DEF Server!Unsupported, Node!Unsupported

LEMMA SameRegisters ==
  /\ Node!Writable = {1, 2} /\ Server!Writable = {1, 2}
  /\ Node!registers_count = 4 /\ Server!registers_count = 4
  /\ \A a : Node!Offset(a) = a - 40000 /\ Server!Offset(a) = a - 40000
  /\ \A a : Node!BehindRegisters(a) <=> Server!BehindRegisters(a)
  BY DEF Node!Writable, Server!Writable, Node!control_reg, Server!control_reg,
     Node!record_counter_reg, Server!record_counter_reg, Node!registers_count,
     Server!registers_count, Node!Offset, Server!Offset, Node!holding_regs_offset,
     Server!holding_regs_offset, Node!BehindRegisters, Server!BehindRegisters

LEMMA SameBuffer ==
  /\ \A b, n : Node!setBufferSize(b, n) = Server!setBufferSize(b, n)
  /\ \A b, reg, v : Node!RegisterCallback(b, reg, v) = Server!RegisterCallback(b, reg, v)
<1>1. \A b, n : Node!setBufferSize(b, n) = Server!setBufferSize(b, n)
  BY DEF Node!setBufferSize, Server!setBufferSize, Node!u8, Server!u8,
     Node!default_buffer_size, Server!default_buffer_size
<1> QED
  BY <1>1 DEF Node!RegisterCallback, Server!RegisterCallback,
     Node!record_counter_reg, Server!record_counter_reg,
     Node!file_read_prepare, Server!file_read_prepare,
     Node!file_write_prepare, Server!file_write_prepare,
     Node!file_request_size, Server!file_request_size

LEMMA SameWriteRegister ==
  ASSUME NEW a, NEW v, Server!WriteRegisterRequest(a, v)
  PROVE  Node!WriteRegisterRequest(a, v)
<1>1. CASE Server!WriteRegister(a, v)
  <2> DEFINE reg == Node!Offset(a)
  <2>1. Server!Offset(a) = reg /\ Server!Writable = Node!Writable
    BY SameRegisters
  <2>2. Server!RegisterCallback(buffer_control, reg, v) = Node!RegisterCallback(buffer_control, reg, v)
    BY SameBuffer
  <2>3. Node!Echo("write_reg")
    BY <1>1, SameEcho DEF Server!WriteRegister
  <2> HIDE DEF reg
  <2>4. /\ defined /\ reg \in Node!Writable
        /\ value' = [value EXCEPT ![reg] = v]
        /\ buffer_control' = Node!RegisterCallback(buffer_control, reg, v)
        /\ called' = 0
        /\ UNCHANGED <<data, file_record_counter, defined, hist>>
    BY <1>1, <2>1, <2>2 DEF Server!WriteRegister
  <2>5. Node!WriteRegister(a, v)
    BY <2>3, <2>4 DEF Node!WriteRegister, reg
  <2> QED  BY <2>5 DEF Node!WriteRegisterRequest
<1>2. CASE Server!WriteBehindRegisters(a)
  <2>1. Node!WriteBehindRegisters(a)
    BY <1>2, SameRegisters, SameLeave DEF Server!WriteBehindRegisters, Node!WriteBehindRegisters
  <2> QED  BY <2>1 DEF Node!WriteRegisterRequest
<1>3. CASE Server!RefuseWriteRegister(a)
  <2>1. Node!RefuseWriteRegister(a)
    BY <1>3, SameRegisters, SameRefusal, SameKeep
       DEF Server!RefuseWriteRegister, Node!RefuseWriteRegister
  <2> QED  BY <2>1 DEF Node!WriteRegisterRequest
<1> QED  BY <1>1, <1>2, <1>3 DEF Server!WriteRegisterRequest

LEMMA SameReadRegister ==
  ASSUME NEW a, NEW q, Server!ReadRegisterRequest(a, q)
  PROVE  Node!ReadRegisterRequest(a, q)
<1>1. /\ Node!AllReadable(a, q) <=> Server!AllReadable(a, q)
      /\ Node!InRange(a, q) <=> Server!InRange(a, q)
      /\ Node!RunsBehind(a, q) <=> Server!RunsBehind(a, q)
  BY DEF Node!AllReadable, Server!AllReadable, Node!InRange, Server!InRange,
     Node!RunsBehind, Server!RunsBehind, Node!Offset, Server!Offset,
     Node!holding_regs_offset, Server!holding_regs_offset, Node!registers_count,
     Server!registers_count, Node!Readable, Server!Readable,
     Node!record_size_reg, Server!record_size_reg
<1>2. CASE Server!ReadRegister(a, q)
  <2>1. Node!ReadRegister(a, q)
    BY <1>1, <1>2 DEF Server!ReadRegister, Node!ReadRegister, Server!Answer, Node!Answer,
       Server!u8, Node!u8, Server!resourceVars, Node!resourceVars
  <2> QED  BY <2>1 DEF Node!ReadRegisterRequest
<1>3. CASE Server!ReadBehindRegisters(a, q)
  <2>1. Node!ReadBehindRegisters(a, q)
    BY <1>1, <1>3, SameLeave DEF Server!ReadBehindRegisters, Node!ReadBehindRegisters
  <2> QED  BY <2>1 DEF Node!ReadRegisterRequest
<1>4. CASE Server!RefuseReadRegister(a, q)
  <2>1. Node!RefuseReadRegister(a, q)
    BY <1>1, <1>4, SameRefusal, SameKeep DEF Server!RefuseReadRegister, Node!RefuseReadRegister
  <2> QED  BY <2>1 DEF Node!ReadRegisterRequest
<1> QED  BY <1>2, <1>3, <1>4 DEF Server!ReadRegisterRequest

LEMMA SameProcess ==
  ASSUME NEW f, Server!fileOperationProcess(f) PROVE Node!fileOperationProcess(f)
<1>1. Server!resetFileOperation => Node!resetFileOperation
  BY SameBuffer DEF Server!resetFileOperation, Node!resetFileOperation,
     Server!default_buffer_size, Node!default_buffer_size
<1> QED
  BY <1>1 DEF Server!fileOperationProcess, Node!fileOperationProcess, Server!u16, Node!u16

LEMMA SameAccess ==
  ASSUME NEW f, NEW record, NEW length
  PROVE  Server!Accessible(f, record, length) <=> Node!Accessible(f, record, length)
  BY DEF Server!Accessible, Node!Accessible, Server!Words, Node!Words, Server!File, Node!File,
         Server!files_count, Node!files_count, Server!max_num_of_records, Node!max_num_of_records

LEMMA SameWriteFile ==
  ASSUME NEW f, NEW record, NEW length, NEW ok, NEW payload,
         Server!WriteFileRequest(f, record, length, ok, payload)
  PROVE  Node!WriteFileRequest(f, record, length, ok, payload)
<1>1. Server!WriteGranted(f, record, length, ok) => Node!WriteGranted(f, record, length, ok)
  BY SameAccess DEF Server!WriteGranted, Node!WriteGranted
<1>2. CASE Server!WriteRecord(f, record, length, ok, payload)
  <2>1. Node!Cell = Server!Cell
    BY DEF Server!Cell, Node!Cell, Server!Words, Node!Words, Server!File, Node!File,
           Server!files_count, Node!files_count
  <2>2. Node!fileOperationProcess(f) /\ Node!Echo("write_file")
    BY <1>2, SameProcess, SameEcho DEF Server!WriteRecord
  <2>3. Node!WriteRecord(f, record, length, ok, payload)
    BY <1>1, <1>2, <2>1, <2>2 DEF Server!WriteRecord, Node!WriteRecord
  <2> QED  BY <2>3 DEF Node!WriteFileRequest
<1>3. CASE Server!WriteFlash(f, record, length, ok)
  <2>1. Node!WriteFlash(f, record, length, ok)
    BY <1>1, <1>3, SameProcess, SameEcho DEF Server!WriteFlash, Node!WriteFlash
  <2> QED  BY <2>1 DEF Node!WriteFileRequest
<1>4. CASE Server!FlashFails(f, record, length, ok)
  <2>1. Node!FlashFails(f, record, length, ok)
    BY <1>1, <1>4, SameRefusal, SameBuffer
       DEF Server!FlashFails, Node!FlashFails, Server!resetFileOperation,
           Node!resetFileOperation, Server!default_buffer_size, Node!default_buffer_size
  <2> QED  BY <2>1 DEF Node!WriteFileRequest
<1>5. CASE Server!RefuseWriteFile(f, record, length, ok)
  <2>1. Node!RefuseWriteFile(f, record, length, ok)
    BY <1>5, SameAccess, SameRefusal, SameKeep
       DEF Server!RefuseWriteFile, Node!RefuseWriteFile
  <2> QED  BY <2>1 DEF Node!WriteFileRequest
<1> QED  BY <1>2, <1>3, <1>4, <1>5 DEF Server!WriteFileRequest

LEMMA SameReadFile ==
  ASSUME NEW f, NEW record, NEW length, NEW ok, Server!ReadFileRequest(f, record, length, ok)
  PROVE  Node!ReadFileRequest(f, record, length, ok)
<1>1. CASE Server!ReadRecord(f, record, length, ok)
  <2>1. Node!fileOperationProcess(f) /\ Node!Accessible(f, record, length)
    BY <1>1, SameProcess, SameAccess DEF Server!ReadRecord
  <2>2. Node!ReadRecord(f, record, length, ok)
    BY <1>1, <2>1 DEF Server!ReadRecord, Node!ReadRecord, Server!Answer, Node!Answer,
       Server!u8, Node!u8
  <2> QED  BY <2>2 DEF Node!ReadFileRequest
<1>2. CASE Server!RefuseReadFile(f, record, length, ok)
  <2>1. Node!RefuseReadFile(f, record, length, ok)
    BY <1>2, SameAccess, SameRefusal, SameKeep
       DEF Server!RefuseReadFile, Node!RefuseReadFile
  <2> QED  BY <2>1 DEF Node!ReadFileRequest
<1> QED  BY <1>1, <1>2 DEF Server!ReadFileRequest

(* What the types of the node say about the parts the line depends on. *)
LEMMA NodeTypes ==
  ASSUME NodeOK
  PROVE  /\ value \in [0..3 -> HalfWord]
         /\ buffer_control.buffer_size \in 8..255
         /\ buffer_control.buffer_size > 8 => buffer_control.extended_mode
         /\ reply.tx_length \in 0..255
<1>1. value \in [0..3 -> HalfWord]
  BY DEF NodeOK, Node!ServerInv, Node!DataOK, HalfWord, Node!HalfWord, Node!Register,
     Node!registers_count
<1>2. /\ buffer_control.buffer_size \in 8..255
      /\ buffer_control.buffer_size > 8 => buffer_control.extended_mode
  BY DEF NodeOK, Node!ServerInv, Node!TransferOK, Node!GoodBuffer, Node!BufferControl,
     Node!default_buffer_size
<1>3. reply.tx_length \in 0..255
  BY DEF NodeOK, Node!ServerInv, Node!ReplyOK, Node!ReplyType, Node!Byte
<1> QED  BY <1>1, <1>2, <1>3

(* A step of the node that leaves the record size in its register, and whose reply
   is an exception of the right length, another answer, or the one before. *)
LEMMA NodeStep ==
  ASSUME NodeOK, Node!Kept, value'[0] = value[0],
         \/ reply'.exception = 0
         \/ reply'.tx_length = 5
         \/ reply' = reply
  PROVE  NodeOK'
  BY DEF NodeOK, Node!Kept

LEMMA RefusesShortly ==
  ASSUME NEW f, NEW e, Server!Refuse(f, e)
  PROVE  value' = value /\ reply'.tx_length = 5 /\ reply'.exception = e
  BY DEF Server!Refuse, Server!exception_size

LEMMA EchoesWhole ==
  ASSUME NodeOK, NEW f, Server!Echo(f)
  PROVE  reply'.exception = 0 /\ reply'.tx_length = buffer_control.buffer_size
<1>1. buffer_control.buffer_size \in 8..255
  BY NodeTypes
<1>2. Server!u8(buffer_control.buffer_size) = buffer_control.buffer_size
  BY <1>1 DEF Server!u8
<1> QED  BY <1>2 DEF Server!Echo, Server!Answer

(* What is no request, or one the node does not support. *)
LEMMA NodeRefuses ==
  ASSUME NodeOK, Server!BadCrc \/ Server!ForeignAddress \/ Server!Unsupported
  PROVE  /\ NodeOK' /\ value' = value
         /\ Server!BadCrc \/ Server!Unsupported => reply'.tx_length = 5 /\ reply'.exception # 0
         /\ UNCHANGED buffer_control
<1>1. Node!ForeignAddress \/ Node!BadCrc \/ Node!Unsupported
  BY SameForeign, SameBadCrc, SameUnsupported
<1>2. Node!Kept
  BY <1>1, Node!FrameStep, NodeAssumption DEF NodeOK
<1>3. CASE Server!BadCrc \/ Server!Unsupported
  <2>1. value' = value /\ reply'.tx_length = 5 /\ reply'.exception # 0 /\ UNCHANGED buffer_control
    BY <1>3, RefusesShortly DEF Server!BadCrc, Server!Unsupported, Server!KeepTransfer
  <2> QED  BY <1>2, <2>1, NodeStep
<1>4. CASE ~(Server!BadCrc \/ Server!Unsupported)
  <2>1. value' = value /\ reply'.exception = 0 /\ UNCHANGED buffer_control
    BY <1>4, EchoesWhole DEF Server!ForeignAddress, Server!resourceVars
  <2> QED  BY <1>2, <1>4, <2>1, NodeStep
<1> QED  BY <1>3, <1>4

(* A register write: done, echoed and in the register, refused, or out of bounds.
   The number of a register is no address of one. *)
LEMMA NodeWrites ==
  ASSUME NodeOK, NEW a \in HalfWord, NEW v \in HalfWord, Server!WriteRegisterRequest(a, v)
  PROVE  /\ NodeOK'
         /\ a = 2 => reply'.exception # 0
         /\ a # 40004 => \/ /\ reply'.exception = 0
                            /\ reply'.tx_length = buffer_control.buffer_size
                            /\ value'[a - 40000] = v
                         \/ /\ reply'.exception # 0 /\ UNCHANGED <<value, buffer_control>>
<1>0. a \in Nat
  BY DEF HalfWord
<1>1. Node!WriteRegisterRequest(a, v) /\ v \in Node!HalfWord
  BY SameWriteRegister DEF HalfWord, Node!HalfWord
<1>2. Node!Kept
  BY <1>1, Node!WriteRegisterRequestStep, NodeAssumption DEF NodeOK
<1>3. Server!Offset(a) = a - 40000 /\ Server!Writable = {1, 2} /\ Server!registers_count = 4
  BY SameRegisters
<1>4. CASE Server!WriteRegister(a, v)
  <2>1. /\ value' = [value EXCEPT ![a - 40000] = v] /\ a - 40000 \in {1, 2}
        /\ Server!Echo("write_reg")
    BY <1>3, <1>4 DEF Server!WriteRegister
  <2>2. value \in [0..3 -> HalfWord]
    BY NodeTypes
  <2>3. reply'.exception = 0 /\ reply'.tx_length = buffer_control.buffer_size
    BY <2>1, EchoesWhole
  <2>4. value'[0] = value[0] /\ value'[a - 40000] = v /\ a # 2
    BY <1>0, <2>1, <2>2
  <2> QED  BY <1>2, <2>3, <2>4, NodeStep
<1>5. CASE Server!WriteBehindRegisters(a)
  <2>1. value' = value /\ reply' = reply
    BY <1>5 DEF Server!WriteBehindRegisters, Server!LeaveBounds, Server!resourceVars
  <2>2. Server!Offset(a) = Server!registers_count
    BY <1>5 DEF Server!WriteBehindRegisters, Server!BehindRegisters
  <2>3. a = 40004
    BY <1>0, <1>3, <2>2
  <2> QED  BY <1>2, <2>1, <2>3, NodeStep
<1>6. CASE Server!RefuseWriteRegister(a)
  <2>1. /\ value' = value /\ reply'.tx_length = 5 /\ reply'.exception = 4
        /\ UNCHANGED buffer_control
    BY <1>6, RefusesShortly DEF Server!RefuseWriteRegister, Server!KeepTransfer
  <2> QED  BY <1>2, <2>1, NodeStep
<1> QED  BY <1>4, <1>5, <1>6 DEF Server!WriteRegisterRequest

(* The record size register can be read. *)
LEMMA NodeReads ==
  ASSUME NodeOK, Server!ReadRegisterRequest(40000, 1)
  PROVE  /\ NodeOK' /\ value' = value /\ UNCHANGED buffer_control
         /\ reply'.tx_length = 7 /\ reply'.exception = 0
<1>1. Node!ReadRegisterRequest(40000, 1)
  BY SameReadRegister
<1>2. 40000 \in Node!Address /\ 1 \in Node!Quantity
  BY DEF Node!Address, Node!Quantity, Node!holding_regs_offset, Node!registers_count
<1>3. Node!Kept
  BY <1>1, <1>2, Node!ReadRegisterRequestStep, NodeAssumption DEF NodeOK
<1>4. Server!Offset(40000) = 0 /\ Server!registers_count = 4
  BY SameRegisters
<1>5. Server!AllReadable(40000, 1)
  BY <1>4 DEF Server!AllReadable, Server!Readable, Server!record_size_reg
<1>6. Server!InRange(40000, 1) /\ ~Server!RunsBehind(40000, 1)
  BY <1>4 DEF Server!InRange, Server!RunsBehind
<1>7. Server!ReadRegister(40000, 1)
  BY <1>5, <1>6
     DEF Server!ReadRegisterRequest, Server!ReadBehindRegisters, Server!RefuseReadRegister
<1>8. /\ reply'.exception = 0 /\ reply'.tx_length = 7 /\ value' = value /\ UNCHANGED buffer_control
  BY <1>7 DEF Server!ReadRegister, Server!Answer, Server!u8, Server!resourceVars
<1> QED  BY <1>3, <1>8, NodeStep

LEMMA NodeWritesFile ==
  ASSUME NodeOK, NEW f, NEW record, NEW length, NEW ok,
         NEW payload \in [0..Server!Words - 1 -> Content],
         Server!WriteFileRequest(f, record, length, ok, payload)
  PROVE  NodeOK'
<1>1. payload \in [0..Node!Words - 1 -> Content]
  BY DEF Server!Words, Node!Words
<1>2. Node!WriteFileRequest(f, record, length, ok, payload)
  BY SameWriteFile
<1>3. Node!Kept
  BY <1>1, <1>2, Node!WriteFileRequestStep, NodeAssumption DEF NodeOK
<1>4. value' = value /\ (reply'.exception = 0 \/ reply'.tx_length = 5)
  <2>1. CASE Server!WriteRecord(f, record, length, ok, payload)
    BY <2>1, EchoesWhole DEF Server!WriteRecord
  <2>2. CASE Server!WriteFlash(f, record, length, ok)
    BY <2>2, EchoesWhole DEF Server!WriteFlash
  <2>3. CASE Server!FlashFails(f, record, length, ok)
    BY <2>3, RefusesShortly DEF Server!FlashFails
  <2>4. CASE Server!RefuseWriteFile(f, record, length, ok)
    BY <2>4, RefusesShortly DEF Server!RefuseWriteFile
  <2> QED  BY <2>1, <2>2, <2>3, <2>4 DEF Server!WriteFileRequest
<1> QED  BY <1>3, <1>4, NodeStep

LEMMA NodeReadsFile ==
  ASSUME NodeOK, NEW f, NEW record, NEW length \in Nat, NEW ok,
         Server!ReadFileRequest(f, record, length, ok)
  PROVE  NodeOK'
<1>1. Node!ReadFileRequest(f, record, length, ok)
  BY SameReadFile
<1>2. Node!Kept
  BY <1>1, Node!ReadFileRequestStep, NodeAssumption DEF NodeOK
<1>3. value' = value /\ (reply'.exception = 0 \/ reply'.tx_length = 5)
  <2>1. CASE Server!ReadRecord(f, record, length, ok)
    BY <2>1 DEF Server!ReadRecord, Server!Answer
  <2>2. CASE Server!RefuseReadFile(f, record, length, ok)
    BY <2>2, RefusesShortly DEF Server!RefuseReadFile
  <2> QED  BY <2>1, <2>2 DEF Server!ReadFileRequest
<1> QED  BY <1>2, <1>3, NodeStep

(* The answer to a request of the client. *)
LEMMA NodeAnswers ==
  ASSUME NodeOK, NEW msg, RequestOK(msg), Handle(msg)
  PROVE  /\ NodeOK'
         /\ reply'.tx_length \in 0..255
         /\ AnswerOK(reply'.tx_length, AnswerTo(msg)) /\ AnswerTo(msg).id = msg.id
         /\ msg.kind = "write_reg" /\ msg.args[1] = 2 => AnswerTo(msg).kind = "exception"
<1>1. NodeOK' /\ (msg.kind = "write_reg" /\ msg.args[1] = 2 => reply'.exception # 0)
  <2>1. CASE msg.kind = "ping"
    BY <2>1, NodeRefuses DEF Handle
  <2>2. CASE msg.kind = "write_reg"
    <3>1. /\ Server!WriteRegisterRequest(msg.args[1], msg.args[2])
          /\ msg.args[1] \in HalfWord /\ msg.args[2] \in HalfWord
      BY <2>2 DEF Handle, RequestOK
    <3> QED  BY <3>1, NodeWrites
  <2>3. CASE msg.kind = "read_regs"
    <3>1. Server!ReadRegisterRequest(40000, 1)
      BY <2>3 DEF Handle, RequestOK
    <3> QED  BY <2>3, <3>1, NodeReads
  <2>4. CASE msg.kind = "write_file"
    <3> DEFINE payload == [w \in 0..Server!Words - 1 |-> 0]
    <3>1. Server!WriteFileRequest(msg.args[1], msg.args[2], msg.args[3], msg.args[4], payload)
      BY <2>4 DEF Handle
    <3>2. payload \in [0..Server!Words - 1 -> Content]
      BY DEF Content
    <3> HIDE DEF payload
    <3> QED  BY <2>4, <3>1, <3>2, NodeWritesFile
  <2>5. CASE msg.kind = "read_file"
    <3>1. msg.args[3] \in Nat
      BY <2>5 DEF RequestOK
    <3>2. Server!ReadFileRequest(msg.args[1], msg.args[2], msg.args[3], TRUE)
      BY <2>5 DEF Handle
    <3> QED  BY <2>5, <3>1, <3>2, NodeReadsFile
  <2> QED  BY <2>1, <2>2, <2>3, <2>4, <2>5 DEF RequestOK
<1>2. reply'.tx_length \in 0..255 /\ (reply'.exception # 0 => reply'.tx_length = 5)
  <2>1. reply'.tx_length \in Node!Byte
    BY <1>1 DEF NodeOK, Node!ServerInv, Node!ReplyOK, Node!ReplyType
  <2> QED  BY <1>1, <2>1 DEF NodeOK, Node!Byte
<1>3. CASE reply'.exception # 0
  <2>1. AnswerTo(msg) = Answer("exception", msg.id, 0)
    BY <1>3 DEF AnswerTo
  <2> QED  BY <1>1, <1>2, <1>3, <2>1 DEF Answer, AnswerOK
<1>4. CASE reply'.exception = 0
  <2>1. AnswerTo(msg) = Answer(msg.kind, msg.id, IF msg.kind = "read_file" THEN msg.args[3] ELSE 0)
    BY <1>4 DEF AnswerTo
  <2>2. msg.kind # "exception" /\ (msg.kind = "read_file" => msg.args[3] \in Nat)
    BY DEF RequestOK
  <2> QED  BY <1>1, <1>2, <1>4, <2>1, <2>2 DEF Answer, AnswerOK
<1> QED  BY <1>3, <1>4

LEMMA NodeRests == ASSUME NodeOK, UNCHANGED serverVars PROVE NodeOK'
<1>1. Node!ServerInv'
  BY Node!ServerStutter, NodeAssumption DEF NodeOK, Node!vars, serverVars
<1> QED  BY <1>1 DEF NodeOK, serverVars

-----------------------------------------------------------------------------
(* The client's buffer. *)

LEMMA HalfWordFacts == ASSUME NEW n \in Nat PROVE u16(n) \in HalfWord
<1>1. n % 65536 \in Int /\ 0 <= n % 65536 /\ n % 65536 < 65536
  OBVIOUS
<1> QED  BY <1>1 DEF u16, HalfWord

LEMMA RecordCount ==
  ASSUME NEW size \in Nat, NEW r \in 1..255
  PROVE  calcNumOfRecords(size, r) \in HalfWord
<1> DEFINE q == size \div r
           c == IF size % r # 0 THEN q + 1 ELSE q
<1>1. c \in Nat
  BY Division
<1>2. calcNumOfRecords(size, r) \in {0, u16(c)}
  BY DEF calcNumOfRecords
<1> HIDE DEF c, q
<1>3. u16(c) \in HalfWord /\ 0 \in HalfWord
  BY <1>1, HalfWordFacts DEF HalfWord
<1> QED  BY <1>2, <1>3

(* A buffer whose data, identity and sizes are set. *)
Refill(old, total, id, r, n) ==
  [old EXCEPT !.data = TRUE, !.allocated = total, !.id = id, !.record_size = r,
              !.num_of_records = n]

LEMMA Refilled ==
  ASSUME NEW old \in FileObject, NEW total \in Nat, NEW id \in HalfWord, NEW r \in 0..255,
         NEW n \in HalfWord
  PROVE  Refill(old, total, id, r, n) \in FileObject
  BY DEF FileObject, Refill

LEMMA SetupReadType ==
  ASSUME file \in FileObject, NEW id \in 1..2, NEW size \in Nat, NEW r \in 1..255
  PROVE  /\ setupRead(file, id, size, r) \in FileObject
         /\ setupRead(file, id, size, r).record_size = r
<1> DEFINE f == setupRead(file, id, size, r)
           length == ReadLength(size, r)
           n == calcNumOfRecords(size, r)
           old == Flushed(file)
           g == Refill(old, length, id, r, n)
<1>1. old \in FileObject
  BY FlushedType
<1>2. length \in Nat
  BY DEF ReadLength
<1>3. n \in HalfWord /\ id \in HalfWord /\ r \in 0..255 /\ r # 0
  <2>1. id \in HalfWord
    BY DEF HalfWord
  <2> QED  BY <2>1, RecordCount
<1>4. f = [old EXCEPT !.data = TRUE, !.allocated = length, !.file_size = length, !.id = id,
                      !.record_size = r, !.num_of_records = n]
  BY <1>3 DEF setupRead
<1>5. f = [g EXCEPT !.file_size = length]
  BY <1>4 DEF Refill
<1> HIDE DEF n, length, old
<1>6. g \in FileObject
  BY <1>1, <1>2, <1>3, Refilled
<1>7. f.record_size = r
  BY <1>1, <1>4 DEF FileObject
<1> HIDE DEF f, g
<1>8. f \in FileObject
  BY <1>2, <1>5, <1>6 DEF FileObject
<1> QED  BY <1>7, <1>8 DEF f

LEMMA SetupWriteType ==
  ASSUME file \in FileObject, NEW id \in 1..2, NEW size \in Nat \ {0}, NEW r \in 1..255
  PROVE  /\ setupWriteFromMemory(file, id, size, r) \in FileObject
         /\ setupWriteFromDrive(file, id, size, size, r) \in FileObject
<1> DEFINE n == calcNumOfRecords(size, r)
           total == n * r
           old == Flushed(file)
           padded == Padded(file, id, size, r)
<1>1. old \in FileObject
  BY FlushedType
<1>2. n \in HalfWord /\ id \in HalfWord /\ r \in 0..255
  <2>1. id \in HalfWord
    BY DEF HalfWord
  <2> QED  BY <2>1, RecordCount
<1>3. total \in Nat
  BY <1>2 DEF HalfWord
<1>4. padded = Refill(old, total, id, r, n)
  BY DEF Padded, Refill
<1> HIDE DEF n, total, old
<1>5. padded \in FileObject
  <2>1. Refill(old, total, id, r, n) \in FileObject
    BY <1>1, <1>2, <1>3, Refilled
  <2> QED  BY <1>4, <2>1, Zenon
<1>6. setupWriteFromMemory(file, id, size, r) = [padded EXCEPT !.ready = TRUE]
  BY DEF setupWriteFromMemory
<1>7. setupWriteFromDrive(file, id, size, size, r) = [padded EXCEPT !.file_size = size, !.ready = TRUE]
  <2>1. size # 0 /\ (size = size) = TRUE
    OBVIOUS
  <2> QED  BY <2>1, Zenon DEF setupWriteFromDrive
<1> HIDE DEF padded
<1> QED  BY <1>5, <1>6, <1>7 DEF FileObject

LEMMA LoadedType ==
  ASSUME file \in FileObject, NEW n
  PROVE  /\ Loaded(file, n) \in FileObject
         /\ Loaded(file, n).num_of_records = file.num_of_records
         /\ Loaded(file, n).record_size = file.record_size
<1> DEFINE k == u16(file.counter + 1)
           ready == file.ready \/ k = file.num_of_records
<1>1. k \in HalfWord
  <2>1. file.counter + 1 \in Nat
    BY DEF FileObject, HalfWord
  <2> QED  BY <2>1, HalfWordFacts
<1>2. ready \in BOOLEAN
  BY DEF FileObject
<1>3. Loaded(file, n) = file \/ Loaded(file, n) = [file EXCEPT !.counter = k, !.ready = ready]
  BY DEF Loaded
<1> HIDE DEF k, ready
<1> QED  BY <1>1, <1>2, <1>3 DEF FileObject

(* The half words of a record asked for. *)
LEMMA RecordLength ==
  ASSUME NEW f \in FileObject, f.record_size # 0, NEW i \in Nat
  PROVE  getActualRecordLength(f, i) \div 2 \in Nat
<1> DEFINE r == f.record_size
           n == getActualRecordLength(f, i)
<1>1. r \in 1..255 /\ r \in Nat \ {0} /\ f.file_size \in Nat
  BY DEF FileObject
<1>2. f.file_size % r \in 0..r - 1
  BY <1>1, Division
<1>3. n \in {0, f.file_size % r, r}
  BY DEF getActualRecordLength
<1> HIDE DEF r, n
<1>4. n \in Nat
  BY <1>1, <1>2, <1>3
<1>5. n \div 2 \in Nat
  BY <1>4
<1> QED  BY <1>5 DEF n

-----------------------------------------------------------------------------
(* The types. *)

Calls   == {"none", "ping", "write_reg", "regs", "read", "write", "stuck"}
Stages  == {"none", "single", "counter", "control", "record"}
Written == HalfWord \X HalfWord

ClientType ==
  [call : Calls, stage : Stages, index : Nat, expected : Nat, sent : Nat,
   available : BOOLEAN, record_size : 0..255, did : Calls,
   result : {"none", "ok", "failed"}, wrote : Written]

(* The stages of the calls. *)
Staged(c) ==
  /\ c \in ClientType
  /\ c.stage = "none" <=> c.call \in {"none", "stuck"}
  /\ c.stage = "single" <=> c.call \in {"ping", "write_reg", "regs"}
  /\ c.stage # "record" /\ c.call # "stuck" => c.index = 0

(* A transfer in progress has its file. *)
CallOK(c, f) ==
  /\ f \in FileObject
  /\ c.stage = "record" => c.index < f.num_of_records
  /\ c.call = "read" => f.record_size # 0

RequestsOK(line, sent) ==
  LineOK(line) /\ \A f \in line.frames : f.msg.id \in 0..sent /\ RequestOK(f.msg)

AnswersOK(line, sent) ==
  LineOK(line) /\ \A f \in line.frames : f.msg.id \in 0..sent /\ AnswerOK(f.len, f.msg)

TypeInv ==
  /\ NodeOK
  /\ RequestsOK(up, client.sent) /\ AnswersOK(down, client.sent)
  /\ Staged(client)
  /\ CallOK(client, file)

LEMMA NewFileType == NewFile \in FileObject
  BY DEF NewFile, FileObject, HalfWord

LEMMA NewClientOK ==
  /\ Staged(NewClient) /\ NewClient.call = "none" /\ NewClient.stage = "none"
  /\ NewClient.did = "none"
  BY DEF NewClient, Staged, ClientType, Calls, Stages, Written, HalfWord

LEMMA TypeInit == Init => TypeInv
<1> SUFFICES ASSUME Init PROVE TypeInv
  OBVIOUS
<1>1. NodeOK
  <2>1. 0 \in HalfWord /\ record_size \in HalfWord
    BY RecordBytes DEF HalfWord
  <2>2. value = [r \in 0..3 |-> IF r = 0 THEN record_size ELSE 0]
    BY DEF Init, Server!Init, Server!StartsWith, Server!Register, Server!registers_count,
       Server!record_size_reg
  <2>3. Node!HalfWord = HalfWord /\ Node!Register = 0..3 /\ Node!Cell = Server!Cell
    BY DEF HalfWord, Node!HalfWord, Node!Register, Node!registers_count, Server!Cell, Node!Cell,
       Server!Words, Node!Words, Server!File, Node!File, Server!files_count, Node!files_count
  <2>4. Node!DataOK /\ value[0] = record_size
    <3>1. value \in [0..3 -> HalfWord] /\ value[0] = record_size
      BY <2>1, <2>2
    <3>2. (CHOOSE p \in Content : TRUE) \in Content
      BY DEF Content
    <3>3. data \in [Server!Cell -> Content]
      BY <3>2 DEF Init, Server!Init, Server!StartsWith
    <3> QED  BY <2>3, <3>1, <3>3 DEF Node!DataOK
  <2>5. /\ buffer_control = [extended_mode |-> FALSE, record_counter |-> 0, buffer_size |-> 8]
        /\ file_record_counter \in Unset
        /\ reply = [function |-> "none", exception |-> 0, tx_length |-> 0]
        /\ called = 0 /\ defined = TRUE /\ hist = [accepted |-> 0, reset |-> FALSE]
    BY DEF Init, Server!Init, Server!StartsWith, Server!default_buffer_size
  <2>6. Node!TransferOK
    <3>1. Node!GoodBuffer(buffer_control)
      BY <2>1, <2>3, <2>5 DEF Node!GoodBuffer, Node!BufferControl, Node!default_buffer_size
    <3>2. file_record_counter \in Node!HalfWord
      BY <2>5, NodeAssumption
    <3> QED
      BY <2>5, <3>1, <3>2 DEF Node!TransferOK, Node!Counted, Node!TransfersAreBounded
  <2>7. Node!ReplyOK
    BY <2>5 DEF Node!ReplyOK, Node!ReplyType, Node!Function, Node!Byte, Node!max_adu_size
  <2>8. reply.exception = 0
    BY <2>5
  <2> QED  BY <2>4, <2>6, <2>7, <2>8 DEF NodeOK, Node!ServerInv
<1>2. RequestsOK(up, client.sent) /\ AnswersOK(down, client.sent)
  BY EmptyOK DEF Init, RequestsOK, AnswersOK, Empty
<1>3. Staged(client) /\ client.call = "none" /\ client.stage = "none"
  BY NewClientOK DEF Init
<1>4. CallOK(client, file)
  BY <1>3, NewFileType DEF Init, CallOK
<1> QED  BY <1>1, <1>2, <1>3, <1>4 DEF TypeInv

(* The lengths of the frames. *)
LEMMA Lengths ==
  /\ createMessage("ping", 0) = 8 /\ getExpectedLength("ping", 0) = 5
  /\ createMessage("read_regs", 0) = 8 /\ getExpectedLength("read_regs", 2) = 7
  /\ createMessage("write_reg", 0) = 8 /\ getExpectedLength("write_reg", 0) = 8
  /\ createMessage("read_file", 0) = 12
  /\ \A n \in Nat : /\ createMessage("write_file", n) = 12 + n
                    /\ getExpectedLength("write_file", n) = 12 + n
                    /\ getExpectedLength("read_file", n) = 7 + n
<1>1. /\ RequestPdu.ping = 5 /\ RequestPdu.write_reg = 5 /\ RequestPdu.read_regs = 5
      /\ RequestPdu.write_file = 9 /\ RequestPdu.read_file = 9
  BY DEF RequestPdu
<1>2. /\ AnswerPdu.ping = 2 /\ AnswerPdu.write_reg = 5 /\ AnswerPdu.read_regs = 2
      /\ AnswerPdu.write_file = 9 /\ AnswerPdu.read_file = 4
  BY DEF AnswerPdu
<1> QED  BY <1>1, <1>2 DEF createMessage, getExpectedLength, rtu_adu_size

LEMMA LaterAnswers ==
  ASSUME NEW line, NEW sent \in Nat, AnswersOK(line, sent) PROVE AnswersOK(line, sent + 1)
  BY DEF AnswersOK

LEMMA FewerAnswers ==
  ASSUME NEW line, NEW sent \in Nat, AnswersOK(line, sent), NEW less, LineOK(less), Within(less, line)
  PROVE  AnswersOK(less, sent)
  BY DEF AnswersOK, Within

LEMMA FewerRequests ==
  ASSUME NEW line, NEW sent \in Nat, RequestsOK(line, sent), NEW less, LineOK(less), Within(less, line)
  PROVE  RequestsOK(less, sent)
  BY DEF RequestsOK, Within

LEMMA Expecting ==
  ASSUME NEW c \in ClientType, NEW sent \in Nat, NEW expected \in Nat
  PROVE  [c EXCEPT !.sent = sent, !.expected = expected] \in ClientType
  BY DEF ClientType

(* A request is sent. *)
LEMMA Sends ==
  ASSUME NEW c, Staged(c), RequestsOK(up, c.sent), NEW kind, NEW args, NEW n, NEW m,
         createMessage(kind, n) \in 0..267, getExpectedLength(kind, m) \in Nat,
         RequestOK([kind |-> kind, id |-> c.sent + 1, args |-> args]),
         Request(c, kind, args, n, m)
  PROVE  /\ RequestsOK(up', client'.sent)
         /\ client'.sent = c.sent + 1 /\ client'.expected = getExpectedLength(kind, m)
         /\ client'.call = c.call /\ client'.stage = c.stage /\ client'.index = c.index
         /\ client'.did = c.did /\ client'.result = c.result /\ client'.wrote = c.wrote
         /\ Staged(client')
         /\ \A f \in up'.frames : f.msg.id = client'.sent => f.msg.kind = kind /\ f.msg.args = args
<1> DEFINE msg == [kind |-> kind, id |-> c.sent + 1, args |-> args]
           len == createMessage(kind, n)
           expected == getExpectedLength(kind, m)
<1>1. up' = Put(up, len, msg) /\ client' = [c EXCEPT !.sent = c.sent + 1, !.expected = expected]
  BY DEF Request
<1>2. c \in ClientType /\ c.sent \in Nat
  BY DEF Staged, ClientType, Calls, Stages
<1>3. /\ msg.id = c.sent + 1 /\ msg.kind = kind /\ msg.args = args
      /\ RequestOK(msg) /\ len \in 0..267 /\ expected \in Nat
  OBVIOUS
<1> HIDE DEF msg, len, expected
<1>4. /\ client'.sent = c.sent + 1 /\ client'.expected = expected
      /\ client'.call = c.call /\ client'.stage = c.stage /\ client'.index = c.index
      /\ client'.did = c.did /\ client'.result = c.result /\ client'.wrote = c.wrote
  BY <1>1, <1>2 DEF ClientType, Calls, Stages
<1>5. client' \in ClientType
  <2> DEFINE sent == c.sent + 1
  <2>1. sent \in Nat /\ client' = [c EXCEPT !.sent = sent, !.expected = expected]
    BY <1>1, <1>2
  <2> HIDE DEF sent
  <2>2. [c EXCEPT !.sent = sent, !.expected = expected] \in ClientType
    BY <1>2, <1>3, <2>1, Expecting
  <2> QED  BY <2>1, <2>2
<1>6. Staged(client')
  BY <1>4, <1>5 DEF Staged
<1>7. LineOK(up') /\ \A f \in up'.frames : f \in up.frames \/ f.msg = msg
  <2>1. LineOK(up) /\ up' = Put(up, len, msg)
    BY <1>1 DEF RequestsOK
  <2>2. len \in 0..267
    BY <1>3
  <2>3. /\ LineOK(Put(up, len, msg))
        /\ \A f \in Put(up, len, msg).frames : f \in up.frames \/ (f.len = len /\ f.msg = msg)
    BY <2>1, <2>2, PutOK, Zenon
  <2> QED  BY <2>1, <2>3
<1>8. \A f \in up'.frames : f.msg.id \in 0..c.sent + 1 /\ RequestOK(f.msg)
  BY <1>2, <1>3, <1>7 DEF RequestsOK
<1>9. RequestsOK(up', client'.sent)
  BY <1>4, <1>7, <1>8 DEF RequestsOK
<1>10. ASSUME NEW f \in up'.frames, f.msg.id = c.sent + 1
       PROVE  f.msg.kind = kind /\ f.msg.args = args
  <2>1. f \notin up.frames
    BY <1>2, <1>10 DEF RequestsOK
  <2> QED  BY <1>3, <1>7, <2>1
<1> QED  BY <1>4, <1>6, <1>9, <1>10 DEF expected

-----------------------------------------------------------------------------
(* The steps of the client. *)

LEMMA Renamed ==
  ASSUME NEW c \in ClientType, NEW name \in Calls, NEW stage \in Stages, NEW d \in Calls,
         NEW result \in {"none", "ok", "failed"}, NEW w \in Written
  PROVE  [c EXCEPT !.call = name, !.stage = stage, !.did = d, !.result = result, !.wrote = w]
           \in ClientType
  BY DEF ClientType

LEMMA CallingFacts ==
  ASSUME Staged(client), Idle, NEW name, NEW stage,
         \/ name \in {"ping", "write_reg", "regs"} /\ stage = "single"
         \/ name \in {"read", "write"} /\ stage = "counter"
  PROVE  /\ Staged(Calling(name, stage))
         /\ Calling(name, stage).sent = client.sent /\ Calling(name, stage).call = name
         /\ Calling(name, stage).stage = stage
         /\ Calling(name, stage).did = "none" /\ Calling(name, stage).result = "none"
<1> DEFINE c == Calling(name, stage)
<1>1. client \in ClientType /\ client.call = "none" /\ client.stage = "none" /\ client.index = 0
  BY DEF Staged, Idle
<1>2. /\ c.sent = client.sent /\ c.call = name /\ c.stage = stage /\ c.index = 0
      /\ c.did = "none" /\ c.result = "none"
  BY <1>1 DEF Calling, ClientType, Calls, Stages
<1>3. c \in ClientType
  <2>1. <<0, 0>> \in Written
    BY DEF Written, HalfWord
  <2>2. name \in Calls /\ stage \in Stages /\ "none" \in Calls
    BY DEF Calls, Stages
  <2> DEFINE zeros == <<0, 0>>
  <2>3. c = [client EXCEPT !.call = name, !.stage = stage, !.did = "none", !.result = "none",
                           !.wrote = zeros]
    BY DEF Calling
  <2> HIDE DEF zeros, c
  <2>4. zeros \in Written
    BY <2>1 DEF zeros
  <2> QED  BY <1>1, <2>2, <2>3, <2>4, Renamed
<1> QED  BY <1>2, <1>3 DEF Staged

LEMMA CallEnds ==
  ASSUME Staged(client), NEW result \in {"ok", "failed"}
  PROVE  /\ Finish(client, result).call = "none" /\ Finish(client, result).stage = "none"
         /\ Finish(client, result).sent = client.sent
         /\ Finish(client, result).did = client.call /\ Finish(client, result).result = result
         /\ Finish(client, result).wrote = client.wrote
         /\ Finish(client, result).available = client.available
         /\ Staged(Finish(client, result))
<1> DEFINE c == Finish(client, result)
<1>1. client \in ClientType
  BY DEF Staged
<1>3. c \in ClientType
  BY <1>1 DEF Finish, ClientType, Calls, Stages
<1>4. /\ c.call = "none" /\ c.stage = "none" /\ c.index = 0 /\ c.sent = client.sent
      /\ c.did = client.call /\ c.result = result /\ c.wrote = client.wrote
      /\ c.available = client.available
  BY <1>1 DEF Finish, ClientType, Calls, Stages
<1> HIDE DEF c
<1>5. Staged(c)
  BY <1>3, <1>4 DEF Staged
<1> QED  BY <1>4, <1>5 DEF c

LEMMA CallSticks ==
  ASSUME Staged(client)
  PROVE  /\ Staged(Stuck)
         /\ Stuck.call = "stuck" /\ Stuck.stage = "none" /\ Stuck.sent = client.sent
         /\ Stuck.did = client.did /\ Stuck.result = client.result
<1>1. client \in ClientType
  BY DEF Staged
<1>2. /\ Stuck.call = "stuck" /\ Stuck.stage = "none" /\ Stuck.sent = client.sent
      /\ Stuck.did = client.did /\ Stuck.result = client.result
  BY <1>1 DEF Stuck, ClientType, Calls, Stages
<1>3. Stuck \in ClientType
  BY <1>1 DEF Stuck, ClientType, Calls, Stages
<1> QED  BY <1>2, <1>3 DEF Staged

(* A call whose status or record size is set anew is staged as before. *)
Anew(c, available, rs) == [c EXCEPT !.available = available, !.record_size = rs]

LEMMA StagedAnew ==
  ASSUME NEW c, Staged(c), NEW available \in BOOLEAN, NEW rs \in Server!Byte
  PROVE  LET d == Anew(c, available, rs)
         IN  /\ Staged(d) /\ d.call = c.call /\ d.stage = c.stage /\ d.sent = c.sent
             /\ d.index = c.index /\ d.expected = c.expected
             /\ d.did = c.did /\ d.result = c.result /\ d.wrote = c.wrote
             /\ d.available = available
<1> DEFINE d == Anew(c, available, rs)
<1>1. c \in ClientType
  BY DEF Staged
<1>2. d \in ClientType
  BY <1>1 DEF Anew, ClientType, Calls, Stages, Server!Byte
<1>3. /\ d.call = c.call /\ d.stage = c.stage /\ d.sent = c.sent /\ d.index = c.index
      /\ d.expected = c.expected
      /\ d.did = c.did /\ d.result = c.result /\ d.wrote = c.wrote /\ d.available = available
  BY <1>1 DEF Anew, ClientType, Calls, Stages
<1> QED  BY <1>2, <1>3 DEF Staged

(* The end of a call, or none in progress. *)
LEMMA EndTypes ==
  ASSUME TypeInv, NEW c, Staged(c), c.call = "none" \/ c.call = "stuck", c.sent = client.sent,
         client' = c, NodeOK', AnswersOK(down', client.sent), up' = up, file' \in FileObject
  PROVE  TypeInv'
<1>1. CallOK(c, file')
  BY DEF CallOK, Staged
<1> QED  BY <1>1 DEF TypeInv

(* A request: the first one of a call, or the next. *)
LEMMA SentTypes ==
  ASSUME TypeInv, NEW c, Staged(c), c.sent = client.sent, CallOK(c, file'),
         NodeOK', AnswersOK(down', client.sent),
         NEW kind, NEW args, NEW n, NEW m,
         createMessage(kind, n) \in 0..267, getExpectedLength(kind, m) \in Nat,
         RequestOK([kind |-> kind, id |-> c.sent + 1, args |-> args]),
         Request(c, kind, args, n, m)
  PROVE  /\ TypeInv'
         /\ client'.sent = client.sent + 1 /\ client'.expected = getExpectedLength(kind, m)
         /\ client'.call = c.call /\ client'.stage = c.stage
         /\ client'.did = c.did /\ client'.result = c.result /\ client'.wrote = c.wrote
         /\ \A f \in up'.frames : f.msg.id = client'.sent => f.msg.kind = kind /\ f.msg.args = args
<1>1. RequestsOK(up, c.sent) /\ client.sent \in Nat
  BY DEF TypeInv, Staged, ClientType
<1>2. /\ RequestsOK(up', client'.sent)
      /\ client'.sent = c.sent + 1 /\ client'.expected = getExpectedLength(kind, m)
      /\ client'.call = c.call /\ client'.stage = c.stage /\ client'.index = c.index
      /\ client'.did = c.did /\ client'.result = c.result /\ client'.wrote = c.wrote
      /\ Staged(client')
      /\ \A f \in up'.frames : f.msg.id = client'.sent => f.msg.kind = kind /\ f.msg.args = args
  BY <1>1, Sends
<1>3. AnswersOK(down', client'.sent)
  BY <1>1, <1>2, LaterAnswers
<1>4. CallOK(client', file')
  BY <1>2 DEF CallOK
<1> QED  BY <1>2, <1>3, <1>4 DEF TypeInv

(* What a call leaves: the file it keeps or sets up, and one request more. *)
LEMMA CallTypes ==
  ASSUME TypeInv, Idle, UNCHANGED <<serverVars, down>>,
         NEW c, Staged(c), c.sent = client.sent, c.stage # "record",
         file' \in FileObject, c.call = "read" => file'.record_size # 0,
         NEW kind, NEW args, NEW m,
         createMessage(kind, 0) \in 0..267, getExpectedLength(kind, m) \in Nat,
         RequestOK([kind |-> kind, id |-> client.sent + 1, args |-> args]),
         Request(c, kind, args, 0, m)
  PROVE  /\ TypeInv'
         /\ client'.sent = client.sent + 1 /\ client'.expected = getExpectedLength(kind, m)
         /\ client'.call = c.call /\ client'.stage = c.stage
         /\ client'.did = c.did /\ client'.result = c.result /\ client'.wrote = c.wrote
         /\ \A f \in up'.frames : f.msg.id = client'.sent => f.msg.kind = kind /\ f.msg.args = args
<1>1. NodeOK' /\ AnswersOK(down', client.sent)
  BY NodeRests DEF TypeInv
<1>2. CallOK(c, file')
  BY DEF CallOK
<1> QED  BY <1>1, <1>2, SentTypes

LEMMA FileType == TypeInv => file \in FileObject /\ Staged(client) /\ client.sent \in Nat
  BY DEF TypeInv, CallOK, Staged, ClientType, Calls, Stages

(* The calls of one exchange. *)
SingleCall ==
  \/ taskPing \/ taskReadRegisters
  \/ \E address \in WriteAddresses, v \in RegisterValues : taskWriteRegister(address, v)

(* The request of a call of one exchange. *)
Single(kind, args, m) ==
  \/ client'.call = "ping" /\ kind = "ping" /\ m = 0
  \/ client'.call = "regs" /\ kind = "read_regs" /\ m = 2 /\ args = <<40000, 1>>
  \/ client'.call = "write_reg" /\ kind = "write_reg" /\ m = 0 /\ args = client'.wrote

LEMMA SingleCallTypes ==
  ASSUME TypeInv, SingleCall
  PROVE  /\ TypeInv' /\ Idle
         /\ client'.stage = "single" /\ client'.did = "none" /\ client'.sent = client.sent + 1
         /\ UNCHANGED <<serverVars, down>> /\ log' = [log EXCEPT !.calls = log.calls + 1]
         /\ \E kind, args, m, c :
              /\ Single(kind, args, m) /\ createMessage(kind, 0) = 8
              /\ client'.expected = getExpectedLength(kind, m)
              /\ Request(c, kind, args, 0, m) /\ c.sent = client.sent
              /\ client'.wrote \in WriteAddresses \X RegisterValues \/ kind # "write_reg"
<1>0. /\ Call /\ Idle /\ UNCHANGED <<serverVars, down, file>>
      /\ log' = [log EXCEPT !.calls = log.calls + 1]
  BY DEF SingleCall, taskPing, taskReadRegisters, taskWriteRegister, Call
<1>1. file \in FileObject /\ Staged(client) /\ client.sent \in Nat /\ file' = file
  BY <1>0, FileType
<1>2. CASE taskPing
  <2> DEFINE c == Calling("ping", "single")
  <2>1. /\ Staged(c) /\ c.sent = client.sent /\ c.stage = "single" /\ c.call = "ping"
        /\ c.did = "none"
    BY <1>0, <1>1, CallingFacts
  <2> HIDE DEF c
  <2>2. Request(c, "ping", <<>>, 0, 0)
    BY <1>2 DEF taskPing, c
  <2>3. RequestOK([kind |-> "ping", id |-> client.sent + 1, args |-> <<>>])
    BY DEF RequestOK
  <2>4. createMessage("ping", 0) = 8 /\ createMessage("ping", 0) \in 0..267
        /\ getExpectedLength("ping", 0) \in Nat
    BY Lengths
  <2>5. /\ TypeInv' /\ client'.sent = client.sent + 1
        /\ client'.expected = getExpectedLength("ping", 0)
        /\ client'.call = "ping" /\ client'.stage = "single" /\ client'.did = "none"
    BY <1>0, <1>1, <2>1, <2>2, <2>3, <2>4, CallTypes
  <2>6. Single("ping", <<>>, 0) /\ "ping" # "write_reg"
    BY <2>5 DEF Single
  <2> QED  BY <1>0, <2>1, <2>2, <2>4, <2>5, <2>6
<1>3. CASE taskReadRegisters
  <2> DEFINE c == Calling("regs", "single")
  <2>1. /\ Staged(c) /\ c.sent = client.sent /\ c.stage = "single" /\ c.call = "regs"
        /\ c.did = "none"
    BY <1>0, <1>1, CallingFacts
  <2> HIDE DEF c
  <2>2. Request(c, "read_regs", <<40000, 1>>, 0, 2)
    BY <1>3 DEF taskReadRegisters, c, Server!holding_regs_offset, Server!record_size_reg
  <2>3. RequestOK([kind |-> "read_regs", id |-> client.sent + 1, args |-> <<40000, 1>>])
    BY DEF RequestOK
  <2>4. createMessage("read_regs", 0) = 8 /\ createMessage("read_regs", 0) \in 0..267
        /\ getExpectedLength("read_regs", 2) \in Nat
    BY Lengths
  <2>5. /\ TypeInv' /\ client'.sent = client.sent + 1
        /\ client'.expected = getExpectedLength("read_regs", 2)
        /\ client'.call = "regs" /\ client'.stage = "single" /\ client'.did = "none"
    BY <1>0, <1>1, <2>1, <2>2, <2>3, <2>4, CallTypes
  <2>6. Single("read_regs", <<40000, 1>>, 2) /\ "read_regs" # "write_reg"
    BY <2>5 DEF Single
  <2> QED  BY <1>0, <2>1, <2>2, <2>4, <2>5, <2>6
<1>4. ASSUME NEW address \in WriteAddresses, NEW v \in RegisterValues, taskWriteRegister(address, v)
      PROVE  /\ TypeInv'
             /\ client'.stage = "single" /\ client'.did = "none" /\ client'.sent = client.sent + 1
             /\ \E kind, args, m, c :
                  /\ Single(kind, args, m) /\ createMessage(kind, 0) = 8
                  /\ client'.expected = getExpectedLength(kind, m)
                  /\ Request(c, kind, args, 0, m) /\ c.sent = client.sent
                  /\ client'.wrote \in WriteAddresses \X RegisterValues \/ kind # "write_reg"
  <2> DEFINE args == <<address, v>>
             b == Calling("write_reg", "single")
             c == [b EXCEPT !.wrote = args]
  <2>1. /\ Staged(b) /\ b.sent = client.sent /\ b.stage = "single" /\ b.call = "write_reg"
        /\ b.did = "none"
    BY <1>0, <1>1, CallingFacts
  <2>2. Request(c, "write_reg", args, 0, 0)
    BY <1>4 DEF taskWriteRegister, WriteRegister
  <2>3. /\ address \in HalfWord /\ v \in HalfWord
        /\ args \in Written /\ args \in WriteAddresses \X RegisterValues
        /\ args[1] = address /\ args[2] = v
    BY LinkAssumed DEF LinkAssumption, Written
  <2> HIDE DEF b, args
  <2>4. /\ Staged(c) /\ c.sent = client.sent /\ c.stage = "single" /\ c.call = "write_reg"
        /\ c.did = "none" /\ c.wrote = args
    <3>1. b \in ClientType
      BY <2>1 DEF Staged
    <3>2. c \in ClientType
      BY <2>3, <3>1 DEF ClientType
    <3>3. /\ c.sent = b.sent /\ c.stage = b.stage /\ c.call = b.call /\ c.index = b.index
          /\ c.did = b.did /\ c.wrote = args
      BY <3>1 DEF ClientType
    <3> QED  BY <2>1, <3>2, <3>3 DEF Staged
  <2> HIDE DEF c
  <2>5. RequestOK([kind |-> "write_reg", id |-> client.sent + 1, args |-> args])
    BY <2>3 DEF RequestOK
  <2>6. createMessage("write_reg", 0) = 8 /\ createMessage("write_reg", 0) \in 0..267
        /\ getExpectedLength("write_reg", 0) \in Nat
    BY Lengths
  <2>7. /\ TypeInv' /\ client'.sent = client.sent + 1
        /\ client'.expected = getExpectedLength("write_reg", 0)
        /\ client'.call = "write_reg" /\ client'.stage = "single" /\ client'.did = "none"
        /\ client'.wrote = args
    BY <1>0, <1>1, <2>2, <2>4, <2>5, <2>6, CallTypes
  <2>8. Single("write_reg", args, 0)
    BY <2>7 DEF Single
  <2> QED  BY <2>2, <2>3, <2>4, <2>6, <2>7, <2>8
<1> QED  BY <1>0, <1>2, <1>3, <1>4 DEF SingleCall

(* The first request of a transfer names the register, not its address. *)
LEMMA TransferTypes ==
  ASSUME TypeInv, Idle, UNCHANGED <<serverVars, down>>, NEW name \in {"read", "write"},
         file' \in FileObject, name = "read" => file'.record_size # 0,
         WriteRegister(Calling(name, "counter"), Server!record_counter_reg, file'.num_of_records)
  PROVE  /\ TypeInv'
         /\ client'.stage = "counter" /\ client'.did = "none" /\ client'.expected = 8
         /\ client'.sent = client.sent + 1
         /\ \A f \in up'.frames :
              f.msg.id = client'.sent => f.msg.kind = "write_reg" /\ f.msg.args[1] = 2
<1> DEFINE c == Calling(name, "counter")
           args == <<2, file'.num_of_records>>
<1>1. Staged(client)
  BY FileType
<1>2. /\ Staged(c) /\ c.sent = client.sent /\ c.call = name /\ c.stage = "counter"
      /\ c.did = "none"
  BY <1>1, CallingFacts
<1> HIDE DEF c
<1>3. Request(c, "write_reg", args, 0, 0)
  BY DEF WriteRegister, c, Server!record_counter_reg
<1>4. RequestOK([kind |-> "write_reg", id |-> client.sent + 1, args |-> args])
  <2>1. file'.num_of_records \in HalfWord /\ 2 \in HalfWord
    BY DEF FileObject, HalfWord
  <2> QED  BY <2>1 DEF RequestOK
<1>5. args[1] = 2
  OBVIOUS
<1> HIDE DEF args
<1>6. /\ createMessage("write_reg", 0) \in 0..267 /\ getExpectedLength("write_reg", 0) \in Nat
      /\ getExpectedLength("write_reg", 0) = 8
  BY Lengths
<1> QED  BY <1>2, <1>3, <1>4, <1>5, <1>6, CallTypes

FileCall ==
  \/ taskWriteFile
  \/ \E id \in DOMAIN files, size \in ReadSizes : taskReadFile(id, size)

LEMMA FileIds == DOMAIN files = 1..2
  BY LinkAssumed DEF LinkAssumption, Server!File, Server!files_count

LEMMA FileCallTypes ==
  ASSUME TypeInv, FileCall
  PROVE  /\ TypeInv' /\ Idle
         /\ client'.stage = "counter" /\ client'.did = "none" /\ client'.expected = 8
         /\ client'.sent = client.sent + 1
         /\ \A f \in up'.frames :
              f.msg.id = client'.sent => f.msg.kind = "write_reg" /\ f.msg.args[1] = 2
         /\ UNCHANGED <<serverVars, down>> /\ log' = [log EXCEPT !.calls = log.calls + 1]
<1>0. Idle /\ UNCHANGED <<serverVars, down>> /\ log' = [log EXCEPT !.calls = log.calls + 1]
  BY DEF FileCall, taskWriteFile, taskReadFile, Call
<1>1. CASE taskWriteFile
  <2>1. file' = file /\ file \in FileObject
    BY <1>1, FileType DEF taskWriteFile
  <2>2. WriteRegister(Calling("write", "counter"), Server!record_counter_reg, file'.num_of_records)
    BY <1>1, <2>1 DEF taskWriteFile
  <2> QED  BY <1>0, <2>1, <2>2, TransferTypes
<1>2. ASSUME NEW id \in DOMAIN files, NEW size \in ReadSizes, taskReadFile(id, size)
      PROVE  /\ TypeInv'
             /\ client'.stage = "counter" /\ client'.did = "none" /\ client'.expected = 8
             /\ client'.sent = client.sent + 1
             /\ \A f \in up'.frames :
                  f.msg.id = client'.sent => f.msg.kind = "write_reg" /\ f.msg.args[1] = 2
  <2>1. id \in 1..2 /\ size \in Nat
    BY FileIds, LinkAssumed DEF LinkAssumption
  <2>2. /\ file' = setupRead(file, id, size, client.record_size) /\ client.record_size # 0
        /\ WriteRegister(Calling("read", "counter"), Server!record_counter_reg, file'.num_of_records)
    BY <1>2 DEF taskReadFile
  <2>3. client.record_size \in 1..255
    BY <2>2, FileType DEF Staged, ClientType
  <2>4. file' \in FileObject /\ file'.record_size # 0
    BY <2>1, <2>2, <2>3, FileType, SetupReadType
  <2> QED  BY <1>0, <2>2, <2>4, TransferTypes
<1> QED  BY <1>0, <1>1, <1>2 DEF FileCall

(* What the program does between two calls. *)
Between ==
  \/ setServerAsAvailable
  \/ \E rs \in RecordSizes : setServerRecordMaxSize(rs)
  \/ \E id \in DOMAIN files, size \in WriteSizes, rs \in RecordSizes : setup(id, size, rs)

LEMMA BetweenTypes ==
  ASSUME TypeInv, Between
  PROVE  /\ TypeInv' /\ Idle /\ Idle' /\ UNCHANGED <<serverVars, up, down>>
         /\ client'.stage = "none" /\ client'.sent = client.sent
         /\ \/ client'.did = "none"
            \/ /\ client'.did = client.did /\ client'.result = client.result
               /\ client'.wrote = client.wrote
         /\ log' = log \/ log' = [log EXCEPT !.forced = log.forced \/ ~client.available]
<1>1. /\ Idle /\ UNCHANGED <<serverVars, up, down>>
      /\ log' = log \/ log' = [log EXCEPT !.forced = log.forced \/ ~client.available]
  BY DEF Between, setServerAsAvailable, setServerRecordMaxSize, setup
<1>2. /\ file \in FileObject /\ Staged(client) /\ client \in ClientType
      /\ client.call = "none" /\ client.stage = "none"
  BY <1>1, FileType DEF Idle, Staged
<1>3. NodeOK' /\ AnswersOK(down', client.sent)
  BY <1>1, NodeRests DEF TypeInv
<1>4. CASE setServerAsAvailable
  <2>1. client' = [client EXCEPT !.available = TRUE] /\ file' = file
    BY <1>4 DEF setServerAsAvailable
  <2>2. client' = Anew(client, TRUE, client.record_size)
    BY <1>2, <2>1 DEF Anew, ClientType, Calls, Stages
  <2>3. /\ Staged(client') /\ client'.call = "none" /\ client'.stage = "none"
        /\ client'.sent = client.sent /\ client'.did = client.did
        /\ client'.result = client.result /\ client'.wrote = client.wrote
    <3>1. client.record_size \in Server!Byte /\ TRUE \in BOOLEAN
      BY <1>2 DEF ClientType, Server!Byte
    <3> QED  BY <1>2, <2>2, <3>1, StagedAnew, Zenon
  <2> QED  BY <1>1, <1>2, <1>3, <2>1, <2>3, EndTypes DEF Idle
<1>5. ASSUME NEW rs \in RecordSizes, setServerRecordMaxSize(rs)
      PROVE  /\ TypeInv' /\ client'.call = "none" /\ client'.stage = "none"
             /\ client'.sent = client.sent /\ client'.did = client.did
             /\ client'.result = client.result /\ client'.wrote = client.wrote
  <2>1. client' = [client EXCEPT !.record_size = rs] /\ file' = file
    BY <1>5 DEF setServerRecordMaxSize
  <2>2. client' = Anew(client, client.available, rs)
    BY <1>2, <2>1 DEF Anew, ClientType, Calls, Stages
  <2>3. /\ Staged(client') /\ client'.call = "none" /\ client'.stage = "none"
        /\ client'.sent = client.sent /\ client'.did = client.did
        /\ client'.result = client.result /\ client'.wrote = client.wrote
    <3>1. rs \in Server!Byte /\ client.available \in BOOLEAN
      BY <1>2, LinkAssumed DEF LinkAssumption, ClientType, Server!Byte
    <3> QED  BY <1>2, <2>2, <3>1, StagedAnew, Zenon
  <2> QED  BY <1>1, <1>2, <1>3, <2>1, <2>3, EndTypes
<1>6. ASSUME NEW id \in DOMAIN files, NEW size \in WriteSizes, NEW rs \in RecordSizes,
             setup(id, size, rs)
      PROVE  /\ TypeInv' /\ client'.call = "none" /\ client'.stage = "none"
             /\ client'.sent = client.sent /\ client'.did = "none"
  <2>1. /\ file' \in {setupWriteFromMemory(file, id, size, rs),
                      setupWriteFromDrive(file, id, size, size, rs)}
        /\ client' = [client EXCEPT !.did = "none"]
    BY <1>6 DEF setup
  <2>2. id \in 1..2 /\ size \in Nat \ {0} /\ rs \in 1..255
    BY FileIds, LinkAssumed DEF LinkAssumption
  <2>3. file' \in FileObject
    <3>1. /\ setupWriteFromMemory(file, id, size, rs) \in FileObject
          /\ setupWriteFromDrive(file, id, size, size, rs) \in FileObject
      BY <1>2, <2>2, SetupWriteType
    <3> QED  BY <2>1, <3>1
  <2>4. /\ client' \in ClientType /\ client'.call = "none" /\ client'.stage = "none"
        /\ client'.sent = client.sent /\ client'.did = "none" /\ client'.index = client.index
    <3>1. "none" \in Calls
      BY DEF Calls
    <3> QED  BY <1>2, <2>1, <3>1 DEF ClientType
  <2>5. Staged(client')
    BY <1>2, <2>4 DEF Staged
  <2> QED  BY <1>1, <1>3, <2>3, <2>4, <2>5, EndTypes
<1> QED  BY <1>1, <1>4, <1>5, <1>6 DEF Between, Idle

(* The next record is asked for. *)
LEMMA RecordRequest ==
  ASSUME TypeInv, NEW c, Staged(c), c.sent = client.sent, c.call = client.call, CallOK(c, file'),
         NodeOK', AnswersOK(down', client.sent), NEW i \in Nat, RequestRecord(c, i)
  PROVE  /\ TypeInv' /\ client'.stage = c.stage /\ client'.did = c.did
         /\ client'.result = c.result
<1> DEFINE words == getActualRecordLength(file, i) \div 2
<1>1. c.record_size \in 0..255 /\ c.record_size \in Nat
  <2>1. c.record_size \in 0..255
    BY DEF Staged, ClientType
  <2> QED  BY <2>1
<1>2. CASE c.call = "read"
  <2> DEFINE args == <<file.id, i, words>>
  <2>1. words \in Nat /\ 2 * words \in Nat
    <3>1. file \in FileObject /\ file.record_size # 0
      BY <1>2 DEF TypeInv, CallOK
    <3>2. words \in Nat
      BY <3>1, RecordLength
    <3> HIDE DEF words
    <3> QED  BY <3>2
  <2> HIDE DEF words
  <2>2. RequestOK([kind |-> "read_file", id |-> c.sent + 1, args |-> args])
    BY <2>1 DEF RequestOK
  <2> HIDE DEF args
  <2>3. Request(c, "read_file", args, 0, 2 * words)
    BY <1>2 DEF RequestRecord, args, words
  <2> DEFINE m == 2 * words
  <2>4. createMessage("read_file", 0) \in 0..267 /\ getExpectedLength("read_file", m) \in Nat
    BY <2>1, Lengths
  <2>5. Request(c, "read_file", args, 0, m)
    BY <2>3
  <2> HIDE DEF m
  <2> QED  BY <2>2, <2>4, <2>5, SentTypes
<1>3. CASE c.call # "read"
  <2> DEFINE args == <<file.id, i, c.record_size \div 2, Server!u8(c.record_size + 7) \in 7..245>>
  <2>1. RequestOK([kind |-> "write_file", id |-> c.sent + 1, args |-> args])
    BY DEF RequestOK
  <2> HIDE DEF args
  <2>2. Request(c, "write_file", args, c.record_size, c.record_size)
    BY <1>3 DEF RequestRecord, args
  <2>3. /\ createMessage("write_file", c.record_size) \in 0..267
        /\ getExpectedLength("write_file", c.record_size) \in Nat
    BY <1>1, Lengths
  <2> QED  BY <2>1, <2>2, <2>3, SentTypes
<1> QED  BY <1>2, <1>3

(* The end of a call of one exchange. *)
LEMMA SingleTypes ==
  ASSUME TypeInv, NEW msg, AfterSingle(msg), NodeOK', AnswersOK(down', client.sent)
  PROVE  /\ TypeInv'
         /\ client'.call = "none" /\ client'.stage = "none"
         /\ client'.sent = client.sent
         /\ client'.did = client.call /\ client'.call # "read" /\ client.stage = "single"
         /\ client'.wrote = client.wrote
<1> DEFINE c == Finish(client, "ok")
           available == client.available \/ client.call = "ping"
<1>1. /\ Staged(client) /\ client.stage = "single" /\ UNCHANGED <<up, file>> /\ file \in FileObject
  BY FileType DEF AfterSingle
<1>2. /\ Staged(c) /\ c.call = "none" /\ c.stage = "none" /\ c.sent = client.sent
      /\ c.did = client.call /\ c.wrote = client.wrote
  BY <1>1, CallEnds
<1>3. PICK rs \in RecordSizeIn(msg) :
        client' = [c EXCEPT !.available = available, !.record_size = rs]
  BY DEF AfterSingle
<1>4. rs \in Server!Byte /\ available \in BOOLEAN
  <2>1. client.record_size \in Server!Byte /\ client.available \in BOOLEAN
    BY <1>1 DEF Staged, ClientType, Server!Byte
  <2>2. value[Server!record_size_reg] \in Server!Byte
    BY RecordBytes DEF Server!record_size_reg, TypeInv, NodeOK, Server!Byte
  <2> QED  BY <2>1, <2>2 DEF RecordSizeIn
<1> HIDE DEF available, c
<1>5. client' = Anew(c, available, rs)
  BY <1>3 DEF Anew
<1>6. /\ Staged(client') /\ client'.call = "none" /\ client'.stage = "none"
      /\ client'.sent = client.sent /\ client'.did = client.call /\ client'.wrote = client.wrote
  <2>1. LET d == Anew(c, available, rs)
        IN  /\ Staged(d) /\ d.call = c.call /\ d.stage = c.stage /\ d.sent = c.sent
            /\ d.did = c.did /\ d.wrote = c.wrote
    BY <1>2, <1>4, StagedAnew, Zenon
  <2> QED  BY <1>2, <1>5, <2>1
<1> QED  BY <1>1, <1>6, EndTypes

(* A transfer whose register write has been answered. *)
LEMMA CounterTypes ==
  ASSUME TypeInv, AfterCounter, NodeOK', AnswersOK(down', client.sent)
  PROVE  /\ TypeInv' /\ client'.stage = "control" /\ client.stage = "counter"
         /\ client'.did = client.did /\ client'.result = client.result
<1> DEFINE c == [client EXCEPT !.stage = "control"]
           v == IF client.call = "read" THEN Server!file_read_prepare ELSE Server!file_write_prepare
           args == <<Server!control_reg, v>>
<1>1. client.stage = "counter" /\ Request(c, "write_reg", args, 0, 0) /\ file' = file
  BY DEF AfterCounter, WriteRegister
<1>2. client \in ClientType /\ Staged(client) /\ CallOK(client, file)
  BY DEF TypeInv, Staged
<1>3. /\ c \in ClientType /\ c.call = client.call /\ c.stage = "control" /\ c.sent = client.sent
      /\ c.index = client.index /\ c.did = client.did /\ c.result = client.result
  BY <1>2 DEF ClientType, Calls, Stages
<1> HIDE DEF c
<1>4. Staged(c) /\ CallOK(c, file')
  BY <1>1, <1>2, <1>3 DEF Staged, CallOK
<1>5. RequestOK([kind |-> "write_reg", id |-> c.sent + 1, args |-> args])
  <2>1. v \in HalfWord /\ Server!control_reg \in HalfWord
    BY DEF HalfWord, Server!file_read_prepare, Server!file_write_prepare, Server!control_reg
  <2> HIDE DEF v
  <2> QED  BY <2>1 DEF RequestOK
<1> HIDE DEF args
<1>6. createMessage("write_reg", 0) \in 0..267 /\ getExpectedLength("write_reg", 0) \in Nat
  BY Lengths
<1> QED  BY <1>1, <1>3, <1>4, <1>5, <1>6, SentTypes

LEMMA ControlTypes ==
  ASSUME TypeInv, AfterControl, NodeOK', AnswersOK(down', client.sent)
  PROVE  /\ TypeInv' /\ client'.stage \in {"none", "record"} /\ client.stage = "control"
         /\ client'.did = client.did /\ client'.result = client.result
<1> DEFINE c == [client EXCEPT !.stage = "record"]
<1>1. client.stage = "control" /\ file' = file
  BY DEF AfterControl
<1>2. /\ client \in ClientType /\ Staged(client) /\ CallOK(client, file) /\ client.index = 0
      /\ file.num_of_records \in Nat
  BY <1>1 DEF TypeInv, CallOK, Staged, FileObject, HalfWord
<1>3. CASE file.num_of_records = 0
  <2>1. client' = Stuck /\ up' = up
    BY <1>3 DEF AfterControl
  <2>2. file' \in FileObject
    BY <1>1, FileType
  <2> QED  BY <1>1, <1>2, <2>1, <2>2, CallSticks, EndTypes
<1>4. CASE file.num_of_records # 0
  <2>1. RequestRecord(c, 0)
    BY <1>4 DEF AfterControl
  <2>2. /\ c \in ClientType /\ c.call = client.call /\ c.stage = "record" /\ c.sent = client.sent
        /\ c.index = client.index /\ c.did = client.did /\ c.result = client.result
    BY <1>2 DEF ClientType, Calls, Stages
  <2> HIDE DEF c
  <2>3. Staged(c) /\ CallOK(c, file')
    BY <1>1, <1>2, <1>4, <2>2 DEF Staged, CallOK
  <2>4. 0 \in Nat
    OBVIOUS
  <2> QED  BY <1>1, <2>1, <2>2, <2>3, <2>4, RecordRequest
<1> QED  BY <1>3, <1>4

LEMMA RecordTypes ==
  ASSUME TypeInv, NEW msg, AfterRecord(msg), NodeOK', AnswersOK(down', client.sent)
  PROVE  TypeInv' /\ client.stage = "record"
<1>1. client.stage = "record"
  BY DEF AfterRecord
<1>2. /\ client \in ClientType /\ Staged(client) /\ CallOK(client, file) /\ file \in FileObject
      /\ client.index \in Nat /\ client.index < file.num_of_records
      /\ file.num_of_records \in Nat
  BY <1>1 DEF TypeInv, CallOK, Staged, ClientType, FileObject, HalfWord
<1>3. PICK length \in DataLengthIn(msg) :
        IF client.call = "read" /\ ~Loads(file, length)
        THEN /\ client' = IF LastExchange THEN Finish(client, "failed") ELSE Stuck
             /\ UNCHANGED <<up, file>>
        ELSE /\ file' = IF client.call = "read" THEN Loaded(file, length) ELSE file
             /\ IF LastExchange THEN client' = Finish(client, "ok") /\ UNCHANGED up
                ELSE RequestRecord([client EXCEPT !.index = client.index + 1], client.index + 1)
  BY DEF AfterRecord
<1>4. CASE client.call = "read" /\ ~Loads(file, length)
  <2>1. client' \in {Finish(client, "failed"), Stuck} /\ up' = up /\ file' = file
    BY <1>3, <1>4
  <2>2. Staged(client') /\ client'.call \in {"none", "stuck"} /\ client'.sent = client.sent
    BY <1>2, <2>1, CallEnds, CallSticks
  <2> QED  BY <1>1, <1>2, <2>1, <2>2, EndTypes
<1>5. CASE ~(client.call = "read" /\ ~Loads(file, length))
  <2>1. /\ file' = IF client.call = "read" THEN Loaded(file, length) ELSE file
        /\ IF LastExchange THEN client' = Finish(client, "ok") /\ UNCHANGED up
           ELSE RequestRecord([client EXCEPT !.index = client.index + 1], client.index + 1)
    BY <1>3, <1>5
  <2>2. /\ file' \in FileObject /\ file'.num_of_records = file.num_of_records
        /\ file'.record_size = file.record_size
    BY <1>2, <2>1, LoadedType
  <2>3. CASE LastExchange
    <3>1. client' = Finish(client, "ok") /\ up' = up
      BY <2>1, <2>3
    <3> QED  BY <1>1, <1>2, <2>2, <3>1, CallEnds, EndTypes
  <2>4. CASE ~LastExchange
    <3> DEFINE c == [client EXCEPT !.index = client.index + 1]
    <3>1. RequestRecord(c, client.index + 1)
      BY <2>1, <2>4
    <3>2. client.index + 1 \in Nat /\ client.index + 1 < file.num_of_records
      BY <1>1, <1>2, <2>4 DEF LastExchange
    <3>3. /\ c \in ClientType /\ c.call = client.call /\ c.stage = "record"
          /\ c.sent = client.sent /\ c.index = client.index + 1
      BY <1>1, <1>2, <3>2 DEF ClientType, Calls, Stages
    <3> HIDE DEF c
    <3>4. Staged(c) /\ CallOK(c, file')
      BY <1>1, <1>2, <2>2, <3>2, <3>3 DEF Staged, CallOK
    <3> QED  BY <1>1, <3>1, <3>2, <3>3, <3>4, RecordRequest
  <2> QED  BY <2>3, <2>4
<1> QED  BY <1>1, <1>4, <1>5

LEMMA BelieveTypes ==
  ASSUME TypeInv, NEW msg, Believe(msg), NodeOK', AnswersOK(down', client.sent)
  PROVE  TypeInv'
  BY SingleTypes, CounterTypes, ControlTypes, RecordTypes DEF Believe

(* readBinary returned n bytes that are no answer. *)
LEMMA NoAnswerTypes ==
  ASSUME TypeInv, NEW n \in Nat, n <= down.size, NoAnswer(n)
  PROVE  /\ TypeInv'
         /\ client'.call \in {"none", "stuck"} /\ client'.stage = "none"
         /\ client'.sent = client.sent
         /\ client'.result = "failed" \/ /\ client' = Stuck /\ client'.did = client.did
                                         /\ client'.result = client.result
                                         /\ n # 0 /\ Front(down, n) # {} /\ ~LastExchange
         /\ down' = Take(down, n) /\ UNCHANGED <<serverVars, up, file>>
<1>1. /\ Staged(client) /\ client.sent \in Nat /\ file \in FileObject
      /\ AnswersOK(down, client.sent)
  BY FileType DEF TypeInv
<1>2. /\ down' = Take(down, n) /\ UNCHANGED <<serverVars, up, file>>
      /\ \/ client' = Stuck /\ n # 0 /\ Front(down, n) # {} /\ ~LastExchange
         \/ client' = [Finish(client, "failed") EXCEPT !.available = client.available /\ n > 0]
  BY DEF NoAnswer, min_pdu_with_data_size
<1>3. AnswersOK(down', client.sent)
  <2>1. LineOK(down)
    BY <1>1 DEF AnswersOK
  <2>2. LineOK(down') /\ Within(down', down)
    BY <1>2, <2>1, TakeOK
  <2> QED  BY <1>1, <2>2, FewerAnswers
<1>4. NodeOK' /\ file' \in FileObject
  BY <1>1, <1>2, NodeRests DEF TypeInv
<1>5. CASE client' = Stuck /\ n # 0 /\ Front(down, n) # {} /\ ~LastExchange
  <2>1. TypeInv'
    BY <1>1, <1>2, <1>3, <1>4, <1>5, CallSticks, EndTypes
  <2> QED  BY <1>1, <1>2, <1>5, <2>1, CallSticks
<1>6. CASE client' = [Finish(client, "failed") EXCEPT !.available = client.available /\ n > 0]
  <2> DEFINE c == Finish(client, "failed")
             available == client.available /\ n > 0
  <2>1. /\ Staged(c) /\ c.call = "none" /\ c.stage = "none" /\ c.sent = client.sent
        /\ c.result = "failed"
    BY <1>1, CallEnds
  <2>2. available \in BOOLEAN /\ client' = [c EXCEPT !.available = available]
    BY <1>6
  <2> HIDE DEF available, c
  <2>3. client' = Anew(c, available, c.record_size) /\ c.record_size \in Server!Byte
    BY <2>1, <2>2 DEF Anew, Staged, ClientType, Calls, Stages, Server!Byte
  <2>4. /\ Staged(client') /\ client'.call = "none" /\ client'.stage = "none"
        /\ client'.sent = client.sent /\ client'.result = "failed"
    <3>1. LET d == Anew(c, available, c.record_size)
          IN  /\ Staged(d) /\ d.call = c.call /\ d.stage = c.stage /\ d.sent = c.sent
              /\ d.result = c.result
      BY <2>1, <2>2, <2>3, StagedAnew, Zenon
    <3> QED  BY <2>1, <2>3, <3>1
  <2>5. TypeInv'
    BY <1>2, <1>3, <1>4, <2>4, EndTypes
  <2> QED  BY <1>2, <2>4, <2>5
<1> QED  BY <1>2, <1>5, <1>6

LEMMA ReceiveTypes ==
  ASSUME TypeInv, ReceiveAnswer
  PROVE  /\ TypeInv'
         /\ client.expected \in Nat /\ client.expected <= down.size
         /\ \/ NoAnswer(client.expected) /\ Front(down, client.expected) = {} /\ log' = log
            \/ /\ NodeOK' /\ AnswersOK(down', client.sent)
               /\ \E f \in Front(down, client.expected) :
                    /\ f.msg.id \in 0..client.sent /\ AnswerOK(client.expected, f.msg)
                    /\ Believe(f.msg)
<1>1. /\ client.expected \in Nat /\ client.expected <= down.size
      /\ AnswersOK(down, client.sent) /\ client.sent \in Nat /\ LineOK(down)
  <2>1. client.expected \in Nat /\ AnswersOK(down, client.sent) /\ client.sent \in Nat
    BY FileType DEF TypeInv, Staged, ClientType
  <2>2. down.size \in Nat /\ LineOK(down)
    BY <2>1 DEF AnswersOK, LineOK
  <2> QED  BY <2>1, <2>2 DEF ReceiveAnswer
<1>2. CASE Front(down, client.expected) = {} /\ NoAnswer(client.expected) /\ log' = log
  BY <1>1, <1>2, NoAnswerTypes
<1>3. ASSUME NEW f \in Front(down, client.expected),
             down' = Take(down, client.expected), Believe(f.msg), UNCHANGED serverVars
      PROVE  /\ TypeInv' /\ NodeOK' /\ AnswersOK(down', client.sent)
             /\ f.msg.id \in 0..client.sent /\ AnswerOK(client.expected, f.msg)
  <2>1. AnswerOK(client.expected, f.msg) /\ f.msg.id \in 0..client.sent
    BY <1>1 DEF Front, AnswersOK
  <2>2. LineOK(down') /\ Within(down', down)
    BY <1>1, <1>3, TakeOK
  <2>3. AnswersOK(down', client.sent)
    BY <1>1, <2>2, FewerAnswers
  <2>4. NodeOK'
    BY <1>3, NodeRests DEF TypeInv
  <2> QED  BY <1>3, <2>1, <2>3, <2>4, BelieveTypes
<1> QED  BY <1>1, <1>2, <1>3 DEF ReceiveAnswer

(* The read ends without a whole answer. *)
LEMMA TimeOutTypes ==
  ASSUME TypeInv, TimeOut \/ EndEarly
  PROVE  TypeInv' /\ \E n \in Nat : n <= down.size /\ NoAnswer(n)
<1>1. down.size \in Nat
  BY DEF TypeInv, AnswersOK, LineOK
<1>2. CASE TimeOut
  BY <1>1, <1>2, NoAnswerTypes DEF TimeOut
<1>3. CASE EndEarly
  <2>1. PICK n \in Shorts : n <= down.size /\ NoAnswer(n)
    BY <1>3 DEF EndEarly
  <2>2. n \in Nat
    BY LinkAssumed DEF LinkAssumption
  <2> QED  BY <2>1, <2>2, NoAnswerTypes
<1> QED  BY <1>2, <1>3

(* The node takes a frame and answers it, or sends bytes that answer none. *)
LEMMA ServeTypes ==
  ASSUME TypeInv, Serve
  PROVE  /\ TypeInv' /\ client' = client /\ log' = log
         /\ Within(up', up)
         /\ \A f \in down'.frames :
              \/ f \in down.frames
              \/ f.msg.kind \in {"exception", "echo"}
              \/ \E g \in up.frames :
                   /\ f.msg.id = g.msg.id /\ f.msg.kind = g.msg.kind
                   /\ g.msg.kind = "write_reg" => g.msg.args[1] # 2
<1> DEFINE n == buffer_control.buffer_size
<1>1. /\ NodeOK /\ RequestsOK(up, client.sent) /\ AnswersOK(down, client.sent)
      /\ client.sent \in Nat /\ LineOK(up) /\ LineOK(down) /\ up.size \in Nat
  <2>1. /\ NodeOK /\ RequestsOK(up, client.sent) /\ AnswersOK(down, client.sent)
        /\ client.sent \in Nat
    BY FileType DEF TypeInv
  <2> QED  BY <2>1 DEF RequestsOK, AnswersOK, LineOK
<1>2. n \in Nat /\ n <= up.size
  <2>1. n \in 8..255
    BY <1>1, NodeTypes
  <2> QED  BY <1>1, <2>1 DEF Serve, ServerWaits
<1>3. /\ up' = Take(up, n)
      /\ ServeFrame(n) \/ ServeBytes(n)
      /\ UNCHANGED <<client, file, log>>
  BY DEF Serve
<1> HIDE DEF n
<1>4. RequestsOK(up', client.sent) /\ Within(up', up)
  <2>1. LineOK(up') /\ Within(up', up)
    <3>1. LineOK(Take(up, n)) /\ Within(Take(up, n), up)
      BY <1>1, <1>2, TakeOK, Zenon
    <3> QED  BY <1>3, <3>1, Zenon
  <2> QED  BY <1>1, <2>1, FewerRequests
<1>5. ASSUME NEW len \in 0..255, NEW msg, AnswerOK(len, msg), msg.id \in 0..client.sent,
             down' = Put(down, len, msg)
      PROVE  /\ AnswersOK(down', client.sent)
             /\ \A f \in down'.frames : f \in down.frames \/ f.msg = msg
  <2>1. len \in 0..267
    OBVIOUS
  <2>2. LineOK(down') /\ \A f \in down'.frames : f \in down.frames \/ (f.len = len /\ f.msg = msg)
    BY <1>1, <1>5, <2>1, PutOK
  <2> QED  BY <1>1, <1>5, <2>2 DEF AnswersOK
<1>6. CASE ServeFrame(n)
  <2>1. PICK f \in Front(up, n) : Handle(f.msg) /\ down' = Put(down, reply'.tx_length, AnswerTo(f.msg))
    BY <1>6 DEF ServeFrame
  <2>2. f \in up.frames /\ RequestOK(f.msg) /\ f.msg.id \in 0..client.sent
    BY <1>1 DEF Front, RequestsOK
  <2>3. /\ NodeOK' /\ reply'.tx_length \in 0..255
        /\ AnswerOK(reply'.tx_length, AnswerTo(f.msg)) /\ AnswerTo(f.msg).id = f.msg.id
        /\ f.msg.kind = "write_reg" /\ f.msg.args[1] = 2 => AnswerTo(f.msg).kind = "exception"
    BY <1>1, <2>1, <2>2, NodeAnswers
  <2>4. AnswerTo(f.msg).kind = "exception" \/ AnswerTo(f.msg).kind = f.msg.kind
    BY DEF AnswerTo, Answer
  <2>5. /\ AnswersOK(down', client.sent)
        /\ \A g \in down'.frames : g \in down.frames \/ g.msg = AnswerTo(f.msg)
    BY <1>5, <2>1, <2>2, <2>3
  <2>6. TypeInv'
    BY <1>3, <1>4, <2>3, <2>5 DEF TypeInv
  <2> QED  BY <1>3, <1>4, <2>2, <2>3, <2>4, <2>5, <2>6
<1>7. CASE ServeBytes(n)
  <2>1. CASE Server!BadCrc /\ down' = Put(down, reply'.tx_length, Answer("exception", 0, 0))
    <3>1. NodeOK' /\ reply'.tx_length = 5
      BY <1>1, <2>1, NodeRefuses
    <3> DEFINE msg == Answer("exception", 0, 0)
    <3>2. AnswerOK(5, msg) /\ msg.id \in 0..client.sent /\ msg.kind = "exception"
      BY <1>1 DEF Answer, AnswerOK
    <3> HIDE DEF msg
    <3>3. down' = Put(down, 5, msg)
      BY <2>1, <3>1 DEF msg
    <3>4. AnswersOK(down', client.sent) /\ \A f \in down'.frames : f \in down.frames \/ f.msg = msg
      BY <1>5, <3>2, <3>3
    <3>5. TypeInv'
      BY <1>3, <1>4, <3>1, <3>4 DEF TypeInv
    <3> QED  BY <1>3, <1>4, <3>2, <3>4, <3>5
  <2>2. CASE Server!ForeignAddress /\ down' = Echoed(n)
    <3>1. NodeOK'
      BY <1>1, <2>2, NodeRefuses
    <3>2. /\ LineOK(down')
          /\ \A f \in down'.frames :
               \/ f \in down.frames
               \/ f.msg.kind = "echo" /\ \E g \in up.frames : f.msg.id = g.msg.id
      BY <1>1, <1>2, <2>2, EchoedOK
    <3>3. AnswersOK(down', client.sent)
      BY <1>1, <3>2 DEF AnswersOK, AnswerOK, RequestsOK
    <3>4. TypeInv'
      BY <1>3, <1>4, <3>1, <3>3 DEF TypeInv
    <3> QED  BY <1>3, <1>4, <3>2, <3>4
  <2> QED  BY <1>7, <2>1, <2>2 DEF ServeBytes
<1> QED  BY <1>3, <1>6, <1>7

(* Faults only take frames from the lines. *)
LEMMA FaultTypes ==
  ASSUME TypeInv, SpoilRequest \/ SpoilAnswer \/ Restart
  PROVE  /\ TypeInv' /\ UNCHANGED serverVars
         /\ Within(up', up) /\ Within(down', down)
         /\ \/ client' = client
            \/ Disturb /\ client'.stage = "none" /\ client'.did = "none"
<1>1. /\ RequestsOK(up, client.sent) /\ AnswersOK(down, client.sent)
      /\ client.sent \in Nat /\ LineOK(up) /\ LineOK(down)
  <2>1. /\ RequestsOK(up, client.sent) /\ AnswersOK(down, client.sent) /\ client.sent \in Nat
    BY FileType DEF TypeInv
  <2> QED  BY <2>1 DEF RequestsOK, AnswersOK
<1>2. Within(up, up) /\ Within(down, down) /\ Within(Empty, down)
  BY DEF Within, Empty
<1>3. CASE SpoilRequest
  <2>1. PICK f \in up.frames : up' \in {Lost(up, f), Damaged(up, f)}
    BY <1>3 DEF SpoilRequest
  <2>2. LineOK(up') /\ Within(up', up)
    BY <1>1, <2>1, LostOK, DamagedOK
  <2>3. RequestsOK(up', client.sent)
    BY <1>1, <2>2, FewerRequests
  <2>4. NodeOK' /\ UNCHANGED <<serverVars, down, client, file>>
    BY <1>3, NodeRests DEF SpoilRequest, TypeInv
  <2> QED  BY <1>2, <2>2, <2>3, <2>4 DEF TypeInv
<1>4. CASE SpoilAnswer
  <2>1. PICK f \in down.frames : down' \in {Lost(down, f), Damaged(down, f)}
    BY <1>4 DEF SpoilAnswer
  <2>2. LineOK(down') /\ Within(down', down)
    BY <1>1, <2>1, LostOK, DamagedOK
  <2>3. AnswersOK(down', client.sent)
    BY <1>1, <2>2, FewerAnswers
  <2>4. NodeOK' /\ UNCHANGED <<serverVars, up, client, file>>
    BY <1>4, NodeRests DEF SpoilAnswer, TypeInv
  <2> QED  BY <1>2, <2>2, <2>3, <2>4 DEF TypeInv
<1>5. CASE Restart
  <2>1. /\ client' = [NewClient EXCEPT !.sent = client.sent]
        /\ file' = NewFile /\ down' \in {down, Empty}
        /\ UNCHANGED <<serverVars, up>> /\ Disturb
    BY <1>5 DEF Restart
  <2>2. /\ NewClient \in ClientType /\ NewClient.call = "none" /\ NewClient.stage = "none"
        /\ NewClient.did = "none" /\ NewClient.index = 0
    BY NewClientOK DEF Staged, NewClient
  <2>3. /\ client' \in ClientType /\ client'.call = "none" /\ client'.stage = "none"
        /\ client'.index = 0 /\ client'.sent = client.sent /\ client'.did = "none"
    BY <1>1, <2>1, <2>2 DEF ClientType, Calls, Stages
  <2>4. Staged(client') /\ CallOK(client', file')
    BY <2>1, <2>3, NewFileType DEF Staged, CallOK
  <2>5. AnswersOK(down', client.sent)
    <3>1. AnswersOK(Empty, client.sent)
      BY EmptyOK DEF AnswersOK, Empty
    <3> QED  BY <1>1, <2>1, <3>1
  <2>6. NodeOK'
    BY <2>1, NodeRests DEF TypeInv
  <2> QED  BY <1>1, <1>2, <2>1, <2>3, <2>4, <2>5, <2>6 DEF TypeInv
<1> QED  BY <1>3, <1>4, <1>5

LEMMA TypeStep == ASSUME TypeInv, [Next]_vars PROVE TypeInv'
<1>1. CASE SingleCall  BY <1>1, SingleCallTypes
<1>2. CASE FileCall  BY <1>2, FileCallTypes
<1>3. CASE Between  BY <1>3, BetweenTypes
<1>4. CASE ReceiveAnswer  BY <1>4, ReceiveTypes
<1>5. CASE TimeOut \/ EndEarly  BY <1>5, TimeOutTypes
<1>6. CASE Serve  BY <1>6, ServeTypes
<1>7. CASE SpoilRequest \/ SpoilAnswer \/ Restart  BY <1>7, FaultTypes
<1>8. CASE UNCHANGED vars
  BY <1>8, NodeRests DEF vars, TypeInv, RequestsOK, AnswersOK
<1> QED
  BY <1>1, <1>2, <1>3, <1>4, <1>5, <1>6, <1>7, <1>8
     DEF Next, SingleCall, FileCall, Between

LEMMA Typed == Spec => []TypeInv
  BY TypeInit, TypeStep, PTL DEF Spec

LEMMA TypesHold == ASSUME TypeInv PROVE TypeOK
<1>1. Server!TypeOK
  <2>1. Node!TypeOK
    BY DEF TypeInv, NodeOK, Node!ServerInv, Node!DataOK, Node!TransferOK, Node!ReplyOK,
       Node!ReplyType, Node!GoodBuffer, Node!BufferControl, Node!TypeOK
  <2> QED
    BY <2>1 DEF Server!TypeOK, Node!TypeOK, Server!Register, Node!Register,
       Server!registers_count, Node!registers_count, Server!HalfWord, Node!HalfWord,
       Server!Cell, Node!Cell, Server!Words, Node!Words, Server!File, Node!File,
       Server!files_count, Node!files_count, Server!default_buffer_size,
       Node!default_buffer_size, Server!Function, Node!Function, Server!Byte, Node!Byte
<1>2. LineOK(up) /\ LineOK(down)
      /\ \A f \in up.frames \cup down.frames : f.msg.id \in 0..client.sent
  BY DEF TypeInv, RequestsOK, AnswersOK
<1>3. /\ client.call \in {"none", "ping", "write_reg", "regs", "read", "write", "stuck"}
      /\ client.stage \in {"none", "single", "counter", "control", "record"}
      /\ client.stage = "none" <=> ~Waiting
      /\ client.record_size \in Server!Byte
  BY DEF TypeInv, Staged, ClientType, Calls, Stages, Waiting, Server!Byte
<1>4. client.stage = "record" => client.index \in 0..file.num_of_records - 1
  BY DEF TypeInv, Staged, ClientType, CallOK, FileObject, HalfWord
<1>5. file \in FileObject
  BY DEF TypeInv, CallOK
<1> QED  BY <1>1, <1>2, <1>3, <1>4, <1>5 DEF TypeOK

(* Frames, messages, the client, its buffer and the node keep their types whatever
   is lost or damaged on the line, however early a read ends and whatever the
   application writes to the node: in particular frames never overlap, a call is in
   a stage of its own, and no transfer goes behind the last record. *)
THEOREM LinkTypeCorrect == Spec => []TypeOK
  BY Typed, TypesHold, PTL

-----------------------------------------------------------------------------
(* File calls. *)

LogType ==
  [calls : Nat, lost : Nat, noise : Nat, rest : Nat, forced : BOOLEAN, own : BOOLEAN]

LEMMA LogInit ==
  Init => log \in LogType /\ log.noise = 0 /\ log.own
  BY DEF Init, LogType

(* What is counted stays counted, and a foreign answer believed stays believed. *)
Grown == log' \in LogType /\ log'.noise >= log.noise /\ (log'.own => log.own)

LEMMA LogStep ==
  ASSUME TypeInv, log \in LogType, [Next]_vars
  PROVE  /\ Grown
         /\ (Disturb \/ EndEarly => log'.noise = log.noise + 1)
         /\ (TimeOut => log'.noise = log.noise)
<1>0. log.noise \in Nat
  BY DEF LogType
<1>1. ASSUME Disturb PROVE Grown /\ log'.noise = log.noise + 1
  BY <1>0, <1>1 DEF Disturb, LogType, Grown
<1>2. ASSUME EndEarly PROVE Grown /\ log'.noise = log.noise + 1
  <2>1. PICK n \in Shorts :
          /\ n <= down.size
          /\ log' = [log EXCEPT !.noise = log.noise + 1,
                                !.rest = IF n > 0 THEN down.size - n ELSE log.rest]
    BY <1>2 DEF EndEarly, NoAnswer
  <2>2. n \in Nat /\ down.size \in Nat
    BY LinkAssumed DEF LinkAssumption, TypeInv, AnswersOK, LineOK
  <2> DEFINE rest == IF n > 0 THEN down.size - n ELSE log.rest
  <2>3. rest \in Nat
    BY <2>1, <2>2 DEF LogType
  <2>4. log' = [log EXCEPT !.noise = log.noise + 1, !.rest = rest]
    BY <2>1
  <2> HIDE DEF rest
  <2>5. log' \in LogType
    <3> DEFINE noise == log.noise + 1
    <3>1. noise \in Nat /\ log' = [log EXCEPT !.noise = noise, !.rest = rest]
      BY <1>0, <2>4
    <3> HIDE DEF noise
    <3> QED  BY <2>3, <3>1 DEF LogType
  <2>6. log'.noise = log.noise + 1 /\ log'.own = log.own
    BY <2>4 DEF LogType
  <2> QED  BY <1>0, <2>5, <2>6 DEF Grown
<1>3. ASSUME NEW msg, Believe(msg) PROVE Grown
  <2> DEFINE right == client.call = "ping" \/ (msg.id = client.sent /\ msg.kind # "echo")
  <2>1. log' = [log EXCEPT !.own = log.own /\ right]
    BY <1>3 DEF Believe
  <2> HIDE DEF right
  <2>2. CASE right /\ log.own
    BY <1>0, <2>1, <2>2 DEF LogType, Grown
  <2>3. CASE ~(right /\ log.own)
    <3>1. log' = [log EXCEPT !.own = FALSE]
      <4>1. (log.own /\ right) = FALSE
        BY <2>3
      <4> QED  BY <2>1, <4>1, Zenon
    <3>2. log' \in LogType
      BY <3>1 DEF LogType
    <3>3. log'.noise = log.noise /\ ~log'.own
      BY <3>1 DEF LogType
    <3> QED  BY <1>0, <3>2, <3>3 DEF Grown
  <2> QED  BY <2>2, <2>3
<1>4. ASSUME SingleCall \/ FileCall PROVE Grown
  <2>1. log' = [log EXCEPT !.calls = log.calls + 1]
    BY <1>4, SingleCallTypes, FileCallTypes
  <2> QED  BY <1>0, <2>1 DEF LogType, Grown
<1>5. ASSUME Between PROVE Grown
  <2> DEFINE forced == log.forced \/ ~client.available
  <2>1. forced \in BOOLEAN
    OBVIOUS
  <2>2. log' = log \/ log' = [log EXCEPT !.forced = forced]
    BY <1>5, BetweenTypes
  <2> HIDE DEF forced
  <2> QED  BY <1>0, <2>1, <2>2 DEF LogType, Grown
<1>6. ASSUME Lose PROVE Grown
  BY <1>0, <1>6 DEF Lose, LogType, Grown
<1>7. ASSUME log' = log PROVE Grown
  BY <1>0, <1>7 DEF Grown
<1>8. ASSUME ReceiveAnswer PROVE Grown
  BY <1>3, <1>7, <1>8 DEF ReceiveAnswer
<1>9. ASSUME SpoilRequest \/ SpoilAnswer \/ Restart PROVE Grown
  BY <1>1, <1>6, <1>9 DEF SpoilRequest, SpoilAnswer, Restart
<1>10. ASSUME TimeOut \/ Serve \/ UNCHANGED vars PROVE Grown /\ log' = log
  BY <1>7, <1>10 DEF TimeOut, Serve, vars
<1>11. Grown
  BY <1>2, <1>4, <1>5, <1>8, <1>9, <1>10 DEF Next, SingleCall, FileCall, Between
<1> QED  BY <1>1, <1>2, <1>10, <1>11

(* While a file call waits for the answer to its first register write, every answer
   to that request on the line is an exception, three bytes too short, or the
   request itself come back. *)
FileInv ==
  /\ client.stage = "counter" =>
       /\ client.expected = 8
       /\ \A f \in up.frames :
            f.msg.id = client.sent => f.msg.kind = "write_reg" /\ f.msg.args[1] = 2
       /\ \A f \in down.frames :
            f.msg.id = client.sent => f.msg.kind \in {"exception", "echo"}
  /\ FileCallsGetNowhere

LEMMA FileInit == Init => FileInv
  BY NewClientOK DEF Init, FileInv, FileCallsGetNowhere, NewClient

LEMMA AfterRecordStage ==
  ASSUME TypeInv, NEW msg, AfterRecord(msg) PROVE client'.stage \in {"none", "record"}
<1>1. Staged(client) /\ client \in ClientType /\ client.stage = "record"
  BY FileType DEF Staged, AfterRecord
<1> DEFINE c == [client EXCEPT !.index = client.index + 1]
<1>2. c.stage = "record"
  BY <1>1 DEF ClientType
<1> HIDE DEF c
<1>3. \/ client' \in {Finish(client, "ok"), Finish(client, "failed"), Stuck}
      \/ RequestRecord(c, client.index + 1)
  BY DEF AfterRecord, c
<1>4. ASSUME RequestRecord(c, client.index + 1) PROVE client'.stage = "record"
  <2>1. PICK n, m : client' = [c EXCEPT !.sent = n, !.expected = m]
    BY <1>4 DEF RequestRecord, Request
  <2> QED  BY <1>2, <2>1
<1> QED  BY <1>1, <1>3, <1>4, CallEnds, CallSticks

(* No answer of the node has the length and the id that would take the call on. *)
LEMMA FileBelieves ==
  ASSUME TypeInv, log \in LogType, FileInv, NEW f \in Front(down, client.expected),
         AnswerOK(client.expected, f.msg), Believe(f.msg), Grown,
         NodeOK', AnswersOK(down', client.sent)
  PROVE  FileInv'
<1>1. log'.own => /\ log.own
                  /\ \/ client.call = "ping"
                     \/ f.msg.id = client.sent /\ f.msg.kind # "echo"
  BY DEF Believe, LogType
<1>2. CASE AfterSingle(f.msg)
  <2>1. /\ client'.stage = "none" /\ client'.did = client.call /\ client.stage = "single"
    BY <1>2, SingleTypes
  <2>2. client.call \notin {"read", "write"}
    BY <2>1, FileType DEF Staged
  <2> QED  BY <2>1, <2>2 DEF FileInv, FileCallsGetNowhere
<1>3. CASE AfterCounter
  <2>1. /\ client'.stage = "control" /\ client.stage = "counter"
        /\ client'.did = client.did /\ client'.result = client.result
    BY <1>3, CounterTypes
  <2>2. client.call # "ping"
    BY <2>1, FileType DEF Staged
  <2>3. f \in down.frames /\ client.expected = 8
    BY <2>1 DEF Front, FileInv
  <2>4. f.msg.kind # "exception"
    BY <2>3 DEF AnswerOK
  <2>5. ~log'.own
    BY <1>1, <2>1, <2>2, <2>3, <2>4 DEF FileInv
  <2> QED  BY <2>1, <2>5 DEF FileInv, FileCallsGetNowhere
<1>4. CASE AfterControl
  <2>1. client'.stage \in {"none", "record"} /\ client.stage = "control"
    BY <1>4, ControlTypes
  <2>2. ~log'.own
    BY <1>1, <2>1 DEF FileInv, FileCallsGetNowhere
  <2> QED  BY <2>1, <2>2 DEF FileInv, FileCallsGetNowhere
<1>5. CASE AfterRecord(f.msg)
  <2>1. client.stage = "record"
    BY <1>5, RecordTypes
  <2>2. ~log'.own
    BY <1>1, <2>1 DEF FileInv, FileCallsGetNowhere
  <2>3. client'.stage # "counter"
    BY <1>5, AfterRecordStage
  <2> QED  BY <2>2, <2>3 DEF FileInv, FileCallsGetNowhere
<1> QED  BY <1>2, <1>3, <1>4, <1>5 DEF Believe

LEMMA FileStep == ASSUME TypeInv, log \in LogType, FileInv, [Next]_vars PROVE FileInv'
<1>1. TypeInv' /\ Grown
  BY TypeStep, LogStep
<1>2. client.sent \in Nat /\ AnswersOK(down, client.sent)
  BY FileType DEF TypeInv
<1>3. ASSUME NEW n \in Nat, n <= down.size, NoAnswer(n) PROVE FileInv'
  <2>1. /\ client'.stage = "none"
        /\ \/ client'.result = "failed"
           \/ client'.did = client.did /\ client'.result = client.result
    BY <1>3, NoAnswerTypes
  <2> QED  BY <1>1, <2>1 DEF FileInv, FileCallsGetNowhere, Grown
<1>4. CASE SingleCall
  BY <1>4, SingleCallTypes DEF FileInv, FileCallsGetNowhere
<1>5. CASE FileCall
  <2>1. /\ client'.stage = "counter" /\ client'.did = "none" /\ client'.expected = 8
        /\ client'.sent = client.sent + 1 /\ down' = down
        /\ \A f \in up'.frames :
             f.msg.id = client'.sent => f.msg.kind = "write_reg" /\ f.msg.args[1] = 2
    BY <1>5, FileCallTypes
  <2>2. \A f \in down'.frames : f.msg.id # client'.sent
    BY <1>2, <2>1 DEF AnswersOK
  <2> QED  BY <2>1, <2>2 DEF FileInv, FileCallsGetNowhere
<1>6. CASE Between
  <2>1. /\ client'.stage = "none"
        /\ \/ client'.did = "none"
           \/ client'.did = client.did /\ client'.result = client.result
    BY <1>6, BetweenTypes
  <2> QED  BY <1>1, <2>1 DEF FileInv, FileCallsGetNowhere, Grown
<1>7. CASE ReceiveAnswer
  <2>1. CASE NoAnswer(client.expected)
    BY <1>3, <1>7, <2>1, ReceiveTypes
  <2>2. CASE ~NoAnswer(client.expected)
    <3>1. PICK f \in Front(down, client.expected) :
            AnswerOK(client.expected, f.msg) /\ Believe(f.msg)
      BY <1>7, <2>2, ReceiveTypes
    <3>2. NodeOK' /\ AnswersOK(down', client.sent)
      BY <1>7, <2>2, ReceiveTypes
    <3> QED  BY <1>1, <3>1, <3>2, FileBelieves
  <2> QED  BY <2>1, <2>2
<1>8. CASE TimeOut \/ EndEarly
  BY <1>3, <1>8, TimeOutTypes
<1>9. CASE Serve
  <2>1. /\ client' = client /\ log' = log /\ Within(up', up)
        /\ \A f \in down'.frames :
             \/ f \in down.frames
             \/ f.msg.kind \in {"exception", "echo"}
             \/ \E g \in up.frames :
                  /\ f.msg.id = g.msg.id /\ f.msg.kind = g.msg.kind
                  /\ g.msg.kind = "write_reg" => g.msg.args[1] # 2
    BY <1>9, ServeTypes
  <2> QED  BY <2>1 DEF FileInv, FileCallsGetNowhere, Within
<1>10. CASE SpoilRequest \/ SpoilAnswer \/ Restart
  <2>1. /\ Within(up', up) /\ Within(down', down)
        /\ client' = client \/ (client'.stage = "none" /\ client'.did = "none")
    BY <1>10, FaultTypes
  <2> QED  BY <1>1, <2>1 DEF FileInv, FileCallsGetNowhere, Within, Grown
<1>11. CASE UNCHANGED vars
  BY <1>11 DEF vars, FileInv, FileCallsGetNowhere
<1> QED
  BY <1>4, <1>5, <1>6, <1>7, <1>8, <1>9, <1>10, <1>11 DEF Next, SingleCall, FileCall, Between

(* Whatever happens to the line, no file call of this client gets beyond its first
   register write at this node, and none succeeds, unless an answer to another
   request was believed before. *)
THEOREM FileCallsFail == Spec => []FileCallsGetNowhere
<1> DEFINE Inv == TypeInv /\ log \in LogType /\ FileInv
<1>1. Init => Inv
  BY TypeInit, LogInit, FileInit
<1>2. Inv /\ [Next]_vars => Inv'
  BY TypeStep, LogStep, FileStep DEF Grown
<1>3. Inv => FileCallsGetNowhere
  BY DEF FileInv
<1> QED  BY <1>1, <1>2, <1>3, PTL DEF Spec
=============================================================================
