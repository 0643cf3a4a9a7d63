--------------------------- MODULE DataNodeProofs ---------------------------
(***************************************************************************)
(* Proofs about DataNode, for both kinds of platform, any frame sizes and  *)
(* any number of frames.                                                   *)
(***************************************************************************)
EXTENDS DataNode, TLAPS

(* Type correctness. *)
LEMMA TypeInit == Init => TypeOK
  BY NodeAssumption DEF Init, TypeOK

LEMMA TypeStep == TypeOK /\ [Next]_vars => TypeOK'
<1> SUFFICES ASSUME TypeOK, [Next]_vars PROVE TypeOK'
  OBVIOUS
<1> USE DEF TypeOK
<1>1. CASE Start
  BY <1>1 DEF Start
<1>2. CASE Watch
  BY <1>2 DEF Watch, start, stop, setTimeout
<1>3. CASE Leave \/ handleTimeOut \/ handleReady
  BY <1>3 DEF Leave, handleTimeOut, handleReady
<1>4. CASE Flush
  BY <1>4 DEF Flush
<1>5. CASE StopTimer
  BY <1>5 DEF StopTimer, stop
<1>6. CASE Task \/ Send
  BY <1>6 DEF Task, Send
<1>7. CASE ClearReady
  <2>1. com' = [com EXCEPT !.ready = FALSE] /\ UNCHANGED <<platform, timer, buffer_size, rx, after>>
        /\ pc' = "post"
    BY <1>7 DEF ClearReady
  <2>2. hist' = [hist EXCEPT !.dropped = hist.dropped + 1] \/ hist' = hist
    BY <1>7 DEF ClearReady
  <2>3. hist' \in [frames : Nat, answered : Nat, dropped : Nat]
    BY <2>2
  <2> QED
    BY <2>1, <2>3
<1>8. CASE Post
  BY <1>8, NodeAssumption DEF Post
<1>9. CASE Unblock
  BY <1>9 DEF Unblock
<1>10. CASE Byte
  BY <1>10 DEF Byte
<1>11. CASE LastByte
  <2>1. com' = [com EXCEPT !.busy = TRUE, !.ready = TRUE] \/ com' = com
    BY <1>11 DEF LastByte
  <2>2. com' \in [configured : BOOLEAN, ready : BOOLEAN, busy : BOOLEAN]
    BY <2>1
  <2>3. rx' \in [reading : BOOLEAN, amount : Nat, received : Nat]
    BY <1>11 DEF LastByte
  <2>4. hist' \in [frames : Nat, answered : Nat, dropped : Nat]
    BY <1>11 DEF LastByte
  <2>5. UNCHANGED <<platform, timer, buffer_size, pc, after>>
    BY <1>11 DEF LastByte
  <2> QED
    BY <2>2, <2>3, <2>4, <2>5
<1>12. CASE Expire
  BY <1>12 DEF Expire
<1>13. CASE UNCHANGED vars
  BY <1>13 DEF vars
<1> QED
  BY <1>1, <1>2, <1>3, <1>4, <1>5, <1>6, <1>7, <1>8, <1>9, <1>10, <1>11, <1>12, <1>13
     DEF Next, Node

(* Every variable of a node keeps its type. *)
THEOREM NodeTypes == Spec => []TypeOK
  BY TypeInit, TypeStep, PTL DEF Spec

-----------------------------------------------------------------------------
(* The inductive invariant. *)

(* When com.init has worked, and who waits in platformReadData. *)
Places ==
  /\ pc \notin {"start", "loop", "end"} => com.configured
  /\ pc = "start" => ~com.configured /\ ~com.ready /\ after = "loop"
  /\ pc = "end" => ~com.configured
  /\ pc = "blocked" => platform = "sync"

(* Where no read is open, and where a sync platform can have one. *)
ClosedRead ==
  /\ pc = "start" => ~rx.reading
  /\ ~FrameInWindow /\ (pc \in {"task", "send"} \/ (pc \in {"clear", "post"} /\ after = "loop"))
       => ~rx.reading
  /\ rx.reading /\ platform = "sync" => pc = "blocked"
  /\ pc \in {"task", "send"} => com.ready
  /\ pc \in {"post", "blocked"} /\ platform = "sync" => ~com.ready
  /\ pc = "blocked" /\ ~rx.reading => rx.received = rx.amount

(* With a frame in the buffer the read that brought it is over. *)
ReadyFrame ==
  ~FrameInWindow =>
    /\ com.ready => ~rx.reading
    /\ pc = "post" => ~com.ready
    /\ com.ready /\ pc \notin {"stop", "clear", "post"} => rx.received = rx.amount

IInv ==
  /\ TypeOK /\ Places /\ ClosedRead /\ NeverDeaf /\ ReadMatchesFraming
  /\ ReadyFrame /\ FramesAccounted

LEMMA IInvInit == Init => IInv
  BY TypeInit DEF Init, IInv, Places, ClosedRead, NeverDeaf, Listens, ReadMatchesFraming, ReadyFrame,
     FramesAccounted, Pending

LEMMA IInvStep == IInv /\ [Next]_vars => IInv'
<1> SUFFICES ASSUME IInv, [Next]_vars PROVE IInv'
  OBVIOUS
<1>0. TypeOK /\ TypeOK'
  BY TypeStep DEF IInv
<1>a. Places /\ ClosedRead /\ NeverDeaf /\ ReadMatchesFraming
  BY DEF IInv
<1>b. ReadyFrame /\ FramesAccounted
  BY DEF IInv
<1>1. CASE Start
  <2>1. /\ pc = "start" /\ pc' \in {"clear", "loop"} /\ (com'.configured <=> pc' = "clear")
        /\ com'.ready = com.ready
        /\ UNCHANGED <<platform, timer, buffer_size, rx, after, hist>>
    BY <1>0, <1>1 DEF TypeOK, Start
  <2>2. Places' /\ ClosedRead'
    BY <1>a, <2>1 DEF Places, ClosedRead
  <2>3. NeverDeaf' /\ ReadMatchesFraming'
    BY <2>1, <2>2 DEF Places, NeverDeaf, Listens, ReadMatchesFraming
  <2>4. ReadyFrame'
    BY <1>b, <2>1 DEF ReadyFrame
  <2>5. FramesAccounted'
    <3>1. (Pending <=> Pending') /\ hist' = hist
      BY <1>a, <2>1 DEF Pending, Places
    <3> QED
      BY <1>b, <3>1 DEF FramesAccounted
  <2> QED
    BY <1>0, <2>2, <2>3, <2>4, <2>5 DEF IInv
<1>2. CASE Post
  <2>1. /\ pc = "post" /\ rx'.reading /\ rx'.amount = buffer_size
        /\ pc' = (IF platform = "sync" THEN "blocked" ELSE after)
        /\ UNCHANGED <<platform, com, timer, buffer_size, after, hist>>
    BY <1>2 DEF Post
  <2>2. com.configured /\ after \in {"loop", "ready"}
    BY <1>0, <1>a, <2>1 DEF TypeOK, Places
  <2>3. platform = "sync" => ~com.ready
    BY <1>a, <2>1 DEF ClosedRead
  <2>4. Places' /\ ClosedRead'
    BY <2>1, <2>2, <2>3 DEF Places, ClosedRead
  <2>5. NeverDeaf' /\ ReadMatchesFraming'
    BY <2>1 DEF NeverDeaf, ReadMatchesFraming
  <2>6. ReadyFrame'
    BY <1>b, <2>1 DEF ReadyFrame
  <2>7. FramesAccounted'
    <3>1. (Pending <=> Pending') /\ hist' = hist
      BY <2>1, <2>2 DEF Pending
    <3> QED
      BY <1>b, <3>1 DEF FramesAccounted
  <2> QED
    BY <1>0, <2>4, <2>5, <2>6, <2>7 DEF IInv
<1>3. CASE Unblock
  <2>1. /\ pc = "blocked" /\ ~rx.reading /\ com'.ready /\ pc' = after
        /\ com'.configured = com.configured
        /\ UNCHANGED <<platform, timer, buffer_size, rx, after, hist>>
    BY <1>0, <1>3 DEF TypeOK, Unblock
  <2>2. com.configured /\ after \in {"loop", "ready"}
    BY <1>0, <1>a, <2>1 DEF TypeOK, Places
  <2>3. Places' /\ ClosedRead'
    BY <2>1, <2>2 DEF Places, ClosedRead
  <2>4. NeverDeaf' /\ ReadMatchesFraming'
    BY <1>a, <2>1, <2>2 DEF NeverDeaf, ReadMatchesFraming
  <2>5. rx.received = rx.amount
    BY <1>a, <2>1 DEF ClosedRead
  <2>6. ReadyFrame'
    BY <1>b, <2>1, <2>2, <2>5 DEF ReadyFrame
  <2>7. FramesAccounted'
    <3>1. Pending /\ Pending' /\ hist' = hist
      BY <2>1, <2>2 DEF Pending
    <3> QED
      BY <1>b, <3>1 DEF FramesAccounted
  <2> QED
    BY <1>0, <2>3, <2>4, <2>6, <2>7 DEF IInv
<1>4. CASE LastByte
  <2>1. /\ rx.reading /\ ~rx'.reading /\ rx'.received = rx'.amount /\ rx'.amount = rx.amount
        /\ hist'.frames = hist.frames + 1 /\ hist'.answered = hist.answered
        /\ hist'.dropped = hist.dropped
        /\ com'.configured = com.configured
        /\ UNCHANGED <<platform, timer, buffer_size, pc, after>>
    BY <1>0, <1>4 DEF TypeOK, LastByte
  <2>2. Window => FrameInWindow
    BY <1>4 DEF LastByte
  <2>3. (platform = "async" => com'.ready) /\ (platform # "async" => com' = com)
    <3>1. com' = IF platform = "async" THEN [com EXCEPT !.busy = TRUE, !.ready = TRUE] ELSE com
      BY <1>4 DEF LastByte
    <3>2. com \in [configured : BOOLEAN, ready : BOOLEAN, busy : BOOLEAN]
      BY <1>0 DEF TypeOK
    <3>3. CASE platform = "async"
      <4>1. com' = [com EXCEPT !.busy = TRUE, !.ready = TRUE]
        BY <3>1, <3>3
      <4> QED
        BY <3>2, <3>3, <4>1
    <3>4. CASE platform # "async"
      BY <3>1, <3>4
    <3> QED
      BY <3>3, <3>4
  <2>4. platform # "async" => pc = "blocked"
    BY <1>0, <1>a, <2>1, NodeAssumption DEF TypeOK, ClosedRead
  <2>5. platform = "async" => pc # "blocked"
    BY <1>a DEF Places
  <2>6. pc # "start"
    BY <1>a, <2>1 DEF ClosedRead
  <2>7. Places' /\ ClosedRead'
    BY <1>a, <2>1, <2>3, <2>5, <2>6 DEF Places, ClosedRead
  <2>8. NeverDeaf' /\ ReadMatchesFraming'
    BY <1>a, <2>1, <2>3, <2>4 DEF NeverDeaf, Listens, ReadMatchesFraming
  <2>9. ReadyFrame'
    <3>1. after \in {"loop", "ready"}
      BY <1>0 DEF TypeOK
    <3>2. ~FrameInWindow => pc # "post"
      BY <1>a, <2>1, <2>2, <3>1 DEF ClosedRead, Window
    <3> QED
      BY <2>1, <3>2 DEF ReadyFrame
  <2>10. FramesAccounted'
    <3>1. SUFFICES ASSUME ~FrameInWindow PROVE FramesAccounted'
      BY DEF FramesAccounted
    <3>2. ~Pending
      BY <1>a, <1>b, <2>1, <3>1 DEF Pending, ReadyFrame
    <3>3. Pending'
      <4>1. CASE platform = "async"
        BY <1>a, <2>1, <2>3, <3>1, <4>1 DEF Pending, ClosedRead
      <4>2. CASE platform # "async"
        BY <2>1, <2>4, <4>2 DEF Pending
      <4> QED
        BY <4>1, <4>2
    <3>4. hist.frames = hist.answered + hist.dropped
      BY <1>0, <1>b, <3>1, <3>2 DEF FramesAccounted, TypeOK
    <3>5. hist'.frames = hist'.answered + hist'.dropped + 1
      BY <1>0, <2>1, <3>4 DEF TypeOK
    <3> QED
      BY <3>3, <3>5 DEF FramesAccounted
  <2> QED
    BY <1>0, <2>7, <2>8, <2>9, <2>10 DEF IInv
<1> USE DEF Places, ClosedRead, NeverDeaf, Listens, ReadMatchesFraming, ReadyFrame, FramesAccounted, Pending
<1>5. CASE Watch
  BY <1>0, <1>5 DEF IInv, TypeOK, Watch, start, stop, setTimeout
<1>6. CASE Leave
  BY <1>0, <1>6 DEF IInv, TypeOK, Leave
<1>7. CASE handleTimeOut
  BY <1>0, <1>7 DEF IInv, TypeOK, handleTimeOut
<1>8. CASE Flush
  BY <1>0, <1>8 DEF IInv, TypeOK, Flush
<1>9. CASE StopTimer
  BY <1>0, <1>9 DEF IInv, TypeOK, StopTimer, stop
<1>10. CASE handleReady
  BY <1>0, <1>10 DEF IInv, TypeOK, handleReady
<1>11. CASE Task
  BY <1>0, <1>11 DEF IInv, TypeOK, Task
<1>12. CASE Send
  BY <1>0, <1>12 DEF IInv, TypeOK, Send
<1>13. CASE ClearReady
  BY <1>0, <1>13 DEF IInv, TypeOK, ClearReady
<1>14. CASE Byte
  BY <1>0, <1>14 DEF IInv, TypeOK, Byte
<1>15. CASE Expire
  BY <1>0, <1>15 DEF IInv, TypeOK, Expire
<1>16. CASE UNCHANGED vars
  BY <1>0, <1>16 DEF IInv, vars
<1> QED
  BY <1>1, <1>2, <1>3, <1>4, <1>5, <1>6, <1>7, <1>8, <1>9, <1>10, <1>11, <1>12, <1>13, <1>14, <1>15, <1>16 DEF Next, Node

LEMMA Invariance == Spec => []IInv
  BY IInvInit, IInvStep, PTL DEF Spec

(* The node is never deaf, on either kind of platform. *)
THEOREM NodeHears == Spec => []NeverDeaf
  BY Invariance, PTL DEF IInv

(* Each read has the size the server asked for. *)
THEOREM NodeFrames == Spec => []ReadMatchesFraming
  BY Invariance, PTL DEF IInv

(* The server works on a buffer nothing else writes to. *)
THEOREM NodeOwnsBuffer == Spec => []BufferIsStable
<1>1. IInv => BufferIsStable
  BY DEF IInv, TypeOK, ClosedRead, ReadyFrame, BufferIsStable
<1> QED
  BY <1>1, Invariance, PTL

(* No frame is answered twice or silently lost. *)
THEOREM NodeAccounts == Spec => []FramesAccounted
  BY Invariance, PTL DEF IInv
=============================================================================
