------------------------------ MODULE DataNode ------------------------------
(***************************************************************************)
(* DataNode (core/server/inc/node.hpp): the loop that reads a frame, has   *)
(* it answered by the server and reads the next one, over the two CRTP     *)
(* bases Com (com.hpp) and Timer (timer.hpp).  serverTask is only what the *)
(* node sees of it: another size of the next frame (ModbusServer).         *)
(*                                                                         *)
(* The platform is external.  A `sync' one reads inside platformReadData,  *)
(* as DesktopCom does, and never sets busy.  An `async' one takes bytes in *)
(* interrupts, between any two steps of the loop: it marks the interface   *)
(* as busy with the first byte and as ready with the last.  Its timer      *)
(* calls setDone, taken as the store its body is written for.              *)
(***************************************************************************)
EXTENDS Naturals

CONSTANTS
  Platforms,     \* the kinds of platform: a subset of {"sync", "async"}
  Sizes,         \* what getBufferSize can return
  default_buffer_size,
  MaxFrames,     \* bound: frames that arrive in a behaviour
  FrameInWindow  \* timing: a whole frame may arrive between flush and readData

ASSUME NodeAssumption ==
  /\ Platforms \subseteq {"sync", "async"}
  /\ Sizes \subseteq Nat \ {0}
  /\ default_buffer_size \in Sizes
  /\ MaxFrames \in Nat
  /\ FrameInWindow \in BOOLEAN

receive_timeout_ms == 1000

VARIABLES
  platform,     \* the kind of platform
  com,          \* Com: configured, ready, busy
  timer,        \* Timer: started, done, timeout_ms, and whether the hardware runs
  buffer_size,  \* BufferControl::buffer_size
  rx,           \* the read posted last: amount, bytes received, still open
  pc,           \* where the node is
  after,        \* where it goes on after readData
  hist          \* history: frames arrived, answered, dropped by the timeout

vars == <<platform, com, timer, buffer_size, rx, pc, after, hist>>

Init ==
  /\ platform \in Platforms
  /\ com = [configured |-> FALSE, ready |-> FALSE, busy |-> FALSE]
  /\ timer = [started |-> FALSE, done |-> FALSE, running |-> FALSE, timeout_ms |-> 0]
  /\ buffer_size = default_buffer_size
  /\ rx = [reading |-> FALSE, amount |-> 0, received |-> 0]
  /\ pc = "start" /\ after = "loop"
  /\ hist = [frames |-> 0, answered |-> 0, dropped |-> 0]

-----------------------------------------------------------------------------
(* Timer. *)

stop(t) == [t EXCEPT !.running = FALSE, !.done = FALSE]

start(t) ==
  LET stopped == IF t.started THEN stop(t) ELSE t
  IN [stopped EXCEPT !.running = TRUE, !.done = FALSE, !.started = TRUE]

setTimeout(t, timeout) == IF t.started THEN t ELSE [t EXCEPT !.timeout_ms = timeout]

-----------------------------------------------------------------------------
(* DataNode::start: com.init, then readData if that worked. *)
Start ==
  /\ pc = "start"
  /\ \E ok \in BOOLEAN : /\ com' = [com EXCEPT !.configured = ok]
                         /\ pc' = IF ok THEN "clear" ELSE "loop"
  /\ UNCHANGED <<platform, timer, buffer_size, rx, after, hist>>

(* Mutant: the timer is started before its timeout is set. *)
WatchUnset ==
  /\ pc = "loop" /\ com.configured
  /\ timer' = IF com.busy /\ ~timer.started
                THEN setTimeout(start(timer), receive_timeout_ms) ELSE timer
  /\ pc' = "timeout"
  /\ UNCHANGED <<platform, com, buffer_size, rx, after, hist>>

(* The head of the loop: the timer is started with the first busy interface. *)
Watch ==
  /\ pc = "loop" /\ com.configured
  /\ timer' = IF com.busy /\ ~timer.started
                THEN start(setTimeout(timer, receive_timeout_ms)) ELSE timer
  /\ pc' = "timeout"
  /\ UNCHANGED <<platform, com, buffer_size, rx, after, hist>>

Leave ==
  /\ pc = "loop" /\ ~com.configured
  /\ pc' = "end"
  /\ UNCHANGED <<platform, com, timer, buffer_size, rx, after, hist>>

(* Mutant: without a timeout the loop starts over. *)
handleTimeOutOnly ==
  /\ pc = "timeout"
  /\ pc' = IF timer.done /\ com.busy THEN "flush" ELSE "loop"
  /\ UNCHANGED <<platform, com, timer, buffer_size, rx, after, hist>>

handleTimeOut ==
  /\ pc = "timeout"
  /\ pc' = IF timer.done /\ com.busy THEN "flush" ELSE "ready"
  /\ UNCHANGED <<platform, com, timer, buffer_size, rx, after, hist>>

(* platformFlush drops the bytes received so far. *)
Flush ==
  /\ pc = "flush"
  /\ rx' = [rx EXCEPT !.received = 0]
  /\ pc' = "stop"
  /\ UNCHANGED <<platform, com, timer, buffer_size, after, hist>>

(* Timer::stop leaves `started' as it is. *)
StopTimer ==
  /\ pc = "stop"
  /\ timer' = stop(timer)
  /\ pc' = "clear" /\ after' = "ready"
  /\ UNCHANGED <<platform, com, buffer_size, rx, hist>>

(* Mutant: isReady is not looked at. *)
handleReadyBusy ==
  /\ pc = "ready"
  /\ pc' = IF com.ready \/ com.busy THEN "task" ELSE "loop"
  /\ UNCHANGED <<platform, com, timer, buffer_size, rx, after, hist>>

handleReady ==
  /\ pc = "ready"
  /\ pc' = IF com.ready THEN "task" ELSE "loop"
  /\ UNCHANGED <<platform, com, timer, buffer_size, rx, after, hist>>

(* serverTask answers the frame in the buffer and may change its size. *)
Task ==
  /\ pc = "task"
  /\ buffer_size' \in Sizes
  /\ pc' = "send"
  /\ UNCHANGED <<platform, com, timer, rx, after, hist>>

Send ==
  /\ pc = "send"
  /\ hist' = [hist EXCEPT !.answered = hist.answered + 1]
  /\ pc' = "clear" /\ after' = "loop"
  /\ UNCHANGED <<platform, com, timer, buffer_size, rx>>

(* Mutant: readData leaves ready as it is. *)
ClearReadyNot ==
  /\ pc = "clear"
  /\ pc' = "post"
  /\ UNCHANGED <<platform, com, timer, buffer_size, rx, after, hist>>

(* Com::readData: ready is cleared first; a frame that came in before the
   timeout handler got here is lost with it. *)
ClearReady ==
  /\ pc = "clear"
  /\ com' = [com EXCEPT !.ready = FALSE]
  /\ hist' = [hist EXCEPT !.dropped = IF after = "ready" /\ com.ready
                                        THEN hist.dropped + 1 ELSE hist.dropped]
  /\ pc' = "post"
  /\ UNCHANGED <<platform, timer, buffer_size, rx, after>>

(* Mutant: the size of the frame before. *)
PostSameSize ==
  /\ pc = "post"
  /\ rx' = [reading  |-> TRUE, received |-> 0,
            amount |-> IF rx.amount = 0 THEN buffer_size ELSE rx.amount]
  /\ pc' = IF platform = "sync" THEN "blocked" ELSE after
  /\ UNCHANGED <<platform, com, timer, buffer_size, after, hist>>

(* platformReadData; a sync platform keeps the node in there. *)
Post ==
  /\ pc = "post"
  /\ rx' = [reading |-> TRUE, amount |-> buffer_size, received |-> 0]
  /\ pc' = IF platform = "sync" THEN "blocked" ELSE after
  /\ UNCHANGED <<platform, com, timer, buffer_size, after, hist>>

(* Mutant: ready is cleared after platformReadData, not before it. *)
UnblockCleared ==
  /\ pc = "blocked" /\ ~rx.reading
  /\ com' = [com EXCEPT !.ready = FALSE]
  /\ pc' = after
  /\ UNCHANGED <<platform, timer, buffer_size, rx, after, hist>>

(* A sync platform has its frame: setReady, and platformReadData returns. *)
Unblock ==
  /\ pc = "blocked" /\ ~rx.reading
  /\ com' = [com EXCEPT !.ready = TRUE]
  /\ pc' = after
  /\ UNCHANGED <<platform, timer, buffer_size, rx, after, hist>>

-----------------------------------------------------------------------------
(* The platform. *)

(* From the flush to the new read the old read is still open. *)
Window == pc \in {"stop", "clear", "post"} /\ after = "ready"

Byte ==
  /\ rx.reading /\ rx.received + 1 < rx.amount
  /\ rx' = [rx EXCEPT !.received = rx.received + 1]
  /\ com' = [com EXCEPT !.busy = com.busy \/ platform = "async"]
  /\ UNCHANGED <<platform, timer, buffer_size, pc, after, hist>>

LastByte ==
  /\ rx.reading /\ rx.received + 1 = rx.amount
  /\ Window => FrameInWindow
  /\ hist.frames < MaxFrames
  /\ rx' = [rx EXCEPT !.received = rx.amount, !.reading = FALSE]
  /\ com' = IF platform = "async" THEN [com EXCEPT !.busy = TRUE, !.ready = TRUE] ELSE com
  /\ hist' = [hist EXCEPT !.frames = hist.frames + 1]
  /\ UNCHANGED <<platform, timer, buffer_size, pc, after>>

(* setDone, at the timeout condition of the hardware timer. *)
Expire ==
  /\ timer.running
  /\ timer' = [timer EXCEPT !.running = FALSE, !.done = TRUE]
  /\ UNCHANGED <<platform, com, buffer_size, rx, pc, after, hist>>

-----------------------------------------------------------------------------
Node ==
  \/ Start \/ Watch \/ Leave \/ handleTimeOut \/ Flush \/ StopTimer
  \/ handleReady \/ Task \/ Send \/ ClearReady \/ Post \/ Unblock

Next ==
  \/ Node \/ Byte \/ LastByte \/ Expire
  \/ pc = "end" /\ UNCHANGED vars

Spec == Init /\ [][Next]_vars

(* The loop runs and a running timer expires; bytes come or do not. *)
FairSpec == Spec /\ WF_vars(Node) /\ WF_vars(Expire)

-----------------------------------------------------------------------------
(* Properties *)

(* Types; a timer that was started has the timeout of the node. *)
TypeOK ==
  /\ platform \in Platforms
  /\ com \in [configured : BOOLEAN, ready : BOOLEAN, busy : BOOLEAN]
  /\ timer \in [started : BOOLEAN, done : BOOLEAN, running : BOOLEAN,
                timeout_ms : {0, receive_timeout_ms}]
  /\ timer.started => timer.timeout_ms = receive_timeout_ms
  /\ buffer_size \in Sizes
  /\ rx \in [reading : BOOLEAN, amount : Nat, received : Nat]
  /\ pc \in {"start", "loop", "timeout", "flush", "stop", "ready", "task", "send",
             "clear", "post", "blocked", "end"}
  /\ after \in {"loop", "ready"}
  /\ hist \in [frames : Nat, answered : Nat, dropped : Nat]

Listens == pc \in {"loop", "timeout", "flush", "ready"} /\ com.configured

(* The node is never deaf: whenever it looks at the interface, a read is open or
   a frame is waiting for it, on either kind of platform. *)
NeverDeaf == Listens => rx.reading \/ com.ready

(* The open read, and the frame it ends with, has the size the server asked for
   after the frame before: framing and server stay in step. *)
ReadMatchesFraming == Listens \/ pc \in {"blocked", "task"} => rx.amount = buffer_size

(* Nothing writes to the buffer while the server works on the frame in it. *)
BufferIsStable ==
  ~FrameInWindow /\ pc \in {"task", "send"} => ~rx.reading /\ rx.received = rx.amount

(* A frame that is complete and neither answered nor lost yet. *)
Pending ==
  \/ com.ready /\ ~(pc = "clear" /\ after = "loop")
  \/ pc = "blocked" /\ ~rx.reading

(* No frame is answered twice, and none is lost but to the receive timeout. *)
FramesAccounted ==
  ~FrameInWindow =>
    hist.frames = hist.answered + hist.dropped + (IF Pending THEN 1 ELSE 0)

(* Every frame gets an answer, unless the receive timeout dropped it. *)
FramesAnswered ==
  \A n \in 1 .. MaxFrames :
    hist.frames >= n ~> hist.answered + hist.dropped >= n

(* isStarted "checks if the timer is currently running" (timer.hpp:58), which the
   loop relies on to guard the next frame: whenever the node looks at a timer that
   says it is started, the timer runs, or it fired and is not handled yet.
   Violated (NodeTimerBug): stop does not clear `started'. *)
StartedMeansRunning == Listens /\ timer.started => timer.running \/ timer.done
=============================================================================
