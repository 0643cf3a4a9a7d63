----------------------------- MODULE DesktopCom -----------------------------
(***************************************************************************)
(* DesktopCom (target/server/desktop/platform.cpp): the node thread (main) *)
(* hands a buffer to the server thread, which fills it from the serial     *)
(* port and hands it back.  Com::readData and setReady (com.hpp) are part  *)
(* of the handshake.                                                       *)
(*                                                                         *)
(* One step is one access to the shared state that the other thread can    *)
(* see: platformReadData writes ptr, size and reading_done and notifies    *)
(* before it takes the mutex, serverThread holds the mutex from the moment *)
(* its wait predicate is true until the frame is complete.  Waiting on a   *)
(* condition variable is `evaluate the predicate', then `release the mutex *)
(* and sleep'; a notification reaches only a thread that sleeps.           *)
(***************************************************************************)
EXTENDS Naturals

CONSTANTS
  Amounts, \* the sizes readData is called with (BufferControl::getBufferSize)
  Prompts  \* the timings: TRUE if the server thread sleeps whenever main starts to
           \* call it, FALSE if main may call it at any time

ASSUME DesktopComAssumption == Amounts \subseteq Nat \ {0} /\ Prompts \subseteq BOOLEAN

VARIABLES
  prompt,        \* the timing of this behaviour
  configured,    \* Com::configured, the result of platformInit
  ready,         \* Com::ready
  ptr,           \* buffer_support.ptr # nullptr
  size,          \* buffer_support.size
  reading_done,
  thread_stop,
  m,             \* the holder of the mutex: "none", "main" or "server"
  main,          \* where the node thread is
  amount,        \* the argument of the current platformReadData, 0 before the first
  server,        \* where serverThread is
  total,         \* total_bytes_read
  filled         \* history: bytes of the frame of this call that are in the buffer

vars ==
  <<prompt, configured, ready, ptr, size, reading_done, thread_stop, m, main, amount, server,
    total, filled>>

Init ==
  /\ prompt \in Prompts
  /\ configured \in BOOLEAN
  /\ ready = FALSE /\ ptr = FALSE /\ size = 0
  /\ reading_done = FALSE /\ thread_stop = FALSE
  /\ m = "none" /\ main = "node" /\ server = "check"
  /\ amount = 0 /\ total = 0 /\ filled = 0

-----------------------------------------------------------------------------
(* The node thread.  "node": outside DesktopCom (DataNode::loop and ModbusServer). *)

Calling == main \in {"size", "flag", "notify"}

(* readData: ready := false; platformReadData: ptr := data. *)
SetPtr ==
  /\ main = "node" /\ configured
  /\ prompt => server = "asleep"
  /\ amount' \in Amounts
  /\ ready' = FALSE /\ ptr' = TRUE /\ filled' = 0
  /\ main' = "size"
  /\ UNCHANGED <<prompt, configured, size, reading_done, thread_stop, m, server, total>>

SetSize ==
  /\ main = "size"
  /\ size' = amount
  /\ main' = "flag"
  /\ UNCHANGED <<prompt, configured, ready, ptr, reading_done, thread_stop, m, server, total, filled, amount>>

ClearDone ==
  /\ main = "flag"
  /\ reading_done' = FALSE
  /\ main' = "notify"
  /\ UNCHANGED <<prompt, configured, ready, ptr, size, thread_stop, m, server, total, filled, amount>>

(* notify_one wakes the server thread if it sleeps and is lost otherwise. *)
WakeServer == server' = IF server = "asleep" THEN "relock" ELSE server

NotifyReading ==
  /\ main = "notify"
  /\ WakeServer
  /\ main' = "lock"
  /\ UNCHANGED <<prompt, configured, ready, ptr, size, reading_done, thread_stop, m, total, filled, amount>>

LockMain ==
  /\ main = "lock" /\ m = "none"
  /\ m' = "main"
  /\ main' = "eval"
  /\ UNCHANGED <<prompt, configured, ready, ptr, size, reading_done, thread_stop, server, total, filled, amount>>

(* The predicate of blocker_done holds: unlock and setReady. *)
Finished ==
  /\ main = "eval" /\ reading_done
  /\ m' = "none" /\ ready' = TRUE
  /\ main' = "node"
  /\ UNCHANGED <<prompt, configured, ptr, size, reading_done, thread_stop, server, total, filled, amount>>

SleepMain ==
  /\ main = "eval" /\ ~reading_done
  /\ m' = "none"
  /\ main' = "asleep"
  /\ UNCHANGED <<prompt, configured, ready, ptr, size, reading_done, thread_stop, server, total, filled, amount>>

SpuriousMain ==
  /\ main = "asleep"
  /\ main' = "lock"
  /\ UNCHANGED <<prompt, configured, ready, ptr, size, reading_done, thread_stop, m, server, total, filled, amount>>

(* platformInit failed: DataNode::loop ends at once and ~DesktopCom runs. *)
Stop ==
  /\ main = "node" /\ ~configured
  /\ prompt => server = "asleep"
  /\ thread_stop' = TRUE
  /\ main' = "stopping"
  /\ UNCHANGED <<prompt, configured, ready, ptr, size, reading_done, m, server, total, filled, amount>>

(* Mutant: the destructor joins without waking the server thread. *)
NotifyStopSilent ==
  /\ main = "stopping"
  /\ main' = "joining"
  /\ UNCHANGED <<prompt, configured, ready, ptr, size, reading_done, thread_stop, m, server, total, filled, amount>>

NotifyStop ==
  /\ main = "stopping"
  /\ WakeServer
  /\ main' = "joining"
  /\ UNCHANGED <<prompt, configured, ready, ptr, size, reading_done, thread_stop, m, total, filled, amount>>

Join ==
  /\ main = "joining" /\ server = "exited"
  /\ main' = "gone"
  /\ UNCHANGED <<prompt, configured, ready, ptr, size, reading_done, thread_stop, m, server, total, filled, amount>>

-----------------------------------------------------------------------------
(* The server thread. *)

CheckStop ==
  /\ server = "check"
  /\ server' = IF thread_stop THEN "exited" ELSE "relock"
  /\ UNCHANGED <<prompt, configured, ready, ptr, size, reading_done, thread_stop, m, main, total, filled, amount>>

LockServer ==
  /\ server = "relock" /\ m = "none"
  /\ m' = "server"
  /\ server' = "eval"
  /\ UNCHANGED <<prompt, configured, ready, ptr, size, reading_done, thread_stop, main, total, filled, amount>>

(* Between this and Sleep a notification is lost: main takes no lock to notify. *)
NothingToDo ==
  /\ server = "eval" /\ ~ptr /\ ~thread_stop
  /\ server' = "block"
  /\ UNCHANGED <<prompt, configured, ready, ptr, size, reading_done, thread_stop, m, main, total, filled, amount>>

Sleep ==
  /\ server = "block"
  /\ m' = "none"
  /\ server' = "asleep"
  /\ UNCHANGED <<prompt, configured, ready, ptr, size, reading_done, thread_stop, main, total, filled, amount>>

SpuriousServer ==
  /\ server = "asleep"
  /\ prompt => ~Calling
  /\ server' = "relock"
  /\ UNCHANGED <<prompt, configured, ready, ptr, size, reading_done, thread_stop, m, main, total, filled, amount>>

Exit ==
  /\ server = "eval" /\ thread_stop
  /\ m' = "none"
  /\ server' = "exited"
  /\ UNCHANGED <<prompt, configured, ready, ptr, size, reading_done, thread_stop, main, total, filled, amount>>

BeginRead ==
  /\ server = "eval" /\ ptr /\ ~thread_stop
  /\ total' = 0
  /\ server' = "read"
  /\ UNCHANGED <<prompt, configured, ready, ptr, size, reading_done, thread_stop, m, main, filled, amount>>

(* Mutant: one byte too many is asked for. *)
ReadBytesOver ==
  /\ server = "read" /\ total < size
  /\ total' \in total + 1 .. size + 1
  /\ UNCHANGED <<prompt, configured, ready, ptr, size, reading_done, thread_stop, m, main, server, filled, amount>>

(* readBinary returns some of the bytes asked for; a timeout changes nothing. *)
ReadBytes ==
  /\ server = "read" /\ total < size
  /\ total' \in total + 1 .. size
  /\ UNCHANGED <<prompt, configured, ready, ptr, size, reading_done, thread_stop, m, main, server, filled, amount>>

(* Mutant: the read ends with the first part of the frame. *)
EndOfReadEarly ==
  /\ server = "read" /\ total > 0
  /\ server' = "finish"
  /\ UNCHANGED <<prompt, configured, ready, ptr, size, reading_done, thread_stop, m, main, total, filled, amount>>

EndOfRead ==
  /\ server = "read" /\ total >= size
  /\ server' = "finish"
  /\ UNCHANGED <<prompt, configured, ready, ptr, size, reading_done, thread_stop, m, main, total, filled, amount>>

(* Mutant: notify_one is forgotten. *)
FinishSilent ==
  /\ server = "finish" /\ size > 0
  /\ filled' = total
  /\ ptr' = FALSE /\ size' = 0 /\ reading_done' = TRUE
  /\ m' = "none" /\ server' = "check"
  /\ UNCHANGED <<prompt, configured, ready, thread_stop, main, total, amount>>

(* Mutant: reading_done is set before the bytes are copied, without the mutex. *)
FinishEarly ==
  /\ server = "finish" /\ size > 0
  /\ reading_done' = TRUE
  /\ main' = IF main = "asleep" THEN "lock" ELSE main
  /\ m' = "none"
  /\ UNCHANGED <<prompt, configured, ready, ptr, size, thread_stop, server, total, filled, amount>>

(* size is read once more: copy, reset buffer_support, reading_done, notify.
   The mutex is held, so main is not between its predicate and its sleep. *)
Finish ==
  /\ server = "finish" /\ size > 0
  /\ filled' = total
  /\ ptr' = FALSE /\ size' = 0 /\ reading_done' = TRUE
  /\ main' = IF main = "asleep" THEN "lock" ELSE main
  /\ m' = "none" /\ server' = "check"
  /\ UNCHANGED <<prompt, configured, ready, thread_stop, total, amount>>

FinishNothing ==
  /\ server = "finish" /\ size = 0
  /\ m' = "none" /\ server' = "check"
  /\ UNCHANGED <<prompt, configured, ready, ptr, size, reading_done, thread_stop, main, total, filled, amount>>

-----------------------------------------------------------------------------
Main ==
  \/ SetPtr \/ SetSize \/ ClearDone \/ NotifyReading \/ LockMain \/ Finished \/ SleepMain
  \/ Stop \/ NotifyStop \/ Join

ServerThread ==
  \/ CheckStop \/ LockServer \/ NothingToDo \/ Sleep \/ Exit \/ BeginRead \/ ReadBytes
  \/ EndOfRead \/ Finish \/ FinishNothing

Terminated == main = "gone" /\ UNCHANGED vars

Next == Main \/ ServerThread \/ SpuriousMain \/ SpuriousServer \/ Terminated

Spec == Init /\ [][Next]_vars

(* Both threads are scheduled and get the mutex in turn; the bytes of a frame
   arrive in the end; nothing wakes a thread but a notification. *)
FairSpec ==
  /\ Spec
  /\ WF_vars(Main) /\ SF_vars(LockMain)
  /\ WF_vars(ServerThread) /\ SF_vars(LockServer)

-----------------------------------------------------------------------------
(* Properties *)

Flags ==
  /\ prompt \in Prompts
  /\ configured \in BOOLEAN /\ ready \in BOOLEAN /\ ptr \in BOOLEAN
  /\ reading_done \in BOOLEAN /\ thread_stop \in BOOLEAN

Sizes ==
  /\ amount \in Nat /\ size \in Nat /\ total \in Nat /\ filled \in Nat
  /\ size = 0 \/ size = amount
  /\ filled <= amount

Places ==
  /\ m \in {"none", "main", "server"}
  /\ main \in {"node", "size", "flag", "notify", "lock", "eval", "asleep", "stopping", "joining", "gone"}
  /\ server \in {"check", "relock", "eval", "block", "asleep", "read", "finish", "exited"}

(* Type invariant: every part of the handshake has the values of its C++ type,
   and no more bytes are counted than a frame has. *)
TypeOK == Flags /\ Sizes /\ Places

(* Whatever the timing, the server thread is not reading into the buffer and has
   no pointer to it while the node works on the frame and its reply
   (DataNode::handleReady between two readData). *)
BufferOwned == main = "node" => ~ptr /\ server \notin {"read", "finish"}

(* setReady `when a read operation is completed' (com.hpp): the node takes a
   buffer for a frame only when the whole frame of this call is in it.  Without
   the timing of ReadyMeansComplete it is violated (ComStaleBug): a server thread
   that wakes between `ptr = data' and `size = amount' finds 0 bytes to read and
   reports them as done. *)
EveryReadIsComplete == main = "node" /\ ready => filled = amount

(* With a server thread that sleeps at every call, across partial reads and
   timeouts of the port. *)
ReadyMeansComplete == prompt => EveryReadIsComplete

(* A node that sleeps for its frame is never forgotten: the frame is not done
   yet, the request is still in buffer_support and the server thread is on its
   way to it, never asleep.  With any timing a notification is lost. *)
NobodyForgotten ==
  prompt /\ main = "asleep" => /\ ~reading_done /\ ptr /\ size = amount
                     /\ server \in {"relock", "eval", "read", "finish"}

(* platformReadData (`start reading in separated thread') returns when the bytes
   arrive.  Violated with any timing (ComLostWakeBug). *)
EveryReadCompletes == main = "size" ~> main = "node"

(* It returns if the server thread sleeps at every call. *)
ReadCompletes == prompt /\ main = "size" ~> main = "node"

(* ~DesktopCom returns: the server thread sees thread_stop and is joined, if it
   sleeps when it is told; with any timing that notification is lost like the
   one of a read. *)
StopCompletes == prompt /\ main = "stopping" ~> main = "gone"
=============================================================================
