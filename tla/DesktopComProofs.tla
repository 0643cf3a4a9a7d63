-------------------------- MODULE DesktopComProofs --------------------------
(***************************************************************************)
(* Theorems of DesktopCom.  HandshakeInv is inductive under every timing   *)
(* and gives the typing and BufferOwned.  PromptInv is inductive together  *)
(* with it when the server thread sleeps whenever it is called, and gives  *)
(* ReadyMeansComplete and NobodyForgotten.                                 *)
(***************************************************************************)
EXTENDS DesktopCom, TLAPS

Outside == {"node", "stopping", "joining", "gone"}
Waiting == {"lock", "eval", "asleep"}
Reading == {"read", "finish"}

(* The mutex is held exactly where the two threads believe to hold it. *)
MutexHeld ==
  /\ m = "main" <=> main = "eval"
  /\ m = "server" <=> server \in Reading \cup {"eval", "block"}

(* buffer_support is filled in by main and emptied by the server thread. *)
Support ==
  /\ ~ptr => size = 0
  /\ main = "size" => ptr /\ size = 0
  /\ main \in Outside => ~ptr
  /\ server \in Reading => ptr /\ total <= amount

(* reading_done is set only after the pointer was taken back, once it has
   been cleared for this call. *)
DoneMeansTaken == main \in Waiting \cup {"notify"} /\ reading_done => ~ptr

HandshakeInv == TypeOK /\ MutexHeld /\ Support /\ DoneMeansTaken

LEMMA HandshakeInit == Init => HandshakeInv
<1> SUFFICES ASSUME Init PROVE HandshakeInv
  OBVIOUS
<1>1. Flags
  BY DesktopComAssumption DEF Init, Flags
<1>2. Sizes
  BY DEF Init, Sizes
<1>3. Places
  BY DEF Init, Places
<1>4. MutexHeld /\ Support /\ DoneMeansTaken
  BY DEF Init, MutexHeld, Support, DoneMeansTaken, Outside, Waiting, Reading
<1> QED  BY <1>1, <1>2, <1>3, <1>4 DEF HandshakeInv, TypeOK

LEMMA HandshakeNext == HandshakeInv /\ [Next]_vars => HandshakeInv'
<1> SUFFICES ASSUME HandshakeInv, [Next]_vars PROVE HandshakeInv'
  OBVIOUS
<1> USE DesktopComAssumption
    DEF HandshakeInv, TypeOK, Flags, Sizes, Places, MutexHeld, Support, DoneMeansTaken, Outside, Waiting, Reading
<1>1. CASE SetPtr
  <2>1. Flags' /\ Places'  BY <1>1 DEF SetPtr
  <2>2. Sizes'  BY <1>1 DEF SetPtr
  <2>3. MutexHeld' /\ DoneMeansTaken'  BY <1>1 DEF SetPtr
  <2>4. Support'  BY <1>1 DEF SetPtr
  <2> QED  BY <2>1, <2>2, <2>3, <2>4
<1>2. CASE SetSize
  <2>1. Flags' /\ Places'  BY <1>2 DEF SetSize
  <2>2. Sizes'  BY <1>2 DEF SetSize
  <2>3. MutexHeld' /\ DoneMeansTaken'  BY <1>2 DEF SetSize
  <2>4. Support'  BY <1>2 DEF SetSize
  <2> QED  BY <2>1, <2>2, <2>3, <2>4
<1>3. CASE ClearDone    BY <1>3 DEF ClearDone
<1>4. CASE NotifyReading BY <1>4 DEF NotifyReading, WakeServer
<1>5. CASE LockMain     BY <1>5 DEF LockMain
<1>6. CASE Finished     BY <1>6 DEF Finished
<1>7. CASE SleepMain    BY <1>7 DEF SleepMain
<1>8. CASE Stop         BY <1>8 DEF Stop
<1>9. CASE NotifyStop   BY <1>9 DEF NotifyStop, WakeServer
<1>10. CASE Join        BY <1>10 DEF Join
<1>11. CASE CheckStop   BY <1>11 DEF CheckStop
<1>12. CASE LockServer  BY <1>12 DEF LockServer
<1>13. CASE NothingToDo BY <1>13 DEF NothingToDo
<1>14. CASE Sleep       BY <1>14 DEF Sleep
<1>15. CASE Exit        BY <1>15 DEF Exit
<1>16. CASE BeginRead   BY <1>16 DEF BeginRead
<1>17. CASE ReadBytes   BY <1>17 DEF ReadBytes
<1>18. CASE EndOfRead   BY <1>18 DEF EndOfRead
<1>19. CASE Finish
  <2>1. ~ptr' /\ size' = 0 /\ main # "size" /\ server' = "check"  BY <1>19 DEF Finish
  <2>2. \/ main' = main
        \/ main = "asleep" /\ main' = "lock"
    BY <1>19 DEF Finish
  <2>3. Flags' /\ Places'  BY <1>19, <2>1, <2>2 DEF Finish
  <2>4. Sizes' /\ Support'  BY <1>19, <2>1, <2>2 DEF Finish
  <2>5. MutexHeld' /\ DoneMeansTaken'  BY <1>19, <2>1, <2>2 DEF Finish
  <2> QED  BY <2>3, <2>4, <2>5
<1>20. CASE FinishNothing BY <1>20 DEF FinishNothing
<1>21. CASE SpuriousMain  BY <1>21 DEF SpuriousMain
<1>22. CASE SpuriousServer BY <1>22 DEF SpuriousServer
<1>23. CASE UNCHANGED vars BY <1>23 DEF vars
<1> QED
  BY <1>1, <1>2, <1>3, <1>4, <1>5, <1>6, <1>7, <1>8, <1>9, <1>10, <1>11, <1>12, <1>13, <1>14,
     <1>15, <1>16, <1>17, <1>18, <1>19, <1>20, <1>21, <1>22, <1>23
     DEF Next, Main, ServerThread, Terminated

LEMMA Handshake == Spec => []HandshakeInv
  BY HandshakeInit, HandshakeNext, PTL DEF Spec

(* Every part of the handshake keeps its type, for every timing. *)
THEOREM ComTypeCorrect == Spec => []TypeOK
<1>1. HandshakeInv => TypeOK  BY DEF HandshakeInv
<1> QED  BY <1>1, Handshake, PTL

(* While the node works on a frame the server thread has no pointer to the
   buffer, for every timing: what makes DataNode::handleReady safe. *)
THEOREM BufferIsOwned == Spec => []BufferOwned
<1>1. HandshakeInv => BufferOwned
  BY DEF HandshakeInv, Support, BufferOwned, Outside, Reading
<1> QED  BY <1>1, Handshake, PTL

-----------------------------------------------------------------------------
(* With the server thread asleep at every call. *)

(* main calls a sleeping server thread. *)
CallsSleeper ==
  /\ Calling => server = "asleep" /\ ptr /\ amount \in Amounts
  /\ main \in {"flag", "notify"} => size = amount
  /\ main = "notify" => ~reading_done

(* From the call to the end of the frame the request stays in buffer_support
   and the server thread is at work. *)
RequestServed ==
  /\ main \in Waiting =>
       \/ reading_done /\ filled = amount
       \/ ~reading_done /\ ptr /\ size = amount /\ server \in {"relock", "eval"} \cup Reading
  /\ main \in Waiting => amount \in Amounts
  /\ server = "finish" => total = amount

StopIsLast == thread_stop => main \in Outside \ {"node"}

PromptInv ==
  prompt => CallsSleeper /\ RequestServed /\ StopIsLast /\ ReadyMeansComplete /\ NobodyForgotten

LEMMA PromptInit == Init => PromptInv
  BY DEF Init, PromptInv, CallsSleeper, RequestServed, StopIsLast, ReadyMeansComplete,
         EveryReadIsComplete, NobodyForgotten, Calling, Outside, Waiting, Reading

LEMMA PromptNext ==
  ASSUME HandshakeInv, PromptInv, [Next]_vars PROVE PromptInv'
<1>0. prompt' = prompt
  BY DEF Next, Main, ServerThread, Terminated, vars, SetPtr, SetSize, ClearDone, NotifyReading, LockMain, Finished,
         SleepMain, Stop, NotifyStop, Join, CheckStop, LockServer, NothingToDo, Sleep, Exit, BeginRead, ReadBytes,
         EndOfRead, Finish, FinishNothing, SpuriousMain, SpuriousServer
<1> SUFFICES ASSUME prompt PROVE PromptInv'
  BY <1>0 DEF PromptInv
<1> USE DesktopComAssumption, HandshakeInv, PromptInv
    DEF EveryReadIsComplete, HandshakeInv, TypeOK, Flags, Sizes, Places, MutexHeld, Support, DoneMeansTaken, Outside, Waiting, Reading, Calling,
        PromptInv, CallsSleeper, RequestServed, StopIsLast, ReadyMeansComplete, NobodyForgotten
<1>1. CASE SetPtr       BY <1>1 DEF SetPtr
<1>2. CASE SetSize      BY <1>2 DEF SetSize
<1>3. CASE ClearDone    BY <1>3 DEF ClearDone
<1>4. CASE NotifyReading BY <1>4 DEF NotifyReading, WakeServer
<1>5. CASE LockMain     BY <1>5 DEF LockMain
<1>6. CASE Finished     BY <1>6 DEF Finished
<1>7. CASE SleepMain    BY <1>7 DEF SleepMain
<1>8. CASE Stop         BY <1>8 DEF Stop
<1>9. CASE NotifyStop   BY <1>9 DEF NotifyStop, WakeServer
<1>10. CASE Join        BY <1>10 DEF Join
<1>11. CASE CheckStop   BY <1>11 DEF CheckStop
<1>12. CASE LockServer  BY <1>12 DEF LockServer
<1>13. CASE NothingToDo BY <1>13 DEF NothingToDo
<1>14. CASE Sleep       BY <1>14 DEF Sleep
<1>15. CASE Exit        BY <1>15 DEF Exit
<1>16. CASE BeginRead   BY <1>16 DEF BeginRead
<1>17. CASE ReadBytes   BY <1>17 DEF ReadBytes
<1>18. CASE EndOfRead   BY <1>18 DEF EndOfRead
<1>19. CASE Finish      BY <1>19 DEF Finish
<1>20. CASE FinishNothing BY <1>20 DEF FinishNothing
<1>21. CASE SpuriousMain  BY <1>21 DEF SpuriousMain
<1>22. CASE SpuriousServer BY <1>22 DEF SpuriousServer
<1>23. CASE UNCHANGED vars BY <1>23 DEF vars
<1> QED
  BY <1>1, <1>2, <1>3, <1>4, <1>5, <1>6, <1>7, <1>8, <1>9, <1>10, <1>11, <1>12, <1>13, <1>14,
     <1>15, <1>16, <1>17, <1>18, <1>19, <1>20, <1>21, <1>22, <1>23
     DEF Next, Main, ServerThread, Terminated

LEMMA PromptHandshake == Spec => []PromptInv
<1>1. HandshakeInv /\ PromptInv /\ [Next]_vars => PromptInv'
  BY PromptNext
<1> QED  BY <1>1, PromptInit, Handshake, PTL DEF Spec

(* The node takes only whole frames when the server thread sleeps whenever it
   is called. *)
THEOREM FramesAreWhole == Spec => []ReadyMeansComplete
<1>1. PromptInv => ReadyMeansComplete  BY DEF PromptInv, ReadyMeansComplete
<1> QED  BY <1>1, PromptHandshake, PTL

(* ... and then a node that sleeps for its frame is never forgotten. *)
THEOREM NodeIsServed == Spec => []NobodyForgotten
<1>1. PromptInv => NobodyForgotten  BY DEF PromptInv, NobodyForgotten
<1> QED  BY <1>1, PromptHandshake, PTL
=============================================================================
