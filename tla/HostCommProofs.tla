--------------------------- MODULE HostCommProofs ---------------------------
(***************************************************************************)
(* What HostComm guarantees for every number of robots and every bound on  *)
(* the updates and the "ready"s: type correctness, no lost wake-up, no     *)
(* stale frame, and the implementation of CommandLink.                     *)
(***************************************************************************)
EXTENDS HostComm, TLAPS

USE NumRobotsAssumption, BoundsAssumption

\* A bounded counter is below its bound while its next step is on the way.
CountersBelowBounds ==
    /\ main \in {"clear", "append", "lock", "flag"} => updates < MaxUpdates
    /\ rx \in {"lock", "flag"} => readies < MaxReadies

CountersInv == CountersOK /\ CountersBelowBounds

TypeInv == TypeOK /\ CountersBelowBounds

\* Who holds the lock is where the lock is held; before the constructor has
\* started the threads there is nobody to hold it.
MutualExclusion ==
    /\ main = "setup" => tx = "idle" /\ rx = "idle"
    /\ mtx = "main" <=> main = "flag"
    /\ mtx = "tx" <=> tx \in {"test", "block"}
    /\ mtx = "rx" <=> rx = "flag"

\* A refused predicate stays false until the thread is in the wait set.
RefusalIsCurrent == tx = "block" => ~(received_ready /\ new_stored_commands)

WakeupInv == MutualExclusion /\ RefusalIsCurrent /\ NoLostWakeup

\* A flag, or a send in progress, is a credit that no datagram has used up.
Credit(b) == IF b THEN 1 ELSE 0
Sending == tx \in {"send", "copy"}

CreditInv ==
    /\ sent + Credit(Sending) + Credit(received_ready) <= readies
    /\ sent + Credit(Sending) + Credit(new_stored_commands) <= updates

\* No complete frame in memory is older than the last completed update, and
\* what the update in progress has written is newer than that.
FrameInv ==
    /\ \A i \in Robots : stored_commands[i] # Torn => stored_commands[i] >= updates
    /\ main \in {"append", "lock", "flag"} =>
           \A i \in 1..stored_size : stored_commands[i] = updates + 1
    /\ main \in {"lock", "flag"} => stored_size = NumRobots
    /\ tx_floor <= updates
    /\ NoStaleFrame

IInv == TypeInv /\ WakeupInv /\ CreditInv /\ FrameInv

-----------------------------------------------------------------------------
(* Initial states *)

\* The state in which HostComm is constructed satisfies the whole invariant.
LEMMA InitIInv == Init => IInv
<1> SUFFICES ASSUME Init PROVE IInv
  OBVIOUS
<1>1. TypeInv
  <2>1. ControlOK /\ CountersOK /\ CountersBelowBounds
    BY DEF Init, ControlOK, CountersOK, CountersBelowBounds
  <2>3. FlagsOK
    BY DEF Init, FlagsOK
  <2>2. BufferOK
    BY DEF Init, BufferOK, Robots, Torn
  <2> QED
    BY <2>1, <2>2, <2>3 DEF TypeInv, TypeOK
<1>2. WakeupInv
  BY DEF Init, WakeupInv, MutualExclusion, RefusalIsCurrent, NoLostWakeup
<1>3. CreditInv
  BY DEF Init, CreditInv, Credit, Sending
<1>4. FrameInv
  BY DEF Init, FrameInv, NoStaleFrame, Robots, Torn
<1> QED
  BY <1>1, <1>2, <1>3, <1>4 DEF IInv

-----------------------------------------------------------------------------
(* One lemma per part of the invariant *)

\* No step takes a control variable out of its type.
LEMMA ControlStep == ControlOK /\ [Next]_vars => ControlOK'
<1> SUFFICES ASSUME ControlOK, [Next]_vars PROVE ControlOK'
  OBVIOUS
<1> USE DEF ControlOK
<1>1. CASE AppendFrame
  BY <1>1 DEF AppendFrame, flags
<1>2. CASE Setup \/ SetupFails \/ LoopStep \/ ClearCommands \/ MainLock
         \/ FlagCommands \/ MainNotify \/ LeaveLoop \/ Exit \/ JoinTransmission
         \/ JoinReception
  BY <1>2 DEF Setup, SetupFails, LoopStep, ClearCommands, MainLock, FlagCommands,
              MainNotify, LeaveLoop, Exit, JoinTransmission, JoinReception, flags,
              buffer, send, Notified
<1>3. CASE TxCheckRunning \/ TxLock \/ TxConsume \/ TxRefuse \/ TxBlock
         \/ SpuriousWakeup \/ TxView \/ TxCopy \/ TxSent \/ TxThrows
  BY <1>3 DEF TxCheckRunning, TxLock, TxConsume, TxRefuse, TxBlock, SpuriousWakeup,
              TxView, TxCopy, TxSent, TxThrows, flags, buffer,
              send, Notified
<1>4. CASE RxCheckRunning \/ Receive \/ RxThrows \/ RxLock \/ FlagReady
         \/ RxNotify
  BY <1>4 DEF RxCheckRunning, Receive, RxThrows, RxLock, FlagReady, RxNotify,
              flags, buffer, send, Notified
<1>5. CASE UNCHANGED vars
  BY <1>5 DEF vars, flags, buffer, send, Notified
<1> QED
  BY <1>1, <1>2, <1>3, <1>4, <1>5 DEF Next, MainStep, TxStep, RxStep

\* The flags stay Boolean.
LEMMA FlagsStep == FlagsOK /\ [Next]_vars => FlagsOK'
<1> SUFFICES ASSUME FlagsOK, [Next]_vars PROVE FlagsOK'
  OBVIOUS
<1> USE DEF FlagsOK
<1>1. CASE AppendFrame
  BY <1>1 DEF AppendFrame, flags
<1>2. CASE Setup \/ SetupFails \/ LoopStep \/ ClearCommands \/ MainLock
         \/ FlagCommands \/ MainNotify \/ LeaveLoop \/ Exit \/ JoinTransmission
         \/ JoinReception
  BY <1>2 DEF Setup, SetupFails, LoopStep, ClearCommands, MainLock, FlagCommands,
              MainNotify, LeaveLoop, Exit, JoinTransmission, JoinReception, flags,
              buffer, send
<1>3. CASE TxCheckRunning \/ TxLock \/ TxConsume \/ TxRefuse \/ TxBlock
         \/ SpuriousWakeup \/ TxView \/ TxCopy \/ TxSent \/ TxThrows
  BY <1>3 DEF TxCheckRunning, TxLock, TxConsume, TxRefuse, TxBlock, SpuriousWakeup,
              TxView, TxCopy, TxSent, TxThrows, flags, buffer,
              send
<1>4. CASE RxCheckRunning \/ Receive \/ RxThrows \/ RxLock \/ FlagReady
         \/ RxNotify
  BY <1>4 DEF RxCheckRunning, Receive, RxThrows, RxLock, FlagReady, RxNotify,
              flags, buffer, send
<1>5. CASE UNCHANGED vars
  BY <1>5 DEF vars, flags, buffer, send
<1> QED
  BY <1>1, <1>2, <1>3, <1>4, <1>5 DEF Next, MainStep, TxStep, RxStep

\* No step takes a counter past its bound: LoopStep and Receive look ahead.
LEMMA CountersStep == CountersInv /\ [Next]_vars => CountersInv'
<1> SUFFICES ASSUME CountersInv, [Next]_vars PROVE CountersInv'
  OBVIOUS
<1> USE DEF CountersInv, CountersOK, CountersBelowBounds
<1>1. CASE AppendFrame
  BY <1>1 DEF AppendFrame
<1>2. CASE Setup \/ SetupFails \/ LoopStep \/ ClearCommands \/ MainLock
         \/ FlagCommands \/ MainNotify \/ LeaveLoop \/ Exit \/ JoinTransmission
         \/ JoinReception
  BY <1>2 DEF Setup, SetupFails, LoopStep, ClearCommands, MainLock, FlagCommands,
              MainNotify, LeaveLoop, Exit, JoinTransmission, JoinReception, flags,
              buffer, send, Notified
<1>3. CASE TxCheckRunning \/ TxLock \/ TxConsume \/ TxRefuse \/ TxBlock
         \/ SpuriousWakeup \/ TxView \/ TxCopy \/ TxSent \/ TxThrows
  BY <1>3 DEF TxCheckRunning, TxLock, TxConsume, TxRefuse, TxBlock, SpuriousWakeup,
              TxView, TxCopy, TxSent, TxThrows, flags, buffer,
              send, Notified
<1>4. CASE RxCheckRunning \/ Receive \/ RxThrows \/ RxLock \/ FlagReady
         \/ RxNotify
  BY <1>4 DEF RxCheckRunning, Receive, RxThrows, RxLock, FlagReady, RxNotify,
              flags, buffer, send, Notified
<1>5. CASE UNCHANGED vars
  BY <1>5 DEF vars, flags, buffer, send, Notified
<1> QED
  BY <1>1, <1>2, <1>3, <1>4, <1>5 DEF Next, MainStep, TxStep, RxStep

\* No step takes stored_commands, the buffer of a send or the datagram out of
\* its type; a frame in the making belongs to a cycle within the bound.
LEMMA BufferStep == CountersInv /\ BufferOK /\ [Next]_vars => BufferOK'
<1> SUFFICES ASSUME CountersInv /\ BufferOK, [Next]_vars PROVE BufferOK'
  OBVIOUS
<1> USE DEF CountersInv, CountersOK, CountersBelowBounds, BufferOK, Robots, Torn
<1>1. CASE ClearCommands
  BY <1>1 DEF ClearCommands, send
<1>2. CASE AppendFrame
  <2>1. PICK grows \in BOOLEAN : tx_view' = [tx_view EXCEPT !.live = @ /\ ~grows]
    BY <1>2 DEF AppendFrame
  <2>2. tx_view' \in [size : 0..NumRobots, live : BOOLEAN]
    BY <2>1
  <2>3. updates + 1 \in 0..MaxUpdates /\ stored_size' \in 0..NumRobots
    BY <1>2 DEF AppendFrame
  <2>4. stored_commands' \in [Robots -> 0..MaxUpdates]
    BY <1>2, <2>3 DEF AppendFrame
  <2> QED
    BY <1>2, <2>2, <2>3, <2>4 DEF AppendFrame
<1>3. CASE TxView
  BY <1>3 DEF TxView, buffer
<1>4. CASE TxCopy
  BY <1>4 DEF TxCopy, buffer
<1>5. CASE Setup \/ SetupFails \/ LoopStep \/ MainLock \/ FlagCommands
         \/ MainNotify \/ LeaveLoop \/ Exit \/ JoinTransmission \/ JoinReception
  BY <1>5 DEF Setup, SetupFails, LoopStep, MainLock, FlagCommands, MainNotify,
              LeaveLoop, Exit, JoinTransmission, JoinReception, flags, buffer,
              send
<1>6. CASE TxCheckRunning \/ TxLock \/ TxConsume \/ TxRefuse \/ TxBlock
         \/ SpuriousWakeup \/ TxSent \/ TxThrows
  BY <1>6 DEF TxCheckRunning, TxLock, TxConsume, TxRefuse, TxBlock, SpuriousWakeup,
              TxSent, TxThrows, flags, buffer, send
<1>7. CASE RxCheckRunning \/ Receive \/ RxThrows \/ RxLock \/ FlagReady
         \/ RxNotify
  BY <1>7 DEF RxCheckRunning, Receive, RxThrows, RxLock, FlagReady, RxNotify,
              flags, buffer, send
<1>8. CASE UNCHANGED vars
  BY <1>8 DEF vars, flags, buffer, send
<1> QED
  BY <1>1, <1>2, <1>3, <1>4, <1>5, <1>6, <1>7, <1>8 DEF Next, MainStep, TxStep, RxStep

\* The lock makes testing the predicate and entering the wait set atomic for
\* the threads that raise the flags, so no notification is lost.
LEMMA WakeupStep == ControlOK /\ WakeupInv /\ [Next]_vars => WakeupInv'
<1> SUFFICES ASSUME ControlOK /\ WakeupInv, [Next]_vars PROVE WakeupInv'
  OBVIOUS
<1> USE DEF ControlOK, WakeupInv, MutualExclusion, RefusalIsCurrent, NoLostWakeup
<1>1. CASE Setup
  BY <1>1 DEF Setup, flags
<1>2. CASE AppendFrame
  BY <1>2 DEF AppendFrame, flags
<1>3. CASE MainLock
  BY <1>3 DEF MainLock, flags
<1>4. CASE FlagCommands
  BY <1>4 DEF FlagCommands
<1>5. CASE MainNotify
  BY <1>5 DEF MainNotify, Notified, flags
<1>6. CASE SetupFails \/ LoopStep \/ ClearCommands \/ LeaveLoop \/ Exit
         \/ JoinTransmission \/ JoinReception
  BY <1>6 DEF SetupFails, LoopStep, ClearCommands, LeaveLoop, Exit, JoinTransmission,
              JoinReception, flags, buffer, send, Notified
<1>7. CASE TxCheckRunning \/ TxLock \/ TxConsume \/ TxRefuse \/ TxBlock
         \/ SpuriousWakeup \/ TxView \/ TxCopy \/ TxSent \/ TxThrows
  BY <1>7 DEF TxCheckRunning, TxLock, TxConsume, TxRefuse, TxBlock, SpuriousWakeup,
              TxView, TxCopy, TxSent, TxThrows, flags, buffer,
              send, Notified
<1>8. CASE RxCheckRunning \/ Receive \/ RxThrows \/ RxLock \/ FlagReady
         \/ RxNotify
  BY <1>8 DEF RxCheckRunning, Receive, RxThrows, RxLock, FlagReady, RxNotify,
              flags, buffer, send, Notified
<1>9. CASE UNCHANGED vars
  BY <1>9 DEF vars, flags, buffer, send, Notified
<1> QED
  BY <1>1, <1>2, <1>3, <1>4, <1>5, <1>6, <1>7, <1>8, <1>9 DEF Next, MainStep, TxStep, RxStep

\* A datagram is paid for with the two flags that TxConsume clears.
LEMMA CreditStep == ControlOK /\ CountersOK /\ CreditInv /\ [Next]_vars => CreditInv'
<1> SUFFICES ASSUME ControlOK /\ CountersOK /\ CreditInv, [Next]_vars PROVE CreditInv'
  OBVIOUS
<1> USE DEF ControlOK, CountersOK, CreditInv, Credit, Sending
<1>1. CASE AppendFrame
  BY <1>1 DEF AppendFrame, flags
<1>2. CASE Setup \/ SetupFails \/ LoopStep \/ ClearCommands \/ MainLock
         \/ FlagCommands \/ MainNotify \/ LeaveLoop \/ Exit \/ JoinTransmission
         \/ JoinReception
  BY <1>2 DEF Setup, SetupFails, LoopStep, ClearCommands, MainLock, FlagCommands,
              MainNotify, LeaveLoop, Exit, JoinTransmission, JoinReception, flags,
              buffer, send, Notified
<1>3. CASE TxCheckRunning \/ TxLock \/ TxConsume \/ TxRefuse \/ TxBlock
         \/ SpuriousWakeup \/ TxView \/ TxCopy \/ TxSent \/ TxThrows
  BY <1>3 DEF TxCheckRunning, TxLock, TxConsume, TxRefuse, TxBlock, SpuriousWakeup,
              TxView, TxCopy, TxSent, TxThrows, flags, buffer,
              send, Notified
<1>4. CASE RxCheckRunning \/ Receive \/ RxThrows \/ RxLock \/ FlagReady
         \/ RxNotify
  BY <1>4 DEF RxCheckRunning, Receive, RxThrows, RxLock, FlagReady, RxNotify,
              flags, buffer, send, Notified
<1>5. CASE UNCHANGED vars
  BY <1>5 DEF vars, flags, buffer, send, Notified
<1> QED
  BY <1>1, <1>2, <1>3, <1>4, <1>5 DEF Next, MainStep, TxStep, RxStep

\* SetRobotCommands only ever replaces a frame by a newer one or by torn bytes,
\* and everything is replaced before its flag goes up.
LEMMA FrameStep == CountersInv /\ BufferOK /\ FrameInv /\ [Next]_vars => FrameInv'
<1> SUFFICES ASSUME CountersInv /\ BufferOK /\ FrameInv, [Next]_vars PROVE FrameInv'
  OBVIOUS
<1> USE DEF CountersInv, CountersOK, CountersBelowBounds, BufferOK, FrameInv, NoStaleFrame, Robots, Torn
<1>1. CASE ClearCommands
  BY <1>1 DEF ClearCommands, flags, send
<1>2. CASE AppendFrame
  <2> DEFINE i == stored_size + 1
  <2>1. /\ main = "append" /\ stored_size < NumRobots
        /\ stored_commands' = [j \in Robots |-> CASE j = i -> updates + 1
                                                  [] j = i + 1 -> Torn
                                                  [] OTHER -> stored_commands[j]]
        /\ stored_size' = i
        /\ main' = IF i = NumRobots THEN "lock" ELSE "append"
        /\ UNCHANGED <<tx, tx_copy, tx_floor, updates>>
    BY <1>2 DEF AppendFrame
  <2>2. \A j \in Robots : stored_commands'[j] # Torn => stored_commands'[j] >= updates
    BY <2>1
  <2>3. ASSUME NEW j \in 1..i PROVE stored_commands'[j] = updates + 1
    <3>1. CASE j = i
      BY <2>1, <3>1
    <3>2. CASE j # i
      <4>1. j \in Robots /\ j \in 1..stored_size /\ j # i + 1
        BY <2>1, <3>2
      <4>2. stored_commands'[j] = stored_commands[j]
        BY <2>1, <3>2, <4>1
      <4>3. stored_commands[j] = updates + 1
        BY <2>1, <4>1
      <4> QED
        BY <4>2, <4>3
    <3> QED
      BY <3>1, <3>2
  <2> QED
    BY <2>1, <2>2, <2>3
<1>3. CASE FlagCommands
  BY <1>3 DEF FlagCommands, buffer, send
<1>4. CASE TxConsume
  BY <1>4 DEF TxConsume, buffer
<1>5. CASE TxView
  BY <1>5 DEF TxView, flags, buffer
<1>6. CASE TxCopy
  BY <1>6 DEF TxCopy, flags, buffer
<1>7. CASE Setup \/ SetupFails \/ LoopStep \/ MainLock \/ MainNotify
         \/ LeaveLoop \/ Exit \/ JoinTransmission \/ JoinReception
  BY <1>7 DEF Setup, SetupFails, LoopStep, MainLock, MainNotify, LeaveLoop,
              Exit, JoinTransmission, JoinReception, flags, buffer, send,
              Notified
<1>8. CASE TxCheckRunning \/ TxLock \/ TxRefuse \/ TxBlock \/ SpuriousWakeup
         \/ TxSent \/ TxThrows
  BY <1>8 DEF TxCheckRunning, TxLock, TxRefuse, TxBlock, SpuriousWakeup, TxSent,
              TxThrows, flags, buffer, send, Notified
<1>9. CASE RxCheckRunning \/ Receive \/ RxThrows \/ RxLock \/ FlagReady
         \/ RxNotify
  BY <1>9 DEF RxCheckRunning, Receive, RxThrows, RxLock, FlagReady, RxNotify,
              flags, buffer, send, Notified
<1>10. CASE UNCHANGED vars
  BY <1>10 DEF vars, flags, buffer, send, Notified
<1> QED
  BY <1>1, <1>2, <1>3, <1>4, <1>5, <1>6, <1>7, <1>8, <1>9, <1>10 DEF Next, MainStep, TxStep, RxStep

-----------------------------------------------------------------------------
(* The theorems *)

\* The invariant holds in every reachable state.
THEOREM Invariance == Spec => []IInv
<1>1. IInv /\ [Next]_vars => IInv'
  BY FlagsStep, ControlStep, CountersStep, BufferStep, WakeupStep, CreditStep, FrameStep
     DEF IInv, TypeInv, TypeOK, CountersInv
<1> QED
  BY InitIInv, <1>1, PTL DEF Spec

\* Every variable of the command link keeps its type.
THEOREM TypeCorrect == Spec => []TypeOK
<1>1. IInv => TypeOK
  BY DEF IInv, TypeInv
<1> QED
  BY Invariance, <1>1, PTL

\* The transmission thread never sleeps on work that nobody will announce.
THEOREM WakeupNeverLost == Spec => []NoLostWakeup
<1>1. IInv => NoLostWakeup
  BY DEF IInv, WakeupInv
<1> QED
  BY Invariance, <1>1, PTL

\* No frame of an earlier cycle than the one that released the send is sent.
THEOREM NeverStale == Spec => []NoStaleFrame
<1>1. IInv => NoStaleFrame
  BY DEF IInv, FrameInv
<1> QED
  BY Invariance, <1>1, PTL

\* HostComm implements CommandLink: one "ready" and one update per datagram.
THEOREM ImplementsLink == Spec => LinkSpec
<1>1. Init => Link!Init
  BY DEF Init, Link!Init
<1>2. IInv /\ [Next]_vars => [Link!Next]_(Link!vars)
  <2> SUFFICES ASSUME IInv, [Next]_vars PROVE [Link!Next]_(Link!vars)
    OBVIOUS
  <2> USE DEF Link!Next, Link!Ready, Link!Update, Link!Send, Link!vars
  <2>1. CASE FlagCommands
    BY <2>1 DEF FlagCommands, send
  <2>2. CASE FlagReady
    BY <2>2 DEF FlagReady, send
  <2>3. CASE TxSent
    BY <2>3 DEF TxSent, IInv, TypeInv, TypeOK, CountersOK, CreditInv, Credit, Sending
  <2>4. CASE Setup \/ SetupFails \/ LoopStep \/ ClearCommands \/ AppendFrame
            \/ MainLock \/ MainNotify \/ LeaveLoop \/ Exit \/ JoinTransmission
            \/ JoinReception \/ TxCheckRunning \/ TxLock \/ TxConsume \/ TxRefuse
            \/ TxBlock \/ SpuriousWakeup \/ TxView \/ TxCopy \/ TxThrows
            \/ RxCheckRunning \/ Receive \/ RxThrows \/ RxLock \/ RxNotify
    BY <2>4 DEF Setup, SetupFails, LoopStep, ClearCommands, AppendFrame, MainLock,
                MainNotify, LeaveLoop, Exit, JoinTransmission, JoinReception, TxCheckRunning,
                TxLock, TxConsume, TxRefuse, TxBlock, SpuriousWakeup, TxView,
                TxCopy, TxThrows, RxCheckRunning, Receive, RxThrows, RxLock,
                RxNotify, send
  <2>5. CASE UNCHANGED vars
    BY <2>5 DEF vars, send
  <2> QED
    BY <2>1, <2>2, <2>3, <2>4, <2>5 DEF Next, MainStep, TxStep, RxStep
<1> QED
  BY Invariance, <1>1, <1>2, PTL DEF Spec, LinkSpec, Link!Spec
=============================================================================
