-------------------------- MODULE CameraCommProofs --------------------------
(***************************************************************************)
(* What holds of the camera receiver for any number of packets.            *)
(***************************************************************************)
EXTENDS CameraComm, TLAPS

\* A thread that has not ended has an open socket: the socket is opened before
\* the thread is made, and closed only after it has been joined.
SocketInv ==
    /\ rx \notin {"none", "end"} => sock_fd = "open"
    /\ main = "start" => rx = "none"
    /\ main \in {"close", "done"} => rx \in {"none", "end"}

\* Values travel forward only: from the packet at hand to latest_values, and
\* from there to the main thread.
ValuesInv ==
    /\ packets \in Nat /\ discovered \in Nat
    /\ latest_values \in Nat /\ cam_curr_values \in Nat
    /\ cam_curr_values <= latest_values /\ latest_values <= packets
    /\ rx \in {"store", "move"} => discovered = packets

LEMMA SocketInductive == SocketInv /\ [Next]_vars => SocketInv'
<1> SUFFICES ASSUME SocketInv, [Next]_vars PROVE SocketInv'
    OBVIOUS
<1> USE DEF SocketInv
<1>1. CASE MainStep
    BY <1>1 DEF MainStep, Construct, GetCameraValues, CopyValues, Leave, Stop, Join, Close
<1>2. CASE RxStep
    BY <1>2 DEF RxStep, RxCheckRunning, ReceiveNothing, ReceivePacket, ParseThrows,
                RxLock, StoreValues
<1>3. CASE UNCHANGED vars
    BY <1>3 DEF vars
<1> QED
    BY <1>1, <1>2, <1>3 DEF Next

\* recvfrom never runs on a descriptor that ~CameraComm has closed.
THEOREM SocketIsOpen == Spec => []ReceivesOnOpenSocket
<1>1. Init => SocketInv
    BY DEF Init, SocketInv
<1>2. SocketInv => ReceivesOnOpenSocket
    BY DEF SocketInv, ReceivesOnOpenSocket
<1> QED
    BY <1>1, <1>2, SocketInductive, PTL DEF Spec

LEMMA ValuesInductive ==
    ValuesInv /\ [Next]_vars => ValuesInv' /\ cam_curr_values' >= cam_curr_values
<1> SUFFICES ASSUME ValuesInv, [Next]_vars
             PROVE ValuesInv' /\ cam_curr_values' >= cam_curr_values
    OBVIOUS
<1> USE DEF ValuesInv
<1>1. CASE MainStep
    BY <1>1 DEF MainStep, Construct, GetCameraValues, CopyValues, Leave, Stop, Join, Close
<1>2. CASE ReceivePacket
    BY <1>2 DEF ReceivePacket
<1>3. CASE RxCheckRunning \/ ReceiveNothing \/ ParseThrows \/ RxLock \/ StoreValues
    BY <1>3 DEF RxCheckRunning, ReceiveNothing, ParseThrows, RxLock, StoreValues
<1>4. CASE UNCHANGED vars
    BY <1>4 DEF vars
<1> QED
    BY <1>1, <1>2, <1>3, <1>4 DEF Next, RxStep

\* GetCameraValues never returns an older packet than before, nor an empty list
\* after a packet.
THEOREM ValuesOnlyAdvance == Spec => ValuesNeverGoBack
<1>1. Init => ValuesInv
    BY DEF Init, ValuesInv
<1>2. ValuesInv /\ [Next]_vars => [cam_curr_values' >= cam_curr_values]_vars
    BY ValuesInductive
<1> QED
    BY <1>1, <1>2, ValuesInductive, PTL DEF Spec, ValuesNeverGoBack

\* A thread that is at latest_values holds values_mutex.
LockInv ==
    /\ main = "copy" => values_mutex = "main"
    /\ rx = "move" => values_mutex = "rx"

LEMMA LockInductive == LockInv /\ [Next]_vars => LockInv'
<1> SUFFICES ASSUME LockInv, [Next]_vars PROVE LockInv'
    OBVIOUS
<1> USE DEF LockInv
<1>1. CASE MainStep
    BY <1>1 DEF MainStep, Construct, GetCameraValues, CopyValues, Leave, Stop, Join, Close
<1>2. CASE RxStep
    BY <1>2 DEF RxStep, RxCheckRunning, ReceiveNothing, ReceivePacket, ParseThrows,
                RxLock, StoreValues
<1>3. CASE UNCHANGED vars
    BY <1>3 DEF vars
<1> QED
    BY <1>1, <1>2, <1>3 DEF Next

\* The copy in GetCameraValues and the assignment in ReceiveLoop never overlap.
THEOREM AccessExcludes == Spec => []NoRacingAccess
<1>1. Init => LockInv
    BY DEF Init, LockInv
<1>2. LockInv => NoRacingAccess
    BY DEF LockInv, NoRacingAccess
<1> QED
    BY <1>1, <1>2, LockInductive, PTL DEF Spec

LEMMA TypeInductive == TypeOK /\ [Next]_vars => TypeOK'
<1> SUFFICES ASSUME TypeOK, [Next]_vars PROVE TypeOK'
    OBVIOUS
<1> USE DEF TypeOK
<1>1. CASE Construct
    BY <1>1 DEF Construct
<1>2. CASE GetCameraValues \/ CopyValues \/ Leave
    BY <1>2 DEF GetCameraValues, CopyValues, Leave
<1>3. CASE Stop \/ Join \/ Close
    BY <1>3 DEF Stop, Join, Close
<1>4. CASE RxCheckRunning \/ ReceiveNothing \/ ParseThrows
    BY <1>4 DEF RxCheckRunning, ReceiveNothing, ParseThrows
<1>5. CASE ReceivePacket
    BY <1>5, MaxPacketsAssumption DEF ReceivePacket
<1>6. CASE RxLock \/ StoreValues
    BY <1>6 DEF RxLock, StoreValues
<1>7. CASE UNCHANGED vars
    BY <1>7 DEF vars
<1> QED
    BY <1>1, <1>2, <1>3, <1>4, <1>5, <1>6, <1>7 DEF Next, MainStep, RxStep

\* All variables of the receiver keep their types: the control points of the
\* two threads, the holder of the lock, and packets that have been received.
THEOREM TypeCorrect == Spec => []TypeOK
<1>1. ASSUME Init PROVE TypeOK
  <2>1. 0 \in 0..MaxPackets
    BY MaxPacketsAssumption
  <2> QED
    BY <1>1, <2>1, Zenon DEF Init, TypeOK
<1> QED
    BY <1>1, TypeInductive, PTL DEF Spec
=============================================================================
