----------------------------- MODULE CameraComm -----------------------------
(***************************************************************************)
(* CameraComm: a singleton whose thread polls a UDP socket for camera      *)
(* packets and keeps the values of the last useful one.  The main thread   *)
(* creates the singleton with its first GetCameraValues, reads it in every *)
(* frame, and destroys it when the program ends.                           *)
(*                                                                         *)
(* A list of values is abstracted to the number of the packet it came      *)
(* from, counted in the order of reception; 0 is the empty list.           *)
(***************************************************************************)
EXTENDS Naturals

CONSTANT MaxPackets   \* bound: packets with values that are received

ASSUME MaxPacketsAssumption == MaxPackets \in Nat

VARIABLES
    proc,            \* "up", "finished", or "aborted" by an exception
    main,            \* control point of the main thread
    rx,              \* control point of recv_thread, "none" without a thread
    running,
    sock_fd,         \* "none", "open" or "closed"
    values_mutex,    \* holder, or "free"
    discovered,      \* discovered_robots of the packet being handled
    latest_values,
    cam_curr_values, \* what the main thread got from its last call
    packets          \* packets with values received so far

vars == <<proc, main, rx, running, sock_fd, values_mutex, discovered,
          latest_values, cam_curr_values, packets>>

\* Every variable keeps its type.
TypeOK ==
    /\ proc \in {"up", "finished", "aborted"}
    /\ main \in {"start", "frame", "copy", "stop", "join", "close", "done"}
    /\ rx \in {"none", "check", "receive", "store", "move", "end"}
    /\ running \in BOOLEAN
    /\ sock_fd \in {"none", "open", "closed"}
    /\ values_mutex \in {"free", "main", "rx"}
    /\ discovered \in 0..MaxPackets
    /\ latest_values \in 0..MaxPackets
    /\ cam_curr_values \in 0..MaxPackets
    /\ packets \in 0..MaxPackets

Init ==
    /\ proc = "up"
    /\ main = "start" /\ rx = "none"
    /\ running = FALSE
    /\ sock_fd = "none"
    /\ values_mutex = "free"
    /\ discovered = 0
    /\ latest_values = 0
    /\ cam_curr_values = 0
    /\ packets = 0

-----------------------------------------------------------------------------
(* The main thread *)

\* GetInstance constructs the singleton: without a bound socket it has no
\* thread and stays empty.
Construct ==
    /\ proc = "up" /\ main = "start"
    /\ \/ running' = TRUE /\ sock_fd' = "open" /\ rx' = "check"
       \/ running' = FALSE /\ UNCHANGED <<sock_fd, rx>>
    /\ main' = "frame"
    /\ UNCHANGED <<proc, values_mutex, discovered, latest_values, cam_curr_values, packets>>

\* GetCameraValues: lock ...
GetCameraValues ==
    /\ proc = "up" /\ main = "frame" /\ values_mutex = "free"
    /\ values_mutex' = "main"
    /\ main' = "copy"
    /\ UNCHANGED <<proc, rx, running, sock_fd, discovered, latest_values,
                   cam_curr_values, packets>>

\* ... and copy.
CopyValues ==
    /\ proc = "up" /\ main = "copy"
    /\ cam_curr_values' = latest_values
    /\ values_mutex' = "free"
    /\ main' = "frame"
    /\ UNCHANGED <<proc, rx, running, sock_fd, discovered, latest_values, packets>>

\* The program ends, and static objects are destroyed.
Leave ==
    /\ proc = "up" /\ main = "frame"
    /\ main' = "stop"
    /\ UNCHANGED <<proc, rx, running, sock_fd, values_mutex, discovered,
                   latest_values, cam_curr_values, packets>>

\* Mutant of Stop: the destructor closes the socket without joining.
StopAndClose ==
    /\ proc = "up" /\ main = "stop"
    /\ running' = FALSE
    /\ sock_fd' = IF sock_fd = "open" THEN "closed" ELSE sock_fd
    /\ main' = "join"
    /\ UNCHANGED <<proc, rx, values_mutex, discovered, latest_values,
                   cam_curr_values, packets>>

\* Mutant of Stop: running stays set.
StopForgets ==
    /\ proc = "up" /\ main = "stop"
    /\ main' = "join"
    /\ UNCHANGED <<proc, rx, running, sock_fd, values_mutex, discovered,
                   latest_values, cam_curr_values, packets>>

\* ~CameraComm: running = false ...
Stop ==
    /\ proc = "up" /\ main = "stop"
    /\ running' = FALSE
    /\ main' = "join"
    /\ UNCHANGED <<proc, rx, sock_fd, values_mutex, discovered, latest_values,
                   cam_curr_values, packets>>

\* ... join, if there is a thread ...
Join ==
    /\ proc = "up" /\ main = "join" /\ rx \in {"none", "end"}
    /\ main' = "close"
    /\ UNCHANGED <<proc, rx, running, sock_fd, values_mutex, discovered,
                   latest_values, cam_curr_values, packets>>

\* ... and close.
Close ==
    /\ proc = "up" /\ main = "close"
    /\ sock_fd' = IF sock_fd = "open" THEN "closed" ELSE sock_fd
    /\ main' = "done"
    /\ proc' = "finished"
    /\ UNCHANGED <<rx, running, values_mutex, discovered, latest_values,
                   cam_curr_values, packets>>

MainStep == Construct \/ GetCameraValues \/ CopyValues \/ Leave \/ Stop \/ Join \/ Close

-----------------------------------------------------------------------------
(* ReceiveLoop *)

RxCheckRunning ==
    /\ proc = "up" /\ rx = "check"
    /\ rx' = IF running THEN "receive" ELSE "end"
    /\ UNCHANGED <<proc, main, running, sock_fd, values_mutex, discovered,
                   latest_values, cam_curr_values, packets>>

\* recvfrom does not block: no packet, or an error, is slept over.
ReceiveNothing ==
    /\ proc = "up" /\ rx = "receive"
    /\ rx' = "check"
    /\ UNCHANGED <<proc, main, running, sock_fd, values_mutex, discovered,
                   latest_values, cam_curr_values, packets>>

\* Mutant of ReceivePacket: an empty list is stored as well.
ReceivePacketKeepsEmpty ==
    /\ proc = "up" /\ rx = "receive"
    /\ \/ /\ packets < MaxPackets
          /\ packets' = packets + 1
          /\ discovered' = packets'
       \/ discovered' = 0 /\ UNCHANGED packets
    /\ rx' = "store"
    /\ UNCHANGED <<proc, main, running, sock_fd, values_mutex, latest_values,
                   cam_curr_values>>

\* A packet is parsed: the regular expression finds values, or none and the
\* packet is dropped.
ReceivePacket ==
    /\ proc = "up" /\ rx = "receive"
    /\ packets < MaxPackets
    /\ \/ /\ packets' = packets + 1
          /\ discovered' = packets'
          /\ rx' = "store"
       \/ rx' = "check" /\ UNCHANGED <<packets, discovered>>
    /\ UNCHANGED <<proc, main, running, sock_fd, values_mutex, latest_values,
                   cam_curr_values>>

\* An id that does not fit an int makes std::stoi throw: std::terminate.
ParseThrows ==
    /\ proc = "up" /\ rx = "receive"
    /\ proc' = "aborted"
    /\ UNCHANGED <<main, rx, running, sock_fd, values_mutex, discovered,
                   latest_values, cam_curr_values, packets>>

\* Mutant of RxLock: the values are stored without the lock.
RxLockDropped ==
    /\ proc = "up" /\ rx = "store"
    /\ rx' = "move"
    /\ UNCHANGED <<proc, main, running, sock_fd, values_mutex, discovered,
                   latest_values, cam_curr_values, packets>>

RxLock ==
    /\ proc = "up" /\ rx = "store" /\ values_mutex = "free"
    /\ values_mutex' = "rx"
    /\ rx' = "move"
    /\ UNCHANGED <<proc, main, running, sock_fd, discovered, latest_values,
                   cam_curr_values, packets>>

StoreValues ==
    /\ proc = "up" /\ rx = "move"
    /\ latest_values' = discovered
    /\ values_mutex' = "free"
    /\ rx' = "check"
    /\ UNCHANGED <<proc, main, running, sock_fd, discovered, cam_curr_values, packets>>

RxStep ==
    \/ RxCheckRunning \/ ReceiveNothing \/ ReceivePacket \/ ParseThrows
    \/ RxLock \/ StoreValues

Next == MainStep \/ RxStep

Spec == Init /\ [][Next]_vars

\* Both threads keep running; the user need not end the program.  The two lock
\* steps are strongly fair: each critical section is a short copy between
\* sleeps of milliseconds, so neither thread can keep the other out forever.
Fairness ==
    /\ WF_vars(Construct) /\ WF_vars(CopyValues) /\ SF_vars(GetCameraValues)
    /\ WF_vars(Stop) /\ WF_vars(Join) /\ WF_vars(Close)
    /\ WF_vars(RxCheckRunning) /\ WF_vars(ReceiveNothing)
    /\ SF_vars(RxLock) /\ WF_vars(StoreValues)

FairSpec == Spec /\ Fairness

-----------------------------------------------------------------------------
(* Properties *)

\* The main thread never copies latest_values while recv_thread replaces it: the
\* move assignment frees the vector that the copy would be reading.
NoRacingAccess == ~(main = "copy" /\ rx = "move")

\* recvfrom is only ever called on the open socket: the destructor joins the
\* thread before it closes the descriptor, which the system may then reuse.
ReceivesOnOpenSocket == rx = "receive" => sock_fd = "open"

\* What GetCameraValues returns never goes back to an earlier packet, nor to
\* nothing once there was something.
ValuesNeverGoBack == [][cam_curr_values' >= cam_curr_values]_vars

\* The destructor returns: the thread polls, so clearing running ends it even
\* when the camera is silent (unless an exception has ended the process).
DestructorReturns == main = "stop" ~> (main = "done" \/ proc = "aborted")
=============================================================================
