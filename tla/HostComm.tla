------------------------------ MODULE HostComm ------------------------------
(***************************************************************************)
(* The command link of the physical host: the main thread, which stores    *)
(* the commands of every cycle (HostComm::SetRobotCommands), the           *)
(* transmission thread, which answers a "ready" of the base station with   *)
(* the stored commands, and the reception thread, which receives the       *)
(* "ready".  The two flags are protected by transmission_mtx and announced *)
(* through transmission_cv; the string stored_commands is protected by     *)
(* nothing, so its memory is modelled cell by cell.                        *)
(*                                                                         *)
(* One action is one step that other threads can observe: an access to     *)
(* shared state, a lock or unlock, a notification, a blocking call.        *)
(***************************************************************************)
EXTENDS Naturals, Sequences

CONSTANTS
    NumRobots,    \* SystemConstants::num_robots
    MaxUpdates,   \* bound: calls of SetRobotCommands
    MaxReadies    \* bound: "ready" messages received

ASSUME NumRobotsAssumption == NumRobots \in Nat \ {0}
ASSUME BoundsAssumption == MaxUpdates \in Nat /\ MaxReadies \in Nat

VARIABLES
    proc,                 \* the process: "up", or how it ended
    running,              \* HostComm::running
    received_ready,       \* a "ready" is waiting for its answer
    new_stored_commands,  \* commands are waiting to be sent
    mtx,                  \* holder of transmission_mtx, or "free"
    main, tx, rx,         \* control points of the three threads
    stored_commands,      \* its memory: cell i holds the frame of robot i
    stored_size,          \* frames in stored_commands
    tx_view,              \* the asio::buffer of a send: [size, live]
    tx_copy,              \* the datagram send_to has copied so far
    updates,              \* history: SetRobotCommands that raised their flag
    readies,              \* history: "ready"s that raised their flag
    sent,                 \* history: datagrams handed to the network
    tx_floor              \* history: updates when the send was released

flags  == <<received_ready, new_stored_commands>>
buffer == <<stored_commands, stored_size>>
send   == <<tx_view, tx_copy, tx_floor, sent>>
vars   == <<proc, running, flags, mtx, main, tx, rx, buffer, send, updates, readies>>

Robots == 1..NumRobots

\* A cell that holds no complete frame: never written, cut by the terminating
\* NUL, or freed memory.  A complete frame is named by its cycle, 1, 2, ...
Torn == 0

FlagsOK ==
    /\ running \in BOOLEAN
    /\ received_ready \in BOOLEAN
    /\ new_stored_commands \in BOOLEAN

ControlOK ==
    /\ proc \in {"up", "finished", "exit0", "aborted"}
    /\ mtx \in {"main", "tx", "rx", "free"}
    /\ main \in {"setup", "loop", "clear", "append", "lock", "flag", "notify",
                 "exit", "join_tx", "join_rx", "done"}
    /\ tx \in {"idle", "check", "lock", "test", "block", "wait", "send", "copy", "end"}
    /\ rx \in {"idle", "check", "receive", "lock", "flag", "notify", "end"}

BufferOK ==
    /\ stored_commands \in [Robots -> 0..MaxUpdates]
    /\ stored_size \in 0..NumRobots
    /\ tx_view \in [size : 0..NumRobots, live : BOOLEAN]
    /\ tx_copy \in Seq(0..MaxUpdates)

CountersOK ==
    /\ updates \in 0..MaxUpdates
    /\ readies \in 0..MaxReadies
    /\ sent \in Nat
    /\ tx_floor \in 0..MaxUpdates

\* Every variable keeps its type.
TypeOK == FlagsOK /\ ControlOK /\ BufferOK /\ CountersOK

Init ==
    /\ proc = "up"
    /\ running = FALSE
    /\ received_ready = FALSE
    /\ new_stored_commands = FALSE
    /\ mtx = "free"
    /\ main = "setup" /\ tx = "idle" /\ rx = "idle"
    /\ stored_commands = [i \in Robots |-> Torn]
    /\ stored_size = 0
    /\ tx_view = [size |-> 0, live |-> TRUE]
    /\ tx_copy = <<>>
    /\ updates = 0
    /\ readies = 0
    /\ sent = 0
    /\ tx_floor = 0

-----------------------------------------------------------------------------
(* The main thread *)

\* The constructor: the socket is bound and both threads are started.
Setup ==
    /\ proc = "up" /\ main = "setup"
    /\ running' = TRUE
    /\ main' = "loop" /\ tx' = "check" /\ rx' = "check"
    /\ UNCHANGED <<proc, flags, mtx, buffer, send, updates, readies>>

\* SetupHost: bind fails, and exit(0) ends the process in the constructor;
\* open is outside the try block, and its exception ends the process.
SetupFails ==
    /\ proc = "up" /\ main = "setup"
    /\ proc' \in {"exit0", "aborted"}
    /\ running' = TRUE
    /\ UNCHANGED <<flags, mtx, main, tx, rx, buffer, send, updates, readies>>

\* Host::LoopStep up to the call of SetRobotCommands.
LoopStep ==
    /\ proc = "up" /\ main = "loop" /\ updates < MaxUpdates
    /\ main' = "clear"
    /\ UNCHANGED <<proc, running, flags, mtx, tx, rx, buffer, send, updates, readies>>

\* stored_commands.clear(): the size becomes 0, and the terminating NUL
\* overwrites the first byte; the memory is kept.
ClearCommands ==
    /\ proc = "up" /\ main = "clear"
    /\ stored_size' = 0
    /\ stored_commands' = [stored_commands EXCEPT ![1] = Torn]
    /\ main' = "append"
    /\ UNCHANGED <<proc, running, flags, mtx, tx, rx, send, updates, readies>>

\* Mutant of AppendFrame: the loop runs over all num_robots + 1 entries.
AppendFrameOneMore ==
    /\ proc = "up" /\ main = "append" /\ stored_size <= NumRobots
    /\ stored_size' = stored_size + 1
    /\ stored_commands' = [j \in Robots |-> IF j = stored_size + 1 THEN updates + 1
                                                                   ELSE stored_commands[j]]
    /\ main' = IF stored_size = NumRobots THEN "lock" ELSE "append"
    /\ UNCHANGED <<proc, running, flags, mtx, tx, rx, send, updates, readies>>

\* Mutant of AppendFrame: the commands of the previous cycle are serialised.
AppendFrameLate ==
    /\ proc = "up" /\ main = "append" /\ stored_size < NumRobots
    /\ stored_commands' = [stored_commands EXCEPT ![stored_size + 1] = updates]
    /\ stored_size' = stored_size + 1
    /\ main' = IF stored_size' = NumRobots THEN "lock" ELSE "append"
    /\ UNCHANGED <<proc, running, flags, mtx, tx, rx, send, updates, readies>>

\* The frame of the next robot (its length and its command) is appended, and
\* the terminating NUL lands in the cell behind it.  Growing the string frees
\* the memory that a send in progress may still be reading.
AppendFrame ==
    /\ proc = "up" /\ main = "append" /\ stored_size < NumRobots
    /\ LET i == stored_size + 1 IN
        /\ stored_commands' = [j \in Robots |-> CASE j = i -> updates + 1
                                                  [] j = i + 1 -> Torn
                                                  [] OTHER -> stored_commands[j]]
        /\ stored_size' = i
        /\ main' = IF i = NumRobots THEN "lock" ELSE "append"
    /\ \E grows \in BOOLEAN : tx_view' = [tx_view EXCEPT !.live = @ /\ ~grows]
    /\ UNCHANGED <<proc, running, flags, mtx, tx, rx, tx_copy, tx_floor,
                   sent, updates, readies>>

\* Mutant of MainLock: the flag is raised without the lock.
MainLockDropped ==
    /\ proc = "up" /\ main = "lock"
    /\ main' = "flag"
    /\ UNCHANGED <<proc, running, flags, mtx, tx, rx, buffer, send, updates, readies>>

MainLock ==
    /\ proc = "up" /\ main = "lock" /\ mtx = "free"
    /\ mtx' = "main"
    /\ main' = "flag"
    /\ UNCHANGED <<proc, running, flags, tx, rx, buffer, send, updates, readies>>

\* new_stored_commands = true, and the lock is released.
FlagCommands ==
    /\ proc = "up" /\ main = "flag"
    /\ new_stored_commands' = TRUE
    /\ updates' = updates + 1
    /\ mtx' = "free"
    /\ main' = "notify"
    /\ UNCHANGED <<proc, running, received_ready, tx, rx, buffer, send, readies>>

\* transmission_cv.notify_one(): the transmission thread is the only waiter.
Notified == IF tx = "wait" THEN "lock" ELSE tx

\* Mutant of MainNotify: SetRobotCommands does not notify.
MainNotifyDropped ==
    /\ proc = "up" /\ main = "notify"
    /\ main' = "loop"
    /\ UNCHANGED <<proc, running, flags, mtx, tx, rx, buffer, send, updates, readies>>

MainNotify ==
    /\ proc = "up" /\ main = "notify"
    /\ tx' = Notified
    /\ main' = "loop"
    /\ UNCHANGED <<proc, running, flags, mtx, rx, buffer, send, updates, readies>>

\* The window has been closed: main leaves its loop and calls Host::Exit.
LeaveLoop ==
    /\ proc = "up" /\ main = "loop"
    /\ main' = "exit"
    /\ UNCHANGED <<proc, running, flags, mtx, tx, rx, buffer, send, updates, readies>>

\* HostComm::Exit up to the first join; nothing is notified.
Exit ==
    /\ proc = "up" /\ main = "exit"
    /\ running' = FALSE
    /\ main' = "join_tx"
    /\ UNCHANGED <<proc, flags, mtx, tx, rx, buffer, send, updates, readies>>

JoinTransmission ==
    /\ proc = "up" /\ main = "join_tx" /\ tx = "end"
    /\ main' = "join_rx"
    /\ UNCHANGED <<proc, running, flags, mtx, tx, rx, buffer, send, updates, readies>>

\* The second join; then Game::Exit, the destructors (whose Exit finds no
\* joinable thread) and the end of the process.
JoinReception ==
    /\ proc = "up" /\ main = "join_rx" /\ rx = "end"
    /\ main' = "done"
    /\ proc' = "finished"
    /\ UNCHANGED <<running, flags, mtx, tx, rx, buffer, send, updates, readies>>

MainStep ==
    \/ Setup \/ SetupFails \/ LoopStep \/ ClearCommands \/ AppendFrame
    \/ MainLock \/ FlagCommands \/ MainNotify
    \/ LeaveLoop \/ Exit \/ JoinTransmission \/ JoinReception

-----------------------------------------------------------------------------
(* The transmission thread *)

TxCheckRunning ==
    /\ proc = "up" /\ tx = "check"
    /\ tx' = IF running THEN "lock" ELSE "end"
    /\ UNCHANGED <<proc, running, flags, mtx, main, rx, buffer, send, updates, readies>>

\* The lock is acquired at the start, or again after a wake-up.
TxLock ==
    /\ proc = "up" /\ tx = "lock" /\ mtx = "free"
    /\ mtx' = "tx"
    /\ tx' = "test"
    /\ UNCHANGED <<proc, running, flags, main, rx, buffer, send, updates, readies>>

\* Mutant of TxConsume: received_ready stays up.
TxConsumeKeepsReady ==
    /\ proc = "up" /\ tx = "test"
    /\ received_ready /\ new_stored_commands
    /\ new_stored_commands' = FALSE
    /\ mtx' = "free"
    /\ tx' = "send"
    /\ tx_floor' = updates
    /\ UNCHANGED <<proc, running, received_ready, main, rx, buffer, tx_view, tx_copy,
                   sent, updates, readies>>

\* The predicate of transmission_cv.wait holds: both flags are cleared and the
\* lock is released.
TxConsume ==
    /\ proc = "up" /\ tx = "test"
    /\ received_ready /\ new_stored_commands
    /\ received_ready' = FALSE
    /\ new_stored_commands' = FALSE
    /\ mtx' = "free"
    /\ tx' = "send"
    /\ tx_floor' = updates
    /\ UNCHANGED <<proc, running, main, rx, buffer, tx_view, tx_copy,
                   sent, updates, readies>>

\* The predicate does not hold ...
TxRefuse ==
    /\ proc = "up" /\ tx = "test"
    /\ ~(received_ready /\ new_stored_commands)
    /\ tx' = "block"
    /\ UNCHANGED <<proc, running, flags, mtx, main, rx, buffer, send, updates, readies>>

\* ... and the thread enters the wait set and releases the lock in one step.
TxBlock ==
    /\ proc = "up" /\ tx = "block"
    /\ mtx' = "free"
    /\ tx' = "wait"
    /\ UNCHANGED <<proc, running, flags, main, rx, buffer, send, updates, readies>>

SpuriousWakeup ==
    /\ proc = "up" /\ tx = "wait"
    /\ tx' = "lock"
    /\ UNCHANGED <<proc, running, flags, mtx, main, rx, buffer, send, updates, readies>>

\* asio::buffer(stored_commands) takes the address and the size, no lock held.
TxView ==
    /\ proc = "up" /\ tx = "send"
    /\ tx_view' = [size |-> stored_size, live |-> TRUE]
    /\ tx_copy' = <<>>
    /\ tx' = "copy"
    /\ UNCHANGED <<proc, running, flags, mtx, main, rx, buffer, tx_floor,
                   sent, updates, readies>>

\* send_to copies the memory while SetRobotCommands may be rewriting it.
TxCopy ==
    /\ proc = "up" /\ tx = "copy" /\ Len(tx_copy) < tx_view.size
    /\ tx_copy' = Append(tx_copy, IF tx_view.live THEN stored_commands[Len(tx_copy) + 1]
                                                  ELSE Torn)
    /\ UNCHANGED <<proc, running, flags, mtx, main, tx, rx, buffer, tx_view, tx_floor,
                   sent, updates, readies>>

TxSent ==
    /\ proc = "up" /\ tx = "copy" /\ Len(tx_copy) = tx_view.size
    /\ sent' = sent + 1
    /\ tx' = "check"
    /\ UNCHANGED <<proc, running, flags, mtx, main, rx, buffer, tx_view, tx_copy,
                   tx_floor, updates, readies>>

\* send_to throws, nothing catches it: std::terminate.
TxThrows ==
    /\ proc = "up" /\ tx = "copy"
    /\ proc' = "aborted"
    /\ UNCHANGED <<running, flags, mtx, main, tx, rx, buffer, send, updates, readies>>

TxStep ==
    \/ TxCheckRunning \/ TxLock \/ TxConsume \/ TxRefuse \/ TxBlock
    \/ SpuriousWakeup \/ TxView \/ TxCopy \/ TxSent \/ TxThrows

-----------------------------------------------------------------------------
(* The reception thread *)

RxCheckRunning ==
    /\ proc = "up" /\ rx = "check"
    /\ rx' = IF running THEN "receive" ELSE "end"
    /\ UNCHANGED <<proc, running, flags, mtx, main, tx, buffer, send, updates, readies>>

\* receive_from returns a datagram: the base station sends what it likes when
\* it likes, so loss, delay and duplication are all included here.  Only
\* "ready" is processed.
Receive ==
    /\ proc = "up" /\ rx = "receive"
    /\ \/ readies < MaxReadies /\ rx' = "lock"
       \/ rx' = "check"
    /\ UNCHANGED <<proc, running, flags, mtx, main, tx, buffer, send, updates, readies>>

RxThrows ==
    /\ proc = "up" /\ rx = "receive"
    /\ proc' = "aborted"
    /\ UNCHANGED <<running, flags, mtx, main, tx, rx, buffer, send, updates, readies>>

RxLock ==
    /\ proc = "up" /\ rx = "lock" /\ mtx = "free"
    /\ mtx' = "rx"
    /\ rx' = "flag"
    /\ UNCHANGED <<proc, running, flags, main, tx, buffer, send, updates, readies>>

\* received_ready = true, the missing commands are only logged, and the lock
\* is released.
FlagReady ==
    /\ proc = "up" /\ rx = "flag"
    /\ received_ready' = TRUE
    /\ readies' = readies + 1
    /\ mtx' = "free"
    /\ rx' = "notify"
    /\ UNCHANGED <<proc, running, new_stored_commands, main, tx, buffer, send, updates>>

RxNotify ==
    /\ proc = "up" /\ rx = "notify"
    /\ tx' = Notified
    /\ rx' = "check"
    /\ UNCHANGED <<proc, running, flags, mtx, main, buffer, send, updates, readies>>

RxStep ==
    \/ RxCheckRunning \/ Receive \/ RxThrows \/ RxLock \/ FlagReady \/ RxNotify

Next == MainStep \/ TxStep \/ RxStep

(***************************************************************************)
(* Every thread keeps running while it is not blocked.  What the           *)
(* environment does is not fair: the user need not close the window, the   *)
(* base station need not send, the network need not fail, and a spurious   *)
(* wake-up need not come.                                                  *)
(***************************************************************************)
Fairness ==
    /\ WF_vars(Setup) /\ WF_vars(LoopStep) /\ WF_vars(ClearCommands)
    /\ WF_vars(AppendFrame) /\ WF_vars(MainLock) /\ WF_vars(FlagCommands)
    /\ WF_vars(MainNotify) /\ WF_vars(Exit)
    /\ WF_vars(JoinTransmission) /\ WF_vars(JoinReception)
    /\ WF_vars(TxCheckRunning) /\ WF_vars(TxLock) /\ WF_vars(TxConsume)
    /\ WF_vars(TxRefuse) /\ WF_vars(TxBlock) /\ WF_vars(TxView)
    /\ WF_vars(TxCopy) /\ WF_vars(TxSent)
    /\ WF_vars(RxCheckRunning) /\ WF_vars(RxLock) /\ WF_vars(FlagReady)
    /\ WF_vars(RxNotify)

Spec == Init /\ [][Next]_vars

FairSpec == Spec /\ Fairness

-----------------------------------------------------------------------------
(* Properties *)

\* The transmission thread never sleeps on work: when both flags are up and the
\* thread is in the wait set, a notify_one is still to come from
\* SetRobotCommands or ProcessBaseStationMessage.
NoLostWakeup ==
    tx = "wait" /\ received_ready /\ new_stored_commands
        => main = "notify" \/ rx = "notify"

\* No frame that is sent is older than the commands whose flag released the
\* send (TransmissionThread reads stored_commands after it dropped the lock, so
\* a frame may be newer, or torn, but never a leftover of an earlier cycle).
NoStaleFrame ==
    tx = "copy" => \A k \in 1..Len(tx_copy) :
                      tx_copy[k] # Torn => tx_copy[k] >= tx_floor

\* The link keeps the promise of CommandLink: every datagram uses up one
\* "ready" of the base station and one call of SetRobotCommands.
Link == INSTANCE CommandLink WITH readies <- readies, updates <- updates, sent <- sent
LinkSpec == Link!Spec

\* Work is done: once a "ready" and new commands are both there, the
\* transmission thread takes them, unless the process ends or the host is told
\* to stop.
ReadyAnswered ==
    (received_ready /\ new_stored_commands)
        ~> (~(received_ready /\ new_stored_commands) \/ proc # "up" \/ ~running)

\* What the end-to-end description promises of the string that is sent: one
\* frame per robot, all written by the same SetRobotCommands.  Violated.
WholeDatagram ==
    tx = "copy" /\ Len(tx_copy) = tx_view.size
        => \E c \in 1..MaxUpdates : tx_copy = [i \in Robots |-> c]

\* Host::Exit goes on to Game::Exit, which cleans up.  Violated.
ExitReturns == main = "exit" ~> proc # "up"
=============================================================================
