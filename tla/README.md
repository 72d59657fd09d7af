# A TLA+ model of the FF soccer host

The repository holds the software of a robot soccer team: a host program that
watches the field through a camera, decides and plans, and sends commands
through a base station to the robots; a simulator that runs the same game
without robots; and embedded code for the base station and the robots. This
directory models the host (its threads, its main loop, its path planner and its
trajectory generator), the messages it exchanges with the robots down to the
bytes of nanopb, the clock arithmetic and the network schedule, the broadcast
example and the k-d tree.

## 1. Inventory

| part | code | state | operations | talks to |
|---|---|---|---|---|
| Main loop | `apps/PhysicalApp.cpp` | `t_last`, `running` | `LoopStep`, `Exit`, `PrepareRobotCommands` | all of the below, by calls from one thread |
| Command link | `libs/comm/src/HostComm.cpp` | `received_ready`, `new_stored_commands`, `stored_commands`, `running`, a mutex, a condition variable, a socket | `SetRobotCommands` (main), `TransmissionThread`, `ReceptionThread`, `Exit` | base station, by UDP; main loop, by shared memory |
| Camera receiver | `libs/comm/src/CameraComm.cpp` | `latest_values`, `running`, `sock_fd`, a mutex | `GetCameraValues` (main), `ReceiveLoop`, destructor | camera, by UDP; main loop, by shared memory |
| Game | `libs/game/src/Game.cpp`, `GameObject.cpp` | players, ball, owner of the ball, `reset_timer`, mode, profile and target of the robot | `ProcessInput`, `Update`, `ResetPositions`, `Exit` | window, by callbacks; strategy, planner, motion, by calls |
| Window | `libs/game/src/Window.cpp` | `keys`, `keys_processed` | `KeyCallback` | GLFW |
| Strategy | `libs/strat/src/MainStrategy.cpp` | `last_state` (for logs) | `update` | called by Game |
| Planner | `libs/algo/src/RRTX.cpp` | the tree `m_nodes`, the query | `PlanningStep` | called by Game in every automatic frame |
| Motion | `libs/motion/src/motion.cpp`, `trajectory.cpp` | a profile | `generateProfile`, `getVelocityState` | called by Game |
| Clock and schedule | `libs/timing`, `libs/cfg/include/NetworkConfig.h` | clock function, offset | conversions, differences, start of each slot | base station and robots |
| Sockets | `libs/comm/src/UdpSocket.cpp`, `AsyncUdp*.cpp` | a socket, a buffer, a handler | `Bind` (empty), `set_broadcast`, a receive that re-arms itself, asynchronous send | asio |
| Broadcast example | `libs/comm/examples/Broadcast*.cpp` | `count`, two timers | send, acknowledge, retry | listeners, by UDP |
| Logger and UART | `libs/debug` | ring of nine buffers | `Print` | DMA |
| Messages | `libs/msg/src`, `libs/msg/proto` | none | serialise, parse, frames of `SetRobotCommands` | nanopb |
| nanopb | `libs/msg/nanopb/pb_*.c` | streams, a field iterator | `pb_encode`, `pb_decode` | - |
| k-d tree | `libs/algo/include/kdTree.h` | a tree and its points | `build`, `insert`, `clear`, `validate`, three searches | no one yet |
| Kinematics, graphics | `libs/kin`, `libs/graphics` | matrices, OpenGL handles | - | - |

What is hard here, and what would make each part correct:

* **Command link.** Three threads, one lock, one condition variable, and a
  buffer that is read and written without the lock. It is correct if no wake-up
  is lost, no "ready" is answered twice, no frame is older than the update that
  released it, a datagram is whole, and the link can be shut down.
* **Camera receiver.** A thread that outlives the main loop and is stopped from
  a static destructor. It is correct if it never reads a closed descriptor, never
  replaces the values while they are copied, if the main loop never sees values go
  back, and if the destructor returns.
* **Game.** Single-threaded, but the order of key presses, resets, kicks,
  captures and mode changes is arbitrary, and `LoopStep` processes input twice
  per frame. It is correct if every kicked ball is on its way to a reset, no
  timer outlives its play, a key press acts once, the objects are deleted once,
  and the robot moves when it has somewhere to go.
* **Planner.** The tree is a member that survives calls, the search is cut off
  by a clock, and the path is read backwards along indices. It is correct if the
  path starts at the robot, is free of obstacles, ends closer to the goal, and
  the walk to the root ends.
* **Trajectory.** Each segment is computed from the rounded end of the last one,
  and the guard of the loop is dead (its counter is never incremented). It is
  correct if the loop ends, `max_vel` is kept, and the profile ends at the target.
* **Messages.** Zeros are not written, messages that follow one another merge, and
  the link may cut a payload or glue two. It is correct if what was sent is what
  is read, if no other input yields a value that no one sent, and if the frames of
  several commands stay apart.
* **Broadcast.** Retries, ACKs and delays race in one queue of completions, and a
  queued completion cannot be cancelled. It is correct if the sender never falls
  silent, skips no message, does not flood the network, and gets through.
* **k-d tree.** Searches prune by comparison with coordinates that may be equal.
  It is correct if every search finds what a full comparison finds.
* **Clock.** Times wrap. It is correct if differences and slots survive the wrap.

`PROJECT.json` lists all of this line by line under "hazards".

## 2. Modules

```
CommandLink        what the link promises (abstract)
   ^ refines
HostComm           main / transmission / reception thread     HostCommProofs   MCHostComm
CameraComm         main / receiver thread, destructor         CameraCommProofs MCCameraComm
Game               main loop, input, strategy, motion, exit   GameProofs       MCGame
RRTX               PlanningStep                               RRTXProofs       MCRRTX
Trajectory         motion profile of one axis                 TrajectoryProofs MCTrajectory
PbCommon           field descriptors and the field iterator
   ^ extends
PbEncode, PbDecode pb_encode.c, pb_decode.c
   ^ extend
Messages           robot messages on their way                NetworkProofs    MCMessages
Broadcast          sender, receiver, UdpSocket, network       BroadcastProofs  MCBroadcast
KDTree             build, insert, searches, call by call      KDTreeProofs     MCKDTree
Timing             32-bit clock, network schedule             NetworkProofs
```

### HostComm

One action is one step that another thread can observe. `main`, `tx` and `rx`
are the control points of the three threads, `mtx` the holder of
`transmission_mtx`. The two flags, `running` and the buffer carry the names of
the code.

* `stored_commands` is modelled as memory: cell *i* holds the frame of robot *i*,
  named by the cycle (1, 2, ...) that wrote it, or `Torn`. `clear` and `append`
  write the terminating NUL, which tears the cell it lands in; growing the
  string may free the memory a send is reading (`tx_view.live`). All frames are
  taken to have the same length.
* `asio::buffer(stored_commands)` captures size and address (`TxView`), and
  `send_to` copies cell by cell (`TxCopy`); both happen after the lock was
  dropped. This is a data race in the code, so the copy may interleave with the
  main thread at every cell.
* `transmission_cv.wait` is the five steps lock, test, block (enter the wait set
  and release the lock at once), wake (by `Notified` or spuriously), lock again.
* `receive_from` returns what the base station sends when it likes: a message may
  be late, repeated or missing without any further action for it.
* An uncaught exception of either thread ends the process (`TxThrows`,
  `RxThrows`); a failing `bind` calls `exit(0)`.
* `updates`, `readies`, `sent` and `tx_floor` are history variables.

`CommandLink` is the promise to the base station: each datagram uses up one
"ready" and one update. `Link == INSTANCE CommandLink WITH ...` maps its three
variables to the history variables of the same names; only `FlagReady`,
`FlagCommands` and `TxSent` are steps of it.

### CameraComm

A list of values is the number of the packet that it came from, in the order of
reception, with 0 for the empty list. The lock, the copy, and the three steps of
the destructor are actions of their own; a thread that holds the lock is at "copy"
(main) or "move" (receiver) until the vector has been copied or replaced, and the
two never overlap (`NoRacingAccess`). The regular expression is abstracted to
"finds values" or "finds none"; an id that does not fit an `int` throws in the
thread (`ParseThrows`).

### Game

One action per function of a frame, in the order in which `LoopStep` calls them
(`phase`); `pass` tells the two calls of `ProcessInput` apart. Frames in which
the clock has not advanced (`dt <= 0.0001`) are left out.

* A position is one of the places that the program tells apart: the start of the
  robot, the start of the ball, the goal, or "elsewhere". Every geometric test is
  an operator that returns the set of truth values possible for two places
  (`SamePlace`, `Touching`, `NearBehind`, `Blocked`); the numbers behind them are
  those of `Game::ObjectPosInit`, `GameConfig.h` and `MainStrategy.cpp`. "Elsewhere"
  is many positions, so a test with one of them may come out either way: a robot on
  its way may have arrived at its target, follow its profile or plan a new one.
* A motion profile is valid or not, has an end, and some frames left. Its shape
  is the business of the trajectory generator.
* `reset_timer` counts frames instead of seconds; -1 is "off" as in the code.
* `kick` and `dribbler` start as `Garbage`: no constructor of `GameObject` sets
  them. `Construct` may crash, because `ObjectPosInit` deletes the pointer `ball`
  that nothing has set.
* `PrepareRobotCommands` fills the entries of team 1; the others are whatever the
  uninitialised array holds.
* `SimulatorApp` runs the same `Game` with one `ProcessInput` per frame and sends
  nothing; its behaviours are those of this module in which the second pass finds
  nothing new.

### RRTX

The plane is a set of points with a distance, and a layout of obstacles is the
set of pairs of points that `isCollisionFree` accepts. What the module assumes of
them (`DistAssumption`, `LayoutsAssumption`) is what the code computes: the
distance is 0 only between equal points, a segment without a length is free, and
both directions of a segment are equally free. Indices start at 1, with 0 for the
-1 of the code. `cost_from_start` is never read and is left out; a sample that an
obstacle refuses changes nothing and is a stuttering step.

### Trajectory

`SingleDOF` turns a distance and an initial velocity into segments of constant
acceleration. One action is one round of the loop of `solveAll`, named after the
function that computes the segment.

* Units make the square root disappear: a length *s* is measured as
  2 * `max_acc` * *s* and a velocity *v* as *v* * |*v*|. The braking distance of
  *v* is then |*v*|, a segment covers the difference of two magnitudes, and `w1`
  is the mean of `total_dist` and `initial_vel`.
* A double is rounded: the velocity and the distance at the end of a segment are
  off by any error up to `Round` (`Errors`). `eps` exceeds a few such errors, as it
  does in the code (`RoundAssumption`), and `max_vel` exceeds `eps`
  (`MaxVelAssumption`).
* An initial velocity that is within `eps` of `max_vel` and different from it is
  left out (`InputsAssumption`).
* A robot that is too fast to stop at the target passes it: the code brakes, clamps
  `total_dist` at 0 and does not come back. `Reach` is where it then has to end.
* Durations, `velocityAt` and `Synced2D`, which balances two axes by bisection over
  an angle, are left out.

### Messages, on PbCommon, PbEncode and PbDecode

A byte, or a word of up to 64 bits, is the set of its bits that are 1: shifts and
masks are then set operations, and no width is lost. A message type is a sequence
of field records (`PB_FIELD`: tag, kind, type, size, array size, submessage), as
the generator of nanopb would write them; a struct is a function of the tags, with
an optional field as a sequence of at most one element and an array as a sequence.

* `PbEncode` and `PbDecode` follow the C files function by function: streams with a
  limit, tags and wire types, the two varint decoders and the zig-zag code, fixed
  words, strings, bytes, packed and unpacked arrays, submessages, unknown fields
  that are skipped, required fields that are counted, and the field iterator, which
  goes on from the last field and wraps around. A failing call returns a record
  with `ok` FALSE, and every caller stops there as the C code does.
* `Messages` is the life of a payload. `Serialize` appends a message, `AddForeign`
  a field that a newer program may have added, `Cut` keeps the first bytes (the
  link sends its buffer without a lock), `Noise` is bytes of someone else, and
  `Deserialize` reads the whole payload in one call. `Frame` and `StoredCommands`
  are the length-prefixed commands of `SetRobotCommands`.
* Loops are `While`: the state after so many rounds, with a number of rounds that
  the loop cannot exceed. What calls itself for a submessage (`pb_encode`,
  `pb_decode_inner`, the default values, the merge) takes the operator for the
  submessage as a parameter, and a submessage has no submessage (`NestsOnce`). No
  message of the repository has one at all. The source lines of these operators
  (`encode_field`, `decode_static_field`, `DecodeField`, ...) are listed with the
  operators that instantiate them: `pb_encode` and `FlatEncode`, `pb_decode_inner`
  and `FlatDecode`. A result that is used several times is passed on as an argument
  (`StoreField`, `RequiredSeen`, `HighGroups`), which keeps TLC's coverage report
  of the nested calls small.
* The descriptors of the two robot messages are those of `message.proto`
  (`RobotTypes`); a third type in `MCMessages` has a field of every other kind.
* `MessagesAssumption` says what the constants are: tags rise along a descriptor,
  the structs of a robot message are functions of its tags to words of 32 bits, and
  an element of `Foreign` is exactly one field that the decoder reads to its end and
  no descriptor has (`IsForeign`).

### Broadcast

Each process runs one `io_context`: a queue of completions, handled one at a time,
and the operations that are outstanding. `cancel` and `expires_after` recall a wait
that is outstanding, and no completion that is already queued. `count`,
`retry_timer` and `delay_timer` are the variables of the code, `recv_buf` is the
number in the last ACK.

* `Bind` is empty. The socket of the sender is opened by `set_broadcast`; that of
  `BroadcastReceiver` stays closed, its receive completes with an error, and
  `io_context::run` returns. The handler in the code of the receiver is therefore
  not an action: who answers are other `Listeners` on the port.
* The handler of the retry timer prints `msg`, which was captured by reference from
  a call that has returned; it may go on or end the process (`HandleRetry`).
* A datagram whose buffer is gone before the send is one that no listener answers,
  as if the network had lost it.

### KDTree

The tree is on a heap: `node` maps the index of a point to the node that was
allocated for it, with its axis and its two pointers, and `root_` is the pointer to
the first. A pointer is kept in a *slot*: `root_`, or `next[0]` or `next[1]` of a
node. The recursive functions take one step per call, and `stack` holds the calls
that have not returned:

* of `buildRecursive` and `insertRecursive`, with the points the call has to place
  and the slot that its result is assigned to (the new node is put there when it is
  made, since no one looks at the slot before the call returns);
* of the three searches, with the node, and with `pc` = "far" when the near side is
  done and the test of the plane comes next.

`std::nth_element` is free in where it puts equal coordinates, so `buildRecursive`
takes any split that the library may lead to. `push` is that of the bounded queue.
`clear` frees what a walk from `root_` reaches. `Return` ends a member function; what
it returns is in `guess`, `queue` or `indices` just before. Distances are squared.

### Timing

Operators only: `uint32_t` arithmetic modulo 2^32, the conversion to `int32_t`, and
the start times of `NetworkConfig.h` with its `static_assert`. The constants exceed
TLC's integers, so the module has theorems and no run.

## 3. Runs

| run | instance | states | shows |
|---|---|---|---|
| `host_comm_link` | 2 robots, 3 cycles, 3 readies | 119 k | `NoLostWakeup`, `NoStaleFrame`, `LinkSpec` (refinement), `ReadyAnswered` (liveness) |
| `host_comm_torn` | 2 robots, 2 cycles, 1 ready | - | violation of `WholeDatagram` |
| `host_comm_exit` | 2 robots, 1 cycle, 1 ready, fair | - | violation of `ExitReturns` |
| `camera_comm` | 3 packets | 199 | `NoRacingAccess`, `ReceivesOnOpenSocket`, `ValuesNeverGoBack`, `DestructorReturns` |
| `game_play` | keys R, L, K, all at once; timer of 3 frames | 894 k | `TimerBelongsToPlay`, `DeletedOnce`, `OneTogglePerPress`, `PlayIsReset` |
| `game_driven` | keys L, K, P, O, W, an arrow, the mouse, one at a time | 8.8 M | `MovingBallIsTimed` |
| `game_stuck` | key R, fair | - | violation of `RobotMoves` |
| `rrtx` | 3 x 2 grid, 3 layouts, trees of 4 nodes, any number of calls | 61 k | `PathIsFree`, `PathFromStart`, `PathGetsCloser`, `PlanReturns` |
| `trajectory` | `max_vel` 24, `eps` 6, errors of 1 unit, 50 distances, 16 velocities | 64 k | `LandsOnTarget`, `FewSegments`, `SpeedLimit` |
| `messages` | 2 messages and 1 foreign field per payload, 4 bytes of noise or a varint of 11, a buffer of 30 bytes | 198 k | `WholeDecodesToMerge`, `CutIsFieldPrefix`, `AcceptedRoundTrips`, `FramesSeparate`, `VarintReference` |
| `kdtree` | 4 points of the plane, builds and trees of up to 4, 2 queries, 3 radii | 511 k | `IndexedOnce`, `AlwaysValid`, `NearestIsNearest`, `KNearest`, `WithinRadius` |
| `broadcast` | 2 messages, 2 listeners | 136 k | `NeverSilent`, `CountIsAnswered`, `RetriesDoNotMultiply`, `SenderFinishes` |

Bounds, and why they are enough:

* *HostComm.* Two frames are the fewest that can be mixed, and the fewest for
  which the first append tears a cell that an earlier cycle has written. Three
  cycles let one be sent, one be written during the send, and one be left over.
  Three readies do the same for the other flag. The two violations need less: two
  cycles for one send to meet the next update, and one cycle and one ready for
  threads that are left waiting. The proofs hold for all bounds.
* *CameraComm.* One packet to be read, one to replace it during the read, one
  more.
* *Game.* A timer of three frames has a first, a middle and a last one; a profile
  of two frames has a robot that is neither here nor there. `game_play` has all
  subsets of its keys down at once, so that R and L, or R and K, act in the same
  frame. `game_driven` has every way of moving a robot or a ball, by the strategy and
  its profiles and by one key at a time (keys that only set `charge` and `dribbler` are left out of the runs: no
  guard reads these). The proofs hold for all sets of keys and all bounds.
* *RRTX.* The grid has a layout with a free line, one with a way around, and one
  without a way; four nodes make trees with branches and chains, and the step of
  two units makes nodes that reach the goal and nodes that do not.
* *Trajectory.* `eps` is the smallest that the assumption allows for errors of one
  unit, so that every test can be wrong by as much as the code tolerates. The
  inputs lie around every boundary of the case analysis. The proofs hold for all
  `Round` and for all inputs that `InputsAssumption` admits: every distance, and
  every velocity that is `max_vel` or differs from it by `eps` or more.
* *Messages.* Two messages are the fewest that merge. A buffer of 30 bytes is
  smaller than the largest command of the run, so that some do not fit; with the 256
  bytes of the code none would fail. Eleven bytes are one more than the longest
  varint. The values have their top bit, their lowest bit, all bits or none set, and
  the noise has the bytes that the two varint decoders tell apart. For the robot
  messages the proofs hold for all values, buffer sizes, numbers of messages and
  foreign fields, and for noise of any length.
* *KDTree.* The points share coordinates on both axes and may be equal; four of them
  make trees with two children and chains on either side. One query lies on a point
  and on the planes through it, the other outside; one radius is the distance of
  points. The proofs hold for all dimensions, points, queries and bounds.
* *Broadcast.* Two messages make one ACK late for its message and leave one to be
  skipped; two listeners answer the same message twice. The proofs hold for any
  number of either.

CHECK_DEADLOCK is off where the program ends (`HostComm`, `CameraComm`, `Game`,
`Broadcast`); the planner, the trajectory generator, the tree and the codec may
always be called again, and their runs check for deadlock: in `trajectory` this shows that the cases of `solveAll`
leave no state out.

### What the violations show

* `host_comm_torn`: while `send_to` copies the buffer, the next
  `SetRobotCommands` clears and refills it. The base station gets a datagram with
  frames of two cycles, too few frames, or bytes of freed memory, although the
  end-to-end description promises one frame after the other for every robot.
* `host_comm_exit`: `Exit` clears `running` and joins, but the transmission thread
  sleeps on a condition variable that no one notifies any more. The clean-up of
  the game that is to follow is never reached.
* `game_stuck`: R invalidates the profile and keeps `current_target`. The ball is
  back at its start, the next target is the old target, so no new profile is made
  and the robot stands still until the ball or the mode changes. With no key
  pressed the same property holds, so it is the reset that breaks it.

### What the passing runs say that one would not expect

* `CutIsFieldPrefix` bounds what a cut payload can do: no field gets a value that
  was never sent. But protobuf has no end mark, so a datagram that ends between two
  fields is accepted, and the velocities behind the cut pass for zero.
* `WholeDecodesToMerge`: two commands without a frame between them are accepted as
  one, in which a zero of the second does not replace a value of the first. The
  length prefix of `SetRobotCommands` is what keeps them apart (`FramesSeparate`),
  also for the command of zeros, whose serialisation is empty and the same as that
  of a command that failed to serialise: the frames behind either still belong to
  their robots, but the base station cannot tell the two apart.
* `RetriesDoNotMultiply` allows more than one retry at a time: a retry that was
  queued when its timer was cancelled sends the next message before its delay.
* `SenderFinishes` needs its two exceptions, and says nothing about them: after a
  single receive error `UdpSocket` never receives again and the sender retries for
  ever, and the read of `msg` after its owner has returned may end the process.
* Of `Game`, no run is kept for two observations. Entries of `robot_cmds` outside
  team 1 are sent uninitialised, and the comments on the kick signal name other
  keys and other values than the code has.

## 4. Fairness

* Threads are weakly fair, action by action: a thread that can run, runs. Nothing
  that the environment does is fair: the user need not press a key or close the
  window, the base station and the camera need not send, a call need not fail, a
  spurious wake-up need not come. So `ExitReturns` fails by a thread that sleeps
  for ever and not by a thread that is never scheduled.
* `CameraComm` uses strong fairness for the two lock steps: both critical sections
  are short copies between sleeps of milliseconds, so neither thread can keep the
  other out for ever.
* `Game` has weak fairness of the whole program: `main` loops while the window is
  open. Closing it is not fair.
* `RRTX` has weak fairness of `Timeout`, because the clock advances and every
  round of the loop reads it, but none of `Grow`.
* `Broadcast` has weak fairness of the start of both programs, of each event loop and
  of the two timers. The network is fair-lossy: for each message, answers and the
  receptions of ACKs are strongly fair, which says that of infinitely many
  datagrams one arrives, and that some listener stays. No single datagram is
  promised to arrive, and `Lose` and `ReceiveFails` are not fair.

## 5. Proofs

All theorems hold for every value of the constants that meets the named
assumptions of the modules.

* **`HostCommProofs`.** `Invariance` shows an inductive invariant with these parts:
  the types; *mutual exclusion* (a thread is at a control point inside a critical
  section exactly when it holds `mtx`); *pending wake-ups* (`NoLostWakeup`,
  strengthened to the moment between test and wait, which is safe only because
  the flags are raised under the lock); *credit* (`sent`, plus one for a send in
  progress, plus one for a raised flag, never exceeds `readies` or `updates`);
  *age* (a cell that is not torn and lies inside the buffer is at least as new as
  the floor of the send that may read it). From it follow `TypeCorrect`,
  `WakeupNeverLost`, `NeverStale` and the refinement `ImplementsLink`: the credit
  is what makes `TxSent` a `Send` step of `CommandLink`.
* **`GameProofs`.** `MovingBallIsTimed` and `TimerBelongsToPlay` are inductive
  once joined with the range of the timer. `ObjectsDeletedOnce` needs that
  `renderer` and `deletions` are never both set. `TogglesOncePerPress` needs that
  a key that is down and not yet processed is still in `pressed` (for R and L).
  `TypeCorrect` has one lemma per group of variables; the bounds of the two counters
  are not local to their actions and need that `Exit` has not been called before the
  phase "exit", and fewer than three times during it.
* **`CameraCommProofs`.** `SocketIsOpen` needs that a thread that has not ended
  has an open socket, and that there is none left after the join.
  `ValuesOnlyAdvance` needs `cam_curr_values <= latest_values <= packets`, and that
  the values about to be stored are those of the last packet. `AccessExcludes` needs
  that a thread at the vector is the holder of `values_mutex`. `TypeCorrect` is
  inductive as it stands.
* **`RRTXProofs`.** The tree invariant: every parent index is smaller than the
  index of its node, every edge is free, node 1 is the start. The walk invariant:
  the path so far, read backwards, is a free chain that ends at a child of `curr`.
  From these follow `TypeCorrect`, `PathsAreFree`, `PathsStartAtTheRobot` and
  `PathsGetCloser`, the last from the fact that the direct line was not free and
  that the node at the end of the path is nearest to the goal or connected to it.
* **`TrajectoryProofs`.** Two quantities carry the invariant. `Rank` is the number
  of segments that may still come, by the case that is next and by how much the
  distance exceeds the braking distance; every case lowers it, which bounds the
  loop (`SegmentsAreFew`). `Landing` is where the profile would end without further
  errors; it is exact while the target is ahead, and off by at most one `eps` (the
  snapping onto `max_vel`) and two roundings afterwards, with one more in the last
  segment (`ProfileLands`). Both need that no velocity lies strictly within `eps` of
  `max_vel`, which is what the snapping is for. `LimitIsKept` follows as well.

* **`BroadcastProofs`.** `NeverSilent` and `CountIsAnswered` are not inductive alone.
  `Unfinished` (a sender that runs has messages left) is what makes `send_current`
  set its timer, and `AcksAreAnswers` (the number in an ACK on its way, or in the
  buffer of a receive that is queued, was answered) is what makes the next `count`
  an answered one. `Invariance` proves the conjunction, action by action.
  `RetriesAreFew` counts: the lemmas `CountAppend` and `CountTail` say how the number
  of queued completions of a kind changes, and `RetriesStep` that only an ACK that
  raises `count` adds a cause to send beside the one that it replaces.
* **`KDTreeProofs`.** The ghost of the invariant is `side`, which says for every slot
  which points belong below it. `Shape(side)` has them below the right slots: all
  below `root_`; below any other slot those of the node there, of the two sides of
  the node, and those that wait in a call for the slot; the two sides and the node
  have nothing in common, and each side is on its side of the plane. `Waits` says of
  the calls of `build` and `insert` that no two have a slot or a point in common and
  that every point without a node is with one of them. From these, `AllReachable`
  shows that a walk meets every node (if it missed some, take the slot with the
  fewest points below it that has one of them), and `EveryPointIsIndexedOnce` and
  `TreesAreValid` follow.
  For a search, `Walk(side)` gives every call that has not returned a region, the
  points it has still to visit, and the regions are disjoint; `Left` is their union.
  A step passes nothing, one node, or the far side of a plane, and `FarAway` shows
  that no point there is nearer than the plane, which needs that a sum of squares is
  not less than one of them (`DistanceBound`). Then each search has what it knows of
  the points that it has passed: `Nearest`, `Closest` (the queue is sorted, and full
  whenever a point was dropped or skipped), `Inside`. When the stack is empty nothing
  is left, and `NearestIsFound`, `KNearestAreFound` and `RadiusIsExact` follow.
  Assumed of the numbers is that coordinates are integers and that every distance is
  less than the greatest double (`DoubleMaxAssumption`).
* **`NetworkProofs`, on `Messages`.** The proof goes from the bytes to the
  specification.
  *Loops.* A loop that may take *m* rounds is a sequence of *m* + 1 states, which
  exists (`RoundsExist`), stays in its type (`StaysIn`) and does not move once it has
  ended (`Settles`). Each loop of the codec is shown to be such a sequence, and what
  its *n*-th state is follows by `Induction`.
  *Varints.* `DecodeVarint` and `DecodeVarint32` say what the two decoders return for
  every stream: `Ends` is the first byte without the mark, `Value` the union of the
  shifted groups, and `Fits64` and `Fits32` are what the decoders refuse to exceed.
  `VarintsAreRead` compares both with the reference. For the encoder, `LowIs` and
  `HighIs` are the states of its two loops, the high word starting in the middle of
  the fifth group; with them `VarintRoundTrip`.
  *Fields.* Two streams `Agree` when one begins with what is left of the other, and
  then every reader that succeeds on the shorter one does the `Same` on both
  (`SameField`). This is what lets a field be studied alone: `IsField` says that
  bytes are exactly one field with a tag and a value, and a payload is a `Chain` of
  such fields. `CutDecodes` shows what the decoder makes of the first *n* bytes of a
  chain: the fields that end before the cut, if the cut lies between two fields, and a
  failure if it lies inside one. `EncodeIs` shows that `pb_encode` writes a chain,
  one field for every value that is not zero, and that it succeeds exactly when it
  fits.
  *Invariant.* `Reads(d, p, S, last)` says that `p` is a chain that decodes to `last`
  and, after each of its fields, to a member of `S`. `MessagesInv` says of a payload
  of a robot type that `Reads` holds for the structs that a cut may leave
  (`CutOptions`) and for the merge of `parts`, or that the payload is the beginning of
  one for which it does, or noise. Neither `WholeDecodesToMerge` nor
  `CutIsFieldPrefix` is inductive: they speak of what was received, and only the
  structure of the payload says what a further message, a foreign field or a cut
  makes of it. From the invariant follow `MessageTypes`, `RobotWholeDecodes`,
  `RobotCutIsFieldPrefix` and `AcceptedAlwaysRoundTrips`.
  `MessageTypes` adds that a plain struct lies within its C struct (`PlainHolds`).
  *Frames.* `RobotFramesSeparate` needs that every message that was sent is shorter
  than 2^16 bytes (it has at most seven fields of at most eleven bytes), so
  that its length survives the two bytes of the prefix (`BitsRoundTrip`), that one
  that was refused is the empty string (`SentIs`), and then takes the frames off one
  by one (`FramesOfCommands`).
  The theorems on types and on whole, cut and framed messages have the premise
  `desc \in RobotTypes`, as `AcceptedRoundTrips` has itself: these are the two messages
  that this program sends. The third type of the run, with arrays, strings and
  submessages, is only model-checked. The theorems on varints have no such premise.
* **`NetworkProofs`, on `Timing`.** Everything follows from one lemma: a number in the
  range of `uint32_t` that differs from *x* by a multiple of 2^32 is `Wrap(x)`. From it
  `HostTimeRoundTrip`, `DiffIsExact`, and, with the sums of the schedule,
  `SlotsAreDisjoint` for every start of a cycle, the one that wraps included.

Only model-checked: the liveness properties (`ReadyAnswered`, `ExitReturns`,
`DestructorReturns`, `PlayIsReset`, `RobotMoves`, `PlanReturns`,
`SenderFinishes`), because TLAPS has no rules for fairness here; and, of `Messages`,
the type with a field of every kind. No field of the repository is of those kinds, and
the induction would have to be done again for each of them. Where an induction over
data is needed (the loops of the codec, the sum in `distance`, the walk through the
tree, the length of a queue) it is done by a least counterexample: the lemma `Least`
takes one from a non-empty set of numbers.

## 6. Not modelled

* Kinematics: real-valued matrices without state or control.
* Graphics: OpenGL calls. Rendering is left out of `Game` for the same reason.
* Of nanopb: pointer fields and `malloc`, callbacks, extensions, oneofs, fixed-count
  arrays, and the flags for delimited and NUL-terminated input. No message of the
  repository has such a field. Its tests, examples and generator are third-party code.
* `PayloadDecodeCallback` and `PayloadEncodeCallback`: no message has the field they
  are for, and no one registers them.
* `AsyncUdpClient`, `AsyncUdpServer`, `Transmitter`: thin calls of `UdpSocket`. Since
  `Bind` is empty, the server and the transmitter use a socket that is never opened:
  they neither receive nor send, and report nothing.
* The handler of `BroadcastReceiver`, for the same reason. Were it reached, it would
  stop after its last packet, and a lost last ACK would leave the sender alone.
* UART and logger: the race of their buffers is with a transfer function that the
  firmware registers and that is not in the repository.
* The setters of `Timing`. Nothing calls them, so the sign of the offset, which
  `Timing.h` and the code describe differently, decides nothing yet.
* `nnSearch` of an empty tree and `knnSearch` with `k` = 0, which are undefined
  behaviour and have no caller.
* `RRTX::updateObstacle` and `setRecalculationTime`: private and never called.
* `SignalHandler`: never installed.
* `GameObject::Reset`, `Window::FramebufferSizeCallback`: no state of the game.

## 7. Plan

1. *Synced2D* (`libs/motion/src/trajectory.cpp`): the bisection over the angle, on
   top of `Trajectory`; the times of the two axes, and the angles 0 and pi/2, at
   which one of the accelerations vanishes. `Motion::generateProfile` takes its
   total time from the planar part alone, whatever the rotation needs.
2. *Host*: the composition of `Game`, `HostComm` and `CameraComm`, with what a
   robot is told compared with what the strategy decided.
3. *Sockets*: `AsyncUdpClient`, `AsyncUdpServer` and the handler of
   `BroadcastReceiver`, once `Bind` opens a socket.
4. *Uart*: the ring of nine buffers, once the transfer function is known.
5. Proofs: the field types of nanopb that no message of the repository has.
