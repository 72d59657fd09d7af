-------------------------------- MODULE Game --------------------------------
(***************************************************************************)
(* The main loop of the physical host: Host::LoopStep, Game with its       *)
(* GameObjects, and MainStrategy.  The program is one thread; every action *)
(* is one function of the frame, in the order in which LoopStep runs them, *)
(* and phase says which one is next.  The user enters through              *)
(* glfwPollEvents, the field (who touches whom, where a ball rolls, which  *)
(* way a robot faces) through nondeterministic choices.                    *)
(*                                                                         *)
(* Positions are abstracted to the places that the program tells apart:    *)
(* the start position of the robot, that of the ball, the goal, and        *)
(* "elsewhere".  Two positions elsewhere may or may not be close.          *)
(***************************************************************************)
EXTENDS Integers, FiniteSets

CONSTANTS
    Keys,        \* keys (and the mouse button) that the user may use
    MaxDown,     \* bound: keys that are down at the same time
    Garbage,     \* values that an uninitialised float may have
    NumRobots,   \* SystemConstants::num_robots
    NumTeam1,    \* players of team 1; the first is the movable one
    ResetTicks,  \* frames in the 2 s of reset_timer
    LegFrames    \* frames that a motion profile takes

KeyNames == {"R", "L", "K", "I", "U", "P", "O", "C", "V", "M", "N",
             "W",            \* stands for W, A, S and D
             "Q",            \* stands for Q and E
             "LEFT",         \* stands for the four arrows
             "MOUSE_LEFT"}

Levels == {"0.0", "0.4", "1.0", "any"}   \* "any": some other float

ASSUME KeysAssumption == Keys \subseteq KeyNames /\ MaxDown \in Nat
ASSUME GarbageAssumption == Garbage \subseteq Levels
ASSUME RobotsAssumption ==
    NumTeam1 \in Nat \ {0} /\ NumRobots \in Nat /\ NumTeam1 <= NumRobots
ASSUME FramesAssumption == ResetTicks \in Nat \ {0} /\ LegFrames \in Nat \ {0}

VARIABLES
    phase,           \* the function that runs next
    pass,            \* first or second ProcessInput of the frame
    keys, keys_processed,
    prevLeftClick,
    is_auto_mode, passive,
    bot,             \* position of team1_players[0], the only unlocked player
    opponent,        \* team2_players[0]: "home" until an arrow key moves it
    ball, ball_moving, owner,
    reset_timer,
    profile,         \* currentProfile and current_segment_time of the bot
    current_target,
    velocity,        \* the bot's velocity is not zero
    kick, charge, dribbler,  \* of every player of team 1
    robot_cmds,      \* what PrepareRobotCommands returned, until it is sent
    renderer,        \* the objects of the game exist
    exits,           \* calls of Game::Exit
    pressed,         \* history: R and L pressed and not acted upon since
    kicked,          \* history: a ball was kicked since the last reset
    deletions        \* history: how often the objects have been deleted

input  == <<keys, keys_processed, prevLeftClick, pressed>>
mode   == <<is_auto_mode, passive>>
field  == <<bot, opponent, ball, ball_moving, owner>>
play   == <<reset_timer, kicked>>
motion == <<profile, current_target>>
signal == <<velocity, kick, charge, dribbler, robot_cmds>>
life   == <<renderer, exits, deletions>>
vars   == <<phase, pass, input, mode, field, play, motion, signal, life>>

Named == {"start_bot", "start_ball", "goal"}
Pos == Named \cup {"elsewhere"}
Players == {"bot", "mate", "opponent", "other"}
Team1 == 1..NumTeam1
Robots == 1..NumRobots
Commands == [id : 0..NumRobots, moving : BOOLEAN, kickVal : Levels,
             chargeVal : Levels, dribbler : Levels]

Phases == {"construct", "poll", "debug", "mouse", "players", "timer", "kick",
           "move", "motion", "collide", "send", "sent", "exit", "done", "crashed"}

\* Every variable keeps its type.
TypeOK ==
    /\ phase \in Phases
    /\ pass \in {1, 2}
    /\ keys \subseteq Keys /\ keys_processed \subseteq keys
    /\ pressed \subseteq Keys
    /\ prevLeftClick \in BOOLEAN
    /\ is_auto_mode \in BOOLEAN /\ passive \in BOOLEAN
    /\ bot \in Pos /\ ball \in Pos
    /\ opponent \in {"home", "roaming"}
    /\ ball_moving \in BOOLEAN
    /\ owner \in Players \cup {"none"}
    /\ reset_timer \in -1..ResetTicks
    /\ profile \in [valid : BOOLEAN, left : 0..LegFrames, end : Pos]
    /\ current_target \in Pos \cup {"origin", "nowhere"}
    /\ velocity \in BOOLEAN
    /\ kick \in [Team1 -> Levels]
    /\ charge \in [Team1 -> Levels]
    /\ dribbler \in [Team1 -> Levels]
    /\ robot_cmds \in [Robots -> Commands]
    /\ renderer \in BOOLEAN
    /\ exits \in 0..3
    /\ deletions \in 0..3
    /\ kicked \in BOOLEAN

NoProfile == [valid |-> FALSE, left |-> 0, end |-> "elsewhere"]
NoCommand == [id |-> 0, moving |-> FALSE, kickVal |-> "0.0",
              chargeVal |-> "0.0", dribbler |-> "0.0"]

\* The members of Game before its constructor runs, and the players that it
\* makes: GameObject's constructor leaves kick and dribbler uninitialised.
Init ==
    /\ phase = "construct"
    /\ pass = 1
    /\ keys = {} /\ keys_processed = {} /\ pressed = {}
    /\ prevLeftClick = FALSE
    /\ is_auto_mode = TRUE /\ passive = FALSE
    /\ bot = "start_bot" /\ opponent = "home"
    /\ ball = "start_ball" /\ ball_moving = FALSE /\ owner = "none"
    /\ reset_timer = -1
    /\ profile = NoProfile
    /\ current_target = "origin"
    /\ velocity = TRUE
    /\ kick \in [Team1 -> Garbage]
    /\ charge = [i \in Team1 |-> "0.0"]
    /\ dribbler \in [Team1 -> Garbage]
    /\ robot_cmds = [i \in Robots |-> NoCommand]
    /\ renderer = FALSE
    /\ exits = 0 /\ deletions = 0
    /\ kicked = FALSE

-----------------------------------------------------------------------------
(* What the geometry allows: the truth values a test on two places can have *)

\* Closer than the few pixels that make two targets the same; "nowhere" is far
\* outside of the screen.
SamePlace(p, q) ==
    CASE "nowhere" \in {p, q} -> {FALSE}
      [] {p, q} \subseteq Named \cup {"origin"} -> {p = q}
      [] OTHER -> BOOLEAN

\* Closer than the two radii.  The named places are farther apart than that.
Touching(p, q) == IF {p, q} \subseteq Named THEN {p = q} ELSE BOOLEAN

\* MainStrategy: the point 50 px behind the ball as seen from the goal; behind
\* the ball's start position it is the robot's start position.
Behind(p) == IF p = "start_ball" THEN "start_bot" ELSE "elsewhere"

\* MainStrategy: within 60 px of that point.
NearBehind(p, q) ==
    IF q = "start_ball" /\ p # "elsewhere" THEN {p # "goal"} ELSE BOOLEAN

\* RRTX: the straight line may be blocked.  Between the start positions it is
\* free unless the opponent has been moved there.
Blocked(p, q) ==
    IF {p, q} \subseteq {"start_bot", "start_ball"} /\ opponent = "home"
    THEN {FALSE} ELSE BOOLEAN

-----------------------------------------------------------------------------
(* Construction *)

\* Game::Game: ObjectPosInit tests and deletes the pointer ball, which no one
\* has set; an indeterminate value other than null ends the program.
Construct ==
    /\ phase = "construct"
    /\ \/ phase' = "poll" /\ renderer' = TRUE
       \/ phase' = "crashed" /\ UNCHANGED renderer
    /\ UNCHANGED <<pass, input, mode, field, play, motion, signal, exits, deletions>>

-----------------------------------------------------------------------------
(* Game::ProcessInput, which LoopStep calls twice *)

\* glfwPollEvents runs KeyCallback for every event: afterwards the keys in down
\* are pressed; those in again were released and pressed once more on the way.
PollEvents ==
    /\ phase = "poll"
    /\ \E down \in SUBSET Keys : \E again \in SUBSET (down \cap keys) :
        /\ Cardinality(down) <= MaxDown
        /\ keys' = down
        /\ keys_processed' = (keys_processed \cap down) \ again
        /\ pressed' = pressed \cup ({"R", "L"} \cap ((down \ keys) \cup again))
    /\ phase' = "debug"
    /\ UNCHANGED <<pass, prevLeftClick, mode, field, play, motion, signal, life>>

Fresh(k) == k \in keys /\ k \notin keys_processed

\* Mutant of ResetPositions: the timer keeps running.
ResetPositionsKeepsTimer ==
    /\ bot' = "start_bot" /\ opponent' = "home"
    /\ ball' = "start_ball" /\ ball_moving' = FALSE /\ owner' = "none"
    /\ profile' = [profile EXCEPT !.valid = FALSE]
    /\ velocity' = FALSE
    /\ UNCHANGED reset_timer
    /\ kicked' = FALSE

\* Mutant of ResetPositions: the ball keeps its velocity.
ResetPositionsKeepsBall ==
    /\ bot' = "start_bot" /\ opponent' = "home"
    /\ ball' = "start_ball" /\ owner' = "none"
    /\ profile' = [profile EXCEPT !.valid = FALSE]
    /\ velocity' = FALSE
    /\ reset_timer' = -1
    /\ kicked' = FALSE
    /\ UNCHANGED ball_moving

\* ResetPositions: current_target, kick, charge and dribbler are left alone.
ResetPositions ==
    /\ bot' = "start_bot" /\ opponent' = "home"
    /\ ball' = "start_ball" /\ ball_moving' = FALSE /\ owner' = "none"
    /\ profile' = [profile EXCEPT !.valid = FALSE]
    /\ velocity' = FALSE
    /\ reset_timer' = -1
    /\ kicked' = FALSE

\* Mutant of ProcessDebugKeys: L is not marked as processed.
ProcessDebugKeysForgets ==
    /\ phase = "debug"
    /\ is_auto_mode' = (is_auto_mode # Fresh("L"))
    /\ pressed' = pressed \ {"R", "L"}
    /\ phase' = "mouse"
    /\ UNCHANGED <<pass, keys, keys_processed, prevLeftClick, passive, field, play,
                   motion, signal, life>>

\* R resets the play, L toggles the mode, once per key press; entering the
\* automatic mode forgets the target.  J, M and N only switch logs here.
ProcessDebugKeys ==
    /\ phase = "debug"
    /\ keys_processed' = keys_processed \cup ({"R", "L"} \cap keys)
    /\ pressed' = pressed \ {"R", "L"}
    /\ \/ Fresh("R") /\ ResetPositions
       \/ ~Fresh("R") /\ UNCHANGED <<field, play, profile, velocity>>
    /\ is_auto_mode' = (is_auto_mode # Fresh("L"))
    /\ current_target' = IF Fresh("L") /\ is_auto_mode' THEN "nowhere"
                                                        ELSE current_target
    /\ phase' = "mouse"
    /\ UNCHANGED <<pass, keys, prevLeftClick, passive, kick, charge, dribbler,
                   robot_cmds, life>>

NewProfile(p) == [valid |-> TRUE, left |-> LegFrames, end |-> p]

\* A new click in manual mode makes a profile to the clicked position.
ProcessMouseClickMovement ==
    /\ phase = "mouse"
    /\ LET leftClick == "MOUSE_LEFT" \in keys IN
        /\ prevLeftClick' = leftClick
        /\ IF ~prevLeftClick /\ leftClick /\ ~is_auto_mode
           THEN \E p \in Pos : /\ current_target' = p
                               /\ profile' = NewProfile(p)
           ELSE UNCHANGED motion
    /\ phase' = "players"
    /\ UNCHANGED <<pass, keys, keys_processed, pressed, mode, field, play, signal, life>>

\* The last of the pressed keys in the order of the code decides.
Latch(old, on, off) == IF off \in keys THEN "0.0" ELSE IF on \in keys THEN "1.0" ELSE old

KickAfterKeys(isPassive) ==
    IF "U" \in keys /\ ~isPassive THEN "0.4" ELSE Latch(kick[1], "K", "I")

\* ProcessPlayerInput for every player.  In passive mode the position comes from
\* the caller: the camera in the first call of the frame, a fixed point in the
\* second.  Otherwise W moves and Q turns the bot, unless the border refuses; a
\* ball that is stuck to it goes along.  The arrows do the same for
\* team2_players[0].  The velocity is what this call has moved.
ProcessPlayerInput ==
    /\ phase = "players"
    /\ passive' = ("P" \in keys \/ (passive /\ "O" \notin keys))
    /\ LET moves == {FALSE, ~passive' /\ "W" \in keys}
           turns == ~passive' /\ "Q" \in keys IN
       \E moved \in moves, roams \in {FALSE, "LEFT" \in keys} :
        /\ bot' \in IF passive' THEN (IF pass = 1 THEN Pos ELSE {"elsewhere"})
                                ELSE {IF moved THEN "elsewhere" ELSE bot}
        /\ opponent' = IF roams THEN "roaming" ELSE opponent
        /\ ball' = IF \/ owner = "bot" /\ (moved \/ turns)
                      \/ owner = "opponent" /\ roams
                   THEN "elsewhere" ELSE ball
        /\ velocity' \in IF passive' THEN BOOLEAN ELSE {moved}
    /\ kick' = [kick EXCEPT ![1] = KickAfterKeys(passive')]
    /\ charge' = [charge EXCEPT ![1] = Latch(@, "C", "V")]
    /\ dribbler' = [dribbler EXCEPT ![1] = Latch(@, "M", "N")]
    /\ pass' = 3 - pass
    /\ phase' = IF pass = 1 THEN "poll" ELSE "timer"
    /\ UNCHANGED <<input, is_auto_mode, ball_moving, owner, play, motion,
                   robot_cmds, life>>

-----------------------------------------------------------------------------
(* Game::UpdateSimulation *)

\* Mutant of CountDown: the last frame of the timer is missed.
CountDownMisses ==
    /\ phase = "timer"
    /\ reset_timer' = IF reset_timer > 1 THEN reset_timer - 1 ELSE reset_timer
    /\ phase' = "kick"
    /\ UNCHANGED <<pass, input, mode, field, kicked, motion, signal, life>>

\* A running timer is decremented, and at zero the play is reset.
CountDown ==
    /\ phase = "timer"
    /\ \/ reset_timer = 1 /\ ResetPositions
       \/ /\ reset_timer > 1
          /\ reset_timer' = reset_timer - 1
          /\ UNCHANGED <<field, kicked, profile, velocity>>
       \/ reset_timer <= 0 /\ UNCHANGED <<field, play, profile, velocity>>
    /\ phase' = "kick"
    /\ UNCHANGED <<pass, input, mode, current_target, kick, charge, dribbler,
                   robot_cmds, life>>

\* Mutant of KickBall: the timer is one frame too long.
KickBallLonger ==
    /\ ball_moving' = TRUE
    /\ owner' = "none"
    /\ reset_timer' = ResetTicks + 1
    /\ kicked' = TRUE

\* The ball leaves its owner at 500 px/s, and the play is to be reset.
KickBall ==
    /\ ball_moving' = TRUE
    /\ owner' = "none"
    /\ reset_timer' = ResetTicks
    /\ kicked' = TRUE

\* K kicks a ball that anyone owns.
HandleManualKick ==
    /\ phase = "kick"
    /\ \/ "K" \in keys /\ owner # "none" /\ KickBall
       \/ ("K" \notin keys \/ owner = "none") /\ UNCHANGED <<ball_moving, owner, play>>
    /\ phase' = "move"
    /\ UNCHANGED <<pass, input, mode, bot, opponent, ball, motion, signal, life>>

\* GameObject::Move: an owned ball does not move; friction may stop a free one.
BallMove ==
    /\ phase = "move"
    /\ \/ /\ owner = "none" /\ ball_moving
          /\ ball' \in Pos
          /\ ball_moving' \in BOOLEAN
       \/ (owner # "none" \/ ~ball_moving) /\ UNCHANGED <<ball, ball_moving>>
    /\ phase' = "motion"
    /\ UNCHANGED <<pass, input, mode, bot, opponent, owner, play, motion, signal, life>>

\* MainStrategy::update: to the goal with the ball, to the ball when near the
\* point behind it, and otherwise to that point.
StrategyTarget(hasBall, near) ==
    IF hasBall THEN "goal" ELSE IF near THEN ball ELSE Behind(ball)

\* The second point of the planned path, or "none" for a path without one.
PathTargets(p) ==
    {p} \cup IF TRUE \in Blocked(bot, p) THEN {"elsewhere", "none"} ELSE {}

\* getVelocityState and the integration of one frame: a valid profile that has
\* not run out brings the bot one frame closer to its end.
Advances(p) == p.valid /\ p.left > 0

AfterFrame(p) == IF Advances(p) THEN [p EXCEPT !.left = @ - 1] ELSE p

BotAfter(p, arrival) ==
    IF ~Advances(p) THEN bot ELSE IF p.left = 1 THEN arrival ELSE "elsewhere"

\* The automatic mode keeps the bot inside the field: the goal is outside.
Clamped(p) == IF p = "goal" THEN "elsewhere" ELSE p

\* UpdateAutoStrategy: decide, kick, plan, and follow the profile to the first
\* waypoint; only a target that is not close to current_target gets a new one.
UpdateAutoStrategy ==
    /\ phase = "motion" /\ is_auto_mode
    /\ \E near \in NearBehind(bot, ball), kicks \in {FALSE, owner = "bot"} :
       \E p \in PathTargets(StrategyTarget(owner = "bot", near)) :
        /\ \/ kicks /\ KickBall
           \/ ~kicks /\ UNCHANGED <<ball_moving, owner, play>>
        /\ \/ /\ p = "none" \/ TRUE \in SamePlace(p, bot)
              /\ UNCHANGED <<bot, ball, motion>>
           \/ /\ p # "none" /\ FALSE \in SamePlace(p, bot)
              /\ \E same \in SamePlace(p, current_target) :
                  LET next == IF same THEN profile ELSE NewProfile(p) IN
                  /\ current_target' = IF same THEN current_target ELSE p
                  /\ profile' = AfterFrame(next)
                  /\ bot' = BotAfter(next, Clamped(next.end))
                  /\ ball' = IF owner' = "bot" /\ Advances(next) THEN "elsewhere"
                                                                 ELSE ball
    /\ phase' = "collide"
    /\ UNCHANGED <<pass, input, mode, opponent, signal, life>>

\* UpdateManualMotion: the bot follows the profile of the last click; a ball
\* that it owns is left where it is.
UpdateManualMotion ==
    /\ phase = "motion" /\ ~is_auto_mode
    /\ profile' = AfterFrame(profile)
    /\ bot' = BotAfter(profile, profile.end)
    /\ phase' = "collide"
    /\ UNCHANGED <<pass, input, mode, opponent, ball, ball_moving, owner, play,
                   current_target, signal, life>>

\* HandleBotCollision for every pair: the bot is pushed out of locked players,
\* which stand away from the named places unless an arrow key has moved one.
HandleBotCollision ==
    bot' \in {bot} \cup IF bot = "elsewhere" \/ opponent = "roaming"
                       THEN {"elsewhere"} ELSE {}

\* Who may touch the ball, after the bot was pushed.  A ball that is pushed out
\* of one player may touch one that comes later; the bot comes first.
Touchers ==
    LET first == {p \in Players :
                    CASE p = "bot" -> TRUE \in Touching(bot', ball)
                      [] p = "opponent" -> opponent = "roaming" \/ ball = "elsewhere"
                      [] OTHER -> ball = "elsewhere"}
    IN first \cup IF first = {} THEN {} ELSE Players \ {"bot"}

\* HandleBallCollision for every player: the ball is pushed out of the players
\* it touches, bounces off, and sticks to one that faces it if it is free.
HandleBallCollision ==
    /\ owner' \in {owner} \cup IF owner = "none" THEN Touchers ELSE {}
    /\ ball' \in {ball} \cup IF Touchers = {} THEN {} ELSE {"elsewhere"}

DoCollisions ==
    /\ phase = "collide"
    /\ HandleBotCollision
    /\ HandleBallCollision
    /\ phase' = "send"
    /\ UNCHANGED <<pass, input, mode, opponent, ball_moving, play, motion, signal, life>>

-----------------------------------------------------------------------------
(* The rest of LoopStep, and the end of the program *)

\* PrepareRobotCommands: the commands of team 1; the array is not initialised,
\* so the other entries hold anything.
PrepareRobotCommands ==
    /\ phase = "send"
    /\ \E garbage \in [Robots \ Team1 -> {[NoCommand EXCEPT !.kickVal = v] : v \in Garbage}] :
        robot_cmds' = [i \in Robots |->
            IF i \in Team1 THEN [id |-> i, moving |-> i = 1 /\ velocity, kickVal |-> kick[i],
                                 chargeVal |-> charge[i], dribbler |-> dribbler[i]]
                           ELSE garbage[i]]
    /\ phase' = "sent"
    /\ UNCHANGED <<pass, input, mode, field, play, motion, velocity, kick, charge,
                   dribbler, life>>

\* SetRobotCommands takes the commands (module HostComm), and the frame ends.
EndFrame ==
    /\ phase = "sent"
    /\ robot_cmds' = [i \in Robots |-> NoCommand]
    /\ phase' = "poll"
    /\ UNCHANGED <<pass, input, mode, field, play, motion, velocity, kick, charge,
                   dribbler, life>>

\* The window has been closed, and main leaves its loop.
LeaveLoop ==
    /\ phase = "poll" /\ pass = 1
    /\ phase' = "exit"
    /\ UNCHANGED <<pass, input, mode, field, play, motion, signal, life>>

\* Mutant of Exit: Cleanup does not clear renderer.
ExitForgets ==
    /\ phase = "exit"
    /\ exits' = exits + 1
    /\ deletions' = IF renderer THEN deletions + 1 ELSE deletions
    /\ phase' = IF exits' = 3 THEN "done" ELSE "exit"
    /\ UNCHANGED <<pass, input, mode, field, play, motion, signal, renderer>>

\* Game::Exit is called by Host::Exit, again by ~Host and again by ~Game;
\* Cleanup deletes the objects when renderer is set, and clears it.
Exit ==
    /\ phase = "exit"
    /\ exits' = exits + 1
    /\ renderer' = FALSE
    /\ deletions' = IF renderer THEN deletions + 1 ELSE deletions
    /\ phase' = IF exits' = 3 THEN "done" ELSE "exit"
    /\ UNCHANGED <<pass, input, mode, field, play, motion, signal>>

Program ==
    \/ Construct \/ PollEvents \/ ProcessDebugKeys \/ ProcessMouseClickMovement
    \/ ProcessPlayerInput \/ CountDown \/ HandleManualKick \/ BallMove
    \/ UpdateAutoStrategy \/ UpdateManualMotion \/ DoCollisions
    \/ PrepareRobotCommands \/ EndFrame \/ Exit

Next == Program \/ LeaveLoop

Spec == Init /\ [][Next]_vars

\* The loop of main goes on as long as the window is open.
FairSpec == Spec /\ WF_vars(Program)

-----------------------------------------------------------------------------
(* Properties *)

\* A ball that has been kicked is always on its way to a reset: whatever the
\* keys, the strategy and the collisions do to it, no ball moves (or has a
\* velocity to move with once it is released) while reset_timer is off.
MovingBallIsTimed == ball_moving => reset_timer > 0

\* A timed reset belongs to the play that set the timer: after R or a timed
\* reset has started a new play, no timer of the old one is left running.
TimerBelongsToPlay == reset_timer > 0 => kicked

\* One press of L toggles the mode at most once, although ProcessInput runs
\* twice per frame and the key stays down for many frames.
OneTogglePerPress ==
    [][is_auto_mode' # is_auto_mode => "L" \in pressed]_vars

\* The objects of the game are deleted at most once, although Game::Exit runs
\* three times.
DeletedOnce == deletions <= 1

\* A running timer ends in a reset unless another kick restarts it or the
\* window is closed.
PlayIsReset ==
    reset_timer \in 1..(ResetTicks - 1)
        ~> (reset_timer \in {-1, ResetTicks} \/ phase \in {"exit", "done"})

\* What the motion library says of the simulator: the robot moves from start to
\* goal.  In automatic mode the robot leaves its start for the ball, already
\* before anyone has kicked it.  Violated: after R the target has not changed,
\* so the profile that ResetPositions has invalidated is never replaced.
RobotMoves ==
    []~kicked =>
        ((is_auto_mode /\ bot = "start_bot" /\ phase = "motion")
            ~> (bot # "start_bot" \/ ~is_auto_mode \/ phase \in {"exit", "done"}))
=============================================================================
