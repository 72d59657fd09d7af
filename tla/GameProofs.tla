----------------------------- MODULE GameProofs -----------------------------
(***************************************************************************)
(* What holds of the main loop for every set of keys, every number of      *)
(* robots, every length of the timer and of a motion profile.              *)
(***************************************************************************)
EXTENDS Game, TLAPS

-----------------------------------------------------------------------------
(* The invariants *)

PlayInv ==
    /\ reset_timer \in Int
    /\ MovingBallIsTimed
    /\ TimerBelongsToPlay

\* The objects exist only after construction and before the first Cleanup.
LifeInv ==
    /\ deletions \in Nat
    /\ DeletedOnce
    /\ (renderer \/ phase = "construct") => deletions = 0

\* A key that ProcessDebugKeys will find fresh was pressed since it last ran.
KeyInv == is_auto_mode \in BOOLEAN /\ (Fresh("L") => "L" \in pressed)

-----------------------------------------------------------------------------
(* Steps that several actions share *)

\* ResetPositions, of R or of the timer, leaves a ball at rest and no timer.
LEMMA ResetEndsPlay == ResetPositions => PlayInv'
BY DEF ResetPositions, PlayInv, MovingBallIsTimed, TimerBelongsToPlay

\* A kick, of the key or of the strategy, starts the timer of its play.
LEMMA KickStartsTimer == KickBall => PlayInv'
BY FramesAssumption DEF KickBall, PlayInv, MovingBallIsTimed, TimerBelongsToPlay

\* A step that leaves the ball's velocity and the timer alone is harmless.
LEMMA PlayUntouched ==
    PlayInv /\ UNCHANGED <<ball_moving, reset_timer, kicked>> => PlayInv'
BY DEF PlayInv, MovingBallIsTimed, TimerBelongsToPlay

-----------------------------------------------------------------------------
(* The play *)

LEMMA PlayInductive == PlayInv /\ [Next]_vars => PlayInv'
<1> SUFFICES ASSUME PlayInv, [Next]_vars PROVE PlayInv'
    OBVIOUS
<1> USE DEF input, mode, field, play, motion, signal, life
<1>1. CASE Construct
    BY <1>1, PlayUntouched DEF Construct
<1>2. CASE PollEvents
    BY <1>2, PlayUntouched DEF PollEvents
<1>3. CASE ProcessDebugKeys
    BY <1>3, PlayUntouched, ResetEndsPlay DEF ProcessDebugKeys
<1>4. CASE ProcessMouseClickMovement
    BY <1>4, PlayUntouched DEF ProcessMouseClickMovement
<1>5. CASE ProcessPlayerInput
    BY <1>5, PlayUntouched DEF ProcessPlayerInput
<1>6. CASE CountDown
    <2>1. CASE reset_timer = 1 /\ ResetPositions
        BY <2>1, ResetEndsPlay
    <2>2. CASE reset_timer > 1 /\ reset_timer' = reset_timer - 1 /\ UNCHANGED <<field, kicked>>
        BY <2>2 DEF PlayInv, MovingBallIsTimed, TimerBelongsToPlay
    <2>3. CASE reset_timer <= 0 /\ UNCHANGED <<field, play>>
        BY <2>3, PlayUntouched
    <2> QED
        BY <1>6, <2>1, <2>2, <2>3 DEF CountDown
<1>7. CASE HandleManualKick
    BY <1>7, PlayUntouched, KickStartsTimer DEF HandleManualKick
<1>8. CASE BallMove
    <2>1. UNCHANGED play /\ (ball_moving' => ball_moving)
        BY <1>8 DEF BallMove
    <2> QED
        BY <2>1 DEF PlayInv, MovingBallIsTimed, TimerBelongsToPlay
<1>9. CASE UpdateAutoStrategy
    <2>1. KickBall \/ UNCHANGED <<ball_moving, owner, play>>
        BY <1>9 DEF UpdateAutoStrategy
    <2> QED
        BY <2>1, PlayUntouched, KickStartsTimer
<1>10. CASE UpdateManualMotion
    BY <1>10, PlayUntouched DEF UpdateManualMotion
<1>11. CASE DoCollisions
    BY <1>11, PlayUntouched DEF DoCollisions
<1>12. CASE PrepareRobotCommands
    BY <1>12, PlayUntouched DEF PrepareRobotCommands
<1>13. CASE EndFrame
    BY <1>13, PlayUntouched DEF EndFrame
<1>14. CASE LeaveLoop
    BY <1>14, PlayUntouched DEF LeaveLoop
<1>15. CASE Exit
    BY <1>15, PlayUntouched DEF Exit
<1>16. CASE UNCHANGED vars
    BY <1>16, PlayUntouched DEF vars
<1> QED
    BY <1>1, <1>2, <1>3, <1>4, <1>5, <1>6, <1>7, <1>8, <1>9, <1>10, <1>11, <1>12,
       <1>13, <1>14, <1>15, <1>16 DEF Next, Program

\* A ball with a velocity is always on its way to a timed reset, whatever the
\* keys, the strategy and the collisions do (the kicks at Game.cpp 290 and 324).
THEOREM BallIsTimed == Spec => []MovingBallIsTimed
<1>1. Init => PlayInv
    BY DEF Init, PlayInv, MovingBallIsTimed, TimerBelongsToPlay
<1>2. PlayInv => MovingBallIsTimed
    BY DEF PlayInv
<1> QED
    BY <1>1, <1>2, PlayInductive, PTL DEF Spec

\* No timer survives the play that started it (ResetPositions, by R or timed).
THEOREM TimerOfThisPlay == Spec => []TimerBelongsToPlay
<1>1. Init => PlayInv
    BY DEF Init, PlayInv, MovingBallIsTimed, TimerBelongsToPlay
<1>2. PlayInv => TimerBelongsToPlay
    BY DEF PlayInv
<1> QED
    BY <1>1, <1>2, PlayInductive, PTL DEF Spec

-----------------------------------------------------------------------------
(* The life of the objects *)

LEMMA LifeInductive == LifeInv /\ [Next]_vars => LifeInv'
<1> SUFFICES ASSUME LifeInv, [Next]_vars PROVE LifeInv'
    OBVIOUS
<1> USE DEF life
<1>1. CASE Construct
    BY <1>1 DEF Construct, LifeInv, DeletedOnce
<1>2. CASE Exit
    BY <1>2 DEF Exit, LifeInv, DeletedOnce
<1>3. ASSUME UNCHANGED life, phase' # "construct" \/ phase' = phase PROVE LifeInv'
    BY <1>3 DEF LifeInv, DeletedOnce
<1>4. CASE PollEvents \/ ProcessDebugKeys \/ ProcessMouseClickMovement \/ ProcessPlayerInput
    BY <1>3, <1>4 DEF PollEvents, ProcessDebugKeys, ProcessMouseClickMovement, ProcessPlayerInput
<1>5. CASE CountDown \/ HandleManualKick \/ BallMove \/ UpdateAutoStrategy
    BY <1>3, <1>5 DEF CountDown, HandleManualKick, BallMove, UpdateAutoStrategy
<1>6. CASE UpdateManualMotion \/ DoCollisions \/ PrepareRobotCommands \/ EndFrame \/ LeaveLoop
    BY <1>3, <1>6 DEF UpdateManualMotion, DoCollisions, PrepareRobotCommands, EndFrame, LeaveLoop
<1>7. CASE UNCHANGED vars
    BY <1>3, <1>7 DEF vars
<1> QED
    BY <1>1, <1>2, <1>4, <1>5, <1>6, <1>7 DEF Next, Program

\* The three calls of Game::Exit delete the objects at most once.
THEOREM ObjectsDeletedOnce == Spec => []DeletedOnce
<1>1. Init => LifeInv
    BY DEF Init, LifeInv, DeletedOnce
<1>2. LifeInv => DeletedOnce
    BY DEF LifeInv
<1> QED
    BY <1>1, <1>2, LifeInductive, PTL DEF Spec

-----------------------------------------------------------------------------
(* The toggle *)

LEMMA KeyInductive ==
    KeyInv /\ [Next]_vars
        => KeyInv' /\ (is_auto_mode' # is_auto_mode => "L" \in pressed)
<1> SUFFICES ASSUME KeyInv, [Next]_vars
             PROVE KeyInv' /\ (is_auto_mode' # is_auto_mode => "L" \in pressed)
    OBVIOUS
<1> USE DEF input, mode
<1>1. CASE PollEvents
    <2>1. PICK down \in SUBSET Keys : \E again \in SUBSET (down \cap keys) :
            /\ keys' = down
            /\ keys_processed' = (keys_processed \cap down) \ again
            /\ pressed' = pressed \cup ({"R", "L"} \cap ((down \ keys) \cup again))
        BY <1>1 DEF PollEvents
    <2>2. Fresh("L")' => "L" \in pressed'
        BY <2>1 DEF KeyInv, Fresh
    <2> QED
        BY <1>1, <2>2 DEF PollEvents, KeyInv
<1>2. CASE ProcessDebugKeys
    <2>1. keys' = keys /\ keys_processed' = keys_processed \cup ({"R", "L"} \cap keys)
        BY <1>2 DEF ProcessDebugKeys
    <2>2. ~Fresh("L")'
        BY <2>1 DEF Fresh
    <2>3. is_auto_mode' = (is_auto_mode # Fresh("L"))
        BY <1>2 DEF ProcessDebugKeys
    <2>4. Fresh("L") \in BOOLEAN
        BY DEF Fresh
    <2>5. is_auto_mode' \in BOOLEAN
        BY <2>3
    <2>6. is_auto_mode' # is_auto_mode => Fresh("L")
        BY <2>3, <2>4 DEF KeyInv
    <2> QED
        BY <2>2, <2>5, <2>6 DEF KeyInv
<1>3. ASSUME UNCHANGED <<keys, keys_processed, pressed, is_auto_mode>>
      PROVE  KeyInv' /\ (is_auto_mode' # is_auto_mode => "L" \in pressed)
    BY <1>3 DEF KeyInv, Fresh
<1>4. CASE Construct \/ ProcessMouseClickMovement \/ ProcessPlayerInput \/ CountDown
    BY <1>3, <1>4 DEF Construct, ProcessMouseClickMovement, ProcessPlayerInput, CountDown
<1>5. CASE HandleManualKick \/ BallMove \/ UpdateAutoStrategy \/ UpdateManualMotion
    BY <1>3, <1>5 DEF HandleManualKick, BallMove, UpdateAutoStrategy, UpdateManualMotion
<1>6. CASE DoCollisions \/ PrepareRobotCommands \/ EndFrame \/ LeaveLoop \/ Exit
    BY <1>3, <1>6 DEF DoCollisions, PrepareRobotCommands, EndFrame, LeaveLoop, Exit
<1>7. CASE UNCHANGED vars
    BY <1>3, <1>7 DEF vars
<1> QED
    BY <1>1, <1>2, <1>4, <1>5, <1>6, <1>7 DEF Next, Program

\* One press of L toggles the mode at most once, in both calls of ProcessInput
\* and however long the key is held (Game.cpp 449, KeyCallback).
THEOREM TogglesOncePerPress == Spec => OneTogglePerPress
<1>1. Init => KeyInv
    BY DEF Init, KeyInv, Fresh
<1>2. KeyInv /\ [Next]_vars => [is_auto_mode' # is_auto_mode => "L" \in pressed]_vars
    BY KeyInductive
<1> QED
    BY <1>1, <1>2, KeyInductive, PTL DEF Spec, OneTogglePerPress

-----------------------------------------------------------------------------
(* Types *)

\* The three calls of Game::Exit come last: before them there was none.
ExitInv ==
    /\ phase \notin {"exit", "done"} => exits = 0
    /\ phase = "exit" => exits < 3

InputType ==
    /\ keys \subseteq Keys /\ keys_processed \subseteq keys /\ pressed \subseteq Keys
    /\ prevLeftClick \in BOOLEAN

FieldType ==
    /\ bot \in Pos /\ ball \in Pos /\ opponent \in {"home", "roaming"}
    /\ ball_moving \in BOOLEAN /\ owner \in Players \cup {"none"}

PlayType == reset_timer \in -1..ResetTicks /\ kicked \in BOOLEAN

ProfileType == profile \in [valid : BOOLEAN, left : 0..LegFrames, end : Pos]

MotionType == ProfileType /\ current_target \in Pos \cup {"origin", "nowhere"}

SignalType ==
    /\ velocity \in BOOLEAN
    /\ kick \in [Team1 -> Levels] /\ charge \in [Team1 -> Levels]
    /\ dribbler \in [Team1 -> Levels]
    /\ robot_cmds \in [Robots -> Commands]

ControlType ==
    /\ phase \in Phases /\ pass \in {1, 2}
    /\ is_auto_mode \in BOOLEAN /\ passive \in BOOLEAN
    /\ renderer \in BOOLEAN /\ exits \in 0..3

TypeInv ==
    /\ ControlType /\ InputType /\ FieldType /\ PlayType /\ MotionType /\ SignalType
    /\ ExitInv /\ LifeInv

LEMMA TypeInvGivesTypeOK == TypeInv => TypeOK
<1> SUFFICES ASSUME TypeInv PROVE TypeOK
    OBVIOUS
<1>1. deletions \in 0..3
    BY DEF TypeInv, LifeInv, DeletedOnce
<1> QED
    BY <1>1, Zenon DEF TypeInv, TypeOK, ControlType, InputType, FieldType, PlayType,
                       MotionType, ProfileType, SignalType

LEMMA InputUntouched == InputType /\ UNCHANGED input => InputType'
BY DEF InputType, input

LEMMA FieldUntouched == FieldType /\ UNCHANGED field => FieldType'
BY DEF FieldType, field

LEMMA PlayTypeUntouched == PlayType /\ UNCHANGED play => PlayType'
BY DEF PlayType, play

LEMMA ProfileUntouched == ProfileType /\ UNCHANGED profile => ProfileType'
BY DEF ProfileType

LEMMA MotionUntouched == MotionType /\ UNCHANGED motion => MotionType'
BY DEF MotionType, ProfileType, motion

LEMMA SignalUntouched == SignalType /\ UNCHANGED signal => SignalType'
BY DEF SignalType, signal

LEMMA ResetTypes ==
    ASSUME ProfileType, ResetPositions
    PROVE  FieldType' /\ PlayType' /\ ProfileType' /\ velocity' \in BOOLEAN
<1>1. FieldType' /\ velocity' \in BOOLEAN
    BY Zenon DEF ResetPositions, FieldType, Pos, Named
<1>2. reset_timer' \in -1..ResetTicks
    BY FramesAssumption DEF ResetPositions
<1>3. PlayType'
    BY <1>2, Zenon DEF ResetPositions, PlayType
<1>4. ProfileType'
    BY DEF ResetPositions, ProfileType
<1> QED
    BY <1>1, <1>3, <1>4

LEMMA KickTypes ==
    ASSUME KickBall
    PROVE  ball_moving' \in BOOLEAN /\ owner' \in Players \cup {"none"} /\ PlayType'
<1>1. reset_timer' \in -1..ResetTicks
    BY FramesAssumption DEF KickBall
<1> QED
    BY <1>1, Zenon DEF KickBall, PlayType

\* A profile that is new, or one frame older.
LEMMA NewProfileType ==
    ASSUME NEW p \in Pos
    PROVE  NewProfile(p) \in [valid : BOOLEAN, left : 0..LegFrames, end : Pos]
BY FramesAssumption DEF NewProfile

LEMMA AfterFrameType ==
    ASSUME NEW p \in [valid : BOOLEAN, left : 0..LegFrames, end : Pos]
    PROVE  AfterFrame(p) \in [valid : BOOLEAN, left : 0..LegFrames, end : Pos]
BY FramesAssumption DEF AfterFrame, Advances

LEMMA BotAfterType ==
    ASSUME bot \in Pos, NEW p, NEW arrival \in Pos
    PROVE  BotAfter(p, arrival) \in Pos
BY DEF BotAfter, Pos

LEMMA ControlStep ==
    ASSUME ControlType, ExitInv, Next PROVE ControlType' /\ ExitInv'
<1> USE DEF input, mode, field, play, motion, signal, life, Phases
<1>1. CASE Construct
    BY <1>1 DEF Construct, ControlType, ExitInv
<1>2. CASE PollEvents
    BY <1>2 DEF PollEvents, ControlType, ExitInv
<1>3. CASE ProcessDebugKeys
    <2>1. is_auto_mode' \in BOOLEAN
        BY <1>3, Zenon DEF ProcessDebugKeys
    <2> QED
        BY <1>3, <2>1 DEF ProcessDebugKeys, ControlType, ExitInv
<1>4. CASE ProcessMouseClickMovement
    BY <1>4 DEF ProcessMouseClickMovement, ControlType, ExitInv
<1>5. CASE ProcessPlayerInput
    <2>1. passive' \in BOOLEAN
        BY <1>5, Zenon DEF ProcessPlayerInput
    <2> QED
        BY <1>5, <2>1 DEF ProcessPlayerInput, ControlType, ExitInv
<1>6. CASE CountDown
    BY <1>6 DEF CountDown, ControlType, ExitInv
<1>7. CASE HandleManualKick
    BY <1>7 DEF HandleManualKick, ControlType, ExitInv
<1>8. CASE BallMove
    BY <1>8 DEF BallMove, ControlType, ExitInv
<1>9. CASE UpdateAutoStrategy
    BY <1>9 DEF UpdateAutoStrategy, ControlType, ExitInv
<1>10. CASE UpdateManualMotion \/ DoCollisions
    BY <1>10 DEF UpdateManualMotion, DoCollisions, ControlType, ExitInv
<1>11. CASE PrepareRobotCommands \/ EndFrame
    BY <1>11 DEF PrepareRobotCommands, EndFrame, ControlType, ExitInv
<1>12. CASE LeaveLoop
    BY <1>12 DEF LeaveLoop, ControlType, ExitInv
<1>13. CASE Exit
    <2>1. exits' \in 0..3 /\ phase' \in {"exit", "done"} /\ (phase' = "exit" => exits' < 3)
        BY <1>13 DEF Exit, ControlType, ExitInv
    <2>2. renderer' \in BOOLEAN /\ UNCHANGED <<pass, mode>>
        BY <1>13, Zenon DEF Exit
    <2> QED
        BY <2>1, <2>2 DEF ControlType, ExitInv
<1> QED
    BY <1>1, <1>2, <1>3, <1>4, <1>5, <1>6, <1>7, <1>8, <1>9, <1>10, <1>11, <1>12,
       <1>13 DEF Next, Program

LEMMA InputStep ==
    ASSUME KeysAssumption, InputType, Next PROVE InputType'
<1>1. CASE PollEvents
    <2>1. PICK down \in SUBSET Keys : \E again \in SUBSET (down \cap keys) :
            /\ keys' = down
            /\ keys_processed' = (keys_processed \cap down) \ again
            /\ pressed' = pressed \cup ({"R", "L"} \cap ((down \ keys) \cup again))
        BY <1>1 DEF PollEvents
    <2> QED
        BY <1>1, <2>1, Zenon DEF PollEvents, InputType
<1>2. CASE ProcessDebugKeys
    BY <1>2, Zenon DEF ProcessDebugKeys, InputType
<1>3. CASE ProcessMouseClickMovement
    <2>1. /\ UNCHANGED <<keys, keys_processed, pressed>>
          /\ prevLeftClick' = ("MOUSE_LEFT" \in keys)
        BY <1>3 DEF ProcessMouseClickMovement
    <2>2. prevLeftClick' \in BOOLEAN
        BY <2>1
    <2> QED
        BY <2>1, <2>2 DEF InputType
<1>4. CASE UNCHANGED input
    BY <1>4, InputUntouched
<1> QED
    BY <1>1, <1>2, <1>3, <1>4
    DEF Next, Program, Construct, ProcessPlayerInput, CountDown, HandleManualKick, BallMove,
        UpdateAutoStrategy, UpdateManualMotion, DoCollisions, PrepareRobotCommands, EndFrame,
        LeaveLoop, Exit

LEMMA ClampedType == ASSUME NEW p \in Pos PROVE Clamped(p) \in Pos
BY DEF Clamped, Pos

\* What the planner returns for a target of the strategy is a place, if it
\* returns anything.
LEMMA TargetsArePlaces ==
    ASSUME ball \in Pos, NEW near,
           NEW p \in PathTargets(StrategyTarget(owner = "bot", near)), p # "none"
    PROVE  p \in Pos
<1>1. StrategyTarget(owner = "bot", near) \in Pos
    BY DEF StrategyTarget, Behind, Pos, Named
<1> QED
    BY <1>1 DEF PathTargets, Pos

LEMMA FieldStep ==
    ASSUME FieldType, ProfileType, Next PROVE FieldType'
<1> USE DEF field
<1>1. CASE ProcessDebugKeys
    BY <1>1, ResetTypes, FieldUntouched DEF ProcessDebugKeys
<1>2. CASE ProcessPlayerInput
    <2>1. bot' \in Pos /\ ball' \in Pos /\ opponent' \in {"home", "roaming"}
        BY <1>2 DEF ProcessPlayerInput, FieldType, Pos
    <2> QED
        BY <1>2, <2>1 DEF ProcessPlayerInput, FieldType
<1>3. CASE CountDown
    BY <1>3, ResetTypes, FieldUntouched DEF CountDown
<1>4. CASE HandleManualKick
    <2>1. ball_moving' \in BOOLEAN /\ owner' \in Players \cup {"none"}
        BY <1>4, KickTypes DEF HandleManualKick, FieldType
    <2> QED
        BY <1>4, <2>1 DEF HandleManualKick, FieldType
<1>5. CASE BallMove
    BY <1>5 DEF BallMove, FieldType
<1>6. CASE UpdateAutoStrategy
    <2>1. ball_moving' \in BOOLEAN /\ owner' \in Players \cup {"none"}
        BY <1>6, KickTypes DEF UpdateAutoStrategy, FieldType
    <2>2. UNCHANGED <<bot, ball>>
          \/ \E next : /\ next \in [valid : BOOLEAN, left : 0..LegFrames, end : Pos]
                       /\ bot' = BotAfter(next, Clamped(next.end))
                       /\ ball' \in {"elsewhere", ball}
        <3>1. PICK near \in NearBehind(bot, ball), kicks \in {FALSE, owner = "bot"} :
              \E p \in PathTargets(StrategyTarget(owner = "bot", near)) :
                \/ UNCHANGED <<bot, ball, motion>>
                \/ /\ p # "none"
                   /\ \E same \in SamePlace(p, current_target) :
                        LET next == IF same THEN profile ELSE NewProfile(p) IN
                        /\ bot' = BotAfter(next, Clamped(next.end))
                        /\ ball' = IF owner' = "bot" /\ Advances(next) THEN "elsewhere" ELSE ball
            BY <1>6 DEF UpdateAutoStrategy
        <3>2. PICK p \in PathTargets(StrategyTarget(owner = "bot", near)) :
                \/ UNCHANGED <<bot, ball, motion>>
                \/ /\ p # "none"
                   /\ \E same \in SamePlace(p, current_target) :
                        LET next == IF same THEN profile ELSE NewProfile(p) IN
                        /\ bot' = BotAfter(next, Clamped(next.end))
                        /\ ball' = IF owner' = "bot" /\ Advances(next) THEN "elsewhere" ELSE ball
            BY <3>1
        <3>3. p # "none" => p \in Pos
            BY <3>2, TargetsArePlaces DEF FieldType
        <3> QED
            BY <3>2, <3>3, NewProfileType DEF ProfileType
    <2>3. bot' \in Pos /\ ball' \in Pos
        BY <2>2, BotAfterType, ClampedType DEF FieldType, Pos
    <2> QED
        BY <1>6, <2>1, <2>3 DEF UpdateAutoStrategy, FieldType
<1>7. CASE UpdateManualMotion
    <2>1. bot' \in Pos
        BY <1>7, BotAfterType DEF UpdateManualMotion, FieldType, ProfileType
    <2> QED
        BY <1>7, <2>1 DEF UpdateManualMotion, FieldType
<1>8. CASE DoCollisions
    <2>1. Touchers \subseteq Players
        BY DEF Touchers
    <2>2. bot' \in Pos /\ ball' \in Pos /\ owner' \in Players \cup {"none"}
        BY <1>8, <2>1 DEF DoCollisions, HandleBotCollision, HandleBallCollision, FieldType, Pos
    <2> QED
        BY <1>8, <2>2 DEF DoCollisions, FieldType
<1>9. CASE UNCHANGED field
    BY <1>9, FieldUntouched
<1> QED
    BY <1>1, <1>2, <1>3, <1>4, <1>5, <1>6, <1>7, <1>8, <1>9
    DEF Next, Program, Construct, PollEvents, ProcessMouseClickMovement, PrepareRobotCommands,
        EndFrame, LeaveLoop, Exit

LEMMA PlayTypeStep ==
    ASSUME PlayType, ProfileType, Next PROVE PlayType'
<1> USE DEF play
<1>1. CASE ProcessDebugKeys
    BY <1>1, ResetTypes, PlayTypeUntouched DEF ProcessDebugKeys
<1>2. CASE CountDown
    <2>1. CASE reset_timer > 1 /\ reset_timer' = reset_timer - 1 /\ UNCHANGED kicked
        BY <2>1, FramesAssumption DEF PlayType
    <2> QED
        BY <1>2, <2>1, ResetTypes, PlayTypeUntouched DEF CountDown
<1>3. CASE HandleManualKick
    BY <1>3, KickTypes, PlayTypeUntouched DEF HandleManualKick
<1>4. CASE UpdateAutoStrategy
    BY <1>4, KickTypes, PlayTypeUntouched DEF UpdateAutoStrategy
<1>5. CASE UNCHANGED play
    BY <1>5, PlayTypeUntouched
<1> QED
    BY <1>1, <1>2, <1>3, <1>4, <1>5
    DEF Next, Program, Construct, PollEvents, ProcessMouseClickMovement, ProcessPlayerInput,
        BallMove, UpdateManualMotion, DoCollisions, PrepareRobotCommands, EndFrame, LeaveLoop,
        Exit

LEMMA MotionStep ==
    ASSUME FieldType, MotionType, Next PROVE MotionType'
<1> USE DEF motion
<1>1. CASE ProcessDebugKeys
    <2>1. ProfileType'
        BY <1>1, ResetTypes, ProfileUntouched DEF ProcessDebugKeys, MotionType
    <2>2. current_target' \in Pos \cup {"origin", "nowhere"}
        BY <1>1 DEF ProcessDebugKeys, MotionType
    <2> QED
        BY <2>1, <2>2 DEF MotionType
<1>2. CASE ProcessMouseClickMovement
    <2>1. UNCHANGED motion \/ \E p \in Pos : current_target' = p /\ profile' = NewProfile(p)
        BY <1>2 DEF ProcessMouseClickMovement
    <2> QED
        BY <2>1, NewProfileType, MotionUntouched DEF MotionType, ProfileType
<1>3. CASE CountDown
    <2>1. ProfileType'
        BY <1>3, ResetTypes, ProfileUntouched DEF CountDown, MotionType
    <2> QED
        BY <1>3, <2>1 DEF CountDown, MotionType
<1>4. CASE UpdateAutoStrategy
    <2>1. \/ UNCHANGED motion
          \/ \E near \in NearBehind(bot, ball) :
             \E p \in PathTargets(StrategyTarget(owner = "bot", near)) :
                /\ p # "none"
                /\ \/ current_target' = current_target /\ profile' = AfterFrame(profile)
                   \/ current_target' = p /\ profile' = AfterFrame(NewProfile(p))
        BY <1>4 DEF UpdateAutoStrategy
    <2>2. CASE UNCHANGED motion
        BY <2>2, MotionUntouched
    <2>3. ASSUME NEW near,
                 NEW p \in PathTargets(StrategyTarget(owner = "bot", near)), p # "none",
                 \/ current_target' = current_target /\ profile' = AfterFrame(profile)
                 \/ current_target' = p /\ profile' = AfterFrame(NewProfile(p))
          PROVE  MotionType'
        <3>1. p \in Pos
            BY <2>3, TargetsArePlaces DEF FieldType
        <3>2. ProfileType'
            BY <2>3, <3>1, NewProfileType, AfterFrameType DEF MotionType, ProfileType
        <3> QED
            BY <2>3, <3>1, <3>2 DEF MotionType
    <2> QED
        BY <2>1, <2>2, <2>3
<1>5. CASE UpdateManualMotion
    <2>1. ProfileType'
        BY <1>5, AfterFrameType DEF UpdateManualMotion, MotionType, ProfileType
    <2> QED
        BY <1>5, <2>1 DEF UpdateManualMotion, MotionType
<1>6. CASE UNCHANGED motion
    BY <1>6, MotionUntouched
<1> QED
    BY <1>1, <1>2, <1>3, <1>4, <1>5, <1>6
    DEF Next, Program, Construct, PollEvents, ProcessPlayerInput, HandleManualKick, BallMove,
        DoCollisions, PrepareRobotCommands, EndFrame, LeaveLoop, Exit

LEMMA LatchType == ASSUME NEW old \in Levels, NEW on, NEW off PROVE Latch(old, on, off) \in Levels
BY DEF Latch, Levels

LEMMA NoCommandType == NoCommand \in Commands
BY RobotsAssumption DEF NoCommand, Commands, Levels

LEMMA SignalStep ==
    ASSUME ControlType, ProfileType, SignalType, Next PROVE SignalType'
<1> USE DEF signal
<1>1. CASE ProcessDebugKeys
    <2>1. velocity' \in BOOLEAN
        BY <1>1, ResetTypes DEF ProcessDebugKeys, SignalType
    <2> QED
        BY <1>1, <2>1 DEF ProcessDebugKeys, SignalType
<1>2. CASE ProcessPlayerInput
    <2>1. 1 \in Team1
        BY RobotsAssumption DEF Team1
    <2>2. kick[1] \in Levels /\ charge[1] \in Levels /\ dribbler[1] \in Levels
        BY <2>1 DEF SignalType
    <2>3. KickAfterKeys(passive') \in Levels
        BY <2>2, LatchType DEF KickAfterKeys, Levels
    <2>4. kick' \in [Team1 -> Levels]
        BY <1>2, <2>3 DEF ProcessPlayerInput, SignalType
    <2>5. charge' \in [Team1 -> Levels]
        BY <1>2, <2>2, LatchType DEF ProcessPlayerInput, SignalType
    <2>6. dribbler' \in [Team1 -> Levels]
        BY <1>2, <2>2, LatchType DEF ProcessPlayerInput, SignalType
    <2>7. PICK moved \in {FALSE, ~passive' /\ "W" \in keys} :
            velocity' \in IF passive' THEN BOOLEAN ELSE {moved}
        BY <1>2 DEF ProcessPlayerInput
    <2>8. moved \in BOOLEAN
        BY <2>7
    <2>9. velocity' \in BOOLEAN
        BY <2>7, <2>8
    <2> QED
        BY <1>2, <2>4, <2>5, <2>6, <2>9 DEF ProcessPlayerInput, SignalType
<1>3. CASE CountDown
    <2>1. velocity' \in BOOLEAN
        BY <1>3, ResetTypes DEF CountDown, SignalType
    <2> QED
        BY <1>3, <2>1 DEF CountDown, SignalType
<1>4. CASE PrepareRobotCommands
    <2>1. PICK garbage \in [Robots \ Team1 -> {[NoCommand EXCEPT !.kickVal = v] : v \in Garbage}] :
            robot_cmds' = [i \in Robots |->
                IF i \in Team1 THEN [id |-> i, moving |-> i = 1 /\ velocity, kickVal |-> kick[i],
                                     chargeVal |-> charge[i], dribbler |-> dribbler[i]]
                               ELSE garbage[i]]
        BY <1>4 DEF PrepareRobotCommands
    <2>2. ASSUME NEW i \in Robots, i \notin Team1 PROVE garbage[i] \in Commands
        <3>1. PICK v \in Garbage : garbage[i] = [NoCommand EXCEPT !.kickVal = v]
            BY <2>1, <2>2
        <3>2. v \in Levels
            BY <3>1, GarbageAssumption
        <3> QED
            BY <3>1, <3>2, NoCommandType DEF Commands
    <2>3. ASSUME NEW i \in Robots, i \in Team1
          PROVE  [id |-> i, moving |-> i = 1 /\ velocity, kickVal |-> kick[i],
                  chargeVal |-> charge[i], dribbler |-> dribbler[i]] \in Commands
        <3>1. i \in 0..NumRobots
            BY RobotsAssumption DEF Robots
        <3>2. kick[i] \in Levels /\ charge[i] \in Levels /\ dribbler[i] \in Levels
            BY <2>3 DEF SignalType
        <3>3. (i = 1 /\ velocity) \in BOOLEAN
            OBVIOUS
        <3> QED
            BY <3>1, <3>2, <3>3 DEF Commands
    <2>4. robot_cmds' \in [Robots -> Commands]
        BY <2>1, <2>2, <2>3
    <2> QED
        BY <1>4, <2>4 DEF PrepareRobotCommands, SignalType
<1>5. CASE EndFrame
    <2>1. robot_cmds' \in [Robots -> Commands]
        BY <1>5, NoCommandType DEF EndFrame
    <2> QED
        BY <1>5, <2>1 DEF EndFrame, SignalType
<1>6. CASE UNCHANGED signal
    BY <1>6, SignalUntouched
<1> QED
    BY <1>1, <1>2, <1>3, <1>4, <1>5, <1>6
    DEF Next, Program, Construct, PollEvents, ProcessMouseClickMovement, HandleManualKick,
        BallMove, UpdateAutoStrategy, UpdateManualMotion, DoCollisions, LeaveLoop, Exit

LEMMA TypeInvInductive == TypeInv /\ [Next]_vars => TypeInv'
<1> SUFFICES ASSUME TypeInv, [Next]_vars PROVE TypeInv'
    OBVIOUS
<1>1. LifeInv'
    BY LifeInductive DEF TypeInv
<1>2. CASE Next
    BY <1>1, <1>2, ControlStep, InputStep, FieldStep, PlayTypeStep, MotionStep, SignalStep,
       KeysAssumption DEF TypeInv, MotionType
<1>3. CASE UNCHANGED vars
    <2>1. ControlType' /\ ExitInv'
        BY <1>3 DEF vars, mode, life, TypeInv, ControlType, ExitInv
    <2> QED
        BY <1>1, <1>3, <2>1, InputUntouched, FieldUntouched, PlayTypeUntouched,
           MotionUntouched, SignalUntouched DEF vars, TypeInv
<1> QED
    BY <1>2, <1>3

LEMMA TypeInvInitially == Init => TypeInv
<1> SUFFICES ASSUME Init PROVE TypeInv
    OBVIOUS
<1>1. exits \in 0..3
    BY DEF Init
<1>2. ControlType
    BY <1>1, Zenon DEF Init, ControlType, Phases
<1>3. InputType
    BY Zenon DEF Init, InputType
<1>4. FieldType
    BY DEF Init, FieldType, Pos, Named
<1>5. reset_timer \in -1..ResetTicks
    BY FramesAssumption DEF Init
<1>6. PlayType
    BY <1>5, Zenon DEF Init, PlayType
<1>7. NoProfile \in [valid : BOOLEAN, left : 0..LegFrames, end : Pos]
    BY FramesAssumption DEF NoProfile, Pos
<1>8. MotionType
    BY <1>7 DEF Init, MotionType, ProfileType
<1>9. /\ kick \in [Team1 -> Levels] /\ charge \in [Team1 -> Levels]
      /\ dribbler \in [Team1 -> Levels] /\ robot_cmds \in [Robots -> Commands]
    BY GarbageAssumption, NoCommandType DEF Init, Levels
<1>10. SignalType
    BY <1>9, Zenon DEF Init, SignalType
<1>11. ExitInv /\ LifeInv
    BY DEF Init, ExitInv, LifeInv, DeletedOnce
<1> QED
    BY <1>2, <1>3, <1>4, <1>6, <1>8, <1>10, <1>11 DEF TypeInv

\* All variables of the main loop keep their types, for every set of keys: a
\* key counts as processed only while it is down, the timer stays between -1
\* and its full length, and every command has the fields of a command.
THEOREM TypeCorrect == Spec => []TypeOK
BY TypeInvInitially, TypeInvInductive, TypeInvGivesTypeOK, PTL DEF Spec
=============================================================================
