---------------------------- MODULE ArmController ----------------------------
(***************************************************************************)
(* The arm controllers of control/robots/unitree/arm.py with the session's *)
(* loop that commands them and the joints they command.  One thread copies *)
(* the robot's low state into lowstate_buffer, one publishes a command     *)
(* every 4 ms; both start in the constructor.  IkPipeline follows a        *)
(* request through the IK worker and the message through its checksum;     *)
(* here the subject is where the joints are, so a position is an integer   *)
(* (home is 0) and a step of the solver is one action.                     *)
(***************************************************************************)
EXTENDS Integers, FiniteSetsExt

CONSTANTS Robots,        \* registered robots to consider
          Watched,       \* the entries of the arm array that are followed
          Positions,     \* the positions a joint may be asked for
          SlowStep,      \* most a command moves a joint at 20 rad/s,
          FastStep,      \* and at the 30 rad/s of speed_gradual_max
          MaxTargets,    \* bound: targets the session sets
          MaxAttempts    \* bound: looks of ctrl_dual_arm_go_home (100)

ASSUME ArmAssumption ==
    /\ Robots \subseteq {"G1_29", "G1_23", "H1_2", "H1"}
    /\ Watched # {} /\ Watched \subseteq 1..8
    /\ Positions \subseteq Int /\ 0 \in Positions
    /\ MaxTargets \in Nat \ {0} /\ MaxAttempts \in Nat \ {0}
    /\ SlowStep \in Nat \ {0} /\ FastStep \in Nat /\ SlowStep <= FastStep

VARIABLES
    robot, motion_mode, simulation_mode,
    position,         \* motor |-> where the robot's joint is
    lowstate,         \* lowstate_buffer
    q_target,         \* arm entry |-> target
    tauff_target,     \* "zero", or "solved": the torque of a solution
    limit,            \* most a command moves a joint
    speed_gradual,    \* the limit is growing
    publisher,        \* "target", "measure" or "write"
    taken,            \* the targets it copied under the lock
    measured,         \* the joints it has read so far
    sent,             \* motor |-> last command published
    weight,           \* 1 the arm_sdk commands apply, 0 they do not
    phase,            \* of the session: "setup", "read", "solve", "look",
                      \* "ended"
    reading,          \* the joints its loop read
    attempts,
    targets,          \* targets set, up to MaxTargets
    asked             \* motor |-> where it was at first, and its targets

robotVars  == <<robot, motion_mode, simulation_mode>>
bodyVars   == <<position, lowstate>>
targetVars == <<q_target, tauff_target, asked, targets>>
speedVars  == <<limit, speed_gradual>>
pubVars    == <<publisher, taken, measured, sent>>
armVars    == <<robot, motion_mode, simulation_mode, position,
                lowstate, q_target, tauff_target, asked, targets, limit,
                speed_gradual, publisher, taken, measured, sent, weight,
                phase, reading, attempts>>

-----------------------------------------------------------------------------
(* The arm entries in the order of the targets: left arm, then right arm.   *)

G1_29_JointArmIndex == [i \in 1..14 |-> 14 + i]
G1_23_JointArmIndex == [i \in 1..10 |-> IF i <= 5 THEN 14 + i ELSE 16 + i]
H1_2_JointArmIndex  == [i \in 1..14 |-> 12 + i]
\* The H1's motors are numbered right arm first.
H1_JointArmIndex    == [i \in 1..8  |-> IF i <= 4 THEN 15 + i ELSE 7 + i]

ArmIndex == CASE robot = "G1_29" -> G1_29_JointArmIndex
              [] robot = "G1_23" -> G1_23_JointArmIndex
              [] robot = "H1_2"  -> H1_2_JointArmIndex
              [] robot = "H1"    -> H1_JointArmIndex

Motors == {ArmIndex[i] : i \in Watched}
Size(n) == IF n < 0 THEN -n ELSE n
Zeros == [i \in Watched |-> 0]

\* The constructor returns, both threads run: the buffer holds a state, the
\* targets are zero, and nothing was published yet.
ArmInit ==
    /\ robot \in Robots
    /\ motion_mode \in BOOLEAN /\ simulation_mode \in BOOLEAN
    /\ robot = "H1" => ~motion_mode
    /\ position \in [Motors -> Positions]
    /\ lowstate = position
    /\ asked = [m \in Motors |-> {0, position[m]}]
    /\ q_target = Zeros /\ tauff_target = "zero" /\ targets = 0
    /\ limit = SlowStep /\ speed_gradual = FALSE
    /\ publisher = "target" /\ taken = q_target
    /\ measured = <<>> /\ sent = <<>>
    /\ weight = IF motion_mode THEN 1 ELSE 0
    /\ phase = "setup" /\ reading = Zeros /\ attempts = 0

-----------------------------------------------------------------------------
(* The robot, and the thread that listens to it.                            *)

\* A joint moves from where it is toward the last command, as far as it gets;
\* in motion mode only while the arms are the commands' to move.
Between(a, b) == IF a <= b THEN a..b ELSE b..a

JointsMove ==
    /\ sent # <<>> /\ (motion_mode => weight = 1)
    /\ \E m \in Motors :
         \E q \in Between(position[m], sent[m]) \ {position[m]} :
            position' = [position EXCEPT ![m] = q]
    /\ UNCHANGED <<robotVars, lowstate, targetVars, speedVars, pubVars, weight,
                   phase, reading, attempts>>

\* The state the subscribe thread stores is the newest it got; how long it
\* takes to come is not bounded.
subscribe_motor_state ==
    /\ lowstate # position
    /\ lowstate' = position
    /\ UNCHANGED <<robotVars, position, targetVars, speedVars, pubVars, weight,
                   phase, reading, attempts>>

-----------------------------------------------------------------------------
(* The publish thread.                                                      *)

TakeTargets ==
    /\ publisher = "target" /\ publisher' = "measure"
    /\ taken' = q_target /\ measured' = <<>>
    /\ UNCHANGED <<robotVars, bodyVars, targetVars, speedVars, sent, weight,
                   phase, reading, attempts>>

\* get_current_dual_arm_q takes the buffer anew for every joint, so the
\* joints may come of several states.  A simulated robot is not clipped.
MeasureJoint ==
    /\ publisher = "measure" /\ ~simulation_mode
    /\ LET left == Watched \ DOMAIN measured
           i    == Min(left)
       IN  /\ measured' = [j \in DOMAIN measured \union {i} |->
                             IF j = i THEN lowstate[ArmIndex[i]]
                             ELSE measured[j]]
           /\ publisher' = IF left = {i} THEN "write" ELSE "measure"
    /\ UNCHANGED <<robotVars, bodyVars, targetVars, speedVars, taken, sent,
                   weight, phase, reading, attempts>>

\* Mutant: a short way is stretched to a full step.
clip_arm_q_target_scaled(target, current) ==
    LET delta == [i \in Watched |-> target[i] - current[i]]
        most  == Max({Size(delta[i]) : i \in Watched})
        Part(d) == IF d = 0 THEN 0
                   ELSE IF d < 0 THEN -((-d * limit) \div most)
                   ELSE (d * limit) \div most
    IN  [i \in Watched |-> current[i] + Part(delta[i])]

\* All joints are slowed alike: the one with the longest way makes a full
\* step.  A fraction of a unit is cut off.
clip_arm_q_target(target, current) ==
    LET delta == [i \in Watched |-> target[i] - current[i]]
        most  == Max({Size(delta[i]) : i \in Watched} \union {limit})
        Part(d) == IF d < 0 THEN -((-d * limit) \div most)
                   ELSE (d * limit) \div most
    IN  [i \in Watched |-> current[i] + Part(delta[i])]

\* The command is filled in and published; its torque is the one copied with
\* the target under the lock, and nothing here depends on it.
ctrl_motor_state ==
    /\ \/ publisher = "write" /\ ~simulation_mode
       \/ publisher = "measure" /\ simulation_mode
    /\ publisher' = "target"
    /\ LET command == IF simulation_mode THEN taken
                      ELSE clip_arm_q_target(taken, measured)
       IN  sent' = [m \in Motors |->
                      LET i == CHOOSE i \in Watched : ArmIndex[i] = m
                      IN  command[i]]
    /\ taken' = Zeros /\ measured' = <<>>
    /\ UNCHANGED <<robotVars, bodyVars, targetVars, speedVars, weight,
                   phase, reading, attempts>>

\* speed_gradual_max: over five seconds the limit grows; two values of it.
SpeedGrows ==
    /\ speed_gradual /\ limit < FastStep
    /\ limit' = FastStep
    /\ UNCHANGED <<speed_gradual, robotVars, bodyVars, targetVars, pubVars,
                   weight, phase, reading, attempts>>

-----------------------------------------------------------------------------
(* The session's process.                                                   *)

\* The session's looks at the joints are one step: of the several states they
\* may come from, too, nothing else depends on here.
Joints == [i \in Watched |-> lowstate[ArmIndex[i]]]

start_tracking ==
    /\ phase = "setup" /\ phase' = "read"
    /\ speed_gradual' = TRUE
    /\ UNCHANGED <<robotVars, bodyVars, targetVars, limit, pubVars, weight,
                   reading, attempts>>

ReadJoints ==
    /\ phase = "read" /\ phase' = "solve"
    /\ reading' = Joints
    /\ UNCHANGED <<robotVars, bodyVars, targetVars, speedVars, pubVars, weight,
                   attempts>>

\* ctrl_dual_arm, under the lock.
SetTargets(q, tau) ==
    /\ targets < MaxTargets /\ targets' = targets + 1
    /\ q_target' = q /\ tauff_target' = tau
    /\ asked' = [m \in Motors |-> asked[m] \union
                   {q[i] : i \in {i \in Watched : ArmIndex[i] = m}}]

\* A solution may ask for any position within the joints' limits, and its
\* torque carries that position.
SolvedTarget ==
    /\ phase = "solve" /\ phase' = "read"
    /\ \E q \in [Watched -> Positions] : SetTargets(q, "solved")
    /\ reading' = Zeros
    /\ UNCHANGED <<robotVars, bodyVars, speedVars, pubVars, weight, attempts>>

\* When the solver fails it holds the joints it was given, without torque.
SolveFailsHolds ==
    /\ phase = "solve" /\ phase' = "read"
    /\ SetTargets(reading, "zero")
    /\ reading' = Zeros
    /\ UNCHANGED <<robotVars, bodyVars, speedVars, pubVars, weight, attempts>>

\* The torque stays what the last solution gave.
ctrl_dual_arm_go_home ==
    /\ phase \in {"setup", "read", "solve"} /\ phase' = "look"
    /\ q_target' = Zeros /\ attempts' = 0 /\ reading' = Zeros
    /\ UNCHANGED <<robotVars, bodyVars, tauff_target, asked, targets,
                   speedVars, pubVars, weight>>

\* Not home, look again after 50 ms; after the last look give up and end.
LooksAgain ==
    /\ phase = "look" /\ Joints # Zeros
    /\ attempts' = attempts + 1
    /\ phase' = IF attempts' = MaxAttempts THEN "ended" ELSE "look"
    /\ UNCHANGED <<robotVars, bodyVars, targetVars, speedVars, pubVars, weight,
                   reading>>

\* Home: in motion mode the arms are handed back to the robot.
HandsBack ==
    /\ phase = "look" /\ Joints = Zeros
    /\ phase' = "ended" /\ weight' = 0
    /\ UNCHANGED <<robotVars, bodyVars, targetVars, speedVars, pubVars,
                   reading, attempts>>

-----------------------------------------------------------------------------
Body == JointsMove \/ subscribe_motor_state
Publisher == TakeTargets \/ MeasureJoint \/ ctrl_motor_state
Session == ReadJoints \/ SolvedTarget \/ SolveFailsHolds \/ LooksAgain
           \/ HandsBack

ArmNext == Body \/ Publisher \/ SpeedGrows \/ start_tracking \/ Session
           \/ ctrl_dual_arm_go_home

ArmSpec == ArmInit /\ [][ArmNext]_armVars

\* However old the states are that a command is computed from, and wherever
\* the joints of one command were measured, a joint never leaves the span of
\* the positions it was at or asked for: slowing a command down (the scale is
\* shared by the joints) never turns it round, speeds it up or hands it to
\* the motor of another joint.
NoOvershoot ==
    \A m \in Motors : position[m] \in Min(asked[m])..Max(asked[m])
=============================================================================
