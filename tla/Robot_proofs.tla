---------------------------- MODULE Robot_proofs ----------------------------
(***************************************************************************)
(* What TLAPS proves of ArmController and EpisodeRecorder.  For any of the *)
(* robots and their joints, any positions, any step of a command and any   *)
(* number of targets: a joint never leaves the span of where it was and    *)
(* where it was asked to go.  For any number of episodes, items and items  *)
(* that cannot be written: the file of an episode that is closed is whole. *)
(***************************************************************************)
EXTENDS EpisodeRecorder, ArmController, TLAPS

-----------------------------------------------------------------------------
(* Extremes of sets of integers.  A set grows by an element at a time.     *)
Bounded(S) == /\ \E a \in S : \A x \in S : a <= x
              /\ \E b \in S : \A x \in S : x <= b

LEMMA Extremes ==
  ASSUME NEW S \in SUBSET Int, Bounded(S)
  PROVE  /\ Min(S) \in S /\ \A x \in S : Min(S) <= x
         /\ Max(S) \in S /\ \A x \in S : x <= Max(S)
<1>1. Min(S) \in S /\ \A x \in S : Min(S) <= x
  BY DEF Bounded, Min
<1>2. Max(S) \in S /\ \A x \in S : Max(S) >= x
  BY DEF Bounded, Max
<1> QED BY <1>1, <1>2

LEMMA BoundedGrows ==
  ASSUME NEW S \in SUBSET Int, Bounded(S), NEW T \in SUBSET Int,
         \A x, y \in T : x = y
  PROVE  Bounded(S \union T)
<1>1. CASE T = {}
  BY <1>1
<1>2. ASSUME NEW t \in T PROVE Bounded(S \union T)
  <2>1. S \union T = S \union {t}
    OBVIOUS
  <2>2. PICK a \in S : \A x \in S : a <= x
    BY DEF Bounded
  <2>3. PICK b \in S : \A x \in S : x <= b
    BY DEF Bounded
  <2>4. \E c \in S \union {t} : \A x \in S \union {t} : c <= x
    BY <2>2
  <2>5. \E c \in S \union {t} : \A x \in S \union {t} : x <= c
    BY <2>3
  <2> QED BY <2>1, <2>4, <2>5 DEF Bounded
<1> QED BY <1>1, <1>2

(* The values of a function on the joints that are followed, of which there *)
(* are at most eight.                                                       *)
LEMMA ValuesBounded ==
  ASSUME NEW f \in [Watched -> Int], NEW c \in Int
  PROVE  Bounded({f[i] : i \in Watched} \union {c})
<1> DEFINE V(n) == {f[i] : i \in {j \in Watched : j <= n}} \union {c}
<1>1. Bounded(V(0)) /\ V(0) \in SUBSET Int
  BY ArmAssumption DEF Bounded
<1>2. ASSUME NEW n \in 0..7, Bounded(V(n))
      PROVE  Bounded(V(n + 1))
  <2> DEFINE T == {f[i] : i \in {j \in Watched : j = n + 1}}
  <2>1. V(n + 1) = V(n) \union T
    BY ArmAssumption
  <2>2. V(n) \in SUBSET Int /\ T \in SUBSET Int /\ \A x, y \in T : x = y
    OBVIOUS
  <2> QED BY <1>2, <2>1, <2>2, BoundedGrows
<1>3. V(8) = {f[i] : i \in Watched} \union {c}
  BY ArmAssumption
<1> HIDE DEF V
<1> QED BY <1>1, <1>2, <1>3

(* A part of a way is no longer than the way.                               *)
LEMMA PartOfWay ==
  ASSUME NEW d \in Nat, NEW l \in Nat, NEW m \in Nat \ {0}, l <= m
  PROVE  (d * l) \div m \in 0..d
<1>1. d * l \in Nat /\ d * m \in Nat /\ d * l <= d * m
  OBVIOUS
<1>2. (d * l) \div m \in Nat
  BY <1>1
<1>3. m * ((d * l) \div m) <= d * l
  BY <1>1
<1>4. m * ((d * l) \div m) <= m * d
  BY <1>1, <1>3, <1>2
<1>5. (d * l) \div m <= d
  BY <1>4, <1>2
<1> QED BY <1>2, <1>5

-----------------------------------------------------------------------------
(* Every joint is numbered once.                                           *)
LEMMA OneMotorEach ==
  ASSUME robot \in Robots
  PROVE  /\ Motors # {}
         /\ \A i \in Watched : ArmIndex[i] \in Motors
         /\ \A i, j \in Watched : ArmIndex[i] = ArmIndex[j] => i = j
<1>1. Motors # {} /\ \A i \in Watched : ArmIndex[i] \in Motors
  BY ArmAssumption DEF Motors
<1>2. ASSUME NEW i \in Watched, NEW j \in Watched, ArmIndex[i] = ArmIndex[j]
      PROVE  i = j
  <2>0. i \in 1..8 /\ j \in 1..8
    BY ArmAssumption
  <2>1. CASE robot = "G1_29"
    BY <2>0, <2>1, <1>2 DEF ArmIndex, G1_29_JointArmIndex
  <2>2. CASE robot = "G1_23"
    BY <2>0, <2>2, <1>2 DEF ArmIndex, G1_23_JointArmIndex
  <2>3. CASE robot = "H1_2"
    BY <2>0, <2>3, <1>2 DEF ArmIndex, H1_2_JointArmIndex
  <2>4. CASE robot = "H1"
    BY <2>0, <2>4, <1>2 DEF ArmIndex, H1_JointArmIndex
  <2> QED BY <2>1, <2>2, <2>3, <2>4, ArmAssumption
<1> QED BY <1>1, <1>2

(* A clipped command is between the joint and its target.                   *)
LEMMA ClippedBetween ==
  ASSUME NEW target \in [Watched -> Int], NEW current \in [Watched -> Int],
         limit \in Nat \ {0}, NEW i \in Watched
  PROVE  LET q == clip_arm_q_target(target, current)[i]
         IN  /\ q \in Int
             /\ \/ current[i] <= q /\ q <= target[i]
                \/ target[i] <= q /\ q <= current[i]
<1> DEFINE delta == [j \in Watched |-> target[j] - current[j]]
           sizes == [j \in Watched |-> Size(delta[j])]
           most  == Max({Size(delta[j]) : j \in Watched} \union {limit})
           Part(d) == IF d < 0 THEN -((-d * limit) \div most)
                      ELSE (d * limit) \div most
           d == delta[i]
<1>1. delta \in [Watched -> Int] /\ sizes \in [Watched -> Int]
  BY DEF Size
<1>2. /\ most \in Nat \ {0} /\ limit <= most
      /\ \A j \in Watched : Size(delta[j]) <= most
  <2>1. {Size(delta[j]) : j \in Watched} = {sizes[j] : j \in Watched}
    OBVIOUS
  <2> DEFINE S == {sizes[j] : j \in Watched} \union {limit}
  <2>2. most = Max(S)
    BY <2>1
  <2>3. limit \in S /\ \A j \in Watched : Size(delta[j]) \in S
    BY <2>1
  <2> HIDE DEF most, delta, sizes
  <2>4. limit \in Int
    OBVIOUS
  <2>5. Bounded(S) /\ S \in SUBSET Int
    BY <1>1, <2>4, ValuesBounded
  <2> HIDE DEF S
  <2>6. most \in S /\ \A x \in S : x <= most
    BY <2>2, <2>5, Extremes
  <2>7. most \in Int /\ limit <= most
    BY <2>3, <2>5, <2>6
  <2>8. \A j \in Watched : Size(delta[j]) <= most
    BY <2>3, <2>6
  <2> QED BY <2>7, <2>8
<1>3. d \in Int /\ d = target[i] - current[i]
  BY <1>1
<1>4. clip_arm_q_target(target, current)[i] = current[i] + Part(d)
  BY DEF clip_arm_q_target
<1> HIDE DEF most, delta, sizes, d
<1>5. CASE d < 0
  <2>1. -d \in Nat /\ -d * limit = (-d) * limit
    BY <1>3, <1>5
  <2>2. ((-d) * limit) \div most \in 0..-d
    BY <2>1, <1>2, PartOfWay
  <2>3. Part(d) = -(((-d) * limit) \div most)
    BY <1>5, <2>1
  <2> QED BY <1>3, <1>4, <1>5, <2>1, <2>2, <2>3
<1>6. CASE ~(d < 0)
  <2>1. d \in Nat
    BY <1>3, <1>6
  <2>2. (d * limit) \div most \in 0..d
    BY <2>1, <1>2, PartOfWay
  <2>3. Part(d) = (d * limit) \div most
    BY <1>6
  <2> QED BY <1>3, <1>4, <1>6, <2>1, <2>2, <2>3
<1> QED BY <1>5, <1>6

ArmTypeOK ==
    /\ robot \in Robots
    /\ motion_mode \in BOOLEAN /\ simulation_mode \in BOOLEAN
    /\ position \in [Motors -> Int] /\ lowstate \in [Motors -> Int]
    /\ asked \in [Motors -> SUBSET Int]
    /\ q_target \in [Watched -> Int] /\ taken \in [Watched -> Int]
    /\ reading \in [Watched -> Int]
    /\ limit \in {SlowStep, FastStep} /\ speed_gradual \in BOOLEAN
    /\ publisher \in {"target", "measure", "write"}
    /\ DOMAIN measured \subseteq Watched
    /\ measured \in [DOMAIN measured -> Int]
    /\ sent # <<>> => sent \in [Motors -> Int]
    /\ weight \in {0, 1}
    /\ phase \in {"setup", "read", "solve", "look", "ended"}
    /\ attempts \in Nat /\ targets \in 0..MaxTargets

(* A motor's place is between two positions it was at or asked for.         *)
Spanned(x, m) == \E a, b \in asked[m] : a <= x /\ x <= b

(* Every copy of a place or of a target is in the span of its own motor,    *)
(* and the publisher writes only when it has measured every joint.          *)
InSpan ==
    /\ \A m \in Motors :
          /\ 0 \in asked[m] /\ Bounded(asked[m])
          /\ Spanned(position[m], m) /\ Spanned(lowstate[m], m)
          /\ sent # <<>> => Spanned(sent[m], m)
    /\ \A i \in Watched :
          /\ Spanned(q_target[i], ArmIndex[i])
          /\ Spanned(taken[i], ArmIndex[i])
          /\ Spanned(reading[i], ArmIndex[i])
    /\ \A i \in DOMAIN measured : Spanned(measured[i], ArmIndex[i])
    /\ publisher = "measure" => DOMAIN measured # Watched
    /\ publisher = "write" => DOMAIN measured = Watched

-----------------------------------------------------------------------------
(* The next joint to measure.                                              *)
LEMMA NextJoint ==
  ASSUME NEW left \in SUBSET Watched, left # {}
  PROVE  Min(left) \in left
<1>1. left \in SUBSET Int
  BY ArmAssumption
<1>2. PICK c \in left : TRUE
  OBVIOUS
<1> DEFINE f == [i \in Watched |-> IF i \in left THEN i ELSE c]
<1>3. f \in [Watched -> Int] /\ left = {f[i] : i \in Watched} \union {c}
  BY <1>1, <1>2
<1>4. c \in Int
  BY <1>1, <1>2
<1> HIDE DEF f
<1>5. Bounded({f[i] : i \in Watched} \union {c})
  BY <1>3, <1>4, ValuesBounded
<1>6. Bounded(left)
  BY <1>3, <1>5
<1> QED BY <1>1, <1>6, Extremes

(* The robot stays the same.                                               *)
LEMMA SameRobot ==
  ASSUME [ArmNext]_armVars
  PROVE  /\ UNCHANGED robotVars /\ ArmIndex' = ArmIndex /\ Motors' = Motors
<1>1. UNCHANGED robotVars
  BY DEF ArmNext, Body, Publisher, Session, JointsMove, subscribe_motor_state,
     TakeTargets, MeasureJoint, ctrl_motor_state, SpeedGrows, start_tracking,
     ReadJoints, SolvedTarget, SolveFailsHolds, ctrl_dual_arm_go_home,
     LooksAgain, HandsBack, armVars, robotVars
<1> QED BY <1>1 DEF robotVars, ArmIndex, Motors

LEMMA ArmInitTyped == ArmInit => ArmTypeOK
<1> SUFFICES ASSUME ArmInit PROVE ArmTypeOK
  OBVIOUS
<1>1. position \in [Motors -> Int] /\ asked \in [Motors -> SUBSET Int]
  BY ArmAssumption DEF ArmInit
<1>2. Zeros \in [Watched -> Int]
  BY DEF Zeros
<1>3. DOMAIN measured = {} /\ measured \in [DOMAIN measured -> Int]
  BY DEF ArmInit
<1>4. taken = Zeros /\ q_target = Zeros /\ reading = Zeros
      /\ lowstate = position /\ sent = <<>>
  BY DEF ArmInit
<1>5. targets \in 0..MaxTargets /\ limit \in {SlowStep, FastStep}
  BY ArmAssumption DEF ArmInit
<1> QED BY <1>1, <1>2, <1>3, <1>4, <1>5 DEF ArmInit, ArmTypeOK

(* What is published is in the span, clipped or not.                        *)
LEMMA CommandSpanned ==
  ASSUME ArmTypeOK, InSpan, ctrl_motor_state
  PROVE  /\ sent' \in [Motors -> Int]
         /\ \A m \in Motors : Spanned(sent'[m], m)
<1> DEFINE command == IF simulation_mode THEN taken
                      ELSE clip_arm_q_target(taken, measured)
           Entry(m) == CHOOSE i \in Watched : ArmIndex[i] = m
<1>1. sent' = [m \in Motors |-> command[Entry(m)]]
  BY DEF ctrl_motor_state
<1>2. ASSUME NEW i \in Watched
      PROVE  command[i] \in Int /\ Spanned(command[i], ArmIndex[i])
  <2>1. /\ taken[i] \in Int /\ Spanned(taken[i], ArmIndex[i])
        /\ taken \in [Watched -> Int] /\ ArmIndex[i] \in Motors
        /\ asked[ArmIndex[i]] \in SUBSET Int
    BY OneMotorEach DEF ArmTypeOK, InSpan
  <2>2. CASE simulation_mode
    BY <2>1, <2>2
  <2>3. CASE ~simulation_mode
    <3>1. measured \in [Watched -> Int]
      BY <2>3 DEF ctrl_motor_state, ArmTypeOK, InSpan
    <3>2. Spanned(measured[i], ArmIndex[i])
      BY <3>1 DEF InSpan
    <3>3. limit \in Nat \ {0}
      BY ArmAssumption DEF ArmTypeOK
    <3> DEFINE q == clip_arm_q_target(taken, measured)[i]
    <3>4. /\ q \in Int
          /\ \/ measured[i] <= q /\ q <= taken[i]
             \/ taken[i] <= q /\ q <= measured[i]
      BY <2>1, <3>1, <3>3, ClippedBetween
    <3>5. measured[i] \in Int
      BY <3>1
    <3> HIDE DEF q
    <3>6. Spanned(q, ArmIndex[i])
      BY <2>1, <3>2, <3>4, <3>5 DEF Spanned
    <3>7. command[i] = q
      BY <2>3 DEF q
    <3> QED BY <3>4, <3>6, <3>7
  <2> QED BY <2>2, <2>3
<1>3. ASSUME NEW m \in Motors
      PROVE  Entry(m) \in Watched /\ ArmIndex[Entry(m)] = m
  BY DEF Motors
<1> HIDE DEF command, Entry
<1> QED BY <1>1, <1>2, <1>3

LEMMA ArmStepTyped ==
  ArmTypeOK /\ InSpan /\ [ArmNext]_armVars => ArmTypeOK'
<1> SUFFICES ASSUME ArmTypeOK, InSpan, [ArmNext]_armVars
             PROVE  ArmTypeOK'
  OBVIOUS
<1>0. /\ robot' = robot /\ Motors' = Motors /\ ArmIndex' = ArmIndex
      /\ UNCHANGED <<motion_mode, simulation_mode>>
      /\ \A i \in Watched : ArmIndex[i] \in Motors
      /\ Zeros \in [Watched -> Int]
  BY SameRobot, OneMotorEach DEF robotVars, ArmTypeOK, Zeros
<1> USE DEF ArmTypeOK, bodyVars, targetVars, speedVars, pubVars
<1>1. CASE JointsMove
  <2>1. position' \in [Motors -> Int]
    BY <1>0, <1>1 DEF JointsMove, Between
  <2> QED BY <1>0, <1>1, <2>1 DEF JointsMove
<1>2. CASE subscribe_motor_state
  BY <1>0, <1>2 DEF subscribe_motor_state
<1>3. CASE TakeTargets
  <2>1. DOMAIN measured' = {} /\ measured' \in [DOMAIN measured' -> Int]
    BY <1>3 DEF TakeTargets
  <2> QED BY <1>0, <1>3, <2>1 DEF TakeTargets
<1>4. CASE MeasureJoint
  <2> DEFINE i == Min(Watched \ DOMAIN measured)
  <2>1. i \in Watched
    <3>1. DOMAIN measured # Watched /\ DOMAIN measured \subseteq Watched
      BY <1>4 DEF MeasureJoint, InSpan
    <3>2. /\ Watched \ DOMAIN measured \in SUBSET Watched
          /\ Watched \ DOMAIN measured # {}
      BY <3>1
    <3> QED BY <3>2, NextJoint
  <2>2. lowstate[ArmIndex[i]] \in Int
    BY <1>0, <2>1
  <2>3. /\ DOMAIN measured' = DOMAIN measured \union {i}
        /\ measured' \in [DOMAIN measured' -> Int]
    BY <1>4, <2>2 DEF MeasureJoint
  <2>4. publisher' \in {"measure", "write"}
    BY <1>4 DEF MeasureJoint
  <2> QED BY <1>0, <1>4, <2>1, <2>3, <2>4 DEF MeasureJoint
<1>5. CASE ctrl_motor_state
  <2>1. DOMAIN measured' = {} /\ measured' \in [DOMAIN measured' -> Int]
    BY <1>5 DEF ctrl_motor_state
  <2>2. sent' \in [Motors -> Int]
    BY <1>5, CommandSpanned
  <2> QED BY <1>0, <1>5, <2>1, <2>2 DEF ctrl_motor_state
<1>6. CASE SpeedGrows
  BY <1>0, <1>6 DEF SpeedGrows
<1>7. CASE start_tracking
  BY <1>0, <1>7 DEF start_tracking
<1>8. CASE ReadJoints
  BY <1>0, <1>8 DEF ReadJoints, Joints
<1>9. CASE SolvedTarget
  <2>1. /\ q_target' \in [Watched -> Int] /\ targets' \in 0..MaxTargets
        /\ asked' \in [Motors -> SUBSET Int]
    BY <1>0, <1>9, ArmAssumption DEF SolvedTarget, SetTargets
  <2> QED BY <1>0, <1>9, <2>1 DEF SolvedTarget
<1>10. CASE SolveFailsHolds
  <2>1. /\ q_target' \in [Watched -> Int] /\ targets' \in 0..MaxTargets
        /\ asked' \in [Motors -> SUBSET Int]
    BY <1>0, <1>10, ArmAssumption DEF SolveFailsHolds, SetTargets
  <2> QED BY <1>0, <1>10, <2>1 DEF SolveFailsHolds
<1>11. CASE ctrl_dual_arm_go_home
  BY <1>0, <1>11, ArmAssumption DEF ctrl_dual_arm_go_home
<1>12. CASE LooksAgain
  BY <1>0, <1>12, ArmAssumption DEF LooksAgain
<1>13. CASE HandsBack
  BY <1>0, <1>13 DEF HandsBack
<1>14. CASE UNCHANGED armVars
  BY <1>0, <1>14 DEF armVars
<1> QED
  BY <1>1, <1>2, <1>3, <1>4, <1>5, <1>6, <1>7, <1>8, <1>9, <1>10, <1>11,
     <1>12, <1>13, <1>14
  DEF ArmNext, Body, Publisher, Session

-----------------------------------------------------------------------------
(* Everything stays in the span.                                           *)
LEMMA InitSpanned == ArmInit => InSpan
<1> SUFFICES ASSUME ArmInit PROVE InSpan
  OBVIOUS
<1>1. /\ robot \in Robots
      /\ asked = [m \in Motors |-> {0, position[m]}]
      /\ lowstate = position /\ sent = <<>> /\ DOMAIN measured = {}
      /\ publisher = "target"
      /\ taken = Zeros /\ q_target = Zeros /\ reading = Zeros
  BY DEF ArmInit
<1>4. position \in [Motors -> Int]
  BY ArmAssumption DEF ArmInit
<1>2. ASSUME NEW m \in Motors
      PROVE  /\ 0 \in asked[m] /\ Bounded(asked[m])
             /\ Spanned(position[m], m) /\ Spanned(0, m)
  <2>1. asked[m] = {0, position[m]} /\ position[m] \in Int
    BY <1>1, <1>4
  <2>2. CASE position[m] <= 0
    BY <2>1, <2>2 DEF Bounded, Spanned
  <2>3. CASE position[m] >= 0
    BY <2>1, <2>3 DEF Bounded, Spanned
  <2> QED BY <2>1, <2>2, <2>3
<1>3. \A i \in Watched : Zeros[i] = 0 /\ ArmIndex[i] \in Motors
  BY <1>1, OneMotorEach DEF Zeros
<1> QED BY <1>1, <1>2, <1>3 DEF InSpan

(* A motor that is asked for another position.                              *)
LEMMA AskedGrows ==
  ASSUME ArmTypeOK, InSpan, [ArmNext]_armVars, NEW q \in [Watched -> Int],
         asked' = [m \in Motors |-> asked[m] \union
                     {q[i] : i \in {i \in Watched : ArmIndex[i] = m}}]
  PROVE  /\ \A m \in Motors :
               /\ 0 \in asked'[m] /\ Bounded(asked'[m])
               /\ \A x : Spanned(x, m) => \E a, b \in asked'[m] : a <= x /\ x <= b
         /\ \A i \in Watched : q[i] \in asked'[ArmIndex[i]]
<1>1. ASSUME NEW m \in Motors
      PROVE  0 \in asked'[m] /\ Bounded(asked'[m])
  <2> DEFINE T == {q[i] : i \in {i \in Watched : ArmIndex[i] = m}}
  <2>1. asked'[m] = asked[m] \union T
    OBVIOUS
  <2>2. /\ asked[m] \in SUBSET Int /\ Bounded(asked[m]) /\ 0 \in asked[m]
        /\ T \in SUBSET Int
    BY DEF ArmTypeOK, InSpan
  <2>3. \A x, y \in T : x = y
    BY OneMotorEach DEF ArmTypeOK
  <2> HIDE DEF T
  <2> QED BY <2>1, <2>2, <2>3, BoundedGrows
<1>2. \A m \in Motors : asked[m] \subseteq asked'[m]
  OBVIOUS
<1>3. \A i \in Watched : q[i] \in asked'[ArmIndex[i]]
  BY OneMotorEach DEF ArmTypeOK
<1> QED BY <1>1, <1>2, <1>3 DEF Spanned

LEMMA StepSpanned ==
  ArmTypeOK /\ InSpan /\ [ArmNext]_armVars => InSpan'
<1> SUFFICES ASSUME ArmTypeOK, InSpan, [ArmNext]_armVars
             PROVE  InSpan'
  OBVIOUS
<1>0. /\ Motors' = Motors /\ ArmIndex' = ArmIndex
      /\ \A i \in Watched : ArmIndex[i] \in Motors /\ Zeros[i] = 0
      /\ \A m \in Motors : asked[m] \in SUBSET Int
  BY SameRobot, OneMotorEach DEF ArmTypeOK, Zeros
<1>z. \A m \in Motors : Spanned(0, m)
  BY DEF InSpan, Spanned
<1> USE DEF bodyVars, targetVars, speedVars, pubVars
<1>1. CASE JointsMove
  <2>1. PICK m \in Motors :
           \E q \in Between(position[m], sent[m]) :
              position' = [position EXCEPT ![m] = q]
    BY <1>1 DEF JointsMove
  <2>2. PICK q \in Between(position[m], sent[m]) :
           position' = [position EXCEPT ![m] = q]
    BY <2>1
  <2>3. /\ Spanned(position[m], m) /\ Spanned(sent[m], m)
        /\ position[m] \in Int /\ sent[m] \in Int
    BY <1>1 DEF JointsMove, InSpan, ArmTypeOK
  <2>4. Spanned(q, m)
    BY <1>0, <2>2, <2>3 DEF Between, Spanned
  <2>5. \A n \in Motors : Spanned(position'[n], n)
    BY <2>2, <2>4 DEF InSpan, ArmTypeOK
  <2>6. UNCHANGED <<asked, lowstate, sent, q_target, taken, reading, measured,
                    publisher>>
    BY <1>1 DEF JointsMove
  <2> QED BY <1>0, <2>5, <2>6 DEF InSpan, Spanned
<1>2. CASE subscribe_motor_state
  BY <1>0, <1>2 DEF subscribe_motor_state, InSpan, Spanned
<1>3. CASE TakeTargets
  <2>1. /\ DOMAIN measured' = {} /\ publisher' = "measure"
        /\ taken' = q_target
        /\ UNCHANGED <<asked, position, lowstate, sent, q_target, reading>>
    BY <1>3 DEF TakeTargets
  <2> QED BY <1>0, <2>1, ArmAssumption DEF InSpan, Spanned
<1>4. CASE MeasureJoint
  <2> DEFINE i == Min(Watched \ DOMAIN measured)
  <2>1. /\ DOMAIN measured # Watched /\ DOMAIN measured \subseteq Watched
        /\ publisher = "measure"
    BY <1>4 DEF MeasureJoint, InSpan, ArmTypeOK
  <2>2. /\ Watched \ DOMAIN measured \in SUBSET Watched
        /\ Watched \ DOMAIN measured # {}
    BY <2>1
  <2>3. i \in Watched \ DOMAIN measured
    BY <2>2, NextJoint
  <2>4. /\ DOMAIN measured' = DOMAIN measured \union {i}
        /\ measured'[i] = lowstate[ArmIndex[i]]
        /\ \A j \in DOMAIN measured : measured'[j] = measured[j]
    BY <1>4, <2>3 DEF MeasureJoint
  <2>5. publisher' = IF Watched \ DOMAIN measured = {i} THEN "write"
                                                       ELSE "measure"
    BY <1>4 DEF MeasureJoint
  <2>6. UNCHANGED <<asked, position, lowstate, sent, q_target, taken, reading>>
    BY <1>4 DEF MeasureJoint
  <2> HIDE DEF i
  <2>7. \A j \in DOMAIN measured' : Spanned(measured'[j], ArmIndex[j])
    BY <1>0, <2>3, <2>4 DEF InSpan
  <2>8. /\ publisher' = "measure" => DOMAIN measured' # Watched
        /\ publisher' = "write" => DOMAIN measured' = Watched
    BY <2>1, <2>3, <2>4, <2>5
  <2> QED BY <1>0, <2>6, <2>7, <2>8 DEF InSpan, Spanned
<1>5. CASE ctrl_motor_state
  <2>1. /\ DOMAIN measured' = {} /\ publisher' = "target"
        /\ taken' = Zeros
        /\ UNCHANGED <<asked, position, lowstate, q_target, reading>>
    BY <1>5 DEF ctrl_motor_state
  <2>2. \A m \in Motors : Spanned(sent'[m], m)
    BY <1>5, CommandSpanned
  <2>3. \A m \in Motors :
           /\ 0 \in asked'[m] /\ Bounded(asked'[m])
           /\ Spanned(position[m], m)' /\ Spanned(lowstate[m], m)'
           /\ Spanned(sent[m], m)'
    BY <2>1, <2>2 DEF InSpan, Spanned
  <2>4. \A i \in Watched :
           /\ Spanned(q_target[i], ArmIndex[i])'
           /\ Spanned(taken[i], ArmIndex[i])'
           /\ Spanned(reading[i], ArmIndex[i])'
    BY <1>0, <1>z, <2>1 DEF InSpan, Spanned
  <2> QED BY <1>0, <2>1, <2>3, <2>4 DEF InSpan
<1>6. CASE \/ SpeedGrows \/ start_tracking \/ LooksAgain \/ HandsBack
           \/ UNCHANGED armVars
  <2>1. UNCHANGED <<asked, position, lowstate, sent, q_target, taken, reading,
                    measured, publisher>>
    BY <1>6 DEF SpeedGrows, start_tracking, LooksAgain, HandsBack, armVars
  <2> QED BY <1>0, <2>1 DEF InSpan, Spanned
<1>7. CASE ReadJoints
  <2>1. /\ UNCHANGED <<asked, position, lowstate, sent, q_target, taken,
                       measured, publisher>>
        /\ \A i \in Watched : reading'[i] = lowstate[ArmIndex[i]]
    BY <1>7 DEF ReadJoints, Joints
  <2> QED BY <1>0, <2>1 DEF InSpan, Spanned
<1>8. ASSUME NEW q \in [Watched -> Int], NEW tau, SetTargets(q, tau),
             reading' = Zeros,
             UNCHANGED <<position, lowstate, sent, taken, measured, publisher>>
      PROVE  InSpan'
  <2>1. /\ \A m \in Motors :
              /\ 0 \in asked'[m] /\ Bounded(asked'[m])
              /\ \A x : Spanned(x, m) => \E a, b \in asked'[m] : a <= x /\ x <= b
        /\ \A i \in Watched : q[i] \in asked'[ArmIndex[i]]
    BY <1>8, AskedGrows DEF SetTargets
  <2>2. \A i \in Watched : \E a, b \in asked'[ArmIndex[i]] :
                              a <= q[i] /\ q[i] <= b
    BY <2>1
  <2>3. q_target' = q
    BY <1>8 DEF SetTargets
  <2>4. \A m \in Motors :
           /\ 0 \in asked'[m] /\ Bounded(asked'[m])
           /\ Spanned(position[m], m)' /\ Spanned(lowstate[m], m)'
           /\ sent # <<>> => Spanned(sent[m], m)'
    BY <1>8, <2>1 DEF InSpan, Spanned
  <2>5. \A i \in Watched :
           /\ Spanned(q_target[i], ArmIndex[i])'
           /\ Spanned(taken[i], ArmIndex[i])'
           /\ Spanned(reading[i], ArmIndex[i])'
    <3>1. \A i \in Watched : Spanned(q_target[i], ArmIndex[i])'
      BY <1>0, <2>2, <2>3 DEF Spanned
    <3>2. \A i \in Watched : Spanned(taken[i], ArmIndex[i])'
      BY <1>0, <1>8, <2>1 DEF InSpan, Spanned
    <3>3. \A i \in Watched : Spanned(reading[i], ArmIndex[i])'
      BY <1>0, <1>z, <1>8, <2>1 DEF InSpan, Spanned
    <3> QED BY <3>1, <3>2, <3>3
  <2>6. \A i \in DOMAIN measured : Spanned(measured[i], ArmIndex[i])'
    BY <1>0, <1>8, <2>1 DEF InSpan, Spanned, ArmTypeOK
  <2> QED BY <1>0, <1>8, <2>4, <2>5, <2>6 DEF InSpan
<1>9. CASE SolvedTarget
  BY <1>8, <1>9, ArmAssumption DEF SolvedTarget
<1>10. CASE SolveFailsHolds
  BY <1>8, <1>10 DEF SolveFailsHolds, ArmTypeOK
<1>11. CASE ctrl_dual_arm_go_home
  <2>1. /\ UNCHANGED <<asked, position, lowstate, sent, taken, measured,
                       publisher>>
        /\ q_target' = Zeros /\ reading' = Zeros
    BY <1>11 DEF ctrl_dual_arm_go_home
  <2> QED BY <1>0, <1>z, <2>1 DEF InSpan, Spanned
<1> QED
  BY <1>1, <1>2, <1>3, <1>4, <1>5, <1>6, <1>7, <1>9, <1>10, <1>11
  DEF ArmNext, Body, Publisher, Session

(* However old what the publisher thread measured, a joint stays between    *)
(* the positions it was at or asked for: clip_arm_q_target, the two threads *)
(* and the way to the robot and back turn no command round.                 *)
THEOREM NeverOvershoots == ArmSpec => []NoOvershoot
<1>1. ArmTypeOK /\ InSpan => NoOvershoot
  <2> SUFFICES ASSUME ArmTypeOK, InSpan, NEW m \in Motors
               PROVE  position[m] \in Min(asked[m])..Max(asked[m])
    BY DEF NoOvershoot
  <2>1. /\ asked[m] \in SUBSET Int /\ Bounded(asked[m])
        /\ position[m] \in Int /\ Spanned(position[m], m)
    BY DEF ArmTypeOK, InSpan
  <2>2. /\ Min(asked[m]) \in Int /\ Max(asked[m]) \in Int
        /\ \A x \in asked[m] : Min(asked[m]) <= x /\ x <= Max(asked[m])
    BY <2>1, Extremes
  <2> QED BY <2>1, <2>2 DEF Spanned
<1> QED
  BY <1>1, ArmInitTyped, InitSpanned, ArmStepTyped, StepSpanned, PTL DEF ArmSpec

-----------------------------------------------------------------------------
RecorderTypeOK ==
    /\ RECORD_TOGGLE \in BOOLEAN /\ RECORD_RUNNING \in BOOLEAN
    /\ main \in {"loop", "close", "look", "save", "wait", "join", "closed"}
    /\ is_available \in BOOLEAN /\ need_save \in BOOLEAN
    /\ stop_worker \in BOOLEAN
    /\ episode_id \in Nat /\ item_id \in Nat
    /\ item_data_queue \in Seq(Nat) /\ unfinished \in Int
    /\ worker \in {"top", "process", "done", "check", "end", "reset",
                   "release", "ended"}
    /\ item \in Nat /\ items \in Seq(Nat) /\ ends \in Nat
    /\ separators \in Nat /\ failed \in SUBSET Nat /\ recFaults \in Nat

(* No item is added any more: recording is over, or the loop is.            *)
Settled == ~RECORD_RUNNING \/ main # "loop"
Ending == worker \in {"end", "reset", "release"}

(* A save is asked for and carried out only when no item comes and, in the  *)
(* loop, while no other episode can begin.                                  *)
Saving ==
    /\ need_save \/ Ending \/ is_available => Settled
    /\ need_save \/ Ending => ~is_available \/ main # "loop"
    /\ worker = "release" => ~need_save \/ main # "loop"
    /\ Ending \/ is_available
          => item_data_queue = <<>> /\ worker \notin {"process", "done"}

(* How many of the episode's items are through: those not waiting and not   *)
(* in the worker's hand.                                                    *)
Through == item_id - Len(item_data_queue)
             - (IF worker = "process" THEN 1 ELSE 0)

(* What waits are the last items added, in order; the one in hand comes     *)
(* before them; and the file holds the ones before that.                    *)
Partition ==
    /\ Through >= 0 /\ failed \subseteq 0..Through - 1
    /\ \A i \in 1..Len(item_data_queue) :
          item_data_queue[i] = item_id - Len(item_data_queue) + i - 1
    /\ worker = "process" => item = Through
    /\ {items[i] : i \in DOMAIN items} = (0..Through - 1) \ failed
    /\ Increasing(items)

(* As long as no item failed there is a separator between two items.        *)
Separated == failed = {} /\ items # <<>> => separators = Len(items) - 1

(* A file that is closed was ended, or nothing was ever written to it.      *)
Ended ==
    /\ worker \in {"reset", "release"} => ends > 0
    /\ is_available => ends > 0 \/ items = <<>>

-----------------------------------------------------------------------------
(* Facts about sequences of items.                                         *)
LEMMA SeqFacts ==
  /\ <<>> \in Seq(Nat) /\ Len(<<>>) = 0
  /\ \A s \in Seq(Nat) : /\ Len(s) \in Nat /\ DOMAIN s = 1..Len(s)
                         /\ s = <<>> <=> Len(s) = 0
                         /\ \A i \in 1..Len(s) : s[i] \in Nat
  OBVIOUS

LEMMA QueueShrinks ==
  ASSUME NEW q \in Seq(Nat), q # <<>>
  PROVE  /\ Head(q) = q[1] /\ Head(q) \in Nat /\ 1 \in 1..Len(q)
         /\ Tail(q) \in Seq(Nat) /\ Len(Tail(q)) = Len(q) - 1
         /\ \A i \in 1..Len(Tail(q)) : Tail(q)[i] = q[i + 1] /\ i + 1 \in 1..Len(q)
  OBVIOUS

LEMMA QueueGrows ==
  ASSUME NEW q \in Seq(Nat), NEW n \in Nat
  PROVE  /\ Append(q, n) \in Seq(Nat) /\ Len(Append(q, n)) = Len(q) + 1
         /\ DOMAIN Append(q, n) = 1..Len(q) + 1
         /\ \A i \in 1..Len(q) : Append(q, n)[i] = q[i]
         /\ Append(q, n)[Len(q) + 1] = n
  OBVIOUS

LEMMA RecorderInitTyped == RecorderInit => RecorderTypeOK
<1> SUFFICES ASSUME RecorderInit PROVE RecorderTypeOK
  OBVIOUS
<1>1. item \in Nat
  BY RecorderAssumption DEF RecorderInit, NoItem
<1>2. /\ item_data_queue \in Seq(Nat) /\ items \in Seq(Nat)
      /\ failed \in SUBSET Nat
  BY SeqFacts DEF RecorderInit
<1>3. main = "loop" /\ worker = "top"
  BY DEF RecorderInit
<1>4. /\ episode_id = 0 /\ item_id = 0 /\ unfinished = 0 /\ ends = 0
      /\ separators = 0 /\ recFaults = 0
  BY DEF RecorderInit
<1>5. \A b \in {RECORD_TOGGLE, RECORD_RUNNING, is_available, need_save,
                 stop_worker} : b \in BOOLEAN
  BY DEF RecorderInit
<1> QED BY <1>1, <1>2, <1>3, <1>4, <1>5 DEF RecorderTypeOK

LEMMA RecorderStepTyped ==
  RecorderTypeOK /\ [RecorderNext]_recorderVars => RecorderTypeOK'
<1> SUFFICES ASSUME RecorderTypeOK, [RecorderNext]_recorderVars
             PROVE  RecorderTypeOK'
  OBVIOUS
<1> USE DEF RecorderTypeOK, flags, handover, episode, disk
<1>1. CASE Toggle
  BY <1>1 DEF Toggle
<1>2. CASE HandleToggle
  <2>1. CASE ~RECORD_RUNNING
    <3>1. /\ episode_id' \in {episode_id, episode_id + 1}
          /\ item_id' \in {item_id, 0} /\ ends' \in {ends, 0}
          /\ separators' \in {separators, 0} /\ failed' \in {failed, {}}
      BY <1>2, <2>1 DEF HandleToggle, create_episode
    <3>3. items' \in Seq(Nat)
      BY <1>2, <2>1, SeqFacts DEF HandleToggle, create_episode
    <3>2. /\ main' \in {main, "close"} /\ RECORD_RUNNING' \in BOOLEAN
          /\ is_available' \in BOOLEAN
      BY <1>2, <2>1 DEF HandleToggle, create_episode
    <3>4. UNCHANGED <<need_save, stop_worker, handover, worker, item,
                      recFaults>> /\ RECORD_TOGGLE' = FALSE
      BY <1>2, <2>1 DEF HandleToggle, create_episode
    <3>5. /\ episode_id' \in Nat /\ item_id' \in Nat /\ ends' \in Nat
          /\ separators' \in Nat /\ failed' \in SUBSET Nat
      BY <3>1
    <3>6. /\ main' \in {"loop", "close", "look", "save", "wait", "join",
                         "closed"}
          /\ need_save' \in BOOLEAN /\ stop_worker' \in BOOLEAN
      BY <3>2, <3>4
    <3> QED BY <3>2, <3>3, <3>4, <3>5, <3>6
  <2>2. CASE RECORD_RUNNING
    BY <1>2, <2>2 DEF HandleToggle
  <2> QED BY <2>1, <2>2
<1>3. CASE RecordItem
  <2>1. item_data_queue' \in Seq(Nat) /\ unfinished' \in Int /\ item_id' \in Nat
    BY <1>3, QueueGrows DEF RecordItem, add_item
  <2> QED BY <1>3, <2>1 DEF RecordItem
<1>4. CASE SessionEnds
  BY <1>4 DEF SessionEnds
<1>5. CASE JoinQueue
  BY <1>5 DEF JoinQueue
<1>6. CASE LookAtAvailable
  BY <1>6 DEF LookAtAvailable
<1>7. CASE save_episode
  BY <1>7 DEF save_episode
<1>8. CASE StopWorker
  BY <1>8 DEF StopWorker
<1>9. CASE JoinWorker
  BY <1>9 DEF JoinWorker
<1>10. CASE TakeItem
  <2>1. CASE item_data_queue # <<>>
    BY <1>10, <2>1, QueueShrinks DEF TakeItem
  <2>2. CASE item_data_queue = <<>>
    BY <1>10, <2>2 DEF TakeItem
  <2> QED BY <2>1, <2>2
<1>11. CASE ProcessItem
  <2>1. items' \in Seq(Nat)
    BY <1>11, QueueGrows DEF ProcessItem
  <2>2. failed' \in SUBSET Nat /\ recFaults' \in Nat
    <3>1. failed \cup {item} \in SUBSET Nat /\ recFaults + 1 \in Nat
      OBVIOUS
    <3> QED BY <1>11, <3>1 DEF ProcessItem
  <2>3. separators' \in Nat
    BY <1>11 DEF ProcessItem, WriteSeparator
  <2> QED BY <1>11, <2>1, <2>2, <2>3 DEF ProcessItem
<1>12. CASE task_done
  BY <1>12, RecorderAssumption DEF task_done, NoItem
<1>13. CASE CheckSave
  BY <1>13 DEF CheckSave
<1>14. CASE WriteEnd
  BY <1>14 DEF WriteEnd
<1>15. CASE ResetNeed
  BY <1>15 DEF ResetNeed
<1>16. CASE Release
  BY <1>16 DEF Release
<1>17. CASE UNCHANGED recorderVars
  BY <1>17 DEF recorderVars
<1> QED
  BY <1>1, <1>2, <1>3, <1>4, <1>5, <1>6, <1>7, <1>8, <1>9, <1>10, <1>11,
     <1>12, <1>13, <1>14, <1>15, <1>16, <1>17
  DEF RecorderNext, RecorderWorker, close

(* Every variable of the recorder keeps its type, for any number of         *)
(* episodes, items and failures.                                           *)
THEOREM RecorderTypeCorrect == RecorderSpec => []RecorderTypeOK
  BY RecorderInitTyped, RecorderStepTyped, PTL DEF RecorderSpec

-----------------------------------------------------------------------------
(* While an episode is closed no item comes.                               *)
LEMMA SavingStep ==
  RecorderTypeOK /\ Saving /\ [RecorderNext]_recorderVars => Saving'
<1> SUFFICES ASSUME RecorderTypeOK, Saving, [RecorderNext]_recorderVars
             PROVE  Saving'
  OBVIOUS
<1> USE DEF Saving, Settled, Ending, RecorderTypeOK, flags, handover, episode,
            disk
<1>1. CASE Toggle \/ SessionEnds \/ UNCHANGED recorderVars
  BY <1>1 DEF Toggle, SessionEnds, recorderVars
<1>2. CASE HandleToggle
  BY <1>2 DEF HandleToggle, create_episode
<1>3. CASE RecordItem
  BY <1>3 DEF RecordItem, add_item
<1>4. CASE close
  BY <1>4 DEF close, JoinQueue, LookAtAvailable, save_episode, StopWorker,
     JoinWorker
<1>5. CASE TakeItem
  BY <1>5 DEF TakeItem
<1>6. CASE ProcessItem \/ task_done
  BY <1>6 DEF ProcessItem, task_done
<1>7. CASE CheckSave
  BY <1>7 DEF CheckSave
<1>8. CASE WriteEnd \/ ResetNeed
  BY <1>8 DEF WriteEnd, ResetNeed
<1>9. CASE Release
  BY <1>9 DEF Release
<1> QED
  BY <1>1, <1>2, <1>3, <1>4, <1>5, <1>6, <1>7, <1>8, <1>9
  DEF RecorderNext, RecorderWorker

LEMMA EndedStep ==
  RecorderTypeOK /\ Saving /\ Ended /\ [RecorderNext]_recorderVars => Ended'
<1> SUFFICES ASSUME RecorderTypeOK, Saving, Ended, [RecorderNext]_recorderVars
             PROVE  Ended'
  OBVIOUS
<1> USE DEF Saving, Settled, Ending, Ended, RecorderTypeOK, flags, handover,
            episode, disk
<1>1. CASE Toggle \/ SessionEnds \/ UNCHANGED recorderVars
  BY <1>1 DEF Toggle, SessionEnds, recorderVars
<1>2. CASE HandleToggle
  BY <1>2 DEF HandleToggle, create_episode
<1>3. CASE RecordItem
  BY <1>3 DEF RecordItem, add_item
<1>4. CASE close
  BY <1>4 DEF close, JoinQueue, LookAtAvailable, save_episode, StopWorker,
     JoinWorker
<1>5. CASE TakeItem
  BY <1>5 DEF TakeItem
<1>6. CASE ProcessItem \/ task_done \/ CheckSave
  BY <1>6 DEF ProcessItem, task_done, CheckSave
<1>7. CASE WriteEnd
  BY <1>7 DEF WriteEnd
<1>8. CASE ResetNeed \/ Release
  BY <1>8 DEF ResetNeed, Release
<1> QED
  BY <1>1, <1>2, <1>3, <1>4, <1>5, <1>6, <1>7, <1>8
  DEF RecorderNext, RecorderWorker

LEMMA SeparatedStep ==
  RecorderTypeOK /\ Separated /\ [RecorderNext]_recorderVars => Separated'
<1> SUFFICES ASSUME RecorderTypeOK, Separated, [RecorderNext]_recorderVars
             PROVE  Separated'
  OBVIOUS
<1> USE DEF flags, handover, episode, disk
<1>1. CASE UNCHANGED <<items, separators, failed>>
  BY <1>1 DEF Separated
<1>2. CASE HandleToggle
  BY <1>1, <1>2 DEF HandleToggle, create_episode, Separated
<1>3. CASE ProcessItem
  <2>1. CASE items' = Append(items, item) /\ WriteSeparator /\ failed' = failed
    <3>1. /\ Len(items') = Len(items) + 1 /\ Len(items) \in Nat
          /\ items = <<>> <=> Len(items) = 0
      BY <2>1, QueueGrows, SeqFacts DEF RecorderTypeOK
    <3> QED BY <2>1, <3>1 DEF WriteSeparator, Separated, RecorderTypeOK
  <2>2. CASE failed' # {}
    BY <2>2 DEF Separated
  <2> QED BY <1>3, <2>1, <2>2 DEF ProcessItem
<1>4. ASSUME \/ Toggle \/ RecordItem \/ SessionEnds \/ close \/ TakeItem
             \/ task_done \/ CheckSave \/ WriteEnd \/ ResetNeed \/ Release
             \/ UNCHANGED recorderVars
      PROVE  UNCHANGED <<items, separators, failed>>
  BY <1>4 DEF Toggle, RecordItem, SessionEnds, close, JoinQueue,
     LookAtAvailable, save_episode, StopWorker, JoinWorker, TakeItem,
     task_done, CheckSave, WriteEnd, ResetNeed, Release, recorderVars
<1> QED BY <1>1, <1>2, <1>3, <1>4 DEF RecorderNext, RecorderWorker

LEMMA NothingThrough ==
  ASSUME NEW added, NEW queue, NEW at,
         added = 0, Len(queue) = 0, at # "process"
  PROVE  added - Len(queue) - (IF at = "process" THEN 1 ELSE 0) = 0
<1>1. (IF at = "process" THEN 1 ELSE 0) = 0
  OBVIOUS
<1>2. 0 - 0 - 0 = 0
  OBVIOUS
<1> QED BY <1>1, <1>2, Zenon

LEMMA InitPartition ==
  RecorderInit => Saving /\ Partition /\ Ended /\ Separated
<1> SUFFICES ASSUME RecorderInit
             PROVE  Saving /\ Partition /\ Ended /\ Separated
  OBVIOUS
<1>1. Saving /\ Ended /\ Separated
  BY DEF RecorderInit, Saving, Settled, Ending, Ended, Separated
<1>3. /\ items = <<>> /\ DOMAIN items = {} /\ worker = "top" /\ failed = {}
      /\ item_id = 0 /\ item_data_queue = <<>>
  BY DEF RecorderInit
<1>4. Len(item_data_queue) = 0
  BY <1>3, SeqFacts
<1>5. item_id = 0 /\ worker # "process"
  BY <1>3
<1>2. Through = 0
  BY <1>4, <1>5, NothingThrough DEF Through
<1> QED BY <1>1, <1>2, <1>3, <1>4 DEF Partition, Increasing

(* What is in the file, in hand and in the queue is what was added.        *)
LEMMA PartitionStep ==
  RecorderTypeOK /\ Saving /\ Partition /\ [RecorderNext]_recorderVars
     => Partition'
<1> SUFFICES ASSUME RecorderTypeOK, Saving, Partition,
                    [RecorderNext]_recorderVars
             PROVE  Partition'
  OBVIOUS
<1>0. /\ item_id \in Nat /\ item \in Nat /\ item_data_queue \in Seq(Nat)
      /\ Len(item_data_queue) \in Nat /\ Through \in Int
      /\ items \in Seq(Nat) /\ DOMAIN items = 1..Len(items)
      /\ Len(items) \in Nat /\ failed \in SUBSET Nat
  BY SeqFacts DEF RecorderTypeOK, Through
<1> USE DEF flags, handover, episode, disk
<1>1. CASE /\ UNCHANGED <<item_id, item_data_queue, item, items, failed>>
           /\ worker' # "process" /\ worker # "process"
  BY <1>1 DEF Partition, Through, Increasing
<1>2. CASE UNCHANGED <<item_id, item_data_queue, item, items, failed, worker>>
  BY <1>2 DEF Partition, Through, Increasing
<1>3. CASE HandleToggle
  <2>1. CASE UNCHANGED <<item_id, items, failed>>
    BY <1>2, <1>3, <2>1 DEF HandleToggle
  <2>2. CASE is_available /\ item_id' = 0 /\ items' = <<>> /\ failed' = {}
    <3>1. /\ item_data_queue' = <<>> /\ worker' # "process"
      BY <1>3, <2>2 DEF HandleToggle, Saving
    <3>4. Len(item_data_queue') = 0
      BY <3>1, SeqFacts
    <3>2. Through' = 0
      <4>1. item_id' = 0 /\ worker' # "process"
        BY <2>2, <3>1
      <4> QED BY <4>1, <3>4, NothingThrough DEF Through
    <3>3. DOMAIN items' = {}
      BY <2>2
    <3> QED BY <2>2, <3>1, <3>2, <3>3, <3>4 DEF Partition, Increasing
  <2> QED BY <1>3, <2>1, <2>2 DEF HandleToggle, create_episode
<1>4. CASE RecordItem
  <2>1. /\ item_id' = item_id + 1
        /\ item_data_queue' = Append(item_data_queue, item_id)
        /\ UNCHANGED <<worker, item, items, failed>>
    BY <1>4 DEF RecordItem, add_item
  <2>2. /\ Len(item_data_queue') = Len(item_data_queue) + 1
        /\ \A i \in 1..Len(item_data_queue) :
              item_data_queue'[i] = item_data_queue[i]
        /\ item_data_queue'[Len(item_data_queue) + 1] = item_id
    BY <1>0, <2>1, QueueGrows
  <2>3. Through' = Through
    BY <1>0, <2>1, <2>2 DEF Through
  <2>4. \A i \in 1..Len(item_data_queue') :
           item_data_queue'[i] = item_id' - Len(item_data_queue') + i - 1
    <3> TAKE i \in 1..Len(item_data_queue')
    <3>1. item_id' - Len(item_data_queue') = item_id - Len(item_data_queue)
      BY <1>0, <2>1, <2>2
    <3>2. CASE i \in 1..Len(item_data_queue)
      <4>1. item_data_queue[i] = item_id - Len(item_data_queue) + i - 1
        BY <3>2 DEF Partition
      <4> QED BY <2>2, <3>1, <3>2, <4>1
    <3>3. CASE i = Len(item_data_queue) + 1
      <4>1. item_id - Len(item_data_queue) + i - 1 = item_id
        BY <1>0, <3>3
      <4> QED BY <2>2, <3>1, <3>3, <4>1
    <3>4. i \in 1..Len(item_data_queue) + 1
      BY <2>2
    <3>5. i \in 1..Len(item_data_queue) \/ i = Len(item_data_queue) + 1
      BY <1>0, <3>4
    <3> QED BY <3>2, <3>3, <3>5
  <2> QED BY <2>1, <2>3, <2>4 DEF Partition, Increasing
<1>5. CASE TakeItem
  <2>1. CASE item_data_queue # <<>>
    <3>1. /\ item' = Head(item_data_queue) /\ worker' = "process"
          /\ item_data_queue' = Tail(item_data_queue) /\ worker = "top"
          /\ UNCHANGED <<item_id, items, failed>>
      BY <1>5, <2>1 DEF TakeItem
    <3>2. /\ Len(item_data_queue') = Len(item_data_queue) - 1
          /\ \A i \in 1..Len(item_data_queue') :
                /\ item_data_queue'[i] = item_data_queue[i + 1]
                /\ i + 1 \in 1..Len(item_data_queue)
          /\ item' = item_data_queue[1] /\ 1 \in 1..Len(item_data_queue)
      BY <1>0, <2>1, <3>1, QueueShrinks
    <3>3. Through' = Through
      <4>1. Through = item_id - Len(item_data_queue)
        BY <1>0, <3>1 DEF Through
      <4>2. Through' = item_id - Len(item_data_queue') - 1
        BY <3>1 DEF Through
      <4> QED BY <1>0, <3>2, <4>1, <4>2
    <3>4. item' = Through
      BY <1>0, <3>1, <3>2 DEF Through, Partition
    <3>5. \A i \in 1..Len(item_data_queue') :
             item_data_queue'[i] = item_id - Len(item_data_queue') + i - 1
      <4> TAKE i \in 1..Len(item_data_queue')
      <4>1. /\ item_data_queue'[i] = item_data_queue[i + 1]
            /\ i + 1 \in 1..Len(item_data_queue) /\ i \in Int
        BY <1>0, <3>2
      <4>2. item_data_queue[i + 1]
              = item_id - Len(item_data_queue) + (i + 1) - 1
        BY <4>1 DEF Partition
      <4>3. Len(item_data_queue') = Len(item_data_queue) - 1
        BY <3>2
      <4> QED BY <1>0, <4>1, <4>2, <4>3
    <3> QED BY <3>1, <3>3, <3>4, <3>5 DEF Partition, Increasing
  <2>2. CASE item_data_queue = <<>>
    BY <1>1, <1>5, <2>2 DEF TakeItem
  <2> QED BY <2>1, <2>2
<1>6. CASE ProcessItem
  <2>1. /\ worker = "process" /\ worker' = "done" /\ item = Through
        /\ UNCHANGED <<item_id, item_data_queue, item>>
    BY <1>6 DEF ProcessItem, Partition
  <2>2. Through' = Through + 1 /\ Through >= 0
    BY <1>0, <2>1 DEF Through, Partition
  <2>3. 0..Through' - 1 = (0..Through - 1) \cup {item}
    BY <1>0, <2>1, <2>2
  <2>4. /\ {items[i] : i \in DOMAIN items} = (0..Through - 1) \ failed
        /\ Increasing(items)
    BY DEF Partition
  <2>5. ASSUME NEW i \in DOMAIN items
        PROVE  items[i] < item
    <3>1. items[i] \in 0..Through - 1
      BY <2>4
    <3> QED BY <1>0, <2>1, <3>1
  <2>6. CASE items' = Append(items, item) /\ failed' = failed
    <3>1. /\ DOMAIN items' = DOMAIN items \cup {Len(items) + 1}
          /\ \A i \in DOMAIN items : items'[i] = items[i]
          /\ items'[Len(items) + 1] = item
      BY <1>0, <2>6, QueueGrows
    <3>2. {items'[i] : i \in DOMAIN items'}
            = {items[i] : i \in DOMAIN items} \cup {item}
      BY <3>1
    <3>3. Increasing(items')
      BY <1>0, <2>4, <2>5, <3>1 DEF Increasing
    <3>4. item \notin failed
      BY <1>0, <2>1 DEF Partition
    <3>5. {items'[i] : i \in DOMAIN items'} = (0..Through' - 1) \ failed'
      BY <2>3, <2>4, <2>6, <3>2, <3>4
    <3>6. failed' \subseteq 0..Through' - 1
      BY <2>3, <2>6 DEF Partition
    <3> QED BY <1>0, <2>1, <2>2, <3>3, <3>5, <3>6 DEF Partition
  <2>7. CASE items' = items /\ failed' = failed \cup {item}
    <3>1. item \notin 0..Through - 1
      BY <1>0, <2>1
    <3>2. (0..Through' - 1) \ failed' = (0..Through - 1) \ failed
      BY <2>3, <2>7, <3>1
    <3>3. failed' \subseteq 0..Through' - 1
      BY <2>3, <2>7 DEF Partition
    <3>4. /\ {items'[i] : i \in DOMAIN items'} = (0..Through' - 1) \ failed'
          /\ Increasing(items')
      BY <2>4, <2>7, <3>2
    <3> QED BY <1>0, <2>1, <2>2, <3>3, <3>4 DEF Partition
  <2> QED BY <1>6, <2>6, <2>7 DEF ProcessItem
<1>7. CASE task_done
  BY <1>7 DEF task_done, Partition, Through, Increasing
<1>8. CASE CheckSave \/ WriteEnd \/ ResetNeed \/ Release
  BY <1>1, <1>8 DEF CheckSave, WriteEnd, ResetNeed, Release
<1>9. CASE Toggle \/ SessionEnds \/ close \/ UNCHANGED recorderVars
  BY <1>2, <1>9 DEF Toggle, SessionEnds, close, JoinQueue, LookAtAvailable,
     save_episode, StopWorker, JoinWorker, recorderVars
<1> QED
  BY <1>3, <1>4, <1>5, <1>6, <1>7, <1>8, <1>9 DEF RecorderNext, RecorderWorker

(* When an episode is closed its file holds the items that were added to    *)
(* it, each once and in order, and was ended (EpisodeWriter.add_item,       *)
(* process_queue, close); and if none failed, with a separator between two. *)
THEOREM EpisodesAreWhole == RecorderSpec => []EpisodeIsWhole
<1>1. RecorderTypeOK /\ Saving /\ Partition /\ Ended /\ Separated
        => EpisodeIsWhole
  <2> SUFFICES ASSUME RecorderTypeOK, Saving, Partition, Ended, Separated,
                      is_available,
                      items # <<>> \/ ends > 0
               PROVE  /\ {items[i] : i \in DOMAIN items} = Wanted
                      /\ Increasing(items) /\ ends > 0
                      /\ failed = {} /\ items # <<>>
                            => separators = Len(items) - 1
    BY DEF EpisodeIsWhole
  <2>1. item_data_queue = <<>> /\ worker # "process" /\ ends > 0
    BY DEF Saving, Ended
  <2>2. Through = item_id
    BY <2>1, SeqFacts DEF Through, RecorderTypeOK
  <2> QED BY <2>1, <2>2 DEF Partition, Wanted, Separated
<1> QED
  BY <1>1, RecorderTypeCorrect, InitPartition, SavingStep, EndedStep,
     PartitionStep, SeparatedStep, PTL
  DEF RecorderSpec
=============================================================================
