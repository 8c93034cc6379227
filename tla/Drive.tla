-------------------------------- MODULE Drive --------------------------------
(***************************************************************************)
(* The drive chain: the cascaded PID controller (src/hal/pid.rs), the      *)
(* differential-drive kinematics (src/hal/kinematics.rs) and the motor     *)
(* driver (src/hal/motor.rs).                                              *)
(*                                                                         *)
(* Quantities are integers in units of 1/One (the controller computes in   *)
(* Q16.16, One = 2^16); where the code uses floats, division truncates.    *)
(* One call of send is one tick, as the driver's ramp assumes (dt = 0.1).  *)
(***************************************************************************)
EXTENDS Integers

CONSTANTS
  One, Dt,        \* 1.0 and 0.1 s
  IntMax,         \* the largest i32
  HeadingGains,   \* [kp, ki, kd, out, int] of heading_controller
  DistanceGains,  \* and of distance_controller
  VGain, WGain,   \* 1 / wheel_radius and wheel_base / (2 * wheel_radius)
  MaxWheel,       \* max_wheel_vel
  Ramp,           \* max_accel * dt
  HeadingError,   \* heading errors given to the controller, in 1/10 of pi
  DistanceError,  \* distance errors given to it
  Target          \* wheel speeds sent to the driver directly

Gains == [kp : Int, ki : Int, kd : Int, out : Nat, int : Nat]

ASSUME DriveAssumption ==
  /\ One \in Nat \ {0} /\ Dt \in Nat \ {0} /\ IntMax \in Nat
  /\ HeadingGains \in Gains /\ DistanceGains \in Gains
  /\ VGain \in Int /\ WGain \in Int
  /\ MaxWheel \in Nat /\ Ramp \in Nat \ {0}
  /\ HeadingError \subseteq Int /\ DistanceError \subseteq Int /\ Target \subseteq Int

Wheel == {"left", "right"}

VARIABLES
  heading_controller, distance_controller,  \* [integral, prev_error]
  powered,       \* active of the MotorDriver
  last_command,  \* last_command[w]: velocity of wheel w
  e_stop,        \* the last command was an emergency stop
  stops          \* stop commands since any other, capped

controllers == <<heading_controller, distance_controller>>
driver == <<powered, last_command, e_stop, stops>>
driveVars == <<controllers, driver>>

-----------------------------------------------------------------------------
(* Arithmetic.                                                             *)

Abs(n) == IF n < 0 THEN -n ELSE n
Within(n, bound) == IF n > bound THEN bound ELSE IF n < -bound THEN -bound ELSE n
Quotient(n, d) == IF n < 0 THEN -((-n) \div d) ELSE n \div d

\* Q16_16: add saturates, mul shifts right and keeps the low 32 bits.
QAdd(m, n) == Within(m + n, IntMax)
QMul(m, n) ==
  (((m * n) \div One + IntMax + 1) % (2 * IntMax + 2)) - IntMax - 1

\* The integral after an error, kept from winding up.
IntegralBug(c, gains, error) == QAdd(c.integral, QMul(error, Dt))
Integral(c, gains, error) ==
  Within(QAdd(c.integral, QMul(error, Dt)), gains.int)

Derivative(c, error) == Within(Quotient((error - c.prev_error) * One, Dt), IntMax)

\* PidController::update: the output, and the controller after it.
PidOutput(c, gains, error) ==
  Within(QAdd(QAdd(QMul(gains.kp, error),
                   QMul(gains.ki, Integral(c, gains, error))),
              QMul(gains.kd, Derivative(c, error))), gains.out)
PidUpdate(c, gains, error) ==
  [integral |-> Integral(c, gains, error), prev_error |-> error]

Fresh == [integral |-> 0, prev_error |-> 0]

\* heading_factor of CascadedController::update, in tenths.
HeadingFactor(error) == 10 - (IF Abs(error) < 8 THEN Abs(error) ELSE 8)

\* WheelVelocity::from_unicycle, and clamp_wheels: both wheels are scaled.
FromUnicycle(v, omega) ==
  [w \in Wheel |-> VGain * v + (IF w = "left" THEN -WGain ELSE WGain) * omega]
ClampWheels(wheels) ==
  LET larger == IF Abs(wheels["left"]) < Abs(wheels["right"])
                THEN Abs(wheels["right"]) ELSE Abs(wheels["left"])
  IN [w \in Wheel |-> IF larger =< MaxWheel THEN wheels[w]
                      ELSE Quotient(wheels[w] * MaxWheel, larger)]

\* The hardware clamp and the ramp of MotorDriver::send, for one wheel.
RampedBug(last, target) ==
  LET delta == Within(target, MaxWheel) - last
  IN IF delta > Ramp THEN last + Ramp ELSE last + delta
Ramped(last, target) ==
  last + Within(Within(target, MaxWheel) - last, Ramp)

-----------------------------------------------------------------------------
Still == [w \in Wheel |-> 0]

DriveInit ==
  /\ heading_controller = Fresh /\ distance_controller = Fresh
  /\ powered = FALSE /\ last_command = Still /\ e_stop = FALSE /\ stops = 0

\* send() of a command that is no emergency stop; an inactive driver drops it.
SendWheels(target) ==
  IF powered
  THEN /\ last_command' = [w \in Wheel |-> Ramped(last_command[w], target[w])]
       /\ e_stop' = FALSE
       /\ stops' = IF target = Still THEN Within(stops + 1, MaxWheel) ELSE 0
  ELSE UNCHANGED <<last_command, e_stop, stops>>

\* CascadedController::update, unicycle_to_wheels, and send of the result.
Steer(heading_error, distance_error) ==
  LET factor == HeadingFactor(heading_error)
      scaled == Quotient(distance_error * factor, 10)
      omega == PidOutput(heading_controller, HeadingGains, heading_error)
      v == Quotient(PidOutput(distance_controller, DistanceGains, scaled) * factor, 10)
  IN /\ heading_controller' = PidUpdate(heading_controller, HeadingGains, heading_error)
     /\ distance_controller' = PidUpdate(distance_controller, DistanceGains, scaled)
     /\ SendWheels(ClampWheels(FromUnicycle(v, omega)))
     /\ UNCHANGED powered

ResetControllers ==
  /\ heading_controller' = Fresh /\ distance_controller' = Fresh
  /\ UNCHANGED driver

\* A command that does not come from the controller, and stop_motors().
Command(target) == SendWheels(target) /\ UNCHANGED <<controllers, powered>>
StopMotors == Command(Still)

StartMotors ==
  powered' = TRUE /\ UNCHANGED <<controllers, last_command, e_stop, stops>>

\* shutdown(): one ramped stop, then the driver is off.
Shutdown ==
  SendWheels(Still) /\ powered' = FALSE /\ UNCHANGED controllers

\* send(emergency_stop()): also when inactive, at once, and not latched.
EmergencyStop ==
  /\ last_command' = Still /\ e_stop' = TRUE /\ stops' = 0
  /\ UNCHANGED <<controllers, powered>>

DriveNext ==
  \/ \E h \in HeadingError, d \in DistanceError : Steer(h, d)
  \/ \E t \in [Wheel -> Target] : Command(t)
  \/ ResetControllers \/ StopMotors \/ StartMotors \/ Shutdown \/ EmergencyStop

DriveSpec == DriveInit /\ [][DriveNext]_driveVars

-----------------------------------------------------------------------------
Controller(gains) == [integral : -gains.int .. gains.int, prev_error : Int]

DriveTypeOK ==
  /\ heading_controller \in Controller(HeadingGains)
  /\ distance_controller \in Controller(DistanceGains)
  /\ powered \in BOOLEAN /\ e_stop \in BOOLEAN
  /\ last_command \in [Wheel -> -MaxWheel .. MaxWheel] /\ stops \in 0 .. MaxWheel

\* Enough stop commands in a row, MaxWheel / Ramp of them, leave both wheels
\* still: each takes Ramp off what a wheel still turns.
StoppedInTime ==
  \A w \in Wheel :
    last_command[w] # 0 => Abs(last_command[w]) + stops * Ramp =< MaxWheel

\* A step changes a wheel's speed by at most Ramp, unless it is an emergency
\* stop, and while the driver is off (and stays off) it can only end in rest.
RampStep ==
  \A w \in Wheel :
    \/ Abs(last_command'[w] - last_command[w]) =< Ramp /\ (powered \/ UNCHANGED last_command)
    \/ e_stop' /\ last_command'[w] = 0

\* Whatever errors the controller is given, and although its products wrap:
\* the wheels follow any sequence of commands within the hardware's speed and
\* ramp, and stop within a bounded number of stop commands.
SpeedsRamped == []StoppedInTime /\ [][RampStep]_driveVars
=============================================================================
