------------------------------ MODULE Interlock ------------------------------
(***************************************************************************)
(* HardwareInterlock (src/hardware/gpio.rs): the listener that waits for   *)
(* an edge on the lidar's safety pin, takes the motor-enable pin low and   *)
(* alerts the state machine, then ends.                                    *)
(*                                                                         *)
(* The kernel queues edges.  poll_interrupt (rppal, external) is called    *)
(* with reset = true: it first drops the edges queued before the call.     *)
(***************************************************************************)
EXTENDS Naturals

CONSTANT AlertCapacity   \* capacity of the alert channel (1)

ASSUME InterlockAssumption == AlertCapacity \in Nat \ {0}

VARIABLES
  listener,   \* "looping", "polling", "failed", "tripped", "alerting", "done"
  edge,       \* an edge is queued
  motor_pin,  \* "high", "low", or "released" when the listener is dropped
  alerts,     \* alerts in the channel
  receiver    \* the receiver of the channel is there

interlockVars == <<listener, edge, motor_pin, alerts, receiver>>

\* new(), and the call of listen_for_interrupt()
InterlockInit ==
  /\ listener = "looping" /\ edge = FALSE /\ motor_pin = "high"
  /\ alerts = 0 /\ receiver = TRUE

\* The line falls.
FallingEdge ==
  /\ listener # "done" /\ edge' = TRUE
  /\ UNCHANGED <<listener, motor_pin, alerts, receiver>>

\* The state machine takes an alert, or is gone.
TakeAlert ==
  /\ receiver /\ alerts > 0 /\ alerts' = alerts - 1
  /\ UNCHANGED <<listener, edge, motor_pin, receiver>>
ReceiverGone ==
  /\ receiver /\ receiver' = FALSE
  /\ UNCHANGED <<listener, edge, motor_pin, alerts>>

\* The head of the loop: poll_interrupt() drops what is queued, and waits.
Poll ==
  /\ listener \in {"looping", "failed"} /\ listener' = "polling" /\ edge' = FALSE
  /\ UNCHANGED <<motor_pin, alerts, receiver>>

\* Its results: an edge, a second without one, or an error (of the GPIO or of
\* the blocking task), which is logged.
AfterEdgeBug == "looping"
AfterEdge == "tripped"

PollReturns ==
  /\ listener = "polling"
  /\ \/ edge /\ listener' = AfterEdge /\ edge' = FALSE
     \/ ~edge /\ listener' = "looping" /\ UNCHANGED edge
     \/ listener' = "failed" /\ UNCHANGED edge
  /\ UNCHANGED <<motor_pin, alerts, receiver>>

SetLow ==
  /\ listener = "tripped" /\ listener' = "alerting" /\ motor_pin' = "low"
  /\ UNCHANGED <<edge, alerts, receiver>>

\* alert_tx.send() waits for room and fails without a receiver; the loop ends,
\* and with the listener its pins are dropped.
SendAlert ==
  /\ listener = "alerting"
  /\ \/ receiver /\ alerts < AlertCapacity /\ alerts' = alerts + 1
     \/ ~receiver /\ UNCHANGED alerts
  /\ listener' = "done" /\ motor_pin' = "released"
  /\ UNCHANGED <<edge, receiver>>

Listen == Poll \/ PollReturns \/ SetLow \/ SendAlert

InterlockNext == FallingEdge \/ TakeAlert \/ ReceiverGone \/ Listen

\* The listener is a task of the runtime, and each of its polls returns within
\* a second.
InterlockFair == WF_interlockVars(Listen)

InterlockSpec == InterlockInit /\ [][InterlockNext]_interlockVars /\ InterlockFair

-----------------------------------------------------------------------------
InterlockTypeOK ==
  /\ listener \in {"looping", "polling", "failed", "tripped", "alerting", "done"}
  /\ edge \in BOOLEAN /\ motor_pin \in {"high", "low", "released"}
  /\ alerts \in 0 .. AlertCapacity /\ receiver \in BOOLEAN

\* An edge that falls while the listener polls takes the motors' pin from
\* high, unless that poll fails; the alert never keeps the listener waiting;
\* and the pin is not high again, nor the listener done, without a trip.
TripStops ==
  /\ (listener = "polling" /\ edge) ~> (motor_pin # "high" \/ listener = "failed")
  /\ (listener = "tripped") ~> (listener = "done")
  /\ [][motor_pin # "high" => motor_pin' # "high"]_interlockVars
  /\ [](listener = "done" <=> motor_pin = "released")
=============================================================================
