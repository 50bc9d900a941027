------------------------------- MODULE Homing -------------------------------
(***************************************************************************)
(* Homing ($H): the command in ProcessSettings.cpp, mc_homing_cycle, and   *)
(* Machine/Homing.cpp with the locks of Machine/Axes.cpp and the switch    *)
(* masks of Machine/LimitPin.cpp, against the step interrupt that moves    *)
(* the motors and the pins of the reset button and the safety door.        *)
(*                                                                         *)
(* A motor's position is its distance from its limit switch, in steps, so  *)
(* that the direction of homing is always downwards; motor_steps has the   *)
(* same sign.  The axes of a motion step in any order, each as far as the  *)
(* motion was planned for it.  The machine (cycles, motors, switches,      *)
(* rates, pull-off distances) is one of a set.                             *)
(***************************************************************************)
EXTENDS Integers, Sequences, FiniteSets, FiniteSetsExt

CONSTANTS
    Axis,       \* the axes
    Machines,   \* configurations
    Starts,     \* bound: positions where a motor may be at first
    Faults,     \* faults of a switch: subset of {"on", "off"}
    Buttons,    \* subset of {"reset", "door"}: pins that may be used
    MaxHomes    \* bound: homing commands

ASSUME ConstantsAssumption ==
    /\ IsFiniteSet(Axis)
    /\ Faults \subseteq {"on", "off"} /\ Buttons \subseteq {"reset", "door"}
    /\ MaxHomes \in Nat

VARIABLES
    machine,    \* the configuration
    fault,      \* [Axis -> {"none"} \cup Faults]: of the axis's switches
    pos,        \* [Motor -> Int]: where the motors are
    pc,         \* where the main program is
    state,      \* sys.state
    rtReset, rtSafetyDoor, rtCycleStop, rtAlarm,
    cycles,     \* the cycles still to run, each a set of axes
    current,    \* axes of this cycle
    phases,     \* the calls of run() that this cycle still makes
    phase,      \* the call that runs
    remaining,  \* remainingMotors
    locks,      \* _motorLockoutMask
    motion,     \* the motion the interrupt executes: on, left per axis
    unpolled,   \* [Axis -> Nat]: steps since the switches were looked at
    steps,      \* motor_steps
    asked,      \* axes of the command
    homed,      \* history: axes that were given a position
    failed,     \* history: a cycle of the command failed
    homes       \* bound

vars == <<machine, fault, pos, pc, state, rtReset, rtSafetyDoor, rtCycleStop,
          rtAlarm, cycles, current, phases, phase, remaining, locks, motion,
          unpolled, steps, asked, homed, failed, homes>>

inputs == <<rtReset, rtSafetyDoor>>
plan   == <<cycles, current, phases>>
moves  == <<pos, motion, unpolled, steps>>
config == <<machine, fault>>

Motor == Axis \X {0, 1}
-----------------------------------------------------------------------------
(* The limit switches.  A switch at one motor of a pair that has only one   *)
(* is seen by both (makeDualMask).                                          *)

MotorsOf(a) == {<<a, n>> : n \in machine.motors[a]}
motorsWithSwitches(a) == Cardinality(machine.switches[a])
hasDualMotor(a) == Cardinality(machine.motors[a]) = 2
Shared(a) == hasDualMotor(a) /\ motorsWithSwitches(a) = 1

Closed(a, m) == /\ fault[a] # "off"
                /\ \/ fault[a] = "on"
                   \/ pos[m] <= 0
                   \/ Shared(a) /\ \E n \in MotorsOf(a) : pos[n] <= 0

(* LimitPin::handleISR keeps the masks equal to the pins.                   *)
limits_get_state ==
    UNION {{m \in MotorsOf(a) : /\ m[2] \in machine.switches[a] \/ Shared(a)
                                /\ Closed(a, m)} : a \in Axis}

\* One pin for both ends sets both masks.
ambiguousLimit == \E m \in limits_get_state : m[1] \in machine.allPins

-----------------------------------------------------------------------------
(* plan_move: how far the axes of a motion go                               *)

AxesOf(motors) == {m[1] : m \in motors}
Pair(motors, a) == {<<a, 0>>, <<a, 1>>} \subseteq motors

Pulloff(motors, a, custom) ==
    IF Pair(motors, a) THEN machine.pulloff[<<a, 0>>]
    ELSE IF custom # 0 THEN custom
    ELSE machine.pulloff[<<a, IF <<a, 0>> \in motors THEN 0 ELSE 1>>]

TravelOf(p, a) == IF p.seek THEN machine.maxTravel
                  ELSE Pulloff(p.motors, a, p.custom)

\* Times in units of which all rates are divisors.
TimeUnit == 2
SeekTime(p, a) == (TravelOf(p, a) * TimeUnit) \div machine.rate[a]
MaxSeekTime(p) == Max({0} \cup {SeekTime(p, a) : a \in AxesOf(p.motors)})
LimitingRates(p) ==
    IF MaxSeekTime(p) = 0 THEN {0}
    ELSE {machine.rate[a] : a \in {b \in AxesOf(p.motors) :
                                       SeekTime(p, b) = MaxSeekTime(p)}}

\* The scaler of an approach is not smaller than the 1.1 of the code.
Distance(p, a, limitingRate) ==
    IF a \notin AxesOf(p.motors) THEN 0
    ELSE (SeekTime(p, a) * limitingRate * (IF p.approach THEN 2 ELSE 1))
             \div TimeUnit

-----------------------------------------------------------------------------
(* run_one_cycle: the calls of run(), by the kind of squaring               *)

Run(motors, approach, seek) ==
    [motors |-> motors, approach |-> approach, seek |-> seek, custom |-> 0]

Squared(motors) == {a \in AxesOf(motors) : Pair(motors, a)}
squaredOneSwitch(motors) ==
    \E a \in Squared(motors) : motorsWithSwitches(a) = 1
squaredStressfree(motors) ==
    /\ Squared(motors) # {}
    /\ \A a \in Squared(motors) : motorsWithSwitches(a) = 2

MOTOR0(motors) == {m \in motors : m[2] = 0}
MOTOR1(motors) == {m \in motors : m[2] = 1}

pulloffOffset(a) == machine.pulloff[<<a, 1>>] - machine.pulloff[<<a, 0>>]

Nudges(motors) ==
    LET uneven == {a \in AxesOf(MOTOR0(motors)) :
                       hasDualMotor(a) /\ pulloffOffset(a) # 0}
    IN  [i \in 1 .. Cardinality(uneven) |->
            [Run(MOTOR1(motors), FALSE, FALSE) EXCEPT
                !.custom = pulloffOffset(CHOOSE a \in uneven :
                    Cardinality({b \in uneven : machine.order[b] < machine.order[a]})
                        = i - 1)]]

\* Mutant: the second approach is left out.
CallsOnce(motors) == <<Run(motors, TRUE, TRUE), Run(motors, FALSE, FALSE)>>

Calls(motors) ==
    LET locate == <<Run(motors, TRUE, TRUE), Run(motors, FALSE, FALSE)>>
        again  == <<Run(motors, TRUE, FALSE), Run(motors, FALSE, FALSE)>>
        one(ms) == <<Run(ms, TRUE, FALSE), Run(ms, FALSE, FALSE)>>
    IN  IF squaredOneSwitch(motors)
        THEN locate \o one(MOTOR0(motors)) \o one(MOTOR1(motors))
        ELSE locate \o again \o
             IF squaredStressfree(motors) THEN Nudges(motors) ELSE <<>>

-----------------------------------------------------------------------------
(* The step interrupt: an axis counts a step, and those of its motors that  *)
(* are not locked make it (Axes::step).                                     *)

\* Assumption: at the feed rate the loop of run() looks at the switches after
\* each step and before the first; at the seek rate it may be a step late.
Running == pc \in {"Run", "Stop", "Failed"}
Polled(a) == unpolled[a] <= IF phase.seek /\ phase.approach THEN 1 ELSE 0

StepAxis(a) ==
    /\ motion.on /\ motion.left[a] > 0
    /\ Running => Polled(a)
    /\ LET by == IF motion.approach THEN -1 ELSE 1
       IN  /\ pos' = [m \in Motor |->
                         IF m \in MotorsOf(a) \ locks THEN pos[m] + by ELSE pos[m]]
           /\ steps' = [steps EXCEPT ![a] = @ + by]
    /\ motion' = [motion EXCEPT !.left[a] = @ - 1]
    /\ unpolled' = IF Running THEN [unpolled EXCEPT ![a] = @ + 1] ELSE unpolled
    /\ UNCHANGED <<config, pc, state, inputs, rtCycleStop, rtAlarm, plan, phase,
                   remaining, locks, asked, homed, failed, homes>>

MotionEnds ==
    /\ motion.on /\ \A a \in Axis : motion.left[a] = 0
    /\ motion' = [motion EXCEPT !.on = FALSE]
    /\ rtCycleStop' = TRUE
    /\ UNCHANGED <<config, pos, pc, state, inputs, rtAlarm, plan, phase,
                   remaining, locks, unpolled, steps, asked, homed, failed, homes>>

(* The pins of the reset button and the door set their flags directly.      *)
Press ==
    /\ pc \in {"Cycle", "Run", "Stop", "Finish"}
    /\ \/ "reset" \in Buttons /\ ~rtReset /\ rtReset' = TRUE /\ UNCHANGED rtSafetyDoor
       \/ "door" \in Buttons /\ ~rtSafetyDoor /\ rtSafetyDoor' = TRUE /\ UNCHANGED rtReset
    /\ UNCHANGED <<config, moves, pc, state, rtCycleStop, rtAlarm, plan, phase,
                   remaining, locks, asked, homed, failed, homes>>

-----------------------------------------------------------------------------
(* home() and mc_homing_cycle: all cycles in their order, or one axis       *)

CycleAxes(n) == {a \in Axis : machine.cycle[a] = n}
AllCycles ==
    LET numbers == {machine.cycle[a] : a \in Axis} \ {0}
    IN  [i \in 1 .. Cardinality(numbers) |->
            CycleAxes(CHOOSE n \in numbers :
                          Cardinality({k \in numbers : k < n}) = i - 1)]

Home ==
    /\ pc = "Idle" /\ homes < MaxHomes
    /\ homes' = homes + 1
    /\ \E one \in {{}} \cup {{a} : a \in Axis} :
           /\ cycles' = IF one = {} THEN AllCycles ELSE <<one>>
           /\ asked' = IF one = {} THEN {a \in Axis : machine.cycle[a] # 0} ELSE one
    /\ homed' = {} /\ failed' = FALSE
    /\ state' = "Homing"
    /\ pc' = IF ambiguousLimit THEN "Ambiguous" ELSE "Cycle"
    /\ UNCHANGED <<config, moves, inputs, rtCycleStop, rtAlarm, current,
                   phases, phase, remaining, locks>>

\* mc_reset and the alarm; the command ends, and nothing has aborted it yet.
Ambiguous ==
    /\ pc = "Ambiguous"
    /\ rtReset' = TRUE /\ rtAlarm' = "HardLimit"
    /\ state' = "Idle" /\ pc' = "Idle"
    /\ motion' = [motion EXCEPT !.on = FALSE]
    /\ UNCHANGED <<config, pos, unpolled, steps, rtSafetyDoor, rtCycleStop, plan,
                   phase, remaining, locks, asked, homed, failed, homes>>

(* run_cycles goes from cycle to cycle, whatever became of the last one;    *)
(* run_one_cycle: Axes::set_homing_mode unlocks all motors.                 *)
NextCycle ==
    /\ pc = "Cycle" /\ cycles # <<>>
    /\ cycles' = Tail(cycles)
    /\ current' = Head(cycles)
    /\ phases' = Calls(UNION {MotorsOf(a) : a \in Head(cycles)})
    /\ locks' = {}
    /\ pc' = "Phase"
    /\ UNCHANGED <<config, moves, state, inputs, rtCycleStop, rtAlarm, phase,
                   remaining, asked, homed, failed, homes>>

LocksFor(p) == Motor \ p.motors

(* run: plan_move plans and starts the motion, the other motors are locked. *)
StartRun ==
    /\ pc = "Phase" /\ phases # <<>>
    /\ phase' = Head(phases) /\ phases' = Tail(phases)
    /\ IF Head(phases).motors = {}
       THEN UNCHANGED <<moves, remaining, locks, pc>>
       ELSE /\ remaining' = Head(phases).motors
            /\ locks' = LocksFor(Head(phases))
            /\ \E rate \in LimitingRates(Head(phases)) :
                   motion' = [on |-> TRUE, approach |-> Head(phases).approach,
                              left |-> [a \in Axis |->
                                            Distance(Head(phases), a, rate)]]
            /\ steps' = [a \in Axis |-> IF a \in AxesOf(Head(phases).motors)
                                        THEN 0 ELSE steps[a]]
            /\ unpolled' = [a \in Axis |-> 1]
            /\ pc' = "Run"
            /\ UNCHANGED pos
    /\ UNCHANGED <<config, state, inputs, rtCycleStop, rtAlarm, cycles, current,
                   asked, homed, failed, homes>>

\* Approach: the motors at their switches are locked and leave the motion.
Limited == IF phase.approach THEN limits_get_state ELSE {}

\* What the end of the planned motion means for the motors that are left.
Missing(left) == phase.approach \/ limits_get_state \cap left # {}

\* Mutant: the end of the motion is looked at only in an approach.
EndedApproach == phase.approach /\ rtCycleStop

\* The interrupt has executed all that was planned.
Ended == rtCycleStop

Poll ==
    /\ pc = "Run"
    /\ LET left == remaining \ Limited
       IN  /\ locks' = locks \cup Limited
           /\ unpolled' = [a \in Axis |-> 0]
           /\ CASE rtReset \/ rtSafetyDoor ->
                       pc' = "Failed" /\ remaining' = left /\ UNCHANGED rtCycleStop
                [] ~rtReset /\ ~rtSafetyDoor /\ Ended ->
                       /\ rtCycleStop' = FALSE
                       /\ IF Missing(left)
                          THEN pc' = "Failed" /\ remaining' = left
                          ELSE pc' = "Stop" /\ remaining' = {}
                [] OTHER ->
                       /\ remaining' = left
                       /\ pc' = IF left = {} THEN "Stop" ELSE "Run"
                       /\ UNCHANGED rtCycleStop
    /\ UNCHANGED <<config, pos, motion, steps, state, inputs, rtAlarm, plan, phase,
                   asked, homed, failed, homes>>

(* Stepper::reset and the settling time.                                    *)
EndRun ==
    /\ pc = "Stop" /\ pc' = "Phase"
    /\ motion' = [motion EXCEPT !.on = FALSE]
    /\ UNCHANGED <<config, pos, unpolled, steps, state, inputs, rtCycleStop,
                   rtAlarm, plan, phase, remaining, locks, asked, homed, failed,
                   homes>>

(* set_mpos: the positions of the cycle's axes, with motor 0's pull-off.    *)
set_mpos ==
    steps' = [a \in Axis |-> IF a \in current THEN machine.pulloff[<<a, 0>>]
                             ELSE steps[a]]

EndCycle ==
    /\ pc = "Phase" /\ phases = <<>>
    /\ set_mpos
    /\ locks' = {}
    /\ homed' = homed \cup current
    /\ pc' = "Cycle"
    /\ UNCHANGED <<config, pos, motion, unpolled, state, inputs, rtCycleStop,
                   rtAlarm, plan, phase, remaining, asked, failed, homes>>

\* Mutant: a failed cycle does not reset the machine.
StopMachineNot == UNCHANGED <<rtReset, motion>>

\* mc_reset does nothing while a reset is pending.
StopMachine ==
    /\ rtReset' = TRUE
    /\ motion' = [motion EXCEPT !.on = @ /\ rtReset]

(* The catch of run_one_cycle: unlock, mc_reset, and the executor sets the  *)
(* alarm state; sys.abort is rtReset from here on.                          *)
Fail ==
    /\ pc = "Failed"
    /\ StopMachine
    /\ locks' = {}
    /\ state' = "Alarm" /\ failed' = TRUE
    /\ phases' = <<>>
    /\ pc' = "Cycle"
    /\ UNCHANGED <<config, pos, unpolled, steps, rtSafetyDoor, rtCycleStop, rtAlarm,
                   cycles, current, phase, remaining, asked, homed, homes>>

(* The rest of mc_homing_cycle and home(): with a reset pending the command *)
(* is aborted, else the machine is Idle.                                    *)
Finish ==
    /\ pc = "Cycle" /\ cycles = <<>>
    /\ IF rtReset
       THEN /\ pc' = "Aborted"
            /\ rtAlarm' = IF state = "Homing" THEN "HomingFailReset" ELSE rtAlarm
            /\ UNCHANGED <<state, motion>>
       ELSE /\ pc' = "Idle" /\ state' = "Idle"
            /\ motion' = [motion EXCEPT !.on = FALSE]
            /\ UNCHANGED rtAlarm
    /\ UNCHANGED <<config, pos, unpolled, steps, inputs, rtCycleStop, plan, phase,
                   remaining, locks, asked, homed, failed, homes>>

(* The main loop finds what is pending and aborts.                          *)
Abort ==
    /\ pc = "Idle" /\ rtReset
    /\ pc' = "Aborted"
    /\ state' = IF rtAlarm # "None" THEN "Alarm" ELSE state
    /\ rtAlarm' = "None"
    /\ UNCHANGED <<config, moves, inputs, rtCycleStop, plan, phase, remaining,
                   locks, asked, homed, failed, homes>>

(* run_once: reset_variables, and an alarm that is still pending.           *)
Restart ==
    /\ pc = "Aborted" /\ pc' = "Idle"
    /\ rtReset' = FALSE /\ rtSafetyDoor' = FALSE /\ rtCycleStop' = FALSE
    /\ motion' = [motion EXCEPT !.on = FALSE]
    /\ state' = IF rtAlarm # "None" THEN "Alarm" ELSE state
    /\ rtAlarm' = "None"
    /\ failed' = TRUE
    /\ UNCHANGED <<config, pos, unpolled, steps, plan, phase, remaining, locks,
                   asked, homed, homes>>

-----------------------------------------------------------------------------
Init ==
    /\ machine \in Machines
    /\ fault \in [Axis -> {"none"} \cup Faults]
    /\ pos \in [Motor -> Starts]
    /\ \A m \in Motor : m[2] \notin machine.motors[m[1]] => pos[m] = Max(Starts)
    /\ pc = "Idle" /\ state = "Alarm" /\ rtAlarm = "None"
    /\ rtReset = FALSE /\ rtSafetyDoor = FALSE /\ rtCycleStop = FALSE
    /\ cycles = <<>> /\ current = {} /\ phases = <<>>
    /\ phase = Run({}, FALSE, FALSE) /\ remaining = {} /\ locks = {}
    /\ motion = [on |-> FALSE, approach |-> FALSE, left |-> [a \in Axis |-> 0]]
    /\ unpolled = [a \in Axis |-> 0] /\ steps = [a \in Axis |-> 0]
    /\ asked = {} /\ homed = {} /\ failed = FALSE /\ homes = 0

Program == NextCycle \/ StartRun \/ Poll \/ EndRun \/ EndCycle \/ Fail \/ Finish
           \/ Ambiguous

Interrupt == (\E a \in Axis : StepAxis(a)) \/ MotionEnds

Next == Home \/ Program \/ Interrupt \/ Press \/ Abort \/ Restart

\* The program runs, and the interrupt makes the steps of the motion.
Spec == Init /\ [][Next]_vars /\ WF_vars(Program) /\ WF_vars(Interrupt)
=============================================================================
