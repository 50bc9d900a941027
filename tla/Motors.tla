------------------------------- MODULE Motors -------------------------------
(***************************************************************************)
(* The drivers of motors (Motors/): steppers on pins, unipolar steppers,   *)
(* Trinamic chips on SPI or a UART, RC servos and Dynamixel servos, and    *)
(* what turns them on and off: cycles, jogs, the idle time, $MD, homing,   *)
(* alarms and sleep (Stepper.cpp, Protocol.cpp, Machine/Axes.cpp).         *)
(*                                                                         *)
(* Two tasks call the drivers.  The main program carries out its calls one *)
(* motor after the other; the task of Servo.cpp goes through the servos    *)
(* again and again.  Calls of the task's drivers are cut at each access to *)
(* what the two share: the tasks run on one core at the same priority.     *)
(* The interrupt makes steps, each pulse with its end in one step.         *)
(***************************************************************************)
EXTENDS Integers, Sequences, FiniteSets, SequencesExt

CONSTANTS Machines,    \* configurations: motors, the shared disable pin, and idle_ms of 255
          MaxPos,      \* positions of an axis are 0..MaxPos; it is homed at MaxPos
          MaxCalls     \* bound: cycles, jogs, commands, alarms and resets

Steppers == {"standard", "unipolar", "spi", "tmc_2208", "tmc_2209"}
Uarts == {"tmc_2208", "tmc_2209"}
Chips == {"spi"} \cup Uarts
Servos == {"servo", "dynamixel"}

\* What the constants are: assumed where the module is instantiated.
MotorsAssumption ==
    /\ MaxPos \in Nat \ {0} /\ MaxCalls \in Nat
    /\ \A machine \in Machines :
          /\ machine.shared \in BOOLEAN /\ machine.stayEnabled \in BOOLEAN
          /\ \A m \in DOMAIN machine.motors : machine.motors[m].kind \in Steppers \cup Servos

VARIABLES
    machine,    \* the configuration
    drivers,    \* members of the driver objects
    out,        \* what the hardware was told: pins, registers of chips, pulses, torque
    rotor,      \* where the rotors are
    pos,        \* motor_steps
    plan,       \* pl.position
    sys,        \* sys.state, rtAlarm, idleEndTime, the shared pin and the axes that home
    isr,        \* the stepping timer, steps that are left, their dir_mask and previous_dir
    todo,       \* calls that the main program and the task have begun
    alive,      \* the task of the servos exists
    buf, rx,    \* _dxl_tx_message of each motor, and the answer in the UART
    history,    \* steps due, last request, what was written, collisions, what the task saw
    calls       \* bound

vars == <<machine, drivers, out, rotor, pos, plan, sys, isr, todo, alive, buf, rx, history, calls>>

Motors == DOMAIN machine.motors
Kind(m) == machine.motors[m].kind
Axis(m) == machine.motors[m].axis
Axes == {Axis(m) : m \in Motors}
Of(kinds) == {m \in Motors : Kind(m) \in kinds}

-----------------------------------------------------------------------------
(* Calls that are under way. *)

Call(do, m, on, value) == [do |-> do, motor |-> m, on |-> on, value |-> value]
Each(do, ms, on) == LET all == SetToSortSeq(ms, <) IN [i \in DOMAIN all |-> Call(do, all[i], on, 0)]

\* Axes::set_disable for all axes, with the shared pin at the end.
DisableAll(on) == Each("disable", Motors, on) \o <<Call("shared", 0, on, 0)>>
ModeOf(axes, on) == Each("mode", {m \in Motors : Axis(m) \in axes}, on)

Writing == {"duty", "ledc", "fill", "send"}
Collisions(t) == {m \in Motors : \A who \in {"main", "task"} :
                     \E i \in DOMAIN t[who] : t[who][i].motor = m /\ t[who][i].do \in Writing}

\* The thread `who` has done the head of its calls, which makes these first.
Done(who, first) == todo' = [todo EXCEPT ![who] = first \o Tail(@)]

Heard(h) == history' = [h EXCEPT !.raced = @ \cup Collisions(todo')]

\* A servo is not where the task last saw it.
Stale(h, ms) == [h EXCEPT !.fresh = @ \ ms]
OnAxes(axes) == {m \in Motors : Axis(m) \in axes}

-----------------------------------------------------------------------------
(* Positions and pulses. *)

Clamp(p) == IF p < 0 THEN 0 ELSE IF p > MaxPos THEN MaxPos ELSE p

\* The pulse or the count of a servo at a position; 0 is no pulse.
Count(m, p) == 1 + IF machine.motors[m].invert THEN MaxPos - Clamp(p) ELSE Clamp(p)

\* dxl_read_position: an inverted direction does not count, read_settings swaps the
\* minimum with itself.
Mpos(count) == count - 1

Toff(d) == IF d.disabled THEN "off" ELSE IF d.mode = "StealthChop" THEN "stealthchop" ELSE "coolstep"

\* The coils of a unipolar motor, and where they pull the rotor to, in eighths of a turn.
Angle(m, phase) == IF machine.motors[m].half THEN phase ELSE 2 * phase + 1
Coils(angle) == CASE angle = 0 -> {0} [] angle = 1 -> {0, 1} [] angle = 2 -> {1} [] angle = 3 -> {1, 2}
                  [] angle = 4 -> {2} [] angle = 5 -> {2, 3} [] angle = 6 -> {3} [] angle = 7 -> {0, 3}
Pulled(r, coils) == LET angle == CHOOSE a \in 0..7 : Coils(a) = coils
                    IN  r + ((angle - r + 3) % 8) - 3

-----------------------------------------------------------------------------
(* set_disable of one motor. *)

DisableStandard(who, c) ==
    /\ Kind(c.motor) = "standard"
    /\ out' = [out EXCEPT ![c.motor].off = c.on]
    /\ Done(who, <<>>)
    /\ UNCHANGED drivers

\* Mutant: the coils of a motor that is disabled stay on.
CoilsLeft(who, c) ==
    /\ Kind(c.motor) = "unipolar"
    /\ drivers' = [drivers EXCEPT ![c.motor].disabled = c.on]
    /\ Done(who, <<>>)
    /\ UNCHANGED out

DisableUnipolar(who, c) ==
    /\ Kind(c.motor) = "unipolar"
    /\ out' = [out EXCEPT ![c.motor].coils = IF c.on THEN {} ELSE @]
    /\ drivers' = [drivers EXCEPT ![c.motor].disabled = c.on]
    /\ Done(who, <<>>)

DisableChip(who, c) ==
    /\ Kind(c.motor) \in Chips
    /\ LET d == [drivers[c.motor] EXCEPT !.disabled = c.on]
       IN  IF drivers[c.motor].errors \/ drivers[c.motor].disabled = c.on THEN UNCHANGED <<drivers, out>>
           ELSE /\ drivers' = [drivers EXCEPT ![c.motor] = d]
                /\ out' = [out EXCEPT ![c.motor].off = c.on,
                                      ![c.motor].toff = IF machine.motors[c.motor].useEnable THEN Toff(d) ELSE @]
    /\ Done(who, <<>>)

DisableServo(who, c) ==
    /\ Kind(c.motor) = "servo"
    /\ drivers' = [drivers EXCEPT ![c.motor].disabled = IF drivers[c.motor].errors THEN @ ELSE c.on]
    /\ Done(who, IF c.on /\ ~drivers[c.motor].errors THEN <<Call("duty", c.motor, TRUE, 0)>> ELSE <<>>)
    /\ UNCHANGED out

\* dxl_write: the message, the flush with what is sent, the answer.
Torque(m, off) == <<Call("fill", m, off, 0), Call("send", m, FALSE, 0), Call("receive", m, FALSE, 0)>>

DisableDynamixel(who, c) ==
    /\ Kind(c.motor) = "dynamixel"
    /\ drivers' = [drivers EXCEPT ![c.motor].disabled = c.on]
    /\ Done(who, IF drivers[c.motor].disabled = c.on THEN <<>> ELSE Torque(c.motor, c.on))
    /\ UNCHANGED out

Writes(m, on) == CASE Kind(m) \in Chips -> ~drivers[m].errors /\ drivers[m].disabled # on
                   [] Kind(m) = "dynamixel" -> drivers[m].disabled # on
                   [] OTHER -> TRUE

Disable(who, c) ==
    /\ c.do = "disable"
    /\ \/ DisableStandard(who, c) \/ DisableUnipolar(who, c) \/ DisableChip(who, c)
       \/ DisableServo(who, c) \/ DisableDynamixel(who, c)
    /\ Heard([Stale(history, {c.motor}) EXCEPT !.asked[c.motor] = c.on,
                 !.written = IF Writes(c.motor, c.on) THEN @ \cup {c.motor} ELSE @])
    /\ UNCHANGED <<rotor, pos, plan, sys, isr, alive, buf, rx>>

DisableShared(who, c) ==
    /\ c.do = "shared"
    /\ sys' = [sys EXCEPT !.shared = c.on]
    /\ Done(who, <<>>)
    /\ UNCHANGED <<drivers, out, rotor, pos, plan, isr, alive, buf, rx, history>>

-----------------------------------------------------------------------------
(* set_homing_mode of one motor. *)

\* set_mode: what is written to the chip.
SpiMode(o, mode) ==
    CASE mode = "StealthChop" -> [o EXCEPT !.chop = "pwm", !.diag = FALSE]
      [] mode = "CoolStep"    -> [o EXCEPT !.chop = "spread", !.speeds = "normal"]
      [] mode = "StallGuard"  -> [o EXCEPT !.chop = "spread", !.speeds = "homing", !.diag = TRUE]

\* A TMC2208 supports StealthChop alone, and is told nothing else.
UartMode(kind, o, mode) ==
    CASE mode = "StealthChop" -> [o EXCEPT !.chop = "pwm"]
      [] mode # "StealthChop" /\ kind = "tmc_2208" -> o
      [] mode = "CoolStep" /\ kind = "tmc_2209" -> [o EXCEPT !.chop = "spread"]
      [] mode = "StallGuard" /\ kind = "tmc_2209" -> [o EXCEPT !.chop = "fixed", !.speeds = "homing"]

Configured(m, o, mode) == IF Kind(m) = "spi" THEN SpiMode(o, mode) ELSE UartMode(Kind(m), o, mode)

ChipMode(m, on) == IF on THEN machine.motors[m].homing ELSE machine.motors[m].run

\* SPI chips keep the mode; for the UART ones it is a local variable.
ModeChip(who, c) ==
    /\ Kind(c.motor) \in Chips
    /\ IF drivers[c.motor].errors THEN UNCHANGED <<drivers, out>>
       ELSE LET mode == ChipMode(c.motor, c.on)
            IN  /\ drivers' = [drivers EXCEPT ![c.motor].mode = IF Kind(c.motor) = "spi" THEN mode ELSE @]
                /\ out' = [out EXCEPT ![c.motor] = Configured(c.motor, @, mode)]
    /\ Done(who, <<>>)
    /\ Heard(history)
    /\ UNCHANGED pos

\* Only the start of homing is for an RC servo: it goes home by itself.
ModeServo(who, c) ==
    /\ Kind(c.motor) = "servo"
    /\ IF drivers[c.motor].errors \/ ~c.on
       THEN Done(who, <<>>) /\ Heard(history) /\ UNCHANGED <<drivers, pos>>
       ELSE /\ pos' = [pos EXCEPT ![Axis(c.motor)] = MaxPos]
            /\ drivers' = [drivers EXCEPT ![c.motor].disabled = FALSE]
            /\ Done(who, <<Call("duty", c.motor, FALSE, Count(c.motor, MaxPos))>>)
            /\ Heard([Stale(history, OnAxes({Axis(c.motor)})) EXCEPT !.asked[c.motor] = FALSE,
                         !.written = @ \cup {c.motor}])
    /\ UNCHANGED out

\* A Dynamixel is given the position of its home at the end of homing, too.
ModeDynamixel(who, c) ==
    /\ Kind(c.motor) = "dynamixel"
    /\ IF drivers[c.motor].errors THEN Done(who, <<>>) /\ Heard(history) /\ UNCHANGED pos
       ELSE /\ pos' = [pos EXCEPT ![Axis(c.motor)] = MaxPos]
            /\ Done(who, <<Call("disable", c.motor, FALSE, 0)>>)
            /\ Heard(Stale(history, OnAxes({Axis(c.motor)})))
    /\ UNCHANGED <<drivers, out>>

ModeOther(who, c) ==
    /\ Kind(c.motor) \in {"standard", "unipolar"}
    /\ Done(who, <<>>)
    /\ UNCHANGED <<drivers, out, pos, history>>

Mode(who, c) ==
    /\ c.do = "mode"
    /\ ModeChip(who, c) \/ ModeServo(who, c) \/ ModeDynamixel(who, c) \/ ModeOther(who, c)
    /\ UNCHANGED <<rotor, plan, sys, isr, alive, buf, rx>>

-----------------------------------------------------------------------------
(* What servos are sent. *)

\* _write_pwm: compared and noted, then written.
WriteDuty(who, c) ==
    /\ c.do = "duty"
    /\ IF drivers[c.motor].duty = c.value THEN Done(who, <<>>) /\ UNCHANGED drivers
       ELSE /\ drivers' = [drivers EXCEPT ![c.motor].duty = c.value]
            /\ Done(who, <<Call("ledc", c.motor, c.on, c.value)>>)
    /\ Heard(history)
    /\ UNCHANGED <<out, rotor, pos, plan, sys, isr, alive, buf, rx>>

ledcSetDuty(who, c) ==
    /\ c.do = "ledc"
    /\ out' = [out EXCEPT ![c.motor].duty = c.value]
    /\ Done(who, <<>>)
    /\ UNCHANGED <<drivers, rotor, pos, plan, sys, isr, alive, buf, rx, history>>

\* The main program fills in a write of the torque, the task a read.
Fill(who, c) ==
    /\ c.do = "fill"
    /\ buf' = [buf EXCEPT ![c.motor] = IF who = "task" THEN "read" ELSE IF c.on THEN "off" ELSE "on"]
    /\ Done(who, <<>>)
    /\ Heard(history)
    /\ UNCHANGED <<drivers, out, rotor, pos, plan, sys, isr, alive, rx>>

\* dxl_finish_message: the length is the caller's, the rest is what the buffer has by
\* now.  A read that is cut to the length of a write is refused by the motor.
Send(who, c) ==
    /\ c.do = "send"
    /\ LET m == c.motor
           answers == out[m].answers
       IN  /\ out' = [out EXCEPT ![m].off = IF answers /\ buf[m] # "read" THEN buf[m] = "off" ELSE @]
           /\ rx' = IF ~answers THEN <<>>
                    ELSE IF buf[m] = "read" /\ who = "task" THEN <<rotor[m] + 1>>
                    ELSE <<0>>
    /\ Done(who, <<>>)
    /\ Heard(history)
    /\ UNCHANGED <<drivers, rotor, pos, plan, sys, isr, alive, buf>>

\* dxl_get_response: a position is longer than another answer.
Receive(who, c) ==
    /\ c.do = "receive"
    /\ rx' = <<>>
    /\ IF who = "task" /\ rx # <<>> /\ rx[1] # 0
       THEN LET a == Axis(c.motor)
            IN  /\ pos' = [pos EXCEPT ![a] = Mpos(rx[1])]
                /\ plan' = pos'
                /\ history' = [Stale(history, OnAxes({a})) EXCEPT
                                  !.fresh = IF rx[1] = rotor[c.motor] + 1 THEN @ \cup {c.motor} ELSE @,
                                  !.disturbed = @ \/ sys.state # "Idle" \/ todo.main # <<>>]
       ELSE UNCHANGED <<pos, plan, history>>
    /\ Done(who, <<>>)
    /\ UNCHANGED <<drivers, out, rotor, sys, isr, alive, buf>>

\* dxl_bulk_goal_position: in a buffer of its own, to all Dynamixels, whose range is
\* taken for that of the motor that calls.
Goal(caller, m) == Count(caller, pos[Axis(m)]) - 1

UpdateServo(who, c) ==
    /\ Kind(c.motor) = "servo"
    /\ LET d == drivers[c.motor]
       IN  IF d.disabled \/ d.errors THEN Done(who, <<>>) /\ UNCHANGED history
           ELSE /\ Done(who, <<Call("duty", c.motor, FALSE, Count(c.motor, pos[Axis(c.motor)]))>>)
                /\ Heard([history EXCEPT !.fresh = @ \cup {c.motor}])
    /\ UNCHANGED <<rotor, rx>>

dxl_bulk_goal_position(caller) ==
    LET moved == {m \in Of({"dynamixel"}) : ~out[m].off /\ out[m].answers}
    IN  /\ rotor' = [m \in Motors |-> IF m \in moved THEN Goal(caller, m) ELSE rotor[m]]
        /\ rx' = <<>>
        /\ history' = [history EXCEPT !.fresh = (@ \ {m \in Of({"dynamixel"}) : drivers[m].disabled}) \cup moved]

UpdateDynamixel(who, c) ==
    /\ Kind(c.motor) = "dynamixel"
    /\ LET d == drivers[c.motor]
       IN  \/ d.errors /\ Done(who, <<>>) /\ UNCHANGED <<rotor, rx, history>>
           \/ /\ d.disabled /\ ~d.errors
              /\ Done(who, Torque(c.motor, FALSE)) /\ Heard(history)
              /\ UNCHANGED <<rotor, rx>>
           \/ ~d.disabled /\ ~d.errors /\ dxl_bulk_goal_position(c.motor) /\ Done(who, <<>>)

Update(who, c) ==
    /\ c.do = "update"
    /\ UpdateServo(who, c) \/ UpdateDynamixel(who, c)
    /\ UNCHANGED <<drivers, out, pos, plan, sys, isr, alive, buf>>

\* Servo::updateTask: a pass over the list, the servo that was made last first.
UpdatePass ==
    /\ alive /\ todo.task = <<>> /\ sys.state # "Boot"
    /\ todo' = [todo EXCEPT !.task = Reverse(Each("update", Of(Servos), FALSE))]
    /\ UNCHANGED <<machine, drivers, out, rotor, pos, plan, sys, isr, alive, buf, rx, history, calls>>

-----------------------------------------------------------------------------
(* The start of the drivers. *)

\* Whether a chip passes its test: an SPI one if it answers, since the checks of the
\* faults it reports are commented out; a UART one if it is not too hot either and finds
\* no short to the supply, while one to ground is reported and returned as none.
TestSpi == BOOLEAN
TestUart == BOOLEAN

\* Whether the UART of the Dynamixels can be set to half duplex, and whether one of them
\* answers a ping.
Dynamixels == {"no UART", "silent", "there"}

InitPins(m) == Kind(m) = "standard" /\ UNCHANGED <<drivers, out, alive>>

InitUnipolar(m) ==
    /\ Kind(m) = "unipolar"
    /\ drivers' = [drivers EXCEPT ![m].phase = 0]
    /\ UNCHANGED <<out, alive>>

\* The members of a chip that fails stay as they are, and so do its registers.
Tested(m, ok) ==
    /\ drivers' = [drivers EXCEPT ![m].errors = ~ok]
    /\ out' = IF ok THEN [out EXCEPT ![m] = Configured(m, @, ChipMode(m, FALSE))] ELSE out
    /\ UNCHANGED alive

\* A UART chip is tested and configured at once, an SPI one by config_motor.
InitSpi(m) == Kind(m) = "spi" /\ drivers' = [drivers EXCEPT ![m].errors = FALSE] /\ UNCHANGED <<out, alive>>
InitUart(m) == Kind(m) \in Uarts /\ \E ok \in TestUart : Tested(m, ok)

\* startUpdateTask: only the servo that was made last starts the task of all.
StartTask(m) == alive' = (alive \/ \A n \in Of(Servos) : n <= m)

\* A servo without a pin has errors, and starts nothing.
InitServo(m) ==
    /\ Kind(m) = "servo"
    /\ \E pin \in BOOLEAN :
          /\ drivers' = IF pin THEN [drivers EXCEPT ![m].duty = 0, ![m].disabled = TRUE]
                        ELSE [drivers EXCEPT ![m].errors = TRUE]
          /\ IF pin THEN StartTask(m) ELSE UNCHANGED alive
    /\ UNCHANGED out

\* Without the UART init returns, and the driver does not know.  set_disable(true) finds
\* the driver disabled, and leaves the torque as it was; the mode and the LED are written.
InitDynamixel(m) ==
    /\ Kind(m) = "dynamixel"
    /\ \E found \in Dynamixels :
          /\ drivers' = [drivers EXCEPT ![m].errors = (found = "silent")]
          /\ out' = [out EXCEPT ![m].answers = (found = "there")]
          /\ IF found = "there" THEN StartTask(m) ELSE UNCHANGED alive

InitMotor(who, c) ==
    /\ c.do = "init"
    /\ \/ InitPins(c.motor) \/ InitUnipolar(c.motor) \/ InitSpi(c.motor)
       \/ InitUart(c.motor) \/ InitServo(c.motor) \/ InitDynamixel(c.motor)
    /\ Done(who, <<>>)
    /\ UNCHANGED <<rotor, pos, plan, sys, isr, buf, rx, history>>

\* config_motors, when all drivers are there.
ConfigMotor(who, c) ==
    /\ c.do = "config"
    /\ \E ok \in TestSpi : Tested(c.motor, ok)
    /\ Done(who, <<>>)
    /\ UNCHANGED <<rotor, pos, plan, sys, isr, buf, rx, history>>

\* go_idle: the timer stops, and the drivers stay on, go off or will go off.
GoIdle(who, c) ==
    /\ c.do = "goIdle"
    /\ isr' = [isr EXCEPT !.on = FALSE]
    /\ LET off == sys.state = "Sleep" \/ sys.rtAlarm
       IN  \/ /\ sys.state = "Homing" \/ (~off /\ machine.stayEnabled)
              /\ Done(who, DisableAll(FALSE)) /\ UNCHANGED sys
           \/ /\ sys.state # "Homing" /\ off
              /\ Done(who, DisableAll(TRUE)) /\ UNCHANGED sys
           \/ /\ sys.state # "Homing" /\ ~off /\ ~machine.stayEnabled
              /\ Done(who, <<>>) /\ sys' = [sys EXCEPT !.idleEnd = TRUE]
    /\ UNCHANGED <<drivers, out, rotor, pos, plan, alive, buf, rx, history>>

\* The timer is started; the state is changed; planner and counters agree again.
Go(who, c) ==
    /\ c.do \in {"start", "Idle", "Alarm"}
    /\ isr' = IF c.do = "start" THEN [isr EXCEPT !.on = TRUE] ELSE isr
    /\ sys' = IF c.do = "start" THEN sys
              ELSE [sys EXCEPT !.state = c.do, !.rtAlarm = FALSE, !.homing = {}]
    /\ plan' = IF c.do = "start" THEN plan ELSE pos
    /\ Done(who, <<>>)
    /\ UNCHANGED <<drivers, out, rotor, pos, alive, buf, rx, history>>

Run(who) ==
    /\ todo[who] # <<>>
    /\ LET c == Head(todo[who])
       IN  \/ Disable(who, c) \/ DisableShared(who, c) \/ Mode(who, c) \/ WriteDuty(who, c)
           \/ ledcSetDuty(who, c) \/ Fill(who, c) \/ Send(who, c) \/ Receive(who, c)
           \/ Update(who, c) \/ InitMotor(who, c) \/ ConfigMotor(who, c)
           \/ GoIdle(who, c) \/ Go(who, c)
    /\ UNCHANGED <<machine, calls>>

-----------------------------------------------------------------------------
(* The interrupt: Axes::step and Axes::unstep. *)

Powered(m) ==
    CASE Kind(m) = "unipolar" -> ~drivers[m].disabled
      [] Kind(m) \in Servos -> FALSE
      [] OTHER -> ~(machine.shared /\ sys.shared) /\ ~out[m].off /\ out[m].toff # "off"

\* One pulse of a driver d with hardware o and rotor r; dir is the bit of the dir_mask.
UnipolarStep(m, d, o, r) ==
    LET phases == IF machine.motors[m].half THEN 8 ELSE 4
        phase == (d.phase + IF d.dir THEN 1 ELSE phases - 1) % phases
        coils == Coils(Angle(m, phase))
    IN  IF d.disabled THEN [d |-> d, o |-> o, r |-> r]
        ELSE [d |-> [d EXCEPT !.phase = phase], o |-> [o EXCEPT !.coils = coils], r |-> Pulled(r, coils)]

\* The rotor goes on at an edge of the step pin.
PinStep(m, d, o, r) ==
    [d |-> d, o |-> [o EXCEPT !.step = TRUE],
     r |-> IF Powered(m) /\ ~o.step THEN r + (IF o.dir THEN -1 ELSE 1) ELSE r]

Stepped(m, d, o) == IF Kind(m) = "unipolar" THEN UnipolarStep(m, d, o, rotor[m]) ELSE PinStep(m, d, o, rotor[m])

Unstep(m, o) == IF Kind(m) = "unipolar" THEN o ELSE [o EXCEPT !.step = FALSE]

\* How far a step takes the rotor: a unipolar one turns the other way.
Turn(m, by) == IF Kind(m) # "unipolar" THEN by ELSE IF machine.motors[m].half THEN -by ELSE -2 * by

\* set_direction of all motors, when the directions are not those of the last steps.
Directed(all) == IF isr.dirs = isr.previous THEN all
                 ELSE [m \in Motors |-> [all[m] EXCEPT !.dir = Axis(m) \in isr.dirs]]

Step ==
    /\ isr.on
    /\ \E a \in Axes :
          /\ isr.left[a] # 0
          /\ LET by == IF isr.left[a] > 0 THEN 1 ELSE -1
                 d == Directed(drivers)
                 o == Directed(out)
                 go == {m \in Of(Steppers) : Axis(m) = a}
             IN  /\ isr' = [isr EXCEPT !.left[a] = @ - by, !.previous = isr.dirs]
                 /\ drivers' = [m \in Motors |-> IF m \in go THEN Stepped(m, d[m], o[m]).d ELSE d[m]]
                 /\ out' = [m \in Motors |-> Unstep(m, IF m \in go THEN Stepped(m, d[m], o[m]).o ELSE o[m])]
                 /\ rotor' = [m \in Motors |-> IF m \in go THEN Stepped(m, d[m], o[m]).r ELSE rotor[m]]
                 /\ pos' = [pos EXCEPT ![a] = @ + by]
                 /\ history' = [Stale(history, OnAxes({a})) EXCEPT
                                   !.due = [m \in Motors |-> IF m \in go /\ Powered(m) THEN @[m] + Turn(m, by) ELSE @[m]]]
    /\ UNCHANGED <<machine, plan, sys, todo, alive, buf, rx, calls>>

-----------------------------------------------------------------------------
(* What the main program is asked for, between its calls. *)

Ready == todo.main = <<>>
Main(items) == todo' = [todo EXCEPT !.main = items]
Moving == sys.state \in {"Cycle", "Jog"}

Asked == calls < MaxCalls /\ calls' = calls + 1

\* Mutant: a cycle does not clear the idle time either.
IdleTimeKept(state) ==
    /\ Ready /\ sys.state = "Idle" /\ Asked
    /\ \E a \in Axes, by \in {-1, 1, 2} :
          /\ pos[a] + by \in 0..MaxPos
          /\ isr' = [isr EXCEPT !.left[a] = by, !.dirs = IF by < 0 THEN {a} ELSE {}]
          /\ plan' = [plan EXCEPT ![a] = @ + by]
    /\ sys' = [sys EXCEPT !.state = state]
    /\ Main(DisableAll(FALSE) \o <<Call("start", 0, TRUE, 0)>>)
    /\ history' = [history EXCEPT !.dropped = FALSE]
    /\ UNCHANGED <<machine, drivers, out, rotor, pos, alive, buf, rx>>

\* protocol_do_initiate_cycle and, without a word to the idle time, jog_execute.
Start(state) ==
    /\ Ready /\ sys.state = "Idle" /\ Asked
    /\ \E a \in Axes, by \in {-1, 1, 2} :
          /\ pos[a] + by \in 0..MaxPos
          /\ isr' = [isr EXCEPT !.left[a] = by, !.dirs = IF by < 0 THEN {a} ELSE {}]
          /\ plan' = [plan EXCEPT ![a] = @ + by]
    /\ sys' = [sys EXCEPT !.state = state, !.idleEnd = @ /\ state = "Jog"]
    /\ Main(DisableAll(FALSE) \o <<Call("start", 0, TRUE, 0)>>)
    /\ history' = [history EXCEPT !.dropped = FALSE]
    /\ UNCHANGED <<machine, drivers, out, rotor, pos, alive, buf, rx>>

StartCycle == Start("Cycle")
StartJog == Start("Jog")

\* The interrupt has run out of segments: the end of the motion is handled.
CycleStop ==
    /\ Ready /\ Moving /\ isr.on /\ \A a \in Axes : isr.left[a] = 0
    /\ Main(<<Call("goIdle", 0, TRUE, 0)>>)
    /\ sys' = [sys EXCEPT !.state = "Idle"]
    /\ UNCHANGED <<machine, drivers, out, rotor, pos, plan, isr, alive, buf, rx, history, calls>>

\* protocol_main_loop: the idle time is over, whatever the state is.
IdleDisable ==
    /\ Ready /\ sys.idleEnd /\ sys.state # "Homing"
    /\ sys' = [sys EXCEPT !.idleEnd = FALSE]
    /\ Main(DisableAll(TRUE))
    /\ history' = [history EXCEPT !.dropped = @ \/ sys.state = "Jog"]
    /\ UNCHANGED <<machine, drivers, out, rotor, pos, plan, isr, alive, buf, rx, calls>>

\* $MD: all motors, or those of some axes.
motor_disable ==
    /\ Ready /\ sys.state # "Homing" /\ Asked
    /\ \/ Main(DisableAll(TRUE))
       \/ ~machine.shared /\ \E axes \in SUBSET Axes \ {{}} : Main(Each("disable", OnAxes(axes), TRUE))
    /\ history' = [history EXCEPT !.dropped = @ \/ Moving]
    /\ UNCHANGED <<machine, drivers, out, rotor, pos, plan, sys, isr, alive, buf, rx>>

CanHome == {m \in Motors : Kind(m) \in Steppers /\ Axis(m) \in sys.homing}

\* $H of one axis or all: run_one_cycle.
Home ==
    /\ Ready /\ sys.state \in {"Idle", "Alarm"} /\ Asked
    /\ \E axes \in {{a} : a \in Axes} \cup {Axes} :
          /\ sys' = [sys EXCEPT !.state = "Homing", !.homing = axes]
          /\ Main(ModeOf(axes, TRUE))
    /\ UNCHANGED <<machine, drivers, out, rotor, pos, plan, isr, alive, buf, rx, history>>

\* The runs, with their wake_up and reset, are those of Homing.  Then set_mpos.
Homed ==
    /\ Ready /\ sys.state = "Homing"
    /\ pos' = [a \in Axes |-> IF a \in sys.homing THEN MaxPos ELSE pos[a]]
    /\ history' = Stale(history, OnAxes(sys.homing))
    /\ Main((IF CanHome = {} THEN <<>> ELSE DisableAll(FALSE)) \o ModeOf(sys.homing, FALSE)
            \o <<Call("Idle", 0, TRUE, 0), Call("goIdle", 0, TRUE, 0)>>)
    /\ UNCHANGED <<machine, drivers, out, rotor, plan, sys, isr, alive, buf, rx, calls>>

\* Mutant: a run that fails leaves the motors in the mode of homing.
HomingModeLeft ==
    /\ Ready /\ sys.state = "Homing" /\ CanHome # {}
    /\ sys' = [sys EXCEPT !.rtAlarm = TRUE]
    /\ Main(DisableAll(FALSE)
            \o <<Call("goIdle", 0, TRUE, 0), Call("Alarm", 0, TRUE, 0), Call("goIdle", 0, TRUE, 0)>>)
    /\ UNCHANGED <<machine, drivers, out, rotor, pos, plan, isr, alive, buf, rx, history, calls>>

\* A run fails: the motors leave homing, mc_reset, the alarm, and the reset.
HomingFails ==
    /\ Ready /\ sys.state = "Homing" /\ CanHome # {}
    /\ sys' = [sys EXCEPT !.rtAlarm = TRUE]
    /\ Main(DisableAll(FALSE) \o ModeOf(sys.homing, FALSE)
            \o <<Call("goIdle", 0, TRUE, 0), Call("Alarm", 0, TRUE, 0), Call("goIdle", 0, TRUE, 0)>>)
    /\ UNCHANGED <<machine, drivers, out, rotor, pos, plan, isr, alive, buf, rx, history, calls>>

\* A limit switch or an abort in motion, then the reset.
Abort ==
    /\ Ready /\ Moving /\ isr.on /\ Asked
    /\ sys' = [sys EXCEPT !.rtAlarm = TRUE]
    /\ isr' = [isr EXCEPT !.left = [a \in Axes |-> 0]]
    /\ Main(<<Call("goIdle", 0, TRUE, 0), Call("Alarm", 0, TRUE, 0), Call("goIdle", 0, TRUE, 0)>>)
    /\ UNCHANGED <<machine, drivers, out, rotor, pos, plan, alive, buf, rx, history>>

\* Sleep turns the motors off at once; a reset ends it.
Sleep ==
    /\ Ready /\ sys.state \in {"Idle", "Alarm"} /\ Asked
    /\ sys' = [sys EXCEPT !.state = "Sleep"]
    /\ Main(<<Call("goIdle", 0, TRUE, 0)>>)
    /\ UNCHANGED <<machine, drivers, out, rotor, pos, plan, isr, alive, buf, rx, history>>

\* A reset without motion: run_once, with Stepper::reset, and the main loop.
Reset ==
    /\ Ready /\ sys.state \in {"Idle", "Alarm", "Sleep"} /\ Asked
    /\ Main(<<Call("goIdle", 0, TRUE, 0), Call(IF sys.state = "Idle" THEN "Idle" ELSE "Alarm", 0, TRUE, 0)>>)
    /\ UNCHANGED <<machine, drivers, out, rotor, pos, plan, sys, isr, alive, buf, rx, history>>

\* $X
disable_alarm_lock ==
    /\ Ready /\ sys.state = "Alarm"
    /\ sys' = [sys EXCEPT !.state = "Idle"]
    /\ UNCHANGED <<machine, drivers, out, rotor, pos, plan, isr, todo, alive, buf, rx, history, calls>>

\* A servo without torque is moved by hand.
ByHand ==
    /\ calls < MaxCalls
    /\ \E m \in Of({"dynamixel"}) :
          /\ out[m].off /\ out[m].answers
          /\ \E p \in {0, MaxPos} \ {rotor[m]} : rotor' = [rotor EXCEPT ![m] = p]
          /\ history' = Stale(history, {m})
    /\ calls' = calls + 1
    /\ UNCHANGED <<machine, drivers, out, pos, plan, sys, isr, todo, alive, buf, rx>>

-----------------------------------------------------------------------------

Init ==
    /\ machine \in Machines
    /\ drivers = [m \in Motors |-> [disabled |-> Kind(m) \in {"unipolar"} \cup Servos, mode |-> "StealthChop",
                                    errors |-> FALSE, duty |-> 0, phase |-> 0, dir |-> TRUE]]
    /\ \E off \in BOOLEAN : out = [m \in Motors |->
          [off |-> off, toff |-> "begin", chop |-> "begin", speeds |-> "begin", diag |-> FALSE,
           step |-> FALSE, dir |-> FALSE, coils |-> {}, duty |-> 0, answers |-> FALSE]]
    /\ rotor = [m \in Motors |-> IF Kind(m) = "unipolar" THEN Angle(m, 0) ELSE 0]
    /\ pos = [a \in Axes |-> 0] /\ plan = pos
    /\ \E state \in {"Idle", "Alarm"} :
          todo = [main |-> Each("init", Motors, FALSE) \o Each("config", Of({"spi"}), FALSE)
                           \o <<Call(state, 0, TRUE, 0), Call("goIdle", 0, TRUE, 0)>>,
                  task |-> <<>>]
    /\ sys = [state |-> "Boot", rtAlarm |-> FALSE, idleEnd |-> FALSE, shared |-> FALSE, homing |-> {}]
    /\ isr = [on |-> FALSE, left |-> [a \in Axes |-> 0], dirs |-> {}, previous |-> {"none"}]
    /\ alive = FALSE /\ buf = [m \in Motors |-> "on"] /\ rx = <<>> /\ calls = 0
    /\ history = [due |-> rotor, asked |-> [m \in Motors |-> FALSE], written |-> {}, raced |-> {},
                  fresh |-> {}, disturbed |-> FALSE, dropped |-> FALSE]

Next == \/ Run("main") \/ Run("task") \/ UpdatePass \/ Step
        \/ StartCycle \/ StartJog \/ CycleStop \/ IdleDisable \/ motor_disable
        \/ Home \/ Homed \/ HomingFails \/ Abort \/ Sleep \/ Reset \/ disable_alarm_lock \/ ByHand

Spec == Init /\ [][Next]_vars

-----------------------------------------------------------------------------
(* Properties. *)

Heeds(m) == /\ ~drivers[m].errors /\ m \notin history.raced
            /\ Kind(m) = "dynamixel" => out[m].answers

PowerAsAsked ==
    Ready => \A m \in history.written : Heeds(m) =>
        LET off == history.asked[m]
        IN  CASE Kind(m) = "unipolar" -> drivers[m].disabled = off /\ (off => out[m].coils = {})
              [] Kind(m) = "servo" -> off => out[m].duty = 0
              [] Kind(m) \in Chips -> /\ out[m].off = off
                                      /\ machine.motors[m].useEnable => ((out[m].toff = "off") = off)
              [] OTHER -> out[m].off = off

ChipAsAsked ==
    Ready => \A m \in Of(Chips) : Heeds(m) /\ (Kind(m) = "tmc_2208" => machine.motors[m].run = "StealthChop") =>
        LET mode == IF Kind(m) = "tmc_2208" THEN "StealthChop"
                    ELSE ChipMode(m, sys.state = "Homing" /\ Axis(m) \in sys.homing)
            o == out[m]
        IN  /\ (o.chop = "pwm") = (mode = "StealthChop")
            /\ mode = "StallGuard" => o.speeds = "homing" /\ (Kind(m) = "spi" => o.diag)
            /\ mode = "CoolStep" => o.chop = "spread" /\ (Kind(m) = "spi" => o.speeds = "normal")
            /\ mode = "StealthChop" => ~o.diag

DriversOn ==
    isr.on /\ Moving /\ ~history.dropped =>
        \A m \in Of(Steppers) : ~drivers[m].errors /\ m \in history.written => Powered(m)

StepsMade == \A m \in Of(Steppers) : rotor[m] = history.due[m]

ServosFollow ==
    Ready /\ todo.task = <<>> => \A m \in history.fresh : Heeds(m) =>
        LET p == pos[Axis(m)]
        IN  CASE Kind(m) = "servo" -> drivers[m].disabled \/ out[m].duty = Count(m, p)
              [] OTHER -> (drivers[m].disabled /\ machine.motors[m].invert) \/ rotor[m] = Count(m, p) - 1

PlanKept == Ready /\ sys.state = "Idle" /\ ~history.disturbed => plan = pos

\* Motors that work are on and off as last asked, chips are in the mode of what the
\* machine does, steps in motion find drivers on, unless $MD or, in a jog, the idle time
\* turned them off, and turn the rotors as asked; servos are where the counters say or
\* the counters where the servos are; and the planner goes on from there.
MotorsAsAsked == PowerAsAsked /\ ChipAsAsked /\ DriversOn /\ StepsMade /\ ServosFollow /\ PlanKept
=============================================================================
