------------------------------ MODULE InputBus ------------------------------
(***************************************************************************)
(* The bus of input shift registers (Machine/I2SIBus.cpp), the peripheral  *)
(* or the task that samples it (Machine/I2SIn.cpp, shiftInTask), and what  *)
(* hangs on its pins: limit switches (Machine/LimitPin.cpp) and control    *)
(* pins (ControlPin.cpp), next to limit switches on pins of the processor  *)
(* that share the mask of limits.                                          *)
(*                                                                         *)
(* The bus is started first; the pins are attached to it while the rest of *)
(* the machine is set up, by the main program.  The interrupts of the      *)
(* peripheral and of the processor's pins run on the core of the main      *)
(* program, so each is one step; the task that shifts in is preempted      *)
(* anywhere.  A call through a pointer that is not set yet is a panic, and *)
(* so is a failed assertion in an interrupt or in the task.                *)
(***************************************************************************)
EXTENDS Naturals, FiniteSets, FiniteSetsExt

CONSTANTS LimitPins,     \* pins of the bus that are limit switches
          ControlPins,   \* pins of the bus that are control pins
          GpioPins,      \* limit switches on pins of the processor
          MaxChanges,    \* bound: changes of an input
          MaxUnlocks     \* bound: unlocks and resets by the user

BusPins == LimitPins \cup ControlPins
Limits == LimitPins \cup GpioPins
Inputs == BusPins \cup GpioPins

\* What the constants are: assumed where the module is instantiated.
InputsAssumption ==
    /\ Inputs \subseteq Nat /\ IsFiniteSet(Inputs)
    /\ LimitPins \cap ControlPins = {} /\ BusPins \cap GpioPins = {}
    /\ MaxChanges \in Nat /\ MaxUnlocks \in Nat

NoPin == 99

VARIABLES
    setup,      \* use_shift_in, pins that are active low, must_home or check_limits, and
                \* whether spindle or coolant have pins, which fail before their init
    level,      \* what is at the inputs
    s_value,    \* the bits of the last sample
    s_started,  \* a sample was handled (i2s_in_started, s_started)
    s_mask,     \* s_interrupt_mask, and the processor's pins with an interrupt
    s_pins,     \* pins whose detail is in s_int_pins
    handler,    \* handleValueChange in the task: pins to call, and where in a callback
    limits,     \* Axes::posLimitMask and negLimitMask
    held,       \* ControlPin::_value
    events,     \* the realtime variables of the control pins
    rtReset,
    rtAlarm,
    state,      \* sys.state
    boot,       \* the main program: where it is
    unseen,     \* history: pins whose interrupt came before they were attached, or not at all
    torn,       \* history: pins a write based on an old value took back
    risk,       \* history: limit switches known as open that closed, since the last alarm
    changes,    \* bound
    unlocks     \* bound

machine == <<rtReset, rtAlarm, state>>
pins == <<limits, held, events>>
bus == <<s_value, s_started, s_mask, s_pins, handler>>
vars == <<setup, level, bus, pins, machine, boot, unseen, torn, risk, changes, unlocks>>

Idler == [at |-> "idle", todo |-> {}, copy |-> {}]

Low == setup.low
\* Pin::read with the polarity of the pin, from the input or from the last sample.
Active(p) == level[p] # (p \in Low)
Read(p) == IF p \in BusPins THEN s_value[p] # (p \in Low) ELSE Active(p)

-----------------------------------------------------------------------------
(* The callbacks of the pins: LimitPin::handleISR, ControlPin::handleISR    *)

\* mc_reset switches spindle and coolant off.  Both exist when the pins are attached,
\* but are set up last: Null::setState and a coolant without pins do not mind.
SwitchesOff ==
    setup.outputs => boot.at \notin {"axes", "control", "pin", "clear", "read", "store", "state"}

Running == boot.at # "panic"
Panic == boot' = [boot EXCEPT !.at = "panic"]

\* Mutant: the alarm is only raised when something moves.
UnalarmedInMotion == rtAlarm = "None" /\ state = "Cycle"

\* The conditions of a limit pin for an alarm; hard_limits is on.
Unalarmed == rtAlarm = "None" /\ state # "Alarm"

\* Interrupts of the pins in P at once; those in on are active now.  What
\* mc_reset makes of the alarm is overwritten.
Interrupt(P, on) ==
    LET stop == on \cap Limits # {} /\ Unalarmed
    IN
    /\ limits' = (limits \ P) \cup (on \cap Limits)
    /\ held' = (held \ P) \cup (on \cap ControlPins)
    /\ events' = events \cup (on \cap ControlPins)
    /\ rtReset' = (rtReset \/ stop)
    /\ rtAlarm' = IF stop THEN "HardLimit" ELSE rtAlarm
    /\ IF stop /\ ~rtReset /\ ~SwitchesOff THEN Panic ELSE UNCHANGED boot
    /\ torn' = torn \ P
    /\ UNCHANGED state

-----------------------------------------------------------------------------
(* Samples                                                                  *)

\* The peripheral, as i2s_in_init sets it up, and shiftInValue deliver the
\* inputs of all chips together, in the same order.
Frame == [p \in BusPins |-> level[p]]

\* Mutant: pins are only called when they change.
ChangedSince == {p \in BusPins : level[p] # s_value[p]}

\* handleValueChange: the first sample counts as a change of every pin.
Changed == {p \in BusPins : ~s_started \/ level[p] # s_value[p]}

\* Nothing is handed on while no pin is attached.
Called == Changed \cap s_mask

ReadBus == /\ Running
           /\ ~s_started \/ Changed # {}
           /\ s_value' = Frame
           /\ s_started' = TRUE

\* i2s_in_intr_handler, at the end of a frame.
i2s_in_intr_handler ==
    /\ ~setup.shift
    /\ ReadBus
    /\ unseen' = (unseen \cup Changed) \ Called
    /\ IF Called \subseteq s_pins
       THEN Interrupt(Called, {p \in Called : Active(p)})
       ELSE Panic /\ UNCHANGED <<pins, machine, torn>>
    /\ UNCHANGED <<setup, level, s_mask, s_pins, handler, changes, unlocks>>

\* A round of shiftInTask; s_mask is looked at again for every pin, unless it
\* is empty now.
shiftInTask ==
    /\ setup.shift /\ handler.at = "idle"
    /\ ReadBus
    /\ LET todo == IF s_mask \cap BusPins = {} THEN {} ELSE Changed
       IN /\ handler' = IF todo = {} THEN Idler ELSE [Idler EXCEPT !.at = "pins", !.todo = todo]
          /\ unseen' = (unseen \cup Changed) \ todo
    /\ UNCHANGED <<setup, level, s_mask, s_pins, pins, machine, boot, torn, changes, unlocks>>

Now == Min(handler.todo)
Later == handler.todo \ {Now}

NextPin == handler' = IF Later = {} THEN Idler
                      ELSE [Idler EXCEPT !.at = "pins", !.todo = Later]

AtPin(at) == Running /\ handler.at = at

SkipPin ==
    /\ AtPin("pins") /\ Now \notin s_mask
    /\ NextPin
    /\ unseen' = unseen \cup {Now}
    /\ UNCHANGED <<setup, level, s_value, s_started, s_mask, s_pins, pins, machine, boot,
                   torn, changes, unlocks>>

CallNull ==
    /\ AtPin("pins") /\ Now \in s_mask \ s_pins
    /\ Panic
    /\ UNCHANGED <<setup, level, bus, pins, machine, unseen, torn, changes, unlocks>>

CallControl ==
    /\ AtPin("pins") /\ Now \in s_pins \cap ControlPins
    /\ held' = IF Read(Now) THEN held \cup {Now} ELSE held \ {Now}
    /\ events' = IF Read(Now) THEN events \cup {Now} ELSE events
    /\ unseen' = unseen \ {Now} /\ torn' = torn \ {Now}
    /\ NextPin
    /\ UNCHANGED <<setup, level, s_value, s_started, s_mask, s_pins, limits, machine, boot,
                   changes, unlocks>>

\* set_bits or clear_bits: the mask is read ...
CallLimit ==
    /\ AtPin("pins") /\ Now \in s_pins \cap Limits
    /\ handler' = [handler EXCEPT !.at = "write", !.copy = limits]
    /\ UNCHANGED <<setup, level, s_value, s_started, s_mask, s_pins, pins, machine, boot,
                   unseen, torn, changes, unlocks>>

\* ... and written.  An interrupt between the two is taken back.
WriteLimit ==
    /\ AtPin("write")
    /\ limits' = IF Read(Now) THEN handler.copy \cup {Now} ELSE handler.copy \ {Now}
    /\ torn' = (torn \cup SymDiff(limits, handler.copy)) \ {Now}
    /\ unseen' = unseen \ {Now}
    /\ IF Read(Now) THEN handler' = [handler EXCEPT !.at = "test"] ELSE NextPin
    /\ UNCHANGED <<setup, level, s_value, s_started, s_mask, s_pins, held, events, machine,
                   boot, changes, unlocks>>

\* The state and the alarm are tested, and mc_reset is called.
TestLimit ==
    /\ AtPin("test")
    /\ IF ~Unalarmed
       THEN NextPin /\ UNCHANGED <<machine, boot>>
       ELSE /\ handler' = [handler EXCEPT !.at = "alarm"]
            /\ rtReset' = TRUE
            /\ rtAlarm' = IF ~rtReset /\ state = "Cycle" THEN "AbortCycle" ELSE rtAlarm
            /\ IF ~rtReset /\ ~SwitchesOff THEN Panic ELSE UNCHANGED boot
            /\ UNCHANGED state
    /\ UNCHANGED <<setup, level, s_value, s_started, s_mask, s_pins, pins, unseen, torn,
                   changes, unlocks>>

RaiseAlarm ==
    /\ AtPin("alarm")
    /\ rtAlarm' = "HardLimit"
    /\ NextPin
    /\ UNCHANGED <<setup, level, s_value, s_started, s_mask, s_pins, pins, rtReset, state,
                   boot, unseen, torn, changes, unlocks>>

-----------------------------------------------------------------------------
(* The main program: main_init, run_once, the main loop                     *)

Go(at) == boot' = [boot EXCEPT !.at = at]

\* Motor::init and Control::init attach pin by pin; first the mask is set, ...
Attach(p) ==
    /\ \/ boot.at = "axes" /\ p \in Limits
       \/ boot.at = "control" /\ p \in ControlPins
    /\ p \notin s_mask
    /\ s_mask' = s_mask \cup {p}
    /\ IF p \in GpioPins THEN UNCHANGED boot
                         ELSE boot' = [boot EXCEPT !.at = "pin", !.pin = p]
    /\ UNCHANGED <<setup, level, s_value, s_started, s_pins, handler, pins, machine, unseen,
                   torn, changes, unlocks>>

\* ... then the pointer to the pin.
SetPin ==
    /\ boot.at = "pin"
    /\ s_pins' = s_pins \cup {boot.pin}
    /\ Go(IF boot.pin \in Limits THEN "axes" ELSE "clear")
    /\ UNCHANGED <<setup, level, s_value, s_started, s_mask, handler, pins, machine, unseen,
                   torn, changes, unlocks>>

\* ControlPin::init forgets what happened, reads the pin ...
ClearEvent ==
    /\ boot.at = "clear"
    /\ events' = events \ {boot.pin}
    /\ Go("read")
    /\ UNCHANGED <<setup, level, bus, limits, held, machine, unseen, torn, changes, unlocks>>

ReadPin ==
    /\ boot.at = "read"
    /\ boot' = [boot EXCEPT !.at = "store", !.value = Read(boot.pin)]
    /\ UNCHANGED <<setup, level, bus, pins, machine, unseen, torn, changes, unlocks>>

\* ... and keeps it, with an alarm if it is active.
StorePin ==
    LET p == boot.pin IN
    /\ boot.at = "store"
    /\ held' = IF boot.value THEN held \cup {p} ELSE held \ {p}
    /\ rtAlarm' = IF boot.value THEN "ControlPin" ELSE rtAlarm
    /\ torn' = IF s_started /\ boot.value # Read(p) THEN torn \cup {p} ELSE torn
    /\ unseen' = IF s_started THEN unseen \ {p} ELSE unseen
    /\ Go("control")
    /\ UNCHANGED <<setup, level, bus, limits, events, rtReset, state, changes, unlocks>>

Attached(P) == P \subseteq s_mask

\* main_init goes on when all pins of a part are attached.
InitControl ==
    /\ boot.at = "axes" /\ Attached(Limits)
    /\ Go("control")
    /\ UNCHANGED <<setup, level, bus, pins, machine, unseen, torn, changes, unlocks>>

InitState ==
    /\ boot.at = "control" /\ Attached(ControlPins)
    /\ Go("state")
    /\ state' = IF setup.start = "must_home" THEN "Alarm" ELSE "Idle"
    /\ UNCHANGED <<setup, level, bus, pins, rtReset, rtAlarm, unseen, torn, changes, unlocks>>

InitSpindle ==
    /\ boot.at = "state"
    /\ Go("reset")
    /\ UNCHANGED <<setup, level, bus, pins, machine, unseen, torn, changes, unlocks>>

\* reset_variables; protocol_reset leaves rtAlarm alone.
run_once ==
    /\ boot.at = "reset"
    /\ events' = {}
    /\ rtReset' = FALSE
    /\ Go("check")
    /\ UNCHANGED <<setup, level, bus, limits, held, rtAlarm, state, unseen, torn, changes, unlocks>>

\* The beginning of protocol_main_loop.  The pins that are held are left to
\* the door check, which belongs to another part.
CheckLimits ==
    /\ boot.at = "check"
    /\ state' = IF state = "Alarm" \/ (setup.start = "check_limits" /\ limits # {})
                THEN "Alarm" ELSE "Idle"
    /\ Go("loop")
    /\ UNCHANGED <<setup, level, bus, pins, rtReset, rtAlarm, unseen, torn, changes, unlocks>>

\* protocol_do_alarm: after a hard limit only a reset goes on.
protocol_do_alarm ==
    /\ boot.at = "loop" /\ rtAlarm # "None"
    /\ state' = "Alarm"
    /\ IF rtAlarm = "HardLimit"
       THEN rtReset' = FALSE /\ Go("critical") /\ UNCHANGED rtAlarm
       ELSE rtAlarm' = "None" /\ UNCHANGED <<rtReset, boot>>
    /\ UNCHANGED <<setup, level, bus, pins, unseen, torn, changes, unlocks>>

EndAlarm ==
    /\ boot.at = "critical" /\ rtReset
    /\ rtAlarm' = "None"
    /\ Go("loop")
    /\ UNCHANGED <<setup, level, bus, pins, rtReset, state, unseen, torn, changes, unlocks>>

HandleReset ==
    /\ boot.at = "loop" /\ rtAlarm = "None" /\ rtReset
    /\ Go("reset")
    /\ UNCHANGED <<setup, level, bus, pins, machine, unseen, torn, changes, unlocks>>

-----------------------------------------------------------------------------
(* The user and the inputs                                                  *)

Waiting == boot.at = "loop" /\ rtAlarm = "None" /\ ~rtReset

\* disable_alarm_lock with isStuck.
Unlock ==
    /\ Waiting /\ state = "Alarm"
    /\ unlocks < MaxUnlocks
    /\ unlocks' = unlocks + 1
    /\ IF held # {} THEN rtAlarm' = "ControlPin" /\ UNCHANGED state
                    ELSE state' = "Idle" /\ UNCHANGED rtAlarm
    /\ UNCHANGED <<setup, level, bus, pins, rtReset, boot, unseen, torn, changes>>

\* The reset character, with mc_reset.
UserReset ==
    /\ boot.at \in {"loop", "critical"} /\ ~rtReset
    /\ unlocks < MaxUnlocks
    /\ unlocks' = unlocks + 1
    /\ rtReset' = TRUE
    /\ rtAlarm' = IF state = "Cycle" THEN "AbortCycle" ELSE rtAlarm
    /\ UNCHANGED <<setup, level, bus, pins, state, boot, unseen, torn, changes>>

Move == /\ Waiting /\ state = "Idle"
        /\ state' = "Cycle"
        /\ UNCHANGED <<setup, level, bus, pins, rtReset, rtAlarm, boot, unseen, torn, changes, unlocks>>

Rest == /\ Waiting /\ state = "Cycle"
        /\ state' = "Idle"
        /\ UNCHANGED <<setup, level, bus, pins, rtReset, rtAlarm, boot, unseen, torn, changes, unlocks>>

Change(p) ==
    /\ Running /\ changes < MaxChanges
    /\ changes' = changes + 1
    /\ level' = [level EXCEPT ![p] = ~@]
    /\ UNCHANGED <<setup, bus, unlocks>>

ChangeBusPin(p) == Change(p) /\ UNCHANGED <<pins, machine, boot, unseen, torn>>

\* A pin of the processor interrupts at once.
ChangeGpioPin(p) ==
    /\ Change(p)
    /\ IF p \in s_mask
       THEN Interrupt({p}, IF Active(p) THEN {} ELSE {p}) /\ unseen' = unseen \ {p}
       ELSE UNCHANGED <<pins, machine, boot, unseen, torn>>

-----------------------------------------------------------------------------
Init ==
    /\ setup \in [shift : BOOLEAN, low : SUBSET BusPins,
                  start : {"free", "check_limits", "must_home"}, outputs : BOOLEAN]
    /\ level \in [Inputs -> BOOLEAN]
    /\ s_value = [p \in BusPins |-> FALSE]
    /\ s_started = FALSE
    /\ s_mask = {} /\ s_pins = {}
    /\ handler = Idler
    /\ limits = {} /\ held = {} /\ events = {}
    /\ rtReset = FALSE /\ rtAlarm = "None" /\ state = "Idle"
    /\ boot = [at |-> "axes", pin |-> NoPin, value |-> FALSE]
    /\ unseen = GpioPins
    /\ torn = {} /\ risk = {}
    /\ changes = 0 /\ unlocks = 0

ShiftIn == \/ shiftInTask \/ SkipPin \/ CallNull \/ CallControl \/ CallLimit
           \/ WriteLimit \/ TestLimit \/ RaiseAlarm

Boot == \/ \E p \in Inputs : Attach(p)
        \/ SetPin \/ ClearEvent \/ ReadPin \/ StorePin
        \/ InitControl \/ InitState \/ InitSpindle

Loop == \/ run_once \/ CheckLimits \/ protocol_do_alarm \/ EndAlarm \/ HandleReset

Outside == \/ Unlock \/ UserReset \/ Move \/ Rest
           \/ \E p \in BusPins : ChangeBusPin(p)
           \/ \E p \in GpioPins : ChangeGpioPin(p)

Remember == risk' = {p \in Limits :
    /\ Active(p)' /\ state' # "Alarm"
    /\ p \in risk \/ (~Active(p) /\ p \notin limits /\ boot.at = "loop")}

Next == (i2s_in_intr_handler \/ ShiftIn \/ Boot \/ Loop \/ Outside) /\ Remember

Spec == Init /\ [][Next]_vars

-----------------------------------------------------------------------------
(* What the input bus promises the program.                                 *)

\* The last sample is what is at the pins, and it was handled.
Delivered == Running /\ s_started /\ handler.at = "idle"
             /\ \A p \in BusPins : s_value[p] = level[p]

\* Exempt: pins whose last interrupt came before they were attached or that
\* had none, and pins a write with an old value took back.
Told == Inputs \ (unseen \cup torn)

\* Whatever was sampled before, between and after the attachment of the pins,
\* what the program goes by (the mask of the limit switches, the values of the
\* control pins) agrees with the pins and their polarity.
InputsKnown ==
    Delivered => \A p \in Told \cap s_mask : Active(p) <=> p \in limits \cup held

\* A limit switch that closed while the machine was not in alarm has stopped it
\* by the time its change was handled and the main program has come around.
ClosedSwitchStops ==
    Delivered /\ boot.at = "loop" /\ rtAlarm = "None" => risk \cap Told = {}

\* The two together: a switch is known, and what it asks for is done.
SwitchesHeeded == InputsKnown /\ ClosedSwitchStops
-----------------------------------------------------------------------------
(* The inductive invariant of both.                                         *)

Handlers == [at : {"idle", "pins", "write", "test", "alarm"}, todo : SUBSET BusPins,
             copy : SUBSET Limits]
Programs == [at : {"axes", "pin", "control", "clear", "read", "store", "state", "reset",
                   "check", "loop", "critical", "panic"},
             pin : Inputs \cup {NoPin}, value : BOOLEAN]

InputTyped ==
    /\ level \in [Inputs -> BOOLEAN] /\ s_value \in [BusPins -> BOOLEAN] /\ s_started \in BOOLEAN
    /\ s_mask \subseteq Inputs /\ s_pins \subseteq s_mask \cap BusPins
    /\ limits \subseteq Limits /\ held \subseteq ControlPins
    /\ handler \in Handlers /\ boot \in Programs

\* The pins are attached in the order of main_init, and all before the first run.
AttachedInOrder ==
    /\ boot.at \in {"pin", "clear", "read", "store"} => boot.pin \in s_mask \cap BusPins
    /\ boot.at \in {"clear", "read", "store"} => boot.pin \in ControlPins
    /\ \/ boot.at \in {"control", "clear", "read", "store", "state", "reset", "check", "loop", "critical"}
       \/ boot.at = "pin" /\ boot.pin \in ControlPins
       => Limits \subseteq s_mask
    /\ boot.at \in {"state", "reset", "check", "loop", "critical"} => Inputs \subseteq s_mask

\* Pins whose change the task still has to hand on, and those it is not done with.
Pending == IF handler.at \in {"test", "alarm"} THEN Later ELSE handler.todo
OnItsWay(p) == p \in handler.todo \/ (handler.at \in {"test", "alarm"} /\ p = Now)

HandlerPlaced ==
    /\ handler.at = "idle" => handler.todo = {}
    /\ handler.at \in {"write", "test", "alarm"} => Now \in s_pins \cap Limits

\* A pin that is not exempt is attached and known as it was sampled, or about to be.
PinsKnown ==
    \A p \in Told :
        \/ p \in Pending
        \/ p \in BusPins /\ ~s_started
        \/ p \in s_mask /\ (Read(p) <=> p \in limits \cup held)

\* A switch that closed has raised an alarm, or its change is still on its way.
RiskAnswered ==
    /\ boot.at = "critical" => state = "Alarm"
    /\ \A p \in risk :
           /\ p \in Limits /\ Active(p) /\ state # "Alarm"
           /\ \/ rtAlarm # "None"
              \/ p \notin Told
              \/ OnItsWay(p)
              \/ p \in BusPins /\ (~s_started \/ s_value[p] # level[p])

InputBusInv ==
    InputTyped /\ AttachedInOrder /\ HandlerPlaced /\ (Running => PinsKnown /\ RiskAnswered)
=============================================================================
