---------------------------- MODULE Accessories ----------------------------
(***************************************************************************)
(* Coolant (CoolantControl.cpp) and the outputs of the user                *)
(* (UserOutput.cpp, Machine/UserOutputs.cpp) on their pins (Pin.cpp,       *)
(* Pins/): from the configuration that claims the pins, through the lines  *)
(* that switch them, to the toggles, holds, doors, sleep and resets that   *)
(* the realtime system puts between (Protocol.cpp).                        *)
(*                                                                         *)
(* The main program is a stack of what it has left to do; while it waits   *)
(* it takes a pass of protocol_exec_rt_system, which may put a change of   *)
(* coolant on top.  mc_reset comes from an interrupt, between any two      *)
(* writes.  Jogs, probing and homing are left out, and of motion all but   *)
(* its end.                                                                *)
(***************************************************************************)
EXTENDS Integers, Sequences

CONSTANTS
    Machines,       \* configurations: pins, hz, is there a delay, does the machine park; and
                    \* their bounds: program (lines), events (holds, sleeps, toggles, resets,
                    \* openings of the door)
    PlannerBlocks

Coolants == {"flood", "mist"}
Items == Coolants \cup {"digital", "analog"}

\* What the constants are: assumed where the module is instantiated.
AccessoriesAssumption ==
    /\ PlannerBlocks \in Nat \ {0}
    /\ \A m \in Machines : /\ m.events \in Nat /\ m.hz \in 1 .. 40000000
                          /\ \A i \in DOMAIN m.pins : m.pins[i].item \in Items

VARIABLES
    machine,    \* the configuration
    pin,        \* the PinDetail of each item
    claimed,    \* pins that are in use (_claimed, getPinsUsed)
    raw,        \* the level at each item's pin
    analog,     \* the duty that is put out, and cached: _current_value
    gc,         \* gc_state.modal.coolant
    sys,        \* state, suspend, hold (executeHold), sysMotion, flags, reset, alarm, abort,
                \* moving (the stepper timer)
    plan,       \* the coolant of each queued block
    todo,       \* what the main program has left to do, the next first
    door,       \* it is open
    history,    \* said: what user outputs were told last; late: outputs written by main in a
                \* reset; stale: the coolant restored was not the parser's; written: the analog
                \* output was set, and _current_value is known
    left        \* lines left, and events

vars == <<machine, pin, claimed, raw, analog, gc, sys, plan, todo, door, history, left>>

-----------------------------------------------------------------------------
(* Pins. *)

Undefined == [bus |-> "undefined", index |-> 0, attr |-> {}, low |-> FALSE]

\* PinCapabilities, and GetDefaultCapabilities of the processor's pins.
Capabilities(p) ==
    CASE p.bus = "i2so" -> {"Output", "I2S"}
      [] p.bus = "i2si" -> {"Input", "ISR", "I2SI"}
      [] p.bus \in {"void", "undefined"} -> {"Output", "Input", "ISR", "Void"}
      [] p.bus = "error" -> {"Error"}
      [] p.bus = "gpio" ->
            LET i == p.index
                pulls == {"PullUp", "PullDown"}
                common == {"Native", "Input", "UART"}
                normal == {2, 4, 12, 13, 14, 15, 27, 32, 33}
            IN  CASE i = 1 -> common \cup {"Output"}
                  [] i = 3 -> common \cup {"Output", "ISR"}
                  [] i \in {5, 16, 17, 18, 19, 21, 22, 23, 29} -> common \cup pulls \cup {"Output", "PWM", "ISR"}
                  [] i \in normal \cup {0} -> common \cup pulls \cup {"Output", "ADC", "PWM", "ISR"}
                  [] i \in {25, 26} -> common \cup pulls \cup {"Output", "ADC", "DAC", "PWM", "ISR"}
                  [] i \in 6 .. 11 -> common \cup {"Output", "PWM", "ISR"}
                  [] i \in {34, 35, 36, 39} -> common \cup {"ADC", "ISR"}
                  [] OTHER -> {}

Real(p) == p.bus \in {"gpio", "i2so"}
Pin(p) == IF p.bus \in {"gpio", "i2so", "i2si"} THEN {<<p.bus, p.index>>} ELSE {}

\* Mutant: nobody minds that a pin is in use.
ConstructibleTwice(p, options) ==
    p.bus \in {"gpio", "i2so", "i2si"} => Capabilities(p) # {} /\ options \subseteq {"pu", "pd", "low", "high"}

\* What the constructors assert.
Constructible(p, options) ==
    CASE p.bus = "gpio" -> /\ p.index < 40 /\ Capabilities(p) # {}
                           /\ Pin(p) \cap claimed = {}
                           /\ options \subseteq {"pu", "pd", "low", "high"}
                           /\ "pu" \in options => "PullUp" \in Capabilities(p)
                           /\ "pd" \in options => "PullDown" \in Capabilities(p)
      [] p.bus = "i2so" -> p.index < 32 /\ Pin(p) \cap claimed = {} /\ options \subseteq {"low", "high"}
      [] p.bus = "i2si" -> p.index < 31 /\ Pin(p) \cap claimed = {} /\ options \subseteq {"low", "high"}
      [] OTHER -> TRUE

\* Pin::parse and create: an unknown prefix is a pin that only logs its errors.
Parsed(text) ==
    LET bus == CASE text.prefix = "no_pin" -> "undefined"
                 [] text.prefix \in {"void", ""} -> "void"
                 [] text.prefix \in {"gpio", "i2so", "i2si"} -> text.prefix
                 [] OTHER -> "error"
    IN  IF bus \in {"gpio", "i2so", "i2si"}
        THEN [bus |-> bus, index |-> text.index, attr |-> text.options \ {"high"}, low |-> "low" \in text.options]
        ELSE [Undefined EXCEPT !.bus = bus]

\* The pins of the bus of inputs stay claimed when they are deleted.
Released(p) == IF p.bus = "i2si" THEN {} ELSE Pin(p)

\* setAttr: what it asserts, and what it leaves.
conflictsWith(value) == {"Input", "Output"} \subseteq value \/ ("ISR" \in value /\ "Input" \notin value)
Allowed(p, value) ==
    CASE p.bus = "gpio" -> p.index \in {1, 3} \/ (value \subseteq Capabilities(p) /\ ~conflictsWith(value))
      [] p.bus = "i2so" -> "Input" \notin value /\ value \subseteq Capabilities(p) /\ ~conflictsWith(value)
      [] p.bus = "i2si" -> "Output" \notin value /\ value \subseteq Capabilities(p) /\ ~conflictsWith(value)
      [] OTHER -> TRUE
setAttr(p, value) == [p EXCEPT !.attr = CASE p.bus = "gpio" -> @ \cup value
                                          [] p.bus \in {"i2so", "i2si"} -> value
                                          [] OTHER -> @]

defined(item) == pin[item].bus # "undefined"

\* The level a write leaves at an item's pin.
Level(item, on) == IF Real(pin[item]) THEN on # pin[item].low ELSE raw[item]
Read(item) == Real(pin[item]) /\ raw[item] # pin[item].low

-----------------------------------------------------------------------------
(* User outputs. *)

\* AnalogOutput: the resolution the frequency allows, and the duty of a percentage.
Bits(hz) ==
    LET enough == {b \in 0 .. 16 : 2 ^ b >= 80000000 \div hz}
    IN  (IF enough = {} THEN 17 ELSE CHOOSE b \in enough : \A c \in enough : b <= c) - 1
Numerator(percent) == (percent * 2 ^ Bits(machine.hz)) \div 100

\* AnalogOutput::set_level writes; without a pin it fails.
Written(numerator) == defined("analog") /\ analog.cached # numerator

-----------------------------------------------------------------------------
(* The stack. *)

Do(op, arg) == [op |-> op, arg |-> arg]
Head1 == IF todo = <<>> THEN "poll" ELSE todo[1].op
At(op) == Head1 = op
Rest == Tail(todo)
Then(ops) == todo' = ops \o Rest

Setup == <<machine, pin, claimed>>
Program == <<plan, door, left>>

\* What main writes while a reset is pending outlasts that reset.
Noted(item) == [history EXCEPT !.late = IF sys.reset THEN @ \cup {item} ELSE @ \ {item}]

-----------------------------------------------------------------------------
(* Configuration and start. *)

\* A pin of the configuration: the new one is made before the old one goes.
Item ==
    /\ At("item")
    /\ LET text == todo[1].arg.text
           item == todo[1].arg.item
           p == Parsed(text)
       IN  IF Constructible(p, text.options)
           THEN /\ pin' = [pin EXCEPT ![item] = p]
                /\ claimed' = (claimed \cup Pin(p)) \ Released(pin[item])
                /\ Then(<<>>)
                /\ UNCHANGED sys
           ELSE /\ sys' = [sys EXCEPT !.state = "ConfigAlarm"]
                /\ todo' = <<>>
                /\ UNCHANGED <<pin, claimed>>
    /\ UNCHANGED <<machine, raw, analog, gc, Program, history>>

\* ledcInit asserts that the pin can; CoolantControl::init and DigitalOutput::init make
\* their pins outputs.
ledcInit == defined("analog") => "PWM" \in Capabilities(pin["analog"])
Outputs == Coolants \cup (IF defined("digital") THEN {"digital"} ELSE {})

\* Everything is switched off, but _current_value is not initialised; what a failed start
\* has switched is left out.
main_init ==
    /\ At("init")
    /\ Then(<<>>)
    /\ IF ledcInit /\ \A i \in Outputs : Allowed(pin[i], {"Output"})
       THEN /\ pin' = [i \in Items |-> IF i \in Outputs THEN setAttr(pin[i], {"Output"}) ELSE pin[i]]
            /\ raw' = [i \in Items |-> IF i \in Outputs THEN Level(i, FALSE) ELSE raw[i]]
            /\ \E garbage \in IF defined("analog") THEN {-1, 0, Numerator(50)} ELSE {0} :
                    analog' = [duty |-> 0, cached |-> garbage]
            /\ UNCHANGED sys
       ELSE sys' = [sys EXCEPT !.state = "ConfigAlarm"] /\ UNCHANGED <<pin, raw, analog>>
    /\ UNCHANGED <<machine, claimed, gc, Program, history>>

-----------------------------------------------------------------------------
(* The realtime system. *)

Suspended(s, bits) == [s EXCEPT !.suspend = @ \cup bits]
HoldComplete(s) == [s EXCEPT !.suspend = {"holdComplete"}]
StartHolding(s) == [s EXCEPT !.hold = TRUE, !.sysMotion = FALSE]

InitiatedCycle(s) ==
    [s EXCEPT !.hold = FALSE, !.sysMotion = FALSE, !.suspend = {},
              !.state = IF plan # <<>> THEN "Cycle" ELSE "Idle", !.moving = plan # <<>>]

FeedHeld(s) ==
    LET t == [s EXCEPT !.flags = @ \ {"FeedHold", "CycleStart"}]
        held == [t EXCEPT !.state = "Hold"]
    IN  CASE s.state = "Idle" -> HoldComplete(held)
          [] s.state = "Cycle" -> StartHolding(held)
          [] OTHER -> t

DoorOpened(s) ==
    LET t == [s EXCEPT !.flags = @ \ {"Door", "CycleStart"}]
        opened == Suspended([t EXCEPT !.state = "SafetyDoor"], {"safetyDoorAjar"})
        again == [opened EXCEPT !.suspend =
                    (@ \ {"retractComplete", "initiateRestore", "restoreComplete"}) \cup {"restartRetract"}]
    IN  CASE s.state \in {"Alarm", "Sleep"} -> t
          [] s.state = "Idle" -> Suspended(HoldComplete(opened), {"safetyDoorAjar"})
          [] s.state = "Cycle" -> StartHolding(opened)
          [] s.state = "SafetyDoor" /\ "initiateRestore" \in s.suspend ->
                IF s.sysMotion THEN [again EXCEPT !.hold = TRUE, !.suspend = @ \ {"holdComplete"}] ELSE again
          [] OTHER -> opened

Slept(s) ==
    LET t == [s EXCEPT !.flags = @ \ {"Sleep"}, !.state = "Sleep"]
    IN  CASE s.state = "Alarm" -> Suspended(t, {"retractComplete", "holdComplete"})
          [] s.state = "Idle" -> HoldComplete(t)
          [] s.state = "Cycle" -> StartHolding(t)
          [] OTHER -> t

CycleStarted(s) ==
    LET t == [s EXCEPT !.flags = @ \ {"CycleStart"}]
    IN  CASE s.state = "SafetyDoor" /\ "safetyDoorAjar" \notin s.suspend ->
                (IF "restoreComplete" \in s.suspend THEN [t EXCEPT !.state = "Idle"]
                 ELSE IF "retractComplete" \in s.suspend THEN Suspended(t, {"initiateRestore"})
                 ELSE t)
          [] s.state = "Idle" -> InitiatedCycle(t)
          [] s.state = "Hold" /\ "holdComplete" \in s.suspend -> InitiatedCycle(t)
          [] OTHER -> t

CycleStopped(s) ==
    LET t == [s EXCEPT !.flags = @ \ {"CycleStop"}]
    IN  IF s.state \in {"Hold", "SafetyDoor", "Sleep"}
        THEN [(IF s.hold THEN Suspended(t, {"holdComplete"}) ELSE t) EXCEPT !.hold = FALSE, !.sysMotion = FALSE]
        ELSE IF "safetyDoorAjar" \in s.suspend
             THEN Suspended([t EXCEPT !.state = "SafetyDoor"], {"holdComplete"})
             ELSE [t EXCEPT !.suspend = {}, !.state = "Idle"]

Handled(s, flag) ==
    IF flag \notin s.flags THEN s
    ELSE CASE flag = "FeedHold" -> FeedHeld(s)
           [] flag = "Door" -> DoorOpened(s)
           [] flag = "Sleep" -> Slept(s)
           [] flag = "CycleStart" -> CycleStarted(s)
           [] flag = "CycleStop" -> CycleStopped(s)

\* A pass of protocol_exec_rt_system, but for the overrides.
Executed(s) ==
    LET t == IF s.alarm THEN [s EXCEPT !.state = "Alarm", !.alarm = FALSE] ELSE s
    IN  IF t.reset THEN [t EXCEPT !.abort = TRUE]
        ELSE Handled(Handled(Handled(Handled(Handled(t, "FeedHold"), "Door"), "Sleep"), "CycleStart"), "CycleStop")

\* The pass, then the overrides of coolant, flood first (a toggle of mist may come while
\* that one waits), and what follows.
Pass(s, ops, rest) ==
    /\ sys' = Executed(s)
    /\ todo' = (IF sys'.abort \/ s.flags \cap Coolants = {} THEN <<>>
                ELSE (IF "flood" \in s.flags THEN <<Do("toggle", "flood")>> ELSE <<>>) \o <<Do("toggle", "mist")>>)
               \o ops \o rest
    /\ UNCHANGED <<Setup, raw, analog, gc, Program, history>>

protocol_exec_rt_system == At("exec") /\ Pass(sys, <<>>, Rest)

\* protocol_execute_realtime: the pass, then the loop of a suspension.
protocol_execute_realtime == At("realtime") /\ Pass(sys, <<Do("enter", {})>>, Rest)

protocol_execute_overrides ==
    /\ At("toggle")
    /\ LET c == todo[1].arg
           toggled == IF c \in gc THEN gc \ {c} ELSE gc \cup {c}
       IN  /\ sys' = [sys EXCEPT !.flags = @ \ {c}]
           /\ IF c \in sys.flags /\ defined(c) /\ sys.state \in {"Idle", "Cycle", "Hold"}
              THEN /\ gc' = toggled /\ Then(<<Do("set", toggled)>>)
                   /\ history' = [history EXCEPT !.stale = FALSE]
              ELSE Then(<<>>) /\ UNCHANGED <<gc, history>>
    /\ UNCHANGED <<Setup, raw, analog, Program>>

-----------------------------------------------------------------------------
(* Coolant. *)

\* CoolantControl::set_state: nothing in an abort.
set_state ==
    /\ At("set")
    /\ LET coolants == todo[1].arg
       IN  Then(IF sys.abort THEN <<>>
                ELSE <<Do("write", [item |-> "flood", on |-> "flood" \in coolants]),
                       Do("write", [item |-> "mist", on |-> "mist" \in coolants])>>
                     \o (IF machine.delay THEN <<Do("delay", {})>> ELSE <<>>))
    /\ UNCHANGED <<Setup, raw, analog, gc, sys, Program, history>>

\* CoolantControl::write for one pin.
write ==
    /\ At("write")
    /\ LET item == todo[1].arg.item
       IN  IF defined(item)
           THEN raw' = [raw EXCEPT ![item] = Level(item, todo[1].arg.on)] /\ history' = Noted(item)
           ELSE UNCHANGED <<raw, history>>
    /\ Then(<<>>)
    /\ UNCHANGED <<Setup, analog, gc, sys, Program>>

\* delay_msec with DwellMode::SysSuspend: passes until its time is over, an abort, or
\* a door that opens again.
delay_msec ==
    /\ At("delay")
    /\ \/ Then(<<>>) /\ UNCHANGED <<Setup, raw, analog, gc, sys, Program, history>>
       \/ /\ ~sys.abort
          /\ Pass(sys, IF "restartRetract" \in Executed(sys).suspend THEN <<>> ELSE <<Do("delay", {})>>, Rest)

-----------------------------------------------------------------------------
(* protocol_exec_rt_suspend. *)

\* At its start it notes what to restore.
EnterSuspend ==
    /\ At("enter")
    /\ Then(IF sys.suspend = {} THEN <<>>
            ELSE <<Do("suspend", IF plan = <<>> THEN gc ELSE Head(plan))>>)
    /\ UNCHANGED <<Setup, raw, analog, gc, sys, Program, history>>

\* One pass of the loop: retraction, which parks or turns the coolant off; sleep;
\* restoration.
Suspend ==
    /\ At("suspend")
    /\ LET closed == /\ ~door /\ sys.state = "SafetyDoor"
                     /\ {"holdComplete", "retractComplete"} \subseteq sys.suspend
           s == IF closed THEN [sys EXCEPT !.suspend = @ \ {"safetyDoorAjar"}] ELSE sys
           off == <<Do("set", {}), Do("retracted", {})>>
           parked == <<Do("park", {}), Do("park", {}), Do("retracted", {})>>
           restored == <<Do("restore", todo[1].arg), Do("plunge", {}), Do("restored", {})>>
           bodies == CASE "holdComplete" \notin s.suspend \/ s.state \notin {"SafetyDoor", "Sleep"} -> {<<>>}
                       [] "retractComplete" \notin s.suspend -> IF machine.parks THEN {off, parked} ELSE {off}
                       [] s.state = "Sleep" -> {<<Do("set", {}), Do("sleep", {})>>}
                       [] "initiateRestore" \in s.suspend ->
                              {(IF machine.parks THEN <<Do("park", {})>> ELSE <<>>) \o restored}
                       [] OTHER -> {<<>>}
       IN  IF sys.suspend = {} \/ sys.abort THEN Then(<<>>) /\ UNCHANGED sys
           ELSE sys' = s /\ \E body \in bodies : todo' = body \o <<Do("exec", {})>> \o todo
    /\ UNCHANGED <<Setup, raw, analog, gc, Program, history>>

\* mc_parking_motion: not where the position allows none and not in an abort; a motion
\* without length is only a pass.
mc_parking_motion ==
    \/ /\ At("park")
       /\ \/ Then(<<>>) /\ UNCHANGED <<Setup, raw, analog, gc, sys, Program, history>>
          \/ ~sys.abort /\ Pass([sys EXCEPT !.sysMotion = FALSE], <<>>, Rest)
          \/ ~sys.abort /\ Pass([sys EXCEPT !.sysMotion = TRUE, !.moving = TRUE], <<Do("parking", {})>>, Rest)
    \/ /\ At("parking")
       /\ IF sys.abort \/ ~sys.sysMotion
          THEN Then(<<>>) /\ UNCHANGED <<Setup, raw, analog, gc, sys, Program, history>>
          ELSE Pass(sys, <<Do("parking", {})>>, Rest)

\* The rest of the body: restorations stop when the door has opened again.
Resume ==
    /\ \/ /\ At("retracted") /\ Then(<<>>)
          /\ sys' = [sys EXCEPT !.suspend = (@ \ {"restartRetract"}) \cup {"retractComplete"}]
          /\ UNCHANGED history
       \/ /\ At("restore") /\ UNCHANGED sys
          /\ IF gc # {} /\ "restartRetract" \notin sys.suspend
             THEN /\ Then(<<Do("set", todo[1].arg)>>)
                  /\ history' = [history EXCEPT !.stale = todo[1].arg # gc]
             ELSE Then(<<>>) /\ UNCHANGED history
       \/ /\ At("plunge") /\ UNCHANGED <<sys, history>>
          /\ Then(IF machine.parks /\ "restartRetract" \notin sys.suspend THEN <<Do("park", {})>> ELSE <<>>)
       \/ /\ At("restored") /\ Then(<<>>)
          /\ sys' = IF "restartRetract" \in sys.suspend THEN sys
                    ELSE [sys EXCEPT !.suspend = @ \cup {"restoreComplete"}, !.flags = @ \cup {"CycleStart"}]
          /\ UNCHANGED history
    /\ UNCHANGED <<Setup, raw, analog, gc, Program>>

\* Asleep until an abort, which leaves the suspension.
Sleeping ==
    /\ At("sleep")
    /\ IF sys.abort
       THEN /\ todo' = SubSeq(todo, 4, Len(todo))
            /\ UNCHANGED <<Setup, raw, analog, gc, sys, Program, history>>
       ELSE Pass(sys, <<Do("sleep", {})>>, Rest)

-----------------------------------------------------------------------------
(* The main loop and its lines. *)

AutoStart(s) == IF plan = <<>> THEN s ELSE [s EXCEPT !.flags = @ \cup {"CycleStart"}]

Poll ==
    /\ todo = <<>> /\ ~sys.abort /\ sys.state # "ConfigAlarm"
    /\ \/ sys' = AutoStart(sys) /\ todo' = <<Do("realtime", {})>> /\ UNCHANGED left
       \/ /\ left.lines # <<>>
          /\ todo' = <<Do("realtime", {}), Do("line", Head(left.lines))>>
          /\ left' = [left EXCEPT !.lines = Tail(@)]
          /\ UNCHANGED sys
    /\ UNCHANGED <<Setup, raw, analog, gc, plan, door, history>>

\* gc_execute_line: the word of coolant of a pin that is not defined is ignored; M7 to
\* M9, M62, M63, M67 and M2 wait for the planner.
gc_execute_line ==
    /\ At("line")
    /\ LET line == todo[1].arg
           wait == <<Do("sync", {})>>
           modal == CASE line.word \in Coolants /\ defined(line.word) -> gc \cup {line.word}
                      [] line.word = "M9" -> {}
                      [] OTHER -> gc
           ops == CASE line.word \in Coolants -> IF defined(line.word) THEN wait \o <<Do("modal", {})>> ELSE <<>>
                    [] line.word = "M9" -> wait \o <<Do("modal", {})>>
                    [] line.word = "M2" -> wait \o <<Do("end", {})>>
                    [] line.word = "move" -> <<Do("plan", gc)>>
                    [] line.word \in {"digital", "analog"} ->
                           (IF line.sync THEN wait ELSE <<>>) \o <<Do(line.word, line.value)>>
       IN  IF sys.abort \/ sys.state = "Alarm" THEN Then(<<>>) /\ UNCHANGED gc
           ELSE gc' = modal /\ Then(ops)
    /\ history' = IF gc' = gc THEN history ELSE [history EXCEPT !.stale = FALSE]
    /\ UNCHANGED <<Setup, raw, analog, sys, Program>>

\* protocol_buffer_synchronize.
protocol_buffer_synchronize ==
    /\ \/ At("sync") /\ sys' = AutoStart(sys) /\ Then(<<Do("realtime", {}), Do("synced", {})>>)
       \/ /\ At("synced") /\ UNCHANGED sys
          /\ IF sys.abort \/ (plan = <<>> /\ sys.state # "Cycle") THEN Then(<<>>)
             ELSE todo' = <<Do("realtime", {})>> \o todo
    /\ UNCHANGED <<Setup, raw, analog, gc, Program, history>>

\* mc_line.
mc_line ==
    /\ \/ At("plan") /\ Then(<<Do("realtime", {}), Do("planned", todo[1].arg)>>) /\ UNCHANGED <<sys, plan>>
       \/ /\ At("planned")
          /\ IF ~sys.abort /\ Len(plan) = PlannerBlocks
             THEN todo' = <<Do("realtime", {})>> \o todo /\ sys' = AutoStart(sys) /\ UNCHANGED plan
             ELSE Then(<<>>) /\ UNCHANGED sys /\ plan' = IF sys.abort THEN plan ELSE Append(plan, todo[1].arg)
    /\ UNCHANGED <<Setup, raw, analog, gc, door, history, left>>

\* The coolant of M7 to M9, and the end of the program.
SwitchCoolant ==
    /\ \/ At("modal") /\ Then(<<Do("set", gc)>>) /\ UNCHANGED <<gc, history>>
       \/ /\ At("end") /\ Then(<<Do("set", {})>>) /\ gc' = {}
          /\ history' = [history EXCEPT !.stale = FALSE]
    /\ UNCHANGED <<Setup, raw, analog, sys, Program>>

\* setDigital, and setAnalogPercent with AnalogOutput::set_level: first _current_value,
\* then the channel.  A line of before a reset says nothing.
setDigital ==
    /\ At("digital") /\ Then(<<>>)
    /\ raw' = [raw EXCEPT !["digital"] = Level("digital", todo[1].arg # 0)]
    /\ history' = [Noted("digital") EXCEPT !.said["digital"] = IF sys.reset THEN @ ELSE todo[1].arg]
    /\ UNCHANGED <<Setup, analog, gc, sys, Program>>

setAnalogPercent ==
    /\ \/ /\ At("analog")
          /\ LET numerator == Numerator(todo[1].arg)
             IN  /\ IF Written(numerator)
                    THEN Then(<<Do("duty", numerator)>>) /\ analog' = [analog EXCEPT !.cached = numerator]
                    ELSE Then(<<>>) /\ UNCHANGED analog
                 /\ history' = [history EXCEPT !.said["analog"] = IF sys.reset THEN @ ELSE numerator]
       \/ /\ At("duty") /\ Then(<<>>)
          /\ analog' = [analog EXCEPT !.duty = todo[1].arg]
          /\ history' = [Noted("analog") EXCEPT !.written = TRUE]
    /\ UNCHANGED <<Setup, raw, gc, sys, Program>>

\* $X.
Unlock ==
    /\ todo = <<>> /\ ~sys.abort /\ sys.state = "Alarm" /\ ~door
    /\ sys' = [sys EXCEPT !.state = "Idle"]
    /\ UNCHANGED <<Setup, raw, analog, gc, Program, todo, history>>

\* run_once again: reset_variables, and the start of protocol_main_loop.
Restart ==
    /\ todo = <<>> /\ sys.abort
    /\ LET locked == sys.state \in {"Alarm", "Sleep"}
       IN  /\ sys' = [sys EXCEPT !.state = IF locked THEN "Alarm" ELSE "Idle", !.suspend = {}, !.hold = FALSE,
                                 !.sysMotion = FALSE, !.reset = FALSE, !.abort = FALSE, !.moving = FALSE,
                                 !.flags = IF door /\ ~locked THEN {"Door"} ELSE {}]
           /\ todo' = IF door /\ ~locked THEN <<Do("realtime", {})>> ELSE <<>>
    /\ gc' = {} /\ plan' = <<>> /\ history' = [history EXCEPT !.stale = FALSE]
    /\ UNCHANGED <<Setup, raw, analog, door, left>>

-----------------------------------------------------------------------------
(* Interrupts and the other task. *)

Running == ~At("item") /\ ~At("init") /\ sys.state # "ConfigAlarm"

\* Mutant: mc_reset forgets the outputs of the user.
StoppedCoolant == [i \in Items |-> IF i \in Coolants /\ defined(i) THEN Level(i, FALSE) ELSE raw[i]]

\* CoolantControl::stop and UserOutputs::all_off.
Stopped == [i \in Items |-> IF i # "analog" /\ defined(i) THEN Level(i, FALSE) ELSE raw[i]]

mc_reset ==
    /\ Running /\ ~sys.reset /\ left.events > 0
    /\ raw' = Stopped
    /\ analog' = IF Written(0) THEN [duty |-> 0, cached |-> 0] ELSE analog
    /\ LET motion == sys.state = "Cycle" \/ sys.hold \/ sys.sysMotion
       IN  sys' = [sys EXCEPT !.reset = TRUE, !.alarm = @ \/ motion, !.moving = @ /\ ~motion]
    /\ history' = [history EXCEPT !.said = [digital |-> 0, analog |-> 0], !.written = @ \/ Written(0),
                                  !.late = @ \cap IF Written(0) THEN {} ELSE {"analog"}]
    /\ left' = [left EXCEPT !.events = @ - 1]
    /\ UNCHANGED <<Setup, gc, plan, todo, door>>

\* Realtime characters, and the control pin of the door.
Event ==
    /\ Running
    /\ \/ /\ left.events > 0
          /\ \E flag \in {"FeedHold", "Sleep", "Door"} \cup Coolants :
                /\ sys' = [sys EXCEPT !.flags = @ \cup {flag}]
                /\ door' = (door \/ flag = "Door")
          /\ left' = [left EXCEPT !.events = @ - 1]
       \/ /\ "CycleStart" \notin sys.flags /\ sys.state \in {"Hold", "SafetyDoor"}
          /\ sys' = [sys EXCEPT !.flags = @ \cup {"CycleStart"}]
          /\ UNCHANGED <<door, left>>
       \/ door /\ door' = FALSE /\ UNCHANGED <<sys, left>>
    /\ UNCHANGED <<Setup, raw, analog, gc, plan, todo, history>>

\* The stepper interrupt: a block or a parking motion ends, or a hold has decelerated.
MotionEnds ==
    /\ sys.moving
    /\ \/ ~sys.sysMotion /\ plan # <<>> /\ plan' = Tail(plan)
       \/ (sys.hold \/ sys.sysMotion) /\ UNCHANGED plan
    /\ sys' = IF plan' # <<>> /\ plan' # plan THEN sys
              ELSE [sys EXCEPT !.moving = FALSE, !.flags = @ \cup {"CycleStop"}]
    /\ UNCHANGED <<Setup, raw, analog, gc, todo, door, history, left>>

-----------------------------------------------------------------------------

Init ==
    /\ machine \in Machines
    /\ pin = [i \in Items |-> Undefined] /\ claimed = {}
    /\ raw = [i \in Items |-> FALSE] /\ analog = [duty |-> 0, cached |-> 0]
    /\ gc = {} /\ plan = <<>> /\ door = FALSE
    /\ sys = [state |-> "Idle", suspend |-> {}, hold |-> FALSE, sysMotion |-> FALSE, flags |-> {},
              reset |-> FALSE, alarm |-> FALSE, abort |-> FALSE, moving |-> FALSE]
    /\ todo = [i \in DOMAIN machine.pins |-> Do("item", machine.pins[i])] \o <<Do("init", {})>>
    /\ history = [said |-> [digital |-> 0, analog |-> 0], late |-> {}, stale |-> FALSE, written |-> FALSE]
    /\ left = [lines |-> machine.program, events |-> machine.events]

Next ==
    \/ Item \/ main_init
    \/ protocol_exec_rt_system \/ protocol_execute_realtime \/ protocol_execute_overrides
    \/ set_state \/ write \/ delay_msec
    \/ EnterSuspend \/ Suspend \/ mc_parking_motion \/ Resume \/ Sleeping
    \/ Poll \/ gc_execute_line \/ protocol_buffer_synchronize \/ mc_line \/ SwitchCoolant
    \/ setDigital \/ setAnalogPercent \/ Unlock \/ Restart
    \/ mc_reset \/ Event \/ MotionEnds

Spec == Init /\ [][Next]_vars

-----------------------------------------------------------------------------

\* No pin of the machine belongs to two items, whatever pins were configured and
\* replaced before.
PinsOwned == \A i, j \in Items : i # j => Pin(pin[i]) \cap Pin(pin[j]) = {}

AtRest == todo = <<>> /\ ~sys.reset /\ sys.suspend = {} /\ sys.state # "ConfigAlarm"

\* At rest every pin is what its item was told last: coolant what the parser says, user
\* outputs their last line, or off after a reset.  This leaves out what diverges in the
\* code: writes of a line that a reset had overtaken, a coolant that was restored as it
\* was before a toggle, and an analog output before its first write.
AsTold ==
    AtRest =>
        /\ \A c \in Coolants : Real(pin[c]) /\ c \notin history.late /\ ~history.stale => Read(c) = (c \in gc)
        /\ Real(pin["digital"]) /\ "digital" \notin history.late =>
               Read("digital") = (history.said["digital"] # 0)
        /\ defined("analog") /\ history.written /\ "analog" \notin history.late =>
               analog.duty = history.said["analog"]

\* No coolant runs at an open door once the retraction is complete, unless the machine
\* parks, and none in sleep.
DryWhenOpen ==
    \/ At("sleep") /\ ~sys.abort
    \/ /\ sys.state = "SafetyDoor" /\ ~machine.parks
       /\ "retractComplete" \in sys.suspend /\ "initiateRestore" \notin sys.suspend
    => \A c \in Coolants : ~Read(c)

\* The three together.
AccessoriesAsSaid == PinsOwned /\ AsTold /\ DryWhenOpen
=============================================================================
