---------------------------- MODULE Configuration ----------------------------
(* From power-on to the main loop: Machine/MachineConfig.cpp loads the file,    *)
(* fills in defaults and validates, FluidNC.cpp initialises the objects and     *)
(* runs the main loop, where commands read and change the configuration         *)
(* (ProcessSettings.cpp) and resets use it (MotionControl.cpp).  A pointer to   *)
(* an object that was never made is a crash: the chip restarts, and says so in  *)
(* its reset reason.  The state ConfigAlarm that a bad file leads to is left by *)
(* three ways of Protocol.cpp that do not ask what set it: sleep, an alarm, the *)
(* end of a motion.                                                             *)
EXTENDS ConfigParser

CONSTANTS
    Files,     \* what may be in the flash at power-on; the empty text is no file
    Uploads    \* the files the user may store while the machine runs

VARIABLES
    file,      \* the file in the flash
    reset,     \* esp_reset_reason(): "power", "restart" or "panic"
    phase,     \* load, parse, init, main, run, sleep, panic, stalled
    ready,     \* the objects whose pins have been set up
    tries,     \* main loops that ended with a failed assertion
    moving,    \* the stepping interrupt runs
    lifted     \* history: Protocol.cpp has put another state in the place of ConfigAlarm

motionVars == <<moving, lifted>>
vars == <<parserVars, file, reset, phase, ready, tries, motionVars>>

Line(indent, key, val) == [indent |-> indent, key |-> key, val |-> val]

\* The configuration that is built in: two items of the root.
defaultConfig == <<Line(0, "name", "ok"), Line(0, "board", "ok")>>

\* What afterParse makes if the file did not, and the program uses without a check.
Defaults ==
    {"start", "axes", "x", "coolant", "probe", "control", "userOutputs", "sdCard", "spindle"}

\* No memory survives a restart; only the file does.
Boot(reason) ==
    /\ reset' = reason
    /\ phase' = "load"
    /\ lines' = <<>>
    /\ tok' = [line |-> 0, state |-> "Matching"]
    /\ stack' = <<>>
    /\ parse' = "done"
    /\ made' = {}
    /\ applied' = {}
    /\ state' = "Idle"
    /\ ready' = {}
    /\ tries' = 0
    /\ moving' = FALSE
    /\ lifted' = FALSE

Init ==
    /\ file \in Files
    /\ reset = "power"
    /\ phase = "load"
    /\ lines = <<>>
    /\ tok = [line |-> 0, state |-> "Matching"]
    /\ stack = <<>>
    /\ parse = "done"
    /\ made = {}
    /\ applied = {}
    /\ state = "Idle"
    /\ ready = {}
    /\ tries = 0
    /\ moving = FALSE
    /\ lifted = FALSE

-----------------------------------------------------------------------------
\* Mutant: the reset reason is not looked at.
LoadAnyway ==
    /\ phase = "load"
    /\ phase' = "parse"
    /\ BeginParse(IF file = <<>> THEN defaultConfig ELSE file)
    /\ UNCHANGED <<file, reset, ready, tries, state, motionVars>>

\* After a crash the file is not even read.
load ==
    /\ phase = "load"
    /\ phase' = "parse"
    /\ BeginParse(IF reset = "panic" \/ file = <<>> THEN defaultConfig ELSE file)
    /\ UNCHANGED <<file, reset, ready, tries, state, motionVars>>

ReadFile ==
    /\ phase = "parse"
    /\ Parse
    /\ UNCHANGED <<file, reset, phase, ready, tries, motionVars>>

\* A pin of the input shift register is counted as soon as it is named.
ShiftInUsed == \E entry \in applied : lines[entry[2]].val = "i2si"

\* StandardStepper::validate asserts on its pin, Axis::afterParse on the step rate.
DriverInvalid == "driver" \in made /\ Value("driver", "step_pin") \in {"none", "i2si"}
Invalid == DriverInvalid \/ Value("x", "max_rate") = "fast"

\* An assertion in afterParse itself is no std::exception: it ends the loading, and
\* the defaults are not made.
afterParse ==
    /\ phase = "parse"
    /\ parse = "done"
    /\ phase' = "init"
    /\ IF ShiftInUsed /\ "i2si" \notin made
         THEN state' = "ConfigAlarm" /\ UNCHANGED made
         ELSE /\ made' = made \cup Defaults
              /\ state' = IF Invalid THEN "ConfigAlarm" ELSE state
    /\ UNCHANGED <<lines, tok, stack, parse, applied, file, reset, ready, tries, motionVars>>

\* Mutant: the exception is caught around the reading alone.
LogParseException ==
    /\ phase = "parse"
    /\ parse = "thrown"
    /\ phase' = "init"
    /\ made' = made \cup Defaults
    /\ UNCHANGED <<lines, tok, stack, parse, applied, file, reset, ready, tries, state, motionVars>>

CatchParseException ==
    /\ phase = "parse"
    /\ parse = "thrown"
    /\ phase' = "init"
    /\ state' = "ConfigAlarm"
    /\ UNCHANGED <<lines, tok, stack, parse, made, applied, file, reset, ready, tries, motionVars>>

\* The pins are set up in this order; one that cannot be an output ends it.
main_init ==
    /\ phase = "init"
    /\ phase' = "main"
    /\ LET axesFail == "driver" \in made /\ Value("driver", "step_pin") # "ok"
           coolantFails == Value("coolant", "flood_pin") \notin {"none", "ok"}
       IN  /\ ready' = CASE state = "ConfigAlarm" -> {}
                         [] axesFail -> {"userOutputs"}
                         [] coolantFails -> {"userOutputs", "axes"}
                         [] OTHER -> {"userOutputs", "axes", "coolant"}
           /\ state' = IF axesFail \/ coolantFails THEN "ConfigAlarm" ELSE state
    /\ UNCHANGED <<lines, tok, stack, parse, made, applied, file, reset, tries, motionVars>>

-----------------------------------------------------------------------------
Panic ==
    /\ phase' = "panic"
    /\ UNCHANGED <<parserVars, file, reset, ready, tries, motionVars>>

\* reset_variables reads the start section without a check and stops the steppers
\* unless there is a ConfigAlarm; protocol_main_loop takes a sleep for an alarm.
run_once ==
    /\ phase = "main"
    /\ \/ "start" \notin made /\ Panic
       \/ /\ "start" \in made
          /\ phase' = "run"
          /\ state' = CASE state = "ConfigAlarm" -> "ConfigAlarm"
                         [] state \in {"Alarm", "Sleep"} -> "Alarm"
                         [] OTHER -> "Idle"
          /\ moving' = (moving /\ state = "ConfigAlarm")
          /\ UNCHANGED <<lines, tok, stack, parse, made, applied, file, reset, ready, tries, lifted>>

\* Every line is answered by report_status_message, every status report looks at the
\* axes, the probe and the spindle: with a tree that is not complete, they crash.
Answer ==
    /\ phase = "run"
    /\ ~(Defaults \subseteq made)
    /\ Panic

\* A second failed assertion in the main loop is the last one.
AssertionInMain ==
    /\ state' = "ConfigAlarm"
    /\ tries' = tries + 1
    /\ phase' = IF tries' > 1 THEN "stalled" ELSE "main"
    /\ UNCHANGED <<lines, tok, stack, parse, made, applied, file, reset, ready, motionVars>>

\* A coolant pin that is no output yet: to switch it is a failed assertion.
CoolantUnready == Value("coolant", "flood_pin") # "none" /\ "coolant" \notin ready

\* Spindle, coolant and outputs are switched off, whether they have been set up or
\* not: the user outputs are pointers with whatever value they had.  A motion that is
\* cut leaves an alarm, which protocol_do_alarm makes the state before the abort.
mc_reset ==
    /\ phase \in {"run", "sleep"}
    /\ \/ "spindle" \notin made /\ Panic
       \/ /\ "spindle" \in made
          /\ CoolantUnready
          /\ AssertionInMain
       \/ /\ "spindle" \in made
          /\ ~CoolantUnready
          /\ \/ "userOutputs" \notin ready /\ Panic
             \/ /\ phase' = "main"
                /\ state' = IF state = "Cycle" THEN "Alarm" ELSE state
                /\ moving' = (moving /\ state # "Cycle")
                /\ UNCHANGED <<lines, tok, stack, parse, made, applied, file, reset, ready, tries, lifted>>

-----------------------------------------------------------------------------
\* The state changes, and whether it was ConfigAlarm is not asked.
SetState(new) ==
    /\ state' = new
    /\ lifted' = (lifted \/ state = "ConfigAlarm")
    /\ UNCHANGED <<lines, tok, stack, parse, made, applied, file, reset, ready, tries>>

\* A line that moves: refused in an alarm.  After a load that failed there is no timer
\* for the stepping interrupt; pins that were not set up may fail in it (RMT does not
\* look at them).
Move ==
    /\ phase = "run"
    /\ state = "Idle"
    /\ \/ "axes" \notin ready /\ Panic
       \/ /\ "userOutputs" \in ready
          /\ moving' = TRUE
          /\ SetState("Cycle")
          /\ UNCHANGED phase

\* The last segment was executed, or there was none since the state is not Cycle.
protocol_do_cycle_stop ==
    /\ phase = "run"
    /\ moving
    /\ moving' = FALSE
    /\ SetState("Idle")
    /\ UNCHANGED phase

\* $SLP is accepted in Idle and in both alarms.  Spindle, coolant and steppers are
\* switched off at once, the last by the step pins unless RMT makes the pulses; then
\* only a reset is waited for.
protocol_do_sleep ==
    /\ phase = "run"
    /\ Defaults \subseteq made
    /\ state \in {"Idle", "Alarm", "ConfigAlarm"}
    /\ \/ /\ CoolantUnready \/ ("driver" \in made /\ "axes" \notin ready)
          /\ AssertionInMain
       \/ /\ ~CoolantUnready
          /\ phase' = "sleep"
          /\ moving' = FALSE
          /\ SetState("Sleep")

\* A control pin that was active when the pins were set up, a spindle's drive, a
\* motion that was cut: any alarm but those of limits, in any state.
protocol_do_alarm ==
    /\ phase \in {"run", "sleep"}
    /\ "axes" \in ready
    /\ SetState("Alarm")
    /\ UNCHANGED <<phase, moving>>

\* $X
disable_alarm_lock ==
    /\ phase = "run"
    /\ state = "Alarm"
    /\ SetState("Idle")
    /\ UNCHANGED <<phase, moving>>

\* A setting of the tree is changed: the whole tree is validated and completed anew.
\* The assertions found on the way set the alarm, also when the machine was running.
do_command_or_setting(rate) ==
    /\ phase = "run"
    /\ "x" \in made
    /\ IF ShiftInUsed /\ "i2si" \notin made
         THEN UNCHANGED <<made, state>>
         ELSE /\ made' = made \cup Defaults
              /\ state' = IF rate = "fast" \/ DriverInvalid THEN "ConfigAlarm" ELSE state
    /\ UNCHANGED <<lines, tok, stack, parse, applied, file, reset, phase, ready, tries, motionVars>>

\* The user stores another file: it is read at the next start.
Upload ==
    /\ phase = "run"
    /\ file' \in Uploads
    /\ UNCHANGED <<parserVars, reset, phase, ready, tries, motionVars>>

\* Mutant: a crash is reported as any other restart.
RestartUnnoticed == phase = "panic" /\ Boot("restart") /\ UNCHANGED file

RestartAfterPanic == phase = "panic" /\ Boot("panic") /\ UNCHANGED file

\* $Bye, or the power is switched off and on.
Restart == phase \in {"run", "sleep", "stalled"} /\ Boot("restart") /\ UNCHANGED file

Start ==
    \/ load \/ ReadFile \/ afterParse \/ CatchParseException \/ main_init \/ run_once
    \/ RestartAfterPanic

Next ==
    \/ Start
    \/ Answer \/ mc_reset \/ Upload \/ Restart
    \/ Move \/ protocol_do_cycle_stop \/ protocol_do_sleep \/ protocol_do_alarm
    \/ disable_alarm_lock
    \/ \E rate \in {"ok", "fast"} : do_command_or_setting(rate)

Spec == Init /\ [][Next]_vars /\ WF_vars(Start)
=============================================================================
