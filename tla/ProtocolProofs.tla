--------------------------- MODULE ProtocolProofs ---------------------------
(***************************************************************************)
(* What the real-time executor guarantees, proved for all configurations   *)
(* of lines, pins, parking and planner, and for any number of events:      *)
(* no motion at rest, no cutting with a stopped spindle, an alarm whenever *)
(* motion is lost, no start that was not asked for and none with an open   *)
(* door.                                                                   *)
(*                                                                         *)
(* None of these is inductive.  The invariant, Inv, says where the flags,  *)
(* the suspend bits, the step control, the stepper and the program counter *)
(* may be together; the comments of its parts say why each is needed.      *)
(***************************************************************************)
EXTENDS ProtocolProperties, TLAPS

-----------------------------------------------------------------------------
(* Types. *)

States == {"Idle", "Alarm", "ConfigAlarm", "CheckMode", "Cycle", "Jog", "Hold", "SafetyDoor", "Sleep"}
SuspendBits == {"holdComplete", "motionCancel", "jogCancel", "safetyDoorAjar", "retractComplete",
                "initiateRestore", "restoreComplete", "restartRetract"}
ControlBits == {"executeHold", "executeSysMotion", "endMotion"}
RtFlags == {"Reset", "CycleStart", "FeedHold", "SafetyDoor", "MotionCancel", "Sleep", "CycleStop",
            "SpindleOvrStop"}
Motions == {"line", "jog"}
Places == {"init", "poll", "return", "exec", "alarm", "critical", "reset", "handle", "suspend", "parked"}
Withins == {"realtime", "suspend", "sleep", "retract1", "retract2", "restore1", "restore2"}
Callers == {"boot", "line", "idle", "last", "mc_line", "sync", "probe", "probeEnd", "soft"}
Alarms == {"None", "ControlPin", "AbortCycle", "HardLimit", "SoftLimit", "ProbeFailInitial", "ProbeFailContact",
           "HomingFailReset", "HomingFailDoor"}
Steppers == [timer : BOOLEAN, segs : BOOLEAN, begun : BOOLEAN]

Systems == [state : States, suspend : SUBSET SuspendBits, control : SUBSET ControlBits]
Mains == [pc : Places, looked : 0 .. 6, within : Withins, caller : Callers,
          line : LineKinds \cup {"none", "eof"}, inflight : BOOLEAN]
Spindles == [on : BOOLEAN, modal : BOOLEAN,
             ovr : SUBSET {"initiate", "enabled", "restore", "restoreCycle"}]
Histories == [asked : BOOLEAN, lost : BOOLEAN, probed : BOOLEAN, midway : BOOLEAN]

TypeOK ==
    /\ sys \in Systems /\ main \in Mains /\ stepper \in Steppers /\ spindle \in Spindles
    /\ rt \in SUBSET RtFlags /\ rtAlarm \in Alarms /\ plan \in Seq(Motions)
    /\ drivers \in [enabled : BOOLEAN, idleEnd : BOOLEAN]
    /\ soft_limit \in BOOLEAN /\ probing \in BOOLEAN /\ door \in BOOLEAN /\ sdcard \in BOOLEAN
    /\ inbox \in Cmds \cup {"none"}
    /\ history \in Histories
    /\ budget \in [lines : Nat, events : Nat]

-----------------------------------------------------------------------------
(* The inductive invariant. *)

\* The stepper is running, or it has stopped and the executor does not know yet.
Active == stepper.timer \/ "CycleStop" \in rt

\* The program is on its way to an abort.
Aborting == main.pc = "critical" \/ (main.pc \in {"reset", "init"} /\ "Reset" \in rt)

\* The program is in a pass of the executor; for a parking motion.
InPass == main.pc \in {"exec", "alarm", "critical", "reset", "handle"}
Parking == main.within \in {"retract1", "retract2", "restore1", "restore2"}
           /\ (InPass \/ main.pc = "parked")

\* The end of a job's file is taken up without a pass before it.
AtEof == main.pc = "return" /\ main.caller = "line" /\ main.line = "eof"

\* No pass has looked at the requests since the line was read.
BeforePass == main.pc \in {"poll", "exec", "alarm", "reset", "critical", "init"} \/ AtEof

Halted == sys.state \in {"Hold", "SafetyDoor", "Sleep"}
Restart == {"retractComplete", "initiateRestore", "restoreComplete", "restartRetract"}

\* Where the program is.
ProgramInv ==
    /\ main.pc \in {"poll", "return"} => sys.suspend = {}
    /\ main.pc = "critical" => sys.state = "Alarm"
    /\ probing \/ main.caller \in {"probe", "probeEnd"}
         \/ (main.caller = "mc_line" /\ main.line = "probe") => history.probed
    /\ main.caller = "soft" => soft_limit

\* Which bits of sys.suspend go together, and with which state.
SuspendInv ==
    /\ "motionCancel" \notin sys.suspend
    /\ "jogCancel" \in sys.suspend
         => Aborting \/ (sys.state = "Jog" /\ "executeHold" \in sys.control)
    /\ "initiateRestore" \in sys.suspend
         => "retractComplete" \in sys.suspend /\ "restartRetract" \notin sys.suspend
    /\ "restoreComplete" \in sys.suspend
         => "initiateRestore" \in sys.suspend /\ "holdComplete" \in sys.suspend
    /\ sys.state = "SafetyDoor" =>
         /\ sys.suspend # {}
         /\ ~({"retractComplete", "restartRetract"} \subseteq sys.suspend)
    /\ sys.state \in {"Cycle", "Jog", "Hold"} => sys.suspend \cap Restart = {}
    /\ sys.state \in {"Cycle", "Jog"} => "holdComplete" \notin sys.suspend

\* Parking motions are made in passes of their own, by a machine that has stopped.
ParkInv ==
    ~Aborting =>
    /\ "executeSysMotion" \in sys.control => Parking /\ InPass
    /\ Parking => /\ sys.state \in {"SafetyDoor", "Sleep"}
                  /\ \/ "holdComplete" \in sys.suspend
                     \/ /\ {"executeHold", "executeSysMotion"} \subseteq sys.control
                        /\ "restartRetract" \in sys.suspend
    /\ Parking /\ main.within \in {"retract1", "retract2"} => "retractComplete" \notin sys.suspend
    /\ Parking /\ Restoring => /\ sys.state = "SafetyDoor"
                               /\ sys.suspend \cap {"initiateRestore", "restartRetract"} # {}
    /\ InPass /\ main.within = "sleep" => sys.state = "Sleep"

\* Which states have no motion, and how motion is known of in the others.
RestInv ==
    /\ "CycleStop" \in rt => ~stepper.timer
    /\ sys.state \in {"Idle", "CheckMode"} => ~Active
    /\ sys.state \in {"Alarm", "ConfigAlarm"} => ~Active \/ Aborting
    /\ Halted /\ "holdComplete" \in sys.suspend /\ "executeSysMotion" \notin sys.control => ~Active
    /\ Halted /\ Active => sys.control \cap {"executeHold", "executeSysMotion"} # {}

\* Sleep and a canceled jog are handled by the next pass.
RequestInv ==
    /\ "Sleep" \in rt =>
         /\ BeforePass \/ (main.pc = "handle" /\ main.looked < 4)
         /\ InPass => main.within = "realtime"
         /\ sys.state \notin {"Cycle", "Jog", "CheckMode"}
         /\ sys.state \in {"Hold", "SafetyDoor"} => "holdComplete" \in sys.suspend
    /\ "MotionCancel" \in rt =>
         /\ BeforePass \/ (main.pc = "handle" /\ main.looked = 0)
         /\ sys.state \in {"Jog", "Alarm"}

\* An alarm without a reset is raised by a machine at rest.
AlarmInv ==
    /\ rtAlarm # "None" /\ "Reset" \notin rt /\ main.pc # "critical" =>
         /\ main.pc \in {"poll", "exec", "alarm", "init"}
         /\ sys.state \in {"Idle", "Alarm", "ConfigAlarm", "CheckMode"}
         /\ ~Active /\ sys.suspend = {} /\ ~sdcard
    /\ main.pc = "init" /\ "Reset" \notin rt => ~Active

\* The program's spindle only stands still where it will be restored, or never
\* needed again.
SpindleInv ==
    LET resetting == "Reset" \in rt /\ rtAlarm # "None"
    IN  /\ spindle.modal /\ ~spindle.on =>
             \/ Aborting /\ sys.state # "Cycle"
             \/ resetting
             \/ "Reset" \in rt /\ sys.state # "Cycle" /\ BeforePass
             \/ sys.state = "Sleep"
             \/ sys.state = "SafetyDoor" /\ "restoreComplete" \notin sys.suspend
             \/ sys.state = "Hold" /\ "enabled" \in spindle.ovr
        /\ Parking /\ main.within = "restore2" /\ spindle.modal /\ ~spindle.on =>
             \/ Aborting \/ resetting
             \/ "Reset" \in rt /\ BeforePass
             \/ "restartRetract" \in sys.suspend
        /\ spindle.ovr # {} => Halted \/ Aborting
        /\ sys.state = "SafetyDoor" /\ (Parking \/ "retractComplete" \in sys.suspend) /\ ~Aborting
             => spindle.ovr = {}

\* A start nobody asked for since the last stop is requested by the program alone,
\* and never while the machine is held or the door open.
StartInv ==
    /\ sys.state = "SafetyDoor" /\ "initiateRestore" \in sys.suspend
         => history.asked /\ "safetyDoorAjar" \notin sys.suspend
    /\ "CycleStart" \in rt /\ ~history.asked =>
         /\ main.pc \in {"exec", "alarm", "reset", "critical", "init"}
            \/ (main.pc = "handle" /\ main.looked < 5)
         /\ sys.state # "SafetyDoor" /\ "safetyDoorAjar" \notin sys.suspend
         /\ ~(sys.state = "Hold" /\ "holdComplete" \in sys.suspend)
    /\ "restoreCycle" \in spindle.ovr =>
         \/ Aborting
         \/ /\ history.asked /\ sys.state = "Hold" /\ "holdComplete" \in sys.suspend
            /\ main.pc = "suspend" \/ (main.pc = "handle" /\ main.looked >= 5)

\* An open door is known of, or about to be.
DoorInv ==
    door => \/ "SafetyDoor" \in rt
            \/ "safetyDoorAjar" \in sys.suspend /\ sys.state \in {"SafetyDoor", "Jog"}
            \/ sys.state \in {"Alarm", "ConfigAlarm", "CheckMode", "Sleep"}
            \/ main.pc = "init"

\* A reset without an alarm finds the machine at rest, save in a critical alarm.
ResetInv ==
    "Reset" \notin Pins /\ "Reset" \in rt /\ rtAlarm = "None" =>
        (sys.state = "Alarm" /\ Aborting) \/ (~stepper.timer /\ BeforePass)

Sound ==
    /\ SuspendInv /\ ParkInv /\ RestInv /\ RequestInv /\ AlarmInv
    /\ SpindleInv /\ StartInv /\ DoorInv /\ ResetInv

\* What is left of the program after its motion was cut off.
Nothing ==
    /\ plan = <<>> /\ ~sdcard /\ ~Active
    /\ main.caller \in {"boot", "idle", "line"} /\ main.line # "eof" /\ main.pc # "parked"
    /\ InPass => ~Parking

LostInv ==
    "Reset" \notin Pins /\ history.lost =>
        \/ "Reset" \in rt /\ rtAlarm # "None"
        \/ sys.state = "Alarm" /\ Aborting
        \/ Nothing /\ sys.suspend = {} /\ rtAlarm # "None" /\ main.pc \in {"poll", "exec", "alarm"}
        \/ /\ Nothing /\ sys.suspend = {} /\ sys.state = "Alarm"
           /\ rtAlarm = "None" \/ main.pc \in {"poll", "exec", "alarm"}
        \/ /\ Nothing /\ sys.state = "Sleep" /\ rtAlarm = "None"
           /\ {"holdComplete", "retractComplete"} \subseteq sys.suspend

Inv == TypeOK /\ ProgramInv /\ (Regular => Sound) /\ LostInv

-----------------------------------------------------------------------------
(* The effect of the actions, stated once, without their detail. *)

\* What prep_buffer can do: segments are added, and the end of the motion may be noted.
LEMMA PrepBuffer ==
    ASSUME NEW control \in SUBSET ControlBits, NEW blocks \in Seq(Motions), NEW st \in Steppers,
           NEW r \in prep_buffer(control, blocks, st)
    PROVE  /\ r.control \in {control, control \cup {"endMotion"}}
           /\ r.plan \in Seq(Motions)
           /\ r.stepper \in Steppers /\ r.stepper.timer = st.timer
           /\ blocks = <<>> => r.plan = <<>>
<1> DEFINE outcome(c, b, segs, begun) ==
        [control |-> c, plan |-> b, stepper |-> [st EXCEPT !.segs = segs, !.begun = begun]]
           ended == control \cup {"endMotion"}
           holds == IF "executeHold" \in control THEN {st.segs, TRUE} ELSE {}
<1>1. st.segs \in BOOLEAN /\ st.begun \in BOOLEAN /\ holds \subseteq BOOLEAN
  BY DEF Steppers
<1>2. ASSUME NEW c, NEW b, NEW segs \in BOOLEAN, NEW begun \in BOOLEAN, r = outcome(c, b, segs, begun)
      PROVE  r.control = c /\ r.plan = b /\ r.stepper \in Steppers /\ r.stepper.timer = st.timer
  <2>1. r.control = c /\ r.plan = b /\ r.stepper = [st EXCEPT !.segs = segs, !.begun = begun]
    BY <1>2
  <2> QED
    BY <2>1 DEF Steppers
<1>3. CASE "endMotion" \in control
  <2>1. r = outcome(control, blocks, st.segs, st.begun)
    BY <1>3 DEF prep_buffer
  <2> HIDE DEF outcome
  <2> QED
    BY <1>1, <1>2, <2>1
<1>4. CASE "endMotion" \notin control /\ "executeSysMotion" \in control
  <2>1. r \in {outcome(ended, blocks, segs, st.begun) : segs \in holds \cup {TRUE}}
    BY <1>4, Zenon DEF prep_buffer
  <2> HIDE DEF outcome, holds
  <2> QED
    BY <1>1, <1>2, <2>1
<1>5. CASE "endMotion" \notin control /\ "executeSysMotion" \notin control /\ blocks = <<>>
  <2>1. r = outcome(control, blocks, st.segs, st.begun)
    BY <1>5 DEF prep_buffer
  <2> HIDE DEF outcome
  <2> QED
    BY <1>1, <1>2, <2>1
<1>6. CASE "endMotion" \notin control /\ "executeSysMotion" \notin control /\ blocks # <<>>
  <2>1. r \in {outcome(control, Tail(blocks), TRUE, FALSE)}
             \cup (IF st.begun THEN {} ELSE {outcome(control, blocks, TRUE, TRUE)})
             \cup (IF st.segs THEN {outcome(control, blocks, TRUE, st.begun)} ELSE {})
             \cup {outcome(ended, blocks, segs, TRUE) : segs \in holds}
    BY <1>6, Zenon DEF prep_buffer
  <2>2. Tail(blocks) \in Seq(Motions)
    BY <1>6
  <2> HIDE DEF outcome, holds
  <2> QED
    BY <1>1, <1>2, <1>6, <2>1, <2>2
<1> QED
  BY <1>3, <1>4, <1>5, <1>6

\* The steppers the interrupt and the resets leave.
LEMMA StepperTypes ==
    /\ StoppedStepper \in Steppers
    /\ \A st \in Steppers : /\ Running(st) \in Steppers
                             /\ Stopped(st) \in Steppers
                             /\ [st EXCEPT !.segs = FALSE] \in Steppers
  BY DEF StoppedStepper, Running, Stopped, Steppers

\* Whatever protocol_disable_steppers does, the drivers stay of their type.
LEMMA Drivers ==
    ASSUME TypeOK, NEW alarm
    PROVE  protocol_disable_steppers(sys, alarm) \in [enabled : BOOLEAN, idleEnd : BOOLEAN]
  BY DEF TypeOK, protocol_disable_steppers

\* The program counter moves within its places.
LEMMA MainSteps ==
    ASSUME TypeOK
    PROVE  /\ LineDone => main' \in Mains
           /\ \A c \in Callers : Execute(c) => main' \in Mains
           /\ \A pc \in Places : Continue(pc) => main' \in Mains
           /\ \A w \in Withins : Pass(w) => main' \in Mains
<1>1. main \in Mains
  BY DEF TypeOK
<1>2. LineDone => main' \in Mains
  BY <1>1 DEF LineDone, Mains, Places
<1>3. ASSUME NEW c \in Callers, Execute(c) PROVE main' \in Mains
  BY <1>1, <1>3 DEF Execute, Mains, Places, Withins
<1>4. ASSUME NEW pc \in Places, Continue(pc) PROVE main' \in Mains
  BY <1>1, <1>4 DEF Continue, Mains
<1>5. ASSUME NEW w \in Withins, Pass(w) PROVE main' \in Mains
  BY <1>1, <1>5 DEF Pass, mc_cancel_jog, Mains, Places
<1> QED
  BY <1>2, <1>3, <1>4, <1>5

\* A pass that stops at a flag has looked at all flags before it.
LEMMA LooksAt ==
    ASSUME TypeOK, NEW f, At(f)
    PROVE  /\ main.pc = "handle" /\ f \in rt
           /\ main' \in Mains /\ main' = [main EXCEPT !.looked = main'.looked]
           /\ main.looked < main'.looked
           /\ f = Flags[main'.looked]
           /\ main.looked = 0 /\ "MotionCancel" \in rt => main'.looked = 1
           /\ main.looked < 4 /\ "Sleep" \in rt => main'.looked <= 4
           /\ main.looked < 5 /\ "CycleStart" \in rt => main'.looked <= 5
<1>1. /\ Len(Flags) = 6 /\ Flags[1] = "MotionCancel" /\ Flags[4] = "Sleep"
      /\ Flags[5] = "CycleStart"
  BY DEF Flags
<1>2. main \in Mains /\ main.looked \in 0 .. 6
  BY DEF TypeOK, Mains
<1>3. PICK k \in main.looked + 1 .. 6 :
        /\ Flags[k] = f /\ f \in rt
        /\ \A j \in main.looked + 1 .. k - 1 : Flags[j] \notin rt
        /\ main' = [main EXCEPT !.looked = k]
  BY <1>1 DEF At
<1>4. main' \in Mains /\ main'.looked = k
  BY <1>2, <1>3 DEF Mains
<1>5. main.pc = "handle"
  BY DEF At
<1> QED
  BY <1>1, <1>2, <1>3, <1>4, <1>5

\* The flags and their places in the order a pass looks at them.
LEMMA FlagNumbers ==
    \A k \in 1 .. 6 :
                     /\ Flags[k] = "MotionCancel" => k = 1
                     /\ Flags[k] = "FeedHold" => k = 2
                     /\ Flags[k] = "SafetyDoor" => k = 3
                     /\ Flags[k] = "Sleep" => k = 4
                     /\ Flags[k] = "CycleStart" => k = 5
                     /\ Flags[k] = "CycleStop" => k = 6
  BY DEF Flags

\* A pass ends when no flag is left that it has not looked at.
LEMMA PassEnds ==
    ASSUME TypeOK, EndPass
    PROVE  /\ main.looked = 0 => "MotionCancel" \notin rt
           /\ main.looked < 4 => "Sleep" \notin rt
           /\ main.looked < 5 => "CycleStart" \notin rt
<1>1. /\ Len(Flags) = 6 /\ Flags[1] = "MotionCancel" /\ Flags[4] = "Sleep"
      /\ Flags[5] = "CycleStart"
  BY DEF Flags
<1>2. main.looked \in 0 .. 6
  BY DEF TypeOK, Mains
<1>3. \A k \in main.looked + 1 .. 6 : Flags[k] \notin rt
  BY <1>1 DEF EndPass
<1> QED
  BY <1>1, <1>2, <1>3

\* What the set of systems says of each field.
LEMMA SystemFields ==
    ASSUME NEW s \in Systems
    PROVE  /\ s.state \in States /\ s.suspend \subseteq SuspendBits
           /\ s.control \subseteq ControlBits
           /\ \A c \in SUBSET ControlBits : /\ [s EXCEPT !.control = c] \in Systems
                                            /\ [s EXCEPT !.control = c].state = s.state
                                            /\ [s EXCEPT !.control = c].suspend = s.suspend
                                            /\ [s EXCEPT !.control = c].control = c
  BY DEF Systems

\* Where the main program is when it has called a pass out of its suspend loop.
LEMMA Passes ==
    ASSUME TypeOK, NEW w \in Withins, Pass(w)
    PROVE  /\ main' \in Mains
           /\ main'.pc = "exec" /\ main'.within = w /\ main'.caller = main.caller
           /\ main'.line = main.line /\ main'.looked = main.looked
  BY DEF TypeOK, Pass, mc_cancel_jog, Mains, Places

\* A cycle begins if there is something to do, otherwise the machine is idle.
LEMMA InitiateCycle ==
    ASSUME TypeOK, protocol_do_initiate_cycle
    PROVE  /\ sys' \in Systems /\ plan' \in Seq(Motions) /\ stepper' \in Steppers
           /\ drivers' \in [enabled : BOOLEAN, idleEnd : BOOLEAN]
           /\ sys'.suspend = {} /\ sys'.control \subseteq {"endMotion"}
           /\ \/ sys'.state = "Cycle" /\ stepper'.timer
              \/ /\ sys'.state = "Idle" /\ UNCHANGED <<stepper, plan>>
                 /\ plan = <<>> \/ "motionCancel" \in sys.suspend
<1>1. plan \in Seq(Motions) /\ stepper \in Steppers
  BY DEF TypeOK
<1>2. CASE plan # <<>> /\ "motionCancel" \notin sys.suspend
  <2>1. PICK r \in prep_buffer({}, plan, stepper) :
            /\ sys' = [state |-> "Cycle", suspend |-> {}, control |-> r.control]
            /\ plan' = r.plan
            /\ stepper' = Running(r.stepper)
            /\ drivers' = DriversInCycle
    BY <1>2 DEF protocol_do_initiate_cycle
  <2>2. {} \in SUBSET ControlBits
    OBVIOUS
  <2>3. /\ r.control \in {{}, {} \cup {"endMotion"}}
        /\ r.plan \in Seq(Motions) /\ r.stepper \in Steppers
    BY <1>1, <2>2, PrepBuffer
  <2>4. sys' \in Systems /\ sys'.control \subseteq {"endMotion"}
    BY <2>1, <2>3 DEF Systems, States, ControlBits
  <2>5. stepper' \in Steppers /\ stepper'.timer
    BY <2>1, <2>3 DEF Running, Steppers
  <2>6. drivers' \in [enabled : BOOLEAN, idleEnd : BOOLEAN]
    BY <2>1 DEF DriversInCycle
  <2> QED
    BY <2>1, <2>3, <2>4, <2>5, <2>6
<1>3. CASE plan = <<>> \/ "motionCancel" \in sys.suspend
  <2>1. /\ sys' = [state |-> "Idle", suspend |-> {}, control |-> {}]
        /\ plan' = plan /\ stepper' = stepper /\ drivers' = drivers
    BY <1>3 DEF protocol_do_initiate_cycle
  <2>2. sys' \in Systems
    BY <2>1 DEF Systems, States
  <2> QED
    BY <1>1, <1>3, <2>1, <2>2 DEF TypeOK
<1> QED
  BY <1>2, <1>3

\* A parking motion runs, in a pass of its own.
ParkingRuns(s, within) ==
    /\ sys' \in Systems /\ stepper' \in Steppers /\ stepper'.timer
    /\ drivers' \in [enabled : BOOLEAN, idleEnd : BOOLEAN]
    /\ main' \in Mains
    /\ sys'.state = s.state /\ sys'.suspend = s.suspend
    /\ "executeSysMotion" \in sys'.control
    /\ "executeHold" \in sys'.control <=> "executeHold" \in s.control
    /\ main'.pc = "exec" /\ main'.within = within /\ main'.caller = main.caller
    /\ main'.line = main.line /\ main'.looked = main.looked

\* A parking motion runs, in a pass of its own, and leaves state and suspend bits alone.
LEMMA ParkingMotion ==
    ASSUME TypeOK, NEW s \in Systems, NEW w \in Withins, mc_parking_motion(s, w)
    PROVE  ParkingRuns(s, w)
<1> DEFINE c == (s.control \cup {"executeSysMotion"}) \ {"endMotion"}
<1>1. c \in SUBSET ControlBits /\ c \cup {"endMotion"} \in SUBSET ControlBits
  BY SystemFields DEF ControlBits
<1>2. PICK r \in prep_buffer(c, plan, stepper) :
          sys' = [s EXCEPT !.control = r.control] /\ stepper' = Running(r.stepper)
  BY DEF mc_parking_motion
<1>3. plan \in Seq(Motions) /\ stepper \in Steppers
  BY DEF TypeOK
<1> HIDE DEF c
<1>4. r.control \in {c, c \cup {"endMotion"}} /\ r.stepper \in Steppers
  BY <1>1, <1>3, PrepBuffer
<1>5. stepper' \in Steppers /\ stepper'.timer
  BY <1>2, <1>4 DEF Running, Steppers
<1>6. /\ sys' \in Systems /\ sys'.state = s.state /\ sys'.suspend = s.suspend
      /\ sys'.control \in {c, c \cup {"endMotion"}}
  BY <1>1, <1>2, <1>4, SystemFields
<1>7. /\ "executeSysMotion" \in sys'.control
      /\ "executeHold" \in sys'.control <=> "executeHold" \in s.control
  BY <1>6 DEF c
<1>8. drivers' \in [enabled : BOOLEAN, idleEnd : BOOLEAN]
  BY DEF TypeOK, mc_parking_motion
<1>9. Pass(w)
  BY DEF mc_parking_motion
<1> QED
  BY <1>5, <1>6, <1>7, <1>8, <1>9, Passes DEF ParkingRuns

\* The end of a pass leaves the state as it is and prepares segments.
LEMMA PassPrepares ==
    ASSUME TypeOK, EndPass
    PROVE  /\ sys' \in Systems /\ plan' \in Seq(Motions) /\ stepper' \in Steppers
           /\ sys'.state = sys.state /\ sys'.suspend = sys.suspend
           /\ sys'.control \in {sys.control, sys.control \cup {"endMotion"}}
           /\ stepper'.timer = stepper.timer
           /\ plan = <<>> => plan' = <<>>
<1>1. plan \in Seq(Motions) /\ stepper \in Steppers /\ sys \in Systems
  BY DEF TypeOK
<1>2. /\ sys.control \in SUBSET ControlBits
      /\ sys.control \cup {"endMotion"} \in SUBSET ControlBits
  BY <1>1, SystemFields DEF ControlBits
<1>3. CASE sys.state \in {"Cycle", "Hold", "SafetyDoor", "Homing", "Jog"}
  <2> DEFINE c == sys.control
  <2>1. PICK r \in prep_buffer(c, plan, stepper) :
           /\ sys' = [sys EXCEPT !.control = r.control]
           /\ plan' = r.plan /\ stepper' = r.stepper
    BY <1>3 DEF EndPass
  <2>5. c \in SUBSET ControlBits
    BY <1>2
  <2> HIDE DEF c
  <2>2. /\ r.control \in {c, c \cup {"endMotion"}}
        /\ r.plan \in Seq(Motions) /\ r.stepper \in Steppers
        /\ r.stepper.timer = stepper.timer
        /\ plan = <<>> => r.plan = <<>>
    BY <1>1, <2>5, PrepBuffer
  <2> USE DEF c
  <2>3. r.control \in SUBSET ControlBits
    BY <1>2, <2>2
  <2>4. /\ sys' \in Systems /\ sys'.control = r.control
        /\ sys'.state = sys.state /\ sys'.suspend = sys.suspend
    BY <1>1, <2>1, <2>3, SystemFields
  <2> QED
    BY <2>1, <2>2, <2>4
<1>4. CASE sys.state \notin {"Cycle", "Hold", "SafetyDoor", "Homing", "Jog"}
  BY <1>1, <1>4 DEF EndPass
<1> QED
  BY <1>3, <1>4

\* A reset: it stops the spindle, and the stepper while the machine moves, which is
\* an alarm.
LEMMA ResetEffect ==
    ASSUME TypeOK, NEW then \in Alarms, mc_reset(then)
    PROVE  /\ stepper' \in Steppers /\ spindle' \in Spindles /\ rtAlarm' \in Alarms
           /\ history' \in Histories /\ drivers' \in [enabled : BOOLEAN, idleEnd : BOOLEAN]
           /\ rt' = rt \cup {"Reset"}
           /\ then # "None" => rtAlarm' = then
           /\ rtAlarm # "None" => rtAlarm' # "None"
           /\ history' = [history EXCEPT !.lost = history'.lost]
           /\ spindle' = [spindle EXCEPT !.on = spindle'.on]
           /\ IF "Reset" \in rt
              THEN /\ UNCHANGED <<spindle, stepper, drivers, history>>
                   /\ then = "None" => rtAlarm' = rtAlarm
              ELSE /\ ~spindle'.on
                   /\ stepper'.timer = (stepper.timer /\ ~Moving)
                   /\ Moving => rtAlarm' # "None"
                   /\ ~Moving => history' = history /\ (then = "None" => rtAlarm' = rtAlarm)
                   /\ history'.lost => history.lost \/ (Moving /\ stepper.timer)
<1>1. /\ sys.state # "Homing" /\ stepper \in Steppers /\ spindle \in Spindles
      /\ history \in Histories
  BY SystemFields DEF TypeOK, States
<1>2. CASE "Reset" \in rt
  BY <1>1, <1>2 DEF TypeOK, mc_reset, Spindles, Histories
<1>3. CASE "Reset" \notin rt
  <2>1. /\ rt' = rt \cup {"Reset"}
        /\ spindle' = [spindle EXCEPT !.on = FALSE]
        /\ stepper' = IF Moving THEN Stopped(stepper) ELSE stepper
        /\ history' = [history EXCEPT !.lost = @ \/ (Moving /\ stepper.timer)]
        /\ rtAlarm' = IF then # "None" THEN then ELSE IF Moving THEN "AbortCycle" ELSE rtAlarm
    BY <1>1, <1>3 DEF mc_reset
  <2>2. stepper' \in Steppers /\ stepper'.timer = (stepper.timer /\ ~Moving)
    BY <1>1, <2>1 DEF Stopped, Steppers
  <2>3. /\ spindle' \in Spindles /\ ~spindle'.on
        /\ spindle' = [spindle EXCEPT !.on = spindle'.on]
    BY <1>1, <2>1 DEF Spindles
  <2>4. /\ history' \in Histories /\ history' = [history EXCEPT !.lost = history'.lost]
        /\ history'.lost = (history.lost \/ (Moving /\ stepper.timer))
    BY <1>1, <2>1 DEF Histories
  <2>5. ~Moving => history' = history
    BY <1>1, <2>4 DEF Histories
  <2>6. drivers' \in [enabled : BOOLEAN, idleEnd : BOOLEAN]
    BY <1>3, Drivers DEF mc_reset, TypeOK
  <2>7. rtAlarm' \in Alarms
    BY <2>1 DEF TypeOK, Alarms
  <2> QED
    BY <1>3, <2>1, <2>2, <2>3, <2>4, <2>5, <2>6, <2>7
<1> QED
  BY <1>2, <1>3

\* Every handler of a request turns a system into a system.
LEMMA SystemTypes ==
    ASSUME NEW s \in Systems, s.state # "Homing"
    PROVE  /\ MotionCanceled(s) \in Systems /\ FeedHeld(s) \in Systems
           /\ DoorOpened(s) \in Systems
           /\ PutToSleep(s) \in Systems /\ HoldCompleted(s) \in Systems
           /\ MotionCompleted(s) \in Systems
<1> USE DEF Suspended, protocol_start_holding, protocol_cancel_jogging, protocol_hold_complete
<1>1. MotionCanceled(s) \in Systems
  BY DEF MotionCanceled, Systems, States, SuspendBits, ControlBits
<1>2. FeedHeld(s) \in Systems
  BY DEF FeedHeld, Systems, States, SuspendBits, ControlBits
<1>3. DoorOpened(s) \in Systems
  <2> DEFINE t == CASE s.state = "SafetyDoor" -> RetractAgain(s)
                    [] s.state = "Idle" -> protocol_hold_complete(s)
                    [] s.state = "Cycle" -> protocol_start_holding(s)
                    [] s.state = "Jog" -> protocol_cancel_jogging(protocol_start_holding(s))
                    [] OTHER -> s
             u == [t EXCEPT !.state = IF "jogCancel" \in t.suspend THEN @ ELSE "SafetyDoor"]
  <2>1. RetractAgain(s) \in Systems
    BY DEF RetractAgain, Systems, SuspendBits, ControlBits
  <2>2. t \in Systems
    BY <2>1 DEF Systems, SuspendBits, ControlBits
  <2>3. DoorOpened(s) = IF s.state \in {"ConfigAlarm", "Alarm", "CheckMode", "Sleep"} THEN s
                        ELSE [u EXCEPT !.suspend = @ \cup {"safetyDoorAjar"}]
    BY Zenon DEF DoorOpened
  <2> HIDE DEF t
  <2>4. u \in Systems
    BY <2>2 DEF Systems, States
  <2> HIDE DEF u
  <2> QED
    BY <2>3, <2>4 DEF Systems, SuspendBits
<1>4. PutToSleep(s) \in Systems
  BY DEF PutToSleep, Systems, States, SuspendBits, ControlBits
<1>5. HoldCompleted(s) \in Systems
  BY DEF HoldCompleted, Systems, States, SuspendBits, ControlBits
<1>6. MotionCompleted(s) \in Systems
  BY DEF MotionCompleted, Systems, States, SuspendBits, ControlBits
<1> QED
  BY <1>1, <1>2, <1>3, <1>4, <1>5, <1>6

\* A pass takes up flag k, the next that it finds set.
Handles(k, f) ==
    /\ main.pc = "handle" /\ f \in rt
    /\ main' \in Mains /\ main'.pc = "handle" /\ main'.within = main.within
    /\ main'.caller = main.caller /\ main'.line = main.line
    /\ main'.looked = k /\ main.looked < k
    /\ (main.looked = 0 /\ "MotionCancel" \in rt) => k = 1
    /\ (main.looked < 4 /\ "Sleep" \in rt) => k <= 4
    /\ (main.looked < 5 /\ "CycleStart" \in rt) => k <= 5

\* A pass that takes up a flag has looked at all flags before it.
LEMMA AtFlag ==
    ASSUME TypeOK, NEW k \in 1 .. 6, At(Flags[k])
    PROVE  Handles(k, Flags[k])
<1>1. Flags[main'.looked] = Flags[k] /\ main'.looked \in 1 .. 6
  BY LooksAt DEF TypeOK, Mains
<1>2. main'.looked = k
  BY <1>1 DEF Flags
<1>3. /\ main'.pc = main.pc /\ main'.within = main.within
      /\ main'.caller = main.caller /\ main'.line = main.line
  BY LooksAt DEF TypeOK, Mains
<1> QED
  BY <1>2, <1>3, LooksAt DEF Handles

\* The same for every flag by its name.
LEMMA FlagHandled ==
    ASSUME TypeOK
    PROVE  /\ At("MotionCancel") => Handles(1, "MotionCancel")
           /\ At("FeedHold") => Handles(2, "FeedHold")
           /\ At("SafetyDoor") => Handles(3, "SafetyDoor")
           /\ At("Sleep") => Handles(4, "Sleep")
           /\ At("CycleStart") => Handles(5, "CycleStart")
           /\ At("CycleStop") => Handles(6, "CycleStop")
<1>1. \A k \in 1 .. 6 : At(Flags[k]) => Handles(k, Flags[k])
  BY AtFlag
<1>2. /\ Flags[1] = "MotionCancel" /\ Flags[2] = "FeedHold" /\ Flags[3] = "SafetyDoor"
      /\ Flags[4] = "Sleep" /\ Flags[5] = "CycleStart" /\ Flags[6] = "CycleStop"
  BY DEF Flags
<1> QED
  BY <1>1, <1>2

\* A jog that finds the machine idle starts at once.
LEMMA JogStarts ==
    ASSUME TypeOK, EndLine, main.line = "jog", main.inflight, sys.state = "Idle"
    PROVE  /\ sys' \in Systems /\ plan' \in Seq(Motions) /\ stepper' \in Steppers
           /\ drivers' \in [enabled : BOOLEAN, idleEnd : BOOLEAN]
           /\ sys'.state = "Jog" /\ sys'.suspend = sys.suspend
           /\ sys'.control \in {sys.control, sys.control \cup {"endMotion"}}
           /\ stepper'.timer
<1> DEFINE c == sys.control
           b == Buffered
<1>1. stepper \in Steppers /\ sys \in Systems
  BY DEF TypeOK
<1>2. c \in SUBSET ControlBits /\ b \in Seq(Motions)
  BY <1>1, SystemFields DEF Buffered, TypeOK, Motions
<1>3. PICK r \in prep_buffer(c, b, stepper) :
        /\ sys' = [sys EXCEPT !.state = "Jog", !.control = r.control]
        /\ plan' = r.plan
        /\ stepper' = Running(r.stepper)
        /\ drivers' = [drivers EXCEPT !.enabled = TRUE]
  BY Zenon DEF EndLine
<1> HIDE DEF c, b
<1>4. /\ r.control \in {c, c \cup {"endMotion"}}
      /\ r.plan \in Seq(Motions) /\ r.stepper \in Steppers
  BY <1>1, <1>2, PrepBuffer
<1>5. r.control \in SUBSET ControlBits
  BY <1>2, <1>4 DEF ControlBits
<1>6. /\ sys' \in Systems /\ sys'.state = "Jog" /\ sys'.suspend = sys.suspend
      /\ sys'.control = r.control
  BY <1>1, <1>3, <1>5 DEF Systems, States
<1>7. stepper' \in Steppers /\ stepper'.timer
  BY <1>3, <1>4 DEF Running, Steppers
<1>8. drivers' \in [enabled : BOOLEAN, idleEnd : BOOLEAN]
  BY <1>3 DEF TypeOK
<1> QED
  BY <1>3, <1>4, <1>6, <1>7, <1>8 DEF c

\* A realtime command, other than a reset, sets a flag.
CommandSets(c) ==
    /\ UNCHANGED <<rtAlarm, spindle, stepper, drivers>>
    /\ rt \subseteq rt'
    /\ \A f \in {"Reset", "Sleep", "CycleStop"} : f \in rt' <=> f \in rt
    /\ "CycleStart" \in rt' => "CycleStart" \in rt \/ history'.asked
    /\ "MotionCancel" \in rt' => "MotionCancel" \in rt \/ sys.state = "Jog"
    /\ history.asked => history'.asked
    /\ history' = [history EXCEPT !.asked = history'.asked]

\* A realtime character resets the machine, or sets the flag it stands for.
LEMMA CommandEffect ==
    ASSUME TypeOK, NEW c \in Cmds, execute_realtime_command(c)
    PROVE  /\ rt' \in SUBSET RtFlags /\ rtAlarm' \in Alarms /\ history' \in Histories
           /\ stepper' \in Steppers /\ spindle' \in Spindles
           /\ drivers' \in [enabled : BOOLEAN, idleEnd : BOOLEAN]
           /\ c = "Reset" => mc_reset("None")
           /\ c # "Reset" => CommandSets(c)
<1>1. CASE c = "Reset"
  <2>1. mc_reset("None") /\ "None" \in Alarms
    BY <1>1 DEF execute_realtime_command, Alarms
  <2>2. rt' \in SUBSET RtFlags
    BY <2>1, ResetEffect DEF TypeOK, RtFlags
  <2> QED
    BY <1>1, <2>1, <2>2, ResetEffect
<1>2. CASE c # "Reset"
  <2>1. /\ UNCHANGED <<rtAlarm, spindle, stepper, drivers>>
        /\ history' = [history EXCEPT !.asked = @ \/ c = "CycleStart"]
        /\ rt' = IF c # "JogCancel" THEN rt \cup {c}
                 ELSE IF sys.state = "Jog" THEN rt \cup {"MotionCancel"} ELSE rt
    BY <1>2 DEF execute_realtime_command
  <2>2. /\ history' \in Histories /\ history' = [history EXCEPT !.asked = history'.asked]
        /\ history'.asked = (history.asked \/ c = "CycleStart")
    BY <2>1 DEF TypeOK, Histories
  <2>3. /\ rt' \in SUBSET RtFlags /\ rt \subseteq rt'
        /\ \A f \in {"Reset", "Sleep", "CycleStop"} : f \in rt' <=> f \in rt
    BY <1>2, <2>1 DEF TypeOK, Cmds, RtFlags
  <2>4. "CycleStart" \in rt' => "CycleStart" \in rt \/ history'.asked
    BY <2>1, <2>2 DEF Cmds
  <2>5. "MotionCancel" \in rt' => "MotionCancel" \in rt \/ sys.state = "Jog"
    BY <2>1 DEF Cmds
  <2> QED
    BY <1>2, <2>1, <2>2, <2>3, <2>4, <2>5 DEF TypeOK, CommandSets
<1> QED
  BY <1>1, <1>2

\* What the end of a pass does besides.
LEMMA PassEffect ==
    ASSUME TypeOK, EndPass
    PROVE  /\ main.pc = "handle" /\ main' \in Mains /\ spindle' \in Spindles
           /\ rt' = rt \ {"SpindleOvrStop"}
           /\ main'.within = main.within /\ main'.caller = main.caller
           /\ main'.line = main.line /\ main'.looked = 0
           /\ main'.pc = CASE main.within = "realtime"
                                -> IF sys.suspend # {} THEN "suspend" ELSE "return"
                           [] main.within = "suspend" -> "suspend"
                           [] main.within = "sleep" -> "exec"
                           [] OTHER -> IF "executeSysMotion" \in sys.control THEN "exec"
                                       ELSE "parked"
           /\ UNCHANGED <<rtAlarm, drivers, soft_limit, probing, door, sdcard, inbox,
                          history, budget>>
<1> DEFINE pc == CASE main.within = "realtime" -> IF sys.suspend # {} THEN "suspend" ELSE "return"
                   [] main.within = "suspend" -> "suspend"
                   [] main.within = "sleep" -> "exec"
                   [] OTHER -> IF "executeSysMotion" \in sys.control THEN "exec" ELSE "parked"
           k == 0
           m == [main EXCEPT !.looked = k, !.pc = pc]
<1>1. main \in Mains /\ pc \in Places /\ k \in 0 .. 6
  BY DEF TypeOK, Places
<1>2. main' = m
  BY Zenon DEF EndPass
<1> HIDE DEF pc, k
<1>3. /\ m \in Mains /\ m.pc = pc /\ m.looked = k /\ m.within = main.within
      /\ m.caller = main.caller /\ m.line = main.line
  BY <1>1 DEF Mains
<1>4. spindle' \in Spindles
  BY DEF EndPass, SpindleOverridden, TypeOK, Spindles
<1>5. /\ rt' = rt \ {"SpindleOvrStop"} /\ main.pc = "handle"
      /\ UNCHANGED <<rtAlarm, drivers, soft_limit, probing, door, sdcard, inbox, history,
                     budget>>
  BY DEF EndPass
<1> HIDE DEF m
<1> QED
  BY <1>2, <1>3, <1>4, <1>5 DEF pc, k

\* The lines that go on waiting for room, or for the queue to be emptied.
LEMMA BeginLineEffect ==
    ASSUME TypeOK, BeginLine
    PROVE  /\ main.pc = "return" /\ main.caller = "line" /\ main.line \notin {"probe", "eof"}
           /\ main' \in Mains /\ main'.looked = main.looked
           /\ \/ /\ main'.pc = "exec" /\ main'.within = "realtime" /\ main'.caller = "mc_line"
                 /\ main'.line = main.line
              \/ /\ main'.pc = "poll" /\ main'.within = main.within
                 /\ main'.caller = main.caller /\ main'.line = "none"
           /\ UNCHANGED <<Machine, rt, rtAlarm, sdcard, inbox>> /\ MainRest
<1> DEFINE m == [main EXCEPT !.pc = "exec", !.within = "realtime", !.caller = "mc_line",
                             !.inflight = TRUE]
           n == [main EXCEPT !.pc = "poll", !.line = "none", !.inflight = FALSE]
<1>1. /\ m \in Mains /\ m.looked = main.looked /\ m.pc = "exec" /\ m.within = "realtime"
      /\ m.caller = "mc_line" /\ m.line = main.line
      /\ n \in Mains /\ n.looked = main.looked /\ n.pc = "poll" /\ n.within = main.within
      /\ n.caller = main.caller /\ n.line = "none"
  BY DEF TypeOK, Mains, Places, Withins, Callers
<1>2. main' = m \/ main' = n
  BY Zenon DEF BeginLine, LineDone
<1>3. /\ main.pc = "return" /\ main.caller = "line" /\ main.line \in {"move", "jog"}
      /\ UNCHANGED <<Machine, rt, rtAlarm, sdcard, inbox>> /\ MainRest
  BY Zenon DEF BeginLine, Executes, Returned
<1> HIDE DEF m, n
<1> QED
  BY <1>1, <1>2, <1>3

\* Lines that wait for the queue to be emptied, the end of a file among them.
LEMMA BeginSyncEffect ==
    ASSUME TypeOK, BeginSync
    PROVE  /\ main.pc = "return" /\ main.caller = "line" /\ (main.line = "eof" \/ ~Locked)
           /\ main' \in Mains /\ main'.looked = main.looked
           /\ \/ /\ main'.pc = "exec" /\ main'.within = "realtime" /\ main'.caller = "sync"
                 /\ main'.line = main.line /\ rt' \in {rt, rt \cup {"CycleStart"}}
              \/ /\ main'.pc = "poll" /\ main'.within = main.within /\ main.line # "eof"
                 /\ main'.caller = main.caller /\ main'.line = "none" /\ rt' = rt
           /\ UNCHANGED <<Machine, rtAlarm, sdcard, inbox>> /\ MainRest
<1> DEFINE m == [main EXCEPT !.pc = "exec", !.within = "realtime", !.caller = "sync"]
           n == [main EXCEPT !.pc = "poll", !.line = "none", !.inflight = FALSE]
<1>1. /\ m \in Mains /\ m.looked = main.looked /\ m.pc = "exec" /\ m.within = "realtime"
      /\ m.caller = "sync" /\ m.line = main.line
      /\ n \in Mains /\ n.looked = main.looked /\ n.pc = "poll" /\ n.within = main.within
      /\ n.caller = main.caller /\ n.line = "none"
  BY DEF TypeOK, Mains, Places, Withins, Callers
<1>2. \/ main' = m /\ rt' \in {rt, rt \cup {"CycleStart"}}
      \/ main' = n /\ rt' = rt /\ main.line # "eof"
  BY Zenon DEF BeginSync, LineDone, Execute, Requested
<1>3. /\ main.pc = "return" /\ main.caller = "line" /\ (main.line = "eof" \/ ~Locked)
      /\ UNCHANGED <<Machine, rtAlarm, sdcard, inbox>> /\ MainRest
  BY Zenon DEF BeginSync, Returned
<1> HIDE DEF m, n
<1> QED
  BY <1>1, <1>2, <1>3

\* A line is planned and done, and starts nothing; or it starts a probing motion.
LEMMA EndLineEffect ==
    ASSUME TypeOK, EndLine
    PROVE  /\ main.pc = "return" /\ main.caller = "mc_line"
           /\ main' \in Mains /\ main'.looked = main.looked
           /\ \/ /\ main.line = "probe" /\ main'.pc = "exec" /\ main'.within = "realtime"
                 /\ main'.caller = "probe" /\ main'.line = main.line
                 /\ probing' /\ rt' = rt \cup {"CycleStart"}
              \/ /\ main'.pc = "poll" /\ main'.within = main.within
                 /\ main'.caller = main.caller /\ main'.line = "none"
                 /\ UNCHANGED <<probing, rt>>
           /\ \/ main.line = "jog" /\ main.inflight /\ sys.state = "Idle"
              \/ plan' = Buffered /\ UNCHANGED <<sys, stepper, drivers>>
           /\ sdcard' = (sdcard /\ main.inflight)
           /\ UNCHANGED <<rtAlarm, spindle, inbox, soft_limit, door, history, budget>>
<1> DEFINE m == [main EXCEPT !.pc = "exec", !.within = "realtime", !.caller = "probe"]
           n == [main EXCEPT !.pc = "poll", !.line = "none", !.inflight = FALSE]
<1>1. /\ m \in Mains /\ m.looked = main.looked /\ m.pc = "exec" /\ m.within = "realtime"
      /\ m.caller = "probe" /\ m.line = main.line
      /\ n \in Mains /\ n.looked = main.looked /\ n.pc = "poll" /\ n.within = main.within
      /\ n.caller = main.caller /\ n.line = "none"
  BY DEF TypeOK, Mains, Places, Withins, Callers
<1>2. \/ main' = m /\ main.line = "probe" /\ probing' = TRUE /\ rt' = rt \cup {"CycleStart"}
      \/ main' = n /\ UNCHANGED <<probing, rt>>
  BY Zenon DEF EndLine, LineDone, Execute
<1>3. /\ main.pc = "return" /\ main.caller = "mc_line"
      /\ \/ main.line = "jog" /\ main.inflight /\ sys.state = "Idle"
         \/ plan' = Buffered /\ UNCHANGED <<sys, stepper, drivers>>
      /\ sdcard' = (sdcard /\ main.inflight)
      /\ UNCHANGED <<rtAlarm, spindle, inbox, soft_limit, door, history, budget>>
  BY Zenon DEF EndLine, Returned
<1> HIDE DEF m, n
<1> QED
  BY <1>1, <1>2, <1>3

\* Only a job's file has an end.
LEMMA PollLineEffect ==
    ASSUME TypeOK, NEW line \in LineKinds \cup {"eof"}, PollLine(line)
    PROVE  /\ main.pc = "poll" /\ main' \in Mains
           /\ main'.within = "realtime" /\ main'.caller = "line" /\ main'.line = line
           /\ main'.looked = main.looked
           /\ IF line = "eof" THEN main'.pc = "return" /\ sdcard ELSE main'.pc = "exec"
           /\ UNCHANGED <<Machine, rt, rtAlarm, soft_limit, probing, door, sdcard, inbox,
                          history>>
<1>1. main' \in Mains
  BY DEF PollLine, TypeOK, Mains, Places, Callers, Withins
<1>2. /\ main.pc = "poll"
      /\ main'.within = "realtime" /\ main'.caller = "line" /\ main'.line = line
      /\ main'.looked = main.looked
      /\ IF line = "eof" THEN main'.pc = "return" /\ sdcard ELSE main'.pc = "exec"
  BY InputAssumption DEF PollLine, TypeOK, Mains, LineKinds
<1>3. UNCHANGED <<Machine, rt, rtAlarm, soft_limit, probing, door, sdcard, inbox, history>>
  BY DEF PollLine
<1> QED
  BY <1>1, <1>2, <1>3

\* What the handlers of stops do, besides sleep.  A door that opens while a jog is
\* canceled, or in a configuration alarm, stays pending.
Stopping ==
    /\ history'.lost = history.lost /\ history'.probed = history.probed
    /\ history'.midway = history.midway
    /\ UNCHANGED <<rtAlarm, plan, stepper, drivers, spindle, soft_limit, probing, door,
                   sdcard, inbox, budget>>

HoldHandled ==
    /\ Handles(2, "FeedHold") /\ sys' = FeedHeld(sys)
    /\ rt' = rt \ {"FeedHold", "CycleStart"}
    /\ history'.asked = (history.asked /\ sys.state = "SafetyDoor")
    /\ Stopping

DoorHandled ==
    /\ Handles(3, "SafetyDoor") /\ sys' = DoorOpened(sys) /\ ~history'.asked
    /\ rt' \subseteq rt \ {"CycleStart"} /\ rt \ {"CycleStart", "SafetyDoor"} \subseteq rt'
    /\ sys.state = "ConfigAlarm" \/ "jogCancel" \in sys'.suspend => "SafetyDoor" \in rt'
    /\ Stopping

\* The feed hold handler.
LEMMA HoldEffect ==
    ASSUME TypeOK, protocol_do_feedhold
    PROVE  HoldHandled
<1>1. history \in Histories
  BY DEF TypeOK
<1>2. Handles(2, "FeedHold")
  BY FlagHandled DEF protocol_do_feedhold, Stop
<1> QED
  BY <1>1, <1>2 DEF HoldHandled, Stopping, protocol_do_feedhold, Stop, Revokes, Histories

\* The door handler.
LEMMA DoorEffect ==
    ASSUME TypeOK, protocol_do_safety_door
    PROVE  DoorHandled
<1>1. sys.state # "Homing" /\ history \in Histories /\ rt \subseteq RtFlags
  BY DEF TypeOK, Systems, States
<1>2. Handles(3, "SafetyDoor") /\ "SafetyDoor" \in rt
  BY FlagHandled DEF protocol_do_safety_door, Stop, Handles
<1>3. rt' = rt \ ({"CycleStart"} \cup
                  IF sys.state = "ConfigAlarm" \/ "jogCancel" \in sys'.suspend
                  THEN {} ELSE {"SafetyDoor"})
  BY DEF protocol_do_safety_door
<1>4. /\ rt' \subseteq rt \ {"CycleStart"} /\ rt \ {"CycleStart", "SafetyDoor"} \subseteq rt'
      /\ sys.state = "ConfigAlarm" \/ "jogCancel" \in sys'.suspend => "SafetyDoor" \in rt'
  BY <1>2, <1>3
<1>5. ~history'.asked /\ Stopping
  BY <1>1 DEF Stopping, protocol_do_safety_door, Stop, Revokes, Histories
<1> QED
  BY <1>2, <1>4, <1>5 DEF DoorHandled, protocol_do_safety_door

\* The handler of sleep.
LEMMA SleepEffect ==
    ASSUME TypeOK, protocol_do_sleep
    PROVE  /\ Handles(4, "Sleep") /\ sys' = PutToSleep(sys) /\ rt' = rt \ {"Sleep"}
           /\ UNCHANGED <<rtAlarm, plan, stepper, drivers, spindle, soft_limit, probing, door,
                          sdcard, inbox, history, budget>>
  BY FlagHandled DEF protocol_do_sleep

-----------------------------------------------------------------------------
(* Every step keeps the types. *)

\* The last part of restoring.
LEMMA RestoreCompleteTypes ==
    ASSUME TypeOK, NEW s \in Systems, RestoreComplete(s)
    PROVE  /\ sys' \in Systems /\ rt' \in SUBSET RtFlags /\ main' \in Mains
           /\ stepper' \in Steppers /\ drivers' \in [enabled : BOOLEAN, idleEnd : BOOLEAN]
<1>1. main' \in Mains
  BY Passes DEF RestoreComplete, Withins
<1>2. sys' \in Systems
  BY DEF RestoreComplete, Suspended, Systems, SuspendBits
<1>3. rt' \in SUBSET RtFlags
  BY DEF RestoreComplete, RtFlags, TypeOK
<1> QED
  BY <1>1, <1>2, <1>3 DEF RestoreComplete, TypeOK

\* Power up, and the plunge that follows.
LEMMA PowerUpTypes ==
    ASSUME TypeOK, NEW s \in Systems, PowerUp(s)
    PROVE  /\ sys' \in Systems /\ rt' \in SUBSET RtFlags /\ main' \in Mains
           /\ stepper' \in Steppers /\ drivers' \in [enabled : BOOLEAN, idleEnd : BOOLEAN]
           /\ spindle' \in Spindles
<1>1. spindle' \in Spindles
  BY DEF PowerUp, SpindleRestored, TypeOK, Spindles
<1>2. RestoreComplete(s) \/ (mc_parking_motion(s, "restore2") /\ UNCHANGED rt)
  BY DEF PowerUp
<1> QED
  BY <1>1, <1>2, ParkingMotion, RestoreCompleteTypes DEF ParkingRuns, Withins, TypeOK

\* The first part of restoring.
LEMMA RestoreTypes ==
    ASSUME TypeOK, BeginRestore
    PROVE  /\ sys' \in Systems /\ rt' \in SUBSET RtFlags /\ main' \in Mains
           /\ stepper' \in Steppers /\ drivers' \in [enabled : BOOLEAN, idleEnd : BOOLEAN]
           /\ spindle' \in Spindles
<1>1. DoorRead \in Systems
  BY DEF DoorRead, TypeOK, Systems
<1>2. \/ mc_parking_motion(DoorRead, "restore1") /\ UNCHANGED <<rt, spindle>>
      \/ PowerUp(DoorRead)
  BY DEF BeginRestore
<1> QED
  BY <1>1, <1>2, ParkingMotion, PowerUpTypes DEF ParkingRuns, Withins, TypeOK

\* Every step keeps the types.
LEMMA ExecutorTypes ==
    ASSUME TypeOK, Executor
    PROVE  TypeOK'
<1>1. CASE PollRealtime
  <2>1. main' \in Mains
    BY <1>1, MainSteps DEF PollRealtime, Places
  <2>2. inbox \in Cmds /\ execute_realtime_command(inbox)
    BY <1>1 DEF PollRealtime, TypeOK
  <2> QED
    BY <2>1, <2>2, <1>1, CommandEffect DEF PollRealtime, TypeOK
<1>2. CASE protocol_do_alarm
  <2>1. main' \in Mains
    BY <1>2, MainSteps DEF protocol_do_alarm, Places
  <2>2. sys' \in Systems
    BY <1>2 DEF protocol_do_alarm, TypeOK, Systems, States
  <2>3. sdcard' \in BOOLEAN /\ rt' \in SUBSET RtFlags /\ rtAlarm' \in Alarms
    BY <1>2 DEF protocol_do_alarm, TypeOK, Alarms
  <2> QED
    BY <2>1, <2>2, <2>3, <1>2 DEF protocol_do_alarm, TypeOK
<1>3. CASE CriticalEvent /\ "Reset" \in rt
  <2>1. main' \in Mains /\ rtAlarm' \in Alarms
    BY <1>3, MainSteps DEF CriticalEvent, Places, Alarms
  <2> QED
    BY <2>1, <1>3 DEF CriticalEvent, TypeOK
<1>4. CASE CriticalEvent /\ "Reset" \notin rt
  <2>1. inbox \in Cmds /\ execute_realtime_command(inbox)
    BY <1>4 DEF CriticalEvent, TypeOK
  <2> QED
    BY <2>1, <1>4, CommandEffect DEF CriticalEvent, TypeOK
<1>5. CASE CheckReset
  <2> DEFINE pc == IF "Reset" \in rt THEN "init" ELSE "handle"
             k == 0
             m == [main EXCEPT !.pc = pc, !.looked = k]
  <2>1. main \in Mains /\ pc \in Places /\ k \in 0 .. 6
    BY DEF TypeOK, Places
  <2>2. main' = m
    BY <1>5, Zenon DEF CheckReset
  <2> HIDE DEF pc, k
  <2>3. m \in Mains
    BY <2>1 DEF Mains
  <2>4. rtAlarm' \in Alarms
    BY <1>5 DEF CheckReset, TypeOK, Alarms
  <2> QED
    BY <1>5, <2>2, <2>3, <2>4 DEF CheckReset, TypeOK
<1>6. CASE protocol_do_motion_cancel
  <2>1. main' \in Mains
    BY <1>6, LooksAt DEF protocol_do_motion_cancel, Stop
  <2>2. sys \in Systems /\ sys.state # "Homing"
    BY DEF TypeOK, Systems, States
  <2>3. sys' \in Systems
    BY <1>6, <2>2, SystemTypes DEF protocol_do_motion_cancel
  <2>4. history' \in Histories
    BY <1>6 DEF protocol_do_motion_cancel, Stop, TypeOK, Histories
  <2>5. rt' \in SUBSET RtFlags
    BY <1>6 DEF protocol_do_motion_cancel, TypeOK
  <2> QED
    BY <2>1, <2>2, <2>3, <2>4, <2>5, <1>6 DEF protocol_do_motion_cancel, Stop, TypeOK
<1>7. CASE protocol_do_feedhold
  <2>1. main' \in Mains
    BY <1>7, LooksAt DEF protocol_do_feedhold, Stop
  <2>2. sys \in Systems /\ sys.state # "Homing"
    BY DEF TypeOK, Systems, States
  <2>3. sys' \in Systems
    BY <1>7, <2>2, SystemTypes DEF protocol_do_feedhold
  <2>4. history' \in Histories
    BY <1>7 DEF protocol_do_feedhold, Stop, TypeOK, Histories
  <2>5. rt' \in SUBSET RtFlags
    BY <1>7 DEF protocol_do_feedhold, TypeOK
  <2> QED
    BY <2>1, <2>2, <2>3, <2>4, <2>5, <1>7 DEF protocol_do_feedhold, Stop, TypeOK
<1>8. CASE protocol_do_safety_door
  <2>1. main' \in Mains
    BY <1>8, LooksAt DEF protocol_do_safety_door, Stop
  <2>2. sys \in Systems /\ sys.state # "Homing"
    BY DEF TypeOK, Systems, States
  <2>3. sys' \in Systems
    BY <1>8, <2>2, SystemTypes DEF protocol_do_safety_door
  <2>4. history' \in Histories
    BY <1>8 DEF protocol_do_safety_door, Stop, TypeOK, Histories
  <2>5. rt' \in SUBSET RtFlags
    BY <1>8 DEF protocol_do_safety_door, TypeOK
  <2>6. rtAlarm' = rtAlarm
    BY <1>8, <2>2 DEF protocol_do_safety_door
  <2> QED
    BY <2>1, <2>2, <2>3, <2>4, <2>5, <2>6, <1>8 DEF protocol_do_safety_door, Stop, TypeOK
<1>9. CASE protocol_do_sleep
  <2>1. main' \in Mains
    BY <1>9, LooksAt DEF protocol_do_sleep, Stop
  <2>2. sys \in Systems /\ sys.state # "Homing"
    BY DEF TypeOK, Systems, States
  <2>3. sys' \in Systems
    BY <1>9, <2>2, SystemTypes DEF protocol_do_sleep
  <2>4. rt' \in SUBSET RtFlags
    BY <1>9 DEF protocol_do_sleep, TypeOK
  <2> QED
    BY <2>1, <2>2, <2>3, <2>4, <1>9 DEF protocol_do_sleep, Stop, TypeOK
<1>10. CASE protocol_do_cycle_start
  <2>1. main' \in Mains
    BY <1>10, LooksAt DEF protocol_do_cycle_start
  <2>2. history' \in Histories
    BY <1>10 DEF protocol_do_cycle_start, TypeOK, Histories
  <2>3. spindle' \in Spindles
    BY <1>10 DEF protocol_do_cycle_start, TypeOK, Spindles
  <2>4. rt' \in SUBSET RtFlags
    BY <1>10 DEF protocol_do_cycle_start, TypeOK
  <2>5. \/ protocol_do_initiate_cycle
        \/ /\ UNCHANGED <<plan, stepper, drivers>>
           /\ sys' \in {sys, [sys EXCEPT !.state = "Idle"], Suspended(sys, {"initiateRestore"})}
    BY <1>10 DEF protocol_do_cycle_start
  <2>6. protocol_do_initiate_cycle
          => sys' \in Systems /\ plan' \in Seq(Motions) /\ stepper' \in Steppers
             /\ drivers' \in [enabled : BOOLEAN, idleEnd : BOOLEAN]
    BY InitiateCycle
  <2>7. sys' \in {sys, [sys EXCEPT !.state = "Idle"], Suspended(sys, {"initiateRestore"})}
          => sys' \in Systems
    BY DEF TypeOK, Suspended, Systems, States, SuspendBits
  <2> QED
    BY <2>1, <2>2, <2>3, <2>4, <2>5, <2>6, <2>7, <1>10 DEF protocol_do_cycle_start, TypeOK
<1>11. CASE protocol_do_cycle_stop
  <2>1. main' \in Mains
    BY <1>11, LooksAt DEF protocol_do_cycle_stop
  <2>2. sys \in Systems /\ sys.state # "Homing"
    BY DEF TypeOK, Systems, States
  <2>3. sys' \in Systems
    BY <1>11, <2>2, SystemTypes DEF protocol_do_cycle_stop
  <2>4. plan' = <<>> \/ plan' = plan
    BY <1>11, Zenon DEF protocol_do_cycle_stop
  <2>5. stepper' = StoppedStepper \/ stepper' = stepper
    BY <1>11, Zenon DEF protocol_do_cycle_stop
  <2>6. <<>> \in Seq(Motions) /\ plan \in Seq(Motions)
    BY DEF TypeOK
  <2>7. plan' \in Seq(Motions)
    BY <2>4, <2>6
  <2>8. stepper' \in Steppers
    BY <2>5, StepperTypes DEF TypeOK
  <2>9. rt' \in SUBSET RtFlags
    BY <1>11 DEF protocol_do_cycle_stop, TypeOK
  <2> QED
    BY <2>1, <2>2, <2>3, <2>4, <2>5, <2>6, <2>7, <2>8, <2>9, <1>11, Drivers DEF
       protocol_do_cycle_stop, TypeOK
<1>12. CASE EndPass
  <2>1. rt' \in SUBSET RtFlags
    BY <1>12, PassEffect DEF TypeOK
  <2> QED
    BY <2>1, <1>12, PassEffect, PassPrepares DEF TypeOK
<1> QED
  BY <1>1, <1>2, <1>3, <1>4, <1>5, <1>6, <1>7, <1>8, <1>9, <1>10, <1>11, <1>12 DEF Executor

\* The same for the suspend loop.
LEMMA SuspendTypes ==
    ASSUME TypeOK, Suspend
    PROVE  TypeOK'
<1>1. CASE EndSuspend
  BY <1>1, MainSteps DEF EndSuspend, SuspendRest, Places, TypeOK
<1>2. CASE AwaitHold
  BY <1>2, Passes DEF AwaitHold, SuspendRest, Withins, TypeOK
<1>3. CASE Retract
  <2>1. sys \in Systems /\ {"retract1", "retract2", "suspend"} \subseteq Withins
    BY DEF TypeOK, Withins
  <2>2. spindle' \in Spindles
    BY <1>3 DEF Retract, Off, TypeOK, Spindles
  <2>3. \/ mc_parking_motion(sys, "retract1") \/ mc_parking_motion(sys, "retract2")
        \/ RetractComplete
    BY <1>3 DEF Retract
  <2>4. RetractComplete
          => sys' \in Systems /\ main' \in Mains /\ UNCHANGED <<stepper, drivers>>
    BY <2>1, Passes DEF RetractComplete, TypeOK, Systems, SuspendBits
  <2>5. /\ sys' \in Systems /\ stepper' \in Steppers /\ main' \in Mains
        /\ drivers' \in [enabled : BOOLEAN, idleEnd : BOOLEAN]
    BY <2>1, <2>3, <2>4, ParkingMotion DEF ParkingRuns, TypeOK
  <2> QED
    BY <2>1, <2>2, <2>3, <2>4, <2>5, <1>3 DEF Retract, SuspendRest, TypeOK
<1>4. CASE RetractFast
  <2>1. sys \in Systems /\ {"retract2", "suspend"} \subseteq Withins
    BY DEF TypeOK, Withins
  <2>2. spindle' \in Spindles
    BY <1>4 DEF RetractFast, Off, TypeOK, Spindles
  <2>3. RetractComplete
          => sys' \in Systems /\ main' \in Mains /\ UNCHANGED <<stepper, drivers>>
    BY <2>1, Passes DEF RetractComplete, TypeOK, Systems, SuspendBits
  <2>4. /\ sys' \in Systems /\ stepper' \in Steppers /\ main' \in Mains
        /\ drivers' \in [enabled : BOOLEAN, idleEnd : BOOLEAN]
    BY <1>4, <2>1, <2>3, ParkingMotion DEF RetractFast, ParkingRuns, TypeOK
  <2> QED
    BY <2>1, <2>2, <2>3, <2>4, <1>4 DEF RetractFast, SuspendRest, TypeOK
<1>5. CASE EndRetract
  <2>1. sys \in Systems /\ {"suspend"} \subseteq Withins
    BY DEF TypeOK, Withins
  <2>2. sys' \in Systems /\ main' \in Mains
    BY <1>5, <2>1, Passes DEF EndRetract, RetractComplete, Systems, SuspendBits
  <2> QED
    BY <2>1, <2>2, <1>5 DEF EndRetract, RetractComplete, SuspendRest, TypeOK
<1>6. CASE FallAsleep
  <2>1. main' \in Mains
    BY <1>6, Passes DEF FallAsleep, Withins
  <2>2. spindle' \in Spindles
    BY <1>6 DEF FallAsleep, Off, TypeOK, Spindles
  <2>3. stepper' \in Steppers
    BY <1>6, StepperTypes DEF FallAsleep, TypeOK
  <2> QED
    BY <2>1, <2>2, <2>3, <1>6, Drivers DEF FallAsleep, SuspendRest, TypeOK
<1>7. CASE AwaitClosing
  <2>1. main' \in Mains
    BY <1>7, Passes DEF AwaitClosing, Withins
  <2>2. sys' \in Systems
    BY <1>7 DEF AwaitClosing, DoorRead, TypeOK, Systems
  <2> QED
    BY <2>1, <2>2, <1>7 DEF AwaitClosing, SuspendRest, TypeOK
<1>8. CASE BeginRestore
  BY <1>8, RestoreTypes DEF BeginRestore, SuspendRest, TypeOK
<1>9. CASE RestoreFast
  BY <1>9, PowerUpTypes DEF RestoreFast, SuspendRest, TypeOK
<1>10. CASE EndRestore
  BY <1>10, RestoreCompleteTypes DEF EndRestore, SuspendRest, TypeOK
<1>11. CASE ManageHold
  <2>1. main' \in Mains
    BY <1>11, Passes DEF ManageHold, Withins
  <2>2. spindle' \in Spindles
    BY <1>11 DEF ManageHold, Off, SpindleRestored, TypeOK, Spindles
  <2>3. rt' \in SUBSET RtFlags
    BY <1>11 DEF ManageHold, TypeOK, RtFlags
  <2> QED
    BY <2>1, <2>2, <2>3, <1>11 DEF ManageHold, SuspendRest, TypeOK
<1> QED
  BY <1>1, <1>2, <1>3, <1>4, <1>5, <1>6, <1>7, <1>8, <1>9, <1>10, <1>11 DEF Suspend

\* The same for the main program.
LEMMA ProgramTypes ==
    ASSUME TypeOK, Program
    PROVE  TypeOK'
<1>1. CASE run_once
  <2>1. sys' \in Systems
    BY <1>1 DEF run_once, StateAfterReset, Systems, States
  <2>2. main' \in Mains
    BY <1>1 DEF run_once, Mains, Places, Withins, Callers
  <2>3. rt' \in SUBSET RtFlags
    BY <1>1 DEF run_once, RtFlags
  <2>4. spindle' \in Spindles
    BY <1>1 DEF run_once, Spindles
  <2>5. history' \in Histories
    BY <1>1 DEF run_once, TypeOK, Histories, Steppers, Regular
  <2>6. plan' = <<>> /\ probing' = FALSE /\ sdcard' = FALSE
    BY <1>1 DEF run_once
  <2>7. plan' \in Seq(Motions)
    BY <2>6
  <2>8. drivers' \in [enabled : BOOLEAN, idleEnd : BOOLEAN]
    BY <1>1, Drivers DEF run_once, TypeOK
  <2> QED
    BY <2>1, <2>2, <2>3, <2>4, <2>5, <2>6, <2>7, <2>8, <1>1, StepperTypes DEF run_once,
       TypeOK
<1>2. CASE PollCharacter
  <2>1. inbox \in Cmds /\ execute_realtime_command(inbox)
    BY <1>2 DEF PollCharacter, TypeOK
  <2> QED
    BY <2>1, <1>2, CommandEffect DEF PollCharacter, TypeOK
<1>3. CASE PollNothing
  BY <1>3, MainSteps DEF PollNothing, Requested, Machine, MainRest, Callers, RtFlags, TypeOK
<1>4. CASE EndIdle
  <2>1. main' \in Mains
    BY <1>4, MainSteps DEF EndIdle
  <2>2. drivers' = drivers \/ drivers' = [enabled |-> FALSE, idleEnd |-> FALSE]
    BY <1>4, Zenon DEF EndIdle
  <2>3. [enabled |-> FALSE, idleEnd |-> FALSE] \in [enabled : BOOLEAN, idleEnd : BOOLEAN]
    OBVIOUS
  <2>4. drivers' \in [enabled : BOOLEAN, idleEnd : BOOLEAN]
    BY <2>2, <2>3 DEF TypeOK
  <2> QED
    BY <2>1, <2>2, <2>3, <2>4, <1>4 DEF EndIdle, MainRest, TypeOK
<1>5. CASE \E line \in LineKinds \cup {"eof"} : PollLine(line)
  <2>1. PICK line \in LineKinds \cup {"eof"} : PollLine(line)
    BY <1>5
  <2>2. main' \in Mains
    BY <2>1, PollLineEffect
  <2>3. budget' \in [lines : Nat, events : Nat]
    BY <2>1 DEF PollLine, TypeOK
  <2> QED
    BY <2>1, <2>2, <2>3 DEF PollLine, Machine, TypeOK
<1>6. CASE RefuseLine
  BY <1>6, MainSteps DEF RefuseLine, Machine, MainRest, TypeOK
<1>7. CASE runSDFile
  BY <1>7, MainSteps DEF runSDFile, Machine, MainRest, TypeOK
<1>8. CASE EndFile
  BY <1>8, MainSteps DEF EndFile, Machine, MainRest, TypeOK
<1>9. CASE go_to_sleep
  BY <1>9, MainSteps DEF go_to_sleep, Machine, MainRest, RtFlags, TypeOK
<1>10. CASE disable_alarm_lock
  <2>1. main' \in Mains
    BY <1>10, MainSteps DEF disable_alarm_lock
  <2>2. sys' \in Systems
    BY <1>10 DEF disable_alarm_lock, TypeOK, Systems, States
  <2>3. history' \in Histories
    BY <1>10 DEF disable_alarm_lock, TypeOK, Histories
  <2>4. rtAlarm' \in Alarms /\ sdcard' \in BOOLEAN
    BY <1>10 DEF disable_alarm_lock, TypeOK, Alarms
  <2> QED
    BY <2>1, <2>2, <2>3, <2>4, <1>10 DEF disable_alarm_lock, TypeOK
<1>11. CASE toggle_check_mode
  <2>1. main' \in Mains
    BY <1>11, MainSteps DEF toggle_check_mode
  <2>2. sys' \in Systems
    BY <1>11 DEF toggle_check_mode, TypeOK, Systems, States
  <2>3. /\ "None" \in Alarms
        /\ mc_reset("None") \/ UNCHANGED <<rt, rtAlarm, spindle, stepper, drivers, history>>
    BY <1>11 DEF toggle_check_mode, Alarms
  <2>4. rt' \in SUBSET RtFlags
    BY <2>3, ResetEffect DEF TypeOK, RtFlags
  <2> QED
    BY <2>1, <2>2, <2>3, <2>4, <1>11, ResetEffect DEF toggle_check_mode, TypeOK
<1>12. CASE BeginLine
  BY <1>12, BeginLineEffect DEF Machine, MainRest, TypeOK
<1>13. CASE AwaitRoom
  BY <1>13, MainSteps DEF AwaitRoom, Requested, RtFlags, Machine, MainRest, Callers, TypeOK
<1>14. CASE AwaitSoftHold
  BY <1>14, MainSteps DEF AwaitSoftHold, Machine, MainRest, Callers, TypeOK
<1>15. CASE AwaitSync
  BY <1>15, MainSteps DEF AwaitSync, Machine, MainRest, Callers, TypeOK
<1>16. CASE EndDwell
  BY <1>16, MainSteps DEF EndDwell, Machine, MainRest, Callers, TypeOK
<1>17. CASE PauseProgram
  BY <1>17, MainSteps DEF PauseProgram, RtFlags, Machine, MainRest, Callers, TypeOK
<1>18. CASE AwaitProbe
  BY <1>18, MainSteps DEF AwaitProbe, Machine, MainRest, Callers, TypeOK
<1>19. CASE EndLine
  <2>1. rt' \in SUBSET RtFlags /\ probing' \in BOOLEAN /\ sdcard' \in BOOLEAN
    BY <1>19, EndLineEffect DEF TypeOK, RtFlags, Mains
  <2>2. CASE main.line = "jog" /\ main.inflight /\ sys.state = "Idle"
    BY <1>19, <2>1, <2>2, EndLineEffect, JogStarts DEF TypeOK
  <2>3. CASE ~(main.line = "jog" /\ main.inflight /\ sys.state = "Idle")
    <3>1. plan' = Buffered /\ UNCHANGED <<sys, stepper, drivers>>
      BY <1>19, <2>3, EndLineEffect
    <3>2. plan' \in Seq(Motions)
      BY <3>1 DEF Buffered, TypeOK, Motions
    <3> QED
      BY <1>19, <2>1, <3>1, <3>2, EndLineEffect DEF TypeOK
  <2> QED
    BY <2>2, <2>3
<1>20. CASE BeginSoftLimit
  BY <1>20, MainSteps DEF BeginSoftLimit, Machine, Callers, RtFlags, TypeOK
<1>21. CASE RaiseSoftLimit
  <2>1. main' \in Mains
    BY <1>21, MainSteps DEF RaiseSoftLimit, Callers
  <2>2. "SoftLimit" \in Alarms /\ mc_reset("SoftLimit")
    BY <1>21 DEF RaiseSoftLimit, Alarms
  <2>3. rt' \in SUBSET RtFlags
    BY <2>2, ResetEffect DEF TypeOK, RtFlags
  <2> QED
    BY <2>1, <2>2, <2>3, <1>21, ResetEffect DEF RaiseSoftLimit, TypeOK
<1>22. CASE BeginSync
  <2>1. rt' \in SUBSET RtFlags
    BY <1>22, BeginSyncEffect DEF TypeOK, RtFlags
  <2> QED
    BY <2>1, <1>22, BeginSyncEffect DEF Machine, MainRest, TypeOK
<1>23. CASE SwitchSpindle
  <2>1. main' \in Mains
    BY <1>23, MainSteps DEF SwitchSpindle
  <2>2. spindle' \in Spindles
    BY <1>23 DEF SwitchSpindle, TypeOK, Spindles
  <2> QED
    BY <2>1, <2>2, <1>23 DEF SwitchSpindle, MainRest, TypeOK
<1>24. CASE BeginProbe
  <2>1. main' \in Mains
    BY <1>24, MainSteps DEF BeginProbe, Callers, TypeOK, Mains, Places, Withins
  <2>2. rtAlarm' \in Alarms
    BY <1>24 DEF BeginProbe, TypeOK, Alarms
  <2>3. history' \in Histories
    BY <1>24 DEF BeginProbe, TypeOK, Histories
  <2> QED
    BY <2>1, <2>2, <2>3, <1>24 DEF BeginProbe, Machine, TypeOK
<1>25. CASE EndProbe
  <2>1. main' \in Mains
    BY <1>25, MainSteps DEF EndProbe, Callers
  <2>2. rtAlarm' \in Alarms /\ probing' \in BOOLEAN
    BY <1>25 DEF EndProbe, TypeOK, Alarms
  <2> QED
    BY <2>1, <2>2, <1>25 DEF EndProbe, Machine, TypeOK
<1>26. CASE DropProbe
  <2>1. main' \in Mains
    BY <1>26, MainSteps DEF DropProbe
  <2>2. plan' \in Seq(Motions)
    BY <1>26 DEF DropProbe
  <2> QED
    BY <2>1, <2>2, <1>26, Drivers, StepperTypes DEF DropProbe, MainRest, TypeOK
<1> QED
  BY <1>1, <1>2, <1>3, <1>4, <1>5, <1>6, <1>7, <1>8, <1>9, <1>10, <1>11, <1>12, <1>13, <1>14,
     <1>15, <1>16, <1>17, <1>18, <1>19, <1>20, <1>21, <1>22, <1>23, <1>24, <1>25, <1>26 DEF
     Program

\* The same for the interrupt and the outside world.
LEMMA OutsideTypes ==
    ASSUME TypeOK, Interrupt \/ Environment
    PROVE  TypeOK'
<1>1. CASE ExecuteSegments
  BY <1>1, StepperTypes DEF ExecuteSegments, TypeOK
<1>2. CASE RunDry
  <2>1. stepper' \in Steppers
    BY <1>2, StepperTypes DEF RunDry, TypeOK
  <2>2. rt' \in SUBSET RtFlags
    BY <1>2 DEF RunDry, RtFlags, TypeOK
  <2> QED
    BY <2>1, <2>2, <1>2 DEF RunDry, TypeOK
<1>3. CASE TripProbe
  BY <1>3 DEF TripProbe, RtFlags, TypeOK
<1>4. CASE \E flag \in PinFlags : ActivatePin(flag)
  <2>1. PICK flag \in PinFlags : ActivatePin(flag)
    BY <1>4
  <2>2. rt' \in SUBSET RtFlags
    BY <2>1 DEF ActivatePin, TypeOK, PinFlags, RtFlags
  <2>3. history' \in Histories
    BY <2>1 DEF ActivatePin, TypeOK, Histories
  <2>4. budget' \in [lines : Nat, events : Nat]
    BY <2>1 DEF ActivatePin, Event, TypeOK
  <2>5. door' \in BOOLEAN
    BY <2>1 DEF ActivatePin, TypeOK
  <2> QED
    BY <2>1, <2>2, <2>3, <2>4, <2>5 DEF ActivatePin, Outside, TypeOK
<1>5. CASE CloseDoor
  BY <1>5 DEF CloseDoor, Outside, TypeOK
<1>6. CASE HitLimit
  <2>1. "HardLimit" \in Alarms /\ mc_reset("HardLimit")
    BY <1>6 DEF HitLimit, Alarms
  <2>2. rt' \in SUBSET RtFlags
    BY <2>1, ResetEffect DEF TypeOK, RtFlags
  <2>3. budget' \in [lines : Nat, events : Nat]
    BY <1>6 DEF HitLimit, Event, TypeOK
  <2> QED
    BY <2>1, <2>2, <2>3, <1>6, ResetEffect DEF HitLimit, Outside, TypeOK
<1>7. CASE \E c \in Cmds : SendCharacter(c)
  <2>1. PICK c \in Cmds : SendCharacter(c)
    BY <1>7
  <2>2. budget' \in [lines : Nat, events : Nat]
    BY <2>1 DEF SendCharacter, Event, TypeOK
  <2> QED
    BY <2>1, <2>2 DEF SendCharacter, Outside, TypeOK
<1> QED
  BY <1>1, <1>2, <1>3, <1>4, <1>5, <1>6, <1>7 DEF Interrupt, Environment

-----------------------------------------------------------------------------
(* Every step keeps the bookkeeping of motions sound, save a reset. *)

\* The invariant of sound bookkeeping, for every step of a pass.
LEMMA ExecutorSound ==
    ASSUME TypeOK, ProgramInv, Regular, Sound, Regular', Executor
    PROVE  Sound'
<1> USE DEF TypeOK, Systems, Mains, ProgramInv, Sound, SuspendInv, ParkInv, RestInv,
   RequestInv,
   AlarmInv, SpindleInv, StartInv, DoorInv, ResetInv, Active, Aborting, InPass, Parking,
   AtEof, BeforePass, Halted, Restart, Restoring, Regular
<1>1. CASE PollRealtime /\ inbox = "Reset"
  <2>1. mc_reset("None") /\ "None" \in Alarms
    BY <1>1, CommandEffect DEF PollRealtime, TypeOK, Alarms, Cmds
  <2> QED
    BY <2>1, <1>1, ResetEffect DEF PollRealtime, Continue, Histories, Spindles, Moving,
       States
<1>2. CASE PollRealtime /\ inbox # "Reset"
  <2>1. CommandSets(inbox)
    BY <1>2, CommandEffect DEF PollRealtime, TypeOK
  <2> QED
    BY <2>1, <1>2 DEF PollRealtime, Continue, CommandSets, Histories, Spindles
<1>3. CASE CriticalEvent /\ "Reset" \notin rt /\ inbox = "Reset"
  <2>1. mc_reset("None") /\ "None" \in Alarms
    BY <1>3, CommandEffect DEF CriticalEvent, TypeOK, Alarms, Cmds
  <2> QED
    BY <2>1, <1>3, ResetEffect DEF CriticalEvent, Continue, Histories, Spindles, Moving,
       States
<1>4. CASE CriticalEvent /\ "Reset" \notin rt /\ inbox # "Reset"
  <2>1. CommandSets(inbox)
    BY <1>4, CommandEffect DEF CriticalEvent, TypeOK
  <2> QED
    BY <2>1, <1>4 DEF CriticalEvent, Continue, CommandSets, Histories, Spindles
<1>5. CASE CriticalEvent /\ "Reset" \in rt
  BY <1>5 DEF CriticalEvent, Continue
<1>6. CASE protocol_do_alarm
  BY <1>6 DEF protocol_do_alarm, Continue, Readable
<1>7. CASE CheckReset
  BY <1>7 DEF CheckReset
<1>8. CASE protocol_do_motion_cancel
  BY <1>8, LooksAt, FlagNumbers DEF protocol_do_motion_cancel, Stop, Revokes, MotionCanceled,
     protocol_start_holding, protocol_hold_complete, protocol_cancel_jogging, Suspended
<1>9. CASE protocol_do_feedhold /\ sys.state = "Idle"
  <2>1. HoldHandled
    BY <1>9, HoldEffect
  <2>2. /\ sys'.state = "Hold" /\ sys'.control = sys.control
        /\ sys'.suspend = {"holdComplete"}
    BY <1>9, <2>1 DEF HoldHandled, FeedHeld, protocol_start_holding, protocol_cancel_jogging,
       protocol_hold_complete, Suspended
  <2> QED
    BY <2>1, <2>2, <1>9 DEF HoldHandled, Stopping, Handles
<1>10. CASE protocol_do_feedhold /\ sys.state = "Hold"
  <2>1. HoldHandled
    BY <1>10, HoldEffect
  <2> QED
    BY <2>1, <1>10 DEF HoldHandled, Stopping, Handles, FeedHeld, protocol_start_holding,
       protocol_cancel_jogging, protocol_hold_complete, Suspended
<1>11. CASE protocol_do_feedhold /\ sys.state = "Cycle"
  <2>1. HoldHandled
    BY <1>11, HoldEffect
  <2>2. sys.suspend \cap {"motionCancel", "jogCancel"} = {}
    BY <1>11, <2>1 DEF HoldHandled, Handles
  <2>3. sys'.state = "Hold" /\ sys'.suspend = sys.suspend /\ sys'.control = {"executeHold"}
    BY <1>11, <2>1, <2>2 DEF HoldHandled, FeedHeld, protocol_start_holding,
       protocol_cancel_jogging, protocol_hold_complete, Suspended
  <2> QED
    BY <2>1, <2>2, <2>3, <1>11 DEF HoldHandled, Stopping, Handles
<1>12. CASE protocol_do_feedhold /\ sys.state = "Jog"
  <2>1. HoldHandled
    BY <1>12, HoldEffect
  <2>2. sys'.state = "Jog" /\ sys'.suspend = sys.suspend \cup {"jogCancel"}
    BY <1>12, <2>1 DEF HoldHandled, Handles, FeedHeld, protocol_start_holding,
       protocol_cancel_jogging, protocol_hold_complete, Suspended
  <2>3. sys'.control = IF sys.suspend \cap {"motionCancel", "jogCancel"} = {} THEN {"executeHold"}
                       ELSE sys.control
    BY <1>12, <2>1 DEF HoldHandled, FeedHeld, protocol_start_holding,
       protocol_cancel_jogging, protocol_hold_complete, Suspended
  <2> QED
    BY <2>1, <2>2, <2>3, <1>12 DEF HoldHandled, Stopping, Handles
<1>13. CASE protocol_do_feedhold /\ sys.state \notin {"Idle", "Hold", "Cycle", "Jog"}
  <2>1. /\ sys.state \notin {"Idle", "Hold", "Cycle", "Jog"}
        /\ Handles(2, "FeedHold") /\ rt' = rt \ {"FeedHold", "CycleStart"}
        /\ history'.asked = (history.asked /\ sys.state = "SafetyDoor")
        /\ UNCHANGED <<rtAlarm, stepper, spindle, door, sdcard>>
    BY <1>13, HoldEffect DEF HoldHandled, Stopping
  <2>2. sys' = sys
    BY <1>13, HoldEffect DEF HoldHandled, FeedHeld, States
  <2>3. SuspendInv' /\ ParkInv'
    BY <2>1, <2>2 DEF Handles
  <2>4. RestInv' /\ RequestInv' /\ AlarmInv'
    BY <2>1, <2>2 DEF Handles
  <2>5. SpindleInv'
    BY <2>1, <2>2 DEF Handles
  <2>6. StartInv'
    BY <2>1, <2>2 DEF Handles
  <2>7. DoorInv' /\ ResetInv'
    BY <2>1, <2>2 DEF Handles
  <2> QED
    BY <2>1, <2>2, <2>3, <2>4, <2>5, <2>6, <2>7
<1>14. CASE protocol_do_safety_door /\ sys.state = "SafetyDoor"
  <2>1. DoorHandled
    BY <1>14, DoorEffect
  <2> QED
    BY <2>1, <1>14 DEF DoorHandled, Stopping, Handles, DoorOpened, RetractAgain,
       protocol_start_holding, protocol_cancel_jogging, protocol_hold_complete, Suspended
<1>15. CASE protocol_do_safety_door /\ sys.state = "Cycle"
  <2>1. DoorHandled
    BY <1>15, DoorEffect
  <2>2. sys.suspend \cap {"motionCancel", "jogCancel"} = {}
    BY <1>15, <2>1 DEF DoorHandled, Handles
  <2>3. /\ sys'.state = "SafetyDoor" /\ sys'.control = {"executeHold"}
        /\ sys'.suspend = sys.suspend \cup {"safetyDoorAjar"}
    BY <1>15, <2>1, <2>2 DEF DoorHandled, DoorOpened, RetractAgain, protocol_start_holding,
       protocol_cancel_jogging, protocol_hold_complete, Suspended
  <2> QED
    BY <2>1, <2>2, <2>3, <1>15 DEF DoorHandled, Stopping, Handles
<1>16. CASE protocol_do_safety_door /\ sys.state = "Jog"
  <2>1. DoorHandled
    BY <1>16, DoorEffect
  <2>2. /\ sys'.state = "Jog"
        /\ sys'.suspend = sys.suspend \cup {"jogCancel", "safetyDoorAjar"}
    BY <1>16, <2>1 DEF DoorHandled, Handles, DoorOpened, RetractAgain,
       protocol_start_holding, protocol_cancel_jogging, protocol_hold_complete, Suspended
  <2>3. sys'.control = IF sys.suspend \cap {"motionCancel", "jogCancel"} = {} THEN {"executeHold"}
                       ELSE sys.control
    BY <1>16, <2>1 DEF DoorHandled, DoorOpened, RetractAgain, protocol_start_holding,
       protocol_cancel_jogging, protocol_hold_complete, Suspended
  <2> QED
    BY <2>1, <2>2, <2>3, <1>16 DEF DoorHandled, Stopping, Handles
<1>17. CASE protocol_do_safety_door /\ sys.state = "Hold"
  <2>1. DoorHandled
    BY <1>17, DoorEffect
  <2>2. sys.suspend \cap {"motionCancel", "jogCancel"} = {}
    BY <1>17, <2>1 DEF DoorHandled, Handles
  <2>3. /\ sys'.state = "SafetyDoor" /\ sys'.control = sys.control
        /\ sys'.suspend = sys.suspend \cup {"safetyDoorAjar"}
    BY <1>17, <2>1, <2>2 DEF DoorHandled, DoorOpened, RetractAgain, protocol_start_holding,
       protocol_cancel_jogging, protocol_hold_complete, Suspended
  <2> QED
    BY <2>1, <2>2, <2>3, <1>17 DEF DoorHandled, Stopping, Handles
<1>18. CASE protocol_do_safety_door /\ sys.state = "Idle"
  <2>1. DoorHandled
    BY <1>18, DoorEffect
  <2> QED
    BY <2>1, <1>18 DEF DoorHandled, Stopping, Handles, DoorOpened, RetractAgain,
       protocol_start_holding, protocol_cancel_jogging, protocol_hold_complete, Suspended
<1>19. CASE /\ protocol_do_safety_door
            /\ sys.state \notin {"SafetyDoor", "Cycle", "Jog", "Idle", "Hold"}
  <2>1. DoorHandled
    BY <1>19, DoorEffect
  <2> QED
    BY <2>1, <1>19 DEF DoorHandled, Stopping, Handles, States, DoorOpened, RetractAgain,
       protocol_start_holding, protocol_cancel_jogging, protocol_hold_complete, Suspended
<1>20. CASE protocol_do_sleep /\ sys.state \in {"Alarm", "ConfigAlarm"}
  <2>1. /\ Handles(4, "Sleep") /\ sys' = PutToSleep(sys) /\ rt' = rt \ {"Sleep"}
        /\ UNCHANGED history
        /\ UNCHANGED <<rtAlarm, plan, stepper, drivers, spindle, soft_limit, probing, door,
                       sdcard, inbox, budget>>
    BY <1>20, SleepEffect
  <2> QED
    BY <2>1, <1>20 DEF Handles, PutToSleep, protocol_start_holding, protocol_hold_complete,
       Suspended
<1>21. CASE protocol_do_sleep /\ sys.state = "Idle"
  <2>1. /\ Handles(4, "Sleep") /\ sys' = PutToSleep(sys) /\ rt' = rt \ {"Sleep"}
        /\ UNCHANGED history
        /\ UNCHANGED <<rtAlarm, plan, stepper, drivers, spindle, soft_limit, probing, door,
                       sdcard, inbox, budget>>
    BY <1>21, SleepEffect
  <2> QED
    BY <2>1, <1>21 DEF Handles, PutToSleep, protocol_start_holding, protocol_hold_complete,
       Suspended
<1>22. CASE protocol_do_sleep /\ sys.state \notin {"Alarm", "ConfigAlarm", "Idle"}
  <2>1. /\ Handles(4, "Sleep") /\ sys' = PutToSleep(sys) /\ rt' = rt \ {"Sleep"}
        /\ UNCHANGED history
        /\ UNCHANGED <<rtAlarm, plan, stepper, drivers, spindle, soft_limit, probing, door,
                       sdcard, inbox, budget>>
    BY <1>22, SleepEffect
  <2>2. sys.state \in {"Hold", "SafetyDoor", "Sleep"}
    BY <1>22, <2>1 DEF Handles, States
  <2>3. /\ sys'.state = "Sleep" /\ sys'.suspend = sys.suspend
        /\ sys'.control = sys.control
    BY <1>22, <2>1, <2>2 DEF PutToSleep, protocol_start_holding, protocol_hold_complete,
       Suspended
  <2> QED
    BY <2>1, <2>2, <2>3, <1>22 DEF Handles
<1>23. CASE /\ protocol_do_cycle_start
            /\ (sys.state = "Idle" \/ (sys.state = "Hold" /\ Resumable /\ spindle.ovr = {}))
  <2>1. Handles(5, "CycleStart")
    BY <1>23, FlagHandled DEF protocol_do_cycle_start, Stop
  <2>2. /\ protocol_do_initiate_cycle /\ rt' = rt \ {"CycleStart"}
        /\ spindle' = spindle /\ UNCHANGED <<rtAlarm, soft_limit, probing, door, sdcard,
                                             inbox, budget>>
    BY <1>23 DEF protocol_do_cycle_start
  <2>3. /\ history'.asked => history.asked
        /\ history'.lost = history.lost /\ history'.probed = history.probed
    BY <1>23 DEF protocol_do_cycle_start, TypeOK, Histories
  <2> QED
    BY <2>1, <2>2, <2>3, <1>23, InitiateCycle DEF Handles, Resumable
<1>24. CASE protocol_do_cycle_start /\ sys.state = "Hold" /\ ~(Resumable /\ spindle.ovr = {})
  <2>1. Handles(5, "CycleStart")
    BY <1>24, FlagHandled DEF protocol_do_cycle_start, Stop
  <2>2. /\ rt' = rt \ {"CycleStart"} /\ UNCHANGED <<plan, stepper, drivers>>
        /\ UNCHANGED <<rtAlarm, soft_limit, probing, door, sdcard, inbox, budget>>
    BY <1>24 DEF protocol_do_cycle_start
  <2> QED
    BY <2>1, <2>2, <1>24 DEF Handles, protocol_do_cycle_start, Resumable, States, Histories,
       Spindles, Suspended
<1>25. CASE protocol_do_cycle_start /\ sys.state = "SafetyDoor"
  <2>1. Handles(5, "CycleStart")
    BY <1>25, FlagHandled DEF protocol_do_cycle_start, Stop
  <2>2. /\ rt' = rt \ {"CycleStart"} /\ UNCHANGED <<plan, stepper, drivers>>
        /\ UNCHANGED <<rtAlarm, soft_limit, probing, door, sdcard, inbox, budget>>
    BY <1>25 DEF protocol_do_cycle_start
  <2> QED
    BY <2>1, <2>2, <1>25 DEF Handles, protocol_do_cycle_start, Resumable, States, Histories,
       Spindles, Suspended
<1>26. CASE protocol_do_cycle_start /\ sys.state \notin {"Idle", "Hold", "SafetyDoor"}
  <2>1. Handles(5, "CycleStart")
    BY <1>26, FlagHandled DEF protocol_do_cycle_start, Stop
  <2>2. /\ rt' = rt \ {"CycleStart"} /\ UNCHANGED <<plan, stepper, drivers>>
        /\ UNCHANGED <<rtAlarm, soft_limit, probing, door, sdcard, inbox, budget>>
    BY <1>26 DEF protocol_do_cycle_start
  <2> QED
    BY <2>1, <2>2, <1>26 DEF Handles, protocol_do_cycle_start, Resumable, States, Histories,
       Spindles, Suspended
<1>27. CASE protocol_do_cycle_stop /\ Holds
  <2>1. Handles(6, "CycleStop")
    BY <1>27, FlagHandled DEF protocol_do_cycle_stop, Stop
  <2>2. /\ rt' = rt \ {"CycleStop"}
        /\ UNCHANGED <<rtAlarm, spindle, soft_limit, probing, door, sdcard, inbox, history>>
    BY <1>27, Zenon DEF protocol_do_cycle_stop
  <2>3. sys' = HoldCompleted(sys) /\ UNCHANGED <<plan, stepper>>
    BY <1>27, Zenon DEF protocol_do_cycle_stop
  <2> QED
    BY <2>1, <2>2, <2>3, <1>27 DEF Handles, HoldCompleted, Holds, States
<1>28. CASE protocol_do_cycle_stop /\ ~Holds /\ "safetyDoorAjar" \in sys.suspend
  <2>1. Handles(6, "CycleStop")
    BY <1>28, FlagHandled DEF protocol_do_cycle_stop, Stop
  <2>2. /\ rt' = rt \ {"CycleStop"}
        /\ UNCHANGED <<rtAlarm, spindle, soft_limit, probing, door, sdcard, inbox, history>>
    BY <1>28, Zenon DEF protocol_do_cycle_stop
  <2>3. sys' = MotionCompleted(sys) /\ plan' \in {<<>>, plan}
    BY <1>28, Zenon DEF protocol_do_cycle_stop
  <2>4. stepper' = stepper \/ ~stepper'.timer
    BY <1>28 DEF protocol_do_cycle_stop, StoppedStepper
  <2> QED
    BY <2>1, <2>2, <2>3, <2>4, <1>28 DEF Handles, MotionCompleted, Holds, States
<1>29. CASE protocol_do_cycle_stop /\ ~Holds /\ "safetyDoorAjar" \notin sys.suspend
  <2>1. Handles(6, "CycleStop")
    BY <1>29, FlagHandled DEF protocol_do_cycle_stop, Stop
  <2>2. /\ rt' = rt \ {"CycleStop"}
        /\ UNCHANGED <<rtAlarm, spindle, soft_limit, probing, door, sdcard, inbox, history>>
    BY <1>29, Zenon DEF protocol_do_cycle_stop
  <2>3. sys' = MotionCompleted(sys) /\ plan' \in {<<>>, plan}
    BY <1>29, Zenon DEF protocol_do_cycle_stop
  <2>4. stepper' = stepper \/ ~stepper'.timer
    BY <1>29 DEF protocol_do_cycle_stop, StoppedStepper
  <2> QED
    BY <2>1, <2>2, <2>3, <2>4, <1>29 DEF Handles, MotionCompleted, Holds, States
<1>30. CASE EndPass
  <2>1. spindle' = SpindleOverridden
    BY <1>30 DEF EndPass
  <2> QED
    BY <2>1, <1>30, PassEffect, PassPrepares, PassEnds DEF SpindleOverridden, Spindles,
       Withins
<1> HIDE DEF TypeOK, Systems, Mains, ProgramInv, Sound, SuspendInv, ParkInv, RestInv,
   RequestInv,
   AlarmInv, SpindleInv, StartInv, DoorInv, ResetInv, Active, Aborting, InPass, Parking,
   AtEof, BeforePass, Halted, Restart, Restoring, Regular
<1> QED
  BY <1>1, <1>2, <1>3, <1>4, <1>5, <1>6, <1>7, <1>8, <1>9, <1>10, <1>11, <1>12, <1>13, <1>14,
     <1>15, <1>16, <1>17, <1>18, <1>19, <1>20, <1>21, <1>22, <1>23, <1>24, <1>25, <1>26,
     <1>27, <1>28, <1>29, <1>30 DEF Executor

\* The same for the suspend loop.
LEMMA SuspendSound ==
    ASSUME TypeOK, ProgramInv, Regular, Sound, Regular', Suspend
    PROVE  Sound'
<1> USE DEF TypeOK, Systems, Mains, ProgramInv, Sound, SuspendInv, ParkInv, RestInv,
   RequestInv,
   AlarmInv, SpindleInv, StartInv, DoorInv, ResetInv, Active, Aborting, InPass, Parking,
   AtEof, BeforePass, Halted, Restart, Restoring, Regular
<1>1. CASE EndSuspend
  BY <1>1 DEF EndSuspend, SuspendRest, Continue
<1>2. CASE AwaitHold
  BY <1>2 DEF AwaitHold, Suspending, SuspendRest, Pass, mc_cancel_jog
<1>3. CASE /\ Retract
           /\ CanPark
           /\ mc_parking_motion(sys, "retract1")
           /\ spindle' = [spindle EXCEPT !.ovr = {}]
  <2>1. ParkingRuns(sys, "retract1")
    BY <1>3, ParkingMotion DEF TypeOK, Withins
  <2>2. /\ Stationary /\ Parks /\ "retractComplete" \notin sys.suspend
        /\ UNCHANGED rt /\ SuspendRest
    BY <1>3 DEF Retract
  <2> QED
    BY <2>1, <2>2, <1>3 DEF ParkingRuns, Suspending, Stationary, Parks, Off, Spindles,
       Withins, SuspendRest
<1>4. CASE /\ Retract
           /\ CanPark
           /\ mc_parking_motion(sys, "retract2")
           /\ spindle' = [Off EXCEPT !.ovr = {}]
  <2>1. ParkingRuns(sys, "retract2")
    BY <1>4, ParkingMotion DEF TypeOK, Withins
  <2>2. /\ Stationary /\ Parks /\ "retractComplete" \notin sys.suspend
        /\ UNCHANGED rt /\ SuspendRest
    BY <1>4 DEF Retract
  <2> QED
    BY <2>1, <2>2, <1>4 DEF ParkingRuns, Suspending, Stationary, Parks, Off, Spindles,
       Withins, SuspendRest
<1>5. CASE Retract /\ RetractComplete /\ spindle' = [Off EXCEPT !.ovr = {}]
  BY <1>5 DEF Retract, RetractComplete, Pass, mc_cancel_jog, Suspending, Stationary, Parks,
     Off, Spindles, Withins, SuspendRest
<1>6. CASE RetractFast /\ mc_parking_motion(sys, "retract2")
  <2>1. ParkingRuns(sys, "retract2")
    BY <1>6, ParkingMotion DEF TypeOK, Withins
  <2>2. /\ main.pc = "parked" /\ main.within = "retract1" /\ spindle' = Off
        /\ UNCHANGED rt /\ SuspendRest
    BY <1>6 DEF RetractFast
  <2> QED
    BY <2>1, <2>2, <1>6 DEF ParkingRuns, Suspending, Stationary, Parks, Off, Spindles,
       Withins, SuspendRest
<1>7. CASE RetractFast /\ RetractComplete
  BY <1>7 DEF RetractFast, RetractComplete, Pass, mc_cancel_jog, Suspending, Stationary,
     Parks, Off, Spindles, Withins, SuspendRest
<1>8. CASE EndRetract
  BY <1>8 DEF EndRetract, SuspendRest, RetractComplete, Pass, mc_cancel_jog
<1>9. CASE FallAsleep
  BY <1>9 DEF FallAsleep, SuspendRest, Stopped, Retracted, Stationary, Suspending, Parks,
     Pass, mc_cancel_jog, Off
<1>10. CASE AwaitClosing
  BY <1>10 DEF AwaitClosing, SuspendRest, Retracted, Stationary, Suspending, Parks, Pass,
     mc_cancel_jog, DoorRead
<1>11. CASE EndRestore
  BY <1>11 DEF EndRestore, SuspendRest, RestoreComplete, Suspended, Pass, mc_cancel_jog
<1>12. CASE /\ BeginRestore
            /\ mc_parking_motion(DoorRead, "restore1")
            /\ UNCHANGED <<rt, spindle>>
  <2>1. DoorRead \in Systems
    BY DEF DoorRead, TypeOK, Systems
  <2>2. /\ Retracted /\ sys.state = "SafetyDoor" /\ "initiateRestore" \in sys.suspend
        /\ SuspendRest
    BY <1>12 DEF BeginRestore
  <2>3. ParkingRuns(DoorRead, "restore1")
    BY <1>12, <2>1, ParkingMotion DEF TypeOK, Withins
  <2> QED
    BY <2>1, <2>2, <2>3, <1>12 DEF ParkingRuns, DoorRead, Retracted, SpindleRestored,
       Suspending, Stationary, Parks, Off, Spindles, Withins, SuspendRest
<1>13. CASE /\ BeginRestore
            /\ PowerUp(DoorRead)
            /\ CanPark
            /\ "restartRetract" \notin DoorRead.suspend
  <2>1. DoorRead \in Systems
    BY DEF DoorRead, TypeOK, Systems
  <2>2. /\ Retracted /\ sys.state = "SafetyDoor" /\ "initiateRestore" \in sys.suspend
        /\ SuspendRest
    BY <1>13 DEF BeginRestore
  <2>3. /\ "restartRetract" \notin DoorRead.suspend /\ spindle' = SpindleRestored
        /\ mc_parking_motion(DoorRead, "restore2") /\ UNCHANGED rt
    BY <1>13 DEF PowerUp
  <2>4. ParkingRuns(DoorRead, "restore2")
    BY <2>1, <2>3, ParkingMotion DEF TypeOK, Withins
  <2> QED
    BY <2>1, <2>2, <2>3, <2>4, <1>13 DEF ParkingRuns, DoorRead, Retracted, SpindleRestored,
       Suspending, Stationary, Parks, Off, Spindles, Withins, SuspendRest
<1>14. CASE BeginRestore /\ PowerUp(DoorRead) /\ "restartRetract" \in DoorRead.suspend
  <2>1. DoorRead \in Systems
    BY DEF DoorRead, TypeOK, Systems
  <2>2. /\ Retracted /\ sys.state = "SafetyDoor" /\ "initiateRestore" \in sys.suspend
        /\ SuspendRest
    BY <1>14 DEF BeginRestore
  <2>3. sys' = DoorRead /\ Pass("suspend")
        /\ UNCHANGED <<rt, stepper, drivers, spindle>>
    BY <1>14 DEF PowerUp, RestoreComplete
  <2> QED
    BY <2>1, <2>2, <2>3, <1>14 DEF Pass, mc_cancel_jog, DoorRead, Retracted, SpindleRestored,
       Suspending, Stationary, Parks, Off, Spindles, Withins, SuspendRest
<1>15. CASE /\ BeginRestore
            /\ PowerUp(DoorRead)
            /\ "restartRetract" \notin DoorRead.suspend
            /\ ~CanPark
  <2>1. DoorRead \in Systems
    BY DEF DoorRead, TypeOK, Systems
  <2>2. /\ Retracted /\ sys.state = "SafetyDoor" /\ "initiateRestore" \in sys.suspend
        /\ SuspendRest
    BY <1>15 DEF BeginRestore
  <2>3. /\ sys' = Suspended(DoorRead, {"restoreComplete"}) /\ rt' = rt \cup {"CycleStart"}
        /\ spindle' = SpindleRestored /\ Pass("suspend") /\ UNCHANGED <<stepper, drivers>>
    BY <1>15 DEF PowerUp, RestoreComplete
  <2> QED
    BY <2>1, <2>2, <2>3, <1>15 DEF Suspended, Pass, mc_cancel_jog, DoorRead, Retracted,
       SpindleRestored, Suspending, Stationary, Parks, Off, Spindles, Withins, SuspendRest
<1>16. CASE RestoreFast /\ PowerUp(sys) /\ CanPark /\ "restartRetract" \notin sys.suspend
  <2>1. main.pc = "parked" /\ main.within = "restore1" /\ SuspendRest
    BY <1>16 DEF RestoreFast
  <2>2. /\ "restartRetract" \notin sys.suspend /\ spindle' = SpindleRestored
        /\ mc_parking_motion(sys, "restore2") /\ UNCHANGED rt
    BY <1>16 DEF PowerUp
  <2>3. ParkingRuns(sys, "restore2")
    BY <2>1, <2>2, ParkingMotion DEF TypeOK, Withins
  <2> QED
    BY <2>1, <2>2, <2>3, <1>16 DEF ParkingRuns, SpindleRestored, Suspending, Stationary,
       Parks, Off, Spindles, Withins, SuspendRest
<1>17. CASE RestoreFast /\ PowerUp(sys) /\ "restartRetract" \in sys.suspend
  <2>1. main.pc = "parked" /\ main.within = "restore1" /\ SuspendRest
    BY <1>17 DEF RestoreFast
  <2>2. sys' = sys /\ Pass("suspend")
        /\ UNCHANGED <<rt, stepper, drivers, spindle>>
    BY <1>17 DEF PowerUp, RestoreComplete
  <2> QED
    BY <2>1, <2>2, <1>17 DEF Pass, mc_cancel_jog, SpindleRestored, Suspending, Stationary,
       Parks, Off, Spindles, Withins, SuspendRest
<1>18. CASE RestoreFast /\ PowerUp(sys) /\ "restartRetract" \notin sys.suspend /\ ~CanPark
  <2>1. main.pc = "parked" /\ main.within = "restore1" /\ SuspendRest
    BY <1>18 DEF RestoreFast
  <2>2. /\ sys' = Suspended(sys, {"restoreComplete"}) /\ rt' = rt \cup {"CycleStart"}
        /\ spindle' = SpindleRestored /\ Pass("suspend") /\ UNCHANGED <<stepper, drivers>>
    BY <1>18 DEF PowerUp, RestoreComplete
  <2> QED
    BY <2>1, <2>2, <1>18 DEF Suspended, Pass, mc_cancel_jog, SpindleRestored, Suspending,
       Stationary, Parks, Off, Spindles, Withins, SuspendRest
<1>19. CASE ManageHold
  BY <1>19 DEF ManageHold, SpindleRestored, States, Pass, mc_cancel_jog, Suspending,
     Stationary, Parks, Off, Spindles, Withins, SuspendRest
<1>20. Retract =>
     \/ CanPark /\ mc_parking_motion(sys, "retract1") /\ spindle' = [spindle EXCEPT !.ovr = {}]
     \/ CanPark /\ mc_parking_motion(sys, "retract2") /\ spindle' = [Off EXCEPT !.ovr = {}]
     \/ RetractComplete /\ spindle' = [Off EXCEPT !.ovr = {}]
  BY DEF Retract
<1>21. RetractFast => mc_parking_motion(sys, "retract2") \/ RetractComplete
  BY DEF RetractFast
<1>22. BeginRestore => \/ mc_parking_motion(DoorRead, "restore1") /\ UNCHANGED <<rt, spindle>>
                      \/ PowerUp(DoorRead)
  BY DEF BeginRestore
<1>23. RestoreFast => PowerUp(sys)
  BY DEF RestoreFast
<1> HIDE DEF TypeOK, Systems, Mains, ProgramInv, Sound, SuspendInv, ParkInv, RestInv,
   RequestInv,
   AlarmInv, SpindleInv, StartInv, DoorInv, ResetInv, Active, Aborting, InPass, Parking,
   AtEof, BeforePass, Halted, Restart, Restoring, Regular
<1> QED
  BY <1>1, <1>2, <1>3, <1>4, <1>5, <1>6, <1>7, <1>8, <1>9, <1>10, <1>11, <1>12, <1>13, <1>14,
      <1>15, <1>16, <1>17, <1>18, <1>19, <1>20, <1>21, <1>22, <1>23 DEF Suspend

\* The same for the main program.
LEMMA ProgramSound ==
    ASSUME TypeOK, ProgramInv, Regular, Sound, Regular', Program, ~run_once
    PROVE  Sound'
<1> USE DEF TypeOK, Systems, Mains, ProgramInv, Sound, SuspendInv, ParkInv, RestInv,
   RequestInv,
   AlarmInv, SpindleInv, StartInv, DoorInv, ResetInv, Active, Aborting, InPass, Parking,
   AtEof, BeforePass, Halted, Restart, Restoring, Regular
<1>1. CASE PollCharacter /\ inbox = "Reset"
  <2>1. mc_reset("None") /\ "None" \in Alarms
    BY <1>1, CommandEffect DEF PollCharacter, TypeOK, Alarms, Cmds
  <2> QED
    BY <2>1, <1>1, ResetEffect DEF PollCharacter, Histories, Spindles, Moving, States
<1>2. CASE PollCharacter /\ inbox # "Reset"
  <2>1. CommandSets(inbox)
    BY <1>2, CommandEffect DEF PollCharacter, TypeOK
  <2> QED
    BY <2>1, <1>2 DEF PollCharacter, CommandSets, Histories, Spindles
<1>3. CASE PollNothing
  BY <1>3 DEF PollNothing, Requested, MainRest, Machine, Execute
<1>4. CASE EndIdle
  BY <1>4 DEF EndIdle, Returned, MainRest, LineDone
<1>5. CASE \E line \in LineKinds \cup {"eof"} : PollLine(line)
  BY <1>5, PollLineEffect DEF Machine
<1>6. CASE RefuseLine
  BY <1>6 DEF RefuseLine, Returned, MainRest, Machine, Locked, LineDone, GCodeLines
<1>7. CASE disable_alarm_lock
  BY <1>7 DEF disable_alarm_lock, LineDone, Executes, Returned
<1>8. CASE go_to_sleep
  BY <1>8 DEF go_to_sleep, MainRest, Machine, LineDone, Executes, Returned
<1>9. CASE toggle_check_mode /\ sys.state = "Idle"
  BY <1>9 DEF toggle_check_mode, LineDone, Executes, Returned
<1>10. CASE toggle_check_mode /\ sys.state # "Idle"
  <2>1. /\ mc_reset("None") /\ "None" \in Alarms /\ LineDone
        /\ main.pc = "return" /\ sys.state = "CheckMode"
        /\ UNCHANGED <<sys, plan, soft_limit, probing, door, sdcard>>
    BY <1>10 DEF toggle_check_mode, Executes, Returned, Alarms
  <2> QED
    BY <2>1, <1>10, ResetEffect DEF LineDone, Histories, Spindles, Moving
<1>11. CASE runSDFile
  BY <1>11 DEF runSDFile, MainRest, Machine, LineDone, Executes, Returned
<1>12. CASE BeginLine
  BY <1>12, BeginLineEffect DEF Machine, MainRest
<1>13. CASE AwaitRoom
  BY <1>13 DEF AwaitRoom, Returned, Requested, MainRest, Machine, Full, Execute
<1>14. CASE EndLine /\ ~(main.line = "jog" /\ main.inflight /\ sys.state = "Idle")
  BY <1>14, EndLineEffect
<1>15. CASE EndLine /\ main.line = "jog" /\ main.inflight /\ sys.state = "Idle"
  BY <1>15, EndLineEffect, JogStarts
<1>16. CASE BeginSoftLimit
  BY <1>16 DEF BeginSoftLimit, Machine, Executes, Returned, Execute
<1>17. CASE AwaitSoftHold
  BY <1>17 DEF AwaitSoftHold, Returned, MainRest, Machine, Execute
<1>18. CASE RaiseSoftLimit
  BY <1>18 DEF RaiseSoftLimit, mc_reset, Stopped, Moving, Returned, Locked, Executes, Execute
<1>19. CASE BeginSync /\ main'.pc = "exec"
  BY <1>19, BeginSyncEffect DEF Machine, MainRest, Locked
<1>20. CASE BeginSync /\ main'.pc = "poll"
  BY <1>20, BeginSyncEffect DEF Machine, MainRest, Locked
<1>21. CASE AwaitSync
  BY <1>21 DEF AwaitSync, Unsynchronized, Returned, MainRest, Machine, Execute
<1>22. CASE EndDwell
  BY <1>22 DEF EndDwell, Synchronized, Unsynchronized, Returned, MainRest, Machine, Execute
<1>23. CASE SwitchSpindle
  BY <1>23 DEF SwitchSpindle, Synchronized, Unsynchronized, Returned, MainRest, LineDone
<1>24. CASE PauseProgram
  BY <1>24 DEF PauseProgram, Synchronized, Unsynchronized, Returned, MainRest, Machine,
     Execute
<1>25. CASE EndFile
  BY <1>25 DEF EndFile, Synchronized, Unsynchronized, Returned, MainRest, Machine, LineDone
<1>26. CASE BeginProbe
  BY <1>26 DEF BeginProbe, Synchronized, Unsynchronized, Returned, Machine, Execute
<1>27. CASE AwaitProbe
  BY <1>27 DEF AwaitProbe, Returned, MainRest, Machine, Execute
<1>28. CASE EndProbe
  BY <1>28 DEF EndProbe, Returned, Machine, Execute
<1>29. CASE DropProbe
  BY <1>29 DEF DropProbe, StoppedStepper, Returned, MainRest, LineDone
<1> HIDE DEF TypeOK, Systems, Mains, ProgramInv, Sound, SuspendInv, ParkInv, RestInv,
   RequestInv,
   AlarmInv, SpindleInv, StartInv, DoorInv, ResetInv, Active, Aborting, InPass, Parking,
   AtEof, BeforePass, Halted, Restart, Restoring, Regular
<1> QED
  BY <1>1, <1>2, <1>3, <1>4, <1>5, <1>6, <1>7, <1>8, <1>9, <1>10, <1>11, <1>12, <1>13, <1>14,
     <1>15, <1>16, <1>17, <1>18, <1>19, <1>20, <1>21, <1>22, <1>23, <1>24, <1>25, <1>26,
     <1>27, <1>28, <1>29 , BeginSyncEffect DEF Program

\* The same for the interrupt, pins, limit switches and characters.
LEMMA OutsideSound ==
    ASSUME TypeOK, ProgramInv, Regular, Sound, Regular', Interrupt \/ Environment
    PROVE  Sound'
<1> USE DEF TypeOK, Systems, Mains, ProgramInv, Sound, SuspendInv, ParkInv, RestInv,
   RequestInv,
   AlarmInv, SpindleInv, StartInv, DoorInv, ResetInv, Active, Aborting, InPass, Parking,
   AtEof, BeforePass, Halted, Restart, Restoring, Regular
<1>1. CASE ExecuteSegments
  BY <1>1 DEF ExecuteSegments
<1>2. CASE RunDry
  BY <1>2 DEF RunDry, Stopped
<1>3. CASE TripProbe
  BY <1>3 DEF TripProbe
<1>4. CASE \E flag \in PinFlags : ActivatePin(flag)
  <2>1. PICK flag \in PinFlags : ActivatePin(flag)
    BY <1>4
  <2>2. /\ flag \in Pins /\ rt' = rt \cup {flag}
        /\ door' = (door \/ flag = "SafetyDoor")
        /\ history'.asked = (history.asked \/ flag = "CycleStart")
        /\ history'.lost = history.lost /\ history'.probed = history.probed
    BY <2>1 DEF ActivatePin, Outside, Histories
  <2>3. UNCHANGED <<sys, main, plan, stepper, spindle, rtAlarm, soft_limit, probing, sdcard>>
    BY <2>1 DEF ActivatePin, Outside
  <2>4. SuspendInv' /\ ParkInv'
    BY <2>1, <2>2, <2>3 DEF PinFlags
  <2>5. RestInv' /\ RequestInv' /\ AlarmInv'
    BY <2>1, <2>2, <2>3 DEF PinFlags
  <2>6. SpindleInv'
    BY <2>1, <2>2, <2>3 DEF PinFlags
  <2>7. StartInv'
    BY <2>1, <2>2, <2>3 DEF PinFlags
  <2>8. DoorInv' /\ ResetInv'
    BY <2>1, <2>2, <2>3 DEF PinFlags
  <2> QED
    BY <2>1, <2>2, <2>3, <2>4, <2>5, <2>6, <2>7, <2>8
<1>5. CASE CloseDoor
  BY <1>5 DEF CloseDoor, Outside
<1>6. CASE HitLimit
  <2>1. mc_reset("HardLimit") /\ "HardLimit" \in Alarms
    BY <1>6 DEF HitLimit, Alarms
  <2> QED
    BY <2>1, <1>6, ResetEffect DEF HitLimit, Outside, Histories, Spindles, Moving, States
<1>7. CASE \E c \in Cmds : SendCharacter(c)
  BY <1>7 DEF SendCharacter, Outside
<1> HIDE DEF TypeOK, Systems, Mains, ProgramInv, Sound, SuspendInv, ParkInv, RestInv,
   RequestInv,
   AlarmInv, SpindleInv, StartInv, DoorInv, ResetInv, Active, Aborting, InPass, Parking,
   AtEof, BeforePass, Halted, Restart, Restoring, Regular
<1> QED
  BY <1>1, <1>2, <1>3, <1>4, <1>5, <1>6, <1>7 DEF Interrupt, Environment

-----------------------------------------------------------------------------
(* Every step, save a reset, keeps the rest. *)

\* What holds whatever the bookkeeping, and that only a reset makes it sound again.
LEMMA ExecutorLost ==
    ASSUME TypeOK, ProgramInv, LostInv, Executor
    PROVE  ProgramInv' /\ LostInv' /\ (Regular' => Regular)
<1> USE DEF TypeOK, Systems, Mains, ProgramInv, LostInv, Nothing, Active, Aborting, InPass,
   Parking, Restoring, Histories, Regular
<1>1. CASE PollRealtime /\ inbox = "Reset"
  <2>1. mc_reset("None") /\ "None" \in Alarms
    BY <1>1, CommandEffect DEF PollRealtime, TypeOK, Alarms, Cmds
  <2> QED
    BY <2>1, <1>1, ResetEffect DEF PollRealtime, Continue, Moving
<1>2. CASE PollRealtime /\ inbox # "Reset"
  <2>1. CommandSets(inbox)
    BY <1>2, CommandEffect DEF PollRealtime, TypeOK
  <2> QED
    BY <2>1, <1>2 DEF PollRealtime, Continue, CommandSets
<1>3. CASE CriticalEvent /\ "Reset" \in rt
  BY <1>3 DEF CriticalEvent, Continue
<1>4. CASE CriticalEvent /\ "Reset" \notin rt /\ inbox = "Reset"
  <2>1. mc_reset("None") /\ "None" \in Alarms
    BY <1>4, CommandEffect DEF CriticalEvent, TypeOK, Alarms, Cmds
  <2> QED
    BY <2>1, <1>4, ResetEffect DEF CriticalEvent, Continue, Moving
<1>5. CASE CriticalEvent /\ "Reset" \notin rt /\ inbox # "Reset"
  <2>1. CommandSets(inbox)
    BY <1>5, CommandEffect DEF CriticalEvent, TypeOK
  <2> QED
    BY <2>1, <1>5 DEF CriticalEvent, Continue, CommandSets
<1>6. CASE protocol_do_alarm /\ rtAlarm = "None"
  BY <1>6 DEF protocol_do_alarm, Continue
<1>7. CASE protocol_do_alarm /\ rtAlarm \in {"HardLimit", "SoftLimit"}
  BY <1>7 DEF protocol_do_alarm, Continue
<1>8. CASE protocol_do_alarm /\ rtAlarm \notin {"None", "HardLimit", "SoftLimit"}
  BY <1>8 DEF protocol_do_alarm, Continue
<1>9. CASE CheckReset
  BY <1>9 DEF CheckReset
<1>10. CASE protocol_do_motion_cancel
  BY <1>10, FlagHandled DEF Handles, protocol_do_motion_cancel, Stop, Revokes,
     MotionCanceled, protocol_start_holding, protocol_hold_complete, protocol_cancel_jogging,
     Suspended
<1>11. CASE protocol_do_feedhold
  <2>1. HoldHandled
    BY <1>11, HoldEffect
  <2> QED
    BY <2>1 DEF HoldHandled, Stopping, Handles, FeedHeld, protocol_start_holding,
       protocol_hold_complete, protocol_cancel_jogging, Suspended
<1>12. CASE protocol_do_safety_door
  <2>1. DoorHandled
    BY <1>12, DoorEffect
  <2> QED
    BY <2>1 DEF DoorHandled, Stopping, Handles, DoorOpened, protocol_start_holding,
       protocol_hold_complete, protocol_cancel_jogging, Suspended, RetractAgain
<1>13. CASE protocol_do_sleep
  BY <1>13, SleepEffect DEF Handles, PutToSleep, protocol_start_holding,
     protocol_hold_complete, Suspended
<1>14. CASE protocol_do_cycle_start
  <2>1. Handles(5, "CycleStart")
    BY <1>14, FlagHandled DEF protocol_do_cycle_start
  <2> QED
    BY <2>1, <1>14 DEF Handles, protocol_do_cycle_start, protocol_do_initiate_cycle, Running,
       DriversInCycle, Suspended, Resumable, Restoring
<1>15. CASE protocol_do_cycle_stop
  <2>1. Handles(6, "CycleStop")
    BY <1>15, FlagHandled DEF protocol_do_cycle_stop
  <2> QED
    BY <2>1, <1>15 DEF Handles, protocol_do_cycle_stop, StoppedStepper, MotionCompleted,
       Holds, HoldCompleted
<1>16. CASE EndPass
  <2>1. /\ main.pc = "handle" /\ main'.within = main.within /\ main'.caller = main.caller
        /\ main'.line = main.line /\ UNCHANGED <<rtAlarm, sdcard, history, soft_limit,
                                                 probing>>
        /\ ("Reset" \in rt' <=> "Reset" \in rt) /\ ("CycleStop" \in rt' <=> "CycleStop" \in rt)
    BY <1>16, PassEffect
  <2>2. main'.pc = "parked" => Parking
    BY <1>16, <2>1, PassEffect DEF Withins
  <2>3. /\ main'.pc \in {"exec", "suspend", "return", "parked"}
        /\ main'.pc = "return" => sys.suspend = {}
    BY <1>16, PassEffect
  <2>4. /\ sys'.state = sys.state /\ sys'.suspend = sys.suspend
        /\ stepper'.timer = stepper.timer
        /\ plan = <<>> => plan' = <<>>
    BY <1>16, PassPrepares
  <2> QED
    BY <2>1, <2>2, <2>3, <2>4
<1> HIDE DEF TypeOK, Systems, Mains, ProgramInv, LostInv, Nothing, Active, Aborting, InPass,
   Parking, Restoring, Histories, Regular
<1> QED
  BY <1>1, <1>2, <1>3, <1>4, <1>5, <1>6, <1>7, <1>8, <1>9, <1>10, <1>11, <1>12, <1>13, <1>14,
     <1>15, <1>16 DEF Executor

\* The same for the suspend loop.
LEMMA SuspendLost ==
    ASSUME TypeOK, ProgramInv, LostInv, Suspend
    PROVE  ProgramInv' /\ LostInv' /\ (Regular' => Regular)
<1> USE DEF TypeOK, Systems, Mains, ProgramInv, LostInv, Nothing, Active, Aborting, InPass,
   Parking, Restoring, Histories, Regular
<1>1. CASE EndSuspend
  BY <1>1 DEF EndSuspend, SuspendRest, Continue
<1>2. CASE AwaitHold
  BY <1>2 DEF AwaitHold, Suspending, SuspendRest, Pass, mc_cancel_jog
<1>3. CASE EndRetract
  BY <1>3 DEF EndRetract, SuspendRest, RetractComplete, Pass, mc_cancel_jog
<1>4. CASE FallAsleep
  BY <1>4 DEF FallAsleep, SuspendRest, Stopped, Retracted, Stationary, Suspending, Parks,
     Pass, mc_cancel_jog, Off
<1>5. CASE AwaitClosing
  BY <1>5 DEF AwaitClosing, SuspendRest, Retracted, Stationary, Suspending, Parks, Pass,
     mc_cancel_jog, DoorRead
<1>6. CASE EndRestore
  BY <1>6 DEF EndRestore, SuspendRest, RestoreComplete, Suspended, Pass, mc_cancel_jog
<1>7. CASE ManageHold
  BY <1>7 DEF ManageHold, SuspendRest, Stationary, Suspending, SpindleRestored, Pass,
     mc_cancel_jog, Parks, Off
<1>8. CASE /\ Retract
           /\ CanPark
           /\ mc_parking_motion(sys, "retract1")
           /\ spindle' = [spindle EXCEPT !.ovr = {}]
  <2>1. /\ Stationary /\ Parks /\ "retractComplete" \notin sys.suspend
        /\ rt' \in {rt, rt \cup {"CycleStart"}}
        /\ UNCHANGED <<rtAlarm, plan, soft_limit, probing, sdcard, history>>
    BY <1>8 DEF Retract, PowerUp, RestoreComplete, SuspendRest
  <2>2. ParkingRuns(sys, "retract1")
    BY <1>8, ParkingMotion DEF TypeOK, Withins
  <2> QED
    BY <2>1, <2>2 DEF ParkingRuns, Stationary, Suspending, Retracted, Parks
<1>9. CASE /\ Retract
           /\ CanPark
           /\ mc_parking_motion(sys, "retract2")
           /\ spindle' = [Off EXCEPT !.ovr = {}]
  <2>1. /\ Stationary /\ Parks /\ "retractComplete" \notin sys.suspend
        /\ rt' \in {rt, rt \cup {"CycleStart"}}
        /\ UNCHANGED <<rtAlarm, plan, soft_limit, probing, sdcard, history>>
    BY <1>9 DEF Retract, PowerUp, RestoreComplete, SuspendRest
  <2>2. ParkingRuns(sys, "retract2")
    BY <1>9, ParkingMotion DEF TypeOK, Withins
  <2> QED
    BY <2>1, <2>2 DEF ParkingRuns, Stationary, Suspending, Retracted, Parks
<1>10. CASE Retract /\ RetractComplete /\ spindle' = [Off EXCEPT !.ovr = {}]
  <2>1. /\ Stationary /\ Parks /\ "retractComplete" \notin sys.suspend
        /\ rt' \in {rt, rt \cup {"CycleStart"}}
        /\ UNCHANGED <<rtAlarm, plan, soft_limit, probing, sdcard, history>>
    BY <1>10 DEF Retract, PowerUp, RestoreComplete, SuspendRest
  <2>2. Pass("suspend") /\ UNCHANGED stepper
    BY <1>10 DEF PowerUp, RetractComplete
  <2>3. sys'.state = sys.state
    BY <1>10 DEF PowerUp, RetractComplete, Suspended
  <2>4. /\ main'.pc = "exec" /\ main'.within = "suspend" /\ main'.caller = main.caller
        /\ main'.line = main.line
    BY <2>2, Passes DEF Withins
  <2> QED
    BY <2>1, <2>2, <2>3, <2>4 DEF Stationary, Suspending, Retracted, Parks
<1>11. CASE RetractFast /\ mc_parking_motion(sys, "retract2")
  <2>1. /\ main.pc = "parked" /\ rt' \in {rt, rt \cup {"CycleStart"}}
        /\ UNCHANGED <<rtAlarm, plan, soft_limit, probing, sdcard, history>>
    BY <1>11 DEF RetractFast, PowerUp, RestoreComplete, SuspendRest
  <2>2. ParkingRuns(sys, "retract2")
    BY <1>11, ParkingMotion DEF TypeOK, Withins
  <2> QED
    BY <2>1, <2>2 DEF ParkingRuns, Stationary, Suspending, Retracted, Parks
<1>12. CASE RetractFast /\ RetractComplete
  <2>1. /\ main.pc = "parked" /\ rt' \in {rt, rt \cup {"CycleStart"}}
        /\ UNCHANGED <<rtAlarm, plan, soft_limit, probing, sdcard, history>>
    BY <1>12 DEF RetractFast, PowerUp, RestoreComplete, SuspendRest
  <2>2. Pass("suspend") /\ UNCHANGED stepper
    BY <1>12 DEF PowerUp, RetractComplete
  <2>3. sys'.state = sys.state
    BY <1>12 DEF PowerUp, RetractComplete, Suspended
  <2>4. /\ main'.pc = "exec" /\ main'.within = "suspend" /\ main'.caller = main.caller
        /\ main'.line = main.line
    BY <2>2, Passes DEF Withins
  <2> QED
    BY <2>1, <2>2, <2>3, <2>4 DEF Stationary, Suspending, Retracted, Parks
<1>13. CASE /\ BeginRestore
            /\ mc_parking_motion(DoorRead, "restore1")
            /\ UNCHANGED <<rt, spindle>>
  <2>1. DoorRead \in Systems /\ DoorRead.state = sys.state
    BY DEF DoorRead, TypeOK, Systems
  <2>2. /\ Retracted /\ sys.state = "SafetyDoor" /\ rt' \in {rt, rt \cup {"CycleStart"}}
        /\ UNCHANGED <<rtAlarm, plan, soft_limit, probing, sdcard, history>>
    BY <1>13 DEF BeginRestore, PowerUp, RestoreComplete, SuspendRest
  <2>3. ParkingRuns(DoorRead, "restore1")
    BY <1>13, <2>1, ParkingMotion DEF TypeOK, Withins
  <2> QED
    BY <2>1, <2>2, <2>3 DEF ParkingRuns, Stationary, Suspending, Retracted, Parks
<1>14. CASE /\ BeginRestore
            /\ PowerUp(DoorRead)
            /\ CanPark
            /\ "restartRetract" \notin DoorRead.suspend
  <2>1. DoorRead \in Systems /\ DoorRead.state = sys.state
    BY DEF DoorRead, TypeOK, Systems
  <2>2. /\ Retracted /\ sys.state = "SafetyDoor" /\ rt' \in {rt, rt \cup {"CycleStart"}}
        /\ UNCHANGED <<rtAlarm, plan, soft_limit, probing, sdcard, history>>
    BY <1>14 DEF BeginRestore, PowerUp, RestoreComplete, SuspendRest
  <2>3. ParkingRuns(DoorRead, "restore2")
    BY <1>14, <2>1, ParkingMotion DEF PowerUp, TypeOK, Withins
  <2> QED
    BY <2>1, <2>2, <2>3 DEF ParkingRuns, Stationary, Suspending, Retracted, Parks
<1>15. CASE /\ BeginRestore
            /\ PowerUp(DoorRead)
            /\ ~(CanPark /\ "restartRetract" \notin DoorRead.suspend)
  <2>1. DoorRead \in Systems /\ DoorRead.state = sys.state
    BY DEF DoorRead, TypeOK, Systems
  <2>2. /\ Retracted /\ sys.state = "SafetyDoor" /\ rt' \in {rt, rt \cup {"CycleStart"}}
        /\ UNCHANGED <<rtAlarm, plan, soft_limit, probing, sdcard, history>>
    BY <1>15 DEF BeginRestore, PowerUp, RestoreComplete, SuspendRest
  <2>3. Pass("suspend") /\ UNCHANGED stepper
    BY <1>15 DEF PowerUp, RestoreComplete
  <2>4. sys'.state = sys.state
    BY <1>15, <2>1 DEF PowerUp, RestoreComplete, Suspended
  <2>5. /\ main'.pc = "exec" /\ main'.within = "suspend" /\ main'.caller = main.caller
        /\ main'.line = main.line
    BY <2>3, Passes DEF Withins
  <2> QED
    BY <2>1, <2>2, <2>3, <2>4, <2>5 DEF Stationary, Suspending, Retracted, Parks
<1>16. CASE RestoreFast /\ PowerUp(sys) /\ CanPark /\ "restartRetract" \notin sys.suspend
  <2>1. /\ main.pc = "parked" /\ rt' \in {rt, rt \cup {"CycleStart"}}
        /\ UNCHANGED <<rtAlarm, plan, soft_limit, probing, sdcard, history>>
    BY <1>16 DEF RestoreFast, PowerUp, RestoreComplete, SuspendRest
  <2>2. ParkingRuns(sys, "restore2")
    BY <1>16, ParkingMotion DEF PowerUp, TypeOK, Withins
  <2> QED
    BY <2>1, <2>2 DEF ParkingRuns, Stationary, Suspending, Retracted, Parks
<1>17. CASE RestoreFast /\ PowerUp(sys) /\ ~(CanPark /\ "restartRetract" \notin sys.suspend)
  <2>1. /\ main.pc = "parked" /\ rt' \in {rt, rt \cup {"CycleStart"}}
        /\ UNCHANGED <<rtAlarm, plan, soft_limit, probing, sdcard, history>>
    BY <1>17 DEF RestoreFast, PowerUp, RestoreComplete, SuspendRest
  <2>2. Pass("suspend") /\ UNCHANGED stepper
    BY <1>17 DEF PowerUp, RestoreComplete
  <2>3. sys'.state = sys.state
    BY <1>17 DEF PowerUp, RestoreComplete, Suspended
  <2>4. /\ main'.pc = "exec" /\ main'.within = "suspend" /\ main'.caller = main.caller
        /\ main'.line = main.line
    BY <2>2, Passes DEF Withins
  <2> QED
    BY <2>1, <2>2, <2>3, <2>4 DEF Stationary, Suspending, Retracted, Parks
<1>18. Retract =>
     \/ CanPark /\ mc_parking_motion(sys, "retract1") /\ spindle' = [spindle EXCEPT !.ovr = {}]
     \/ CanPark /\ mc_parking_motion(sys, "retract2") /\ spindle' = [Off EXCEPT !.ovr = {}]
     \/ RetractComplete /\ spindle' = [Off EXCEPT !.ovr = {}]
  BY DEF Retract
<1>19. RetractFast => mc_parking_motion(sys, "retract2") \/ RetractComplete
  BY DEF RetractFast
<1>20. BeginRestore => \/ mc_parking_motion(DoorRead, "restore1") /\ UNCHANGED <<rt, spindle>>
                      \/ PowerUp(DoorRead)
  BY DEF BeginRestore
<1>21. RestoreFast => PowerUp(sys)
  BY DEF RestoreFast
<1> HIDE DEF TypeOK, Systems, Mains, ProgramInv, LostInv, Nothing, Active, Aborting, InPass,
   Parking, Restoring, Histories, Regular
<1> QED
  BY <1>1, <1>2, <1>3, <1>4, <1>5, <1>6, <1>7, <1>8, <1>9, <1>10, <1>11, <1>12, <1>13, <1>14,
      <1>15, <1>16, <1>17, <1>18, <1>19, <1>20, <1>21 DEF Suspend

\* The same for the main program.
LEMMA ProgramLost ==
    ASSUME TypeOK, ProgramInv, LostInv, Program, ~run_once
    PROVE  ProgramInv' /\ LostInv' /\ (Regular' => Regular)
<1> USE DEF TypeOK, Systems, Mains, ProgramInv, LostInv, Nothing, Active, Aborting, InPass,
   Parking, Restoring, Histories, Regular
<1>1. CASE PollCharacter /\ inbox = "Reset"
  <2>1. mc_reset("None") /\ "None" \in Alarms
    BY <1>1, CommandEffect DEF PollCharacter, TypeOK, Alarms, Cmds
  <2> QED
    BY <2>1, <1>1, ResetEffect DEF PollCharacter, Continue, Moving
<1>2. CASE PollCharacter /\ inbox # "Reset"
  <2>1. CommandSets(inbox)
    BY <1>2, CommandEffect DEF PollCharacter, TypeOK
  <2> QED
    BY <2>1, <1>2 DEF PollCharacter, Continue, CommandSets
<1>3. CASE PollNothing
  BY <1>3 DEF PollNothing, Requested, MainRest, Machine, Execute
<1>4. CASE EndIdle
  BY <1>4 DEF EndIdle, Returned, MainRest, LineDone
<1>5. CASE \E line \in LineKinds \cup {"eof"} : PollLine(line)
  BY <1>5, PollLineEffect DEF Machine
<1>6. CASE RefuseLine
  BY <1>6 DEF RefuseLine, Returned, MainRest, Machine, Locked, LineDone, GCodeLines
<1>7. CASE disable_alarm_lock
  BY <1>7 DEF disable_alarm_lock, LineDone, Executes, Returned
<1>8. CASE go_to_sleep
  BY <1>8 DEF go_to_sleep, MainRest, Machine, LineDone, Executes, Returned
<1>9. CASE runSDFile
  BY <1>9 DEF runSDFile, MainRest, Machine, LineDone, Executes, Returned
<1>10. CASE toggle_check_mode /\ sys.state = "Idle"
  BY <1>10 DEF toggle_check_mode, LineDone, Executes, Returned
<1>11. CASE toggle_check_mode /\ sys.state # "Idle"
  <2>1. /\ mc_reset("None") /\ "None" \in Alarms /\ LineDone
        /\ main.pc = "return" /\ sys.state = "CheckMode"
        /\ UNCHANGED <<sys, plan, soft_limit, probing, door, sdcard>>
    BY <1>11 DEF toggle_check_mode, Executes, Returned, Alarms
  <2> QED
    BY <2>1, <1>11, ResetEffect DEF LineDone, Moving
<1>12. CASE BeginLine
  <2>1. /\ main.pc = "return" /\ main.caller = "line" /\ main'.line \in {main.line, "none"}
        /\ \/ main'.pc = "exec" /\ main'.caller = "mc_line" /\ main.line # "probe" /\ sys.state # "Alarm"
           \/ main'.pc = "poll" /\ main'.caller = "line"
        /\ UNCHANGED <<sys, plan, stepper, rtAlarm, sdcard, soft_limit, probing, history>>
        /\ rt' \in {rt, rt \cup {"CycleStart"}}
    BY <1>12, BeginLineEffect DEF Machine, MainRest, BeginLine, Locked
  <2>2. ProgramInv'
    BY <2>1
  <2>3. LostInv' /\ (Regular' => Regular)
    BY <2>1
  <2> QED
    BY <2>1, <2>2, <2>3
<1>13. CASE BeginSync
  <2>1. /\ main.pc = "return" /\ main.caller = "line" /\ main'.line \in {main.line, "none"}
        /\ \/ main'.pc = "exec" /\ main'.caller = "sync" /\ (main.line = "eof" \/ sys.state # "Alarm")
           \/ main'.pc = "poll" /\ main'.caller = "line"
        /\ UNCHANGED <<sys, plan, stepper, rtAlarm, sdcard, soft_limit, probing, history>>
        /\ rt' \in {rt, rt \cup {"CycleStart"}}
    BY <1>13, BeginSyncEffect DEF Machine, MainRest, Locked
  <2>2. ProgramInv'
    BY <2>1
  <2>3. LostInv' /\ (Regular' => Regular)
    BY <2>1
  <2> QED
    BY <2>1, <2>2, <2>3
<1>14. CASE EndLine
  BY <1>14, EndLineEffect, JogStarts DEF MainRest
<1>15. CASE AwaitRoom
  BY <1>15 DEF AwaitRoom, Returned, Requested, MainRest, Machine, Full, Execute
<1>16. CASE BeginSoftLimit
  BY <1>16 DEF BeginSoftLimit, Machine, Executes, Returned, Execute
<1>17. CASE AwaitSoftHold
  BY <1>17 DEF AwaitSoftHold, Returned, MainRest, Machine, Execute
<1>18. CASE RaiseSoftLimit
  BY <1>18 DEF RaiseSoftLimit, mc_reset, Stopped, Moving, Returned, Locked, Executes, Execute
<1>19. CASE AwaitSync
  BY <1>19 DEF AwaitSync, Unsynchronized, Returned, MainRest, Machine, Execute
<1>20. CASE EndDwell
  BY <1>20 DEF EndDwell, Synchronized, Unsynchronized, Returned, MainRest, Machine, Execute
<1>21. CASE SwitchSpindle
  BY <1>21 DEF SwitchSpindle, Synchronized, Unsynchronized, Returned, MainRest, LineDone
<1>22. CASE PauseProgram
  BY <1>22 DEF PauseProgram, Synchronized, Unsynchronized, Returned, MainRest, Machine,
     Execute
<1>23. CASE EndFile
  BY <1>23 DEF EndFile, Synchronized, Unsynchronized, Returned, MainRest, Machine, LineDone
<1>24. CASE BeginProbe
  BY <1>24 DEF BeginProbe, Synchronized, Unsynchronized, Returned, Machine, Execute
<1>25. CASE AwaitProbe
  BY <1>25 DEF AwaitProbe, Returned, MainRest, Machine, Execute
<1>26. CASE EndProbe
  BY <1>26 DEF EndProbe, Returned, Machine, Execute
<1>27. CASE DropProbe
  BY <1>27 DEF DropProbe, StoppedStepper, Returned, MainRest, LineDone
<1> HIDE DEF TypeOK, Systems, Mains, ProgramInv, LostInv, Nothing, Active, Aborting, InPass,
   Parking, Restoring, Histories, Regular
<1> QED
  BY <1>1, <1>2, <1>3, <1>4, <1>5, <1>6, <1>7, <1>8, <1>9, <1>10, <1>11, <1>12, <1>13, <1>14,
     <1>15, <1>16, <1>17, <1>18, <1>19, <1>20, <1>21, <1>22, <1>23, <1>24, <1>25, <1>26,
     <1>27 DEF Program

\* The same for the interrupt, pins, limit switches and characters.
LEMMA OutsideLost ==
    ASSUME TypeOK, ProgramInv, LostInv, Interrupt \/ Environment
    PROVE  ProgramInv' /\ LostInv' /\ (Regular' => Regular)
<1> USE DEF TypeOK, Systems, Mains, ProgramInv, LostInv, Nothing, Active, Aborting, InPass,
   Parking, Restoring, Histories, Regular
<1>1. CASE ExecuteSegments
  BY <1>1 DEF ExecuteSegments
<1>2. CASE RunDry
  BY <1>2 DEF RunDry, Stopped
<1>3. CASE TripProbe
  BY <1>3 DEF TripProbe
<1>4. CASE \E flag \in PinFlags : ActivatePin(flag)
  BY <1>4 DEF ActivatePin, Outside, PinFlags
<1>5. CASE CloseDoor
  BY <1>5 DEF CloseDoor, Outside
<1>6. CASE HitLimit
  <2>1. mc_reset("HardLimit") /\ "HardLimit" \in Alarms
    BY <1>6 DEF HitLimit, Alarms
  <2> QED
    BY <2>1, <1>6, ResetEffect DEF HitLimit, Outside
<1>7. CASE \E c \in Cmds : SendCharacter(c)
  BY <1>7 DEF SendCharacter, Outside
<1> HIDE DEF TypeOK, Systems, Mains, ProgramInv, LostInv, Nothing, Active, Aborting, InPass,
   Parking, Restoring, Histories, Regular
<1> QED
  BY <1>1, <1>2, <1>3, <1>4, <1>5, <1>6, <1>7 DEF Interrupt, Environment

-----------------------------------------------------------------------------
(* Resets, the initial states, and the invariant. *)

\* A reset takes the machine back to where the invariant holds whatever the
\* bookkeeping was before; a motion it cuts off leaves an alarm behind.
LEMMA ResetInvariant ==
    ASSUME TypeOK, ProgramInv, Regular => Sound, LostInv, run_once
    PROVE  ProgramInv' /\ Sound' /\ LostInv'
<1>1. /\ main.pc = "init"
      /\ sys' = [state |-> StateAfterReset, suspend |-> {}, control |-> {}]
      /\ rt' \subseteq {"SafetyDoor"} /\ plan' = <<>> /\ ~probing' /\ ~sdcard'
      /\ spindle' = [on |-> FALSE, modal |-> FALSE, ovr |-> {}] /\ stepper' = StoppedStepper
      /\ UNCHANGED <<rtAlarm, soft_limit, door, inbox, budget>>
  BY DEF run_once
<1>2. /\ main'.within = "realtime" /\ main'.caller = "boot" /\ main'.line = "none"
      /\ main'.looked = 0 /\ main'.pc \in {"poll", "exec"}
      /\ main'.pc = "exec" => StateAfterReset = "Idle"
      /\ door /\ StateAfterReset = "Idle" => "SafetyDoor" \in rt'
  BY DEF run_once
<1>3. history' = [asked |-> FALSE, lost |-> history.lost \/ (stepper.timer /\ Regular),
                  probed |-> FALSE, midway |-> FALSE]
  BY DEF run_once
<1>4. StateAfterReset \in {"Idle", "Alarm", "ConfigAlarm"}
  BY DEF StateAfterReset
<1>5. ProgramInv' /\ Sound'
  BY <1>1, <1>2, <1>3, <1>4 DEF ProgramInv, Sound, SuspendInv, ParkInv, RestInv, RequestInv,
     AlarmInv, SpindleInv, StartInv, DoorInv, ResetInv, Active, Aborting, InPass, Parking,
     AtEof, BeforePass, Halted, Restart, Restoring, StoppedStepper
<1>6. ASSUME "Reset" \notin Pins, history'.lost
      PROVE  rtAlarm # "None" \/ StateAfterReset = "Alarm"
  <2>1. CASE history.lost
    BY <2>1, <1>1, <1>6 DEF LostInv, StateAfterReset, Aborting
  <2>2. CASE ~history.lost
    <3>1. stepper.timer /\ Sound
      BY <1>3, <1>6, <2>2
    <3>2. "Reset" \in rt
      BY <1>1, <3>1 DEF Sound, AlarmInv, Active
    <3> QED
      BY <3>1, <3>2, <1>6 DEF Sound, ResetInv, StateAfterReset
  <2> QED
    BY <2>1, <2>2
<1>7. LostInv'
  BY <1>1, <1>2, <1>4, <1>6 DEF LostInv, Nothing, Active, InPass, Parking, StoppedStepper
<1> QED
  BY <1>5, <1>7

\* What main_init leaves behind.
LEMMA InitInv ==
    Init => Inv
<1> SUFFICES ASSUME Init PROVE Inv
  OBVIOUS
<1>1. /\ sys \in Systems /\ sys.state \in {"Idle", "Alarm", "ConfigAlarm"} /\ sys.suspend = {}
      /\ sys.control = {}
  BY ConfigAssumption DEF Init, Systems, States
<1>2. main \in Mains /\ stepper \in Steppers
  BY DEF Init, Mains, Places, Withins, Callers, Steppers, StoppedStepper
<1>3. plan \in Seq(Motions)
  BY DEF Init
<1>4. TypeOK
  BY <1>1, <1>2, <1>3, ConfigAssumption DEF Init, TypeOK, Spindles, Alarms, Histories
<1>5. ProgramInv /\ LostInv
  BY <1>1 DEF Init, ProgramInv, LostInv
<1>6. Sound
  BY <1>1 DEF Init, Sound, SuspendInv, ParkInv, RestInv, RequestInv, AlarmInv, SpindleInv,
     StartInv, DoorInv, ResetInv, Active, Aborting, InPass, Parking, AtEof, BeforePass,
     Halted, Restart, Restoring, StoppedStepper
<1> QED
  BY <1>4, <1>5, <1>6 DEF Inv

\* Every step keeps the invariant.
LEMMA StepInv ==
    Inv /\ [Next]_vars => Inv'
<1> SUFFICES ASSUME Inv, [Next]_vars PROVE Inv'
  OBVIOUS
<1>1. TypeOK /\ ProgramInv /\ (Regular => Sound) /\ LostInv
  BY DEF Inv
<1>2. CASE Executor
  <2>1. TypeOK'
    BY <1>1, <1>2, ExecutorTypes
  <2>2. ProgramInv' /\ LostInv' /\ (Regular' => Regular)
    BY <1>1, <1>2, ExecutorLost
  <2>3. Regular' => Sound'
    BY <1>1, <1>2, <2>2, ExecutorSound
  <2> QED
    BY <2>1, <2>2, <2>3 DEF Inv
<1>3. CASE Suspend
  <2>1. TypeOK'
    BY <1>1, <1>3, SuspendTypes
  <2>2. ProgramInv' /\ LostInv' /\ (Regular' => Regular)
    BY <1>1, <1>3, SuspendLost
  <2>3. Regular' => Sound'
    BY <1>1, <1>3, <2>2, SuspendSound
  <2> QED
    BY <2>1, <2>2, <2>3 DEF Inv
<1>4. CASE Program /\ ~run_once
  <2>1. TypeOK'
    BY <1>1, <1>4, ProgramTypes
  <2>2. ProgramInv' /\ LostInv' /\ (Regular' => Regular)
    BY <1>1, <1>4, ProgramLost
  <2>3. Regular' => Sound'
    BY <1>1, <1>4, <2>2, ProgramSound
  <2> QED
    BY <2>1, <2>2, <2>3 DEF Inv
<1>5. CASE run_once
  <2>1. TypeOK'
    BY <1>1, <1>5, ProgramTypes DEF Program
  <2> QED
    BY <1>1, <1>5, <2>1, ResetInvariant DEF Inv
<1>6. CASE Interrupt \/ Environment
  <2>1. TypeOK'
    BY <1>1, <1>6, OutsideTypes
  <2>2. ProgramInv' /\ LostInv' /\ (Regular' => Regular)
    BY <1>1, <1>6, OutsideLost
  <2>3. Regular' => Sound'
    BY <1>1, <1>6, <2>2, OutsideSound
  <2> QED
    BY <2>1, <2>2, <2>3 DEF Inv
<1>7. CASE UNCHANGED vars
  BY <1>1, <1>7 DEF vars, Inv, TypeOK, ProgramInv, Regular, LostInv, Sound, SuspendInv,
     ParkInv,
     RestInv, RequestInv, AlarmInv, SpindleInv, StartInv, DoorInv, ResetInv, Nothing, Active,
     Aborting, InPass, Parking, AtEof, BeforePass, Halted, Restart, Restoring
<1> QED
  BY <1>2, <1>3, <1>4, <1>5, <1>6, <1>7 DEF Next

\* The invariant holds in every behaviour, for all constants.
THEOREM Invariant == Spec => []Inv
  BY InitInv, StepInv, PTL DEF Spec

-----------------------------------------------------------------------------
(* The properties. *)

\* NoMotionAtRest: an idle machine, or one in check mode, does not step.
THEOREM NeverMovesAtRest == Spec => []NoMotionAtRest
<1>1. Inv => NoMotionAtRest
  BY DEF Inv, Sound, RestInv, Active, NoMotionAtRest
<1> QED
  BY <1>1, Invariant, PTL

\* SpindleRunning: no cutting with a spindle that was stopped and not restored.
THEOREM SpindleRuns == Spec => []SpindleRunning
<1>1. Inv => SpindleRunning
  <2> SUFFICES ASSUME Inv, Regular, sys.state = "Cycle", stepper.timer, spindle.modal,
                      rtAlarm = "None", ~spindle.on
               PROVE  FALSE
    BY DEF SpindleRunning
  <2>1. Sound
    BY DEF Inv
  <2> QED
    BY <2>1 DEF Sound, SpindleInv
<1> QED
  BY <1>1, Invariant, PTL

\* AlarmWhenLost: a motion that was cut off leaves the machine in alarm with nothing
\* of the program left.
THEOREM LostMeansAlarm == Spec => []AlarmWhenLost
<1>1. Inv => AlarmWhenLost
  BY DEF Inv, LostInv, ProgramInv, AlarmWhenLost, Nothing, Aborting
<1> QED
  BY <1>1, Invariant, PTL

\* What may start the machine, or make it idle: a cycle start, the end of a motion,
\* a reset; besides these only a jog, or a line that unlocks the machine.
LEMMA Starts ==
    ASSUME TypeOK, Next, sys'.state \in {"Idle", "Cycle", "Jog"}, sys'.state # sys.state
    PROVE  \/ protocol_do_cycle_start \/ protocol_do_cycle_stop \/ run_once
           \/ sys.state \in {"Idle", "Alarm"} /\ sys'.state # "Cycle"
<1>1. sys \in Systems /\ sys.state # "Homing"
  BY DEF TypeOK, Systems, States
<1>2. CASE Executor
  <2>1. CASE PollRealtime \/ CriticalEvent \/ CheckReset
    BY <2>1 DEF PollRealtime, CriticalEvent, CheckReset
  <2>2. CASE protocol_do_alarm
    BY <1>1, <2>2 DEF protocol_do_alarm, Systems
  <2>3. CASE protocol_do_motion_cancel
    BY <1>1, <2>3 DEF protocol_do_motion_cancel, MotionCanceled, protocol_start_holding,
       protocol_cancel_jogging, protocol_hold_complete, Suspended, Systems
  <2>4. CASE protocol_do_feedhold
    BY <1>1, <2>4 DEF protocol_do_feedhold, FeedHeld, protocol_start_holding,
       protocol_cancel_jogging, protocol_hold_complete, Suspended, Systems, States
  <2>5. CASE protocol_do_safety_door
    BY <1>1, <2>5 DEF protocol_do_safety_door, DoorOpened, RetractAgain,
       protocol_start_holding, protocol_cancel_jogging, protocol_hold_complete, Suspended,
       Systems
  <2>6. CASE protocol_do_sleep
    BY <1>1, <2>6 DEF protocol_do_sleep, PutToSleep, protocol_start_holding,
       protocol_hold_complete, Suspended, Systems
  <2>7. CASE EndPass
    BY <2>7, PassPrepares
  <2> QED
    BY <1>2, <2>1, <2>2, <2>3, <2>4, <2>5, <2>6, <2>7 DEF Executor
<1>3. CASE Suspend
  <2>1. CASE EndSuspend \/ AwaitHold \/ FallAsleep \/ ManageHold
    BY <2>1 DEF EndSuspend, AwaitHold, FallAsleep, ManageHold
  <2>2. ASSUME NEW s \in Systems, s.state = sys.state, PowerUp(s)
        PROVE  sys'.state = sys.state
    BY <2>2 DEF PowerUp, RestoreComplete, mc_parking_motion, Suspended, Systems
  <2>3. CASE Retract \/ RetractFast \/ EndRetract
    BY <1>1, <2>3 DEF Retract, RetractFast, EndRetract, RetractComplete, mc_parking_motion,
       Systems
  <2>4. DoorRead \in Systems /\ DoorRead.state = sys.state
    BY <1>1 DEF DoorRead, Systems
  <2>5. CASE AwaitClosing
    BY <2>4, <2>5 DEF AwaitClosing
  <2>6. CASE BeginRestore \/ RestoreFast
    BY <1>1, <2>2, <2>4, <2>6 DEF BeginRestore, RestoreFast, mc_parking_motion, Systems
  <2>7. CASE EndRestore
    BY <1>1, <2>7 DEF EndRestore, RestoreComplete, Suspended, Systems
  <2> QED
    BY <1>3, <2>1, <2>3, <2>5, <2>6, <2>7 DEF Suspend
<1>4. CASE Program
  <2>1. CASE disable_alarm_lock
    BY <1>1, <2>1 DEF disable_alarm_lock
  <2>2. CASE EndLine
    BY <2>2, EndLineEffect, JogStarts
  <2>3. CASE toggle_check_mode
    BY <1>1, <2>3 DEF toggle_check_mode, Systems
  <2>4. CASE \E line \in LineKinds \cup {"eof"} : PollLine(line)
    BY <2>4 DEF PollLine, Machine
  <2>5. CASE \/ PollCharacter \/ PollNothing \/ EndIdle \/ RefuseLine \/ go_to_sleep
             \/ runSDFile \/ BeginLine \/ AwaitRoom
    BY <2>5 DEF PollCharacter, PollNothing, EndIdle, RefuseLine, go_to_sleep, runSDFile,
       BeginLine, AwaitRoom, Machine
  <2>6. CASE \/ BeginSoftLimit \/ AwaitSoftHold \/ RaiseSoftLimit \/ BeginSync \/ AwaitSync
             \/ EndDwell \/ SwitchSpindle
    BY <2>6 DEF BeginSoftLimit, AwaitSoftHold, RaiseSoftLimit, BeginSync, AwaitSync,
       EndDwell, SwitchSpindle, Machine
  <2>7. CASE \/ PauseProgram \/ EndFile \/ BeginProbe \/ AwaitProbe \/ EndProbe \/ DropProbe
    BY <2>7 DEF PauseProgram, EndFile, BeginProbe, AwaitProbe, EndProbe, DropProbe, Machine
  <2> QED
    BY <1>4, <2>1, <2>2, <2>3, <2>4, <2>5, <2>6, <2>7 DEF Program
<1>5. CASE Interrupt \/ Environment
  BY <1>5 DEF Interrupt, Environment, ExecuteSegments, RunDry, TripProbe, ActivatePin,
     CloseDoor, HitLimit, SendCharacter, Outside
<1> QED
  BY <1>2, <1>3, <1>4, <1>5 DEF Next

\* NoUnaskedResume: a stopped machine starts again only on a start asked for since.
THEOREM ResumesWhenAsked == Spec => NoUnaskedResume
<1>1. Inv /\ [Next]_vars =>
        [ /\ sys.state \in {"Hold", "SafetyDoor", "Sleep"}
          /\ sys'.state \in {"Idle", "Cycle", "Jog"}
          /\ main.pc # "init" /\ Regular
          => history.asked ]_vars
  <2> SUFFICES ASSUME Inv, Next, sys.state \in {"Hold", "SafetyDoor", "Sleep"},
                      sys'.state \in {"Idle", "Cycle", "Jog"}, main.pc # "init", Regular
               PROVE  history.asked
    BY DEF vars
  <2>1. TypeOK /\ Sound
    BY DEF Inv
  <2>2. protocol_do_cycle_start \/ protocol_do_cycle_stop
    BY <2>1, Starts DEF run_once
  <2>3. CASE protocol_do_cycle_stop
    <3>1. main.pc = "handle"
      BY <2>1, <2>3, FlagHandled DEF protocol_do_cycle_stop, Handles
    <3>2. "jogCancel" \notin sys.suspend
      BY <2>1, <3>1 DEF Sound, SuspendInv, Aborting
    <3>3. sys' = HoldCompleted(sys)
      BY <2>3, <3>2 DEF protocol_do_cycle_stop, Holds, Regular
    <3> QED
      BY <2>1, <3>3 DEF HoldCompleted, TypeOK, Systems
  <2>4. CASE protocol_do_cycle_start
    <3>1. Handles(5, "CycleStart")
      BY <2>1, <2>4, FlagHandled DEF protocol_do_cycle_start
    <3>2. \/ sys.state = "Hold" /\ Resumable
          \/ sys.state = "SafetyDoor" /\ "restoreComplete" \in sys.suspend
      BY <2>1, <2>4 DEF protocol_do_cycle_start, Suspended, TypeOK, Systems
    <3> QED
      BY <2>1, <3>1, <3>2 DEF Sound, SuspendInv, StartInv, Aborting, Resumable, Handles
  <2> QED
    BY <2>2, <2>3, <2>4
<1> QED
  BY <1>1, Invariant, PTL DEF NoUnaskedResume, Spec

\* ClosedDoorAtStart: no cycle starts with the door open, unless the door's event is
\* about to be handled.
THEOREM StartsWithClosedDoor == Spec => ClosedDoorAtStart
<1>1. Inv /\ [Next]_vars =>
        [ Regular /\ sys.state # "Cycle" /\ sys'.state = "Cycle" /\ door
            => "SafetyDoor" \in rt ]_vars
  <2> SUFFICES ASSUME Inv, Next, Regular, sys.state # "Cycle", sys'.state = "Cycle", door
               PROVE  "SafetyDoor" \in rt
    BY DEF vars
  <2>1. TypeOK /\ Sound
    BY DEF Inv
  <2>2. CASE protocol_do_cycle_start
    <3>1. sys.state \in {"Idle", "Hold"}
      BY <2>1, <2>2 DEF protocol_do_cycle_start, Suspended, TypeOK, Systems
    <3>2. main.pc = "handle"
      BY <2>2 DEF protocol_do_cycle_start, At
    <3> QED
      BY <2>1, <3>1, <3>2 DEF Sound, DoorInv
  <2>3. CASE protocol_do_cycle_stop
    BY <2>1, <2>3 DEF protocol_do_cycle_stop, HoldCompleted, MotionCompleted, TypeOK, Systems
  <2>4. CASE run_once
    BY <2>4 DEF run_once, StateAfterReset
  <2> QED
    BY <2>1, <2>2, <2>3, <2>4, Starts
<1> QED
  BY <1>1, Invariant, PTL DEF ClosedDoorAtStart, Spec
=============================================================================
