------------------------------ MODULE Protocol ------------------------------
(***************************************************************************)
(* The real-time executor (Protocol.cpp) and what runs against it: the     *)
(* main program that reads and executes lines, the stepper interrupt, the  *)
(* control pins, the client that sends realtime characters, and the door.  *)
(*                                                                         *)
(* The main program is one process: every place where it calls             *)
(* protocol_execute_realtime is a "caller", and between any two of its     *)
(* steps the interrupts and the user may act.  A pass of                   *)
(* protocol_exec_rt_system takes one step per handler that has something   *)
(* to do.  Planner and segment buffer are abstracted to a short queue of   *)
(* motions, the fact that the first of them is under way and the fact that *)
(* segments are waiting (Planner and Stepper model them in detail).        *)
(***************************************************************************)
EXTENDS Naturals, Sequences

CONSTANTS Lines,         \* kinds of lines the clients send
          FileLines,     \* kinds of lines in the files on the SD card
          Characters,    \* realtime characters the client sends
          Pins,          \* control pins that are configured
          HardLimits,    \* whether the limit switches raise alarms
          CanPark,       \* can_park()
          IdleDisable,   \* whether idle steppers are disabled (idle_ms # 255)
          InitialStates, \* states main_init may leave behind
          PlannerBlocks, \* motions the planner holds
          MaxLines, MaxEvents  \* bounds on lines, and on characters and pin events

LineKinds == {"move", "far", "jog", "spindle", "dwell", "pause", "probe", "unlock",
              "sleep", "check", "run"}
PinFlags == {"Reset", "CycleStart", "FeedHold", "SafetyDoor"}
Cmds == {"Reset", "CycleStart", "FeedHold", "SafetyDoor", "JogCancel", "SpindleOvrStop"}

ASSUME InputAssumption ==
    /\ Lines \subseteq LineKinds /\ FileLines \subseteq LineKinds \ {"run"}
    /\ Characters \subseteq Cmds /\ Pins \subseteq PinFlags
ASSUME ConfigAssumption ==
    /\ HardLimits \in BOOLEAN /\ CanPark \in BOOLEAN /\ IdleDisable \in BOOLEAN
    /\ InitialStates \subseteq {"Idle", "Alarm", "ConfigAlarm"}
    /\ PlannerBlocks \in Nat \ {0} /\ MaxLines \in Nat /\ MaxEvents \in Nat

VARIABLES sys,        \* state, suspend (set of bits), control (sys.step_control)
          rt,         \* the rtXxx flags that are set
          rtAlarm,
          main,       \* where the main program is, a record, see below
          plan,       \* motions queued in the planner: "line" or "jog"
          stepper,    \* timer running, segments waiting, first motion under way
          drivers,    \* stepper drivers enabled, disabling scheduled (idleEndTime)
          spindle,    \* on, wanted by the program (modal), stop override in force
          soft_limit,
          probing,    \* probeState is Active
          door,       \* the door switch reads ajar
          sdcard,     \* a job runs from the SD card
          inbox,      \* realtime character sent and not read yet
          history,    \* asked: a start the user asked for since the machine was
                      \*   last told to stop; lost: motion was cut off abruptly;
                      \*   probed: a probing motion was made since the last reset;
                      \*   midway: a start ended the door's restore in mid-motion
          budget      \* lines and events left

vars == <<sys, rt, rtAlarm, main, plan, stepper, drivers, spindle, soft_limit,
          probing, door, sdcard, inbox, history, budget>>

\* main is a record: pc, the next step; looked, how many flags this pass has looked
\* at; within and caller, where protocol_exec_rt_system and
\* protocol_execute_realtime return to; line, the line in execution; inflight,
\* whether its motion is still to be planned (mc_pl_data_inflight).
FlagsStopFirst == <<"MotionCancel", "FeedHold", "SafetyDoor", "Sleep", "CycleStop", "CycleStart">>
Flags == <<"MotionCancel", "FeedHold", "SafetyDoor", "Sleep", "CycleStart", "CycleStop">>

Suspended(s, bits) == [s EXCEPT !.suspend = @ \cup bits]
Continue(pc) == main' = [main EXCEPT !.pc = pc]

\* protocol_execute_realtime is called and returns to this caller.
Execute(caller) ==
    main' = [main EXCEPT !.pc = "exec", !.within = "realtime", !.caller = caller]
LineDone == main' = [main EXCEPT !.pc = "poll", !.line = "none", !.inflight = FALSE]

-----------------------------------------------------------------------------
(* Steppers and their drivers. *)

StoppedStepper == [timer |-> FALSE, segs |-> FALSE, begun |-> FALSE]
Running(st) == [st EXCEPT !.timer = TRUE]                  \* Stepper::wake_up
Stopped(st) == [st EXCEPT !.timer = FALSE]                 \* stop_stepping

\* The drivers after protocol_disable_steppers.
protocol_disable_steppers(s, alarm) ==
    CASE s.state = "Homing" -> [drivers EXCEPT !.enabled = TRUE]
      [] s.state = "Sleep" \/ (s.state # "Homing" /\ alarm # "None")
            -> [drivers EXCEPT !.enabled = FALSE]
      [] OTHER -> IF IdleDisable THEN [drivers EXCEPT !.idleEnd = TRUE]
                  ELSE [drivers EXCEPT !.enabled = TRUE]

\* Stepper::prep_buffer, as the set of its outcomes: more segments of the first
\* motion, up to its end, while the segment buffer has room; in a hold also the
\* end of the deceleration within the motion.  A parking motion fits the buffer.
prep_buffer(control, blocks, st) ==
    LET outcome(c, b, segs, begun) ==
            [control |-> c, plan |-> b,
             stepper |-> [st EXCEPT !.segs = segs, !.begun = begun]]
        ended == control \cup {"endMotion"}
        holds == IF "executeHold" \in control THEN {st.segs, TRUE} ELSE {}
    IN  IF "endMotion" \in control
            THEN {outcome(control, blocks, st.segs, st.begun)}
        ELSE IF "executeSysMotion" \in control
            THEN {outcome(ended, blocks, segs, st.begun) : segs \in holds \cup {TRUE}}
        ELSE IF blocks = <<>>
            THEN {outcome(control, blocks, st.segs, st.begun)}
        ELSE {outcome(control, Tail(blocks), TRUE, FALSE)}
             \cup (IF st.begun THEN {} ELSE {outcome(control, blocks, TRUE, TRUE)})
             \cup (IF st.segs THEN {outcome(control, blocks, TRUE, st.begun)} ELSE {})
             \cup {outcome(ended, blocks, segs, TRUE) : segs \in holds}

\* Mutant: the machine also moves in a hold and while parking.
MovingInCycle == sys.state \in {"Cycle", "Homing", "Jog"}

Moving == \/ sys.state \in {"Cycle", "Homing", "Jog"}
          \/ sys.control \cap {"executeHold", "executeSysMotion"} # {}

\* mc_reset, followed by raising "then" unless that is "None".
mc_reset(then) ==
    LET alarm == IF ~Moving THEN rtAlarm
                 ELSE IF sys.state # "Homing" THEN "AbortCycle"
                 ELSE IF rtAlarm = "None" THEN "HomingFailReset" ELSE rtAlarm
    IN  IF "Reset" \in rt
        THEN /\ rtAlarm' = IF then = "None" THEN rtAlarm ELSE then
             /\ UNCHANGED <<rt, spindle, stepper, drivers, history>>
        ELSE /\ rt' = rt \cup {"Reset"}
             /\ rtAlarm' = IF then = "None" THEN alarm ELSE then
             /\ spindle' = [spindle EXCEPT !.on = FALSE]
             /\ stepper' = IF Moving THEN Stopped(stepper) ELSE stepper
             /\ drivers' = IF Moving THEN protocol_disable_steppers(sys, alarm) ELSE drivers
             /\ history' = [history EXCEPT !.lost = @ \/ (Moving /\ stepper.timer)]

\* execute_realtime_command.
execute_realtime_command(c) ==
    IF c = "Reset" THEN mc_reset("None")
    ELSE /\ rt' = IF c # "JogCancel" THEN rt \cup {c}
                  ELSE IF sys.state = "Jog" THEN rt \cup {"MotionCancel"} ELSE rt
         /\ history' = [history EXCEPT !.asked = @ \/ c = "CycleStart"]
         /\ UNCHANGED <<rtAlarm, spindle, stepper, drivers>>

-----------------------------------------------------------------------------
(* The state machine: what each request does to sys. *)

protocol_hold_complete(s) == [s EXCEPT !.suspend = {"holdComplete"}]

protocol_start_holding(s) ==
    IF s.suspend \cap {"motionCancel", "jogCancel"} # {} THEN s
    ELSE [s EXCEPT !.control = {"executeHold"}]

protocol_cancel_jogging(s) ==
    IF "motionCancel" \in s.suspend THEN s ELSE Suspended(s, {"jogCancel"})

MotionCanceled(s) ==
    CASE s.state \in {"Alarm", "ConfigAlarm", "CheckMode"} -> s
      [] s.state = "Idle" -> Suspended(protocol_hold_complete(s), {"motionCancel"})
      [] s.state = "Cycle" -> Suspended(protocol_start_holding(s), {"motionCancel"})
      [] s.state = "Jog" -> protocol_cancel_jogging(protocol_start_holding(s))
      [] OTHER -> Suspended(s, {"motionCancel"})

FeedHeld(s) ==
    CASE s.state \in {"ConfigAlarm", "Alarm", "CheckMode", "SafetyDoor", "Sleep"} -> s
      [] s.state \in {"Hold", "Homing"} -> [s EXCEPT !.state = "Hold"]
      [] s.state = "Idle" -> [protocol_hold_complete(s) EXCEPT !.state = "Hold"]
      [] s.state = "Cycle" -> [protocol_start_holding(s) EXCEPT !.state = "Hold"]
      [] s.state = "Jog" -> protocol_cancel_jogging(protocol_start_holding(s))

\* The door opened while the machine was restoring: start the retraction over.
RetractAgain(s) ==
    IF "jogCancel" \in s.suspend \/ "initiateRestore" \notin s.suspend THEN s
    ELSE LET moving == "executeSysMotion" \in s.control
         IN  [s EXCEPT !.control = IF moving THEN {"executeHold", "executeSysMotion"} ELSE @,
                       !.suspend = (@ \ ({"retractComplete", "initiateRestore", "restoreComplete"}
                                         \cup IF moving THEN {"holdComplete"} ELSE {}))
                                   \cup {"restartRetract"}]

DoorOpened(s) ==
    LET t == CASE s.state = "SafetyDoor" -> RetractAgain(s)
               [] s.state = "Idle" -> protocol_hold_complete(s)
               [] s.state = "Cycle" -> protocol_start_holding(s)
               [] s.state = "Jog" -> protocol_cancel_jogging(protocol_start_holding(s))
               [] OTHER -> s
    IN  IF s.state \in {"ConfigAlarm", "Alarm", "CheckMode", "Sleep"} THEN s
        ELSE Suspended([t EXCEPT !.state = IF "jogCancel" \in t.suspend THEN @ ELSE "SafetyDoor"],
                       {"safetyDoorAjar"})

PutToSleep(s) ==
    LET t == CASE s.state \in {"ConfigAlarm", "Alarm"}
                     -> Suspended(s, {"retractComplete", "holdComplete"})
               [] s.state = "Idle" -> protocol_hold_complete(s)
               [] s.state \in {"Cycle", "Jog"} -> protocol_start_holding(s)
               [] OTHER -> s
    IN  [t EXCEPT !.state = "Sleep"]

\* Mutant: step_control is cleared before it is tested.
HoldCompletedLate(s) == [s EXCEPT !.control = @ \ {"executeHold", "executeSysMotion"}]

\* A hold has come to its end: the machine stays in its state, ready to resume.
HoldCompleted(s) ==
    [s EXCEPT !.suspend = IF "executeHold" \in s.control THEN @ \cup {"holdComplete"} ELSE @,
              !.control = @ \ {"executeHold", "executeSysMotion"}]

\* Any other motion has come to its end, a canceled jog among them.
MotionCompleted(s) ==
    LET t == IF "jogCancel" \in s.suspend THEN [s EXCEPT !.control = {}] ELSE s
    IN  IF "safetyDoorAjar" \in s.suspend
        THEN [t EXCEPT !.state = "SafetyDoor",
                       !.suspend = (@ \ {"jogCancel"}) \cup {"holdComplete"}]
        ELSE [t EXCEPT !.state = "Idle", !.suspend = {}]

-----------------------------------------------------------------------------
(* One pass of protocol_exec_rt_system. *)

\* pollClients(true) reads nothing unless a job or a critical alarm is active.
Readable == sdcard \/ rtAlarm \in {"HardLimit", "SoftLimit"}

PollRealtime ==
    /\ main.pc = "exec"
    /\ Readable /\ inbox # "none"
    /\ execute_realtime_command(inbox)
    /\ inbox' = "none"
    /\ Continue("alarm")
    /\ UNCHANGED <<sys, plan, soft_limit, probing, door, sdcard, budget>>

protocol_do_alarm ==
    /\ main.pc = "alarm" \/ (main.pc = "exec" /\ ~(Readable /\ inbox # "none"))
    /\ IF rtAlarm = "None" THEN Continue("reset") /\ UNCHANGED <<sys, rt, rtAlarm, sdcard>>
       ELSE /\ sys' = [sys EXCEPT !.state = "Alarm"]
            /\ IF rtAlarm \in {"HardLimit", "SoftLimit"}
               THEN /\ sdcard' = (sdcard /\ "Reset" \notin rt)
                    /\ rt' = rt \ {"Reset"}
                    /\ Continue("critical")
                    /\ UNCHANGED rtAlarm
               ELSE /\ rtAlarm' = "None"
                    /\ Continue("reset")
                    /\ UNCHANGED <<rt, sdcard>>
    /\ UNCHANGED <<plan, stepper, drivers, spindle, soft_limit, probing, door, inbox,
                   history, budget>>

\* A critical alarm blocks everything but realtime characters until a reset.
CriticalEvent ==
    /\ main.pc = "critical"
    /\ IF "Reset" \in rt
       THEN /\ rtAlarm' = "None"
            /\ Continue("reset")
            /\ UNCHANGED <<rt, spindle, stepper, drivers, history, inbox>>
       ELSE /\ inbox # "none"
            /\ execute_realtime_command(inbox)
            /\ inbox' = "none"
            /\ UNCHANGED main
    /\ UNCHANGED <<sys, plan, soft_limit, probing, door, sdcard, budget>>

\* A reset sets sys.abort, upon which every caller returns, up to run_once.
CheckReset ==
    /\ main.pc = "reset"
    /\ main' = [main EXCEPT !.pc = IF "Reset" \in rt THEN "init" ELSE "handle", !.looked = 0]
    /\ rtAlarm' = IF "Reset" \in rt /\ sys.state = "Homing" THEN "HomingFailReset" ELSE rtAlarm
    /\ UNCHANGED <<sys, rt, plan, stepper, drivers, spindle, soft_limit, probing, door,
                   sdcard, inbox, history, budget>>

\* The next flag found set in this pass is f.
At(f) ==
    /\ main.pc = "handle"
    /\ \E k \in main.looked + 1 .. Len(Flags) :
          /\ Flags[k] = f /\ f \in rt
          /\ \A j \in main.looked + 1 .. k - 1 : Flags[j] \notin rt
          /\ main' = [main EXCEPT !.looked = k]

\* A hold by the user or the door revokes a start asked for before, save where the
\* code disregards it: a feed hold while the door is open or the machine restores.
Revokes(f) == f # "MotionCancel" /\ ~(f = "FeedHold" /\ sys.state = "SafetyDoor")

Stop(f) ==
    /\ At(f)
    /\ history' = [history EXCEPT !.asked = @ /\ ~Revokes(f)]
    /\ UNCHANGED <<plan, stepper, drivers, spindle, soft_limit, probing, door, sdcard,
                   inbox, budget>>

protocol_do_motion_cancel ==
    /\ Stop("MotionCancel")
    /\ rt' = rt \ {"MotionCancel", "CycleStart"}
    /\ sys' = MotionCanceled(sys)
    /\ UNCHANGED rtAlarm

protocol_do_feedhold ==
    /\ Stop("FeedHold")
    /\ rt' = rt \ {"FeedHold", "CycleStart"}
    /\ sys' = FeedHeld(sys)
    /\ UNCHANGED rtAlarm

\* While a jog is canceled the door event stays pending.
protocol_do_safety_door ==
    /\ Stop("SafetyDoor")
    /\ sys' = DoorOpened(sys)
    /\ rt' = rt \ ({"CycleStart"} \cup
                   IF sys.state = "ConfigAlarm" \/ "jogCancel" \in sys'.suspend
                   THEN {} ELSE {"SafetyDoor"})
    /\ rtAlarm' = IF sys.state = "Homing" THEN "HomingFailDoor" ELSE rtAlarm

protocol_do_sleep ==
    /\ At("Sleep")
    /\ rt' = rt \ {"Sleep"}
    /\ sys' = PutToSleep(sys)
    /\ UNCHANGED <<rtAlarm, plan, stepper, drivers, spindle, soft_limit, probing, door,
                   sdcard, inbox, history, budget>>

\* Mutant: a hold is resumed before it is complete.
ResumableAlways == TRUE

Resumable == "holdComplete" \in sys.suspend

DriversInCycle == [enabled |-> TRUE, idleEnd |-> FALSE]

\* The effect of protocol_do_initiate_cycle.
protocol_do_initiate_cycle ==
    IF plan # <<>> /\ "motionCancel" \notin sys.suspend
    THEN \E r \in prep_buffer({}, plan, stepper) :
            /\ sys' = [state |-> "Cycle", suspend |-> {}, control |-> r.control]
            /\ plan' = r.plan
            /\ stepper' = Running(r.stepper)
            /\ drivers' = DriversInCycle
    ELSE /\ sys' = [state |-> "Idle", suspend |-> {}, control |-> {}]
         /\ UNCHANGED <<plan, stepper, drivers>>

Restoring == main.within \in {"restore1", "restore2"}

protocol_do_cycle_start ==
    LET closed == sys.state = "SafetyDoor" /\ "safetyDoorAjar" \notin sys.suspend
        held == sys.state = "Hold" /\ Resumable
        still == UNCHANGED <<plan, stepper, drivers>>
    IN  /\ At("CycleStart")
        /\ rt' = rt \ {"CycleStart"}
        /\ IF sys.state = "Idle" \/ (held /\ spindle.ovr = {})
           THEN protocol_do_initiate_cycle
           ELSE /\ still
                /\ sys' = IF closed /\ "restoreComplete" \in sys.suspend
                          THEN [sys EXCEPT !.state = "Idle"]
                          ELSE IF closed /\ "retractComplete" \in sys.suspend
                          THEN Suspended(sys, {"initiateRestore"}) ELSE sys
        /\ spindle' = IF held /\ spindle.ovr # {}
                      THEN [spindle EXCEPT !.ovr = @ \cup {"restoreCycle"}] ELSE spindle
        \* the start asked for is used up, unless the spindle or the parking
        \* position has to be restored first
        /\ history' = [history EXCEPT !.asked = @ /\ (held \/ closed) /\ sys'.state = sys.state,
                                      !.midway = @ \/ (closed /\ sys'.state = "Idle" /\ Restoring)]
        /\ UNCHANGED <<rtAlarm, soft_limit, probing, door, sdcard, inbox, budget>>

Holds == sys.state \in {"Hold", "SafetyDoor", "Sleep"} /\ ~soft_limit
         /\ "jogCancel" \notin sys.suspend

protocol_do_cycle_stop ==
    /\ At("CycleStop")
    /\ rt' = rt \ {"CycleStop"}
    /\ drivers' = protocol_disable_steppers(sys, rtAlarm)
    /\ sys' = IF Holds THEN HoldCompleted(sys) ELSE MotionCompleted(sys)
    /\ IF ~Holds /\ "jogCancel" \in sys.suspend
       THEN plan' = <<>> /\ stepper' = StoppedStepper
       ELSE UNCHANGED <<plan, stepper>>
    /\ UNCHANGED <<rtAlarm, spindle, soft_limit, probing, door, sdcard, inbox, history, budget>>

\* protocol_execute_overrides: the stop override exists in a hold only.
SpindleOverridden ==
    IF "SpindleOvrStop" \notin rt \/ sys.state # "Hold" THEN spindle
    ELSE [spindle EXCEPT !.ovr = CASE @ = {} -> {"initiate"}
                                   [] "enabled" \in @ -> @ \cup {"restore"}
                                   [] OTHER -> @]

\* No flag is left: overrides, and more segments while motion is possible.
EndPass ==
    /\ main.pc = "handle"
    /\ \A k \in main.looked + 1 .. Len(Flags) : Flags[k] \notin rt
    /\ rt' = rt \ {"SpindleOvrStop"}
    /\ spindle' = SpindleOverridden
    /\ IF sys.state \in {"Cycle", "Hold", "SafetyDoor", "Homing", "Jog"}
       THEN \E r \in prep_buffer(sys.control, plan, stepper) :
               /\ sys' = [sys EXCEPT !.control = r.control]
               /\ plan' = r.plan /\ stepper' = r.stepper
       ELSE UNCHANGED <<sys, plan, stepper>>
    /\ main' = [main EXCEPT
         !.looked = 0,
         !.pc = CASE main.within = "realtime" -> IF sys.suspend # {} THEN "suspend" ELSE "return"
                  [] main.within = "suspend" -> "suspend"
                  [] main.within = "sleep" -> "exec"
                  [] OTHER -> IF "executeSysMotion" \in sys.control THEN "exec" ELSE "parked"]
    /\ UNCHANGED <<rtAlarm, drivers, soft_limit, probing, door, sdcard, inbox, history, budget>>

Executor ==
    \/ PollRealtime \/ protocol_do_alarm \/ CriticalEvent \/ CheckReset
    \/ protocol_do_motion_cancel \/ protocol_do_feedhold \/ protocol_do_safety_door
    \/ protocol_do_sleep \/ protocol_do_cycle_start \/ protocol_do_cycle_stop
    \/ EndPass

-----------------------------------------------------------------------------
(* protocol_exec_rt_suspend: the loop that runs while the machine is suspended, *)
(* with the parking motions of the safety door and of sleep.                    *)

\* A canceled jog that is waiting to be planned is dropped.
mc_cancel_jog ==
    IF "jogCancel" \in sys.suspend /\ main.line = "jog" THEN [main EXCEPT !.inflight = FALSE]
    ELSE main

\* The next pass, and where the loop goes on after it.
Pass(within) == main' = [mc_cancel_jog EXCEPT !.pc = "exec", !.within = within]

\* mc_parking_motion: executed to its end before the loop goes on.
mc_parking_motion(s, within) ==
    /\ \E r \in prep_buffer((s.control \cup {"executeSysMotion"}) \ {"endMotion"}, plan, stepper) :
          /\ sys' = [s EXCEPT !.control = r.control]
          /\ stepper' = Running(r.stepper)
    /\ drivers' = [drivers EXCEPT !.enabled = TRUE]
    /\ Pass(within)

Suspending == main.pc = "suspend" /\ sys.suspend # {}
Stationary == Suspending /\ "holdComplete" \in sys.suspend
Parks == sys.state \in {"SafetyDoor", "Sleep"}
Retracted == Stationary /\ Parks /\ "retractComplete" \in sys.suspend

\* Mutant: the spindle is not stopped.
OffNever == spindle

Off == [spindle EXCEPT !.on = FALSE]

\* Mutant: the spindle is not restored.
RestoredNever == spindle

SpindleRestored == [spindle EXCEPT !.on = @ \/ spindle.modal]
SuspendRest == UNCHANGED <<rtAlarm, plan, soft_limit, probing, door, sdcard, inbox, history, budget>>

EndSuspend ==
    /\ main.pc = "suspend" /\ sys.suspend = {}
    /\ Continue("return")
    /\ UNCHANGED <<sys, rt, stepper, drivers, spindle>> /\ SuspendRest

AwaitHold ==
    /\ Suspending /\ "holdComplete" \notin sys.suspend
    /\ Pass("suspend")
    /\ UNCHANGED <<sys, rt, stepper, drivers, spindle>> /\ SuspendRest

RetractComplete ==
    /\ sys' = [sys EXCEPT !.suspend = (@ \ {"restartRetract"}) \cup {"retractComplete"}]
    /\ Pass("suspend")
    /\ UNCHANGED <<stepper, drivers>>

\* Pull out slowly with the spindle running.  Above the pull-out position stop the
\* spindle first; where parking is not possible only stop it.
Retract ==
    /\ Stationary /\ Parks /\ "retractComplete" \notin sys.suspend
    /\ \/ CanPark /\ mc_parking_motion(sys, "retract1") /\ spindle' = [spindle EXCEPT !.ovr = {}]
       \/ CanPark /\ mc_parking_motion(sys, "retract2") /\ spindle' = [Off EXCEPT !.ovr = {}]
       \/ RetractComplete /\ spindle' = [Off EXCEPT !.ovr = {}]
    /\ UNCHANGED rt /\ SuspendRest

\* Then stop the spindle and move on to the parking position.
RetractFast ==
    /\ main.pc = "parked" /\ main.within = "retract1"
    /\ spindle' = Off
    /\ mc_parking_motion(sys, "retract2") \/ RetractComplete
    /\ UNCHANGED rt /\ SuspendRest

EndRetract ==
    /\ main.pc = "parked" /\ main.within = "retract2"
    /\ RetractComplete
    /\ UNCHANGED <<rt, spindle>> /\ SuspendRest

\* Asleep: nothing happens any more until a reset.
FallAsleep ==
    /\ Retracted /\ sys.state = "Sleep"
    /\ spindle' = Off
    /\ stepper' = Stopped(stepper)
    /\ drivers' = protocol_disable_steppers(sys, rtAlarm)
    /\ Pass("sleep")
    /\ UNCHANGED <<sys, rt>> /\ SuspendRest

\* Mutant: the door switch is not read.
DoorReadClosed == [sys EXCEPT !.suspend = @ \ {"safetyDoorAjar"}]

\* sys after the door switch has been read.
DoorRead == IF door THEN sys ELSE [sys EXCEPT !.suspend = @ \ {"safetyDoorAjar"}]

AwaitClosing ==
    /\ Retracted /\ sys.state = "SafetyDoor" /\ "initiateRestore" \notin sys.suspend
    /\ sys' = DoorRead
    /\ Pass("suspend")
    /\ UNCHANGED <<rt, stepper, drivers, spindle>> /\ SuspendRest

\* The last part of restoring: a start is requested, unless the door reopened.
RestoreComplete(s) ==
    /\ IF "restartRetract" \in s.suspend THEN sys' = s /\ UNCHANGED rt
       ELSE sys' = Suspended(s, {"restoreComplete"}) /\ rt' = rt \cup {"CycleStart"}
    /\ Pass("suspend")
    /\ UNCHANGED <<stepper, drivers>>

\* Power up, then plunge, unless the door reopened.
PowerUp(s) ==
    IF "restartRetract" \in s.suspend THEN RestoreComplete(s) /\ UNCHANGED spindle
    ELSE /\ spindle' = SpindleRestored
         /\ IF CanPark THEN mc_parking_motion(s, "restore2") /\ UNCHANGED rt
            ELSE RestoreComplete(s)

BeginRestore ==
    /\ Retracted /\ sys.state = "SafetyDoor" /\ "initiateRestore" \in sys.suspend
    /\ \/ CanPark /\ mc_parking_motion(DoorRead, "restore1") /\ UNCHANGED <<rt, spindle>>
       \/ PowerUp(DoorRead)
    /\ SuspendRest

RestoreFast ==
    /\ main.pc = "parked" /\ main.within = "restore1"
    /\ PowerUp(sys)
    /\ SuspendRest

EndRestore ==
    /\ main.pc = "parked" /\ main.within = "restore2"
    /\ RestoreComplete(sys)
    /\ UNCHANGED spindle /\ SuspendRest

\* In a hold: the spindle stop override.
ManageHold ==
    LET initiate == "initiate" \in spindle.ovr
        restore == spindle.ovr \cap {"restore", "restoreCycle"} # {} /\ ~initiate
    IN  /\ Stationary /\ ~Parks
        /\ spindle' = IF initiate
                      THEN [Off EXCEPT !.ovr = IF spindle.modal THEN {"enabled"} ELSE {}]
                      ELSE IF restore THEN [SpindleRestored EXCEPT !.ovr = {}] ELSE spindle
        /\ rt' = IF restore /\ "restoreCycle" \in spindle.ovr THEN rt \cup {"CycleStart"} ELSE rt
        /\ Pass("suspend")
        /\ UNCHANGED <<sys, stepper, drivers>> /\ SuspendRest

Suspend ==
    \/ EndSuspend \/ AwaitHold \/ Retract \/ RetractFast \/ EndRetract \/ FallAsleep
    \/ AwaitClosing \/ BeginRestore \/ RestoreFast \/ EndRestore \/ ManageHold

-----------------------------------------------------------------------------
(* The main program: run_once, the main loop and the execution of lines. *)

StateAfterReset ==
    CASE sys.state = "ConfigAlarm" -> "ConfigAlarm"
      [] sys.state \in {"Alarm", "Sleep"} -> "Alarm"
      [] OTHER -> "Idle"

\* Where the code's bookkeeping of motions is sound.  A soft limit (soft_limit stays
\* set), a probe (its alarms come without a reset) and a start taken in mid-restore
\* leave motions behind that the state doesn't tell of.
Regular == ~soft_limit /\ ~history.probed /\ ~history.midway

\* reset_variables and the head of protocol_main_loop, after an abort.  The file
\* of a running job is closed (protocol_abort).
run_once ==
    LET state == StateAfterReset
        doorCheck == state = "Idle" /\ door
    IN  /\ main.pc = "init"
        /\ sys' = [state |-> state, suspend |-> {}, control |-> {}]
        /\ rt' = IF doorCheck THEN {"SafetyDoor"} ELSE {}
        /\ plan' = <<>> /\ probing' = FALSE /\ sdcard' = FALSE
        /\ spindle' = [on |-> FALSE, modal |-> FALSE, ovr |-> {}]
        /\ stepper' = StoppedStepper
        /\ drivers' = IF state = "ConfigAlarm" THEN drivers
                      ELSE protocol_disable_steppers(sys, rtAlarm)
        /\ history' = [asked |-> FALSE, lost |-> history.lost \/ (stepper.timer /\ Regular),
                        probed |-> FALSE, midway |-> FALSE]
        /\ main' = [pc |-> IF doorCheck THEN "exec" ELSE "poll", looked |-> 0,
                    within |-> "realtime", caller |-> "boot", line |-> "none", inflight |-> FALSE]
        /\ UNCHANGED <<rtAlarm, soft_limit, door, inbox, budget>>

MainRest == UNCHANGED <<soft_limit, probing, door, history, budget>>
Machine == <<sys, plan, stepper, drivers, spindle>>

\* Mutant: queued motions are not started.
RequestedNever(blocks) == rt

\* protocol_auto_cycle_start.
Requested(blocks) == IF blocks # <<>> THEN rt \cup {"CycleStart"} ELSE rt

\* pollClients: a realtime character is executed at once.
PollCharacter ==
    /\ main.pc = "poll" /\ inbox # "none"
    /\ execute_realtime_command(inbox)
    /\ inbox' = "none"
    /\ UNCHANGED <<sys, main, plan, soft_limit, probing, door, sdcard, budget>>

\* pollClients: a line has arrived, from a client or from the running job, whose
\* last line is followed by the end of the file.
PollLine(line) ==
    /\ main.pc = "poll" /\ inbox = "none"
    /\ IF sdcard THEN line \in FileLines \cup {"eof"} ELSE line \in Lines
    /\ line = "eof" \/ budget.lines > 0
    /\ budget' = [budget EXCEPT !.lines = @ - IF line = "eof" THEN 0 ELSE 1]
    /\ main' = [main EXCEPT !.pc = IF line = "eof" THEN "return" ELSE "exec",
                            !.within = "realtime", !.caller = "line", !.line = line]
    /\ UNCHANGED <<Machine, rt, rtAlarm, soft_limit, probing, door, sdcard, inbox, history>>

\* No line: queued motions are started.
PollNothing ==
    /\ main.pc = "poll" /\ inbox = "none"
    /\ rt' = Requested(plan)
    /\ Execute("idle")
    /\ UNCHANGED <<Machine, rtAlarm, sdcard, inbox>> /\ MainRest

Returned(caller) == main.pc = "return" /\ main.caller = caller

\* The main loop goes on; the idle time of the drivers may be over.
EndIdle ==
    /\ Returned("idle") \/ Returned("boot") \/ Returned("last")
    /\ LineDone
    /\ \/ UNCHANGED drivers
       \/ main.caller = "idle" /\ drivers.idleEnd
          /\ drivers' = [enabled |-> FALSE, idleEnd |-> FALSE]
    /\ UNCHANGED <<sys, plan, stepper, spindle, rt, rtAlarm, sdcard, inbox>> /\ MainRest

GCodeLines == {"move", "far", "spindle", "dwell", "pause", "probe"}
Executes(line) == Returned("line") /\ main.line = line
Locked == sys.state \in {"Alarm", "ConfigAlarm", "Jog"}

\* execute_line refuses a line; a job is closed on an error.
RefuseLine ==
    /\ Returned("line")
    /\ \/ main.line \in GCodeLines /\ Locked
       \/ main.line = "jog" /\ sys.state \notin {"Idle", "Jog"}
       \/ main.line = "sleep" /\ sys.state \notin {"Idle", "Alarm", "ConfigAlarm"}
       \/ main.line = "check" /\ sys.state \notin {"Idle", "CheckMode"}
       \/ main.line = "run" /\ sys.state # "Idle"
       \/ main.line = "unlock" /\ sys.state = "ConfigAlarm"
    /\ LineDone
    /\ sdcard' = FALSE
    /\ UNCHANGED <<Machine, rt, rtAlarm, inbox>> /\ MainRest

\* $X: unlocks an alarm unless the door is open.
disable_alarm_lock ==
    /\ Executes("unlock") /\ sys.state # "ConfigAlarm"
    /\ LineDone
    /\ LET unlocks == sys.state = "Alarm" /\ ~door
       IN  /\ sys' = IF unlocks THEN [sys EXCEPT !.state = "Idle"] ELSE sys
           /\ history' = [history EXCEPT !.lost = @ /\ ~unlocks]
           /\ rtAlarm' = IF sys.state = "Alarm" /\ door THEN "ControlPin" ELSE rtAlarm
           /\ sdcard' = (sdcard /\ ~(sys.state = "Alarm" /\ door))
    /\ UNCHANGED <<plan, stepper, drivers, spindle, rt, inbox, soft_limit, probing, door, budget>>

\* $SLP.
go_to_sleep ==
    /\ Executes("sleep") /\ sys.state \in {"Idle", "Alarm", "ConfigAlarm"}
    /\ LineDone
    /\ rt' = rt \cup {"Sleep"}
    /\ UNCHANGED <<Machine, rtAlarm, sdcard, inbox>> /\ MainRest

\* $C: into check mode, and out of it by a reset.
toggle_check_mode ==
    /\ Executes("check") /\ sys.state \in {"Idle", "CheckMode"}
    /\ LineDone
    /\ IF sys.state = "Idle"
       THEN /\ sys' = [sys EXCEPT !.state = "CheckMode"]
            /\ UNCHANGED <<rt, rtAlarm, spindle, stepper, drivers, history>>
       ELSE mc_reset("None") /\ UNCHANGED sys
    /\ UNCHANGED <<plan, soft_limit, probing, door, sdcard, inbox, budget>>

\* $SD/Run.
runSDFile ==
    /\ Executes("run") /\ sys.state = "Idle"
    /\ LineDone
    /\ sdcard' = TRUE
    /\ UNCHANGED <<Machine, rt, rtAlarm, inbox>> /\ MainRest

\* A motion: mc_line waits for room in the planner.  In check mode nothing moves.
BeginLine ==
    /\ (Executes("move") /\ ~Locked) \/ (Executes("jog") /\ sys.state \in {"Idle", "Jog"})
    /\ IF sys.state = "CheckMode" THEN LineDone
       ELSE main' = [main EXCEPT !.pc = "exec", !.within = "realtime",
                                 !.caller = "mc_line", !.inflight = TRUE]
    /\ UNCHANGED <<Machine, rt, rtAlarm, sdcard, inbox>> /\ MainRest

Full == Len(plan) = PlannerBlocks

\* mc_line with the planner full: it is started, and the wait goes on.
AwaitRoom ==
    /\ Returned("mc_line") /\ Full
    /\ rt' = Requested(plan)
    /\ Execute("mc_line")
    /\ UNCHANGED <<Machine, rtAlarm, sdcard, inbox>> /\ MainRest

\* plan_buffer_line, unless the jog was canceled meanwhile (an error, then).  A
\* jog starts at once when nothing is running; a probing motion is started.
Buffered == IF main.inflight THEN Append(plan, IF main.line = "jog" THEN "jog" ELSE "line") ELSE plan

EndLine ==
    /\ Returned("mc_line") /\ ~Full
    /\ IF main.line = "jog" /\ main.inflight /\ sys.state = "Idle"
       THEN \E r \in prep_buffer(sys.control, Buffered, stepper) :
               /\ sys' = [sys EXCEPT !.state = "Jog", !.control = r.control]
               /\ plan' = r.plan
               /\ stepper' = Running(r.stepper)
               /\ drivers' = [drivers EXCEPT !.enabled = TRUE]
       ELSE plan' = Buffered /\ UNCHANGED <<sys, stepper, drivers>>
    /\ IF main.line = "probe"
       THEN probing' = TRUE /\ rt' = rt \cup {"CycleStart"} /\ Execute("probe")
       ELSE LineDone /\ UNCHANGED <<probing, rt>>
    /\ sdcard' = (sdcard /\ main.inflight)
    /\ UNCHANGED <<rtAlarm, spindle, inbox, soft_limit, door, history, budget>>

\* A motion out of the soft limits (limits_soft_check): a hold first, if running.
BeginSoftLimit ==
    /\ Executes("far") /\ sys.state = "Cycle"
    /\ soft_limit' = TRUE
    /\ rt' = rt \cup {"FeedHold"}
    /\ Execute("soft")
    /\ UNCHANGED <<Machine, rtAlarm, sdcard, inbox, probing, door, history, budget>>

AwaitSoftHold ==
    /\ Returned("soft") /\ sys.state # "Idle"
    /\ Execute("soft")
    /\ UNCHANGED <<Machine, rt, rtAlarm, sdcard, inbox>> /\ MainRest

\* At rest: a reset and a critical alarm, which ends in an abort.
RaiseSoftLimit ==
    /\ \/ Returned("soft") /\ sys.state = "Idle"
       \/ Executes("far") /\ ~Locked /\ sys.state # "Cycle"
    /\ soft_limit' = TRUE
    /\ mc_reset("SoftLimit")
    /\ Execute("last")
    /\ UNCHANGED <<sys, plan, probing, door, sdcard, inbox, budget>>

\* Lines that begin with protocol_buffer_synchronize, the end of a file, and
\* changes of the spindle among them.
BeginSync ==
    /\ Returned("line")
    /\ main.line \in {"spindle", "dwell", "pause", "probe", "eof"}
    /\ main.line = "eof" \/ ~Locked
    /\ IF sys.state = "CheckMode" /\ main.line # "eof" THEN LineDone /\ UNCHANGED rt
       ELSE rt' = Requested(plan) /\ Execute("sync")
    /\ UNCHANGED <<Machine, rtAlarm, sdcard, inbox>> /\ MainRest

Unsynchronized == plan # <<>> \/ sys.state = "Cycle"

AwaitSync ==
    /\ Returned("sync") /\ Unsynchronized
    /\ Execute("sync")
    /\ UNCHANGED <<Machine, rt, rtAlarm, sdcard, inbox>> /\ MainRest

Synchronized(line) == Returned("sync") /\ ~Unsynchronized /\ main.line = line

EndDwell ==
    /\ Synchronized("dwell")
    /\ Execute("last")
    /\ UNCHANGED <<Machine, rt, rtAlarm, sdcard, inbox>> /\ MainRest

SwitchSpindle ==
    /\ Synchronized("spindle")
    /\ spindle' = [spindle EXCEPT !.on = TRUE, !.modal = TRUE]
    /\ LineDone
    /\ UNCHANGED <<sys, plan, stepper, drivers, rt, rtAlarm, sdcard, inbox>> /\ MainRest

\* M0: a feed hold.
PauseProgram ==
    /\ Synchronized("pause")
    /\ rt' = rt \cup {"FeedHold"}
    /\ Execute("last")
    /\ UNCHANGED <<Machine, rtAlarm, sdcard, inbox>> /\ MainRest

EndFile ==
    /\ Synchronized("eof")
    /\ sdcard' = FALSE
    /\ LineDone
    /\ UNCHANGED <<Machine, rt, rtAlarm, inbox>> /\ MainRest

\* mc_probe_cycle: the probe may be in contact already, which is an alarm.
BeginProbe ==
    /\ Synchronized("probe")
    /\ \/ /\ rtAlarm' = "ProbeFailInitial"
          /\ Execute("last")
       \/ /\ main' = [main EXCEPT !.pc = "exec", !.within = "realtime",
                                  !.caller = "mc_line", !.inflight = TRUE]
          /\ UNCHANGED rtAlarm
    /\ history' = [history EXCEPT !.probed = TRUE]
    /\ UNCHANGED <<Machine, rt, sdcard, inbox, soft_limit, probing, door, budget>>

AwaitProbe ==
    /\ Returned("probe") /\ sys.state # "Idle"
    /\ Execute("probe")
    /\ UNCHANGED <<Machine, rt, rtAlarm, sdcard, inbox>> /\ MainRest

\* No contact is an alarm.  The rest of the motion is dropped, after one more pass.
EndProbe ==
    /\ Returned("probe") /\ sys.state = "Idle"
    /\ rtAlarm' = IF probing THEN "ProbeFailContact" ELSE rtAlarm
    /\ probing' = FALSE
    /\ Execute("probeEnd")
    /\ UNCHANGED <<Machine, rt, sdcard, inbox, soft_limit, door, history, budget>>

DropProbe ==
    /\ Returned("probeEnd")
    /\ stepper' = StoppedStepper
    /\ drivers' = protocol_disable_steppers(sys, rtAlarm)
    /\ plan' = <<>>
    /\ LineDone
    /\ UNCHANGED <<sys, spindle, rt, rtAlarm, sdcard, inbox>> /\ MainRest

Program ==
    \/ run_once \/ PollCharacter \/ PollNothing \/ EndIdle
    \/ \E line \in LineKinds \cup {"eof"} : PollLine(line)
    \/ RefuseLine \/ disable_alarm_lock \/ go_to_sleep \/ toggle_check_mode \/ runSDFile
    \/ BeginLine \/ AwaitRoom \/ EndLine \/ BeginSoftLimit \/ AwaitSoftHold \/ RaiseSoftLimit
    \/ BeginSync \/ AwaitSync \/ EndDwell \/ SwitchSpindle \/ PauseProgram \/ EndFile
    \/ BeginProbe \/ AwaitProbe \/ EndProbe \/ DropProbe

-----------------------------------------------------------------------------
(* The stepper interrupt, Stepper::pulse_func, and the outside world. *)

ExecuteSegments ==
    /\ stepper.timer /\ stepper.segs
    /\ stepper' = [stepper EXCEPT !.segs = FALSE]
    /\ UNCHANGED <<sys, rt, rtAlarm, main, plan, drivers, spindle, soft_limit, probing,
                   door, sdcard, inbox, history, budget>>

\* The segment buffer is empty: the interrupt turns itself off.
RunDry ==
    /\ stepper.timer /\ ~stepper.segs
    /\ stepper' = Stopped(stepper)
    /\ rt' = rt \cup {"CycleStop"}
    /\ UNCHANGED <<sys, rtAlarm, main, plan, drivers, spindle, soft_limit, probing, door,
                   sdcard, inbox, history, budget>>

\* The probe makes contact.
TripProbe ==
    /\ stepper.timer /\ stepper.segs /\ probing
    /\ probing' = FALSE
    /\ rt' = rt \cup {"MotionCancel"}
    /\ UNCHANGED <<sys, rtAlarm, main, plan, stepper, drivers, spindle, soft_limit, door,
                   sdcard, inbox, history, budget>>

Interrupt == ExecuteSegments \/ RunDry \/ TripProbe

Outside == UNCHANGED <<sys, main, plan, soft_limit, probing, sdcard>>
Event == budget.events > 0 /\ budget' = [budget EXCEPT !.events = @ - 1]

\* ControlPin::handleISR, for a pin that becomes active.
ActivatePin(flag) ==
    /\ flag \in Pins /\ Event
    /\ rt' = rt \cup {flag}
    /\ IF flag = "SafetyDoor" THEN ~door /\ door' = TRUE ELSE UNCHANGED door
    /\ history' = [history EXCEPT !.asked = @ \/ flag = "CycleStart"]
    /\ UNCHANGED <<rtAlarm, stepper, drivers, spindle, inbox>> /\ Outside

CloseDoor ==
    /\ door
    /\ door' = FALSE
    /\ UNCHANGED <<rt, rtAlarm, stepper, drivers, spindle, inbox, history, budget>> /\ Outside

\* LimitPin::handleISR, for a switch that becomes active.
HitLimit ==
    /\ HardLimits /\ Event
    /\ sys.state \notin {"Alarm", "ConfigAlarm", "Homing"} /\ rtAlarm = "None"
    /\ mc_reset("HardLimit")
    /\ UNCHANGED <<door, inbox>> /\ Outside

SendCharacter(c) ==
    /\ c \in Characters /\ Event
    /\ inbox = "none" /\ inbox' = c
    /\ UNCHANGED <<rt, rtAlarm, stepper, drivers, spindle, door, history>> /\ Outside

Environment ==
    \/ \E flag \in PinFlags : ActivatePin(flag)
    \/ CloseDoor \/ HitLimit
    \/ \E c \in Cmds : SendCharacter(c)

Init ==
    /\ sys \in [state : InitialStates, suspend : {{}}, control : {{}}]
    /\ door \in (IF "SafetyDoor" \in Pins THEN BOOLEAN ELSE {FALSE})
    /\ rtAlarm = IF door THEN "ControlPin" ELSE "None"
    /\ rt = {} /\ plan = <<>> /\ stepper = StoppedStepper
    /\ main = [pc |-> "init", looked |-> 0, within |-> "realtime", caller |-> "boot",
               line |-> "none", inflight |-> FALSE]
    /\ drivers = [enabled |-> FALSE, idleEnd |-> FALSE]
    /\ spindle = [on |-> FALSE, modal |-> FALSE, ovr |-> {}]
    /\ soft_limit = FALSE /\ probing = FALSE /\ sdcard = FALSE /\ inbox = "none"
    /\ history = [asked |-> FALSE, lost |-> FALSE, probed |-> FALSE, midway |-> FALSE]
    /\ budget = [lines |-> MaxLines, events |-> MaxEvents]

Next == Executor \/ Suspend \/ Program \/ Interrupt \/ Environment

Spec == Init /\ [][Next]_vars
=============================================================================
