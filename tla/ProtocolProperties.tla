------------------------- MODULE ProtocolProperties -------------------------
(***************************************************************************)
(* What the real-time executor has to guarantee.                           *)
(***************************************************************************)
EXTENDS Protocol

\* A machine that is idle, or in check mode, does not step: whatever sequence of
\* holds, cancels and restarts led there, the interrupt is off.
NoMotionAtRest == Regular /\ sys.state \in {"Idle", "CheckMode"} => ~stepper.timer

\* The program only cuts with the spindle running, if it asked for the spindle: all
\* stops by doors, sleep and overrides are undone before motion resumes.
SpindleRunning ==
    Regular /\ sys.state = "Cycle" /\ stepper.timer /\ spindle.modal /\ rtAlarm = "None"
        => spindle.on

\* A motion that was cut off leaves the machine in alarm, since its position is lost,
\* and nothing of the program or the job that was running is left to execute.
AlarmWhenLost ==
    "Reset" \notin Pins /\ history.lost /\ main.pc = "poll"
        => (sys.state = "Alarm" /\ plan = <<>> /\ ~sdcard) \/ rtAlarm # "None"

\* A machine that was told to stop does not start again unless the user asked
\* for it after that.
NoUnaskedResume ==
    [][ /\ sys.state \in {"Hold", "SafetyDoor", "Sleep"}
        /\ sys'.state \in {"Idle", "Cycle", "Jog"}
        /\ main.pc # "init" /\ Regular
        => history.asked ]_vars

\* No cycle starts with an open door, unless the event is about to be handled.
ClosedDoorAtStart ==
    [][ Regular /\ sys.state # "Cycle" /\ sys'.state = "Cycle" /\ door => "SafetyDoor" \in rt ]_vars

-----------------------------------------------------------------------------
(* Liveness.  The main program always goes on, up to reading lines, and the     *)
(* interrupt serves the segments.  Every pass with room prepares segments, and  *)
(* a motion consists of finitely many: its end is reached.                      *)

Mandatory ==
    \/ Executor \/ Suspend \/ run_once \/ PollCharacter \/ PollNothing \/ EndIdle
    \/ RefuseLine \/ disable_alarm_lock \/ go_to_sleep \/ toggle_check_mode \/ runSDFile
    \/ BeginLine \/ AwaitRoom \/ EndLine \/ BeginSoftLimit \/ AwaitSoftHold \/ RaiseSoftLimit
    \/ BeginSync \/ AwaitSync \/ EndDwell \/ SwitchSpindle \/ PauseProgram \/ EndFile
    \/ BeginProbe \/ AwaitProbe \/ EndProbe \/ DropProbe
    \/ (sdcard /\ PollLine("eof"))

EndMotion == EndPass /\ (plan' # plan \/ "endMotion" \in sys'.control \ sys.control)

Fairness == WF_vars(Mandatory) /\ WF_vars(Interrupt) /\ SF_vars(EndMotion)

FairSpec == Spec /\ Fairness

\* A stop that was asked for completes, whatever else is requested meanwhile: a
\* machine in Hold comes to rest and becomes resumable, a canceled motion ends.
StopCompletes ==
    /\ sys.state = "Hold" ~> sys.state # "Hold" \/ "holdComplete" \in sys.suspend
    /\ sys.suspend \cap {"jogCancel", "motionCancel"} # {}
          ~> sys.suspend \cap {"jogCancel", "motionCancel"} = {}

\* Queued motions are executed, also when the segment buffer runs dry on the way,
\* unless the machine is stopped or a line waits for the end of the motion.
QueuedMotionRuns ==
    plan # <<>> ~> \/ plan = <<>>
                   \/ sys.state \in {"Hold", "SafetyDoor", "Sleep", "Alarm"}
                   \/ main.caller \in {"sync", "probe", "soft"}

\* An open door ends in a machine that has retracted and stopped its spindle, save
\* where a probing motion was ended with a start pending, which drops the hold.
DoorRetracts ==
    sys.state = "SafetyDoor" /\ ~history.probed ~> sys.state # "SafetyDoor" \/ ~spindle.on

=============================================================================
