----------------------------- MODULE VFDSpindle -----------------------------
(***************************************************************************)
(* A spindle behind a variable frequency drive on an RS485 line            *)
(* (Spindles/VFDSpindle.cpp with the drives of HuanyangSpindle, H2ASpindle *)
(* and YL620Spindle): the main program's setState, the queue of commands   *)
(* it fills, the stepper interrupt, which sends the speed with every       *)
(* segment and so fills it up in motion, and the task that sends commands, *)
(* repeats them, polls the drive and resets the machine when a critical    *)
(* command gets no answer.                                                 *)
(*                                                                         *)
(* Main program and task run on different cores.  The line loses requests  *)
(* and answers at any time.  RPM are counted in tens.  The speed map is    *)
(* configured; its offsets and the tolerance are uninitialised until the   *)
(* drive has answered the initialization sequence.  The speed override is  *)
(* 100 percent: setState in a motion, on a new override, is left out.      *)
(***************************************************************************)
EXTENDS SpeedMap, SequencesExt

CONSTANTS
    Drives,                \* "Huanyang", "H2A", "YL620"
    Requests,              \* what the program asks of each: pairs of a mode and a speed
    MaxRpm,                \* the configured map: 0% at 0, 100% at MaxRpm
    Uninitialised,         \* what its offsets hold until the drive has answered
    VFD_RS485_QUEUE_SIZE,  \* (10)
    MAX_RETRIES,           \* (5)
    SyncLimit,             \* polls of an unchanged speed before giving up (20)
    MaxCalls,              \* bounds, per drive, on the program's spindle changes,
    MaxMotions,            \*   on motions
    MaxResets              \*   and on the user's resets

ASSUME VFDAssumption ==
    /\ Drives \subseteq {"Huanyang", "H2A", "YL620"}
    /\ MaxRpm \in Nat \ {0} /\ Uninitialised \in Nat
    /\ VFD_RS485_QUEUE_SIZE \in Nat \ {0}
    /\ MAX_RETRIES \in Nat \ {0}
    /\ SyncLimit \in Nat \ {0}
    /\ \A k \in Drives : /\ Requests[k] \subseteq {"Disable", "Cw", "Ccw"} \X (0 .. MaxRpm)
                       /\ {MaxCalls[k], MaxMotions[k], MaxResets[k]} \subseteq Nat

VARIABLES
    kind,             \* which drive it is
    known,            \* the initialization sequence has set up the map once
    main,             \* where the main program is in setState, with its locals
    programmed,       \* the speed that blocks of motion carry, 0 with the spindle off
    cycle,            \* motion of the program is executed
    alarm,            \* sys.state is Alarm
    abort,            \* sys.abort
    rtReset, rtAlarm,
    vfd_cmd_queue,
    currentState,     \* _current_state
    currentDevSpeed,  \* _current_dev_speed
    syncDevSpeed,     \* _sync_dev_speed
    syncing,          \* _syncing
    task,             \* the task: its place and the command it is at
    pollidx, unresponsive,
    drive,            \* the drive: mode and speed it is set to, speed it turns at
    asked,            \* history: mode and device speed last asked for, and whether the
                      \*   spindle was Settled by then
    lost,             \* history: what of it was dropped, discarded or given up
    failed,           \* history: a critical command was given up, no alarm yet
    passed,           \* the task has got on since the main program's last look
    calls

config == <<kind, known>>
realtime == <<cycle, alarm, abort, rtReset, rtAlarm>>
spindle == <<currentState, currentDevSpeed, syncDevSpeed, syncing>>
polling == <<pollidx, unresponsive>>
vars == <<config, programmed, main, realtime, vfd_cmd_queue, spindle, task, polling, drive, asked, lost, failed, passed, calls>>

None == -1   \* UINT32_MAX as a speed: no request has it

SetMode(m, critical) == [action |-> "mode", arg |-> m, critical |-> critical]
SetSpeed(s) == [action |-> "speed", arg |-> s, critical |-> s = 0]
Request(what) == [action |-> what, arg |-> 0, critical |-> FALSE]
NoCommand == Request("none")

-----------------------------------------------------------------------------
(* The drives: requests of their initialization sequence, the largest value of    *)
(* their speed register or, for the H2A, what setupSpeeds is told, the tolerance   *)
(* computed from it, and whether they are asked for their speed at all times.     *)

Huanyang == [steps |-> 3, range |-> 200, slop |-> Max({200 \div 40, 1}), polls |-> TRUE]
H2A == [steps |-> 1, range |-> 1, slop |-> 30, polls |-> FALSE]
YL620 == [steps |-> 2, range |-> 20, slop |-> Max({20 \div 40, 1}), polls |-> FALSE]
Drive == [Huanyang |-> Huanyang, H2A |-> H2A, YL620 |-> YL620][kind]

\* What a call of setState takes from the map: speed of the device, tolerance.
AnyTolerance == 1000000
Targets(speed) ==
    IF known
    THEN {[dev |-> Map(setupSpeeds(linearSpeeds(MaxRpm, 100), Drive.range), speed),
           slop |-> Drive.slop]}
    ELSE [dev : {Uninitialised}, slop : {0, AnyTolerance}]   \* reached never or at once

-----------------------------------------------------------------------------
(* The queue: xQueueSend without waiting drops what does not fit. *)

Full(q) == Len(q) >= VFD_RS485_QUEUE_SIZE
Send(q, a) == IF Full(q) THEN q ELSE Append(q, a)

-----------------------------------------------------------------------------
(* setState and its callers in the main program. *)

Within(speed, t) == \/ t.slop = AnyTolerance
                    \/ speed # None /\ speed \in (t.dev - t.slop) .. (t.dev + t.slop)

\* Begins to wait for the speed.
AwaitSpeed(m) ==
    /\ main' = [m EXCEPT !.at = "sync", !.unchanged = 0, !.last = syncDevSpeed]
    /\ syncing' = TRUE

Dropped(what) == IF Full(vfd_cmd_queue) THEN {what} ELSE {}

\* The drive is known, has got all that was asked for before, and is in the mode that
\* setState compares with.
Settled == known /\ vfd_cmd_queue = <<>> /\ task.at = "top" /\ currentState = drive.mode

Stop == [mode |-> "Disable", dev |-> 0, settled |-> FALSE]
Idle == [at |-> "idle", mode |-> "Disable", target |-> [dev |-> 0, slop |-> 0], unchanged |-> 0, last |-> 0]

\* setState up to its first command: a change of mode goes before the speed, a
\* speed alone goes when it is not that of the last command.
Call(mode, t) ==
    LET m == [main EXCEPT !.mode = mode, !.target = t]
        changes == currentDevSpeed # t.dev
    IN  /\ asked' = IF mode = "Disable" THEN Stop ELSE [mode |-> mode, dev |-> t.dev, settled |-> Settled]
        /\ IF currentState # mode
           THEN /\ vfd_cmd_queue' = Send(vfd_cmd_queue, SetMode(mode, mode # "Disable"))
                /\ lost' = (lost \ {"mode", "speed"}) \cup Dropped("mode")
                /\ main' = [m EXCEPT !.at = "setSpeed"]
                /\ UNCHANGED syncing
           ELSE /\ vfd_cmd_queue' = IF changes THEN Send(vfd_cmd_queue, SetSpeed(t.dev)) ELSE vfd_cmd_queue
                /\ lost' = (lost \ {"speed"}) \cup (IF changes THEN Dropped("speed") ELSE {})
                /\ AwaitSpeed(m)

\* M3, M4, M5 or S of the program, motion having ended.
SetState ==
    /\ main.at = "idle" /\ ~cycle /\ ~alarm /\ ~abort /\ ~rtReset /\ rtAlarm = "None"
    /\ calls.program < MaxCalls[kind]
    /\ calls' = [calls EXCEPT !.program = @ + 1]
    /\ \E r \in Requests[kind] :
          /\ \E t \in Targets(r[2]) : Call(r[1], t)
          /\ programmed' = IF r[1] = "Disable" THEN 0 ELSE r[2]
    /\ UNCHANGED <<config, realtime, currentState, currentDevSpeed, syncDevSpeed, task, polling, drive, failed, passed>>

SetStateSpeed ==
    /\ main.at = "setSpeed"
    /\ vfd_cmd_queue' = Send(vfd_cmd_queue, SetSpeed(main.target.dev))
    /\ lost' = lost \cup Dropped("speed")
    /\ AwaitSpeed(main)
    /\ UNCHANGED <<config, programmed, realtime, currentState, currentDevSpeed, syncDevSpeed, task, polling, drive,
                   asked, failed, passed, calls>>

\* sys.state is Cycle: it is no longer when an alarm comes in motion.
InCycle == cycle /\ ~alarm

\* mc_reset: the first of its callers stops the spindle.  That nested setState
\* waits for speed 0 in a dwell, which by rtReset sets sys.abort and ends at once.
\* The steppers are stopped after the spindle: until then segments are loaded.
Stopping == ~rtReset /\ ~abort
StopFails(t) == Stopping /\ ~Within(syncDevSpeed, t)
StopCommands(t) ==
    IF ~Stopping THEN vfd_cmd_queue
    ELSE IF currentState # "Disable"
    THEN Send(Send(vfd_cmd_queue, SetMode("Disable", InCycle)), SetSpeed(t.dev))
    ELSE IF currentDevSpeed # t.dev THEN Send(vfd_cmd_queue, SetSpeed(t.dev)) ELSE vfd_cmd_queue
McReset(before, t) ==
    /\ rtReset' = TRUE
    /\ vfd_cmd_queue' = StopCommands(t)
    /\ asked' = IF Stopping THEN Stop ELSE asked
    /\ lost' = IF Stopping /\ currentState # "Disable" THEN (before \ {"mode"}) \cup Dropped("mode") ELSE before
    /\ abort' = (abort \/ StopFails(t))
    /\ alarm' = (alarm \/ (StopFails(t) /\ rtAlarm # "None"))
    /\ UNCHANGED cycle

\* What rtAlarm is after mc_reset: a stopped motion has lost its position.
ResetAlarm(t) == IF InCycle /\ ~rtReset THEN "AbortCycle" ELSE IF StopFails(t) THEN "SpindleControl" ELSE rtAlarm

AtSpeed == Within(syncDevSpeed, main.target)

NotReached == main.unchanged = SyncLimit

\* The wait ends: with the speed, or with a reset and an alarm.
SetStateEnd ==
    /\ main.at = "sync"
    /\ AtSpeed \/ main.unchanged = SyncLimit
    /\ IF NotReached
       THEN (\E t \in Targets(0) : McReset(lost, t)) /\ rtAlarm' = "SpindleControl"
       ELSE UNCHANGED <<realtime, vfd_cmd_queue, asked, lost>>
    /\ main' = Idle
    /\ syncing' = FALSE
    /\ currentState' = main.mode
    /\ UNCHANGED <<config, programmed, currentDevSpeed, syncDevSpeed, task, polling, drive, failed, passed, calls>>

SetStateWait ==
    /\ main.at = "sync"
    /\ ~AtSpeed /\ main.unchanged < SyncLimit
    /\ main' = [main EXCEPT !.at = "dwell"]
    /\ passed' = FALSE
    /\ UNCHANGED <<config, programmed, realtime, vfd_cmd_queue, spindle, task, polling, drive, asked, lost, failed, calls>>

Unchanged(n, same) == IF same THEN n + 1 ELSE 0

Ended == abort \/ rtReset

\* mc_dwell: it serves resets and alarms, and takes as long as the task needs to
\* get on by one request.
Dwell ==
    /\ main.at = "dwell"
    /\ alarm' = (alarm \/ rtAlarm # "None")
    /\ rtAlarm' = "None"
    /\ failed' = (failed /\ ~alarm')
    /\ passed' = FALSE
    /\ IF Ended
       THEN /\ abort' = TRUE
            /\ main' = [main EXCEPT !.at = "sync", !.unchanged = SyncLimit, !.last = syncDevSpeed]
       ELSE /\ passed
            /\ main' = [main EXCEPT !.at = "sync", !.last = syncDevSpeed,
                                    !.unchanged = Unchanged(@, syncDevSpeed = main.last)]
            /\ UNCHANGED abort
    /\ UNCHANGED <<config, programmed, cycle, rtReset, vfd_cmd_queue, spindle, task, polling, drive, asked, lost, calls>>

\* Between lines: an alarm is latched, then a reset restarts the main program,
\* which stops the spindle.
ExecRealtime ==
    /\ main.at = "idle"
    /\ rtAlarm # "None" \/ rtReset \/ abort
    /\ alarm' = (alarm \/ rtAlarm # "None")
    /\ rtAlarm' = "None"
    /\ failed' = (failed /\ ~alarm')
    /\ IF rtReset \/ abort
       THEN /\ rtReset' = FALSE /\ abort' = FALSE /\ cycle' = FALSE /\ programmed' = 0
            /\ \E t \in Targets(0) : Call("Disable", t)
       ELSE UNCHANGED <<rtReset, abort, cycle, programmed, main, syncing, vfd_cmd_queue, asked, lost>>
    /\ UNCHANGED <<config, currentState, currentDevSpeed, syncDevSpeed, task, polling, drive, passed, calls>>

\* Ctrl-X, read by the main program between lines or in a dwell.
UserReset ==
    /\ main.at \in {"idle", "dwell"} /\ ~rtReset /\ ~abort
    /\ calls.resets < MaxResets[kind]
    /\ calls' = [calls EXCEPT !.resets = @ + 1]
    /\ \E t \in Targets(0) : McReset(lost, t) /\ rtAlarm' = ResetAlarm(t)
    /\ currentState' = "Disable" /\ syncing' = FALSE
    /\ UNCHANGED <<config, programmed, main, currentDevSpeed, syncDevSpeed, task, polling, drive, failed, passed>>

\* $X.
Unlock ==
    /\ main.at = "idle" /\ alarm /\ ~rtReset /\ rtAlarm = "None"
    /\ calls.program < MaxCalls[kind]
    /\ alarm' = FALSE
    /\ UNCHANGED <<config, programmed, main, cycle, abort, rtReset, rtAlarm, vfd_cmd_queue, spindle, task, polling, drive,
                   asked, lost, failed, passed, calls>>

\* Motion of the program starts and ends.
CycleStart ==
    /\ main.at = "idle" /\ ~cycle /\ ~alarm /\ ~rtReset /\ rtAlarm = "None"
    /\ calls.motions < MaxMotions[kind]
    /\ calls' = [calls EXCEPT !.motions = @ + 1]
    /\ cycle' = TRUE
    /\ UNCHANGED <<config, programmed, main, alarm, abort, rtReset, rtAlarm, vfd_cmd_queue, spindle, task, polling, drive,
                   asked, lost, failed, passed>>
CycleEnd ==
    /\ cycle /\ cycle' = FALSE
    /\ UNCHANGED <<config, programmed, main, alarm, abort, rtReset, rtAlarm, vfd_cmd_queue, spindle, task, polling, drive,
                   asked, lost, failed, passed, calls>>

\* The interrupt loads a segment and sends its speed on, whether it has changed or not.
\* A motion is queued after the last change of the spindle and ended before the next.
LoadSegment ==
    /\ cycle
    /\ \E t \in Targets(programmed) : vfd_cmd_queue' = Send(vfd_cmd_queue, SetSpeed(t.dev))
    /\ lost' = IF Full(vfd_cmd_queue) THEN lost ELSE lost \ {"speed"}
    /\ UNCHANGED <<config, programmed, main, realtime, spindle, task, polling, drive, asked, failed, passed, calls>>

-----------------------------------------------------------------------------
(* vfd_cmd_task. *)

Resting == [at |-> "top", cmd |-> NoCommand, retry |-> 0]
Attempt(c) == task' = [at |-> "send", cmd |-> c, retry |-> 0]
Passes == passed' = (main.at = "dwell")
TaskKeeps == UNCHANGED <<config, programmed, main, realtime, drive, asked, failed, calls>>

Initializing == pollidx < 0 /\ -pollidx <= Drive.steps

\* The initialization sequence goes before the queue.
TaskInit ==
    /\ task.at = "top" /\ Initializing
    /\ Attempt(Request("init"))
    /\ Passes
    /\ UNCHANGED <<vfd_cmd_queue, spindle, polling, lost>> /\ TaskKeeps

\* prepareSetSpeedCommand: a speed that is already set is not sent again.
TaskSpeed ==
    /\ task.at = "top" /\ ~Initializing
    /\ vfd_cmd_queue # <<>> /\ Head(vfd_cmd_queue).action = "speed"
    /\ vfd_cmd_queue' = Tail(vfd_cmd_queue)
    /\ LET a == Head(vfd_cmd_queue)
       IN  IF a.arg = currentDevSpeed
           THEN UNCHANGED <<task, spindle>>
           ELSE /\ currentDevSpeed' = a.arg
                /\ syncDevSpeed' = None
                /\ Attempt(a)
                /\ UNCHANGED <<currentState, syncing>>
    /\ pollidx' = 1
    /\ Passes
    /\ UNCHANGED <<unresponsive, lost>> /\ TaskKeeps

\* Mutant: a mode that seems to be set is not sent again, like a speed.
SendsChanged(m) == m # currentState

Sends(m) == TRUE

Discarded == {a.action : a \in ToSet(Tail(vfd_cmd_queue))} \ (IF asked.mode = "Disable" THEN {"mode"} ELSE {})

\* prepareSetModeCommand: "Disable" discards what is queued behind it.
TaskMode ==
    /\ task.at = "top" /\ ~Initializing
    /\ vfd_cmd_queue # <<>> /\ Head(vfd_cmd_queue).action = "mode"
    /\ LET a == Head(vfd_cmd_queue)
       IN  /\ vfd_cmd_queue' = IF a.arg = "Disable" THEN <<>> ELSE Tail(vfd_cmd_queue)
           /\ lost' = lost \cup (IF a.arg = "Disable" THEN Discarded ELSE {})
           /\ currentState' = a.arg
           /\ IF Sends(a.arg) THEN Attempt(a) ELSE UNCHANGED task
    /\ pollidx' = 1
    /\ Passes
    /\ UNCHANGED <<currentDevSpeed, syncDevSpeed, syncing, unresponsive>> /\ TaskKeeps

\* Nothing is queued: while the main program waits for it, and with a drive whose
\* safety polling is on always, the drive is asked for its speed.  The cycle of polls
\* is set back to its first on each pass, so that no other is reached.
TaskPoll ==
    /\ task.at = "top" /\ ~Initializing
    /\ vfd_cmd_queue = <<>>
    /\ IF syncing \/ Drive.polls THEN Attempt(Request("poll")) ELSE UNCHANGED task
    /\ pollidx' = IF ~syncing /\ Drive.polls THEN 2 ELSE 1
    /\ Passes
    /\ UNCHANGED <<vfd_cmd_queue, spindle, unresponsive, lost>> /\ TaskKeeps

\* The drive obeys a request that reaches it.
Obeyed(c) ==
    CASE c.action = "mode" -> [drive EXCEPT !.mode = c.arg]
      [] c.action = "speed" -> [drive EXCEPT !.speed = c.arg]
      [] OTHER -> drive

\* The speed the drive goes to; it is there, or not yet, when it is asked.
Goal == IF drive.mode = "Disable" THEN 0 ELSE drive.speed

\* An attempt with a valid answer, which is parsed.
TaskAnswered ==
    /\ task.at = "send"
    /\ IF task.cmd.action = "poll"
       THEN \E actual \in {drive.actual, Goal} : drive' = [drive EXCEPT !.actual = actual] /\ syncDevSpeed' = actual
       ELSE drive' = Obeyed(task.cmd) /\ UNCHANGED syncDevSpeed
    /\ task' = Resting
    /\ unresponsive' = FALSE
    /\ pollidx' = IF task.cmd.action = "init" THEN pollidx - 1 ELSE pollidx
    /\ known' = (known \/ (task.cmd.action = "init" /\ -pollidx = Drive.steps))
    /\ lost' = IF task.cmd.action = "speed" THEN lost \ {"line"} ELSE lost
    /\ Passes
    /\ UNCHANGED <<kind, programmed, main, realtime, vfd_cmd_queue, currentState, currentDevSpeed, syncing,
                   asked, failed, calls>>

\* Mutant: the failure of a critical command is only logged.
CriticalNever == FALSE

Critical == task.cmd.critical

GivesUp == task.retry + 1 = MAX_RETRIES

\* An attempt whose request or answer is lost or damaged.  A mode given up has
\* not reached the drive, nor has a speed, which is then never sent again.
TaskUnanswered ==
    LET missing == lost \cup (CASE task.cmd.action = "mode" -> {"mode"}
                                 [] task.cmd.action = "speed" -> {"line"} [] OTHER -> {})
    IN
    /\ task.at = "send"
    /\ drive' \in {drive, Obeyed(task.cmd)}
    /\ Passes
    /\ \/ /\ ~GivesUp
          /\ task' = [task EXCEPT !.retry = @ + 1]
          /\ UNCHANGED <<realtime, polling, vfd_cmd_queue, currentState, syncing, asked, lost>>
       \/ /\ GivesUp /\ ~Critical
          /\ task' = Resting
          /\ lost' = missing
          /\ UNCHANGED <<realtime, vfd_cmd_queue, currentState, syncing, asked>>
       \/ /\ GivesUp /\ Critical
          /\ task' = [task EXCEPT !.at = "alarm"]
          /\ \E t \in Targets(0) : McReset(missing, t) /\ rtAlarm' = ResetAlarm(t)
          /\ currentState' = IF Stopping THEN "Disable" ELSE currentState
          /\ syncing' = IF Stopping THEN FALSE ELSE syncing
    /\ failed' = ((failed \/ (GivesUp /\ task.cmd.critical)) /\ ~alarm')
    /\ GivesUp => /\ unresponsive' = TRUE
                  /\ pollidx' = IF unresponsive THEN pollidx ELSE -1
    /\ UNCHANGED <<config, programmed, main, currentDevSpeed, syncDevSpeed, calls>>

\* The alarm is set after mc_reset has returned.
TaskAlarm ==
    /\ task.at = "alarm"
    /\ rtAlarm' = "SpindleControl"
    /\ task' = Resting
    /\ Passes
    /\ UNCHANGED <<config, programmed, main, cycle, alarm, abort, rtReset, vfd_cmd_queue, spindle, polling, drive, asked, lost, failed, calls>>

-----------------------------------------------------------------------------

\* After init(), which queues a "Disable", before run_once, which stops the spindle
\* like a reset does, and with a drive that was left running.
Init ==
    /\ kind \in Drives /\ known = FALSE
    /\ main = Idle /\ programmed = 0
    /\ cycle = FALSE /\ alarm = FALSE /\ abort = TRUE /\ rtReset = FALSE /\ rtAlarm = "None"
    /\ vfd_cmd_queue = <<SetMode("Disable", TRUE)>>
    /\ currentState = "Disable" /\ currentDevSpeed = None
    /\ syncDevSpeed = 0 /\ syncing = FALSE
    /\ task = Resting
    /\ pollidx = -1 /\ unresponsive = FALSE
    /\ drive = [mode |-> "Cw", speed |-> 0, actual |-> 0]
    /\ asked = Stop /\ lost = {} /\ failed = FALSE
    /\ passed = FALSE
    /\ calls = [program |-> 0, motions |-> 0, resets |-> 0]

MainNext == SetState \/ SetStateSpeed \/ SetStateEnd \/ SetStateWait \/ Dwell \/ ExecRealtime
            \/ UserReset \/ Unlock \/ CycleStart \/ CycleEnd
TaskNext == TaskInit \/ TaskSpeed \/ TaskMode \/ TaskPoll \/ TaskAnswered \/ TaskUnanswered \/ TaskAlarm

Next == MainNext \/ LoadSegment \/ TaskNext

\* The two programs run on; what the user and the program ask for is up to them.
Spec ==
    /\ Init /\ [][Next]_vars
    /\ WF_vars(SetStateSpeed \/ SetStateEnd \/ SetStateWait \/ ExecRealtime)
    /\ WF_vars(Dwell)
    /\ WF_vars(TaskNext)
=============================================================================
