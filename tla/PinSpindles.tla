---------------------------- MODULE PinSpindles ----------------------------
(***************************************************************************)
(* The spindles that hang on pins (Spindles/: OnOff and relay, PWM, 10V,   *)
(* BESC, DAC, laser, none): the map from programmed speeds to the device's *)
(* (Spindle.cpp), setState of the main program, which goes pin by pin, and *)
(* setSpeedfromISR of the stepper's interrupt, which falls anywhere        *)
(* between.                                                                *)
(*                                                                         *)
(* Around them: the stages of a G-code line that reach a spindle, the      *)
(* generator's choice of each segment's output, speed overrides, feed      *)
(* holds with the stop of the spindle, tool changes and resets.  A block   *)
(* is two segments; the generator keeps ahead of the interrupt except      *)
(* while spindleDelay blocks the main program.                             *)
(***************************************************************************)
EXTENDS SpeedMap

CONSTANTS
    Machines,     \* configurations: each the sequence of its spindles
    Lines,        \* lines of the program
    Overrides,    \* spindle speed overrides in percent
    Rates,        \* actual over programmed rate inside a motion, in percent
    PlannerBlocks, RingSize,
    MaxLines, MaxEvents

\* What the constants are: assumed where the module is instantiated.
PinSpindlesAssumption ==
    /\ Overrides \subseteq Nat /\ Rates \subseteq Nat
    /\ {PlannerBlocks, RingSize} \subseteq Nat \ {0}
    /\ {MaxLines, MaxEvents} \subseteq Nat

VARIABLES
    spindles,   \* config->_spindles
    spindle,    \* index of the one in use
    out,        \* the pins of each: duty, its cached copy, enable, dir, fwd, rev
    sys,        \* state, speed (spindle_speed), ovr, update, reset, abort
    gc,         \* gc_state: mode, s, linear (modal motion is G1..G3)
    hold,       \* suspend: "no", "stopping", "complete"; jogs are "jogCancel"
    sovr,       \* spindle_stop_ovr
    restore,    \* restore_spindle, restore_spindle_speed of the suspend loop
    rtCycleStart,
    plan,       \* queued blocks
    prep,       \* the block the generator is at, its segments left, its output
    ring,       \* prepared segments
    isr,        \* running, adjusted (of exec_block), stopped (rtCycleStop)
    main,       \* place of the main program and its line
    call,       \* the call of setState in progress
    disturbed,  \* history: "override" or "tool": met the machine in motion;
                \*   "untold": the spindle was changed while the program had it on
    budget

vars == <<spindles, spindle, out, sys, gc, hold, sovr, restore, rtCycleStart,
          plan, prep, ring, isr, main, call, disturbed, budget>>

motion == <<plan, prep, ring, isr>>

-----------------------------------------------------------------------------
(* The map of speeds. *)

\* The device's range, and the map each kind of spindle has by default.
MaxOf(kind) == CASE kind = "OnOff" -> 1 [] OTHER -> 8
DefaultMap(kind) ==
    CASE kind = "OnOff" -> linearSpeeds(1, 100)
      [] kind \in {"10V", "BESC"} -> shelfSpeeds(100, 200)
      [] kind = "Null" -> <<Entry(0, 0)>>
      [] OTHER -> linearSpeeds(200, 100)

Entries(s) == setupSpeeds(IF s.map = <<>> THEN DefaultMap(s.kind) ELSE s.map, MaxOf(s.kind))

offSpeed(s) == Entries(s)[1].offset

\* What ledcSetDuty gets: the pulse of a BESC is between its shortest and longest.
MinPulse == 2
PulseSpan == 4
Duty(s, dev) == IF s.kind = "BESC" THEN MinPulse + (dev * PulseSpan) \div MaxOf("BESC") ELSE dev

isRateAdjusted(s) == s.kind = "Laser"
isReversable(s) == s.kind = "10V" \/ (s.dir /\ s.kind \notin {"Laser", "Null"})
Pulsed(s) == s.kind \in {"PWM", "10V", "BESC", "Laser"}

Spindle == spindles[spindle]

-----------------------------------------------------------------------------
(* The pins. *)

\* OnOff::set_enable, which PWM::setState calls for a 10V spindle too, for it is
\* not virtual.
Enabled(s, on) == on /\ ~(s.disableWithS0 /\ sys.speed = 0)
SetEnable(o, s, on) == [o EXCEPT !.enable = Enabled(s, on)]

\* _10v::set_enable, which only its setSpeedfromISR calls.
SetEnable10v(o, s, on) ==
    [o EXCEPT !.enable = Enabled(s, on), !.dir = @ /\ Enabled(s, on),
              !.fwd = @ /\ Enabled(s, on), !.rev = @ /\ Enabled(s, on)]

SetDirection(o, s, cw) ==
    [o EXCEPT !.dir = cw, !.fwd = s.kind = "10V" /\ cw, !.rev = s.kind = "10V" /\ ~cw]

\* set_output in one go: an unchanged duty isn't written again.
SetOutput(o, s, dev) ==
    IF ~Pulsed(s) THEN [o EXCEPT !.duty = dev]
    ELSE IF dev = o.cache THEN o
    ELSE [o EXCEPT !.cache = dev, !.duty = Duty(s, dev)]

setSpeedfromISR(o, s, dev) ==
    CASE s.kind = "Null" -> o
      [] s.kind = "OnOff" -> SetOutput(o, s, IF dev # 0 THEN 1 ELSE 0)
      [] s.kind = "DAC" -> SetOutput(o, s, dev)
      [] s.kind = "10V" -> SetOutput(SetEnable10v(o, s, gc.mode # "Disable"), s, dev)
      [] OTHER -> SetOutput(SetEnable(o, s, gc.mode # "Disable"), s, dev)

-----------------------------------------------------------------------------
(* setState, one access to what it shares with the interrupt at a time. *)

NoCall == [at |-> "none", mode |-> "Disable", s |-> 0, dev |-> 0, then |-> "none"]

SetState(mode, s, then) ==
    call' = [at |-> "map", mode |-> mode, s |-> s, dev |-> 0, then |-> then]

stop(then) == SetState("Disable", 0, then)

\* The generator without a block: ended is step_control.endMotion, fresh the wish to
\* compute the spindle's output anew (updateSpindleSpeed of a new block).
NoPrep == [left |-> 0, adjusted |-> FALSE, s |-> 0, ended |-> FALSE, fresh |-> FALSE]

\* The words of a line: kind is "keep", "motion" (G0 or G1 with or without axes),
\* "jog" or "end" (M2); s is -1 and mode "Keep" where the line has no such word.
NoLine == [kind |-> "keep", linear |-> FALSE, axis |-> FALSE, s |-> 0, mode |-> "Keep",
           tool |-> -1, m6 |-> FALSE, stage |-> "none"]

Moving == isr.running \/ ring # <<>>

\* What happens where a call returns.
Return(then) == call' = [NoCall EXCEPT !.at = "return", !.then = then]

\* mapSpeed, and the direction.  An abort blocks all but the spindle that is none.
MapSpeed ==
    /\ call.at = "map"
    /\ IF sys.abort /\ Spindle.kind # "Null"
       THEN Return(call.then) /\ UNCHANGED <<out, sys>>
       ELSE LET speed == IF Spindle.kind = "Null" THEN call.s ELSE (call.s * sys.ovr) \div 100
                dev == IF \/ call.mode = "Disable" /\ Spindle.zeroWithDisable
                          \/ call.mode = "Ccw" /\ isRateAdjusted(Spindle)
                       THEN offSpeed(Spindle) ELSE Map(Entries(Spindle), speed)
            IN  /\ sys' = [sys EXCEPT !.speed = speed]
                /\ IF Spindle.kind = "Null" THEN Return(call.then) /\ UNCHANGED out
                   ELSE /\ call' = [call EXCEPT !.at = "output", !.dev = dev]
                        /\ out' = IF call.mode = "Disable" THEN out
                                  ELSE [out EXCEPT ![spindle] = SetDirection(@, Spindle, call.mode = "Cw")]
    /\ UNCHANGED <<spindles, spindle, gc, hold, sovr, restore, rtCycleStart, motion, main, disturbed, budget>>

\* set_output: compares with the cached duty and replaces it ...
CacheDuty ==
    /\ call.at = "output"
    /\ IF ~Pulsed(Spindle)
       THEN out' = [out EXCEPT ![spindle].duty = call.dev] /\ call' = [call EXCEPT !.at = "enable"]
       ELSE IF out[spindle].cache = call.dev
       THEN UNCHANGED out /\ call' = [call EXCEPT !.at = "enable"]
       ELSE out' = [out EXCEPT ![spindle].cache = call.dev] /\ call' = [call EXCEPT !.at = "duty"]
    /\ UNCHANGED <<spindles, spindle, sys, gc, hold, sovr, restore, rtCycleStart, motion, main, disturbed, budget>>

\* ... and then writes the duty.
WriteDuty ==
    /\ call.at = "duty"
    /\ out' = [out EXCEPT ![spindle].duty = Duty(Spindle, call.dev)]
    /\ call' = [call EXCEPT !.at = "enable"]
    /\ UNCHANGED <<spindles, spindle, sys, gc, hold, sovr, restore, rtCycleStart, motion, main, disturbed, budget>>

\* set_enable, and spindleDelay, which blocks the main program.
Enable ==
    /\ call.at = "enable"
    /\ out' = [out EXCEPT ![spindle] = SetEnable(@, Spindle, call.mode # "Disable")]
    /\ call' = [call EXCEPT !.at = "delay"]
    /\ UNCHANGED <<spindles, spindle, sys, gc, hold, sovr, restore, rtCycleStart, motion, main, disturbed, budget>>

spindleDelay ==
    /\ call.at = "delay"
    /\ Return(call.then)
    /\ UNCHANGED <<spindles, spindle, out, sys, gc, hold, sovr, restore, rtCycleStart, motion, main, disturbed, budget>>

-----------------------------------------------------------------------------
(* The realtime executor, as far as it concerns spindles.  It runs where the *)
(* main program polls: between lines and where a line waits.                 *)

Polls == call.at = "none" /\ ~sys.abort /\ main.at \in {"poll", "room", "sync"}

\* A reset is looked at before anything else.
Polling == Polls /\ ~sys.reset

Current == IF plan = <<>> THEN [mode |-> gc.mode, s |-> gc.s]
           ELSE [mode |-> Head(plan).mode, s |-> Head(plan).s]

\* A hold: the suspend loop notes what to restore and stops a laser.
Suspend(kind) ==
    /\ hold' = kind
    /\ restore' = Current
    /\ sovr' = IF isRateAdjusted(Spindle) /\ sovr = "none" THEN "initiate" ELSE sovr

\* The generator looks at its block anew, and at the speed of its spindle.
Recompute == prep' = [prep EXCEPT !.ended = FALSE, !.fresh = TRUE]

Spend == budget.events > 0 /\ budget' = [budget EXCEPT !.events = @ - 1]

protocol_do_feedhold ==
    /\ Polling /\ hold = "no" /\ Spend
    /\ \/ /\ sys.state = "Idle"
          /\ sys' = [sys EXCEPT !.state = "Hold"]
          /\ Suspend("complete") /\ UNCHANGED prep
       \/ /\ sys.state = "Cycle"
          /\ sys' = [sys EXCEPT !.state = "Hold", !.update = FALSE]
          /\ Suspend("stopping") /\ Recompute
       \/ /\ sys.state = "Jog"
          /\ sys' = [sys EXCEPT !.update = FALSE]
          /\ hold' = "jogCancel" /\ Recompute
          /\ UNCHANGED <<sovr, restore>>
    /\ rtCycleStart' = FALSE
    /\ UNCHANGED <<spindles, spindle, out, gc, plan, ring, isr, main, call, disturbed>>

InitiateCycle ==
    /\ hold' = "no"
    /\ prep' = [prep EXCEPT !.ended = FALSE]
    /\ sys' = [sys EXCEPT !.update = FALSE, !.state = IF plan = <<>> THEN "Idle" ELSE "Cycle"]
    /\ isr' = [isr EXCEPT !.running = @ \/ plan # <<>>]

protocol_do_cycle_start ==
    /\ Polling /\ rtCycleStart
    /\ rtCycleStart' = FALSE
    /\ IF sys.state = "Idle" \/ (sys.state = "Hold" /\ hold = "complete" /\ sovr = "none")
       THEN InitiateCycle /\ UNCHANGED sovr
       ELSE /\ sovr' = IF sys.state = "Hold" /\ hold = "complete" THEN "restoreCycle" ELSE sovr
            /\ UNCHANGED <<hold, prep, sys, isr>>
    /\ UNCHANGED <<spindles, spindle, out, gc, restore, plan, ring, main, call, disturbed, budget>>

CycleStart ==
    /\ Polling /\ ~rtCycleStart /\ Spend
    /\ rtCycleStart' = TRUE
    /\ UNCHANGED <<spindles, spindle, out, sys, gc, hold, sovr, restore, motion, main, call, disturbed>>

protocol_do_cycle_stop ==
    /\ Polling /\ isr.stopped
    /\ isr' = [isr EXCEPT !.stopped = FALSE, !.running = @ /\ hold # "jogCancel",
                          !.adjusted = @ /\ hold # "jogCancel"]
    /\ IF hold = "stopping"
       THEN hold' = "complete" /\ Recompute /\ UNCHANGED <<sys, plan, ring>>
       ELSE IF hold = "complete" THEN UNCHANGED <<hold, prep, sys, plan, ring>>
       ELSE /\ hold' = "no"
            /\ sys' = [sys EXCEPT !.state = IF @ \in {"Cycle", "Jog", "Hold"} THEN "Idle" ELSE @]
            /\ IF hold = "jogCancel"
               THEN plan' = <<>> /\ ring' = <<>> /\ prep' = NoPrep
               ELSE UNCHANGED <<plan, ring, prep>>
    /\ UNCHANGED <<spindles, spindle, out, gc, sovr, restore, rtCycleStart, main, call, disturbed, budget>>

\* protocol_execute_overrides: a changed override calls setState if the program
\* has the spindle on, whatever the machine is doing.
Override ==
    /\ Polling /\ Spend
    /\ \E percent \in Overrides \ {sys.ovr} : sys' = [sys EXCEPT !.ovr = percent, !.update = TRUE]
    /\ IF gc.mode # "Disable"
       THEN SetState(gc.mode, gc.s, "override") /\ disturbed' = disturbed \cup (IF Moving THEN {"override"} ELSE {})
       ELSE UNCHANGED <<call, disturbed>>
    /\ UNCHANGED <<spindles, spindle, out, gc, hold, sovr, restore, rtCycleStart, motion, main>>

SpindleStop ==
    /\ Polling /\ sys.state = "Hold" /\ sovr \in {"none", "enabled"} /\ Spend
    /\ sovr' = IF sovr = "none" THEN "initiate" ELSE "restore"
    /\ UNCHANGED <<spindles, spindle, out, sys, gc, hold, restore, rtCycleStart, motion, main, call, disturbed>>

\* The feed hold manager of protocol_exec_rt_suspend.
HoldManager ==
    /\ Polling /\ hold = "complete"
    /\ \/ /\ sovr = "initiate"
          /\ IF gc.mode # "Disable" THEN stop("stopped") /\ UNCHANGED sovr
             ELSE sovr' = "none" /\ UNCHANGED call
          /\ UNCHANGED <<sys, rtCycleStart>>
       \/ /\ sovr \in {"restore", "restoreCycle"}
          /\ rtCycleStart' = (rtCycleStart \/ sovr = "restoreCycle")
          /\ sovr' = "none"
          /\ IF gc.mode # "Disable" /\ ~isRateAdjusted(Spindle)
             THEN SetState(restore.mode, restore.s, "hold") /\ UNCHANGED sys
             ELSE /\ sys' = [sys EXCEPT !.update = @ \/ gc.mode # "Disable"]
                  /\ UNCHANGED call
       \/ /\ sovr = "none" /\ sys.update
          /\ SetState(restore.mode, restore.s, "hold")
          /\ sys' = [sys EXCEPT !.update = FALSE]
          /\ UNCHANGED <<sovr, rtCycleStart>>
    /\ UNCHANGED <<spindles, spindle, out, gc, hold, restore, motion, main, disturbed, budget>>

\* mc_reset: the spindle is stopped before the interrupt is.
mc_reset ==
    /\ Polling /\ Spend
    /\ sys' = [sys EXCEPT !.reset = TRUE]
    /\ stop("reset")
    /\ UNCHANGED <<spindles, spindle, out, gc, hold, sovr, restore, rtCycleStart, motion, main, disturbed>>

\* The executor handles the reset; abrupt stops are an alarm.  Lines that wait end.
Abort ==
    /\ Polls /\ sys.reset
    /\ sys' = [sys EXCEPT !.abort = TRUE,
                          !.state = IF @ \in {"Cycle", "Jog"} \/ hold \in {"stopping", "jogCancel"}
                                    THEN "Alarm" ELSE @]
    /\ UNCHANGED <<spindles, spindle, out, gc, hold, sovr, restore, rtCycleStart, motion, main, call,
                   disturbed, budget>>

\* run_once, its stop of the spindle first ...
run_once ==
    /\ call.at = "none" /\ sys.abort /\ main.at = "poll"
    /\ sys' = [sys EXCEPT !.abort = FALSE, !.reset = FALSE, !.ovr = 100, !.update = FALSE, !.speed = 0]
    /\ gc' = [mode |-> "Disable", s |-> 0, linear |-> FALSE, tool |-> 0]
    /\ hold' = "no" /\ sovr' = "none" /\ rtCycleStart' = FALSE
    /\ plan' = <<>>
    /\ main' = [at |-> "init", line |-> NoLine]
    /\ stop("init")
    /\ UNCHANGED <<spindles, spindle, out, restore, prep, ring, isr, disturbed, budget>>

\* $X after the alarm.
Unlock ==
    /\ Polling /\ main.at = "poll" /\ sys.state = "Alarm"
    /\ sys' = [sys EXCEPT !.state = "Idle"]
    /\ UNCHANGED <<spindles, spindle, out, gc, hold, sovr, restore, rtCycleStart, motion, main, call,
                   disturbed, budget>>

-----------------------------------------------------------------------------
(* A line of G-code: the stages that reach the spindle. *)

At(place) == main' = [main EXCEPT !.at = place]

Laser == isRateAdjusted(Spindle)

\* GCParserLaserDisable, GCParserLaserIsMotion and GCParserLaserForceSync.
LaserDisable == Laser /\ ~main.line.linear /\ gc.mode = "Ccw"
LaserIsMotion == Laser /\ main.line.axis
LaserForceSync ==
    Laser /\ ~main.line.axis /\ gc.mode = "Cw" /\ (IF gc.linear THEN LaserDisable ELSE ~LaserDisable)

\* The speed that goes with the line to the planner.
LineSpeed == IF LaserDisable THEN 0 ELSE main.line.s

\* Words are read; M4 needs a spindle that can.
BeginLine ==
    /\ Polling /\ main.at = "poll" /\ ~rtCycleStart
    /\ sys.state \in {"Idle", "Cycle"}
    /\ budget.lines > 0 /\ budget' = [budget EXCEPT !.lines = @ - 1]
    /\ \E l \in Lines :
        /\ l.kind # "jog"
        /\ l.mode = "Ccw" => isReversable(Spindle) \/ Laser
        /\ main' = [at |-> "speed",
                    line |-> [l EXCEPT !.s = IF @ = -1 THEN gc.s ELSE @,
                                       !.mode = IF @ = "Keep" THEN gc.mode ELSE @,
                                       !.linear = IF l.kind = "keep" THEN gc.linear ELSE @]]
        /\ gc' = [gc EXCEPT !.tool = IF l.tool = -1 THEN @ ELSE l.tool]
    /\ UNCHANGED <<spindles, spindle, out, sys, hold, sovr, restore, rtCycleStart, motion, call, disturbed>>

\* $J: a line of its own, with the spindle as it is.
BeginJog ==
    /\ Polling /\ main.at = "poll" /\ sys.state \in {"Idle", "Jog"} /\ ~rtCycleStart
    /\ hold = "no" /\ Len(plan) < PlannerBlocks
    /\ \E l \in Lines : l.kind = "jog"
    /\ budget.lines > 0 /\ budget' = [budget EXCEPT !.lines = @ - 1]
    /\ plan' = Append(plan, [mode |-> gc.mode, s |-> gc.s])
    /\ sys' = [sys EXCEPT !.state = "Jog"]
    /\ isr' = [isr EXCEPT !.running = @ \/ sys.state = "Idle"]
    /\ UNCHANGED <<spindles, spindle, out, gc, hold, sovr, restore, rtCycleStart, prep, ring, main, call, disturbed>>

\* protocol_buffer_synchronize on behalf of a stage: it starts what is queued and
\* returns at rest, or on an abort, after which the line goes on all the same.
Synchronize(stage) ==
    /\ main' = [main EXCEPT !.at = "sync", !.line.stage = stage]
    /\ rtCycleStart' = (rtCycleStart \/ plan # <<>>)

\* Mutant: the output is changed while blocks with the old one are queued.
SynchronizedAtOnce(stage) ==
    call.at = "none" /\ main.at = "sync" /\ main.line.stage = stage

Synchronized(stage) ==
    /\ call.at = "none" /\ main.at = "sync" /\ main.line.stage = stage
    /\ sys.abort \/ (plan = <<>> /\ sys.state # "Cycle" /\ hold = "no" /\ ~sys.reset)

LineRest == UNCHANGED <<spindles, out, hold, sovr, restore, motion, budget>>

\* 4. S: sent to a spindle that is on, unless a laser's motion brings it.
SpeedStage ==
    /\ call.at = "none" /\ main.at = "speed"
    /\ IF /\ gc.s # main.line.s \/ LaserForceSync
          /\ gc.mode # "Disable" /\ ~LaserIsMotion
       THEN Synchronize("speed") /\ UNCHANGED gc
       ELSE /\ gc' = [gc EXCEPT !.s = main.line.s]
            /\ main' = [main EXCEPT !.at = "tool", !.line.s = LineSpeed]
            /\ UNCHANGED rtCycleStart
    /\ UNCHANGED <<spindle, sys, call, disturbed>> /\ LineRest

SpeedSynchronized ==
    /\ Synchronized("speed")
    /\ SetState(gc.mode, LineSpeed, "speed")
    /\ gc' = [gc EXCEPT !.s = main.line.s]
    /\ main' = [main EXCEPT !.at = "tool", !.line.s = LineSpeed]
    /\ UNCHANGED <<spindle, sys, rtCycleStart, disturbed>> /\ LineRest

\* switchSpindle: the spindle with the nearest tool number from below; without one
\* the one in use stays.
Candidates(tool) == {i \in DOMAIN spindles : spindles[i].tool <= tool}
Candidate(tool) ==
    IF Candidates(tool) = {} THEN spindle
    ELSE CHOOSE i \in Candidates(tool) :
            \A j \in Candidates(tool) :
                spindles[j].tool < spindles[i].tool \/ (spindles[j].tool = spindles[i].tool /\ i <= j)

\* Mutant: the old spindle isn't stopped.
ToolStageSilent ==
    /\ call.at = "none" /\ main.at = "tool"
    /\ spindle' = IF main.line.m6 THEN Candidate(gc.tool) ELSE spindle
    /\ At("mode")
    /\ UNCHANGED <<call, disturbed, sys, gc, rtCycleStart>> /\ LineRest

\* 6. M6: doesn't wait for the motion that is queued.
ToolStage ==
    /\ call.at = "none" /\ main.at = "tool"
    /\ IF main.line.m6 /\ Candidate(gc.tool) # spindle
       THEN /\ stop("tool")   \* the pointer is changed on return
            /\ disturbed' = disturbed
                  \cup (IF Moving \/ plan # <<>> \/ sys.abort THEN {"tool"} ELSE {})
                  \cup (IF gc.mode # "Disable" THEN {"untold"} ELSE {})
       ELSE UNCHANGED <<call, disturbed>>
    /\ At("mode")
    /\ UNCHANGED <<spindle, sys, gc, rtCycleStart>> /\ LineRest

\* 7. M3, M4, M5.
ModeStage ==
    /\ call.at = "none" /\ main.at = "mode"
    /\ IF gc.mode # main.line.mode THEN Synchronize("mode") ELSE At("motion") /\ UNCHANGED rtCycleStart
    /\ UNCHANGED <<spindle, sys, gc, call, disturbed>> /\ LineRest

ModeSynchronized ==
    /\ Synchronized("mode")
    /\ SetState(main.line.mode, main.line.s, "mode")
    /\ gc' = [gc EXCEPT !.mode = main.line.mode]
    /\ At("motion")
    /\ UNCHANGED <<spindle, sys, rtCycleStart, disturbed>> /\ LineRest

\* 20. The motion, which waits for room in the planner; or the end of the program.
MotionStage ==
    /\ call.at = "none" /\ main.at = "motion"
    /\ gc' = [gc EXCEPT !.linear = main.line.linear]
    /\ IF main.line.kind = "end" THEN Synchronize("end")
       ELSE At(IF main.line.axis THEN "room" ELSE "poll") /\ UNCHANGED rtCycleStart
    /\ UNCHANGED <<spindle, sys, call, disturbed>> /\ LineRest

\* mc_line: aborted lines don't move, others wait until the planner has room.
QueueMotion ==
    /\ call.at = "none" /\ main.at = "room"
    /\ sys.abort \/ (Len(plan) < PlannerBlocks /\ hold = "no" /\ ~sys.reset)
    /\ plan' = IF sys.abort THEN plan ELSE Append(plan, [mode |-> gc.mode, s |-> main.line.s])
    /\ main' = [at |-> "poll", line |-> NoLine]
    /\ UNCHANGED <<spindles, spindle, out, sys, gc, hold, sovr, restore, rtCycleStart, prep, ring, isr,
                   call, disturbed, budget>>

\* protocol_auto_cycle_start, of the main loop without input and of a full planner.
AutoCycleStart ==
    /\ Polling /\ plan # <<>> /\ ~rtCycleStart /\ sys.state = "Idle"
    /\ main.at = "poll" \/ (main.at = "room" /\ Len(plan) = PlannerBlocks)
    /\ rtCycleStart' = TRUE
    /\ UNCHANGED <<spindles, spindle, out, sys, gc, hold, sovr, restore, motion, main, call, disturbed, budget>>

\* M2 and M30.
EndProgram ==
    /\ Synchronized("end")
    /\ gc' = [gc EXCEPT !.linear = TRUE, !.mode = "Disable"]
    /\ sys' = [sys EXCEPT !.ovr = 100]
    /\ stop("end")
    /\ main' = [at |-> "poll", line |-> NoLine]
    /\ UNCHANGED <<spindle, rtCycleStart, disturbed>> /\ LineRest

\* Where setState returns to, with what its caller does next.
Returned ==
    /\ call.at = "return"
    /\ call' = NoCall
    /\ spindle' = IF call.then = "tool" THEN Candidate(gc.tool) ELSE spindle
    /\ sovr' = IF call.then = "stopped" THEN "enabled" ELSE sovr
    /\ isr' = IF \/ call.then = "reset" /\ (sys.state \in {"Cycle", "Jog"} \/ hold \in {"stopping", "jogCancel"})
                 \/ call.then = "init"
              THEN [running |-> FALSE, adjusted |-> isr.adjusted /\ call.then # "init",
                    stopped |-> isr.stopped /\ call.then # "init"]
              ELSE isr
    /\ IF call.then = "init"
       THEN ring' = <<>> /\ prep' = NoPrep /\ main' = [main EXCEPT !.at = "poll"]
       ELSE UNCHANGED <<ring, prep, main>>
    /\ UNCHANGED <<spindles, out, sys, gc, hold, restore, rtCycleStart, plan, disturbed, budget>>

-----------------------------------------------------------------------------
(* The generator and the interrupt. *)

\* The executor refills the ring in these states, unless endMotion is set.
Prepares ==
    /\ call.at = "none" /\ ~sys.abort /\ ~sys.reset
    /\ sys.state \in {"Cycle", "Hold", "Jog"} /\ ~prep.ended /\ Len(ring) < RingSize

\* prep_buffer loads a block: M4 of a laser scales its output with the rate.
LoadBlock ==
    /\ Prepares
    /\ prep.left = 0 /\ plan # <<>>
    /\ prep' = [prep EXCEPT !.left = 2, !.fresh = TRUE,
                            !.adjusted = Laser /\ Head(plan).mode = "Ccw"]
    /\ UNCHANGED <<spindles, spindle, out, sys, gc, hold, sovr, restore, rtCycleStart, plan, ring, isr,
                   main, call, disturbed, budget>>

\* The output of a segment; the rate at the end of the last block, and of a
\* deceleration, is 0.
SegmentSpeed(rate) ==
    IF ~(prep.adjusted \/ prep.fresh \/ sys.update) THEN prep.s
    ELSE IF Head(plan).mode = "Disable" THEN 0
    ELSE IF prep.adjusted THEN (Head(plan).s * rate) \div 100 ELSE Head(plan).s

Stops == hold \in {"stopping", "jogCancel"}

PrepareSegment ==
    /\ Prepares
    /\ prep.left > 0 /\ plan # <<>>
    /\ \E rate \in Rates \cup {0}, last \in BOOLEAN :
        LET done == prep.left = 1
            s == SegmentSpeed(rate)
        IN  /\ last => Stops
            /\ rate = 0 <=> last \/ (done /\ Len(plan) = 1)
            /\ ring' = Append(ring, [dev |-> Map(Entries(Spindle), (s * sys.ovr) \div 100),
                                     adjusted |-> prep.adjusted])
            /\ prep' = [prep EXCEPT !.left = @ - 1, !.s = s, !.fresh = FALSE, !.ended = last]
            /\ sys' = [sys EXCEPT !.speed = (s * sys.ovr) \div 100, !.update = FALSE]
            /\ plan' = IF done THEN Tail(plan) ELSE plan
    /\ UNCHANGED <<spindles, spindle, out, gc, hold, sovr, restore, rtCycleStart, isr, main, call,
                   disturbed, budget>>

\* pulse_func: a segment is loaded, with its output before its first step.
LoadSegment ==
    /\ isr.running /\ ring # <<>>
    /\ out' = [out EXCEPT ![spindle] = setSpeedfromISR(@, Spindle, Head(ring).dev)]
    /\ isr' = [isr EXCEPT !.adjusted = Head(ring).adjusted]
    /\ ring' = Tail(ring)
    /\ UNCHANGED <<spindles, spindle, sys, gc, hold, sovr, restore, rtCycleStart, plan, prep, main, call,
                   disturbed, budget>>

\* The buffer is empty: the motion ends, or spindleDelay has kept the main program.
Shutdown ==
    /\ isr.running /\ ring = <<>>
    /\ plan = <<>> \/ prep.ended \/ call.at = "delay"
    /\ isr' = [isr EXCEPT !.running = FALSE, !.stopped = TRUE]
    /\ out' = IF sys.state # "Jog" /\ isr.adjusted
              THEN [out EXCEPT ![spindle] = setSpeedfromISR(@, Spindle, 0)] ELSE out
    /\ UNCHANGED <<spindles, spindle, sys, gc, hold, sovr, restore, rtCycleStart, plan, prep, ring, main,
                   call, disturbed, budget>>

-----------------------------------------------------------------------------
Pins(s, duty) == [duty |-> duty, cache |-> 0, enable |-> FALSE, dir |-> FALSE, fwd |-> FALSE, rev |-> FALSE]

\* After the first run_once.  The cached duty of a BESC is not initialised: if it
\* happens to be 0 the first stop sends no pulse.
Init ==
    /\ spindles \in Machines
    /\ spindle = IF \E i \in DOMAIN spindles : spindles[i].tool <= 0
                 THEN CHOOSE i \in DOMAIN spindles : spindles[i].tool <= 0
                        /\ \A j \in DOMAIN spindles : spindles[j].tool <= 0 =>
                              spindles[j].tool < spindles[i].tool \/ (spindles[j].tool = spindles[i].tool /\ i <= j)
                 ELSE 1
    /\ \E sent \in BOOLEAN :
          out = [i \in DOMAIN spindles |-> Pins(spindles[i], IF sent THEN Duty(spindles[i], 0) ELSE 0)]
    /\ sys = [state |-> "Idle", speed |-> 0, ovr |-> 100, update |-> FALSE, reset |-> FALSE, abort |-> FALSE]
    /\ gc = [mode |-> "Disable", s |-> 0, linear |-> FALSE, tool |-> 0]
    /\ hold = "no" /\ sovr = "none" /\ restore = [mode |-> "Disable", s |-> 0]
    /\ rtCycleStart = FALSE
    /\ plan = <<>> /\ prep = NoPrep /\ ring = <<>>
    /\ isr = [running |-> FALSE, adjusted |-> FALSE, stopped |-> FALSE]
    /\ main = [at |-> "poll", line |-> NoLine]
    /\ call = NoCall
    /\ disturbed = {}
    /\ budget = [lines |-> MaxLines, events |-> MaxEvents]

setState == MapSpeed \/ CacheDuty \/ WriteDuty \/ Enable \/ spindleDelay \/ Returned
Executor ==
    \/ protocol_do_feedhold \/ protocol_do_cycle_start \/ protocol_do_cycle_stop \/ CycleStart
    \/ Override \/ SpindleStop \/ HoldManager \/ mc_reset \/ Abort \/ run_once \/ Unlock
Line ==
    \/ BeginLine \/ BeginJog \/ SpeedStage \/ SpeedSynchronized \/ ToolStage \/ ModeStage
    \/ ModeSynchronized \/ MotionStage \/ QueueMotion \/ AutoCycleStart \/ EndProgram

Next == setState \/ Executor \/ Line \/ LoadBlock \/ PrepareSegment \/ LoadSegment \/ Shutdown

Spec == Init /\ [][Next]_vars

-----------------------------------------------------------------------------
(* What the outputs of spindles and lasers promise. *)

\* Nothing moves and nobody is about to change an output.
AtRest ==
    /\ call.at = "none" /\ main.at = "poll" /\ ~isr.running /\ plan = <<>> /\ ring = <<>>
    /\ ~sys.reset /\ sys.state # "Hold"

Off(s) == Duty(s, offSpeed(s))

\* The map read as it is configured: straight lines between its points.
Programmed(s, speed) ==
    LET map == IF s.map = <<>> THEN DefaultMap(s.kind) ELSE s.map
        below == {i \in DOMAIN map : map[i].speed <= speed}
        i == IF speed = 0 \/ below = {} THEN 1 ELSE Max(below)
    IN  (IF i = Len(map) \/ map[i + 1].speed <= speed \/ speed = 0 \/ below = {}
         THEN MaxOf(s.kind) * map[i].percent
         ELSE MaxOf(s.kind) * (map[i].percent + ((map[i + 1].percent - map[i].percent)
                                * (speed - map[i].speed)) \div (map[i + 1].speed - map[i].speed))) \div 100

\* What the program last said of the spindle: it turns at what its map gives for the
\* overridden S, within one step of the device, and not at all after M5.  The direction
\* pins of a 10V spindle are an exception: 10vSpindle.h has M5 turn them off, but M5
\* leaves them as they were (set_enable is not virtual), and those that the interrupt
\* turned off with S0 do not come back.  So they are only asked not to be wrong while
\* it turns, and nothing is said of them after M5.
TurnsAsSaid ==
    LET speed == (gc.s * sys.ovr) \div 100
        pins == out[spindle]
    IN  IF gc.mode = "Disable" THEN ~pins.enable /\ pins.duty \in {Off(Spindle), 0}
        ELSE /\ pins.enable = ~(Spindle.disableWithS0 /\ speed = 0)
             /\ IF Spindle.kind = "10V"
                THEN (pins.dir \/ pins.fwd => gc.mode = "Cw") /\ (pins.rev => gc.mode = "Ccw")
                ELSE pins.dir = (gc.mode = "Cw")
             /\ \E d \in (IF Spindle.kind = "OnOff" THEN {0} ELSE {-1, 0}) :
                    pins.duty = Duty(Spindle, Programmed(Spindle, speed) + d)

\* At rest the output is the program's, whatever lines, holds, tool changes, jogs and
\* resets came before and however the interrupt fell into setState: a spindle turns
\* as it was told, a laser in M5 or M4 is dark.  This leaves out what has diverged
\* for good: an override or a tool change that met a motion, and a tool change while
\* the spindle was on; and the direction pins of a 10V spindle, see TurnsAsSaid.
OutputAtRest ==
    AtRest /\ Spindle.kind # "Null" /\ disturbed = {} =>
        IF Laser THEN gc.mode # "Cw" => out[spindle].duty = 0 ELSE TurnsAsSaid

\* A spindle that is not in use is off, unless the change of tools fell into a motion
\* or an abort.
OnlySelectedRuns ==
    \A i \in DOMAIN spindles \ {spindle} :
        "tool" \notin disturbed => ~out[i].enable /\ out[i].duty \in {0, Off(spindles[i])}

\* The two together: what every output is when the machine is at rest.
OutputsAsSaid == OutputAtRest /\ OnlySelectedRuns
=============================================================================
