------------------------------- MODULE GCode -------------------------------
(***************************************************************************)
(* Step 4 of gc_execute_line: a block that was found right is executed, in  *)
(* its order of execution, while the machine moves, is reset, or meets a    *)
(* soft limit.  The main program, one line at a time:                       *)
(*                                                                         *)
(*   GCodeLine, JogLine   a line is accepted: todo is what it asks for       *)
(*   one action per stage of todo; mc_line for the targets of a motion       *)
(*                                                                         *)
(* The planner is a queue of targets; the machine stands at mpos and is at  *)
(* the next target when a motion ends.  A motion that is stopped stops at   *)
(* its start, in the middle or at its end.                                  *)
(***************************************************************************)
EXTENDS GCodeBlock

CONSTANTS Lines,        \* the lines that may be sent
          MaxPosition,  \* the machine's range is 0 .. MaxPosition on each axis
          QueueSize,    \* targets that the planner holds
          MaxLines,     \* bound: lines sent
          MaxResets     \* bound: Ctrl-X

ASSUME MachineAssumption ==
    /\ \A line \in Lines : line.jog \in BOOLEAN /\ line.words \in Seq(STRING \X Int)
    /\ {MaxPosition, QueueSize, MaxLines, MaxResets} \subseteq Nat /\ QueueSize > 0

VARIABLES gc,        \* gc_state
          coords,    \* the stored coordinate data, G28's and G30's included
          sys,       \* sys.state: Idle, Cycle, Jog, CheckMode or Alarm
          abort,     \* sys.abort
          queue,     \* the planner's targets
          mpos,      \* where the machine stands
          outputs,   \* spindle, coolant, user outputs, and sys.override_ctrl
          block,     \* the block in execution
          todo,      \* the stages that are left of its execution
          path,      \* targets that mc_line is still to be called for
          lines, resets

machine == <<sys, abort, queue, mpos>>
execution == <<block, todo, path>>
bounds == <<lines, resets>>
vars == <<gc, coords, machine, outputs, execution, bounds>>

MaxUserDigitalPin == 4
CoordNames == ToSet(Systems) \cup {"G28", "G30"}
NoLine == [legal |-> FALSE]

-----------------------------------------------------------------------------
(* The parser's state.                                                      *)

Modal0 == [motion |-> "Seek", feed_rate |-> "UnitsPerMin", plane_select |-> "XY",
           units |-> "Mm", distance |-> "Absolute", tool_length |-> "Cancel",
           coord_select |-> "G54", spindle |-> "Disable",
           override |-> IF "deactivateParking" \in Features THEN "Disabled"
                        ELSE "ParkingMotion"]

\* gc_init, and the position synchronised with the machine.
gc_init(position) ==
    [modal |-> Modal0, coolant |-> {}, feed_rate |-> 0, spindle_speed |-> 0, tool |-> 0,
     position |-> position, coord_system |-> coords["G54"], coord_offset |-> Zero,
     tool_length_offset |-> 0]

\* system_reset clears sys.override_ctrl, whose zero is ParkingMotion.
Outputs0 == [spindle |-> "Disable", speed |-> 0, coolant |-> {}, digital |-> {},
             analog |-> <<0, 0, 0, 0>>, override |-> "ParkingMotion"]

\* What mc_reset turns off.
Off(o) == [Outputs0 EXCEPT !.override = o.override]

Init == /\ coords = [c \in CoordNames |-> Zero]
        /\ gc = gc_init(Zero)
        /\ sys = "Idle" /\ abort = FALSE
        /\ queue = <<>> /\ mpos = Zero
        /\ outputs = Outputs0
        /\ block = NoLine /\ todo = <<>> /\ path = <<>>
        /\ lines = 0 /\ resets = 0

-----------------------------------------------------------------------------
(* Motion.                                                                  *)

Between(p, q) == {p, q, [a \in Axes |-> (p[a] + q[a]) \div 2]}

\* Where motion along the queue may be stopped.
Way == UNION {Between(IF i = 1 THEN mpos ELSE queue[i - 1], queue[i]) : i \in DOMAIN queue}

StartCycle == /\ sys = "Idle" /\ queue # <<>> /\ ~abort
              /\ sys' = "Cycle"
              /\ UNCHANGED <<gc, coords, abort, queue, mpos, outputs, execution, bounds>>

EndMotion == /\ sys \in {"Cycle", "Jog"}
             /\ mpos' = Head(queue) /\ queue' = Tail(queue)
             /\ sys' = IF Tail(queue) = <<>> THEN "Idle" ELSE sys
             /\ UNCHANGED <<gc, coords, abort, outputs, execution, bounds>>

limitsCheckTravel(target) ==
    "softLimits" \in Features /\ \E a \in Axes : target[a] \notin 0 .. MaxPosition

\* Mutant: the wait for room does not end with an abort.
mc_lineWaits ==
    /\ path # <<>>
    /\ abort \/ sys = "Jog" \/ ~limitsCheckTravel(Head(path))
    /\ IF sys = "CheckMode" THEN UNCHANGED queue
       ELSE Len(queue) < QueueSize /\ queue' = Append(queue, Head(path))
    /\ path' = Tail(path)
    /\ UNCHANGED <<gc, coords, sys, abort, mpos, outputs, block, todo, bounds>>

\* mc_line, for the next target: dropped after an abort and in check mode, else
\* queued when there is room.
mc_line ==
    /\ path # <<>>
    /\ abort \/ sys = "Jog" \/ ~limitsCheckTravel(Head(path))
    /\ IF abort \/ sys = "CheckMode" THEN UNCHANGED queue
       ELSE Len(queue) < QueueSize /\ queue' = Append(queue, Head(path))
    /\ path' = Tail(path)
    /\ UNCHANGED <<gc, coords, sys, abort, mpos, outputs, block, todo, bounds>>

\* A target out of range: motion is brought to a stop, then mc_reset.
limits_soft_check ==
    /\ path # <<>> /\ ~abort /\ sys # "Jog" /\ limitsCheckTravel(Head(path))
    /\ mpos' \in IF sys = "Cycle" THEN Way ELSE {mpos}
    /\ outputs' = Off(outputs) /\ sys' = "Alarm" /\ abort' = TRUE
    /\ UNCHANGED <<gc, coords, queue, execution, bounds>>

-----------------------------------------------------------------------------
(* A line begins.                                                           *)

Moves(b) == b.axis_command = "MotionMode" /\ b.modal.motion # "None"

Needed(asked, stage) == IF asked THEN <<stage>> ELSE <<>>

\* The stages of a line, in their order of execution.
Order(b) ==
    Needed(b.s # gc.spindle_speed, "speed")
    \o Needed(b.modal.spindle # gc.modal.spindle, "spindle")
    \o Needed(b.coolant # "None", "coolant")
    \o Needed(Digital(b), "digital") \o Needed(Analog(b), "analog")
    \o Needed("parking" \in Features /\ b.modal.override # gc.modal.override, "override")
    \o Needed(b.non_modal = "Dwell" /\ b.values["P"] > 0 /\ sys # "CheckMode", "dwell")
    \o <<"modes">>
    \o Needed(b.axis_command = "ToolLengthOffset", "toolLength")
    \o Needed(b.modal.coord_select # gc.modal.coord_select, "coordSelect")
    \o Needed(b.non_modal \notin {"NoAction", "Dwell", "AbsoluteOverride"}, "nonModal")
    \o <<"motion">>
    \o Needed(b.program_flow # "Running", "flow")

\* The parser's state when a line was parsed: refused or not, its tool is selected.
Parsed(b) == IF b.legal THEN [gc EXCEPT !.tool = b.tool, !.feed_rate = b.f,
                                        !.modal.feed_rate = b.modal.feed_rate]
             ELSE [gc EXCEPT !.tool = b.tool]

\* A line of G-code.
GCodeLine ==
    /\ todo = <<>> /\ ~abort /\ sys \in {"Idle", "Cycle", "CheckMode"} /\ lines < MaxLines
    /\ \E line \in {l \in Lines : ~l.jog} :
           LET b == Block(gc, coords, line)
           IN  /\ gc' = Parsed(b)
               /\ IF b.legal THEN block' = b /\ todo' = Order(b)
                  ELSE UNCHANGED <<block, todo>>
    /\ lines' = lines + 1
    /\ UNCHANGED <<coords, machine, outputs, path, resets>>

\* $J=, jog_execute.
JogLine ==
    /\ todo = <<>> /\ ~abort /\ sys \in {"Idle", "Jog"} /\ lines < MaxLines
    /\ \E line \in {l \in Lines : l.jog} :
           LET b == Block(gc, coords, line)
           IN  /\ gc' = [gc EXCEPT !.tool = b.tool]
               /\ IF b.legal /\ ~limitsCheckTravel(b.xyz)
                  THEN block' = b /\ todo' = <<"jog">> /\ path' = <<b.xyz>>
                  ELSE UNCHANGED execution
    /\ lines' = lines + 1
    /\ UNCHANGED <<coords, machine, outputs, resets>>

-----------------------------------------------------------------------------
(* The stages.                                                              *)

\* protocol_buffer_synchronize has returned.
Synchronized == abort \/ (queue = <<>> /\ sys # "Cycle")

At(stage) == todo # <<>> /\ Head(todo) = stage /\ path = <<>>
Done == /\ todo' = Tail(todo)
        /\ block' = IF todo' = <<>> THEN NoLine ELSE block
        /\ UNCHANGED path
Then(stage) == todo' = <<stage>> \o Tail(todo) /\ UNCHANGED <<block, path>>
Live == sys # "CheckMode"

\* Spindle and coolant refuse a new state after an abort.
SetSpeed ==
    /\ At("speed")
    /\ Live /\ gc.modal.spindle # "Disable" => Synchronized
    /\ gc' = [gc EXCEPT !.spindle_speed = block.s]
    /\ outputs' = IF Live /\ gc.modal.spindle # "Disable" /\ ~abort
                  THEN [outputs EXCEPT !.spindle = gc.modal.spindle, !.speed = block.s]
                  ELSE outputs
    /\ Done /\ UNCHANGED <<coords, machine, bounds>>

SetSpindle ==
    /\ At("spindle")
    /\ Live => Synchronized
    /\ gc' = [gc EXCEPT !.modal.spindle = block.modal.spindle]
    /\ outputs' = IF Live /\ ~abort
                  THEN [outputs EXCEPT !.spindle = block.modal.spindle,
                                       !.speed = gc.spindle_speed]
                  ELSE outputs
    /\ Done /\ UNCHANGED <<coords, machine, bounds>>

\* Mutant: the coolant is switched after an abort as well.
SetCoolantAborted ==
    /\ At("coolant")
    /\ Live => Synchronized
    /\ LET coolant == IF block.coolant = "M9" THEN {} ELSE gc.coolant \cup {block.coolant}
       IN  /\ gc' = [gc EXCEPT !.coolant = coolant]
           /\ outputs' = IF Live THEN [outputs EXCEPT !.coolant = coolant] ELSE outputs
    /\ Done /\ UNCHANGED <<coords, machine, bounds>>

SetCoolant ==
    /\ At("coolant")
    /\ Live => Synchronized
    /\ LET coolant == IF block.coolant = "M9" THEN {} ELSE gc.coolant \cup {block.coolant}
       IN  /\ gc' = [gc EXCEPT !.coolant = coolant]
           /\ outputs' = IF Live /\ ~abort THEN [outputs EXCEPT !.coolant = coolant]
                         ELSE outputs
    /\ Done /\ UNCHANGED <<coords, machine, bounds>>

\* User outputs: a number that is too large ends the line.
Fail == todo' = <<>> /\ block' = NoLine /\ UNCHANGED <<gc, outputs, path>>

SetDigital ==
    /\ At("digital")
    /\ LET pin == block.values["P"]
           on == block.io_control \in {"DigitalOnSync", "DigitalOnImmediate"}
       IN  IF pin >= MaxUserDigitalPin THEN Fail
           ELSE /\ block.io_control \in {"DigitalOnSync", "DigitalOffSync"} => Synchronized
                /\ outputs' = [outputs EXCEPT !.digital = IF on THEN @ \cup {pin}
                                                          ELSE @ \ {pin}]
                /\ Done /\ UNCHANGED gc
    /\ UNCHANGED <<coords, machine, bounds>>

Percent(q) == IF q < 0 THEN 0 ELSE IF q > 100 THEN 100 ELSE q

SetAnalog ==
    /\ At("analog")
    /\ LET pin == block.values["E"]
       IN  IF pin >= MaxUserDigitalPin THEN Fail
           ELSE /\ block.io_control = "SetAnalogSync" => Synchronized
                /\ outputs' = [outputs EXCEPT !.analog[pin + 1] = Percent(block.values["Q"])]
                /\ Done /\ UNCHANGED gc
    /\ UNCHANGED <<coords, machine, bounds>>

\* mc_override_ctrl_update.
SetOverride ==
    /\ At("override") /\ Synchronized
    /\ gc' = [gc EXCEPT !.modal.override = block.modal.override]
    /\ outputs' = IF abort THEN outputs
                  ELSE [outputs EXCEPT !.override = block.modal.override]
    /\ Done /\ UNCHANGED <<coords, machine, bounds>>

\* mc_dwell, and the waits of the stages that change the work coordinates.
Wait == /\ At("dwell") \/ At("wait")
        /\ Synchronized
        /\ Done /\ UNCHANGED <<gc, coords, machine, outputs, bounds>>

SetModes ==
    /\ At("modes")
    /\ gc' = [gc EXCEPT !.modal.plane_select = block.modal.plane_select,
                        !.modal.units = block.modal.units]
    /\ Done /\ UNCHANGED <<coords, machine, outputs, bounds>>

SetToolLength ==
    /\ At("toolLength")
    /\ LET z == IF block.modal.tool_length = "Cancel" THEN 0
                ELSE block.xyz[TOOL_LENGTH_OFFSET_AXIS]
       IN  /\ gc' = [gc EXCEPT !.modal.tool_length = block.modal.tool_length,
                               !.tool_length_offset = z]
           /\ IF gc.tool_length_offset # z THEN Then("wait") ELSE Done
    /\ UNCHANGED <<coords, machine, outputs, bounds>>

SelectCoordSystem ==
    /\ At("coordSelect")
    /\ gc' = [gc EXCEPT !.modal.coord_select = block.modal.coord_select,
                        !.coord_system = block.coord_system]
    /\ Then("wait") /\ UNCHANGED <<coords, machine, outputs, bounds>>

\* G10: the data are changed, stored when motion has ended, and then in force.
SetCoordinateData ==
    /\ At("nonModal") /\ block.non_modal = "SetCoordinateData"
    /\ coords' = [coords EXCEPT ![CoordIndex(block)] = block.coord_data]
    /\ Then("coordData") /\ UNCHANGED <<gc, machine, outputs, bounds>>

UseCoordinateData ==
    /\ At("coordData") /\ Synchronized
    /\ IF gc.modal.coord_select = CoordIndex(block)
       THEN gc' = [gc EXCEPT !.coord_system = block.coord_data] /\ Then("wait")
       ELSE Done /\ UNCHANGED gc
    /\ UNCHANGED <<coords, machine, outputs, bounds>>

GoHomeWay ==
    /\ At("nonModal") /\ block.non_modal \in GoHome
    /\ path' = (IF block.axis_command = "None" THEN <<>> ELSE <<block.xyz>>)
               \o <<block.coord_data>>
    /\ todo' = <<"home">> \o Tail(todo)
    /\ UNCHANGED <<gc, coords, machine, outputs, block, bounds>>

AtHome ==
    /\ At("home")
    /\ gc' = [gc EXCEPT !.position = block.coord_data]
    /\ Done /\ UNCHANGED <<coords, machine, outputs, bounds>>

SetHome ==
    /\ At("nonModal") /\ block.non_modal \in {"SetHome0", "SetHome1"}
    /\ coords' = [coords EXCEPT ![IF block.non_modal = "SetHome0" THEN "G28" ELSE "G30"]
                      = gc.position]
    /\ Then("wait") /\ UNCHANGED <<gc, machine, outputs, bounds>>

SetCoordinateOffset ==
    /\ At("nonModal")
    /\ block.non_modal \in {"SetCoordinateOffset", "ResetCoordinateOffset"}
    /\ gc' = [gc EXCEPT !.coord_offset = IF block.non_modal = "SetCoordinateOffset"
                                         THEN block.xyz ELSE Zero]
    /\ Then("wait") /\ UNCHANGED <<coords, machine, outputs, bounds>>

\* The lines of an arc: one, or two by way of a point of its circle, the linear
\* axis halfway.
ArcPaths(b) ==
    LET x == InPlane(b, 1)
        y == InPlane(b, 2)
        z == CHOOSE a \in Axes : a \notin {x, y}
        near == -MaxPosition .. MaxPosition
        rim == {d \in near \X near :
                   Square(d[1]) + Square(d[2]) = Square(Centre(b, 1)) + Square(Centre(b, 2))}
        via(d) == [a \in Axes |->
                      IF a = x THEN gc.position[x] + Centre(b, 1) + d[1]
                      ELSE IF a = y THEN gc.position[y] + Centre(b, 2) + d[2]
                      ELSE (gc.position[z] + b.xyz[z]) \div 2]
    IN  {<<b.xyz>>} \cup (IF "R" \in b.value_words THEN {}
                          ELSE {<<via(d), b.xyz>> : d \in rim})

\* The distance mode is set just before a non-modal command, which does not read it.
BeginMotion ==
    /\ At("motion")
    /\ gc' = [gc EXCEPT !.modal.motion = block.modal.motion,
                        !.modal.distance = block.modal.distance]
    /\ \/ ~Moves(block) /\ Done
       \/ Moves(block) /\ Probe(block) /\ Then("probe")
       \/ /\ Moves(block) /\ ~Probe(block)
          /\ path' \in IF Arc(block) THEN ArcPaths(block) ELSE {<<block.xyz>>}
          /\ todo' = <<"target">> \o Tail(todo) /\ UNCHANGED block
    /\ UNCHANGED <<coords, machine, outputs, bounds>>

\* "As far as the parser is concerned, the position is now == target."
AtTarget ==
    /\ At("target")
    /\ gc' = [gc EXCEPT !.position = block.xyz]
    /\ Done /\ UNCHANGED <<coords, machine, outputs, bounds>>

\* The jog: it may have been cancelled before it was queued, see JogCancel.
StartJog ==
    /\ At("jog")
    /\ IF abort THEN UNCHANGED <<gc, sys>>
       ELSE /\ gc' = [gc EXCEPT !.position = block.xyz]
            /\ sys' = IF sys = "Idle" /\ queue # <<>> THEN "Jog" ELSE sys
    /\ Done /\ UNCHANGED <<coords, abort, queue, mpos, outputs, bounds>>

-----------------------------------------------------------------------------
(* Probing.                                                                 *)

\* mc_probe_cycle as far as its motion.
StartProbe ==
    /\ At("probe")
    /\ Live => Synchronized
    /\ \/ /\ ~Live \/ abort
          /\ gc' = IF Live \/ "checkModeStart" \in Features THEN gc
                   ELSE [gc EXCEPT !.position = block.xyz]
          /\ Done /\ UNCHANGED sys
       \/ /\ Live /\ ~abort  \* the probe is closed already
          /\ sys' = "Alarm" /\ Done /\ UNCHANGED gc
       \/ /\ Live /\ ~abort
          /\ path' = <<block.xyz>> /\ todo' = <<"probing">> \o Tail(todo)
          /\ UNCHANGED <<gc, sys, block>>
    /\ UNCHANGED <<coords, abort, queue, mpos, outputs, bounds>>

\* The probe closes: motion stops.
Contact ==
    /\ At("probing") /\ sys = "Cycle"
    /\ mpos' \in Way /\ sys' = "Idle" /\ queue' = <<>>
    /\ Then("contact") /\ UNCHANGED <<gc, coords, abort, outputs, bounds>>

\* Mutant: after a contact as well, the position is the target of the line.
EndProbeTarget ==
    /\ At("probing") \/ At("contact")
    /\ abort \/ (sys = "Idle" /\ queue = <<>>)
    /\ gc' = IF abort THEN gc ELSE [gc EXCEPT !.position = block.xyz]
    /\ Done /\ UNCHANGED <<coords, machine, outputs, bounds>>

EndProbe ==
    /\ At("probing") \/ At("contact")
    /\ abort \/ (sys = "Idle" /\ queue = <<>>)
    /\ LET contact == Head(todo) = "contact"
       IN  /\ gc' = IF abort THEN gc
                    ELSE [gc EXCEPT !.position = IF contact THEN mpos ELSE block.xyz]
           /\ sys' = IF abort \/ contact \/ block.modal.motion = "ProbeTowardNoError"
                     THEN sys ELSE "Alarm"
    /\ Done /\ UNCHANGED <<coords, abort, queue, mpos, outputs, bounds>>

-----------------------------------------------------------------------------
(* Program flow.                                                            *)

\* M0: a feed hold, until a cycle start.
Pause == /\ At("flow") /\ block.program_flow = "Paused" /\ Synchronized
         /\ IF Live THEN Then("paused") ELSE Done
         /\ UNCHANGED <<gc, coords, machine, outputs, bounds>>

Resume == /\ At("paused")
          /\ Done /\ UNCHANGED <<gc, coords, machine, outputs, bounds>>

\* M2 and M30.
EndProgram ==
    /\ At("flow") /\ block.program_flow \in {"CompletedM2", "CompletedM30"} /\ Synchronized
    /\ gc' = [gc EXCEPT !.modal = [@ EXCEPT !.motion = "Linear", !.plane_select = "XY",
                 !.distance = "Absolute", !.feed_rate = "UnitsPerMin", !.coord_select = "G54",
                 !.spindle = "Disable",
                 !.override = IF "parking" \in Features THEN Modal0.override
                              ELSE gc.modal.override],
                 !.coolant = {},
                 !.coord_system = IF Live THEN coords["G54"] ELSE @]
    /\ outputs' = IF Live /\ ~abort
                  THEN [outputs EXCEPT !.spindle = "Disable", !.speed = 0, !.coolant = {}]
                  ELSE outputs
    /\ Done /\ UNCHANGED <<coords, machine, bounds>>

-----------------------------------------------------------------------------
(* Events.                                                                  *)

\* Ctrl-X, or leaving check mode: mc_reset.  A motion is killed where it is.
mc_reset ==
    /\ outputs' = Off(outputs) /\ abort' = TRUE
    /\ IF sys \in {"Cycle", "Jog"} THEN sys' = "Alarm" /\ mpos' \in Way
       ELSE UNCHANGED <<sys, mpos>>
    /\ UNCHANGED <<gc, coords, queue, execution>>

Reset == /\ ~abort /\ resets < MaxResets /\ resets' = resets + 1
         /\ mc_reset /\ UNCHANGED lines

\* run_once again: the alarm stays, everything else begins anew.
Restart ==
    /\ abort /\ todo = <<>>
    /\ gc' = gc_init(mpos)
    /\ outputs' = [outputs EXCEPT !.spindle = "Disable", !.speed = 0,
                                  !.override = "ParkingMotion"]
    /\ abort' = FALSE /\ queue' = <<>>
    /\ sys' = IF sys = "Alarm" THEN "Alarm" ELSE "Idle"
    /\ UNCHANGED <<coords, mpos, execution, bounds>>

\* A jog is cancelled: what is queued is forgotten, and a jog that waits for room.
JogCancel ==
    /\ sys = "Jog" /\ (todo = <<>> \/ path # <<>>)
    /\ mpos' \in Way /\ queue' = <<>> /\ sys' = "Idle"
    /\ gc' = [gc EXCEPT !.position = mpos']
    /\ todo' = <<>> /\ path' = <<>> /\ block' = NoLine
    /\ UNCHANGED <<coords, abort, outputs, bounds>>

\* $X
Unlock == /\ todo = <<>> /\ ~abort /\ sys = "Alarm"
          /\ sys' = "Idle"
          /\ UNCHANGED <<gc, coords, abort, queue, mpos, outputs, execution, bounds>>

\* $C
CheckMode == /\ todo = <<>> /\ ~abort /\ UNCHANGED bounds
             /\ \/ sys = "CheckMode" /\ mc_reset
                \/ /\ sys = "Idle" /\ sys' = "CheckMode"
                   /\ UNCHANGED <<gc, coords, abort, queue, mpos, outputs, execution>>

\* $RST=#
RestoreParameters ==
    /\ todo = <<>> /\ ~abort /\ sys \in {"Idle", "Alarm"}
    /\ coords' = [c \in CoordNames |-> Zero]
    /\ UNCHANGED <<gc, machine, outputs, execution, bounds>>

-----------------------------------------------------------------------------
Stages == \/ mc_line \/ limits_soft_check
          \/ SetSpeed \/ SetSpindle \/ SetCoolant \/ SetDigital \/ SetAnalog \/ SetOverride
          \/ Wait \/ SetModes \/ SetToolLength \/ SelectCoordSystem
          \/ SetCoordinateData \/ UseCoordinateData \/ GoHomeWay \/ AtHome \/ SetHome
          \/ SetCoordinateOffset \/ BeginMotion \/ AtTarget \/ StartJog
          \/ StartProbe \/ EndProbe \/ Pause \/ EndProgram

Motion == StartCycle \/ EndMotion \/ Contact

Next == \/ GCodeLine \/ JogLine \/ Stages \/ Motion \/ Resume
        \/ Reset \/ Restart \/ JogCancel \/ Unlock \/ CheckMode \/ RestoreParameters

Spec == Init /\ [][Next]_vars /\ WF_vars(Stages) /\ WF_vars(Motion) /\ WF_vars(Restart)
=============================================================================
