-------------------------- MODULE GCodeProperties --------------------------
(* What a program may rely on, whatever its lines and wherever motion is     *)
(* interrupted.                                                             *)
EXTENDS GCode

AtRest == todo = <<>> /\ ~abort

\* Between lines, at rest and with nothing queued, the parser's position is where
\* the machine stands: after probes that hit and that miss, cancelled jogs, resets
\* in the middle of a motion and lines refused halfway (gc_sync_position,
\* plan_sync_position and the updates of gc_state.position).
PositionAgrees == AtRest /\ sys = "Idle" /\ queue = <<>> => gc.position = mpos

\* Between lines the spindle and the coolant are as the program has set them: also
\* when a line was aborted in one of its waits, and executed to its end all the same.
OutputsFollowProgram ==
    AtRest /\ sys # "CheckMode"
    => /\ outputs.spindle = gc.modal.spindle
       /\ gc.modal.spindle # "Disable" => outputs.speed = gc.spindle_speed
       /\ outputs.coolant = gc.coolant

Ends(stage) == At(stage) /\ todo' # todo

WorkPosition(g, a) == g.position[a] - g.coord_system[a] - g.coord_offset[a] - ToolLength(g, a)

Reads(g) == \A a \in Named(block) : WorkPosition(g, a) = Mm(block, block.values[a])

\* G92 and G10 L20 make the work position read what they name, in the units and
\* under the coordinate system, offsets and tool length in force on their line; and
\* a plain G0 or G1 in absolute mode ends where the work position reads it.
WorkCoordinates ==
    [][ \/ Ends("nonModal") /\ block.non_modal = "SetCoordinateOffset"
        \/ Ends("coordData") /\ block.values["L"] = 20
           /\ CoordIndex(block) = gc.modal.coord_select
        \/ Ends("target") /\ block.non_modal = "NoAction"
           /\ block.modal.motion \in {"Seek", "Linear"} /\ block.modal.distance = "Absolute"
        => Reads(gc') ]_vars

\* A line ends: no wait of it lasts for ever, but a pause, and one in check mode.
LineEnds == todo # <<>> ~> todo = <<>> \/ At("paused") \/ sys = "CheckMode"

=============================================================================
