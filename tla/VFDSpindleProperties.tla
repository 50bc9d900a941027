------------------------ MODULE VFDSpindleProperties ------------------------
(***************************************************************************)
(* What a VFD spindle promises: it stops when it is told to, the program   *)
(* does not wait for it for ever, and a critical command that fails stops  *)
(* the machine.                                                            *)
(***************************************************************************)
EXTENDS VFDSpindle

\* Safety: when the queue has been worked off and any reset has restarted the
\* program, the drive does what was last asked for, whatever resets, stops by the
\* task, segments of motion and discarded commands came in between (set_mode,
\* setSpeedfromISR, prepareSetModeCommand, mc_reset): it is stopped if it was to be,
\* unless that command was dropped or given up, and runs as it should with the speed
\* of the map if nothing was.  Dropped is the common case of the two: the interrupt
\* queues the speed of every segment, much faster than the task takes them out, so
\* the queue is full when M5 follows a motion, and set_mode only logs that.
DriveObeys ==
    (main.at = "idle" /\ ~rtReset /\ ~abort /\ vfd_cmd_queue = <<>> /\ task.at = "top")
        => /\ asked.mode = "Disable" /\ "mode" \notin lost => drive.mode = "Disable"
           /\ asked.mode # "Disable" /\ asked.settled /\ lost = {}
                => drive.mode = asked.mode /\ drive.speed = asked.dev

\* Liveness: a critical command that gets no answer leads to an alarm, although the
\* main program may restart between the task's reset and the task's alarm.
CriticalFailureAlarms == failed ~> alarm

=============================================================================
