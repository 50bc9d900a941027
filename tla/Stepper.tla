------------------------------- MODULE Stepper -------------------------------
(***************************************************************************)
(* The segment generator and the stepper interrupt (Stepper.cpp): the ring *)
(* of segments between them, the ring of Bresenham data the segments refer *)
(* to, and what holds and parking motions do to both.                      *)
(*                                                                         *)
(* The main program (generator, executor) and the interrupt (pulse_func)   *)
(* are two processes.  Distances are counted in steps: how many of a       *)
(* block's steps go into a segment, and where a hold ends, is a choice     *)
(* (Planner has the speeds).  Blocks are lines in X and Y; parking motions *)
(* move Z.  The planner is the list of all lines and a pointer into it.    *)
(***************************************************************************)
EXTENDS Integers, Sequences

CONSTANTS SEGMENT_BUFFER_SIZE, \* slots of the ring of segments
          Lines,               \* lines the program may ask for, [X, Y |-> steps]
          MaxAmassLevel,
          MaxSegment,          \* steps of a segment: those of DT_SEGMENT at the highest rate
          ParkingHeights,      \* positions in Z parking motions go to
          Underruns,           \* whether the generator may be late in a program line
          MaxLines, MaxHolds, MaxParkings  \* bounds

Axes == {"X", "Y", "Z"}
StepCounts == 65536   \* of n_step and step_count, 16 bits wide
Power2[n \in Nat] == IF n = 0 THEN 1 ELSE 2 * Power2[n - 1]
Greater(a, b) == IF a < b THEN b ELSE a

ASSUME RingsAssumption == SEGMENT_BUFFER_SIZE \in Nat /\ SEGMENT_BUFFER_SIZE > 2
ASSUME MotionAssumption ==
    /\ Lines \subseteq [X : Nat, Y : Nat]
    /\ \A l \in Lines : l.X + l.Y > 0
    /\ MaxAmassLevel \in Nat \ {0}
    /\ MaxSegment \in Nat \ {0}
    /\ MaxSegment * Power2[MaxAmassLevel] < StepCounts   \* the rate is limited (Axis.cpp)
    /\ ParkingHeights \subseteq Nat \ {0}
    /\ Underruns \in BOOLEAN
    /\ MaxLines \in Nat /\ MaxHolds \in Nat /\ MaxParkings \in Nat

VARIABLES
    planned,       \* all lines queued so far; the queue begins at current
    current,
    system_block,  \* motion in the planner's system block
    segment_buffer, segment_buffer_tail, segment_buffer_head, segment_next_head,
    st_block_buffer,
    prep,          \* the generator's data
    preparing,     \* the main program is inside prep_buffer
    st,            \* the interrupt's data
    timer,         \* the interrupt is enabled
    rtCycleStop,
    state,         \* Idle, Cycle, Hold (stopping), Held (hold complete), Parking
    step_control,
    motor_steps,
    spent,         \* holds and parking motions so far
    interrupted    \* history: what parking motions have interrupted: "nothing", lines
                   \* that were "held", lines merely "begun", segments still "pending"

generator == <<current, system_block, segment_buffer, segment_buffer_head,
               segment_next_head, st_block_buffer, prep>>
interrupt == <<segment_buffer_tail, st, motor_steps>>
vars == <<planned, generator, preparing, interrupt, timer, rtCycleStop, state,
          step_control, spent, interrupted>>

Segments == 0 .. SEGMENT_BUFFER_SIZE - 1
StBlocks == 0 .. SEGMENT_BUFFER_SIZE - 2
Flags == {"recalculate", "holdPartialBlock", "parking"}

-----------------------------------------------------------------------------
(* Bresenham data and the two rings. *)

NoSteps == [a \in Axes |-> 0]
LineMotion(l) == [steps |-> [X |-> l.X, Y |-> l.Y, Z |-> 0], down |-> FALSE]
SystemMotion(b) ==
    [steps |-> [NoSteps EXCEPT !.Z = IF b.to < b.from THEN b.from - b.to ELSE b.to - b.from],
     down |-> b.to < b.from]
EventCount(motion) == Greater(motion.steps.X, Greater(motion.steps.Y, motion.steps.Z))

\* Data of a motion, raised to the highest AMASS level so that no step is lost when
\* it is lowered again.
StBlock(motion) ==
    [steps |-> [a \in Axes |-> motion.steps[a] * Power2[MaxAmassLevel]], down |-> motion.down,
     step_event_count |-> EventCount(motion) * Power2[MaxAmassLevel]]

\* Mutant: a ring of Bresenham data with one slot less.
NextBlockTooSmall(i) == IF i + 1 >= SEGMENT_BUFFER_SIZE - 2 THEN 0 ELSE i + 1

next_block_index(i) == IF i + 1 = SEGMENT_BUFFER_SIZE - 1 THEN 0 ELSE i + 1
NextSegment(i) == IF i + 1 = SEGMENT_BUFFER_SIZE THEN 0 ELSE i + 1
Full == segment_buffer_tail = segment_next_head
Empty == segment_buffer_head = segment_buffer_tail

PlanEmpty == current > Len(planned)
Commanded(control) == control \in step_control

NoSegment == [n_step |-> 0, st_block_index |-> 0, amass_level |-> 0]

Init ==
    /\ planned = <<>> /\ current = 1
    /\ system_block = [from |-> 0, to |-> 0]
    /\ segment_buffer = [i \in Segments |-> NoSegment]
    /\ segment_buffer_tail = 0 /\ segment_buffer_head = 0 /\ segment_next_head = 1
    /\ st_block_buffer = [i \in StBlocks |-> StBlock([steps |-> NoSteps, down |-> FALSE])]
    /\ prep = [loaded |-> FALSE, flags |-> {}, st_block_index |-> 0, steps_remaining |-> 0,
               last_st_block_index |-> 0, last_steps_remaining |-> 0]
    /\ st = [exec |-> FALSE, step_count |-> 0, exec_block_index |-> 0,
             counter |-> NoSteps, steps |-> NoSteps]
    /\ preparing = "no" /\ timer = FALSE /\ rtCycleStop = FALSE
    /\ state = "Idle" /\ step_control = {}
    /\ motor_steps = NoSteps
    /\ spent = [holds |-> 0, parkings |-> 0]
    /\ interrupted = "nothing"

-----------------------------------------------------------------------------
(* The generator, Stepper::prep_buffer, one step per block and per segment. *)

Room == ~Full

Working == preparing # "no" /\ ~Commanded("endMotion") /\ Room
GeneratorRest == UNCHANGED <<planned, interrupt, rtCycleStop, state, spent, interrupted>>

\* Mutant: the Bresenham data are loaded again when only the profile is new.
ContinuesNever == FALSE

\* Only the velocity profile of the block is computed again.
Continues == "recalculate" \in prep.flags

\* Flags once the block is loaded: after a parking motion only one is cleared.
FlagsAfterLoad == IF ~Continues THEN prep.flags
                  ELSE IF "parking" \in prep.flags THEN prep.flags \ {"recalculate"} ELSE {}

LoadBlock ==
    /\ Working /\ ~prep.loaded
    /\ Commanded("executeSysMotion") \/ ~PlanEmpty
    /\ LET motion == IF Commanded("executeSysMotion") THEN SystemMotion(system_block)
                     ELSE LineMotion(planned[current])
           index == next_block_index(prep.st_block_index)
       IN  IF Continues
           THEN /\ prep' = [prep EXCEPT !.loaded = TRUE, !.flags = FlagsAfterLoad]
                /\ UNCHANGED st_block_buffer
           ELSE /\ prep' = [prep EXCEPT !.loaded = TRUE, !.st_block_index = index,
                                        !.steps_remaining = EventCount(motion)]
                /\ st_block_buffer' = [st_block_buffer EXCEPT ![index] = StBlock(motion)]
    /\ UNCHANGED <<current, system_block, segment_buffer, segment_buffer_head,
                   segment_next_head, preparing, timer, step_control>>
    /\ GeneratorRest

\* A hold ends within the block, which is to be continued; a parking motion that
\* is held isn't.
EndHold(p) ==
    /\ step_control' = step_control \cup {"endMotion"}
    /\ prep' = IF "parking" \in prep.flags THEN p
               ELSE [p EXCEPT !.flags = @ \cup {"holdPartialBlock"}]

\* A hold ends with less than a step to go: there is no segment.
BailOut ==
    /\ Working /\ prep.loaded
    /\ Commanded("executeHold")
    /\ EndHold(prep)
    /\ UNCHANGED <<current, system_block, segment_buffer, segment_buffer_head,
                   segment_next_head, st_block_buffer, preparing, timer>>
    /\ GeneratorRest

\* A segment of n steps, published to the interrupt by moving the head.
MakeSegment(n, level) ==
    /\ Working /\ prep.loaded
    /\ n <= prep.steps_remaining /\ n <= MaxSegment
    /\ segment_buffer' = [segment_buffer EXCEPT ![segment_buffer_head] =
                             [n_step |-> n * Power2[level], amass_level |-> level,
                              st_block_index |-> prep.st_block_index]]
    /\ segment_buffer_head' = segment_next_head
    /\ segment_next_head' = NextSegment(segment_next_head)
    /\ LET p == [prep EXCEPT !.steps_remaining = @ - n]
       IN  IF p.steps_remaining > 0
           THEN /\ \/ prep' = p /\ UNCHANGED step_control
                   \/ Commanded("executeHold") /\ EndHold(p)
                /\ UNCHANGED current
           ELSE IF Commanded("executeSysMotion")
           THEN /\ prep' = p
                /\ step_control' = step_control \cup {"endMotion"}
                /\ UNCHANGED current
           ELSE /\ prep' = [p EXCEPT !.loaded = FALSE]
                /\ current' = current + 1        \* plan_discard_current_block
                /\ UNCHANGED step_control
    /\ UNCHANGED <<system_block, st_block_buffer, preparing, timer>>
    /\ GeneratorRest

\* prep_buffer returns; a new cycle or parking motion wakes the stepper up.
EndPass ==
    /\ preparing # "no"
    /\ Commanded("endMotion") \/ ~Room
       \/ (~prep.loaded /\ PlanEmpty /\ ~Commanded("executeSysMotion"))
    /\ preparing' = "no"
    /\ timer' = (timer \/ preparing = "wake")
    /\ UNCHANGED <<generator, step_control>> /\ GeneratorRest

Generator ==
    \/ LoadBlock \/ BailOut \/ EndPass
    \/ \E n \in 1 .. prep.steps_remaining, level \in 0 .. MaxAmassLevel : MakeSegment(n, level)

-----------------------------------------------------------------------------
(* The main program between two passes of prep_buffer. *)

MainRest == UNCHANGED <<segment_buffer, segment_buffer_head, segment_next_head,
                        st_block_buffer, interrupt, timer>>

\* update_plan_block_parameters: the profile of the loaded block is to be
\* computed anew.
Updated == IF prep.loaded THEN [prep EXCEPT !.loaded = FALSE, !.flags = @ \cup {"recalculate"}]
           ELSE prep

BufferLine(l) ==
    /\ preparing = "no" /\ state \in {"Idle", "Cycle"}
    /\ Len(planned) < MaxLines
    /\ planned' = Append(planned, l)
    /\ UNCHANGED <<current, system_block, prep, preparing, rtCycleStop, state, step_control,
                   spent, interrupted>>
    /\ MainRest

\* A new line is planned: planner_recalculate may notify the stepper.
Replan ==
    /\ preparing = "no" /\ state = "Cycle" /\ prep.loaded
    /\ prep' = Updated
    /\ UNCHANGED <<planned, current, system_block, preparing, rtCycleStop, state,
                   step_control, spent, interrupted>>
    /\ MainRest

\* The pass of prep_buffer at the end of protocol_exec_rt_system.
Poll ==
    /\ preparing = "no" /\ state # "Idle" /\ ~Commanded("endMotion")
    /\ preparing' = "poll"
    /\ UNCHANGED <<planned, current, system_block, prep, rtCycleStop, state, step_control,
                   spent, interrupted>>
    /\ MainRest

\* protocol_do_initiate_cycle; a machine that was parked has been restored.
InitiateCycle ==
    /\ preparing = "no" /\ state \in {"Idle", "Held"}
    /\ motor_steps.Z = 0
    /\ ~PlanEmpty \/ state = "Held"
    /\ step_control' = {}
    /\ state' = IF PlanEmpty THEN "Idle" ELSE "Cycle"
    /\ preparing' = IF PlanEmpty THEN "no" ELSE "wake"
    /\ UNCHANGED <<planned, current, system_block, prep, rtCycleStop, spent, interrupted>>
    /\ MainRest

\* A feed hold or an open door in a cycle: protocol_start_holding.
StartHolding ==
    /\ preparing = "no" /\ state = "Cycle"
    /\ spent.holds < MaxHolds
    /\ spent' = [spent EXCEPT !.holds = @ + 1]
    /\ state' = "Hold"
    /\ step_control' = {"executeHold"}
    /\ prep' = Updated
    /\ UNCHANGED <<planned, current, system_block, preparing, rtCycleStop, interrupted>>
    /\ MainRest

\* The same in Idle: protocol_hold_complete.
HoldIdle ==
    /\ preparing = "no" /\ state = "Idle"
    /\ spent.holds < MaxHolds
    /\ spent' = [spent EXCEPT !.holds = @ + 1]
    /\ state' = "Held"
    /\ UNCHANGED <<planned, current, system_block, prep, preparing, rtCycleStop,
                   step_control, interrupted>>
    /\ MainRest

\* protocol_do_cycle_stop: a motion, a hold or a parking motion is over.
CycleStop ==
    /\ preparing = "no" /\ rtCycleStop
    /\ rtCycleStop' = FALSE
    /\ IF state \in {"Idle", "Cycle"}
       THEN state' = "Idle" /\ UNCHANGED <<prep, step_control>>
       ELSE /\ prep' = Updated                   \* plan_cycle_reinitialize
            /\ step_control' = step_control \ {"executeHold", "executeSysMotion"}
            /\ state' = IF state = "Hold" /\ Commanded("executeHold") THEN "Held" ELSE state
    /\ UNCHANGED <<planned, current, system_block, preparing, spent, interrupted>>
    /\ MainRest

Interrupted ==
    IF interrupted = "pending" \/ ~Empty THEN "pending"
    ELSE IF interrupted = "begun" \/ prep.loaded
            \/ (Continues /\ "holdPartialBlock" \notin prep.flags) THEN "begun"
    ELSE IF "holdPartialBlock" \in prep.flags THEN "held" ELSE interrupted

\* mc_parking_motion with parking_setup_buffer.  The retraction and the restore go along
\* Z; a restore whose X and Y are not where they were is left out.
Park(height) ==
    /\ preparing = "no" /\ state = "Held"
    /\ height # motor_steps.Z
    /\ spent.parkings < MaxParkings
    /\ spent' = [spent EXCEPT !.parkings = @ + 1]
    /\ state' = "Parking"
    /\ system_block' = [from |-> motor_steps.Z, to |-> height]
    /\ step_control' = (step_control \cup {"executeSysMotion"}) \ {"endMotion"}
    /\ LET kept == IF "holdPartialBlock" \in prep.flags
                   THEN [prep EXCEPT !.last_st_block_index = prep.st_block_index,
                                     !.last_steps_remaining = prep.steps_remaining]
                   ELSE prep
       IN  prep' = [kept EXCEPT !.loaded = FALSE,
                                !.flags = (@ \cup {"parking"}) \ {"recalculate"}]
    /\ preparing' = "wake"
    /\ interrupted' = Interrupted
    /\ UNCHANGED <<planned, current, rtCycleStop>>
    /\ MainRest

\* The door opens while the machine is being restored: the motion is held.
HoldParking ==
    /\ preparing = "no" /\ state = "Parking"
    /\ step_control \cap {"executeSysMotion", "executeHold"} = {"executeSysMotion"}
    /\ system_block.to < system_block.from
    /\ spent.holds < MaxHolds
    /\ spent' = [spent EXCEPT !.holds = @ + 1]
    /\ step_control' = {"executeHold", "executeSysMotion"}
    /\ prep' = Updated
    /\ UNCHANGED <<planned, current, system_block, preparing, rtCycleStop, state, interrupted>>
    /\ MainRest

\* Mutant: the block that was interrupted is not restored.
RestoredNever == [prep EXCEPT !.loaded = FALSE, !.flags = {}]

\* parking_restore_buffer.
Restored ==
    IF "holdPartialBlock" \in prep.flags
    THEN [prep EXCEPT !.loaded = FALSE,
                      !.st_block_index = prep.last_st_block_index,
                      !.steps_remaining = prep.last_steps_remaining,
                      !.flags = @ \cup {"recalculate"}]
    ELSE [prep EXCEPT !.loaded = FALSE, !.flags = {}]

EndParking ==
    /\ preparing = "no" /\ state = "Parking" /\ ~Commanded("executeSysMotion")
    /\ state' = "Held"
    /\ prep' = Restored
    /\ UNCHANGED <<planned, current, system_block, preparing, rtCycleStop, step_control,
                   spent, interrupted>>
    /\ MainRest

Main ==
    \/ \E l \in Lines : BufferLine(l)
    \/ Replan \/ Poll \/ InitiateCycle \/ StartHolding \/ HoldIdle \/ CycleStop
    \/ \E h \in ParkingHeights \cup {0} : Park(h)
    \/ HoldParking \/ EndParking

-----------------------------------------------------------------------------
(* The interrupt, Stepper::pulse_func. *)

\* Mutant: the counters are initialised for every segment.
BeginsAlways(segment) == TRUE

\* A new index indicates a new block.
Begins(segment) == st.exec_block_index # segment.st_block_index

\* st with the next segment taken up, if none is being executed.
Loaded ==
    LET segment == segment_buffer[segment_buffer_tail]
        block == st_block_buffer[segment.st_block_index]
    IN  IF st.exec THEN st
        ELSE [exec |-> TRUE,
              step_count |-> segment.n_step,
              exec_block_index |-> segment.st_block_index,
              counter |-> IF Begins(segment) THEN [a \in Axes |-> block.step_event_count \div 2]
                          ELSE st.counter,
              steps |-> [a \in Axes |-> block.steps[a] \div Power2[segment.amass_level]]]

\* One step event of the Bresenham algorithm.
Pulse ==
    /\ timer /\ (st.exec \/ ~Empty)
    /\ LET s == Loaded
           block == st_block_buffer[s.exec_block_index]
           count == [a \in Axes |-> s.counter[a] + s.steps[a]]
           moves == {a \in Axes : count[a] > block.step_event_count}
           last == s.step_count = 1
       IN  /\ st' = [s EXCEPT !.exec = ~last, !.step_count = (@ - 1) % StepCounts,
                              !.counter = [a \in Axes |-> IF a \in moves THEN count[a] - block.step_event_count
                                                          ELSE count[a]]]
           /\ motor_steps' = [a \in Axes |-> IF a \notin moves THEN motor_steps[a]
                                             ELSE IF block.down THEN motor_steps[a] - 1
                                             ELSE motor_steps[a] + 1]
           /\ segment_buffer_tail' = IF last THEN NextSegment(segment_buffer_tail)
                                     ELSE segment_buffer_tail
    /\ UNCHANGED <<planned, generator, preparing, timer, rtCycleStop, state, step_control,
                   spent, interrupted>>

\* The generator still has steps of a motion it has begun.
Late == ~Commanded("endMotion") /\ (prep.loaded \/ Continues)

\* The buffer is empty.  The ring is long enough for the generator never to be late in
\* a parking motion; with Underruns it may be late in a line of the program.
ShutDown ==
    /\ timer /\ ~st.exec /\ Empty
    /\ Late => Underruns
    /\ Commanded("executeSysMotion") => Commanded("endMotion")
    /\ timer' = FALSE
    /\ rtCycleStop' = TRUE
    /\ UNCHANGED <<planned, generator, preparing, interrupt, state, step_control, spent,
                   interrupted>>

Next == Generator \/ Main \/ Pulse \/ ShutDown

Spec == Init /\ [][Next]_vars
=============================================================================
