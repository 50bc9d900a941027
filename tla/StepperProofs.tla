---------------------------- MODULE StepperProofs ----------------------------
(***************************************************************************)
(* That the Bresenham data of pending segments are kept, and that the      *)
(* steps follow the lines that were planned, for every size of the ring of *)
(* segments, all lines, AMASS levels, holds and parking motions.           *)
(***************************************************************************)
EXTENDS StepperProperties, WellFoundedInduction, TLAPS

\* At the start nothing is pending.
LEMMA StepperBegins == ASSUME RingsAssumption, MotionAssumption, Init PROVE StepperInv
<1> USE DEF RingsAssumption, Init
<1>1. StepperTyped
  <2>1. planned \in Seq(Lines) /\ current \in Nat \ {0}
    OBVIOUS
  <2>2. motor_steps \in [Axes -> Int] /\ system_block \in [from : Int, to : Int]
    BY DEF NoSteps
  <2>3. segment_buffer_tail \in Segments /\ segment_buffer_head \in Segments
        /\ segment_next_head = NextSegment(segment_buffer_head)
    BY DEF Segments, NextSegment
  <2>4. DOMAIN segment_buffer = Segments /\ DOMAIN st_block_buffer = StBlocks
        /\ \A i \in Segments : segment_buffer[i].st_block_index \in StBlocks
    BY DEF StBlocks, NoSegment
  <2>5. prep \in Preps
    BY DEF Preps, StBlocks
  <2>6. ~st.exec /\ DOMAIN st = {"exec", "step_count", "exec_block_index", "counter", "steps"}
    OBVIOUS
  <2> QED
    BY <2>1, <2>2, <2>3, <2>4, <2>5, <2>6 DEF StepperTyped
<1>2. TimerPlaced
  BY DEF TimerPlaced, Commanded
<1>3. ParkingEnds
  BY DEF ParkingEnds
<1>4. EachHasSegment
  BY DEF EachHasSegment, Pending, Segments
<1> QED
  BY <1>1, <1>2, <1>3, <1>4 DEF StepperInv

-----------------------------------------------------------------------------
(* Types.                                                                   *)

\* The number of steps of a motion.
LEMMA EventCountIsNat ==
    ASSUME MotionAssumption, StepperTyped
    PROVE  /\ EventCount(SystemMotion(system_block)) \in Nat
           /\ ~PlanEmpty => EventCount(LineMotion(planned[current])) \in Nat
<1>1. EventCount(SystemMotion(system_block)) \in Nat
  <2> DEFINE z == IF system_block.to < system_block.from THEN system_block.from - system_block.to
                  ELSE system_block.to - system_block.from
             steps == [NoSteps EXCEPT !.Z = z]
  <2>1. z \in Nat
    BY DEF StepperTyped
  <2> HIDE DEF z
  <2>2. steps.X = 0 /\ steps.Y = 0 /\ steps.Z = z
    BY DEF NoSteps, Axes
  <2> HIDE DEF steps
  <2>3. SystemMotion(system_block).steps = steps
    BY DEF SystemMotion, steps, z
  <2> QED
    BY <2>1, <2>2, <2>3 DEF EventCount, Greater
<1>2. ASSUME ~PlanEmpty PROVE EventCount(LineMotion(planned[current])) \in Nat
  <2>1. planned[current] \in Lines
    BY <1>2 DEF StepperTyped, PlanEmpty
  <2>2. planned[current].X \in Nat /\ planned[current].Y \in Nat
    BY <2>1 DEF MotionAssumption
  <2> QED
    BY <2>2 DEF EventCount, LineMotion, Greater
<1> QED
  BY <1>1, <1>2

\* What the next indices are.
LEMMA NextIndices ==
    ASSUME RingsAssumption
    PROVE  /\ \A i \in Segments : NextSegment(i) \in Segments
           /\ \A i \in StBlocks : next_block_index(i) \in StBlocks
BY DEF RingsAssumption, Segments, StBlocks, NextSegment, next_block_index

\* The generator's data keep their types.
LEMMA UpdatedTyped == ASSUME prep \in Preps PROVE Updated \in Preps
BY DEF Updated, Preps, Flags

LEMMA RestoredTyped == ASSUME prep \in Preps PROVE Restored \in Preps
BY DEF Restored, Preps, Flags

LEMMA LoadTyped ==
    ASSUME RingsAssumption, MotionAssumption, StepperTyped, LoadBlock PROVE StepperTyped'
<1> USE DEF StepperTyped
<1>1. prep' \in Preps /\ DOMAIN st_block_buffer' = StBlocks
  <2>1. CASE Continues
    <3>1. FlagsAfterLoad \in SUBSET Flags
      BY DEF FlagsAfterLoad, Preps
    <3> QED
      BY <2>1, <3>1 DEF LoadBlock, Preps
  <2>2. CASE ~Continues
    <3>1. next_block_index(prep.st_block_index) \in StBlocks
      BY NextIndices DEF Preps
    <3>2. EventCount(IF Commanded("executeSysMotion") THEN SystemMotion(system_block)
                     ELSE LineMotion(planned[current])) \in Nat
      BY EventCountIsNat DEF LoadBlock
    <3> DEFINE n == EventCount(IF Commanded("executeSysMotion") THEN SystemMotion(system_block)
                               ELSE LineMotion(planned[current]))
    <3>3. prep' = [prep EXCEPT !.loaded = TRUE, !.st_block_index = next_block_index(prep.st_block_index),
                               !.steps_remaining = n]
          /\ DOMAIN st_block_buffer' = DOMAIN st_block_buffer
      BY <2>2 DEF LoadBlock
    <3>4. n \in Nat
      BY <3>2
    <3> HIDE DEF n
    <3> QED
      BY <3>1, <3>3, <3>4 DEF Preps
  <2> QED
    BY <2>1, <2>2
<1>2. UNCHANGED <<planned, current, system_block, motor_steps, segment_buffer, segment_buffer_tail,
                  segment_buffer_head, segment_next_head, st>>
  BY DEF LoadBlock, GeneratorRest, interrupt
<1> QED
  BY <1>1, <1>2 DEF Empty

LEMMA HoldTyped ==
    ASSUME NEW p \in Preps, EndHold(p) PROVE prep' \in Preps
BY DEF EndHold, Preps, Flags

LEMMA BailOutTyped == ASSUME StepperTyped, BailOut PROVE StepperTyped'
<1> USE DEF StepperTyped
<1>1. prep' \in Preps
  BY HoldTyped DEF BailOut
<1>2. UNCHANGED <<planned, current, system_block, motor_steps, segment_buffer, segment_buffer_tail,
                  segment_buffer_head, segment_next_head, st_block_buffer, st>>
  BY DEF BailOut, GeneratorRest, interrupt
<1> QED
  BY <1>1, <1>2 DEF Empty

\* What making a segment does to the generator's data.
LEMMA SegmentMade ==
    ASSUME StepperTyped, NEW n \in 1 .. prep.steps_remaining, NEW level, MakeSegment(n, level)
    PROVE  /\ prep' \in Preps /\ current' \in Nat \ {0}
           /\ prep.steps_remaining > 0 /\ prep.loaded /\ ~Commanded("endMotion")
           /\ prep'.st_block_index = prep.st_block_index
           /\ \/ prep'.loaded /\ step_control' = step_control
              \/ prep'.loaded /\ Commanded("executeHold") /\ step_control' = step_control \cup {"endMotion"}
              \/ /\ prep'.loaded /\ prep'.steps_remaining = 0 /\ Commanded("executeSysMotion")
                 /\ step_control' = step_control \cup {"endMotion"}
              \/ ~prep'.loaded /\ ~Commanded("executeSysMotion") /\ step_control' = step_control
<1> DEFINE p == [prep EXCEPT !.steps_remaining = @ - n]
<1>1. p \in Preps /\ prep.steps_remaining > 0 /\ p.steps_remaining = prep.steps_remaining - n
      /\ p.loaded = prep.loaded /\ p.st_block_index = prep.st_block_index
  <2>1. prep \in Preps /\ prep.steps_remaining \in Nat /\ n \in Nat \ {0} /\ n <= prep.steps_remaining
    BY DEF StepperTyped, Preps
  <2>2. prep.steps_remaining - n \in Nat /\ prep.steps_remaining > 0
    BY <2>1
  <2> QED
    BY <2>1, <2>2 DEF Preps
<1>2. prep.loaded /\ ~Commanded("endMotion")
  BY DEF MakeSegment, Working
<1>3. IF p.steps_remaining > 0
      THEN /\ \/ prep' = p /\ UNCHANGED step_control
              \/ Commanded("executeHold") /\ EndHold(p)
           /\ UNCHANGED current
      ELSE IF Commanded("executeSysMotion")
      THEN /\ prep' = p
           /\ step_control' = step_control \cup {"endMotion"}
           /\ UNCHANGED current
      ELSE /\ prep' = [p EXCEPT !.loaded = FALSE]
           /\ current' = current + 1
           /\ UNCHANGED step_control
  BY DEF MakeSegment
<1>4. p.steps_remaining \in Nat /\ current \in Nat \ {0}
  BY <1>1 DEF Preps, StepperTyped
<1> HIDE DEF p
<1>5. CASE prep' = p /\ UNCHANGED step_control /\ UNCHANGED current
  BY <1>1, <1>2, <1>4, <1>5
<1>6. CASE Commanded("executeHold") /\ EndHold(p) /\ UNCHANGED current
  <2>1. prep' \in Preps
    BY <1>1, <1>6, HoldTyped
  <2>2. prep'.loaded = p.loaded /\ prep'.st_block_index = p.st_block_index
    BY <1>1, <1>6 DEF EndHold, Preps
  <2>3. step_control' = step_control \cup {"endMotion"}
    BY <1>6 DEF EndHold
  <2> QED
    BY <1>1, <1>2, <1>4, <1>6, <2>1, <2>2, <2>3
<1>7. CASE /\ ~(p.steps_remaining > 0) /\ Commanded("executeSysMotion") /\ prep' = p
           /\ step_control' = step_control \cup {"endMotion"} /\ UNCHANGED current
  <2>1. p.steps_remaining = 0
    BY <1>4, <1>7
  <2> QED
    BY <1>1, <1>2, <1>4, <1>7, <2>1
<1>8. CASE /\ ~(p.steps_remaining > 0) /\ ~Commanded("executeSysMotion") /\ prep' = [p EXCEPT !.loaded = FALSE]
           /\ current' = current + 1 /\ UNCHANGED step_control
  <2>1. prep' \in Preps /\ ~prep'.loaded /\ prep'.st_block_index = p.st_block_index
    BY <1>1, <1>8 DEF Preps
  <2> QED
    BY <1>1, <1>2, <1>4, <1>8, <2>1
<1> QED
  BY <1>3, <1>5, <1>6, <1>7, <1>8

LEMMA MakeTyped ==
    ASSUME RingsAssumption, StepperTyped, NEW n \in 1 .. prep.steps_remaining, NEW level, MakeSegment(n, level)
    PROVE  StepperTyped'
<1> USE DEF StepperTyped
<1>1. prep' \in Preps /\ current' \in Nat \ {0}
  BY SegmentMade
<1>2. UNCHANGED <<planned, system_block, motor_steps, segment_buffer_tail, st_block_buffer, st>>
  BY DEF MakeSegment, GeneratorRest, interrupt
<1>3. segment_buffer_head' = segment_next_head /\ segment_next_head' = NextSegment(segment_next_head)
      /\ segment_buffer_tail # segment_next_head
  BY DEF MakeSegment, Working, Room, Full
<1>4. segment_buffer_head' \in Segments /\ ~Empty'
  BY <1>2, <1>3, NextIndices DEF Empty
<1>5. DOMAIN segment_buffer' = Segments /\ \A i \in Segments : segment_buffer'[i].st_block_index \in StBlocks
  <2> DEFINE made == [n_step |-> n * Power2[level], amass_level |-> level, st_block_index |-> prep.st_block_index]
  <2>1. segment_buffer' = [segment_buffer EXCEPT ![segment_buffer_head] = made]
    BY DEF MakeSegment
  <2>2. made.st_block_index \in StBlocks
    BY DEF Preps
  <2> HIDE DEF made
  <2> QED
    BY <2>1, <2>2
<1> QED
  BY <1>1, <1>2, <1>3, <1>4, <1>5

LEMMA PassTyped == ASSUME StepperTyped, EndPass PROVE StepperTyped'
BY DEF EndPass, StepperTyped, generator, GeneratorRest, interrupt, Empty

\* The main program changes the generator's data at most.
LEMMA MainTyped == ASSUME MotionAssumption, StepperTyped, Main PROVE StepperTyped'
<1> USE DEF StepperTyped
<1>1. UNCHANGED <<motor_steps, segment_buffer, segment_buffer_tail, segment_buffer_head,
                  segment_next_head, st_block_buffer, st>>
  BY DEF Main, BufferLine, Replan, Poll, InitiateCycle, StartHolding, HoldIdle, CycleStop, Park,
         HoldParking, EndParking, MainRest, interrupt
<1>2. CASE \E l \in Lines : BufferLine(l)
  BY <1>1, <1>2 DEF BufferLine, Empty
<1>3. CASE \E h \in ParkingHeights \cup {0} : Park(h)
  <2>1. PICK h \in ParkingHeights \cup {0} : Park(h)
    BY <1>3
  <2>2. system_block' \in [from : Int, to : Int] /\ UNCHANGED <<planned, current>>
    <3>1. h \in Int
      BY DEF MotionAssumption
    <3>2. motor_steps.Z \in Int
      BY DEF Axes
    <3> QED
      BY <2>1, <3>1, <3>2 DEF Park
  <2>3. prep' \in Preps
    BY <2>1 DEF Park, Preps, Flags
  <2> QED
    BY <1>1, <2>2, <2>3 DEF Empty
<1>4. CASE \/ Replan \/ Poll \/ InitiateCycle \/ StartHolding \/ HoldIdle \/ CycleStop
           \/ HoldParking \/ EndParking
  <2>1. UNCHANGED <<planned, current, system_block>> /\ prep' \in {prep, Updated, Restored}
    BY <1>4 DEF Replan, Poll, InitiateCycle, StartHolding, HoldIdle, CycleStop, HoldParking, EndParking
  <2>2. prep' \in Preps
    BY <2>1, UpdatedTyped, RestoredTyped
  <2> QED
    BY <1>1, <2>1, <2>2 DEF Empty
<1> QED
  BY <1>2, <1>3, <1>4 DEF Main

LEMMA PulseTyped == ASSUME RingsAssumption, StepperTyped, Pulse PROVE StepperTyped'
<1> USE DEF StepperTyped
<1>1. UNCHANGED <<planned, generator>>
  BY DEF Pulse
<1>2. motor_steps' \in [Axes -> Int]
  BY DEF Pulse
<1>3. segment_buffer_tail' \in Segments
  BY NextIndices DEF Pulse
<1>4. /\ DOMAIN st' = {"exec", "step_count", "exec_block_index", "counter", "steps"}
      /\ st'.exec => segment_buffer_tail' = segment_buffer_tail
      /\ st.exec \/ ~Empty
  <2> DEFINE last == Loaded.step_count = 1
  <2>1. DOMAIN Loaded = {"exec", "step_count", "exec_block_index", "counter", "steps"}
    BY DEF Loaded
  <2> DEFINE block == st_block_buffer[Loaded.exec_block_index]
             count == [a \in Axes |-> Loaded.counter[a] + Loaded.steps[a]]
             moves == {a \in Axes : count[a] > block.step_event_count}
             counters == [a \in Axes |-> IF a \in moves THEN count[a] - block.step_event_count ELSE count[a]]
             left == (Loaded.step_count - 1) % StepCounts
  <2>2. st' = [Loaded EXCEPT !.exec = ~last, !.step_count = left, !.counter = counters]
    BY DEF Pulse
  <2>3. /\ segment_buffer_tail' = IF last THEN NextSegment(segment_buffer_tail) ELSE segment_buffer_tail
        /\ st.exec \/ ~Empty
    BY DEF Pulse
  <2> HIDE DEF last, counters, left
  <2>4. DOMAIN st' = DOMAIN Loaded /\ st'.exec = ~last
    BY <2>1, <2>2
  <2> QED
    BY <2>1, <2>3, <2>4
<1>5. st'.exec => ~Empty'
  BY <1>1, <1>4 DEF Empty, generator
<1> QED
  BY <1>1, <1>2, <1>3, <1>4, <1>5 DEF generator

LEMMA ShutDownTyped == ASSUME StepperTyped, ShutDown PROVE StepperTyped'
BY DEF ShutDown, StepperTyped, generator, interrupt, Empty

LEMMA TypesKept ==
    ASSUME RingsAssumption, MotionAssumption, StepperTyped, Next PROVE StepperTyped'
<1>1. CASE \E n \in 1 .. prep.steps_remaining, level \in 0 .. MaxAmassLevel : MakeSegment(n, level)
  BY <1>1, MakeTyped
<1>2. CASE LoadBlock \/ BailOut \/ EndPass
  BY <1>2, LoadTyped, BailOutTyped, PassTyped
<1>3. CASE Main \/ Pulse \/ ShutDown
  BY <1>3, MainTyped, PulseTyped, ShutDownTyped
<1> QED
  BY <1>1, <1>2, <1>3 DEF Next, Generator

-----------------------------------------------------------------------------
(* When the interrupt is enabled.                                           *)

\* What the generator leaves alone.
LEMMA GeneratorLeaves ==
    ASSUME Generator PROVE UNCHANGED <<planned, interrupt, rtCycleStop, state, spent, interrupted>>
<1>1. LoadBlock \/ BailOut \/ EndPass => GeneratorRest
  BY DEF LoadBlock, BailOut, EndPass
<1>2. \A n, level : MakeSegment(n, level) => GeneratorRest
  BY DEF MakeSegment
<1> QED
  BY <1>1, <1>2 DEF Generator, GeneratorRest

LEMMA TimerKept == ASSUME TimerPlaced, Next PROVE TimerPlaced'
<1> USE DEF TimerPlaced
<1>1. CASE LoadBlock \/ BailOut
  BY <1>1 DEF LoadBlock, BailOut, GeneratorRest, EndHold, Commanded
<1>2. CASE \E n \in 1 .. prep.steps_remaining, level \in 0 .. MaxAmassLevel : MakeSegment(n, level)
  <2>1. UNCHANGED <<state, rtCycleStop, preparing, timer>> /\ step_control \subseteq step_control'
    BY <1>2 DEF MakeSegment, GeneratorRest, EndHold
  <2> QED
    BY <2>1 DEF Commanded
<1>3. CASE EndPass
  <2>1. UNCHANGED <<state, rtCycleStop, step_control>> /\ preparing' = "no"
        /\ timer' = (timer \/ preparing = "wake")
    BY <1>3 DEF EndPass, GeneratorRest
  <2>2. CASE preparing = "wake"
    BY <2>1, <2>2 DEF Commanded
  <2>3. CASE preparing # "wake"
    <3>1. timer' = timer
      BY <2>1, <2>3
    <3> QED
      BY <2>1, <3>1 DEF Commanded
  <2> QED
    BY <2>2, <2>3
<1>4. CASE Pulse
  BY <1>4 DEF Pulse, Commanded
<1>5. CASE ShutDown
  BY <1>5 DEF ShutDown, Commanded
<1>6. CASE \/ \E l \in Lines : BufferLine(l)
           \/ Replan \/ Poll \/ InitiateCycle \/ StartHolding \/ HoldIdle
  BY <1>6 DEF BufferLine, Replan, Poll, InitiateCycle, StartHolding, HoldIdle, MainRest, Commanded
<1>7. CASE CycleStop
  BY <1>7 DEF CycleStop, MainRest, Commanded
<1>8. CASE \/ \E h \in ParkingHeights \cup {0} : Park(h)
           \/ HoldParking \/ EndParking
  BY <1>8 DEF Park, HoldParking, EndParking, MainRest, Commanded
<1> QED
  BY <1>1, <1>2, <1>3, <1>4, <1>5, <1>6, <1>7, <1>8 DEF Next, Generator, Main

-----------------------------------------------------------------------------
(* Parking motions.                                                         *)

\* An update of the profile leaves the block begun, its steps and its place.
LEMMA UpdatedLeaves ==
    ASSUME prep \in Preps, prep' = Updated
    PROVE  /\ Begun' <=> Begun
           /\ prep'.steps_remaining = prep.steps_remaining
           /\ prep'.st_block_index = prep.st_block_index
BY DEF Updated, Begun, Continues, Preps

LEMMA ParkingKept ==
    ASSUME StepperTyped, TimerPlaced, ParkingEnds, Next PROVE ParkingEnds'
<1> USE DEF ParkingEnds
<1>0. prep \in Preps
  BY DEF StepperTyped
<1>1. CASE LoadBlock
  <2>1. UNCHANGED <<state, interrupted, rtCycleStop, step_control, segment_buffer_head, segment_buffer_tail>>
    BY <1>1 DEF LoadBlock, GeneratorRest, interrupt
  <2>2. ~Commanded("endMotion") /\ prep'.loaded
    <3>1. ~Commanded("endMotion")
      BY <1>1 DEF LoadBlock, Working
    <3>2. CASE Continues
      <4>1. prep' = [prep EXCEPT !.loaded = TRUE, !.flags = FlagsAfterLoad]
        BY <1>1, <3>2 DEF LoadBlock
      <4> QED
        BY <1>0, <3>1, <4>1 DEF Preps
    <3>3. CASE ~Continues
      <4> DEFINE count == EventCount(IF Commanded("executeSysMotion") THEN SystemMotion(system_block)
                                     ELSE LineMotion(planned[current]))
      <4>1. prep' = [prep EXCEPT !.loaded = TRUE, !.st_block_index = next_block_index(prep.st_block_index),
                                 !.steps_remaining = count]
        BY <1>1, <3>3 DEF LoadBlock
      <4> HIDE DEF count
      <4> QED
        BY <1>0, <3>1, <4>1 DEF Preps
    <3> QED
      BY <3>1, <3>2, <3>3
  <2>3. NoneLeft => NoneLeft'
    <3>1. ~prep.loaded
      BY <1>1 DEF LoadBlock
    <3>2. ASSUME Continues PROVE prep'.steps_remaining = prep.steps_remaining
      BY <1>0, <1>1, <3>2 DEF LoadBlock, Preps
    <3> QED
      BY <2>2, <3>1, <3>2 DEF NoneLeft, Begun
  <2> QED
    BY <2>1, <2>2, <2>3 DEF Commanded, Empty
<1>2. CASE BailOut
  <2>1. UNCHANGED <<state, interrupted, rtCycleStop, segment_buffer_head, segment_buffer_tail>>
        /\ step_control' = step_control \cup {"endMotion"} /\ Commanded("executeHold")
    BY <1>2 DEF BailOut, GeneratorRest, interrupt, EndHold
  <2> QED
    BY <2>1 DEF Commanded, Empty
<1>3. CASE \E n \in 1 .. prep.steps_remaining, level \in 0 .. MaxAmassLevel : MakeSegment(n, level)
  <2>1. PICK n \in 1 .. prep.steps_remaining, level \in 0 .. MaxAmassLevel : MakeSegment(n, level)
    BY <1>3
  <2>2. UNCHANGED <<state, interrupted, rtCycleStop>>
    BY <2>1 DEF MakeSegment, GeneratorRest
  <2>3. /\ prep.steps_remaining > 0 /\ ~Commanded("endMotion")
        /\ \/ step_control' = step_control
           \/ Commanded("executeHold") /\ step_control' = step_control \cup {"endMotion"}
           \/ prep'.loaded /\ prep'.steps_remaining = 0 /\ step_control' = step_control \cup {"endMotion"}
    BY <2>1, SegmentMade
  <2>4. ~NoneLeft
    BY <2>3 DEF NoneLeft
  <2> QED
    BY <2>2, <2>3, <2>4 DEF Commanded, NoneLeft, Begun
<1>4. CASE EndPass
  BY <1>4 DEF EndPass, GeneratorRest, generator, interrupt, Commanded, Empty, NoneLeft, Begun, Continues
<1>5. CASE Pulse
  <2>1. UNCHANGED <<state, interrupted, rtCycleStop, step_control, prep>> /\ timer
    BY <1>5 DEF Pulse, generator
  <2> QED
    BY <2>1 DEF TimerPlaced, Commanded, NoneLeft, Begun, Continues
<1>6. CASE ShutDown
  <2>1. UNCHANGED <<state, interrupted, step_control, prep, segment_buffer_head, segment_buffer_tail>> /\ timer
        /\ Empty /\ (Commanded("executeSysMotion") => Commanded("endMotion"))
    BY <1>6 DEF ShutDown, generator, interrupt
  <2> QED
    BY <2>1 DEF TimerPlaced, Commanded, Empty, NoneLeft, Begun, Continues
<1>7. CASE \/ \E l \in Lines : BufferLine(l)
           \/ Replan \/ Poll \/ InitiateCycle \/ StartHolding \/ HoldIdle
  <2>1. CASE state' # "Parking"
    BY <2>1
  <2>2. CASE state' = "Parking"
    BY <1>7, <2>2 DEF BufferLine, Replan, Poll, InitiateCycle, StartHolding, HoldIdle, MainRest, interrupt, Commanded,
                      Empty, NoneLeft, Begun, Continues
  <2> QED
    BY <2>1, <2>2
<1>8. CASE CycleStop
  <2>1. CASE state' = "Parking"
    <3>1. state = "Parking" /\ prep' = Updated /\ rtCycleStop /\ ~rtCycleStop'
          /\ step_control' = step_control \ {"executeHold", "executeSysMotion"}
          /\ UNCHANGED <<interrupted, segment_buffer_head, segment_buffer_tail>>
      BY <1>8, <2>1 DEF CycleStop, MainRest, interrupt
    <3>2. NoneLeft => NoneLeft'
      BY <1>0, <3>1, UpdatedLeaves DEF NoneLeft
    <3> QED
      BY <3>1, <3>2 DEF Commanded, Empty
  <2> QED
    BY <2>1
<1>9. CASE \E h \in ParkingHeights \cup {0} : Park(h)
  <2>1. ~rtCycleStop' /\ step_control' = (step_control \cup {"executeSysMotion"}) \ {"endMotion"}
    BY <1>9 DEF Park, TimerPlaced
  <2> QED
    BY <2>1 DEF Commanded
<1>10. CASE HoldParking
  <2>1. /\ state = "Parking" /\ prep' = Updated /\ step_control' = {"executeHold", "executeSysMotion"}
        /\ Commanded("executeSysMotion") /\ ~Commanded("executeHold")
        /\ UNCHANGED <<state, interrupted, rtCycleStop, segment_buffer_head, segment_buffer_tail>>
    BY <1>10 DEF HoldParking, MainRest, interrupt, Commanded
  <2>2. NoneLeft => NoneLeft'
    BY <1>0, <2>1, UpdatedLeaves DEF NoneLeft
  <2> QED
    BY <2>1, <2>2 DEF Commanded, Empty
<1>11. CASE EndParking
  BY <1>11 DEF EndParking
<1> QED
  BY <1>1, <1>2, <1>3, <1>4, <1>5, <1>6, <1>7, <1>8, <1>9, <1>10, <1>11 DEF Next, Generator, Main

-----------------------------------------------------------------------------
(* The Bresenham data of pending segments.                                  *)

\* Pending segments are behind the head, and fewer than the ring has slots for.
LEMMA PendingBehind ==
    ASSUME RingsAssumption, StepperTyped, NEW i \in Pending
    PROVE  /\ i \in Segments /\ Ago(i) \in 1 .. SEGMENT_BUFFER_SIZE - 1
           /\ segment_buffer[i].st_block_index \in StBlocks
           /\ ~Full => Ago(i) < SEGMENT_BUFFER_SIZE - 1
BY DEF RingsAssumption, StepperTyped, Pending, Ago, Segments, NextSegment, Full

\* Nothing is pending if the ring is empty.
LEMMA NonePending == ASSUME StepperTyped, Empty PROVE Pending = {}
BY DEF StepperTyped, Pending, Empty, Segments

\* How far back an index is.
LEMMA Ages ==
    ASSUME RingsAssumption, prep \in Preps, NEW index \in StBlocks
    PROVE  Age(index) \in 0 .. SEGMENT_BUFFER_SIZE - 2
BY DEF RingsAssumption, Preps, Age, StBlocks

\* Advancing the index makes all others one older, but the one it comes to.
LEMMA OneOlder ==
    ASSUME RingsAssumption, prep \in Preps, prep' \in Preps, NEW index \in StBlocks,
           Age(index) < SEGMENT_BUFFER_SIZE - 2,
           prep'.st_block_index = next_block_index(prep.st_block_index)
    PROVE  Age(index)' = Age(index) + 1 /\ next_block_index(prep.st_block_index) # index
<1>1. prep.st_block_index \in StBlocks
  BY DEF Preps
<1> QED
  BY <1>1 DEF RingsAssumption, Age, StBlocks, next_block_index

\* A block is loaded into data that no pending segment uses.
LEMMA LoadedApart ==
    ASSUME RingsAssumption, StepperTyped, EachHasSegment, interrupted # "pending",
           LoadBlock, ~Continues, NEW i \in Pending
    PROVE  /\ segment_buffer[i].st_block_index # next_block_index(prep.st_block_index)
           /\ Age(segment_buffer[i].st_block_index) < SEGMENT_BUFFER_SIZE - 2
<1>1. ~Full /\ ~Begun
  BY DEF LoadBlock, Working, Room, Begun
<1>2. Age(segment_buffer[i].st_block_index) < Ago(i)
  BY <1>1 DEF EachHasSegment
<1>3. /\ Ago(i) \in 1 .. SEGMENT_BUFFER_SIZE - 1 /\ Ago(i) < SEGMENT_BUFFER_SIZE - 1
      /\ segment_buffer[i].st_block_index \in StBlocks
  BY <1>1, PendingBehind
<1>4. Age(segment_buffer[i].st_block_index) \in 0 .. SEGMENT_BUFFER_SIZE - 2
      /\ prep \in Preps
  BY <1>3, Ages DEF StepperTyped
<1>5. Age(segment_buffer[i].st_block_index) < SEGMENT_BUFFER_SIZE - 2
  BY <1>2, <1>3, <1>4 DEF RingsAssumption
<1>6. prep.st_block_index \in StBlocks
  BY <1>4 DEF Preps
<1> DEFINE index == segment_buffer[i].st_block_index
<1>7. index \in StBlocks /\ Age(index) < SEGMENT_BUFFER_SIZE - 2
  BY <1>3, <1>5
<1> HIDE DEF index
<1>8. index # next_block_index(prep.st_block_index)
  BY <1>6, <1>7 DEF RingsAssumption, Age, StBlocks, next_block_index
<1> QED
  BY <1>5, <1>8 DEF index

\* Steps that leave the rings and the index alone, and begin nothing or forget nothing.
LEMMA AgesKept ==
    ASSUME EachHasSegment, Begun => Begun', prep'.st_block_index = prep.st_block_index,
           UNCHANGED <<segment_buffer, segment_buffer_head, segment_buffer_tail, interrupted>>,
           StepperTyped, RingsAssumption
    PROVE  EachHasSegment'
<1> SUFFICES ASSUME interrupted # "pending", NEW i \in Pending'
             PROVE  (Age(segment_buffer[i].st_block_index) < IF Begun THEN Ago(i) + 1 ELSE Ago(i))'
  BY DEF EachHasSegment
<1>1. i \in Pending /\ Ago(i)' = Ago(i)
      /\ Age(segment_buffer[i].st_block_index)' = Age(segment_buffer[i].st_block_index)
  BY DEF Pending, Ago, Age
<1>2. Ago(i) \in Int /\ Age(segment_buffer[i].st_block_index) \in Int
  BY <1>1, PendingBehind, Ages DEF StepperTyped
<1>3. Age(segment_buffer[i].st_block_index) < IF Begun THEN Ago(i) + 1 ELSE Ago(i)
  BY <1>1 DEF EachHasSegment
<1> QED
  BY <1>1, <1>2, <1>3

\* The block that is loaded leaves the data of pending segments alone.
LEMMA AgesAfterLoad ==
    ASSUME RingsAssumption, MotionAssumption, StepperTyped, EachHasSegment, LoadBlock
    PROVE  EachHasSegment'
<1>1. prep \in Preps /\ prep' \in Preps
  BY LoadTyped DEF StepperTyped
<1>2. UNCHANGED <<segment_buffer, segment_buffer_head, segment_buffer_tail, interrupted>>
  BY DEF LoadBlock, GeneratorRest, interrupt
<1>3. CASE Continues
  <2>1. prep' = [prep EXCEPT !.loaded = TRUE, !.flags = FlagsAfterLoad]
    BY <1>3 DEF LoadBlock
  <2>2. prep'.loaded /\ prep'.st_block_index = prep.st_block_index
    BY <1>1, <2>1 DEF Preps
  <2> QED
    BY <1>2, <2>2, AgesKept DEF Begun
<1>4. CASE ~Continues
  <2>1. prep'.loaded /\ prep'.st_block_index = next_block_index(prep.st_block_index)
    <3> DEFINE count == EventCount(IF Commanded("executeSysMotion") THEN SystemMotion(system_block)
                                   ELSE LineMotion(planned[current]))
    <3>1. prep' = [prep EXCEPT !.loaded = TRUE, !.st_block_index = next_block_index(prep.st_block_index),
                               !.steps_remaining = count]
      BY <1>4 DEF LoadBlock
    <3> HIDE DEF count
    <3> QED
      BY <1>1, <3>1 DEF Preps
  <2> SUFFICES ASSUME interrupted # "pending", NEW i \in Pending
               PROVE  (Age(segment_buffer[i].st_block_index) < IF Begun THEN Ago(i) + 1 ELSE Ago(i))'
    BY <1>2 DEF EachHasSegment, Pending
  <2>2. /\ segment_buffer[i].st_block_index \in StBlocks
        /\ Age(segment_buffer[i].st_block_index) < SEGMENT_BUFFER_SIZE - 2
        /\ Ago(i) \in Int
    BY <1>4, LoadedApart, PendingBehind
  <2>3. Age(segment_buffer[i].st_block_index)' = Age(segment_buffer[i].st_block_index) + 1
    BY <1>1, <1>2, <2>1, <2>2, OneOlder DEF Age
  <2>4. Age(segment_buffer[i].st_block_index) < Ago(i)
    <3>1. ~Begun
      BY <1>4 DEF LoadBlock, Begun
    <3> QED
      BY <3>1 DEF EachHasSegment
  <2>5. Ago(i)' = Ago(i) /\ Begun'
    BY <1>2, <2>1 DEF Ago, Begun
  <2>6. Age(segment_buffer[i].st_block_index) \in Int
    BY <1>1, <2>2, Ages
  <2> QED
    BY <2>2, <2>3, <2>4, <2>5, <2>6
<1> QED
  BY <1>3, <1>4

\* A new segment is the youngest, and all others are one further back.
LEMMA AgesAfterSegment ==
    ASSUME RingsAssumption, StepperTyped, EachHasSegment,
           NEW n \in 1 .. prep.steps_remaining, NEW level, MakeSegment(n, level)
    PROVE  EachHasSegment'
<1>1. /\ segment_buffer_head' = NextSegment(segment_buffer_head)
      /\ segment_buffer_tail # NextSegment(segment_buffer_head)
      /\ segment_buffer_tail \in Segments /\ segment_buffer_head \in Segments
      /\ UNCHANGED <<interrupted, segment_buffer_tail>>
  BY DEF MakeSegment, Working, Room, Full, StepperTyped, GeneratorRest, interrupt
<1>2. /\ prep \in Preps /\ prep' \in Preps /\ prep'.st_block_index = prep.st_block_index
      /\ prep.st_block_index \in StBlocks
  BY SegmentMade DEF StepperTyped, Preps
<1>3. /\ segment_buffer'[segment_buffer_head].st_block_index = prep.st_block_index
      /\ \A i \in Segments \ {segment_buffer_head} : segment_buffer'[i] = segment_buffer[i]
  <2> DEFINE made == [n_step |-> n * Power2[level], amass_level |-> level, st_block_index |-> prep.st_block_index]
  <2>1. segment_buffer' = [segment_buffer EXCEPT ![segment_buffer_head] = made]
    BY DEF MakeSegment
  <2>2. made.st_block_index = prep.st_block_index /\ DOMAIN segment_buffer = Segments
    BY DEF StepperTyped
  <2> HIDE DEF made
  <2> QED
    BY <1>1, <2>1, <2>2
<1> SUFFICES ASSUME interrupted # "pending", NEW i \in Pending'
             PROVE  (Age(segment_buffer[i].st_block_index) < IF Begun THEN Ago(i) + 1 ELSE Ago(i))'
  BY <1>1 DEF EachHasSegment
<1>4. CASE i = segment_buffer_head
  <2>1. Ago(i)' = 1
    BY <1>1, <1>4 DEF Ago, NextSegment, Segments, RingsAssumption
  <2>2. Age(segment_buffer[i].st_block_index)' = 0
    BY <1>2, <1>3, <1>4 DEF Age, StBlocks
  <2> QED
    BY <2>1, <2>2
<1>5. CASE i # segment_buffer_head
  <2>1. i \in Pending /\ Ago(i)' = Ago(i) + 1
    BY <1>1, <1>5 DEF Pending, Ago, NextSegment, Segments, RingsAssumption
  <2>2. /\ segment_buffer'[i] = segment_buffer[i]
        /\ segment_buffer[i].st_block_index \in StBlocks /\ Ago(i) \in Int
    BY <1>3, <1>5, <2>1, PendingBehind
  <2>3. Age(segment_buffer[i].st_block_index)' = Age(segment_buffer[i].st_block_index)
    BY <1>2, <2>2 DEF Age
  <2>4. Age(segment_buffer[i].st_block_index) \in Int
    BY <1>2, <2>2, Ages
  <2>5. Age(segment_buffer[i].st_block_index) < Ago(i) + 1
    BY <2>1, <2>2, <2>4 DEF EachHasSegment
  <2> QED
    BY <2>1, <2>2, <2>3, <2>4, <2>5
<1> QED
  BY <1>4, <1>5

\* A segment that is done is pending no more.
LEMMA AgesAfterPulse ==
    ASSUME RingsAssumption, StepperTyped, EachHasSegment, Pulse PROVE EachHasSegment'
<1>1. UNCHANGED <<segment_buffer, segment_buffer_head, prep, interrupted>>
      /\ segment_buffer_tail' \in {segment_buffer_tail, NextSegment(segment_buffer_tail)} /\ ~Empty
  BY DEF Pulse, generator, StepperTyped
<1>2. Pending' \subseteq Pending
  BY <1>1 DEF StepperTyped, RingsAssumption, Pending, NextSegment, Segments, Empty
<1>3. Begun' = Begun /\ \A i : Ago(i)' = Ago(i)
      /\ Age(segment_buffer[i].st_block_index)' = Age(segment_buffer[i].st_block_index)
  BY <1>1 DEF Begun, Continues, Ago, Age
<1> QED
  BY <1>1, <1>2, <1>3 DEF EachHasSegment

LEMMA AgesAfterMain ==
    ASSUME RingsAssumption, StepperTyped, ParkingEnds, EachHasSegment, Main PROVE EachHasSegment'
<1>1. UNCHANGED <<segment_buffer, segment_buffer_head, segment_buffer_tail>> /\ prep \in Preps
  BY DEF Main, BufferLine, Replan, Poll, InitiateCycle, StartHolding, HoldIdle, CycleStop, Park,
         HoldParking, EndParking, MainRest, interrupt, StepperTyped
<1>2. CASE \/ \E l \in Lines : BufferLine(l)
           \/ Replan \/ Poll \/ InitiateCycle \/ StartHolding \/ HoldIdle \/ CycleStop \/ HoldParking
  <2>1. prep' \in {prep, Updated} /\ interrupted' = interrupted
    BY <1>2 DEF BufferLine, Replan, Poll, InitiateCycle, StartHolding, HoldIdle, CycleStop, HoldParking
  <2>2. CASE prep' = prep
    BY <1>1, <2>1, <2>2, AgesKept DEF Begun, Continues
  <2>3. CASE prep' = Updated
    BY <1>1, <2>1, <2>3, UpdatedLeaves, AgesKept
  <2> QED
    BY <2>1, <2>2, <2>3
<1>3. CASE (\E h \in ParkingHeights \cup {0} : Park(h)) \/ EndParking
  <2>1. interrupted' # "pending" => Empty
    BY <1>3 DEF Park, EndParking, Interrupted, ParkingEnds
  <2>2. interrupted' # "pending" => Pending' = {}
    BY <1>1, <2>1, NonePending DEF Pending
  <2> QED
    BY <2>2 DEF EachHasSegment
<1> QED
  BY <1>2, <1>3 DEF Main

LEMMA AgesStay ==
    ASSUME RingsAssumption, MotionAssumption, StepperTyped, ParkingEnds, EachHasSegment, Next
    PROVE  EachHasSegment'
<1>1. CASE \E n \in 1 .. prep.steps_remaining, level \in 0 .. MaxAmassLevel : MakeSegment(n, level)
  BY <1>1, AgesAfterSegment
<1>2. CASE BailOut
  <2>1. prep' \in Preps /\ prep'.loaded /\ prep'.st_block_index = prep.st_block_index
    BY <1>2 DEF BailOut, EndHold, StepperTyped, Preps, Flags
  <2>2. UNCHANGED <<segment_buffer, segment_buffer_head, segment_buffer_tail, interrupted>>
    BY <1>2 DEF BailOut, GeneratorRest, interrupt
  <2> QED
    BY <2>1, <2>2, AgesKept DEF Begun
<1>3. CASE EndPass \/ ShutDown
  <2>1. UNCHANGED <<prep, segment_buffer, segment_buffer_head, segment_buffer_tail, interrupted>>
    BY <1>3 DEF EndPass, ShutDown, generator, GeneratorRest, interrupt
  <2> QED
    BY <2>1, AgesKept DEF Begun, Continues
<1>4. CASE LoadBlock \/ Main \/ Pulse
  BY <1>4, AgesAfterLoad, AgesAfterMain, AgesAfterPulse
<1> QED
  BY <1>1, <1>2, <1>3, <1>4 DEF Next, Generator

-----------------------------------------------------------------------------
(* Data in use.                                                             *)

LEMMA StepperInvariant == Spec => []StepperInv
<1>1. StepperInv /\ [Next]_vars => StepperInv'
  <2>1. StepperInv /\ Next => StepperInv'
    BY TypesKept, TimerKept, ParkingKept, AgesStay, RingsAssumption, MotionAssumption DEF StepperInv
  <2>2. StepperInv /\ UNCHANGED vars => StepperInv'
    BY DEF vars, generator, interrupt, StepperInv, StepperTyped, TimerPlaced, ParkingEnds, EachHasSegment,
           Empty, Commanded, NoneLeft, Begun, Continues, Pending, Ago, Age
  <2> QED
    BY <2>1, <2>2
<1> QED
  BY <1>1, StepperBegins, RingsAssumption, MotionAssumption, PTL DEF Spec

\* No step of the generator, of the program or of the interrupt changes data of a segment
\* that is pending, for every size of the ring, all lines, holds and parking motions.
THEOREM DataAlwaysKept == Spec => DataInUseKept
<1> DEFINE Kept == interrupted # "pending" =>
                      \A i \in Pending : LET index == segment_buffer[i].st_block_index
                                         IN  st_block_buffer'[index] = st_block_buffer[index]
<1>1. StepperInv /\ [Next]_vars => [Kept]_vars
  <2> SUFFICES ASSUME StepperInv, Next, interrupted # "pending", NEW i \in Pending
               PROVE  st_block_buffer'[segment_buffer[i].st_block_index]
                      = st_block_buffer[segment_buffer[i].st_block_index]
    OBVIOUS
  <2>1. CASE LoadBlock /\ ~Continues
    <3> DEFINE motion == IF Commanded("executeSysMotion") THEN SystemMotion(system_block)
                         ELSE LineMotion(planned[current])
               block == StBlock(motion)
               index == segment_buffer[i].st_block_index
    <3>1. st_block_buffer' = [st_block_buffer EXCEPT ![next_block_index(prep.st_block_index)] = block]
      BY <2>1 DEF LoadBlock
    <3>2. index # next_block_index(prep.st_block_index) /\ index \in StBlocks
          /\ DOMAIN st_block_buffer = StBlocks
      BY <2>1, LoadedApart, PendingBehind, RingsAssumption DEF StepperInv, StepperTyped
    <3> HIDE DEF block, index
    <3>3. st_block_buffer'[index] = st_block_buffer[index]
      BY <3>1, <3>2
    <3> QED
      BY <3>3 DEF index
  <2>2. CASE ~(LoadBlock /\ ~Continues)
    <3>1. st_block_buffer' = st_block_buffer
      <4>1. CASE LoadBlock
        BY <2>2, <4>1 DEF LoadBlock
      <4>2. CASE \E n \in 1 .. prep.steps_remaining, level \in 0 .. MaxAmassLevel : MakeSegment(n, level)
        BY <4>2 DEF MakeSegment
      <4>3. CASE BailOut \/ EndPass \/ Pulse \/ ShutDown
        BY <4>3 DEF BailOut, EndPass, Pulse, ShutDown, generator
      <4>4. CASE Main
        BY <4>4 DEF Main, BufferLine, Replan, Poll, InitiateCycle, StartHolding, HoldIdle, CycleStop, Park,
                    HoldParking, EndParking, MainRest
      <4> QED
        BY <4>1, <4>2, <4>3, <4>4 DEF Next, Generator
    <3> QED
      BY <3>1
  <2> QED
    BY <2>1, <2>2
<1>2. Spec => [][Kept]_vars
  BY <1>1, StepperInvariant, PTL DEF Spec
<1> QED
  BY <1>2 DEF DataInUseKept

-----------------------------------------------------------------------------
(* Recursive functions and sums.                                            *)

\* Every set of naturals that is not empty has a least element.
LEMMA LeastNumber == ASSUME NEW T \in SUBSET Nat, T # {}
                     PROVE  \E n \in T : \A k \in T : n <= k
<1> DEFINE R == OpToRel(<, Nat)
<1>1. IsWellFoundedOn(R, Nat)
  BY ONLY NatLessThanWellFounded, Zenon
<1>2. \A m, n \in Nat : m < n => <<m, n>> \in R
  BY DEF OpToRel
<1> HIDE DEF R
<1>3. \E x \in T : \A y \in T : ~(<<y, x>> \in R)
  BY <1>1, WFMin
<1>4. PICK x \in T : \A y \in T : ~(<<y, x>> \in R)
  BY <1>3
<1>5. \A k \in T : k \in Nat /\ ~(k < x)
  BY <1>2, <1>4
<1> QED
  BY <1>5

\* Induction: a set that has 0, and with every number the next one, has them all.
LEMMA InductionOverSets ==
  ASSUME NEW T, 0 \in T, \A n \in Nat : n \in T => n + 1 \in T
  PROVE  Nat \subseteq T
<1> DEFINE U == {n \in Nat : n \notin T}
<1> SUFFICES ASSUME U # {} PROVE FALSE
  OBVIOUS
<1>1. PICK n \in U : \A k \in U : n <= k
  <2> HIDE DEF U
  <2>1. U \in SUBSET Nat
    BY DEF U
  <2> QED
    BY <2>1, LeastNumber
<1>2. n # 0 /\ n - 1 \in Nat
  OBVIOUS
<1>3. n - 1 \in T
  BY <1>1, <1>2
<1> QED
  BY <1>2, <1>3

\* f is given by its value at 0, and by each value from the one before.
GivenBy(f, a, F) == f[0] = a /\ \A n \in Nat \ {0} : f[n] = F[<<n, f[n - 1]>>]

\* A function that is given by its value at 0 and by each value from the one before
\* exists, so that what CHOOSE names is that function.
LEMMA FunctionByRecursion ==
  ASSUME NEW T, NEW a \in T, NEW F \in [Nat \X T -> T]
  PROVE  \E f \in [Nat -> T] : GivenBy(f, a, F)
<1> DEFINE Part(g, m) == /\ g \in [0 .. m -> T]
                         /\ \A i \in 0 .. m : g[i] = IF i = 0 THEN a ELSE F[<<i, g[i - 1]>>]
           Have == {m \in Nat : \E g : Part(g, m)}
<1>1. Nat \subseteq Have
  <2>1. 0 \in Have
    <3>1. Part([i \in 0 .. 0 |-> a], 0)
      OBVIOUS
    <3> QED
      BY <3>1
  <2>2. ASSUME NEW m \in Nat, m \in Have PROVE m + 1 \in Have
    <3>1. PICK g : Part(g, m)
      BY <2>2
    <3> DEFINE h == [i \in 0 .. m + 1 |-> IF i = m + 1 THEN F[<<m + 1, g[m]>>] ELSE g[i]]
    <3>2. h \in [0 .. m + 1 -> T]
      BY <3>1
    <3>3. ASSUME NEW i \in 0 .. m + 1 PROVE h[i] = IF i = 0 THEN a ELSE F[<<i, h[i - 1]>>]
      <4>1. CASE i = m + 1
        <5>1. i # 0 /\ i - 1 = m /\ m # m + 1 /\ m \in 0 .. m + 1
          BY <4>1
        <5>2. h[i] = F[<<m + 1, g[m]>>] /\ h[i - 1] = g[m]
          BY <4>1, <5>1
        <5> QED
          BY <4>1, <5>1, <5>2
      <4>2. CASE i # m + 1 /\ i # 0
        <5>1. i \in 0 .. m /\ i - 1 \in 0 .. m
          BY <4>2
        <5>2. h[i] = g[i] /\ h[i - 1] = g[i - 1]
          BY <5>1
        <5> QED
          BY <5>1, <5>2, <3>1, <4>2
      <4>3. CASE i = 0
        <5>1. h[0] = g[0] /\ 0 \in 0 .. m
          OBVIOUS
        <5> QED
          BY <4>3, <3>1, <5>1
      <4> QED
        BY <4>1, <4>2, <4>3
    <3> HIDE DEF h
    <3>4. Part(h, m + 1)
      BY <3>2, <3>3
    <3> QED
      BY <3>4
  <2> HIDE DEF Have
  <2> QED
    BY <2>1, <2>2, InductionOverSets
<1>2. ASSUME NEW m \in Nat, NEW g, NEW n \in Nat, NEW h, Part(g, m), Part(h, n)
      PROVE  \A i \in Nat : i <= m /\ i <= n => g[i] = h[i]
  <2> DEFINE Same == {i \in Nat : i <= m /\ i <= n => g[i] = h[i]}
  <2>1. 0 \in Same
    <3>1. 0 \in 0 .. m /\ 0 \in 0 .. n
      OBVIOUS
    <3>2. g[0] = a /\ h[0] = a
      BY <3>1, <1>2
    <3> QED
      BY <3>2
  <2>2. ASSUME NEW i \in Nat, i \in Same PROVE i + 1 \in Same
    <3> SUFFICES ASSUME i + 1 <= m, i + 1 <= n PROVE g[i + 1] = h[i + 1]
      OBVIOUS
    <3>1. g[i] = h[i] /\ i + 1 \in 0 .. m /\ i + 1 \in 0 .. n /\ (i + 1) - 1 = i /\ i + 1 # 0
      BY <2>2
    <3> QED
      BY <3>1, <1>2
  <2> HIDE DEF Same
  <2>3. Nat \subseteq Same
    BY <2>1, <2>2, InductionOverSets
  <2> QED
    BY <2>3 DEF Same
<1> DEFINE P(m) == CHOOSE g : Part(g, m)
           f == [n \in Nat |-> P(n)[n]]
<1>3. \A m \in Nat : Part(P(m), m)
  BY <1>1
<1> HIDE DEF P, Part, Have
<1>4. f \in [Nat -> T]
  BY <1>3 DEF Part
<1>5. ASSUME NEW n \in Nat PROVE f[n] = IF n = 0 THEN a ELSE F[<<n, f[n - 1]>>]
  <2>1. CASE n = 0
    <3>1. Part(P(0), 0) /\ 0 \in 0 .. 0
      BY <1>3
    <3>2. P(0)[0] = a
      BY <3>1 DEF Part
    <3> QED
      BY <2>1, <3>2
  <2>2. CASE n # 0
    <3>1. n - 1 \in Nat /\ n - 1 <= n /\ n \in 0 .. n
      BY <2>2
    <3>2. P(n)[n - 1] = P(n - 1)[n - 1]
      BY <1>2, <1>3, <3>1
    <3>3. P(n)[n] = F[<<n, P(n)[n - 1]>>]
      BY <1>3, <2>2, <3>1 DEF Part
    <3> QED
      BY <2>2, <3>1, <3>2, <3>3
  <2> QED
    BY <2>1, <2>2
<1> HIDE DEF f
<1>6. f[0] = a /\ \A n \in Nat \ {0} : f[n] = F[<<n, f[n - 1]>>]
  BY <1>5
<1> QED
  BY <1>4, <1>6 DEF GivenBy

\* The powers of two.
LEMMA Powers ==
    /\ \A n \in Nat : Power2[n] \in Nat \ {0}
    /\ Power2[0] = 1 /\ \A n \in Nat : Power2[n + 1] = 2 * Power2[n]
<1> DEFINE T == Nat \ {0}
           F == [s \in Nat \X T |-> 2 * s[2]]
           Doubled(f) == f = [n \in Nat |-> IF n = 0 THEN 1 ELSE 2 * f[n - 1]]
<1>1. F \in [Nat \X T -> T] /\ 1 \in T
  <2>1. \A s \in Nat \X T : 2 * s[2] \in T
    OBVIOUS
  <2> QED
    BY <2>1
<1>2. PICK f \in [Nat -> T] : GivenBy(f, 1, F)
  <2> HIDE DEF F, T
  <2> QED
    BY <1>1, FunctionByRecursion
<1>3. \A n \in Nat \ {0} : f[n] = 2 * f[n - 1]
  <2> SUFFICES ASSUME NEW n \in Nat \ {0} PROVE f[n] = 2 * f[n - 1]
    OBVIOUS
  <2>1. <<n, f[n - 1]>> \in Nat \X T /\ f[n] = F[<<n, f[n - 1]>>]
    BY <1>2 DEF GivenBy
  <2> QED
    BY <2>1
<1>4. Doubled(f)
  BY <1>2, <1>3 DEF GivenBy
<1>5. Doubled(Power2)
  <2> HIDE DEF Doubled
  <2>1. Power2 = CHOOSE g : Doubled(g)
    BY DEF Power2, Doubled
  <2> QED
    BY <1>4, <2>1, Zenon
<1>6. ASSUME NEW n \in Nat PROVE Power2[n + 1] = 2 * Power2[n]
  <2>1. n + 1 \in Nat /\ n + 1 # 0 /\ (n + 1) - 1 = n
    OBVIOUS
  <2> QED
    BY <1>5, <2>1
<1>7. Power2[0] = 1
  BY <1>5
<1>8. \A n \in Nat : Power2[n] \in Nat \ {0}
  <2> DEFINE U == {n \in Nat : Power2[n] \in T}
  <2>1. 0 \in U
    BY <1>7
  <2>2. ASSUME NEW n \in Nat, n \in U PROVE n + 1 \in U
    BY <1>6, <2>2
  <2> HIDE DEF U
  <2>3. Nat \subseteq U
    BY <2>1, <2>2, InductionOverSets
  <2> QED
    BY <2>3 DEF U
<1> QED
  BY <1>6, <1>7, <1>8

\* A power is the product of those its exponent is the sum of.
LEMMA PowersMultiply ==
    ASSUME NEW m \in Nat, NEW n \in Nat PROVE Power2[m + n] = Power2[m] * Power2[n]
<1> DEFINE U == {k \in Nat : Power2[m + k] = Power2[m] * Power2[k]}
<1>1. 0 \in U
  <2>1. m + 0 = m /\ Power2[m] \in Int
    BY Powers
  <2> QED
    BY <2>1, Powers
<1>2. ASSUME NEW k \in Nat, k \in U PROVE k + 1 \in U
  <2>1. m + (k + 1) = (m + k) + 1 /\ m + k \in Nat /\ Power2[m] \in Int /\ Power2[k] \in Int
    BY Powers
  <2>2. Power2[m + (k + 1)] = 2 * (Power2[m] * Power2[k]) /\ Power2[k + 1] = 2 * Power2[k]
    BY <1>2, <2>1, Powers
  <2>3. 2 * (Power2[m] * Power2[k]) = Power2[m] * (2 * Power2[k])
    BY <2>1
  <2> QED
    BY <2>2, <2>3
<1> HIDE DEF U
<1>3. Nat \subseteq U
  BY <1>1, <1>2, InductionOverSets
<1> QED
  BY <1>3 DEF U

\* The highest AMASS level: even, and the product of a level's scale and what is left.
LEMMA AmassScales ==
    ASSUME MotionAssumption
    PROVE  /\ \A level \in 0 .. MaxAmassLevel :
                 /\ Power2[level] \in Nat \ {0} /\ Power2[MaxAmassLevel - level] \in Nat \ {0}
                 /\ Power2[MaxAmassLevel] = Power2[level] * Power2[MaxAmassLevel - level]
                 /\ Power2[MaxAmassLevel - level] <= Power2[MaxAmassLevel]
                 /\ Power2[level] <= Power2[MaxAmassLevel]
           /\ \E half \in Nat \ {0} : Power2[MaxAmassLevel] = 2 * half
           /\ Power2[MaxAmassLevel] \in Nat \ {0}
<1>1. MaxAmassLevel \in Nat \ {0}
  BY DEF MotionAssumption
<1>2. ASSUME NEW level \in 0 .. MaxAmassLevel
      PROVE  /\ Power2[level] \in Nat \ {0} /\ Power2[MaxAmassLevel - level] \in Nat \ {0}
             /\ Power2[MaxAmassLevel] = Power2[level] * Power2[MaxAmassLevel - level]
             /\ Power2[MaxAmassLevel - level] <= Power2[MaxAmassLevel]
             /\ Power2[level] <= Power2[MaxAmassLevel]
  <2>1. level \in Nat /\ MaxAmassLevel - level \in Nat /\ level + (MaxAmassLevel - level) = MaxAmassLevel
    BY <1>1
  <2> DEFINE a == Power2[level]
             b == Power2[MaxAmassLevel - level]
  <2>2. a \in Nat \ {0} /\ b \in Nat \ {0} /\ Power2[MaxAmassLevel] = a * b
    BY <2>1, Powers, PowersMultiply
  <2> HIDE DEF a, b
  <2>3. b <= a * b /\ a <= a * b
    BY <2>2
  <2> QED
    BY <2>2, <2>3 DEF a, b
<1>3. MaxAmassLevel - 1 \in Nat /\ (MaxAmassLevel - 1) + 1 = MaxAmassLevel
  BY <1>1
<1>4. Power2[MaxAmassLevel] = 2 * Power2[MaxAmassLevel - 1] /\ Power2[MaxAmassLevel - 1] \in Nat \ {0}
      /\ Power2[MaxAmassLevel] \in Nat \ {0}
  BY <1>1, <1>3, Powers
<1> QED
  BY <1>2, <1>4

\* Where lines end.
LEMMA EndsOfLines ==
    ASSUME NEW lines, \A i \in 1 .. Len(lines) : lines[i].X \in Int /\ lines[i].Y \in Int, Len(lines) \in Nat
    PROVE  /\ EndOf(lines, 0).X = 0 /\ EndOf(lines, 0).Y = 0
           /\ \A k \in 0 .. Len(lines) : EndOf(lines, k) \in [X : Int, Y : Int]
           /\ \A k \in 0 .. Len(lines) : EndOf(lines, k).X \in Int /\ EndOf(lines, k).Y \in Int
           /\ \A k \in 1 .. Len(lines) : /\ EndOf(lines, k).X = EndOf(lines, k - 1).X + lines[k].X
                                         /\ EndOf(lines, k).Y = EndOf(lines, k - 1).Y + lines[k].Y
<1> DEFINE T == [X : Int, Y : Int]
           After(n, v) == IF n \in 1 .. Len(lines) THEN [X |-> v.X + lines[n].X, Y |-> v.Y + lines[n].Y] ELSE v
           F == [s \in Nat \X T |-> After(s[1], s[2])]
           zero == [X |-> 0, Y |-> 0]
           Sum(f, k) == f = [i \in 0 .. k |-> IF i = 0 THEN [X |-> 0, Y |-> 0]
                                ELSE [X |-> f[i - 1].X + lines[i].X, Y |-> f[i - 1].Y + lines[i].Y]]
<1>1. F \in [Nat \X T -> T] /\ zero \in T
  <2>1. \A n \in Nat, v \in T : After(n, v) \in T
    OBVIOUS
  <2> HIDE DEF After
  <2>2. \A s \in Nat \X T : After(s[1], s[2]) \in T
    BY <2>1
  <2> QED
    BY <2>2
<1>2. PICK g \in [Nat -> T] : GivenBy(g, zero, F)
  <2> HIDE DEF F, T, zero
  <2> QED
    BY <1>1, FunctionByRecursion
<1>3. g[0] = zero
  BY <1>2 DEF GivenBy
<1>4. \A n \in Nat \ {0} : g[n] = After(n, g[n - 1])
  <2> SUFFICES ASSUME NEW n \in Nat \ {0} PROVE g[n] = After(n, g[n - 1])
    OBVIOUS
  <2>1. <<n, g[n - 1]>> \in Nat \X T /\ g[n] = F[<<n, g[n - 1]>>]
    <3> HIDE DEF F, T
    <3>1. n - 1 \in Nat /\ g[n] = F[<<n, g[n - 1]>>]
      BY <1>2 DEF GivenBy
    <3> QED
      BY <3>1
  <2>2. F[<<n, g[n - 1]>>] = After(<<n, g[n - 1]>>[1], <<n, g[n - 1]>>[2])
    <3> HIDE DEF After, T
    <3> QED
      BY <2>1
  <2> QED
    BY <2>1, <2>2
<1>5. \A n \in 1 .. Len(lines) : g[n] = [X |-> g[n - 1].X + lines[n].X, Y |-> g[n - 1].Y + lines[n].Y]
  BY <1>4
<1>6. ASSUME NEW k \in 0 .. Len(lines) PROVE EndOf(lines, k) = g[k]
  <2> DEFINE h == [i \in 0 .. k |-> g[i]]
  <2>1. Sum(h, k)
    <3>1. ASSUME NEW i \in 0 .. k, i # 0
          PROVE  h[i] = [X |-> h[i - 1].X + lines[i].X, Y |-> h[i - 1].Y + lines[i].Y]
      <4>1. i \in 1 .. Len(lines) /\ i - 1 \in 0 .. k
        BY <3>1
      <4> QED
        BY <1>5, <4>1
    <3>2. h[0] = [X |-> 0, Y |-> 0]
      BY <1>3
    <3>3. DOMAIN h = 0 .. k /\ h = [i \in 0 .. k |-> h[i]]
      OBVIOUS
    <3> HIDE DEF h
    <3> QED
      BY <3>1, <3>2, <3>3
  <2> DEFINE f == CHOOSE f : Sum(f, k)
  <2>2. Sum(f, k)
    <3> HIDE DEF Sum
    <3> QED
      BY <2>1, Zenon
  <2>3. EndOf(lines, k) = f[k]
    BY DEF EndOf
  <2> HIDE DEF f
  <2> DEFINE Same == {i \in Nat : i <= k => f[i] = g[i]}
  <2>4. 0 \in Same
    BY <2>2, <1>3
  <2>5. ASSUME NEW i \in Nat, i \in Same PROVE i + 1 \in Same
    <3> SUFFICES ASSUME i + 1 <= k PROVE f[i + 1] = g[i + 1]
      OBVIOUS
    <3>1. i + 1 \in 0 .. k /\ i + 1 \in 1 .. Len(lines) /\ i + 1 # 0 /\ (i + 1) - 1 = i /\ f[i] = g[i]
      BY <2>5
    <3>2. f[i + 1] = [X |-> f[i].X + lines[i + 1].X, Y |-> f[i].Y + lines[i + 1].Y]
      BY <2>2, <3>1
    <3>3. g[i + 1] = [X |-> g[i].X + lines[i + 1].X, Y |-> g[i].Y + lines[i + 1].Y]
      BY <1>5, <3>1
    <3> QED
      BY <3>1, <3>2, <3>3
  <2> HIDE DEF Same
  <2>6. Nat \subseteq Same
    BY <2>4, <2>5, InductionOverSets
  <2>7. k \in Nat /\ k <= k
    OBVIOUS
  <2> QED
    BY <2>3, <2>6, <2>7 DEF Same
<1> HIDE DEF F, T, After, Sum
<1>7. \A k \in 1 .. Len(lines) : k - 1 \in 0 .. Len(lines) /\ k \in 0 .. Len(lines)
  OBVIOUS
<1>8. \A k \in 0 .. Len(lines) : g[k].X \in Int /\ g[k].Y \in Int
  BY <1>2 DEF T
<1>9. \A k \in 0 .. Len(lines) : EndOf(lines, k) = g[k]
  BY <1>6
<1>10. 0 \in 0 .. Len(lines) /\ g[0].X = 0 /\ g[0].Y = 0
  BY <1>3
<1>11. \A k \in 1 .. Len(lines) : g[k].X = g[k - 1].X + lines[k].X /\ g[k].Y = g[k - 1].Y + lines[k].Y
  <2> SUFFICES ASSUME NEW k \in 1 .. Len(lines)
               PROVE  g[k].X = g[k - 1].X + lines[k].X /\ g[k].Y = g[k - 1].Y + lines[k].Y
    OBVIOUS
  <2>1. g[k] = [X |-> g[k - 1].X + lines[k].X, Y |-> g[k - 1].Y + lines[k].Y]
    BY <1>5
  <2> QED
    BY ONLY <2>1
<1>12. EndOf(lines, 0).X = 0 /\ EndOf(lines, 0).Y = 0
  BY <1>9, <1>10
<1>13. \A k \in 0 .. Len(lines) : EndOf(lines, k).X \in Int /\ EndOf(lines, k).Y \in Int
  BY <1>8, <1>9
<1>14. ASSUME NEW k \in 1 .. Len(lines)
       PROVE  /\ EndOf(lines, k).X = EndOf(lines, k - 1).X + lines[k].X
              /\ EndOf(lines, k).Y = EndOf(lines, k - 1).Y + lines[k].Y
  <2>1. EndOf(lines, k) = g[k] /\ EndOf(lines, k - 1) = g[k - 1]
    BY <1>7, <1>9
  <2> QED
    BY <1>11, <2>1
<1>15. \A k \in 0 .. Len(lines) : EndOf(lines, k) \in [X : Int, Y : Int]
  <2>1. \A k \in 0 .. Len(lines) : g[k] \in T
    BY <1>2
  <2> QED
    BY <1>9, <2>1 DEF T
<1> QED
  BY <1>12, <1>13, <1>14, <1>15

\* More lines leave the ends of the ones before where they are.
LEMMA EndsStay ==
    ASSUME NEW lines, NEW more, Len(lines) \in Nat, Len(more) \in Nat, Len(lines) <= Len(more),
           \A i \in 1 .. Len(more) : more[i].X \in Int /\ more[i].Y \in Int,
           \A i \in 1 .. Len(lines) : more[i] = lines[i],
           NEW k \in 0 .. Len(lines)
    PROVE  EndOf(more, k).X = EndOf(lines, k).X /\ EndOf(more, k).Y = EndOf(lines, k).Y
<1> DEFINE Same == {i \in Nat : i <= Len(lines) => /\ EndOf(more, i).X = EndOf(lines, i).X
                                                    /\ EndOf(more, i).Y = EndOf(lines, i).Y}
<1>0. \A i \in 1 .. Len(lines) : lines[i].X \in Int /\ lines[i].Y \in Int
  OBVIOUS
<1>1. 0 \in Same
  BY <1>0, EndsOfLines
<1>2. ASSUME NEW i \in Nat, i \in Same PROVE i + 1 \in Same
  <2> SUFFICES ASSUME i + 1 <= Len(lines)
               PROVE  /\ EndOf(more, i + 1).X = EndOf(lines, i + 1).X
                      /\ EndOf(more, i + 1).Y = EndOf(lines, i + 1).Y
    OBVIOUS
  <2>1. i + 1 \in 1 .. Len(lines) /\ i + 1 \in 1 .. Len(more) /\ (i + 1) - 1 = i
        /\ EndOf(more, i).X = EndOf(lines, i).X /\ EndOf(more, i).Y = EndOf(lines, i).Y
    BY <1>2
  <2>2. /\ EndOf(lines, i + 1).X = EndOf(lines, i).X + lines[i + 1].X
        /\ EndOf(lines, i + 1).Y = EndOf(lines, i).Y + lines[i + 1].Y
    BY <1>0, <2>1, EndsOfLines
  <2>3. /\ EndOf(more, i + 1).X = EndOf(more, i).X + more[i + 1].X
        /\ EndOf(more, i + 1).Y = EndOf(more, i).Y + more[i + 1].Y
    BY <2>1, EndsOfLines
  <2> QED
    BY <2>1, <2>2, <2>3
<1> HIDE DEF Same
<1>3. Nat \subseteq Same
  BY <1>1, <1>2, InductionOverSets
<1> QED
  BY <1>3 DEF Same

-----------------------------------------------------------------------------
(* The arithmetic of Bresenham's counters.                                  *)

\* After no part of a line the counters are in the middle.
LEMMA BresenhamBegins ==
    ASSUME NEW half \in Nat \ {0}, NEW steps \in Nat
    PROVE  (2 * half) \div 2 = half /\ Bresenham(half, 0, steps, 2 * half, 0)
BY DEF Bresenham

\* What a step event does to a counter.
LEMMA BresenhamGoesOn ==
    ASSUME NEW whole \in Nat, NEW part \in Nat, NEW scale \in Nat, NEW steps \in Nat,
           NEW counter \in Int, NEW made \in Int,
           Bresenham(counter, made, steps, whole, part), steps * scale <= whole
    PROVE  LET count == counter + steps * scale
           IN  /\ count > whole => Bresenham(count - whole, made + 1, steps, whole, part + scale)
               /\ ~(count > whole) => Bresenham(count, made, steps, whole, part + scale)
<1>1. (part + scale) * steps = part * steps + steps * scale /\ (made + 1) * whole = made * whole + whole
  OBVIOUS
<1> DEFINE a == part * steps
           b == steps * scale
           c == made * whole
<1>2. a \in Int /\ b \in Nat /\ c \in Int
  OBVIOUS
<1>3. counter \in 1 .. whole /\ 2 * (counter + c) = whole + 2 * a /\ b <= whole
  BY DEF Bresenham
<1> HIDE DEF a, b, c
<1>4. ASSUME counter + b > whole
      PROVE  counter + b - whole \in 1 .. whole /\ 2 * ((counter + b - whole) + (c + whole)) = whole + 2 * (a + b)
  BY <1>2, <1>3, <1>4
<1>5. ASSUME ~(counter + b > whole)
      PROVE  counter + b \in 1 .. whole /\ 2 * ((counter + b) + c) = whole + 2 * (a + b)
  BY <1>2, <1>3, <1>5
<1> QED
  BY <1>1, <1>4, <1>5 DEF Bresenham, a, b, c

\* After the whole of a line its steps are made, no more and no fewer.
LEMMA BresenhamEnds ==
    ASSUME NEW whole \in Nat, NEW steps \in Nat, NEW counter \in Int, NEW made \in Int,
           Bresenham(counter, made, steps, whole, whole)
    PROVE  made = steps
<1> DEFINE d == steps - made
<1>1. counter \in 1 .. whole /\ 2 * (counter + made * whole) = whole + 2 * (whole * steps) /\ whole > 0
  BY DEF Bresenham
<1>2. whole * steps = made * whole + d * whole /\ d \in Int
  OBVIOUS
<1>3. 2 * counter = whole + 2 * (d * whole)
  BY <1>1, <1>2
<1> SUFFICES d = 0
  BY <1>2
<1> HIDE DEF d
<1>4. ASSUME d >= 1 PROVE FALSE
  <2>1. d * whole >= whole
    BY <1>1, <1>2, <1>4
  <2> QED
    BY <1>1, <1>2, <1>3, <2>1
<1>5. ASSUME d <= -1 PROVE FALSE
  <2>1. d * whole <= -whole
    BY <1>1, <1>2, <1>5
  <2> QED
    BY <1>1, <1>2, <1>3, <2>1
<1> QED
  BY <1>2, <1>4, <1>5

\* An axis is between the ends of the line.
LEMMA BresenhamBetween ==
    ASSUME NEW whole \in Nat, NEW part \in 0 .. whole, NEW steps \in Nat, NEW counter \in Int, NEW made \in Int,
           Bresenham(counter, made, steps, whole, part)
    PROVE  made \in 0 .. steps
<1>1. /\ counter \in 1 .. whole /\ 2 * (counter + made * whole) = whole + 2 * (part * steps) /\ whole > 0
      /\ part * steps \in Int /\ made * whole \in Int /\ whole * steps \in Int
  BY DEF Bresenham
<1>2. part * steps >= 0 /\ part * steps <= whole * steps
  OBVIOUS
<1>3. ASSUME made <= -1 PROVE FALSE
  <2>1. made * whole <= -whole
    BY <1>1, <1>3
  <2> QED
    BY <1>1, <1>2, <2>1
<1>4. ASSUME made >= steps + 1 PROVE FALSE
  <2>1. made * whole >= whole * steps + whole
    BY <1>1, <1>4
  <2> QED
    BY <1>1, <1>2, <2>1
<1> QED
  BY <1>3, <1>4

\* Two axes whose counters have run alike are within a step of the line.
LEMMA BresenhamNear ==
    ASSUME NEW whole \in Nat, NEW part \in 0 .. whole, NEW X \in Nat, NEW Y \in Nat,
           NEW p \in Int, NEW q \in Int, NEW x \in Int, NEW y \in Int,
           Bresenham(p, x, X, whole, part), Bresenham(q, y, Y, whole, part)
    PROVE  LET off == x * Y - y * X
           IN  off <= Greater(X, Y) /\ -Greater(X, Y) <= off
<1>1. /\ p \in 1 .. whole /\ 2 * (p + x * whole) = whole + 2 * (part * X)
      /\ q \in 1 .. whole /\ 2 * (q + y * whole) = whole + 2 * (part * Y) /\ whole > 0
  BY DEF Bresenham
<1> DEFINE off == x * Y - y * X
           a == p * Y
           b == q * X
           c == whole * X
           d == whole * Y
<1>2. off \in Int /\ a \in Int /\ b \in Int /\ c \in Int /\ d \in Int /\ whole * off \in Int
  OBVIOUS
<1>3. 2 * (whole * off) = d - c - 2 * a + 2 * b
  <2>1. 2 * ((p + x * whole) * Y) = (whole + 2 * (part * X)) * Y
    <3>1. (2 * (p + x * whole)) * Y = (whole + 2 * (part * X)) * Y
      BY <1>1
    <3> QED
      BY <3>1
  <2>2. 2 * ((q + y * whole) * X) = (whole + 2 * (part * Y)) * X
    <3>1. (2 * (q + y * whole)) * X = (whole + 2 * (part * Y)) * X
      BY <1>1
    <3> QED
      BY <3>1
  <2>3. 2 * a + 2 * (whole * (x * Y)) = d + 2 * (part * (X * Y))
    BY <2>1
  <2>4. 2 * b + 2 * (whole * (y * X)) = c + 2 * (part * (X * Y))
    BY <2>2
  <2>5. whole * off = whole * (x * Y) - whole * (y * X)
    OBVIOUS
  <2> QED
    BY <2>3, <2>4, <2>5
<1>4. a >= 0 /\ a <= d /\ b >= 0 /\ b <= c
  BY <1>1
<1>5. 2 * (whole * off) <= c + d /\ -(c + d) <= 2 * (whole * off)
  <2> HIDE DEF off, a, b, c, d
  <2> QED
    BY <1>2, <1>3, <1>4
<1>6. c + d <= 2 * (whole * Greater(X, Y)) /\ Greater(X, Y) \in Nat
  <2>1. X <= Greater(X, Y) /\ Y <= Greater(X, Y) /\ Greater(X, Y) \in Nat
    BY DEF Greater
  <2>2. whole * X <= whole * Greater(X, Y) /\ whole * Y <= whole * Greater(X, Y)
    BY <2>1
  <2> QED
    BY <2>1, <2>2
<1> HIDE DEF off, c, d
<1>7. ASSUME NEW e \in Nat, off >= e + 1, 2 * (whole * off) <= 2 * (whole * e) PROVE FALSE
  <2>1. whole * off >= whole * e + whole
    BY <1>1, <1>2, <1>7
  <2> QED
    BY <1>1, <1>2, <1>7, <2>1
<1>8. ASSUME NEW e \in Nat, off <= -e - 1, -(2 * (whole * e)) <= 2 * (whole * off) PROVE FALSE
  <2>1. whole * off <= -(whole * e) - whole
    BY <1>1, <1>2, <1>8
  <2> QED
    BY <1>1, <1>2, <1>8, <2>1
<1>9. off <= Greater(X, Y) /\ -Greater(X, Y) <= off
  <2> DEFINE e == Greater(X, Y)
  <2>1. e \in Nat /\ whole * e \in Int /\ 2 * (whole * off) <= 2 * (whole * e) /\ -(2 * (whole * e)) <= 2 * (whole * off)
    BY <1>2, <1>5, <1>6
  <2> HIDE DEF e
  <2>2. off <= e
    BY <1>2, <1>7, <2>1
  <2>3. -e <= off
    BY <1>2, <1>8, <2>1
  <2> QED
    BY <2>2, <2>3 DEF e
<1> QED
  BY <1>9 DEF off

-----------------------------------------------------------------------------
(* Lines and their data.                                                    *)

\* What is known of the lines that were planned.
LEMMA LinesKnown ==
    ASSUME MotionAssumption, planned \in Seq(Lines)
    PROVE  /\ Len(planned) \in Nat
           /\ \A k \in 1 .. Len(planned) :
                 /\ planned[k].X \in Nat /\ planned[k].Y \in Nat /\ Events(k) \in Nat \ {0}
                 /\ planned[k].X <= Events(k) /\ planned[k].Y <= Events(k)
                 /\ Events(k) = Greater(planned[k].X, planned[k].Y)
                 /\ Corner(k).X = Corner(k - 1).X + planned[k].X
                 /\ Corner(k).Y = Corner(k - 1).Y + planned[k].Y
           /\ \A k \in 0 .. Len(planned) : Corner(k) \in [X : Int, Y : Int]
           /\ \A k \in 0 .. Len(planned) : Corner(k).X \in Int /\ Corner(k).Y \in Int
           /\ Corner(0).X = 0 /\ Corner(0).Y = 0
<1>1. Len(planned) \in Nat /\ \A k \in 1 .. Len(planned) : planned[k] \in Lines
  OBVIOUS
<1>2. ASSUME NEW k \in 1 .. Len(planned)
      PROVE  /\ planned[k].X \in Nat /\ planned[k].Y \in Nat /\ planned[k].X + planned[k].Y > 0
             /\ Events(k) = Greater(planned[k].X, planned[k].Y)
             /\ Events(k) \in Nat \ {0} /\ planned[k].X <= Events(k) /\ planned[k].Y <= Events(k)
  <2> DEFINE l == planned[k]
  <2>1. l \in Lines /\ l \in [X : Nat, Y : Nat] /\ l.X + l.Y > 0
    BY <1>1 DEF MotionAssumption
  <2> HIDE DEF l
  <2>2. LineMotion(l).steps.X = l.X /\ LineMotion(l).steps.Y = l.Y /\ LineMotion(l).steps.Z = 0
    BY DEF LineMotion
  <2>3. EventCount(LineMotion(l)) = Greater(l.X, l.Y)
    BY <2>1, <2>2 DEF EventCount, Greater
  <2>4. Greater(l.X, l.Y) \in Nat \ {0} /\ l.X <= Greater(l.X, l.Y) /\ l.Y <= Greater(l.X, l.Y)
    BY <2>1 DEF Greater
  <2> QED
    BY <2>1, <2>3, <2>4 DEF l, Events
<1>3. \A i \in 1 .. Len(planned) : planned[i].X \in Int /\ planned[i].Y \in Int
  BY <1>2
<1> QED
  BY <1>1, <1>2, <1>3, EndsOfLines DEF Corner

\* More lines change nothing of those that were planned.
LEMMA LinesGrow ==
    ASSUME MotionAssumption, planned \in Seq(Lines),
           planned' = planned \/ \E l \in Lines : planned' = Append(planned, l)
    PROVE  /\ planned' \in Seq(Lines) /\ Len(planned) <= Len(planned')
           /\ Len(planned) \in Nat /\ Len(planned') \in Nat
           /\ \A k \in 1 .. Len(planned) : planned'[k] = planned[k] /\ Events(k)' = Events(k)
           /\ \A k \in 0 .. Len(planned) : Corner(k)'.X = Corner(k).X /\ Corner(k)'.Y = Corner(k).Y
<1>1. /\ planned' \in Seq(Lines) /\ Len(planned) <= Len(planned')
      /\ \A k \in 1 .. Len(planned) : planned'[k] = planned[k]
  <2>1. CASE planned' = planned
    BY <2>1
  <2>2. ASSUME NEW l \in Lines, planned' = Append(planned, l)
        PROVE  /\ planned' \in Seq(Lines) /\ Len(planned) <= Len(planned')
               /\ \A k \in 1 .. Len(planned) : planned'[k] = planned[k]
    BY <2>2
  <2> QED
    BY <2>1, <2>2
<1>2. \A k \in 1 .. Len(planned) : Events(k)' = Events(k)
  BY <1>1 DEF Events
<1>3. \A k \in 1 .. Len(planned') : planned'[k].X \in Int /\ planned'[k].Y \in Int
  <2>1. \A k \in 1 .. Len(planned') : planned'[k] \in Lines
    BY <1>1
  <2> QED
    BY <2>1 DEF MotionAssumption
<1>4. Len(planned) \in Nat /\ Len(planned') \in Nat
  BY <1>1
<1>5. ASSUME NEW k \in 0 .. Len(planned)
      PROVE  EndOf(planned', k).X = EndOf(planned, k).X /\ EndOf(planned', k).Y = EndOf(planned, k).Y
  BY <1>1, <1>3, <1>4, EndsStay
<1> QED
  BY <1>1, <1>2, <1>4, <1>5 DEF Corner

\* The Bresenham data of a line.
LEMMA DataOfLine ==
    ASSUME NEW l
    PROVE  /\ StBlock(LineMotion(l)).steps.X = l.X * Power2[MaxAmassLevel]
           /\ StBlock(LineMotion(l)).steps.Y = l.Y * Power2[MaxAmassLevel]
           /\ StBlock(LineMotion(l)).step_event_count = EventCount(LineMotion(l)) * Power2[MaxAmassLevel]
           /\ StBlock(LineMotion(l)).down = FALSE
<1> DEFINE P == Power2[MaxAmassLevel]
<1>1. LineMotion(l).steps.X = l.X /\ LineMotion(l).steps.Y = l.Y /\ LineMotion(l).down = FALSE
  BY DEF LineMotion
<1> HIDE DEF P
<1>2. "X" \in Axes /\ "Y" \in Axes
  BY DEF Axes
<1> QED
  BY <1>1, <1>2 DEF StBlock, P

\* Without steps to make in X and Y a parking motion has data without any.
LEMMA DataOfParking ==
    ASSUME MotionAssumption, StepperTyped
    PROVE  /\ StBlock(SystemMotion(system_block)).steps.X = 0
           /\ StBlock(SystemMotion(system_block)).steps.Y = 0
           /\ StBlock(SystemMotion(system_block)).step_event_count \in Nat
<1> DEFINE P == Power2[MaxAmassLevel]
           motion == SystemMotion(system_block)
<1>1. P \in Nat /\ EventCount(motion) \in Nat
  BY AmassScales, EventCountIsNat
<1>2. motion.steps.X = 0 /\ motion.steps.Y = 0
  BY DEF SystemMotion, NoSteps, Axes
<1> HIDE DEF P, motion
<1>3. "X" \in Axes /\ "Y" \in Axes
  BY DEF Axes
<1>4. StBlock(motion).steps.X = motion.steps.X * P /\ StBlock(motion).steps.Y = motion.steps.Y * P
      /\ StBlock(motion).step_event_count = EventCount(motion) * P
  BY <1>3 DEF StBlock, P
<1> QED
  BY <1>1, <1>2, <1>4 DEF motion

-----------------------------------------------------------------------------
(* What is commanded, and when.                                             *)

LEMMA ControlKept == ASSUME ControlPlaced, TimerPlaced, StepperTyped, Next PROVE ControlPlaced'
<1> USE DEF ControlPlaced
<1>0. prep \in Preps
  BY DEF StepperTyped
<1>1. CASE LoadBlock
  <2>1. UNCHANGED <<state, step_control>>
    BY <1>1 DEF LoadBlock, GeneratorRest
  <2>2. prep'.loaded => "recalculate" \notin prep'.flags
    <3>1. CASE Continues
      <4>1. prep' = [prep EXCEPT !.loaded = TRUE, !.flags = FlagsAfterLoad]
        BY <1>1, <3>1 DEF LoadBlock
      <4>2. "recalculate" \notin FlagsAfterLoad
        BY <3>1 DEF FlagsAfterLoad
      <4>3. prep'.flags = FlagsAfterLoad
        BY <1>0, <4>1 DEF Preps
      <4> QED
        BY <4>2, <4>3
    <3>2. CASE ~Continues
      <4> DEFINE count == EventCount(IF Commanded("executeSysMotion") THEN SystemMotion(system_block)
                                     ELSE LineMotion(planned[current]))
      <4>1. prep' = [prep EXCEPT !.loaded = TRUE, !.st_block_index = next_block_index(prep.st_block_index),
                                 !.steps_remaining = count]
        BY <1>1, <3>2 DEF LoadBlock
      <4> HIDE DEF count
      <4>2. prep'.flags = prep.flags
        BY <1>0, <4>1 DEF Preps
      <4> QED
        BY <3>2, <4>2 DEF Continues
    <3> QED
      BY <3>1, <3>2
  <2> QED
    BY <2>1, <2>2 DEF Commanded, Continues
<1>2. CASE BailOut
  <2>1. UNCHANGED state /\ step_control' = step_control \cup {"endMotion"}
    BY <1>2 DEF BailOut, GeneratorRest, EndHold
  <2>2. prep'.loaded = prep.loaded /\ prep'.flags \subseteq prep.flags \cup {"holdPartialBlock"}
    BY <1>0, <1>2 DEF BailOut, EndHold, Preps
  <2> QED
    BY <2>1, <2>2 DEF Commanded, Continues
<1>3. CASE \E n \in 1 .. prep.steps_remaining, level \in 0 .. MaxAmassLevel : MakeSegment(n, level)
  <2>1. PICK n \in 1 .. prep.steps_remaining, level \in 0 .. MaxAmassLevel : MakeSegment(n, level)
    BY <1>3
  <2>2. UNCHANGED state /\ step_control' \subseteq step_control \cup {"endMotion"} /\ step_control \subseteq step_control'
    BY <2>1, SegmentMade DEF MakeSegment, GeneratorRest
  <2>3. prep'.flags \subseteq prep.flags \cup {"holdPartialBlock"} /\ prep.loaded
    <3> DEFINE p == [prep EXCEPT !.steps_remaining = @ - n]
    <3>1. p.flags = prep.flags /\ "flags" \in DOMAIN p
      BY <1>0 DEF Preps
    <3>2. prep.loaded /\ (prep' = p \/ EndHold(p) \/ prep' = [p EXCEPT !.loaded = FALSE])
      BY <2>1 DEF MakeSegment, Working
    <3> HIDE DEF p
    <3> QED
      BY <3>1, <3>2 DEF EndHold
  <2> QED
    BY <2>2, <2>3 DEF Commanded, Continues
<1>4. CASE EndPass \/ Pulse \/ ShutDown
  <2>1. UNCHANGED <<state, step_control, prep>>
    BY <1>4 DEF EndPass, Pulse, ShutDown, GeneratorRest, generator
  <2> QED
    BY <2>1 DEF Commanded, Continues
<1>5. CASE \/ \E l \in Lines : BufferLine(l)
           \/ Replan \/ Poll \/ InitiateCycle \/ StartHolding \/ HoldIdle
  <2>1. prep' \in {prep, Updated}
    BY <1>5 DEF BufferLine, Replan, Poll, InitiateCycle, StartHolding, HoldIdle
  <2>2. prep'.loaded => "recalculate" \notin prep'.flags
    BY <1>0, <2>1 DEF Updated, Preps, Continues
  <2> QED
    BY <1>5, <2>2 DEF BufferLine, Replan, Poll, InitiateCycle, StartHolding, HoldIdle, Commanded, Continues
<1>6. CASE CycleStop \/ HoldParking
  <2>1. prep' \in {prep, Updated}
    BY <1>6 DEF CycleStop, HoldParking
  <2>2. prep'.loaded => "recalculate" \notin prep'.flags
    BY <1>0, <2>1 DEF Updated, Preps, Continues
  <2>3. CASE CycleStop
    BY <2>2, <2>3 DEF CycleStop, Commanded, Continues, TimerPlaced
  <2>4. CASE HoldParking
    BY <2>2, <2>4 DEF HoldParking, Commanded, Continues
  <2> QED
    BY <1>6, <2>3, <2>4
<1>7. CASE \E h \in ParkingHeights \cup {0} : Park(h)
  <2>1. PICK h \in ParkingHeights \cup {0} : Park(h)
    BY <1>7
  <2>2. ~prep'.loaded
    BY <1>0, <2>1 DEF Park, Preps
  <2> QED
    BY <2>1, <2>2 DEF Park, Commanded
<1>8. CASE EndParking
  <2>1. ~prep'.loaded
    BY <1>0, <1>8 DEF EndParking, Restored, Preps
  <2> QED
    BY <1>8, <2>1 DEF EndParking, Commanded
<1> QED
  BY <1>1, <1>2, <1>3, <1>4, <1>5, <1>6, <1>7, <1>8 DEF Next, Generator, Main

-----------------------------------------------------------------------------
(* The ring of segments and the lines.                                      *)

\* What follows a pending segment is pending or the head, and the tail is one of them.
LEMMA PendingInTurn ==
    ASSUME RingsAssumption, StepperTyped
    PROVE  /\ \A i \in Pending : /\ i \in Segments /\ i # segment_buffer_head
                                 /\ NextSegment(i) \in Segments
                                 /\ NextSegment(i) \in Pending \cup {segment_buffer_head}
           /\ ~Empty => segment_buffer_tail \in Pending
           /\ segment_buffer_tail \in Pending \cup {segment_buffer_head}
<1>1. segment_buffer_tail \in Segments /\ segment_buffer_head \in Segments
  BY DEF StepperTyped
<1> QED
  BY <1>1 DEF RingsAssumption, Pending, NextSegment, Segments, Empty

\* The places a cut has.
LEMMA PlacesKnown ==
    ASSUME RingsAssumption, MotionAssumption, StepperTyped, LineAtHand, current <= Len(planned) + 1,
           NEW place, CutInto(place)
    PROVE  /\ GeneratorAt \in Places
           /\ \A i \in Segments : place[i] \in Places
           /\ \A i \in Pending : place[i].line \in 1 .. Len(planned)
           /\ LET p == place[segment_buffer_tail]
              IN  /\ p \in Places /\ p.line <= Len(planned) + 1
                  /\ st.exec \/ p.done # 0 => p.line \in 1 .. Len(planned)
<1>1. \A i \in Segments : place[i] \in Places /\ place[i].line \in Nat \ {0}
  BY DEF CutInto, Places
<1>2. Len(planned) \in Nat /\ current \in Nat \ {0} /\ prep.steps_remaining \in Nat
  BY LinesKnown DEF StepperTyped, Preps
<1>3. ASSUME NEW i \in Pending PROVE place[i].line \in 1 .. Len(planned)
  BY <1>1, <1>2, PendingInTurn DEF CutInto, PieceOfLine
<1>4. GeneratorAt.line = current /\ (GeneratorAt.done # 0 => current <= Len(planned)) /\ GeneratorAt \in Places
  <2>1. CASE Begun
    <3>1. current \in 1 .. Len(planned) /\ prep.steps_remaining \in 1 .. Events(current)
      BY <1>2, <2>1 DEF LineAtHand
    <3>2. Events(current) - prep.steps_remaining \in Nat
      <4>1. PICK e, r : e = Events(current) /\ r = prep.steps_remaining
        OBVIOUS
      <4>2. e \in Nat
        <5>1. planned \in Seq(Lines)
          BY DEF StepperTyped
        <5> QED
          BY <3>1, <4>1, <5>1, LinesKnown
      <4>3. r \in 1 .. e
        BY <3>1, <4>1
      <4>4. e - r \in Nat
        BY ONLY <4>2, <4>3
      <4> QED
        BY <4>1, <4>4
    <3> QED
      BY <1>2, <2>1, <3>1, <3>2 DEF GeneratorAt, Places
  <2>2. CASE ~Begun
    BY <1>2, <2>2 DEF GeneratorAt, Places
  <2> QED
    BY <2>1, <2>2
<1> DEFINE p == place[segment_buffer_tail]
<1>5. p \in Places
  BY <1>1 DEF StepperTyped
<1>6. CASE segment_buffer_tail \in Pending
  <2>1. p.line \in 1 .. Len(planned)
    BY <1>3, <1>6
  <2> QED
    BY <1>1, <1>2, <1>3, <1>4, <1>5, <2>1
<1>7. CASE segment_buffer_tail = segment_buffer_head
  <2>1. p = GeneratorAt
    BY <1>7 DEF CutInto
  <2>2. ~st.exec
    BY <1>7 DEF StepperTyped, Empty
  <2> HIDE DEF p
  <2>3. p.line <= Len(planned) + 1 /\ (st.exec \/ p.done # 0 => p.line \in 1 .. Len(planned))
    BY <1>2, <1>4, <2>1, <2>2
  <2> QED
    BY <1>1, <1>3, <1>4, <1>5, <2>3 DEF p
<1> QED
  BY <1>6, <1>7, PendingInTurn

\* A piece stays what it is as long as its segment and its data do.
LEMMA PieceStays ==
    ASSUME MotionAssumption, planned \in Seq(Lines),
           planned' = planned \/ \E l \in Lines : planned' = Append(planned, l),
           NEW i, NEW here \in Places, NEW next, PieceOfLine(i, here, next),
           segment_buffer'[i] = segment_buffer[i],
           st_block_buffer'[segment_buffer[i].st_block_index] = st_block_buffer[segment_buffer[i].st_block_index],
           IndexAt(NextSegment(i))' = IndexAt(NextSegment(i))
    PROVE  PieceOfLine(i, here, next)'
<1>1. here.line \in 1 .. Len(planned)
  BY DEF PieceOfLine, Places
<1>2. planned'[here.line] = planned[here.line] /\ Events(here.line)' = Events(here.line)
      /\ Len(planned) <= Len(planned') /\ Len(planned) \in Nat /\ Len(planned') \in Nat
  <2>1. PICK c \in 1 .. Len(planned) : c = here.line
    BY <1>1
  <2>2. /\ planned'[c] = planned[c] /\ Events(c)' = Events(c)
        /\ Len(planned) <= Len(planned') /\ planned' \in Seq(Lines)
    BY LinesGrow
  <2>3. Events(here.line)' = Events(here.line)
    BY <2>1, <2>2 DEF Events
  <2>4. Len(planned) \in Nat /\ Len(planned') \in Nat /\ Len(planned) <= Len(planned')
    BY LinesGrow
  <2>5. planned'[here.line] = planned[here.line]
    BY <2>1, <2>2
  <2> QED
    BY <2>3, <2>4, <2>5
<1>3. here.line <= Len(planned')
  BY <1>1, <1>2
<1> QED
  BY <1>2, <1>3 DEF PieceOfLine

\* So does what is executed of a line.
LEMMA ExecutedStays ==
    ASSUME MotionAssumption, planned \in Seq(Lines),
           planned' = planned \/ \E l \in Lines : planned' = Append(planned, l),
           UNCHANGED motor_steps, NEW counter, NEW k \in 1 .. Len(planned), NEW part
    PROVE  Executed(counter, k, part)' <=> Executed(counter, k, part)
<1>1. k - 1 \in 0 .. Len(planned)
  BY LinesKnown
<1>2. planned'[k] = planned[k] /\ Events(k)' = Events(k)
      /\ Corner(k - 1)'.X = Corner(k - 1).X /\ Corner(k - 1)'.Y = Corner(k - 1).Y
  BY <1>1, LinesGrow
<1> QED
  BY <1>2 DEF Executed

\* And where the interrupt is, until it makes a step.
LEMMA InterruptStays ==
    ASSUME MotionAssumption, planned \in Seq(Lines),
           planned' = planned \/ \E l \in Lines : planned' = Append(planned, l),
           NEW p \in Places, InterruptAt(p), p.line <= Len(planned) + 1,
           st.exec \/ p.done # 0 => p.line \in 1 .. Len(planned),
           UNCHANGED <<st, motor_steps, segment_buffer_tail>>,
           st.exec => segment_buffer'[segment_buffer_tail] = segment_buffer[segment_buffer_tail],
           IndexAt(segment_buffer_tail)' = IndexAt(segment_buffer_tail)
    PROVE  InterruptAt(p)'
<1>1. CASE st.exec
  <2>1. p.line \in 1 .. Len(planned) /\ planned'[p.line] = planned[p.line]
    BY <1>1, LinesGrow
  <2> DEFINE segment == segment_buffer[segment_buffer_tail]
             scale == Power2[MaxAmassLevel - segment.amass_level]
             part == p.done * Power2[MaxAmassLevel] + (segment.n_step - st.step_count) * scale
  <2>2. part' = part /\ scale' = scale /\ segment' = segment
    BY <1>1
  <2>3. /\ st.exec_block_index = segment.st_block_index
        /\ st.step_count \in 1 .. segment.n_step
        /\ st.steps.X = planned[p.line].X * scale /\ st.steps.Y = planned[p.line].Y * scale
        /\ Executed(st.counter, p.line, part)
    BY <1>1 DEF InterruptAt
  <2> HIDE DEF part, scale, segment
  <2>4. PICK c, q : c = st.counter /\ q = part
    OBVIOUS
  <2>5. Executed(c, p.line, q)'
    BY <2>1, <2>3, <2>4, ExecutedStays
  <2>6. Executed(st.counter, p.line, part)'
    BY <2>2, <2>4, <2>5 DEF Executed
  <2> QED
    BY <1>1, <2>1, <2>2, <2>3, <2>6 DEF InterruptAt, segment, scale, part
<1>2. CASE ~st.exec /\ p.done = 0
  <2>1. st.exec_block_index # IndexAt(segment_buffer_tail) /\ AtCorner(p.line - 1)
    BY <1>2 DEF InterruptAt
  <2>2. p.line - 1 \in 0 .. Len(planned)
    BY LinesKnown DEF Places
  <2>3. AtCorner(p.line - 1)'
    BY <2>1, <2>2, LinesGrow DEF AtCorner
  <2> QED
    BY <1>2, <2>1, <2>3 DEF InterruptAt
<1>3. CASE ~st.exec /\ p.done # 0
  <2>1. st.exec_block_index = IndexAt(segment_buffer_tail)
        /\ Executed(st.counter, p.line, p.done * Power2[MaxAmassLevel]) /\ p.line \in 1 .. Len(planned)
    BY <1>3 DEF InterruptAt
  <2>2. PICK c, q : c = st.counter /\ q = p.done * Power2[MaxAmassLevel]
    OBVIOUS
  <2>3. Executed(c, p.line, q)'
    BY <2>1, <2>2, ExecutedStays
  <2>4. Executed(st.counter, p.line, p.done * Power2[MaxAmassLevel])'
    BY <2>2, <2>3 DEF Executed
  <2> QED
    BY <1>3, <2>1, <2>4 DEF InterruptAt
<1> QED
  BY <1>1, <1>2, <1>3

\* Steps that leave the rings and what is begun of a line alone, or plan more lines.
LEMMA CutStays ==
    ASSUME RingsAssumption, MotionAssumption, StepperTyped, LineAtHand, current <= Len(planned) + 1,
           NEW place, CutInto(place),
           planned' = planned \/ \E l \in Lines : planned' = Append(planned, l),
           Begun' <=> Begun, prep'.steps_remaining = prep.steps_remaining,
           prep'.st_block_index = prep.st_block_index,
           UNCHANGED <<current, segment_buffer, segment_buffer_head, segment_buffer_tail, st_block_buffer,
                       st, motor_steps>>
    PROVE  LineAtHand' /\ current' <= Len(planned)' + 1 /\ CutInto(place)'
<1>1. Len(planned) \in Nat /\ Len(planned') \in Nat /\ Len(planned) <= Len(planned') /\ planned \in Seq(Lines)
      /\ current \in Nat \ {0} /\ current' = current
  BY LinesGrow, LinesKnown DEF StepperTyped
<1>2. LineAtHand'
  <2>1. SUFFICES ASSUME Begun PROVE LineAtHand'
    BY DEF LineAtHand
  <2>2. current \in 1 .. Len(planned)
    BY <1>1, <2>1 DEF LineAtHand
  <2>3. Events(current)' = Events(current) /\ planned'[current] = planned[current]
    <3>1. PICK c : c = current
      OBVIOUS
    <3>2. Events(c)' = Events(c) /\ planned'[c] = planned[c]
      BY <1>1, <2>2, <3>1, LinesGrow
    <3> QED
      BY <1>1, <3>1, <3>2 DEF Events
  <2> QED
    BY <1>1, <2>1, <2>2, <2>3 DEF LineAtHand
<1>3. GeneratorAt' = GeneratorAt
  <2>1. CASE Begun
    <3>1. current \in 1 .. Len(planned)
      BY <1>1, <2>1 DEF LineAtHand
    <3>2. PICK c : c = current
      OBVIOUS
    <3>3. Events(c)' = Events(c)
      BY <1>1, <3>1, <3>2, LinesGrow
    <3>4. Events(current)' = Events(current)
      BY <1>1, <3>2, <3>3 DEF Events
    <3> QED
      BY <1>1, <2>1, <3>4 DEF GeneratorAt
  <2>2. CASE ~Begun
    BY <1>1, <2>2 DEF GeneratorAt
  <2> QED
    BY <2>1, <2>2
<1>4. \A i : IndexAt(i)' = IndexAt(i)
  BY DEF IndexAt
<1>5. Pending' = Pending
  BY DEF Pending
<1>6. ASSUME NEW i \in Pending PROVE PieceOfLine(i, place[i], place[NextSegment(i)])'
  <2>1. PieceOfLine(i, place[i], place[NextSegment(i)]) /\ place[i] \in Places
    BY PlacesKnown, PendingInTurn DEF CutInto
  <2> QED
    BY <1>1, <1>4, <2>1, PieceStays
<1>7. InterruptAt(place[segment_buffer_tail])'
  <2>1. PICK p : p = place[segment_buffer_tail]
    OBVIOUS
  <2>2. p \in Places /\ InterruptAt(p) /\ p.line <= Len(planned) + 1
        /\ (st.exec \/ p.done # 0 => p.line \in 1 .. Len(planned))
    BY <2>1, PlacesKnown DEF CutInto
  <2>3. IndexAt(segment_buffer_tail)' = IndexAt(segment_buffer_tail)
    BY DEF IndexAt
  <2>4. InterruptAt(p)'
    BY <1>1, <2>2, <2>3, InterruptStays
  <2> QED
    BY <2>1, <2>4 DEF InterruptAt
<1> QED
  BY <1>1, <1>2, <1>3, <1>5, <1>6, <1>7 DEF CutInto

\* What the generator loads: nothing new, or a block in data of its own.
LEMMA BlockLoaded ==
    ASSUME RingsAssumption, StepperTyped, LoadBlock
    PROVE  /\ UNCHANGED <<planned, current, system_block, segment_buffer, segment_buffer_head, segment_buffer_tail,
                          st, motor_steps, state, preparing, step_control, rtCycleStop, interrupted>>
           /\ prep'.loaded /\ ~prep.loaded /\ ~Commanded("endMotion")
           /\ Commanded("executeSysMotion") \/ ~PlanEmpty
           /\ Continues => /\ prep'.st_block_index = prep.st_block_index
                           /\ prep'.steps_remaining = prep.steps_remaining
                           /\ prep'.flags = FlagsAfterLoad
                           /\ UNCHANGED st_block_buffer
           /\ ~Continues => /\ prep'.st_block_index = next_block_index(prep.st_block_index)
                            /\ prep'.st_block_index \in StBlocks /\ prep'.flags = prep.flags
                            /\ prep'.steps_remaining = EventCount(IF Commanded("executeSysMotion")
                                                                   THEN SystemMotion(system_block)
                                                                   ELSE LineMotion(planned[current]))
                            /\ st_block_buffer'[prep'.st_block_index] =
                                   StBlock(IF Commanded("executeSysMotion") THEN SystemMotion(system_block)
                                           ELSE LineMotion(planned[current]))
                            /\ \A i \in StBlocks \ {prep'.st_block_index} : st_block_buffer'[i] = st_block_buffer[i]
<1>0. prep \in Preps /\ DOMAIN st_block_buffer = StBlocks
  BY DEF StepperTyped
<1>1. /\ UNCHANGED <<planned, current, system_block, segment_buffer, segment_buffer_head, segment_buffer_tail,
                     st, motor_steps, state, preparing, step_control, rtCycleStop, interrupted>>
      /\ ~prep.loaded /\ ~Commanded("endMotion") /\ (Commanded("executeSysMotion") \/ ~PlanEmpty)
  BY DEF LoadBlock, Working, GeneratorRest, interrupt
<1>2. ASSUME Continues
      PROVE  /\ prep'.loaded /\ prep'.st_block_index = prep.st_block_index
             /\ prep'.steps_remaining = prep.steps_remaining /\ prep'.flags = FlagsAfterLoad
             /\ UNCHANGED st_block_buffer
  <2>1. prep' = [prep EXCEPT !.loaded = TRUE, !.flags = FlagsAfterLoad] /\ UNCHANGED st_block_buffer
    BY <1>2 DEF LoadBlock
  <2>2. prep'.loaded /\ prep'.st_block_index = prep.st_block_index
        /\ prep'.steps_remaining = prep.steps_remaining /\ prep'.flags = FlagsAfterLoad
    BY <1>0, <2>1 DEF Preps
  <2> QED
    BY <2>1, <2>2
<1>3. ASSUME ~Continues
      PROVE  /\ prep'.loaded /\ prep'.st_block_index = next_block_index(prep.st_block_index)
             /\ prep'.st_block_index \in StBlocks /\ prep'.flags = prep.flags
             /\ prep'.steps_remaining = EventCount(IF Commanded("executeSysMotion")
                                                    THEN SystemMotion(system_block)
                                                    ELSE LineMotion(planned[current]))
             /\ st_block_buffer'[prep'.st_block_index] =
                    StBlock(IF Commanded("executeSysMotion") THEN SystemMotion(system_block)
                            ELSE LineMotion(planned[current]))
             /\ \A i \in StBlocks \ {prep'.st_block_index} : st_block_buffer'[i] = st_block_buffer[i]
  <2> DEFINE motion == IF Commanded("executeSysMotion") THEN SystemMotion(system_block)
                       ELSE LineMotion(planned[current])
             index == next_block_index(prep.st_block_index)
             count == EventCount(motion)
             block == StBlock(motion)
  <2>1. prep' = [prep EXCEPT !.loaded = TRUE, !.st_block_index = index, !.steps_remaining = count]
        /\ st_block_buffer' = [st_block_buffer EXCEPT ![index] = block]
    BY <1>3 DEF LoadBlock
  <2>2. index \in StBlocks
    BY <1>0, NextIndices DEF Preps
  <2>3. st_block_buffer'[index] = block /\ \A i \in StBlocks \ {index} : st_block_buffer'[i] = st_block_buffer[i]
    <3> HIDE DEF block, index
    <3> QED
      BY <1>0, <2>1, <2>2
  <2>4. prep'.loaded /\ prep'.st_block_index = index /\ prep'.steps_remaining = count /\ prep'.flags = prep.flags
    <3> HIDE DEF count, index
    <3> QED
      BY <1>0, <2>1 DEF Preps
  <2>5. count = EventCount(motion) /\ block = StBlock(motion)
    OBVIOUS
  <2> HIDE DEF count, block, index
  <2>6. /\ prep'.st_block_index = index /\ prep'.st_block_index \in StBlocks
        /\ prep'.steps_remaining = EventCount(motion) /\ prep'.flags = prep.flags
        /\ st_block_buffer'[prep'.st_block_index] = StBlock(motion)
        /\ \A i \in StBlocks \ {prep'.st_block_index} : st_block_buffer'[i] = st_block_buffer[i]
    <3> HIDE DEF motion
    <3> QED
      BY <2>2, <2>3, <2>4, <2>5
  <2> QED
    BY <2>4, <2>6, Zenon DEF index
<1>4. prep'.loaded
  BY <1>2, <1>3
<1> QED
  BY <1>1, <1>2, <1>3, <1>4

\* A line is loaded: the first of its segments comes next.
LEMMA CutAfterLoad ==
    ASSUME RingsAssumption, MotionAssumption, StepperTyped, EachHasSegment, ControlPlaced,
           interrupted = "nothing", state # "Parking", LineAtHand, current <= Len(planned) + 1,
           NEW place, CutInto(place), LoadBlock
    PROVE  LineAtHand' /\ current' <= Len(planned)' + 1 /\ CutInto(place)'
<1>1. /\ UNCHANGED <<planned, current, segment_buffer, segment_buffer_head, segment_buffer_tail, st, motor_steps>>
      /\ ~Commanded("executeSysMotion") /\ ~PlanEmpty /\ prep'.loaded /\ ~prep.loaded
  BY BlockLoaded DEF ControlPlaced
<1>2. CASE Continues
  <2>1. Begun /\ Begun' /\ prep'.steps_remaining = prep.steps_remaining
        /\ prep'.st_block_index = prep.st_block_index /\ UNCHANGED st_block_buffer
    BY <1>1, <1>2, BlockLoaded DEF Begun
  <2> QED
    BY <1>1, <2>1, CutStays
<1>3. CASE ~Continues
  <2> DEFINE index == next_block_index(prep.st_block_index)
  <2>1. /\ prep'.st_block_index = index /\ index \in StBlocks
        /\ prep'.steps_remaining = Events(current)
        /\ st_block_buffer'[index] = StBlock(LineMotion(planned[current]))
        /\ \A i \in StBlocks \ {index} : st_block_buffer'[i] = st_block_buffer[i]
    BY <1>1, <1>3, BlockLoaded DEF Events
  <2>2. ~Begun /\ Begun'
    BY <1>1, <1>3 DEF Begun
  <2>3. current \in 1 .. Len(planned) /\ Events(current) \in Nat \ {0} /\ planned \in Seq(Lines)
        /\ Events(current)' = Events(current) /\ Len(planned) \in Nat
    <3>1. current \in 1 .. Len(planned)
      BY <1>1, LinesKnown DEF StepperTyped, PlanEmpty
    <3> QED
      BY <1>1, <3>1, LinesKnown DEF StepperTyped, Events
  <2>4. \A i : IndexAt(i)' = IndexAt(i)
    BY <1>1, <2>1, <2>2 DEF IndexAt
  <2>5. GeneratorAt' = GeneratorAt
    BY <1>1, <2>1, <2>2, <2>3 DEF GeneratorAt
  <2>6. Pending' = Pending
    BY <1>1 DEF Pending
  <2>7. LineAtHand' /\ current' <= Len(planned)' + 1
    <3>1. st_block_buffer'[prep'.st_block_index] = StBlock(LineMotion(planned'[current']))
      BY <1>1, <2>1
    <3>2. current' <= Len(planned') /\ prep'.steps_remaining \in 1 .. Events(current)'
      BY <1>1, <2>1, <2>3
    <3> QED
      BY <1>1, <2>3, <3>1, <3>2 DEF LineAtHand
  <2>8. ASSUME NEW i \in Pending PROVE PieceOfLine(i, place[i], place[NextSegment(i)])'
    <3>1. PieceOfLine(i, place[i], place[NextSegment(i)]) /\ place[i] \in Places
      BY PlacesKnown, PendingInTurn DEF CutInto
    <3>2. segment_buffer[i].st_block_index \in StBlocks \ {index}
      BY <1>3, LoadedApart, PendingBehind
    <3>3. st_block_buffer'[segment_buffer[i].st_block_index] = st_block_buffer[segment_buffer[i].st_block_index]
      BY <2>1, <3>2
    <3> QED
      BY <1>1, <2>3, <2>4, <3>1, <3>3, PieceStays
  <2>9. InterruptAt(place[segment_buffer_tail])'
    <3>1. PICK p : p = place[segment_buffer_tail]
      OBVIOUS
    <3>2. p \in Places /\ InterruptAt(p) /\ p.line <= Len(planned) + 1
          /\ (st.exec \/ p.done # 0 => p.line \in 1 .. Len(planned))
      BY <3>1, PlacesKnown DEF CutInto
    <3>3. IndexAt(segment_buffer_tail)' = IndexAt(segment_buffer_tail)
      BY <1>1, <2>1, <2>2 DEF IndexAt
    <3>4. InterruptAt(p)'
      BY <1>1, <2>3, <3>2, <3>3, InterruptStays
    <3> QED
      BY <1>1, <3>1, <3>4 DEF InterruptAt
  <2> HIDE DEF index
  <2> QED
    BY <1>1, <2>5, <2>6, <2>7, <2>8, <2>9 DEF CutInto
<1> QED
  BY <1>2, <1>3

\* What the generator makes: a segment at the head, and what is left of the motion.
LEMMA SegmentPublished ==
    ASSUME RingsAssumption, StepperTyped, ControlPlaced,
           NEW n \in 1 .. prep.steps_remaining, NEW level, MakeSegment(n, level)
    PROVE  /\ UNCHANGED <<planned, system_block, segment_buffer_tail, st_block_buffer, st, motor_steps, state,
                          preparing, rtCycleStop, interrupted>>
           /\ prep.loaded /\ ~Continues /\ ~Commanded("endMotion")
           /\ n \in Nat \ {0} /\ n <= prep.steps_remaining /\ n <= MaxSegment
           /\ segment_buffer_head' = NextSegment(segment_buffer_head) /\ segment_buffer_head' \in Segments
           /\ segment_buffer_head' # segment_buffer_head /\ segment_buffer_tail # segment_buffer_head'
           /\ segment_buffer'[segment_buffer_head].n_step = n * Power2[level]
           /\ segment_buffer'[segment_buffer_head].amass_level = level
           /\ segment_buffer'[segment_buffer_head].st_block_index = prep.st_block_index
           /\ \A i \in Segments \ {segment_buffer_head} : segment_buffer'[i] = segment_buffer[i]
           /\ prep'.st_block_index = prep.st_block_index
           /\ prep'.steps_remaining = prep.steps_remaining - n /\ prep'.steps_remaining \in Nat
           /\ "parking" \in prep.flags => prep'.flags = prep.flags
           /\ IF prep'.steps_remaining > 0 \/ Commanded("executeSysMotion")
              THEN prep'.loaded /\ current' = current
              ELSE ~prep'.loaded /\ "recalculate" \notin prep'.flags /\ current' = current + 1
           /\ Pending' = Pending \cup {segment_buffer_head}
           /\ segment_buffer_head \notin Pending /\ segment_buffer_head' \notin Pending
<1>1. /\ UNCHANGED <<planned, system_block, segment_buffer_tail, st_block_buffer, st, motor_steps, state,
                     preparing, rtCycleStop, interrupted>>
      /\ prep.loaded /\ ~Continues /\ ~Commanded("endMotion") /\ n <= MaxSegment
  BY DEF MakeSegment, Working, GeneratorRest, interrupt, ControlPlaced
<1>2. prep \in Preps /\ n \in Nat \ {0} /\ n <= prep.steps_remaining /\ prep.steps_remaining \in Nat
      /\ prep.steps_remaining - n \in Nat
  BY DEF StepperTyped, Preps
<1>3. /\ segment_buffer_head' = NextSegment(segment_buffer_head) /\ segment_buffer_head' \in Segments
      /\ segment_buffer_head' # segment_buffer_head /\ segment_buffer_tail # segment_buffer_head'
  <2>1. segment_buffer_head' = NextSegment(segment_buffer_head)
        /\ segment_buffer_tail # NextSegment(segment_buffer_head)
        /\ segment_buffer_head \in Segments
    BY DEF MakeSegment, Working, Room, Full, StepperTyped
  <2> QED
    BY <2>1 DEF NextSegment, Segments, RingsAssumption
<1>4. /\ segment_buffer'[segment_buffer_head].n_step = n * Power2[level]
      /\ segment_buffer'[segment_buffer_head].amass_level = level
      /\ segment_buffer'[segment_buffer_head].st_block_index = prep.st_block_index
      /\ \A i \in Segments \ {segment_buffer_head} : segment_buffer'[i] = segment_buffer[i]
  <2> DEFINE made == [n_step |-> n * Power2[level], amass_level |-> level, st_block_index |-> prep.st_block_index]
  <2>1. segment_buffer' = [segment_buffer EXCEPT ![segment_buffer_head] = made]
    BY DEF MakeSegment
  <2>2. /\ made.n_step = n * Power2[level] /\ made.amass_level = level
        /\ made.st_block_index = prep.st_block_index
        /\ DOMAIN segment_buffer = Segments /\ segment_buffer_head \in Segments
    BY DEF StepperTyped
  <2> HIDE DEF made
  <2> QED
    BY <2>1, <2>2
<1>5. /\ prep'.st_block_index = prep.st_block_index
      /\ prep'.steps_remaining = prep.steps_remaining - n
      /\ "parking" \in prep.flags => prep'.flags = prep.flags
      /\ IF prep'.steps_remaining > 0 \/ Commanded("executeSysMotion")
         THEN prep'.loaded /\ current' = current
         ELSE ~prep'.loaded /\ "recalculate" \notin prep'.flags /\ current' = current + 1
  <2> DEFINE p == [prep EXCEPT !.steps_remaining = @ - n]
  <2>1. p \in Preps /\ p.steps_remaining = prep.steps_remaining - n /\ p.flags = prep.flags
        /\ p.loaded = prep.loaded /\ p.st_block_index = prep.st_block_index
    BY <1>2 DEF Preps
  <2>2. IF p.steps_remaining > 0
        THEN /\ \/ prep' = p /\ UNCHANGED step_control
                \/ Commanded("executeHold") /\ EndHold(p)
             /\ UNCHANGED current
        ELSE IF Commanded("executeSysMotion")
        THEN /\ prep' = p
             /\ step_control' = step_control \cup {"endMotion"}
             /\ UNCHANGED current
        ELSE /\ prep' = [p EXCEPT !.loaded = FALSE]
             /\ current' = current + 1
             /\ UNCHANGED step_control
    BY DEF MakeSegment
  <2>3. "recalculate" \notin prep.flags
    BY <1>1 DEF Continues
  <2> HIDE DEF p
  <2>4. CASE prep' = p /\ UNCHANGED current /\ (p.steps_remaining > 0 \/ Commanded("executeSysMotion"))
    BY <1>1, <2>1, <2>4
  <2>5. CASE EndHold(p) /\ UNCHANGED current /\ p.steps_remaining > 0
    <3>1. prep' = IF "parking" \in prep.flags THEN p
                  ELSE [p EXCEPT !.flags = @ \cup {"holdPartialBlock"}]
      BY <2>5 DEF EndHold
    <3>2. prep'.st_block_index = p.st_block_index /\ prep'.steps_remaining = p.steps_remaining
          /\ prep'.loaded = p.loaded /\ ("parking" \in prep.flags => prep'.flags = p.flags)
      BY <2>1, <3>1 DEF Preps
    <3> QED
      BY <1>1, <2>1, <2>5, <3>2
  <2>6. CASE prep' = [p EXCEPT !.loaded = FALSE] /\ current' = current + 1
             /\ ~(p.steps_remaining > 0) /\ ~Commanded("executeSysMotion")
    <3>1. prep'.st_block_index = p.st_block_index /\ prep'.steps_remaining = p.steps_remaining
          /\ ~prep'.loaded /\ prep'.flags = p.flags
      BY <2>1, <2>6 DEF Preps
    <3> QED
      BY <2>1, <2>3, <2>6, <3>1
  <2> QED
    BY <2>2, <2>4, <2>5, <2>6
<1>6. /\ Pending' = Pending \cup {segment_buffer_head}
      /\ segment_buffer_head \notin Pending /\ segment_buffer_head' \notin Pending
  <2>1. segment_buffer_tail' = segment_buffer_tail /\ segment_buffer_tail \in Segments
        /\ segment_buffer_head \in Segments
    BY <1>1 DEF StepperTyped
  <2> QED
    BY <1>3, <2>1 DEF Pending, NextSegment, Segments, RingsAssumption
<1> QED
  BY <1>1, <1>2, <1>3, <1>4, <1>5, <1>6

\* Only the line and what is before it matter of a place where the next piece begins.
LEMMA SameStart ==
    ASSUME NEW p, NEW q, q.line = p.line, q.done = p.done
    PROVE  /\ \A i, here : PieceOfLine(i, here, p)' => PieceOfLine(i, here, q)'
           /\ ~st'.exec /\ InterruptAt(p)' => InterruptAt(q)'
BY DEF PieceOfLine, InterruptAt

\* A segment is made: the next piece of the line, and the line may be over.
LEMMA CutAfterSegment ==
    ASSUME RingsAssumption, MotionAssumption, StepperTyped, ControlPlaced,
           state # "Parking", LineAtHand, current <= Len(planned) + 1, NEW place, CutInto(place),
           NEW n \in 1 .. prep.steps_remaining, NEW level \in 0 .. MaxAmassLevel, MakeSegment(n, level)
    PROVE  LineAtHand' /\ current' <= Len(planned)' + 1 /\ \E new : CutInto(new)'
<1>1. PICK h, t, k : h = segment_buffer_head /\ t = segment_buffer_tail /\ k = current
  OBVIOUS
<1>2. PICK g : g = segment_buffer_head'
  OBVIOUS
<1>3. /\ UNCHANGED <<planned, segment_buffer_tail, st_block_buffer, st, motor_steps>>
      /\ prep.loaded /\ ~Continues /\ Begun /\ ~Commanded("executeSysMotion")
      /\ n \in Nat \ {0} /\ n <= prep.steps_remaining /\ n <= MaxSegment
      /\ g = NextSegment(h) /\ g \in Segments /\ h \in Segments /\ t \in Segments /\ g # h /\ t # g
      /\ h \notin Pending /\ g \notin Pending /\ Pending' = Pending \cup {h}
  BY <1>1, <1>2, SegmentPublished DEF Begun, ControlPlaced, StepperTyped
<1>4. /\ segment_buffer'[h].n_step = n * Power2[level] /\ segment_buffer'[h].amass_level = level
      /\ segment_buffer'[h].st_block_index = prep.st_block_index
      /\ \A i \in Segments \ {h} : segment_buffer'[i] = segment_buffer[i]
      /\ prep'.st_block_index = prep.st_block_index
      /\ prep'.steps_remaining = prep.steps_remaining - n /\ prep'.steps_remaining \in Nat
      /\ IF prep'.steps_remaining > 0 THEN prep'.loaded /\ current' = k
         ELSE ~prep'.loaded /\ "recalculate" \notin prep'.flags /\ current' = k + 1
  BY <1>1, <1>3, SegmentPublished
<1>5. /\ k \in 1 .. Len(planned) /\ Len(planned) \in Nat /\ planned \in Seq(Lines)
      /\ prep.steps_remaining \in 1 .. Events(k) /\ Events(k) \in Nat \ {0} /\ Events(k)' = Events(k)
      /\ st_block_buffer[prep.st_block_index] = StBlock(LineMotion(planned[k]))
  <2>1. k \in 1 .. Len(planned) /\ Len(planned) \in Nat /\ planned \in Seq(Lines)
    BY <1>1, <1>3, LinesKnown DEF StepperTyped, LineAtHand
  <2> QED
    BY <1>1, <1>3, <2>1, LinesKnown DEF Events, LineAtHand
<1>6. PICK d : d = Events(k) - prep.steps_remaining
  OBVIOUS
<1> DEFINE here == [line |-> k, done |-> d, steps |-> n]
           next == IF d + n < Events(k) THEN [line |-> k, done |-> d + n, steps |-> 0]
                   ELSE [line |-> k + 1, done |-> 0, steps |-> 0]
<1>7. PICK q : q = next
  OBVIOUS
<1>8. d \in Nat /\ d + n <= Events(k) /\ prep'.steps_remaining = Events(k) - (d + n)
  <2>1. PICK r, e : r = prep.steps_remaining /\ e = Events(k)
    OBVIOUS
  <2>2. e \in Nat \ {0} /\ r \in 1 .. e /\ n \in Nat \ {0} /\ n <= r /\ d = e - r
    BY <1>3, <1>5, <1>6, <2>1
  <2>3. d \in Nat /\ d + n <= e /\ r - n = e - (d + n)
    BY ONLY <2>2
  <2>4. prep'.steps_remaining = r - n
    BY <1>4, <2>1
  <2> QED
    BY <2>1, <2>3, <2>4
<1>9. Begun' <=> d + n < Events(k)
  <2>1. PICK r, e : r = prep'.steps_remaining /\ e = Events(k)
    OBVIOUS
  <2>2. e \in Nat /\ d \in Nat /\ n \in Nat /\ r = e - (d + n) /\ r \in Nat
    BY <1>3, <1>4, <1>5, <1>8, <2>1
  <2>3. r > 0 <=> d + n < e
    BY ONLY <2>2
  <2>4. prep'.steps_remaining > 0 <=> d + n < Events(k)
    BY <2>1, <2>3
  <2> HIDE DEF here, next
  <2> QED
    BY <1>4, <2>4 DEF Begun, Continues
<1>10. GeneratorAt' = q
  <2>1. CASE d + n < Events(k)
    <3>1. current' = k /\ Events(current)' = Events(k)
          /\ Events(k) - prep'.steps_remaining = d + n
      <4>1. current' = k
        BY <1>4, <1>5, <1>8, <2>1
      <4>2. Events(current)' = Events(k)
        BY <1>5, <4>1 DEF Events
      <4>3. Events(k) - prep'.steps_remaining = d + n
        BY <1>5, <1>8
      <4> QED
        BY <4>1, <4>2, <4>3
    <3> QED
      BY <1>7, <1>9, <2>1, <3>1 DEF GeneratorAt
  <2>2. CASE ~(d + n < Events(k))
    <3>1. current' = k + 1
      BY <1>4, <1>5, <1>8, <2>2
    <3> QED
      BY <1>7, <1>9, <2>2, <3>1 DEF GeneratorAt
  <2> QED
    BY <2>1, <2>2
<1>11. here \in Places /\ q \in Places
  <2>1. k \in Nat \ {0} /\ d \in Nat /\ n \in Nat /\ d + n \in Nat /\ k + 1 \in Nat \ {0}
    <3>1. k \in Nat \ {0}
      BY <1>5
    <3>2. d \in Nat /\ n \in Nat
      BY <1>3, <1>8
    <3> QED
      BY ONLY <3>1, <3>2
  <2> QED
    BY <1>7, <2>1 DEF Places
<1>12. place \in [Segments -> Places] /\ place[h] = GeneratorAt /\ place[h].line = k /\ place[h].done = d
  BY <1>1, <1>3, <1>6 DEF CutInto, GeneratorAt
<1> DEFINE new == [i \in Segments |-> IF i = h THEN here ELSE IF i = g THEN q ELSE place[i]]
<1>13. new \in [Segments -> Places] /\ new[g] = q /\ new[h] = here
       /\ \A i \in Segments \ {g, h} : new[i] = place[i]
  BY <1>3, <1>11, <1>12
<1>14. IndexAt(h) = prep.st_block_index /\ IndexAt(h)' = prep.st_block_index
       /\ (\A i \in Segments \ {g, h} : IndexAt(i)' = IndexAt(i))
       /\ IndexAt(g)' = IF Begun' THEN prep.st_block_index ELSE next_block_index(prep.st_block_index)
  BY <1>1, <1>2, <1>3, <1>4 DEF IndexAt
<1>15. next_block_index(prep.st_block_index) # prep.st_block_index
  BY DEF StepperTyped, Preps, next_block_index, StBlocks, RingsAssumption
<1>16. LineAtHand' /\ current' <= Len(planned)' + 1
  <2>1. CASE d + n < Events(k)
    <3>1. current' = k /\ prep'.steps_remaining \in 1 .. Events(k)
      <4>1. PICK r, e : r = prep'.steps_remaining /\ e = Events(k)
        OBVIOUS
      <4>2. e \in Nat /\ d \in Nat /\ n \in Nat /\ r = e - (d + n) /\ r \in Nat /\ d + n < e
        BY <1>3, <1>4, <1>5, <1>8, <2>1, <4>1
      <4>3. r \in 1 .. e /\ r > 0
        BY ONLY <4>2
      <4> QED
        BY <1>4, <4>1, <4>3
    <3>2. Events(current)' = Events(k) /\ StBlock(LineMotion(planned[current]))' = StBlock(LineMotion(planned[k]))
      BY <1>3, <1>5, <3>1 DEF Events
    <3>3. k <= Len(planned') /\ k <= Len(planned') + 1
      BY <1>3, <1>5
    <3>4. st_block_buffer'[prep'.st_block_index] = StBlock(LineMotion(planned'[current']))
      BY <1>3, <1>4, <1>5, <3>1
    <3> QED
      BY <3>1, <3>2, <3>3, <3>4 DEF LineAtHand
  <2>2. CASE ~(d + n < Events(k))
    <3>1. ~Begun' /\ current' = k + 1 /\ k + 1 <= Len(planned') + 1
      BY <1>3, <1>4, <1>5, <1>8, <1>9, <2>2
    <3> QED
      BY <3>1 DEF LineAtHand
  <2> QED
    BY <2>1, <2>2
<1>17. PieceOfLine(h, here, q)'
  <2>1. here.line = k /\ here.done = d /\ here.steps = n
    OBVIOUS
  <2> HIDE DEF here
  <2>2. here.line <= Len(planned') /\ here.steps \in 1 .. MaxSegment
    <3>1. MaxSegment \in Nat
      BY DEF MotionAssumption
    <3> QED
      BY <1>3, <1>5, <2>1, <3>1
  <2>3. st_block_buffer'[segment_buffer'[h].st_block_index] = StBlock(LineMotion(planned'[here.line]))
    BY <1>3, <1>4, <1>5, <2>1
  <2>4. IndexAt(NextSegment(h))' = IndexAt(g)' /\ Events(here.line)' = Events(k)
    BY <1>3, <1>5, <2>1 DEF IndexAt, Events
  <2>5. \/ /\ q.line = here.line /\ q.done = here.done + here.steps
           /\ q.done < Events(here.line)'
           /\ IndexAt(NextSegment(h))' = segment_buffer'[h].st_block_index
        \/ /\ q.line = here.line + 1 /\ q.done = 0
           /\ here.done + here.steps = Events(here.line)'
           /\ IndexAt(NextSegment(h))' # segment_buffer'[h].st_block_index
    <3>1. CASE d + n < Events(k)
      <4>1. q.line = k /\ q.done = d + n
        BY <1>7, <3>1
      <4> QED
        BY <1>4, <1>9, <1>14, <2>1, <2>4, <3>1, <4>1
    <3>2. CASE ~(d + n < Events(k))
      <4>1. q.line = k + 1 /\ q.done = 0 /\ d + n = Events(k)
        <5>1. PICK e : e = Events(k)
          OBVIOUS
        <5>2. e \in Nat /\ d \in Nat /\ n \in Nat /\ d + n <= e /\ ~(d + n < e)
          BY <1>3, <1>5, <1>8, <3>2, <5>1
        <5>3. d + n = e
          BY ONLY <5>2
        <5>4. q.line = k + 1 /\ q.done = 0
          BY <1>7, <3>2
        <5> QED
          BY <5>1, <5>3, <5>4
      <4> QED
        BY <1>4, <1>9, <1>14, <1>15, <2>1, <2>4, <3>2, <4>1
    <3> QED
      BY <3>1, <3>2
  <2> QED
    BY <1>4, <2>1, <2>2, <2>3, <2>5 DEF PieceOfLine
<1> HIDE DEF new, here, next
<1>18. ASSUME NEW i \in Pending PROVE PieceOfLine(i, new[i], new[NextSegment(i)])'
  <2>1. /\ i \in Segments \ {g, h} /\ NextSegment(i) \in (Pending \cup {h}) \cap Segments
        /\ PieceOfLine(i, place[i], place[NextSegment(i)]) /\ place[i] \in Places
    BY <1>1, <1>3, PlacesKnown, PendingInTurn DEF CutInto
  <2>2. IndexAt(NextSegment(i))' = IndexAt(NextSegment(i))
    <3>1. PICK j \in (Pending \cup {h}) \cap Segments : j = NextSegment(i)
      BY <2>1
    <3>2. j = h \/ j \in Segments \ {g, h}
      BY <1>3, <3>1
    <3>3. IndexAt(j)' = IndexAt(j)
      BY <1>14, <3>2
    <3> QED
      BY <3>1, <3>3 DEF IndexAt
  <2>3. PieceOfLine(i, place[i], place[NextSegment(i)])'
    <3>1. segment_buffer'[i] = segment_buffer[i]
      BY <1>4, <2>1
    <3> QED
      BY <1>3, <1>5, <2>1, <2>2, <3>1, PieceStays
  <2>4. new[i] = place[i]
    BY <1>13, <2>1
  <2>5. CASE NextSegment(i) = h
    <3>1. new[NextSegment(i)].line = place[NextSegment(i)].line
          /\ new[NextSegment(i)].done = place[NextSegment(i)].done
      BY <1>12, <1>13, <2>5 DEF here
    <3> QED
      BY <2>3, <2>4, <3>1, SameStart
  <2>6. CASE NextSegment(i) # h
    <3>1. new[NextSegment(i)] = place[NextSegment(i)]
      BY <1>3, <1>13, <2>1, <2>6
    <3> QED
      BY <2>3, <2>4, <3>1
  <2> QED
    BY <2>5, <2>6
<1>19. InterruptAt(new[t])'
  <2>1. PICK p : p = place[t]
    OBVIOUS
  <2>2. p \in Places /\ InterruptAt(p) /\ p.line <= Len(planned) + 1
        /\ (st.exec \/ p.done # 0 => p.line \in 1 .. Len(planned))
    BY <1>1, <2>1, PlacesKnown DEF CutInto
  <2>3. st.exec => t # h
    BY <1>1 DEF StepperTyped, Empty
  <2>4. st.exec => segment_buffer'[segment_buffer_tail] = segment_buffer[segment_buffer_tail]
    BY <1>1, <1>3, <1>4, <2>3
  <2>5. IndexAt(segment_buffer_tail)' = IndexAt(segment_buffer_tail)
    <3>1. IndexAt(t)' = IndexAt(t)
      BY <1>3, <1>14
    <3> QED
      BY <1>1, <1>3, <3>1 DEF IndexAt
  <2>6. InterruptAt(p)'
    BY <1>3, <1>5, <2>2, <2>4, <2>5, InterruptStays
  <2>7. CASE t = h
    <3>1. new[t].line = p.line /\ new[t].done = p.done /\ ~st'.exec
      BY <1>3, <1>12, <1>13, <2>1, <2>3, <2>7 DEF here
    <3> QED
      BY <2>6, <3>1, SameStart
  <2>8. CASE t # h
    BY <1>3, <1>13, <2>1, <2>6, <2>8
  <2> QED
    BY <2>7, <2>8
<1>20. CutInto(new)'
  <2>1. new[segment_buffer_head'] = GeneratorAt'
    BY <1>2, <1>10, <1>13
  <2>2. ASSUME NEW i \in Pending' PROVE PieceOfLine(i, new[i], new[NextSegment(i)])'
    BY <1>3, <1>13, <1>17, <1>18
  <2>3. InterruptAt(new[segment_buffer_tail])'
    BY <1>1, <1>3, <1>19 DEF InterruptAt
  <2> QED
    BY <1>13, <2>1, <2>2, <2>3 DEF CutInto
<1> QED
  BY <1>16, <1>20

-----------------------------------------------------------------------------
(* A step event.                                                            *)

\* What is raised to the highest AMASS level can be lowered again.
LEMMA LoweredAgain ==
    ASSUME NEW x \in Nat, NEW a \in Nat \ {0}, NEW b \in Nat
    PROVE  (x * (a * b)) \div a = x * b
<1> DEFINE m == x * b
<1>1. x * (a * b) = a * m /\ m \in Nat
  OBVIOUS
<1> HIDE DEF m
<1>2. (a * m) \div a = m
  <2> DEFINE q == (a * m) \div a
             r == (a * m) % a
  <2>1. a * m \in Nat
    BY <1>1
  <2>2. q \in Int /\ r \in 0 .. a - 1 /\ a * m = a * q + r
    BY <2>1
  <2> HIDE DEF q, r
  <2>3. a * (m - q) = r
    BY <1>1, <2>2
  <2>4. m - q >= 1 => a * (m - q) >= a
    BY <1>1, <2>2
  <2>5. m - q <= -1 => a * (m - q) <= -a
    BY <1>1, <2>2
  <2>6. m = q
    BY <1>1, <2>2, <2>3, <2>4, <2>5
  <2> QED
    BY <2>6 DEF q
<1> QED
  BY <1>1, <1>2 DEF m

\* What the interrupt takes up.
LEMMA TakenUp ==
    LET segment == segment_buffer[segment_buffer_tail]
        block == st_block_buffer[segment.st_block_index]
    IN  /\ st.exec => Loaded = st
        /\ ~st.exec => /\ Loaded.step_count = segment.n_step
                       /\ Loaded.exec_block_index = segment.st_block_index
                       /\ Loaded.steps.X = block.steps.X \div Power2[segment.amass_level]
                       /\ Loaded.steps.Y = block.steps.Y \div Power2[segment.amass_level]
                       /\ st.exec_block_index # segment.st_block_index =>
                             /\ Loaded.counter.X = block.step_event_count \div 2
                             /\ Loaded.counter.Y = block.step_event_count \div 2
                       /\ st.exec_block_index = segment.st_block_index => Loaded.counter = st.counter
BY DEF Loaded, Begins, Axes

\* What a step event does.
LEMMA Pulsed ==
    ASSUME RingsAssumption, StepperTyped, Pulse
    PROVE  /\ UNCHANGED <<planned, generator, preparing, timer, rtCycleStop, state, step_control, interrupted>>
           /\ ~Empty /\ timer
           /\ st'.exec <=> Loaded.step_count # 1
           /\ st'.step_count = (Loaded.step_count - 1) % StepCounts
           /\ st'.exec_block_index = Loaded.exec_block_index /\ st'.steps = Loaded.steps
           /\ segment_buffer_tail' = IF Loaded.step_count = 1 THEN NextSegment(segment_buffer_tail)
                                     ELSE segment_buffer_tail
           /\ \A a \in {"X", "Y"} :
                 LET count == Loaded.counter[a] + Loaded.steps[a]
                     block == st_block_buffer[Loaded.exec_block_index]
                 IN  IF count > block.step_event_count
                     THEN /\ st'.counter[a] = count - block.step_event_count
                          /\ motor_steps'[a] = IF block.down THEN motor_steps[a] - 1 ELSE motor_steps[a] + 1
                     ELSE st'.counter[a] = count /\ motor_steps'[a] = motor_steps[a]
<1> DEFINE s == Loaded
           block == st_block_buffer[s.exec_block_index]
           count == [a \in Axes |-> s.counter[a] + s.steps[a]]
           moves == {a \in Axes : count[a] > block.step_event_count}
           counters == [a \in Axes |-> IF a \in moves THEN count[a] - block.step_event_count ELSE count[a]]
           left == (s.step_count - 1) % StepCounts
           last == s.step_count = 1
<1>1. /\ UNCHANGED <<planned, generator, preparing, timer, rtCycleStop, state, step_control, interrupted>>
      /\ ~Empty /\ timer
  BY DEF Pulse, StepperTyped
<1>2. /\ st' = [s EXCEPT !.exec = ~last, !.step_count = left, !.counter = counters]
      /\ motor_steps' = [a \in Axes |-> IF a \notin moves THEN motor_steps[a]
                                        ELSE IF block.down THEN motor_steps[a] - 1
                                        ELSE motor_steps[a] + 1]
      /\ segment_buffer_tail' = IF last THEN NextSegment(segment_buffer_tail) ELSE segment_buffer_tail
  BY DEF Pulse
<1>3. DOMAIN s = {"exec", "step_count", "exec_block_index", "counter", "steps"}
  BY DEF Loaded, StepperTyped
<1>4. ASSUME NEW a \in {"X", "Y"}
      PROVE  LET c == s.counter[a] + s.steps[a]
             IN  IF c > block.step_event_count
                 THEN /\ counters[a] = c - block.step_event_count
                      /\ motor_steps'[a] = IF block.down THEN motor_steps[a] - 1 ELSE motor_steps[a] + 1
                 ELSE counters[a] = c /\ motor_steps'[a] = motor_steps[a]
  <2>1. a \in Axes /\ count[a] = s.counter[a] + s.steps[a]
    BY DEF Axes
  <2> HIDE DEF s, block, count
  <2>2. a \in moves <=> count[a] > block.step_event_count
    BY <2>1
  <2>3. counters[a] = IF a \in moves THEN count[a] - block.step_event_count ELSE count[a]
    BY <2>1
  <2>4. motor_steps'[a] = IF a \notin moves THEN motor_steps[a]
                          ELSE IF block.down THEN motor_steps[a] - 1
                          ELSE motor_steps[a] + 1
    BY <1>2, <2>1
  <2> HIDE DEF moves, counters
  <2> QED
    BY <2>1, <2>2, <2>3, <2>4
<1>5. /\ st'.exec = ~last /\ st'.step_count = left /\ st'.counter = counters
      /\ st'.exec_block_index = s.exec_block_index /\ st'.steps = s.steps
  <2> HIDE DEF s, counters, left, last
  <2> QED
    BY <1>2, <1>3
<1> HIDE DEF counters
<1>6. \A a \in {"X", "Y"} :
         LET c == Loaded.counter[a] + Loaded.steps[a]
             b == st_block_buffer[Loaded.exec_block_index]
         IN  IF c > b.step_event_count
             THEN /\ st'.counter[a] = c - b.step_event_count
                  /\ motor_steps'[a] = IF b.down THEN motor_steps[a] - 1 ELSE motor_steps[a] + 1
             ELSE st'.counter[a] = c /\ motor_steps'[a] = motor_steps[a]
  BY <1>4, <1>5
<1>7. st'.exec <=> Loaded.step_count # 1
  BY <1>5
<1> QED
  BY <1>1, <1>2, <1>5, <1>6, <1>7

\* The pulses of a segment fit their counter.
LEMMA PulsesFit ==
    ASSUME MotionAssumption, NEW steps \in 1 .. MaxSegment, NEW level \in 0 .. MaxAmassLevel
    PROVE  steps * Power2[level] \in Nat \ {0} /\ steps * Power2[level] < StepCounts
<1>1. PICK P, a : P = Power2[MaxAmassLevel] /\ a = Power2[level]
  OBVIOUS
<1>2. P \in Nat \ {0} /\ a \in Nat \ {0} /\ a <= P
  BY <1>1, AmassScales
<1>3. steps \in Nat \ {0} /\ steps <= MaxSegment /\ MaxSegment \in Nat \ {0} /\ MaxSegment * P < StepCounts
  BY <1>1 DEF MotionAssumption
<1>4. StepCounts \in Nat
  BY DEF StepCounts
<1>5. steps * a \in Nat \ {0}
  BY <1>2, <1>3
<1>6. steps * a <= MaxSegment * a /\ MaxSegment * a <= MaxSegment * P
  BY <1>2, <1>3
<1>7. steps * a \in Nat /\ MaxSegment * a \in Nat /\ MaxSegment * P \in Nat
  BY <1>2, <1>3
<1> QED
  BY <1>1, <1>3, <1>4, <1>5, <1>6, <1>7

\* An axis in a step event: its counter is where it should be after one event more.
LEMMA AxisMoves ==
    ASSUME NEW whole \in Nat, NEW part \in Nat, NEW scale \in Nat, NEW steps \in Nat, NEW from \in Int,
           NEW counter \in Int, NEW motor \in Int, NEW count, NEW after, NEW moved,
           Bresenham(counter, motor - from, steps, whole, part), steps * scale <= whole,
           count = counter + steps * scale,
           IF count > whole THEN after = count - whole /\ moved = motor + 1
                            ELSE after = count /\ moved = motor
    PROVE  Bresenham(after, moved - from, steps, whole, part + scale)
<1>1. motor - from \in Int /\ (motor + 1) - from = (motor - from) + 1
  OBVIOUS
<1>2. CASE count > whole
  <2>1. moved - from = (motor - from) + 1 /\ after = (counter + steps * scale) - whole
    BY <1>1, <1>2
  <2>2. Bresenham((counter + steps * scale) - whole, (motor - from) + 1, steps, whole, part + scale)
    BY <1>1, <1>2, BresenhamGoesOn
  <2> QED
    BY <2>1, <2>2
<1>3. CASE ~(count > whole)
  <2>1. moved - from = motor - from /\ after = counter + steps * scale
    BY <1>3
  <2>2. Bresenham(counter + steps * scale, motor - from, steps, whole, part + scale)
    BY <1>1, <1>3, BresenhamGoesOn
  <2> QED
    BY <2>1, <2>2
<1> QED
  BY <1>2, <1>3

\* What a piece of a line says of the segment at the tail.
LEMMA PieceTakenUp ==
    ASSUME RingsAssumption, MotionAssumption, StepperTyped,
           NEW p \in Places, NEW next, PieceOfLine(segment_buffer_tail, p, next), InterruptAt(p), ~Empty
    PROVE  LET segment == segment_buffer[segment_buffer_tail]
               scale == Power2[MaxAmassLevel - segment.amass_level]
           IN  /\ p.line \in 1 .. Len(planned)
               /\ Loaded.exec_block_index = segment.st_block_index
               /\ Loaded.step_count \in 1 .. segment.n_step
               /\ Loaded.steps.X = planned[p.line].X * scale /\ Loaded.steps.Y = planned[p.line].Y * scale
               /\ Executed(Loaded.counter, p.line, p.done * Power2[MaxAmassLevel]
                                                   + (segment.n_step - Loaded.step_count) * scale)
<1> DEFINE segment == segment_buffer[segment_buffer_tail]
           P == Power2[MaxAmassLevel]
           scale == Power2[MaxAmassLevel - segment.amass_level]
           block == st_block_buffer[segment.st_block_index]
<1>1. PICK k, d, X, Y : k = p.line /\ d = p.done /\ X = planned[k].X /\ Y = planned[k].Y
  OBVIOUS
<1>2. /\ k \in 1 .. Len(planned) /\ p.steps \in 1 .. MaxSegment /\ segment.amass_level \in 0 .. MaxAmassLevel
      /\ segment.n_step = p.steps * Power2[segment.amass_level]
      /\ block = StBlock(LineMotion(planned[k])) /\ d \in Nat
  BY <1>1 DEF PieceOfLine, Places
<1>3. X \in Nat /\ Y \in Nat /\ Events(k) \in Nat \ {0} /\ k - 1 \in 0 .. Len(planned)
      /\ Corner(k - 1).X \in Int /\ Corner(k - 1).Y \in Int
  <2>1. k - 1 \in 0 .. Len(planned) /\ planned \in Seq(Lines)
    <3>1. planned \in Seq(Lines)
      BY DEF StepperTyped
    <3>2. PICK n \in Nat : n = Len(planned)
      BY ONLY <3>1
    <3>3. k \in 1 .. n
      BY <1>2, <3>2
    <3>4. k - 1 \in 0 .. n
      BY ONLY <3>2, <3>3
    <3> QED
      BY <3>1, <3>2, <3>4
  <2> QED
    BY <1>1, <1>2, <2>1, LinesKnown
<1>4. CASE st.exec
  <2>1. Loaded = st
    BY <1>4, TakenUp
  <2> QED
    BY <1>1, <1>2, <1>4, <2>1 DEF InterruptAt
<1>5. CASE ~st.exec
  <2>1. /\ Loaded.step_count = segment.n_step
        /\ Loaded.exec_block_index = segment.st_block_index
        /\ Loaded.steps.X = block.steps.X \div Power2[segment.amass_level]
        /\ Loaded.steps.Y = block.steps.Y \div Power2[segment.amass_level]
    BY <1>5, TakenUp
  <2>2. segment.n_step \in Nat \ {0} /\ (segment.n_step - segment.n_step) * scale = 0
        /\ d * P \in Nat /\ P \in Nat \ {0}
    <3>1. segment.n_step \in Nat \ {0} /\ scale \in Nat \ {0} /\ d * P \in Nat /\ P \in Nat \ {0}
      <4>1. PICK l, m : l = segment.amass_level /\ m = p.steps
        OBVIOUS
      <4>2. l \in 0 .. MaxAmassLevel /\ m \in 1 .. MaxSegment /\ segment.n_step = m * Power2[l]
        BY <1>2, <4>1
      <4>3. segment.n_step \in Nat \ {0}
        BY <4>2, PulsesFit
      <4>4. Power2[MaxAmassLevel - l] \in Nat \ {0} /\ P \in Nat \ {0}
        BY <4>2, AmassScales
      <4>5. d * P \in Nat
        <5> HIDE DEF P
        <5> QED
          BY <1>2, <4>4
      <4> QED
        BY <4>1, <4>3, <4>4, <4>5
    <3> HIDE DEF scale, P, segment
    <3> QED
      BY <3>1
  <2>3. /\ block.steps.X = X * P /\ block.steps.Y = Y * P
        /\ block.step_event_count = Events(k) * P
    BY <1>1, <1>2, DataOfLine DEF Events
  <2>4. Loaded.steps.X = X * scale /\ Loaded.steps.Y = Y * scale
    <3>1. PICK a, b : a = Power2[segment.amass_level] /\ b = scale
      OBVIOUS
    <3>2. a \in Nat \ {0} /\ b \in Nat \ {0} /\ P = a * b
      BY <1>2, <3>1, AmassScales
    <3>3. (X * (a * b)) \div a = X * b /\ (Y * (a * b)) \div a = Y * b
      BY <1>3, <3>2, LoweredAgain
    <3> HIDE DEF P, scale, segment, block
    <3> QED
      BY <2>1, <2>3, <3>1, <3>2, <3>3
  <2>5. IndexAt(segment_buffer_tail) = segment.st_block_index
    BY DEF IndexAt, Empty
  <2>6. Executed(Loaded.counter, k, d * P)
    <3>1. CASE d = 0
      <4>1. st.exec_block_index # segment.st_block_index /\ AtCorner(k - 1)
        BY <1>1, <1>5, <2>5, <3>1 DEF InterruptAt
      <4>2. Loaded.counter.X = (Events(k) * P) \div 2 /\ Loaded.counter.Y = (Events(k) * P) \div 2
        BY <1>5, <2>3, <4>1, TakenUp
      <4>3. PICK e : e = Events(k)
        OBVIOUS
      <4>4. PICK half \in Nat \ {0} : P = 2 * half
        BY AmassScales
      <4>5. e * P = 2 * (e * half) /\ e * half \in Nat \ {0}
        <5> HIDE DEF P
        <5> QED
          BY <1>3, <4>3, <4>4
      <4>6. PICK m \in Nat \ {0} : m = e * half
        BY <4>5
      <4>7. /\ (2 * m) \div 2 = m
            /\ Bresenham(m, 0, X, 2 * m, 0) /\ Bresenham(m, 0, Y, 2 * m, 0)
        BY <1>3, <4>6, BresenhamBegins
      <4>8. motor_steps.X - Corner(k - 1).X = 0 /\ motor_steps.Y - Corner(k - 1).Y = 0
        BY <1>3, <4>1 DEF AtCorner
      <4>9. d * P = 0 /\ Loaded.counter.X = m /\ Loaded.counter.Y = m /\ Events(k) * P = 2 * m
        <5>1. d * P = 0
          <6> HIDE DEF P
          <6> QED
            BY <2>2, <3>1
        <5> HIDE DEF P
        <5> QED
          BY <4>2, <4>3, <4>5, <4>6, <4>7, <5>1
      <4> HIDE DEF P
      <4> QED
        BY <1>1, <4>7, <4>8, <4>9 DEF Executed, P
    <3>2. CASE d # 0
      <4>1. st.exec_block_index = segment.st_block_index /\ Executed(st.counter, k, d * P)
        BY <1>1, <1>5, <2>5, <3>2 DEF InterruptAt
      <4>2. Loaded.counter = st.counter
        BY <1>5, <4>1, TakenUp
      <4> QED
        BY <4>1, <4>2
    <3> QED
      BY <3>1, <3>2
  <2>7. d * P + (segment.n_step - Loaded.step_count) * scale = d * P
    <3> HIDE DEF P, scale, segment
    <3> QED
      BY <2>1, <2>2
  <2>8. Loaded.step_count \in 1 .. segment.n_step
    <3> HIDE DEF P, scale, segment
    <3> QED
      BY <2>1, <2>2
  <2> HIDE DEF P, scale, segment, block
  <2>9. Executed(Loaded.counter, p.line, p.done * P + (segment.n_step - Loaded.step_count) * scale)
    BY <1>1, <2>6, <2>7
  <2> QED
    BY <1>1, <1>2, <2>1, <2>4, <2>8, <2>9 DEF P, scale, segment
<1> QED
  BY <1>4, <1>5

\* Both axes in a step event.
LEMMA ExecutedGoesOn ==
    ASSUME MotionAssumption, RingsAssumption, StepperTyped, Pulse,
           NEW k \in 1 .. Len(planned), NEW part \in Nat, NEW level \in 0 .. MaxAmassLevel,
           Executed(Loaded.counter, k, part),
           Loaded.steps.X = planned[k].X * Power2[MaxAmassLevel - level],
           Loaded.steps.Y = planned[k].Y * Power2[MaxAmassLevel - level],
           st_block_buffer[Loaded.exec_block_index] = StBlock(LineMotion(planned[k]))
    PROVE  Executed(st.counter, k, part + Power2[MaxAmassLevel - level])'
<1>1. PICK scale, P, e : scale = Power2[MaxAmassLevel - level] /\ P = Power2[MaxAmassLevel] /\ e = Events(k)
  OBVIOUS
<1>2. PICK X, Y, x0, y0 : X = planned[k].X /\ Y = planned[k].Y /\ x0 = Corner(k - 1).X /\ y0 = Corner(k - 1).Y
  OBVIOUS
<1>3. PICK c, b : c = Loaded.counter /\ b = st_block_buffer[Loaded.exec_block_index]
  OBVIOUS
<1>4. PICK m, n, d : m = motor_steps /\ n = motor_steps' /\ d = st'.counter
  OBVIOUS
<1>5. /\ X \in Nat /\ Y \in Nat /\ e \in Nat \ {0} /\ X <= e /\ Y <= e /\ x0 \in Int /\ y0 \in Int
      /\ m.X \in Int /\ m.Y \in Int /\ scale \in Nat \ {0} /\ P \in Nat \ {0} /\ scale <= P
  <2>1. k - 1 \in 0 .. Len(planned) /\ planned \in Seq(Lines)
    <3>1. planned \in Seq(Lines)
      BY DEF StepperTyped
    <3>2. Len(planned) \in Nat
      BY <3>1, LinesKnown
    <3> QED
      BY <3>1, <3>2
  <2>2. X \in Nat /\ Y \in Nat /\ e \in Nat \ {0} /\ X <= e /\ Y <= e /\ x0 \in Int /\ y0 \in Int
    BY <1>1, <1>2, <2>1, LinesKnown
  <2>3. "X" \in Axes /\ "Y" \in Axes /\ m \in [Axes -> Int]
    BY <1>4 DEF StepperTyped, Axes
  <2>4. scale \in Nat \ {0} /\ P \in Nat \ {0} /\ scale <= P
    BY <1>1, AmassScales
  <2> QED
    BY <2>2, <2>3, <2>4
<1>6. b.step_event_count = e * P /\ b.down = FALSE
  BY <1>1, <1>3, DataOfLine DEF Events
<1>7. e * P \in Nat /\ X * scale <= e * P /\ Y * scale <= e * P
  <2>1. e * P \in Nat /\ X * scale \in Nat /\ e * scale \in Nat /\ Y * scale \in Nat
    BY <1>5
  <2>2. X * scale <= e * scale /\ e * scale <= e * P /\ Y * scale <= e * scale
    BY <1>5
  <2> QED
    BY <2>1, <2>2
<1>8. Bresenham(c.X, m.X - x0, X, e * P, part) /\ Bresenham(c.Y, m.Y - y0, Y, e * P, part)
  BY <1>1, <1>2, <1>3, <1>4 DEF Executed
<1>9. c.X \in Int /\ c.Y \in Int
  BY <1>8 DEF Bresenham
<1>10. Loaded.steps.X = X * scale /\ Loaded.steps.Y = Y * scale
  BY <1>1, <1>2
<1>11. /\ IF c.X + X * scale > e * P THEN d.X = (c.X + X * scale) - e * P /\ n.X = m.X + 1
                                     ELSE d.X = c.X + X * scale /\ n.X = m.X
       /\ IF c.Y + Y * scale > e * P THEN d.Y = (c.Y + Y * scale) - e * P /\ n.Y = m.Y + 1
                                     ELSE d.Y = c.Y + Y * scale /\ n.Y = m.Y
  <2>1. ASSUME NEW a \in {"X", "Y"}
        PROVE  LET count == Loaded.counter[a] + Loaded.steps[a]
                   block == st_block_buffer[Loaded.exec_block_index]
               IN  IF count > block.step_event_count
                   THEN /\ st'.counter[a] = count - block.step_event_count
                        /\ motor_steps'[a] = IF block.down THEN motor_steps[a] - 1 ELSE motor_steps[a] + 1
                   ELSE st'.counter[a] = count /\ motor_steps'[a] = motor_steps[a]
    BY Pulsed
  <2>2. LET count == Loaded.counter.X + Loaded.steps.X
            block == st_block_buffer[Loaded.exec_block_index]
        IN  IF count > block.step_event_count
            THEN /\ st'.counter.X = count - block.step_event_count
                 /\ motor_steps'.X = IF block.down THEN motor_steps.X - 1 ELSE motor_steps.X + 1
            ELSE st'.counter.X = count /\ motor_steps'.X = motor_steps.X
    BY <2>1
  <2>3. LET count == Loaded.counter.Y + Loaded.steps.Y
            block == st_block_buffer[Loaded.exec_block_index]
        IN  IF count > block.step_event_count
            THEN /\ st'.counter.Y = count - block.step_event_count
                 /\ motor_steps'.Y = IF block.down THEN motor_steps.Y - 1 ELSE motor_steps.Y + 1
            ELSE st'.counter.Y = count /\ motor_steps'.Y = motor_steps.Y
    BY <2>1
  <2>4. IF c.X + X * scale > e * P THEN d.X = (c.X + X * scale) - e * P /\ n.X = m.X + 1
                                   ELSE d.X = c.X + X * scale /\ n.X = m.X
    BY <1>3, <1>4, <1>6, <1>10, <2>2
  <2>5. IF c.Y + Y * scale > e * P THEN d.Y = (c.Y + Y * scale) - e * P /\ n.Y = m.Y + 1
                                   ELSE d.Y = c.Y + Y * scale /\ n.Y = m.Y
    BY <1>3, <1>4, <1>6, <1>10, <2>3
  <2> QED
    BY <2>4, <2>5
<1>12. Bresenham(d.X, n.X - x0, X, e * P, part + scale)
  <2>1. PICK count, after, moved, counter, motor :
           /\ count = c.X + X * scale /\ after = d.X /\ moved = n.X /\ counter = c.X /\ motor = m.X
    OBVIOUS
  <2>2. /\ IF count > e * P THEN after = count - e * P /\ moved = motor + 1 ELSE after = count /\ moved = motor
        /\ Bresenham(counter, motor - x0, X, e * P, part)
        /\ counter \in Int /\ motor \in Int /\ count = counter + X * scale
    BY <1>5, <1>8, <1>9, <1>11, <2>1
  <2>3. Bresenham(after, moved - x0, X, e * P, part + scale)
    BY <1>5, <1>7, <2>2, AxisMoves
  <2> QED
    BY <2>1, <2>3
<1>13. Bresenham(d.Y, n.Y - y0, Y, e * P, part + scale)
  <2>1. PICK count, after, moved, counter, motor :
           /\ count = c.Y + Y * scale /\ after = d.Y /\ moved = n.Y /\ counter = c.Y /\ motor = m.Y
    OBVIOUS
  <2>2. /\ IF count > e * P THEN after = count - e * P /\ moved = motor + 1 ELSE after = count /\ moved = motor
        /\ Bresenham(counter, motor - y0, Y, e * P, part)
        /\ counter \in Int /\ motor \in Int /\ count = counter + Y * scale
    BY <1>5, <1>8, <1>9, <1>11, <2>1
  <2>3. Bresenham(after, moved - y0, Y, e * P, part + scale)
    BY <1>5, <1>7, <2>2, AxisMoves
  <2> QED
    BY <2>1, <2>3
<1>14. planned' = planned
  BY Pulsed
<1>15. /\ planned'[k].X = X /\ planned'[k].Y = Y /\ Corner(k - 1)'.X = x0 /\ Corner(k - 1)'.Y = y0
       /\ Events(k)' = e
  BY <1>1, <1>2, <1>14 DEF Corner, Events
<1> QED
  BY <1>1, <1>4, <1>12, <1>13, <1>15 DEF Executed

\* A step event is one of the line, and the last of a segment leads to the next piece.
LEMMA CutAfterPulse ==
    ASSUME RingsAssumption, MotionAssumption, StepperTyped, LineAtHand, current <= Len(planned) + 1,
           NEW place, CutInto(place), Pulse
    PROVE  LineAtHand' /\ current' <= Len(planned)' + 1 /\ CutInto(place)'
<1>1. PICK t, p, next : t = segment_buffer_tail /\ p = place[t] /\ next = place[NextSegment(t)]
  OBVIOUS
<1>2. PICK segment, c, i : segment = segment_buffer[t] /\ c = Loaded.step_count /\ i = IndexAt(NextSegment(t))
  OBVIOUS
<1>3. PICK k, d, level : k = p.line /\ d = p.done /\ level = segment.amass_level
  OBVIOUS
<1> DEFINE P == Power2[MaxAmassLevel]
           scale == Power2[MaxAmassLevel - level]
           part == d * P + (segment.n_step - c) * scale
<1>4. /\ UNCHANGED <<planned, current, segment_buffer, segment_buffer_head, st_block_buffer, prep>> /\ ~Empty
      /\ t \in Pending /\ NextSegment(t) \in Segments /\ t \in Segments
  BY <1>1, Pulsed, PendingInTurn DEF generator
<1>5. PieceOfLine(t, p, next) /\ p \in Places /\ next \in Places /\ InterruptAt(p)
  BY <1>1, <1>4 DEF CutInto
<1>6. /\ k \in 1 .. Len(planned) /\ d \in Nat /\ p.steps \in 1 .. MaxSegment /\ level \in 0 .. MaxAmassLevel
      /\ segment.n_step = p.steps * Power2[level]
      /\ st_block_buffer[segment.st_block_index] = StBlock(LineMotion(planned[k]))
  BY <1>1, <1>2, <1>3, <1>5 DEF PieceOfLine, Places
<1>7. /\ Loaded.exec_block_index = segment.st_block_index
      /\ c \in 1 .. segment.n_step
      /\ Loaded.steps.X = planned[k].X * scale /\ Loaded.steps.Y = planned[k].Y * scale
      /\ Executed(Loaded.counter, k, part)
  BY <1>1, <1>2, <1>3, <1>4, <1>5, PieceTakenUp
<1>8. /\ part \in Nat /\ part + scale = d * P + (segment.n_step - (c - 1)) * scale
      /\ (c - 1) % StepCounts = c - 1 /\ segment.n_step \in Nat \ {0}
      /\ d * P + segment.n_step * scale = (d + p.steps) * P
  <2>1. PICK m : m = p.steps
    OBVIOUS
  <2>2. PICK n : n = m * Power2[level]
    OBVIOUS
  <2>3. m \in 1 .. MaxSegment /\ segment.n_step = n /\ c \in 1 .. n
    BY <1>6, <1>7, <2>1, <2>2
  <2>4. /\ n \in Nat \ {0} /\ d * P + n * scale = (d + m) * P
        /\ d * P + (n - c) * scale \in Nat
        /\ d * P + (n - c) * scale + scale = d * P + (n - (c - 1)) * scale
        /\ (c - 1) % StepCounts = c - 1
    <3>1. m \in 1 .. MaxSegment /\ level \in 0 .. MaxAmassLevel /\ d \in Nat /\ c \in 1 .. m * Power2[level]
      BY <1>6, <2>2, <2>3
    <3>2. PICK w, s, a : w = P /\ s = scale /\ a = Power2[level]
      OBVIOUS
    <3>3. /\ w \in Nat \ {0} /\ s \in Nat \ {0} /\ a \in Nat \ {0} /\ w = a * s
          /\ n = m * a /\ n \in Nat \ {0} /\ n < StepCounts
      BY <2>2, <3>1, <3>2, PulsesFit, AmassScales
    <3>4. m \in Nat \ {0} /\ d \in Nat /\ c \in 1 .. n /\ StepCounts \in Nat
      BY <2>3, <3>1 DEF MotionAssumption, StepCounts
    <3>5. d * w + n * s = (d + m) * w
      <4>1. n * s = m * w
        BY <3>3, <3>4
      <4> QED
        BY <3>3, <3>4, <4>1
    <3>6. /\ d * w + (n - c) * s \in Nat
          /\ d * w + (n - c) * s + s = d * w + (n - (c - 1)) * s
      <4>1. PICK x, y, z : x = d * w /\ y = (n - c) * s /\ z = (n - (c - 1)) * s
        OBVIOUS
      <4>2. x \in Nat
        BY <3>3, <3>4, <4>1
      <4>3. n - c \in Nat
        BY <3>3, <3>4
      <4>4. y \in Nat /\ z = y + s
        BY <3>3, <3>4, <4>1, <4>3
      <4>5. x + y \in Nat /\ x + y + s = x + z
        BY ONLY <3>3, <4>2, <4>4
      <4> QED
        BY <4>1, <4>5
    <3>7. (c - 1) % StepCounts = c - 1
      <4>1. PICK q : q = StepCounts
        OBVIOUS
      <4>2. c - 1 \in 0 .. q - 1 /\ q \in Nat
        BY <3>3, <3>4, <4>1
      <4>3. (c - 1) % q = c - 1
        BY ONLY <4>2
      <4> QED
        BY <4>1, <4>3
    <3> QED
      BY <3>2, <3>3, <3>5, <3>6, <3>7
  <2> HIDE DEF P, scale
  <2> QED
    BY <2>1, <2>3, <2>4
<1>9. Executed(st.counter, k, part + scale)'
  <2>1. PICK q : q = part
    OBVIOUS
  <2>2. q \in Nat /\ Executed(Loaded.counter, k, q)
    BY <1>7, <1>8, <2>1
  <2> HIDE DEF part
  <2>3. Executed(st.counter, k, q + Power2[MaxAmassLevel - level])'
    BY <1>6, <1>7, <2>2, ExecutedGoesOn
  <2> QED
    BY <2>1, <2>3
<1>10. /\ st'.exec <=> c # 1
       /\ st'.step_count = c - 1 /\ st'.exec_block_index = segment.st_block_index
       /\ st'.steps.X = planned[k].X * scale /\ st'.steps.Y = planned[k].Y * scale
       /\ segment_buffer_tail' = IF c = 1 THEN NextSegment(t) ELSE t
  <2> HIDE DEF scale, part
  <2> QED
    BY <1>1, <1>2, <1>7, <1>8, Pulsed
<1>11. \A j : IndexAt(j)' = IndexAt(j)
  BY <1>4 DEF IndexAt, Begun, Continues
<1>12. InterruptAt(place[segment_buffer_tail])'
  <2>1. CASE c # 1
    <3>1. st'.exec /\ st'.step_count \in 1 .. segment.n_step /\ segment_buffer_tail' = t
      <4> HIDE DEF scale, part
      <4> QED
        BY <1>7, <1>8, <1>10, <2>1
    <3>2. segment_buffer'[t] = segment /\ planned'[p.line] = planned[k]
      BY <1>2, <1>3, <1>4
    <3>3. Executed(st.counter, p.line, p.done * P + (segment.n_step - st.step_count) * scale)'
      <4> HIDE DEF scale, P
      <4>1. part + scale = p.done * P + (segment.n_step - st'.step_count) * scale
        BY <1>3, <1>8, <1>10
      <4> QED
        BY <1>3, <1>9, <4>1 DEF Executed, scale, P
    <3>4. InterruptAt(p)'
      <4> HIDE DEF part
      <4> QED
        BY <1>3, <1>10, <3>1, <3>2, <3>3 DEF InterruptAt
    <3> QED
      BY <1>1, <3>1, <3>4 DEF InterruptAt
  <2>2. CASE c = 1
    <3>1. ~st'.exec /\ segment_buffer_tail' = NextSegment(t)
      BY <1>10, <2>2
    <3>2. part + scale = (d + p.steps) * P
      <4>1. segment.n_step - (c - 1) = segment.n_step
        <5> HIDE DEF part, scale, P
        <5> QED
          BY <1>8, <2>2
      <4> HIDE DEF part, scale, P
      <4> QED
        BY <1>8, <4>1
    <3>3. Executed(st.counter, k, (d + p.steps) * P)'
      <4> HIDE DEF part, scale
      <4>1. PICK q : q = part + scale
        OBVIOUS
      <4>2. Executed(st.counter, k, q)'
        BY <1>9, <4>1
      <4>3. q = (d + p.steps) * P
        BY <3>2, <4>1
      <4> HIDE DEF P
      <4> QED
        BY <4>2, <4>3
    <3>4. CASE /\ next.line = k /\ next.done = d + p.steps
               /\ i = segment.st_block_index
      <4>1. next.done # 0
        <5>1. p.steps \in Nat \ {0}
          BY <1>6 DEF MotionAssumption
        <5> QED
          BY <1>6, <3>4, <5>1
      <4>2. Executed(st.counter, next.line, next.done * P)'
        BY <3>3, <3>4
      <4>3. st'.exec_block_index = IndexAt(segment_buffer_tail)'
        <5>1. IndexAt(segment_buffer_tail)' = IndexAt(NextSegment(t))'
          BY <3>1 DEF IndexAt
        <5>2. IndexAt(NextSegment(t))' = i
          BY <1>2, <1>11
        <5> QED
          BY <1>10, <3>4, <5>1, <5>2
      <4>4. InterruptAt(next)'
        BY <3>1, <4>1, <4>2, <4>3 DEF InterruptAt
      <4> QED
        BY <1>1, <3>1, <4>4 DEF InterruptAt
    <3>5. CASE /\ next.line = k + 1 /\ next.done = 0 /\ d + p.steps = Events(k)
               /\ i # segment.st_block_index
      <4>1. PICK e : e = Events(k)
        OBVIOUS
      <4>2. PICK X, Y, x0, y0 : X = planned[k].X /\ Y = planned[k].Y /\ x0 = Corner(k - 1).X /\ y0 = Corner(k - 1).Y
        OBVIOUS
      <4>3. PICK m, cs : m = motor_steps' /\ cs = st'.counter
        OBVIOUS
      <4>4. /\ X \in Nat /\ Y \in Nat /\ e \in Nat \ {0} /\ x0 \in Int /\ y0 \in Int
            /\ Corner(k).X = x0 + X /\ Corner(k).Y = y0 + Y /\ P \in Nat \ {0} /\ e * P \in Nat
        <5>1. k - 1 \in 0 .. Len(planned) /\ planned \in Seq(Lines)
          <6>1. planned \in Seq(Lines)
            BY DEF StepperTyped
          <6>2. PICK n \in Nat : n = Len(planned)
            BY ONLY <6>1
          <6>3. k \in 1 .. n
            BY <1>6, <6>2
          <6>4. k - 1 \in 0 .. n
            BY ONLY <6>2, <6>3
          <6> QED
            BY <6>1, <6>2, <6>4
        <5>2. X \in Nat /\ Y \in Nat /\ e \in Nat \ {0} /\ x0 \in Int /\ y0 \in Int
              /\ Corner(k).X = x0 + X /\ Corner(k).Y = y0 + Y
          BY <1>6, <4>1, <4>2, <5>1, LinesKnown
        <5>3. P \in Nat \ {0}
          BY AmassScales
        <5>4. e * P \in Nat
          <6> HIDE DEF P
          <6> QED
            BY <5>2, <5>3
        <5> QED
          BY <5>2, <5>3, <5>4
      <4>5. Bresenham(cs.X, m.X - x0, X, e * P, e * P) /\ Bresenham(cs.Y, m.Y - y0, Y, e * P, e * P)
        <5>1. /\ planned'[k].X = X /\ planned'[k].Y = Y /\ Corner(k - 1)'.X = x0 /\ Corner(k - 1)'.Y = y0
              /\ Events(k)' = e
          BY <1>4, <4>1, <4>2 DEF Corner, Events
        <5>2. (d + p.steps) * P = e * P
          BY <3>5, <4>1
        <5> QED
          BY <3>3, <4>3, <5>1, <5>2 DEF Executed
      <4>6. m.X \in Int /\ m.Y \in Int
        <5>1. StepperTyped'
          BY PulseTyped
        <5>2. m \in [Axes -> Int] /\ "X" \in Axes /\ "Y" \in Axes
          BY <4>3, <5>1 DEF StepperTyped, Axes
        <5> QED
          BY <5>2
      <4>7. m.X - x0 = X /\ m.Y - y0 = Y
        <5>1. cs.X \in Int /\ cs.Y \in Int /\ m.X - x0 \in Int /\ m.Y - y0 \in Int
          <6>1. cs.X \in 1 .. e * P /\ cs.Y \in 1 .. e * P
            BY <4>5 DEF Bresenham
          <6>2. m.X - x0 \in Int /\ m.Y - y0 \in Int
            BY ONLY <4>4, <4>6
          <6>3. cs.X \in Int /\ cs.Y \in Int
            <7> HIDE DEF P
            <7> QED
              BY <4>4, <6>1
          <6> QED
            BY <6>2, <6>3
        <5>2. PICK w, cx, cy, mx, my : /\ w = e * P /\ cx = cs.X /\ cy = cs.Y
                                       /\ mx = m.X - x0 /\ my = m.Y - y0
          OBVIOUS
        <5>3. w \in Nat /\ cx \in Int /\ cy \in Int /\ mx \in Int /\ my \in Int
              /\ Bresenham(cx, mx, X, w, w) /\ Bresenham(cy, my, Y, w, w)
          BY <4>4, <4>5, <5>1, <5>2
        <5>4. mx = X /\ my = Y
          BY <4>4, <5>3, BresenhamEnds
        <5> QED
          BY <5>2, <5>4
      <4>8. AtCorner(next.line - 1)'
        <5>1. next.line - 1 = k
          BY <1>6, <3>5
        <5>2. m.X = Corner(k).X /\ m.Y = Corner(k).Y
          <6>1. m.X = x0 + X /\ m.Y = y0 + Y
            <7> HIDE DEF P
            <7> QED
              BY <4>4, <4>6, <4>7
          <6> QED
            BY <4>4, <6>1
        <5>3. Corner(k)' = Corner(k)
          BY <1>4 DEF Corner
        <5>4. AtCorner(k)'
          BY <4>3, <5>2, <5>3 DEF AtCorner
        <5> QED
          BY <5>1, <5>4
      <4>9. st'.exec_block_index # IndexAt(segment_buffer_tail)'
        <5>1. IndexAt(segment_buffer_tail)' = IndexAt(NextSegment(t))'
          BY <3>1 DEF IndexAt
        <5>2. IndexAt(NextSegment(t))' = i
          BY <1>2, <1>11
        <5> QED
          BY <1>10, <3>5, <5>1, <5>2
      <4>10. InterruptAt(next)'
        BY <3>1, <3>5, <4>8, <4>9 DEF InterruptAt
      <4> QED
        BY <1>1, <3>1, <4>10 DEF InterruptAt
    <3> HIDE DEF part, scale, P
    <3> QED
      BY <1>2, <1>3, <1>5, <3>4, <3>5 DEF PieceOfLine
  <2> QED
    BY <2>1, <2>2
<1> HIDE DEF part, scale, P
<1>13. Pending' \subseteq Pending
  <2>1. segment_buffer_tail' \in {segment_buffer_tail, NextSegment(segment_buffer_tail)}
    BY <1>1, <1>10
  <2> QED
    BY <1>4, <2>1 DEF StepperTyped, RingsAssumption, Pending, NextSegment, Segments, Empty
<1>14. ASSUME NEW j \in Pending' PROVE PieceOfLine(j, place[j], place[NextSegment(j)])'
  <2>1. j \in Pending /\ PieceOfLine(j, place[j], place[NextSegment(j)]) /\ place[j] \in Places
    BY <1>13, PlacesKnown, PendingInTurn DEF CutInto
  <2>2. planned \in Seq(Lines) /\ IndexAt(NextSegment(j))' = IndexAt(NextSegment(j))
    BY <1>11 DEF StepperTyped
  <2> QED
    BY <1>4, <2>1, <2>2, PieceStays
<1>15. GeneratorAt' = GeneratorAt /\ LineAtHand' /\ current' <= Len(planned)' + 1
  <2>1. Events(current)' = Events(current)
    BY <1>4 DEF Events
  <2> QED
    BY <1>4, <2>1 DEF GeneratorAt, LineAtHand, Begun, Continues
<1> QED
  BY <1>4, <1>12, <1>14, <1>15 DEF CutInto

\* Steps that make nothing of a line.
LEMMA CutAfterRest ==
    ASSUME RingsAssumption, MotionAssumption, StepperTyped, LineAtHand, current <= Len(planned) + 1,
           NEW place, CutInto(place), BailOut \/ EndPass \/ ShutDown
    PROVE  LineAtHand' /\ current' <= Len(planned)' + 1 /\ CutInto(place)'
<1>1. UNCHANGED <<planned, current, segment_buffer, segment_buffer_head, segment_buffer_tail, st_block_buffer,
                  st, motor_steps>>
  BY DEF BailOut, EndPass, ShutDown, generator, GeneratorRest, interrupt
<1>2. (Begun' <=> Begun) /\ prep'.steps_remaining = prep.steps_remaining
      /\ prep'.st_block_index = prep.st_block_index
  <2>1. CASE BailOut
    BY <2>1 DEF BailOut, EndHold, StepperTyped, Preps, Begun, Continues
  <2>2. CASE EndPass \/ ShutDown
    BY <2>2 DEF EndPass, ShutDown, generator, Begun, Continues
  <2> QED
    BY <2>1, <2>2
<1> QED
  BY <1>1, <1>2, CutStays

LEMMA CutAfterMain ==
    ASSUME RingsAssumption, MotionAssumption, StepperTyped, LineAtHand, current <= Len(planned) + 1,
           NEW place, CutInto(place), state # "Parking",
           \/ \E l \in Lines : BufferLine(l)
           \/ Replan \/ Poll \/ InitiateCycle \/ StartHolding \/ HoldIdle \/ CycleStop
    PROVE  state' # "Parking" /\ LineAtHand' /\ current' <= Len(planned)' + 1 /\ CutInto(place)'
<1>1. /\ UNCHANGED <<current, segment_buffer, segment_buffer_head, segment_buffer_tail, st_block_buffer,
                     st, motor_steps>>
      /\ planned' = planned \/ \E l \in Lines : planned' = Append(planned, l)
      /\ prep' \in {prep, Updated}
  BY DEF BufferLine, Replan, Poll, InitiateCycle, StartHolding, HoldIdle, CycleStop, MainRest, interrupt
<1>2. (Begun' <=> Begun) /\ prep'.steps_remaining = prep.steps_remaining
      /\ prep'.st_block_index = prep.st_block_index
  <2>1. CASE prep' = prep
    BY <2>1 DEF Begun, Continues
  <2>2. CASE prep' = Updated
    BY <2>2, UpdatedLeaves DEF StepperTyped
  <2> QED
    BY <1>1, <2>1, <2>2
<1>3. state' # "Parking"
  BY DEF BufferLine, Replan, Poll, InitiateCycle, StartHolding, HoldIdle, CycleStop
<1> QED
  BY <1>1, <1>2, <1>3, CutStays

-----------------------------------------------------------------------------
(* Parking motions and the lines.                                           *)

\* A parking motion begins where a line ends, and has data of its own.
LEMMA ParkingBegins ==
    ASSUME RingsAssumption, MotionAssumption, StepperTyped, ControlPlaced,
           NEW place, CutInto(place), NEW h, Park(h), interrupted' = "nothing"
    PROVE  Parked' /\ interrupted = "nothing" /\ UNCHANGED <<planned, current>>
<1>1. /\ interrupted = "nothing" /\ Empty /\ ~prep.loaded /\ ~Continues /\ "holdPartialBlock" \notin prep.flags
  BY DEF Park, Interrupted
<1>2. /\ UNCHANGED <<planned, current, segment_buffer, segment_buffer_head, segment_buffer_tail, st_block_buffer,
                     st, motor_steps>>
      /\ preparing' = "wake" /\ state = "Held"
      /\ step_control' = (step_control \cup {"executeSysMotion"}) \ {"endMotion"}
      /\ prep' = [prep EXCEPT !.loaded = FALSE, !.flags = (@ \cup {"parking"}) \ {"recalculate"}]
  BY <1>1 DEF Park, MainRest, interrupt
<1>3. ~prep'.loaded /\ prep'.st_block_index = prep.st_block_index
      /\ prep'.flags = (prep.flags \cup {"parking"}) \ {"recalculate"}
  BY <1>2 DEF StepperTyped, Preps
<1>4. ~Begun /\ ~Begun'
  BY <1>1, <1>3 DEF Begun, Continues
<1>5. st.exec_block_index # IndexAt(segment_buffer_head) /\ AtCorner(current - 1)
  <2>1. segment_buffer_tail = segment_buffer_head /\ ~st.exec
    BY <1>1 DEF Empty, StepperTyped
  <2>2. PICK p : p = GeneratorAt
    OBVIOUS
  <2>3. InterruptAt(p) /\ p.line = current /\ p.done = 0
    BY <1>4, <2>1, <2>2 DEF CutInto, GeneratorAt
  <2> QED
    BY <2>1, <2>3 DEF InterruptAt
<1>6. IndexAt(segment_buffer_head)' = IndexAt(segment_buffer_head)
  BY <1>2, <1>3, <1>4 DEF IndexAt
<1>7. AtCorner(current - 1)'
  BY <1>2, <1>5 DEF AtCorner, Corner
<1>8. ~Commanded("endMotion")' /\ ~Commanded("executeHold")' /\ Empty'
  BY <1>1, <1>2 DEF Commanded, Empty, ControlPlaced
<1> QED
  BY <1>1, <1>2, <1>3, <1>4, <1>5, <1>6, <1>7, <1>8 DEF Parked

\* When it is over the line after that one is to be begun.
LEMMA ParkingOver ==
    ASSUME RingsAssumption, MotionAssumption, StepperTyped, ParkingEnds, Parked, interrupted = "nothing",
           EndParking
    PROVE  LineAtHand' /\ UNCHANGED <<planned, current, interrupted>> /\ \E place : CutInto(place)'
<1>1. /\ UNCHANGED <<planned, current, segment_buffer, segment_buffer_head, segment_buffer_tail, st_block_buffer,
                     st, motor_steps, interrupted>>
      /\ preparing = "no" /\ state = "Parking" /\ ~Commanded("executeSysMotion") /\ prep' = Restored
  BY DEF EndParking, MainRest, interrupt
<1>2. "holdPartialBlock" \notin prep.flags /\ AtCorner(current - 1) /\ Begun
  BY <1>1 DEF Parked
<1>3. Empty /\ ~st.exec /\ st.exec_block_index = prep.st_block_index
  BY <1>1 DEF ParkingEnds, Parked, StepperTyped
<1>4. ~prep'.loaded /\ prep'.flags = {} /\ prep'.st_block_index = prep.st_block_index
  BY <1>1, <1>2 DEF Restored, StepperTyped, Preps
<1>5. ~Begun'
  BY <1>4 DEF Begun, Continues
<1>6. Pending' = {} /\ segment_buffer_tail' = segment_buffer_head' /\ segment_buffer_head' \in Segments
  BY <1>1, <1>3 DEF Pending, Empty, Segments, StepperTyped
<1>7. PICK g, c : g = GeneratorAt' /\ c = current'
  OBVIOUS
<1>8. g = [line |-> c, steps |-> 0, done |-> 0] /\ g \in Places
  <2>1. c \in Nat \ {0}
    BY <1>1, <1>7 DEF StepperTyped
  <2>2. g = [line |-> c, steps |-> 0, done |-> 0]
    BY <1>5, <1>7 DEF GeneratorAt
  <2> QED
    BY <2>1, <2>2 DEF Places
<1> DEFINE new == [i \in Segments |-> g]
<1>9. new \in [Segments -> Places] /\ \A i \in Segments : new[i] = g
  BY <1>8
<1> HIDE DEF new
<1>10. InterruptAt(g)'
  <2>1. st'.exec_block_index # IndexAt(segment_buffer_tail)'
    <3>1. IndexAt(segment_buffer_tail)' = next_block_index(prep.st_block_index)
      BY <1>4, <1>5, <1>6 DEF IndexAt
    <3>2. next_block_index(prep.st_block_index) # prep.st_block_index
      BY DEF StepperTyped, Preps, next_block_index, StBlocks, RingsAssumption
    <3> QED
      BY <1>1, <1>3, <3>1, <3>2
  <2>2. AtCorner(g.line - 1)'
    <3>1. AtCorner(current - 1)'
      BY <1>1, <1>2 DEF AtCorner, Corner
    <3> QED
      BY <1>7, <1>8, <3>1 DEF AtCorner
  <2> QED
    BY <1>1, <1>3, <1>8, <2>1, <2>2 DEF InterruptAt
<1>11. CutInto(new)'
  BY <1>6, <1>7, <1>9, <1>10 DEF CutInto, InterruptAt
<1>12. LineAtHand'
  BY <1>5 DEF LineAtHand
<1> QED
  BY <1>1, <1>11, <1>12

\* Making the first pass, a parking motion has something to make.
LEMMA ParkingPass ==
    ASSUME RingsAssumption, StepperTyped, TimerPlaced, ParkingEnds, state = "Parking", interrupted = "nothing"
    PROVE  /\ preparing = "wake" => Commanded("executeSysMotion") /\ ~timer
           /\ Empty => Room
           /\ ~Commanded("executeSysMotion") => Empty /\ (Commanded("endMotion") \/ NoneLeft)
<1>1. segment_buffer_head \in Segments /\ segment_next_head = NextSegment(segment_buffer_head)
  BY DEF StepperTyped
<1>2. Empty => Room
  BY <1>1 DEF Room, Full, Empty, NextSegment, Segments, RingsAssumption
<1> QED
  BY <1>2 DEF TimerPlaced, ParkingEnds

LEMMA ParkedAfterLoad ==
    ASSUME RingsAssumption, MotionAssumption, StepperTyped, TimerPlaced, ParkingEnds, Parked,
           state = "Parking", interrupted = "nothing", LoadBlock
    PROVE  Parked'
<1>1. /\ UNCHANGED <<planned, current, segment_buffer, segment_buffer_head, segment_buffer_tail, st, motor_steps,
                     preparing, step_control>>
      /\ prep'.loaded /\ Begun' /\ ~prep.loaded
  BY BlockLoaded DEF Begun
<1>2. AtCorner(current - 1)' /\ AtCorner(current - 1)
  BY <1>1 DEF AtCorner, Corner, Parked
<1>3. CASE Continues
  <2>1. /\ prep'.st_block_index = prep.st_block_index /\ UNCHANGED st_block_buffer /\ Begun
        /\ prep'.flags = prep.flags \ {"recalculate"}
    BY <1>3, BlockLoaded DEF FlagsAfterLoad, Parked, Begun
  <2>2. Pending' = Pending /\ IndexAt(segment_buffer_head)' = IndexAt(segment_buffer_head)
    BY <1>1, <2>1 DEF Pending, IndexAt
  <2> QED
    BY <1>1, <1>2, <2>1, <2>2 DEF Parked, Empty, Commanded
<1>4. CASE ~Continues
  <2>1. ~Begun /\ preparing = "wake" /\ Empty /\ Commanded("executeSysMotion")
        /\ ~Commanded("endMotion") /\ ~Commanded("executeHold")
        /\ st.exec_block_index # IndexAt(segment_buffer_head)
    BY <1>1, <1>4, ParkingPass DEF Begun, Parked
  <2>2. /\ prep'.st_block_index = next_block_index(prep.st_block_index) /\ prep'.flags = prep.flags
        /\ st_block_buffer'[prep'.st_block_index] = StBlock(SystemMotion(system_block))
    BY <1>4, <2>1, BlockLoaded
  <2>3. IndexAt(segment_buffer_head)' = IndexAt(segment_buffer_head)
    BY <1>1, <2>1, <2>2 DEF IndexAt
  <2>4. PICK b : b = st_block_buffer'[prep'.st_block_index]
    OBVIOUS
  <2>5. b.steps.X = 0 /\ b.steps.Y = 0 /\ b.step_event_count \in Nat
    BY <2>2, <2>4, DataOfParking
  <2> QED
    BY <1>1, <1>2, <2>1, <2>2, <2>3, <2>4, <2>5 DEF Parked, Empty, Commanded
<1> QED
  BY <1>3, <1>4

LEMMA ParkedAfterSegment ==
    ASSUME RingsAssumption, StepperTyped, TimerPlaced, ParkingEnds, ControlPlaced, Parked,
           state = "Parking", interrupted = "nothing",
           NEW n \in 1 .. prep.steps_remaining, NEW level \in 0 .. MaxAmassLevel, MakeSegment(n, level)
    PROVE  Parked' /\ UNCHANGED <<planned, current>>
<1>1. PICK h : h = segment_buffer_head
  OBVIOUS
<1>2. /\ UNCHANGED <<planned, segment_buffer_tail, st_block_buffer, st, motor_steps, preparing>>
      /\ prep.loaded /\ Begun /\ ~Commanded("endMotion")
      /\ segment_buffer_head' # h /\ segment_buffer_tail # segment_buffer_head'
      /\ segment_buffer'[h].amass_level = level /\ segment_buffer'[h].st_block_index = prep.st_block_index
      /\ \A i \in Segments \ {h} : segment_buffer'[i] = segment_buffer[i]
      /\ prep'.st_block_index = prep.st_block_index /\ prep'.flags = prep.flags
      /\ Pending' = Pending \cup {h} /\ h \notin Pending
  BY <1>1, SegmentPublished DEF Begun, Parked
<1>3. Commanded("executeSysMotion")
  <2>1. ~NoneLeft
    BY DEF NoneLeft
  <2> QED
    BY <1>2, <2>1, ParkingPass
<1>4. prep'.loaded /\ Begun' /\ current' = current
  BY <1>3, SegmentPublished DEF Begun
<1>5. AtCorner(current - 1)'
  BY <1>2, <1>4 DEF AtCorner, Corner, Parked
<1>6. IndexAt(segment_buffer_head) = prep.st_block_index
  BY <1>2 DEF IndexAt
<1>7. ~Empty' /\ (Empty => ~st.exec /\ Pending = {})
  BY <1>2, NonePending DEF Empty, StepperTyped
<1>8. ASSUME NEW i \in Pending'
      PROVE  segment_buffer'[i].st_block_index = prep'.st_block_index
             /\ segment_buffer'[i].amass_level \in 0 .. MaxAmassLevel
  <2>1. CASE i = h
    BY <1>2, <2>1
  <2>2. CASE i # h
    <3>1. i \in Pending /\ i \in Segments \ {h}
      BY <1>2, <2>2, PendingInTurn
    <3>2. segment_buffer[i].st_block_index = prep.st_block_index
          /\ segment_buffer[i].amass_level \in 0 .. MaxAmassLevel
      BY <1>7, <3>1 DEF Parked
    <3> QED
      BY <1>2, <3>1, <3>2
  <2> QED
    BY <2>1, <2>2
<1>9. PICK b : b = st_block_buffer[prep.st_block_index]
  OBVIOUS
<1>10. b.steps.X = 0 /\ b.steps.Y = 0 /\ b.step_event_count \in Nat
  BY <1>2, <1>9 DEF Parked
<1>11. /\ st.exec => st.exec_block_index = prep.st_block_index /\ st.steps.X = 0 /\ st.steps.Y = 0
       /\ st.exec_block_index = prep.st_block_index =>
             st.counter.X = b.step_event_count \div 2 /\ st.counter.Y = b.step_event_count \div 2
  <2>1. CASE Empty /\ st.exec_block_index # IndexAt(segment_buffer_head)
    BY <1>6, <1>7, <2>1
  <2>2. CASE ~(Empty /\ st.exec_block_index # IndexAt(segment_buffer_head))
    BY <1>9, <2>2 DEF Parked
  <2> QED
    BY <2>1, <2>2
<1> QED
  BY <1>2, <1>4, <1>5, <1>7, <1>8, <1>9, <1>10, <1>11 DEF Parked

LEMMA ParkedAfterPulse ==
    ASSUME RingsAssumption, MotionAssumption, StepperTyped, TimerPlaced, ParkingEnds, Parked,
           state = "Parking", interrupted = "nothing", Pulse
    PROVE  Parked'
<1>1. /\ UNCHANGED <<planned, current, segment_buffer, segment_buffer_head, st_block_buffer, prep, preparing,
                     step_control>>
      /\ ~Empty /\ timer /\ preparing # "wake"
  BY Pulsed, ParkingPass DEF generator
<1>2. PICK t, index, b : t = segment_buffer_tail /\ index = prep.st_block_index /\ b = st_block_buffer[index]
  OBVIOUS
<1>3. /\ Begun /\ t \in Pending /\ Begun'
      /\ segment_buffer[t].st_block_index = index /\ segment_buffer[t].amass_level \in 0 .. MaxAmassLevel
      /\ st.exec => st.exec_block_index = index /\ st.steps.X = 0 /\ st.steps.Y = 0
      /\ st.exec_block_index = index =>
            st.counter.X = b.step_event_count \div 2 /\ st.counter.Y = b.step_event_count \div 2
      /\ b.steps.X = 0 /\ b.steps.Y = 0 /\ b.step_event_count \in Nat
  BY <1>1, <1>2, PendingInTurn DEF Parked, Begun, Continues
<1>4. /\ Loaded.exec_block_index = index /\ Loaded.steps.X = 0 /\ Loaded.steps.Y = 0
      /\ Loaded.counter.X = b.step_event_count \div 2 /\ Loaded.counter.Y = b.step_event_count \div 2
  <2>1. CASE st.exec
    BY <1>3, <2>1, TakenUp
  <2>2. CASE ~st.exec
    <3>1. PICK a : a = Power2[segment_buffer[t].amass_level]
      OBVIOUS
    <3>2. a \in Nat \ {0} /\ 0 \div a = 0
      BY <1>3, <3>1, AmassScales
    <3> QED
      BY <1>2, <1>3, <2>2, <3>1, <3>2, TakenUp
  <2> QED
    BY <2>1, <2>2
<1>5. PICK e, half : e = b.step_event_count /\ half = b.step_event_count \div 2
  OBVIOUS
<1>6. half \in Nat /\ half <= e /\ ~(half + 0 > e) /\ half + 0 = half
  BY <1>3, <1>5
<1>7. ASSUME NEW a \in {"X", "Y"} PROVE st'.counter[a] = half /\ motor_steps'[a] = motor_steps[a]
  <2>1. Loaded.counter[a] + Loaded.steps[a] = half
    BY <1>4, <1>5, <1>6
  <2>2. st_block_buffer[Loaded.exec_block_index].step_event_count = e
    BY <1>2, <1>4, <1>5
  <2>3. ~(half > e)
    BY <1>6
  <2> QED
    BY <2>1, <2>2, <2>3, Pulsed
<1>8. st'.counter.X = half /\ st'.counter.Y = half
      /\ motor_steps'.X = motor_steps.X /\ motor_steps'.Y = motor_steps.Y
  BY <1>7
<1>9. st'.exec_block_index = index /\ st'.steps.X = 0 /\ st'.steps.Y = 0
  BY <1>4, Pulsed
<1>10. AtCorner(current - 1)'
  BY <1>1, <1>8 DEF AtCorner, Corner, Parked
<1>11. Pending' \subseteq Pending
  <2>1. segment_buffer_tail' \in {segment_buffer_tail, NextSegment(segment_buffer_tail)}
    BY Pulsed
  <2> QED
    BY <1>1, <2>1 DEF StepperTyped, RingsAssumption, Pending, NextSegment, Segments, Empty
<1>12. ASSUME NEW i \in Pending'
       PROVE  segment_buffer'[i].st_block_index = prep'.st_block_index
              /\ segment_buffer'[i].amass_level \in 0 .. MaxAmassLevel
  BY <1>1, <1>11 DEF Parked
<1>13. "parking" \in prep'.flags /\ "holdPartialBlock" \notin prep'.flags /\ b = st_block_buffer'[prep'.st_block_index]
       /\ prep'.st_block_index = index
  BY <1>1, <1>2 DEF Parked
<1> QED
  BY <1>3, <1>5, <1>8, <1>9, <1>10, <1>12, <1>13 DEF Parked

\* Other steps in a parking motion.
LEMMA ParkedAfterRest ==
    ASSUME RingsAssumption, StepperTyped, TimerPlaced, ParkingEnds, ControlPlaced, Parked,
           state = "Parking", interrupted = "nothing",
           BailOut \/ EndPass \/ ShutDown \/ Poll \/ CycleStop \/ HoldParking
    PROVE  Parked' /\ UNCHANGED <<planned, current>>
<1>1. UNCHANGED <<planned, current, segment_buffer, segment_buffer_head, segment_buffer_tail, st_block_buffer,
                  st, motor_steps>>
  BY DEF BailOut, EndPass, ShutDown, Poll, CycleStop, HoldParking, generator, GeneratorRest, MainRest, interrupt
<1>2. "parking" \in prep.flags /\ "holdPartialBlock" \notin prep.flags /\ AtCorner(current - 1)
  BY DEF Parked
<1>3. /\ (Begun' <=> Begun) /\ prep'.st_block_index = prep.st_block_index
      /\ "parking" \in prep'.flags /\ "holdPartialBlock" \notin prep'.flags
  <2>1. CASE BailOut \/ EndPass \/ ShutDown \/ Poll
    <3>1. prep' = prep
      BY <1>2, <2>1 DEF BailOut, EndHold, EndPass, ShutDown, Poll, generator
    <3> QED
      BY <1>2, <3>1 DEF Begun, Continues
  <2>2. CASE CycleStop \/ HoldParking
    <3>1. prep' = Updated
      BY <2>2 DEF CycleStop, HoldParking
    <3>2. prep'.flags \subseteq prep.flags \cup {"recalculate"} /\ prep.flags \subseteq prep'.flags
      BY <3>1 DEF Updated, StepperTyped, Preps
    <3> QED
      BY <1>2, <3>1, <3>2, UpdatedLeaves DEF StepperTyped
  <2> QED
    BY <2>1, <2>2
<1>4. AtCorner(current - 1)' /\ Pending' = Pending /\ (Empty' <=> Empty)
  BY <1>1, <1>2 DEF AtCorner, Corner, Pending, Empty
<1>5. PICK b : b = st_block_buffer[prep.st_block_index]
  OBVIOUS
<1>6. b = st_block_buffer'[prep'.st_block_index]
      /\ (Begun' => b.steps.X = 0 /\ b.steps.Y = 0 /\ b.step_event_count \in Nat)
  BY <1>1, <1>3, <1>5 DEF Parked
<1>7. CASE ShutDown
  <2>1. UNCHANGED <<preparing, step_control, prep>> /\ IndexAt(segment_buffer_head)' = IndexAt(segment_buffer_head)
    BY <1>1, <1>7 DEF ShutDown, generator, IndexAt, Begun, Continues
  <2> QED
    BY <1>1, <1>3, <1>4, <2>1 DEF Parked, Commanded
<1>8. CASE ~ShutDown
  <2>1. /\ Begun
        /\ \A i \in Pending : /\ segment_buffer[i].st_block_index = prep.st_block_index
                              /\ segment_buffer[i].amass_level \in 0 .. MaxAmassLevel
        /\ Empty \/ st.exec => st.exec_block_index = prep.st_block_index
        /\ st.exec => st.steps.X = 0 /\ st.steps.Y = 0
        /\ st.exec_block_index = prep.st_block_index =>
              /\ st.counter.X = b.step_event_count \div 2
              /\ st.counter.Y = b.step_event_count \div 2
    <3>1. ~(/\ preparing = "wake" /\ Empty /\ ~Commanded("endMotion") /\ ~Commanded("executeHold"))
      <4>1. CASE EndPass
        BY <4>1, ParkingPass DEF EndPass
      <4>2. CASE BailOut
        BY <4>2 DEF BailOut
      <4>3. CASE Poll \/ CycleStop \/ HoldParking
        BY <4>3 DEF Poll, CycleStop, HoldParking
      <4> QED
        BY <1>8, <4>1, <4>2, <4>3
    <3> QED
      BY <1>5, <3>1 DEF Parked
  <2> QED
    BY <1>1, <1>3, <1>4, <1>6, <2>1 DEF Parked
<1> QED
  BY <1>1, <1>7, <1>8

-----------------------------------------------------------------------------
(* The lines are followed.                                                  *)

LEMMA PathBegins == ASSUME RingsAssumption, MotionAssumption, Init PROVE ControlPlaced /\ PathKept
<1>1. StepperTyped
  BY StepperBegins DEF StepperInv
<1>2. ControlPlaced
  BY DEF Init, ControlPlaced, Commanded
<1>3. /\ planned = <<>> /\ current = 1 /\ segment_buffer_tail = 0 /\ segment_buffer_head = 0
      /\ ~prep.loaded /\ prep.flags = {} /\ prep.st_block_index = 0 /\ ~st.exec /\ st.exec_block_index = 0
      /\ motor_steps.X = 0 /\ motor_steps.Y = 0 /\ state = "Idle" /\ Len(planned) = 0
  <2>1. "X" \in Axes /\ "Y" \in Axes
    BY DEF Axes
  <2> QED
    BY <2>1 DEF Init, NoSteps
<1>4. ~Begun /\ Pending = {}
  BY <1>3 DEF Begun, Continues, Pending, Segments
<1>5. PICK g : g = GeneratorAt
  OBVIOUS
<1>6. g = [line |-> 1, steps |-> 0, done |-> 0] /\ g \in Places
  BY <1>3, <1>4, <1>5 DEF GeneratorAt, Places
<1>7. AtCorner(0)
  <2>1. Corner(0).X = 0 /\ Corner(0).Y = 0
    BY <1>1, LinesKnown DEF StepperTyped
  <2> QED
    BY <1>3, <2>1 DEF AtCorner
<1>8. IndexAt(segment_buffer_tail) # 0
  BY <1>3, <1>4 DEF IndexAt, next_block_index, RingsAssumption
<1>9. InterruptAt(g)
  BY <1>3, <1>6, <1>7, <1>8 DEF InterruptAt
<1> DEFINE new == [i \in Segments |-> g]
<1>10. new \in [Segments -> Places] /\ \A i \in Segments : new[i] = g
  BY <1>6
<1> HIDE DEF new
<1>11. CutInto(new)
  BY <1>1, <1>4, <1>5, <1>9, <1>10 DEF CutInto, StepperTyped
<1>12. LineAtHand /\ current <= Len(planned) + 1
  BY <1>3, <1>4 DEF LineAtHand
<1> QED
  BY <1>2, <1>3, <1>11, <1>12 DEF PathKept

\* What parking motions have interrupted isn't forgotten.
LEMMA InterruptedStays == ASSUME Next, interrupted' = "nothing" PROVE interrupted = "nothing"
<1>1. CASE \E h \in ParkingHeights \cup {0} : Park(h)
  BY <1>1 DEF Park, Interrupted
<1>2. CASE Generator
  BY <1>2, GeneratorLeaves
<1>3. CASE Pulse \/ ShutDown
  BY <1>3 DEF Pulse, ShutDown
<1>4. CASE \/ \E l \in Lines : BufferLine(l)
           \/ Replan \/ Poll \/ InitiateCycle \/ StartHolding \/ HoldIdle \/ CycleStop
           \/ HoldParking \/ EndParking
  BY <1>4 DEF BufferLine, Replan, Poll, InitiateCycle, StartHolding, HoldIdle, CycleStop, HoldParking, EndParking
<1> QED
  BY <1>1, <1>2, <1>3, <1>4 DEF Next, Main

LEMMA PathStays ==
    ASSUME RingsAssumption, MotionAssumption, StepperInv, ControlPlaced, PathKept, Next PROVE PathKept'
<1> SUFFICES ASSUME interrupted' = "nothing" PROVE PathKept'
  BY DEF PathKept
<1>1. interrupted = "nothing" /\ current <= Len(planned) + 1
  BY InterruptedStays DEF PathKept
<1> USE DEF StepperInv
<1>2. CASE Generator \/ Pulse \/ ShutDown
  <2>1. state' = state
    BY <1>2, GeneratorLeaves DEF Pulse, ShutDown
  <2>2. CASE state = "Parking"
    <3>1. Parked
      BY <1>1, <2>2 DEF PathKept
    <3>2. Parked' /\ UNCHANGED <<planned, current>>
      <4>1. CASE LoadBlock
        BY <1>1, <2>2, <3>1, <4>1, ParkedAfterLoad, BlockLoaded
      <4>2. CASE \E n \in 1 .. prep.steps_remaining, level \in 0 .. MaxAmassLevel : MakeSegment(n, level)
        BY <1>1, <2>2, <3>1, <4>2, ParkedAfterSegment
      <4>3. CASE BailOut \/ EndPass \/ ShutDown
        BY <1>1, <2>2, <3>1, <4>3, ParkedAfterRest
      <4>4. CASE Pulse
        BY <1>1, <2>2, <3>1, <4>4, ParkedAfterPulse, Pulsed DEF generator
      <4> QED
        BY <1>2, <4>1, <4>2, <4>3, <4>4 DEF Generator
    <3> QED
      BY <1>1, <2>1, <2>2, <3>2 DEF PathKept
  <2>3. CASE state # "Parking"
    <3>1. PICK place : CutInto(place)
      BY <1>1, <2>3 DEF PathKept
    <3>2. LineAtHand
      BY <1>1, <2>3 DEF PathKept
    <3>3. LineAtHand' /\ current' <= Len(planned)' + 1 /\ \E new : CutInto(new)'
      <4>1. CASE LoadBlock
        BY <1>1, <2>3, <3>1, <3>2, <4>1, CutAfterLoad
      <4>2. CASE \E n \in 1 .. prep.steps_remaining, level \in 0 .. MaxAmassLevel : MakeSegment(n, level)
        BY <1>1, <2>3, <3>1, <3>2, <4>2, CutAfterSegment
      <4>3. CASE BailOut \/ EndPass \/ ShutDown
        BY <1>1, <3>1, <3>2, <4>3, CutAfterRest
      <4>4. CASE Pulse
        BY <1>1, <3>1, <3>2, <4>4, CutAfterPulse
      <4> QED
        BY <1>2, <4>1, <4>2, <4>3, <4>4 DEF Generator
    <3> QED
      BY <2>1, <2>3, <3>3 DEF PathKept
  <2> QED
    BY <2>2, <2>3
<1>3. CASE /\ state # "Parking"
           /\ \/ \E l \in Lines : BufferLine(l)
              \/ Replan \/ Poll \/ InitiateCycle \/ StartHolding \/ HoldIdle \/ CycleStop
  <2>1. PICK place : CutInto(place)
    BY <1>1, <1>3 DEF PathKept
  <2>2. LineAtHand
    BY <1>1, <1>3 DEF PathKept
  <2>3. state' # "Parking" /\ LineAtHand' /\ current' <= Len(planned)' + 1 /\ CutInto(place)'
    BY <1>1, <1>3, <2>1, <2>2, CutAfterMain
  <2> QED
    BY <2>3 DEF PathKept
<1>4. CASE state = "Parking" /\ (Poll \/ CycleStop \/ HoldParking)
  <2>1. Parked' /\ UNCHANGED <<planned, current>>
    BY <1>1, <1>4, ParkedAfterRest DEF PathKept
  <2>2. state' = "Parking"
    BY <1>4 DEF Poll, CycleStop, HoldParking
  <2> QED
    BY <1>1, <2>1, <2>2 DEF PathKept
<1>5. CASE \E h \in ParkingHeights \cup {0} : Park(h)
  <2>1. PICK h \in ParkingHeights \cup {0} : Park(h)
    BY <1>5
  <2>2. state = "Held" /\ state' = "Parking"
    BY <2>1 DEF Park
  <2>3. PICK place : CutInto(place)
    BY <1>1, <2>2 DEF PathKept
  <2>4. Parked' /\ UNCHANGED <<planned, current>>
    BY <2>1, <2>3, ParkingBegins
  <2> QED
    BY <1>1, <2>2, <2>4 DEF PathKept
<1>6. CASE EndParking
  <2>1. state = "Parking" /\ state' # "Parking"
    BY <1>6 DEF EndParking
  <2>2. Parked
    BY <1>1, <2>1 DEF PathKept
  <2>3. LineAtHand' /\ UNCHANGED <<planned, current>> /\ \E place : CutInto(place)'
    BY <1>1, <1>6, <2>2, ParkingOver
  <2> QED
    BY <1>1, <2>1, <2>3 DEF PathKept
<1>7. CASE /\ state = "Parking"
           /\ (\E l \in Lines : BufferLine(l)) \/ Replan \/ InitiateCycle \/ StartHolding \/ HoldIdle
  BY <1>7 DEF BufferLine, Replan, InitiateCycle, StartHolding, HoldIdle
<1>8. HoldParking => state = "Parking"
  BY DEF HoldParking
<1> QED
  BY <1>2, <1>3, <1>4, <1>5, <1>6, <1>7, <1>8 DEF Next, Main

\* At the end of a line the machine is on it.
LEMMA CornerOnPath ==
    ASSUME MotionAssumption, StepperTyped, NEW k \in 0 .. Len(planned), AtCorner(k) PROVE OnPath
<1>1. planned \in Seq(Lines)
  BY DEF StepperTyped
<1>2. CASE k = 0
  BY <1>1, <1>2, LinesKnown DEF AtCorner, OnPath
<1>3. CASE k # 0
  <2>1. k \in 1 .. Len(planned) /\ k - 1 \in 0 .. Len(planned)
    BY <1>1, <1>3, LinesKnown
  <2>2. PICK X, Y, x0, y0, x, y : /\ X = planned[k].X /\ Y = planned[k].Y
                                  /\ x0 = Corner(k - 1).X /\ y0 = Corner(k - 1).Y
                                  /\ x = motor_steps.X /\ y = motor_steps.Y
    OBVIOUS
  <2>3. X \in Nat /\ Y \in Nat /\ x0 \in Int /\ y0 \in Int /\ x = x0 + X /\ y = y0 + Y
    BY <1>1, <2>1, <2>2, LinesKnown DEF AtCorner
  <2>4. /\ x - x0 \in 0 .. X /\ y - y0 \in 0 .. Y
        /\ (x - x0) * Y - (y - y0) * X = 0 /\ 0 <= Greater(X, Y) /\ -Greater(X, Y) <= 0
    <3>1. x - x0 = X /\ y - y0 = Y
      BY ONLY <2>3
    <3>2. X * Y - Y * X = 0
      BY ONLY <2>3
    <3>3. 0 <= Greater(X, Y) /\ -Greater(X, Y) <= 0
      BY <2>3 DEF Greater
    <3> QED
      BY <2>3, <3>1, <3>2, <3>3
  <2>5. Near(k)
    BY <2>2, <2>4 DEF Near
  <2> QED
    BY <2>1, <2>5 DEF OnPath
<1> QED
  BY <1>2, <1>3

\* And so it is when part of it is executed.
LEMMA ExecutedOnPath ==
    ASSUME MotionAssumption, StepperTyped, NEW k \in 1 .. Len(planned),
           NEW part \in 0 .. Events(k) * Power2[MaxAmassLevel], NEW counter, Executed(counter, k, part)
    PROVE  OnPath
<1>1. PICK X, Y, x, y, w : /\ X = planned[k].X /\ Y = planned[k].Y
                           /\ x = motor_steps.X - Corner(k - 1).X
                           /\ y = motor_steps.Y - Corner(k - 1).Y
                           /\ w = Events(k) * Power2[MaxAmassLevel]
  OBVIOUS
<1>2. X \in Nat /\ Y \in Nat /\ x \in Int /\ y \in Int /\ w \in Nat /\ part \in 0 .. w
  <2>1. planned \in Seq(Lines)
    BY DEF StepperTyped
  <2>2. k - 1 \in 0 .. Len(planned) /\ X \in Nat /\ Y \in Nat /\ Events(k) \in Nat
    BY <1>1, <2>1, LinesKnown
  <2>3. PICK mx, my, x0, y0 : /\ mx = motor_steps.X /\ my = motor_steps.Y
                              /\ x0 = Corner(k - 1).X /\ y0 = Corner(k - 1).Y
    OBVIOUS
  <2>4. x0 \in Int /\ y0 \in Int
    BY <2>1, <2>2, <2>3, LinesKnown
  <2>5. mx \in Int /\ my \in Int
    <3>1. "X" \in Axes /\ "Y" \in Axes /\ motor_steps \in [Axes -> Int]
      BY DEF StepperTyped, Axes
    <3> QED
      BY <2>3, <3>1
  <2>6. x \in Int /\ y \in Int
    BY <1>1, <2>3, <2>4, <2>5
  <2>7. PICK e, P : e = Events(k) /\ P = Power2[MaxAmassLevel]
    OBVIOUS
  <2>8. e \in Nat /\ P \in Nat
    BY <2>2, <2>7, AmassScales
  <2>9. e * P \in Nat
    BY ONLY <2>8
  <2> QED
    BY <1>1, <2>2, <2>6, <2>7, <2>9
<1>3. Bresenham(counter.X, x, X, w, part) /\ Bresenham(counter.Y, y, Y, w, part)
  BY <1>1 DEF Executed
<1>4. PICK p, q : p = counter.X /\ q = counter.Y
  OBVIOUS
<1>5. p \in Int /\ q \in Int /\ Bresenham(p, x, X, w, part) /\ Bresenham(q, y, Y, w, part)
  <2>1. p \in 1 .. w /\ q \in 1 .. w
    BY <1>3, <1>4 DEF Bresenham
  <2> QED
    BY <1>2, <1>3, <1>4, <2>1
<1>6. x \in 0 .. X /\ y \in 0 .. Y
  BY <1>2, <1>5, BresenhamBetween
<1>7. x * Y - y * X <= Greater(X, Y) /\ -Greater(X, Y) <= x * Y - y * X
  BY <1>2, <1>5, BresenhamNear
<1>8. Near(k)
  BY <1>1, <1>6, <1>7 DEF Near
<1> QED
  BY <1>8 DEF OnPath

\* How much of a line is done when a piece of it is.
LEMMA PartOfLine ==
    ASSUME MotionAssumption, StepperTyped, NEW p \in Places, NEW next, NEW i, PieceOfLine(i, p, next)
    PROVE  /\ p.line \in 1 .. Len(planned)
           /\ p.done * Power2[MaxAmassLevel] \in 0 .. Events(p.line) * Power2[MaxAmassLevel]
           /\ \A count \in 1 .. segment_buffer[i].n_step :
                 p.done * Power2[MaxAmassLevel]
                    + (segment_buffer[i].n_step - count) * Power2[MaxAmassLevel - segment_buffer[i].amass_level]
                 \in 0 .. Events(p.line) * Power2[MaxAmassLevel]
<1>1. PICK d, k, m, n, l, e : /\ d = p.done /\ k = p.line /\ m = p.steps /\ e = Events(k)
                              /\ n = segment_buffer[i].n_step /\ l = segment_buffer[i].amass_level
  OBVIOUS
<1>2. /\ k \in 1 .. Len(planned) /\ d \in Nat /\ m \in 1 .. MaxSegment /\ l \in 0 .. MaxAmassLevel
      /\ n = m * Power2[l]
  BY <1>1 DEF PieceOfLine, Places
<1>3. e \in Nat \ {0} /\ m \in Nat \ {0}
  <2>1. e \in Nat \ {0}
    BY <1>1, <1>2, LinesKnown DEF StepperTyped
  <2>2. MaxSegment \in Nat
    BY DEF MotionAssumption
  <2> QED
    BY <1>2, <2>1, <2>2
<1>4. d + m <= e
  <2>1. (next.done = d + m /\ next.done < e) \/ d + m = e
    BY <1>1 DEF PieceOfLine
  <2> QED
    BY <1>2, <1>3, <2>1
<1>5. PICK P, s, a : P = Power2[MaxAmassLevel] /\ s = Power2[MaxAmassLevel - l] /\ a = Power2[l]
  OBVIOUS
<1>6. P \in Nat \ {0} /\ s \in Nat \ {0} /\ a \in Nat \ {0} /\ P = a * s /\ n = m * a
  BY <1>2, <1>5, AmassScales
<1>7. d * P \in Nat /\ e * P \in Nat /\ m * P \in Nat /\ (d + m) * P <= e * P /\ (d + m) * P = d * P + m * P
  BY ONLY <1>2, <1>3, <1>4, <1>6
<1>8. n * s = m * P
  BY ONLY <1>3, <1>6
<1>9. ASSUME NEW count \in 1 .. n PROVE d * P + (n - count) * s \in 0 .. e * P
  <2>1. n \in Nat
    BY ONLY <1>3, <1>6
  <2>2. n - count \in Nat /\ n - count <= n
    BY <2>1
  <2>3. (n - count) * s \in Nat /\ (n - count) * s <= n * s
    BY ONLY <1>6, <2>1, <2>2
  <2> QED
    BY ONLY <1>7, <1>8, <2>3
<1>10. d * P \in 0 .. e * P
  BY ONLY <1>7
<1> QED
  BY <1>1, <1>2, <1>5, <1>9, <1>10

LEMMA PathIsLine ==
    ASSUME RingsAssumption, MotionAssumption, LineInv PROVE LineFollowed
<1> USE DEF LineInv, StepperInv
<1>1. planned \in Seq(Lines) /\ Len(planned) \in Nat /\ current \in Nat \ {0}
  BY LinesKnown DEF StepperTyped
<1>2. ASSUME interrupted = "nothing", state # "Parking", NEW place, CutInto(place)
      PROVE  OnPath /\ StepsExact
  <2>1. LineAtHand /\ current <= Len(planned) + 1
    BY <1>2 DEF PathKept
  <2>2. PICK t, p : t = segment_buffer_tail /\ p = place[t]
    OBVIOUS
  <2>3. /\ p \in Places /\ InterruptAt(p) /\ p.line <= Len(planned) + 1
        /\ st.exec \/ p.done # 0 => p.line \in 1 .. Len(planned)
    BY <1>2, <2>1, <2>2, PlacesKnown DEF CutInto
  <2>4. t \in Pending => PieceOfLine(t, p, place[NextSegment(t)])
    BY <1>2, <2>2 DEF CutInto
  <2>5. t \in Pending \/ (t = segment_buffer_head /\ p = GeneratorAt /\ ~st.exec)
    BY <1>2, <2>2, PendingInTurn DEF CutInto, StepperTyped, Empty
  <2>6. OnPath
    <3>1. CASE st.exec
      <4>1. PieceOfLine(t, p, place[NextSegment(t)])
        BY <2>4, <2>5, <3>1
      <4>2. PICK c, q : /\ c = st.counter
                        /\ q = p.done * Power2[MaxAmassLevel]
                               + (segment_buffer[t].n_step - st.step_count)
                                 * Power2[MaxAmassLevel - segment_buffer[t].amass_level]
        OBVIOUS
      <4>3. Executed(c, p.line, q) /\ st.step_count \in 1 .. segment_buffer[t].n_step
        BY <2>2, <2>3, <3>1, <4>2 DEF InterruptAt
      <4>4. q \in 0 .. Events(p.line) * Power2[MaxAmassLevel] /\ p.line \in 1 .. Len(planned)
        BY <2>3, <4>1, <4>2, <4>3, PartOfLine
      <4> QED
        BY <4>3, <4>4, ExecutedOnPath
    <3>2. CASE ~st.exec /\ p.done = 0
      <4>1. AtCorner(p.line - 1)
        BY <2>3, <3>2 DEF InterruptAt
      <4>2. p.line - 1 \in 0 .. Len(planned)
        BY <1>1, <2>3 DEF Places
      <4> QED
        BY <4>1, <4>2, CornerOnPath
    <3>3. CASE ~st.exec /\ p.done # 0
      <4>1. PICK c, q : c = st.counter /\ q = p.done * Power2[MaxAmassLevel]
        OBVIOUS
      <4>2. Executed(c, p.line, q) /\ p.line \in 1 .. Len(planned)
        BY <2>3, <3>3, <4>1 DEF InterruptAt
      <4>3. q \in 0 .. Events(p.line) * Power2[MaxAmassLevel]
        <5>1. CASE t \in Pending
          BY <2>3, <2>4, <4>1, <5>1, PartOfLine
        <5>2. CASE p = GeneratorAt
          <6>1. Begun /\ p.line = current /\ p.done = Events(current) - prep.steps_remaining
            BY <3>3, <5>2 DEF GeneratorAt
          <6>2. PICK d, e, r, P : /\ d = p.done /\ e = Events(p.line) /\ r = prep.steps_remaining
                                  /\ P = Power2[MaxAmassLevel]
            OBVIOUS
          <6>3. e \in Nat /\ P \in Nat /\ d = e - r /\ r \in 1 .. e
            BY <1>1, <2>1, <4>2, <6>1, <6>2, LinesKnown, AmassScales DEF LineAtHand
          <6>4. d \in Nat /\ d <= e
            BY ONLY <6>3
          <6>5. d * P \in 0 .. e * P
            BY ONLY <6>3, <6>4
          <6> QED
            BY <4>1, <6>2, <6>5
        <5> QED
          BY <2>5, <5>1, <5>2
      <4> QED
        BY <4>2, <4>3, ExecutedOnPath
    <3> QED
      BY <3>1, <3>2, <3>3
  <2>7. StepsExact
    <3> SUFFICES ASSUME Resting PROVE AtEnd
      BY DEF StepsExact
    <3>1. Empty /\ ~st.exec /\ current = Len(planned) + 1
      BY <1>1, <2>1 DEF Resting, PlanEmpty
    <3>2. ~Begun
      BY <1>1, <2>1, <3>1 DEF LineAtHand
    <3>3. p = GeneratorAt /\ p.done = 0 /\ p.line = current
      BY <1>2, <2>2, <3>1, <3>2 DEF CutInto, GeneratorAt, Empty
    <3>4. AtCorner(p.line - 1) /\ p.line - 1 = Len(planned)
      BY <1>1, <2>3, <3>1, <3>3 DEF InterruptAt
    <3>5. Corner(Len(planned)) \in [X : Int, Y : Int]
      BY <1>1, LinesKnown
    <3>6. motor_steps.X = Corner(Len(planned)).X /\ motor_steps.Y = Corner(Len(planned)).Y
      BY <3>4 DEF AtCorner
    <3> QED
      BY <3>5, <3>6 DEF AtEnd
  <2> QED
    BY <2>6, <2>7
<1>3. ASSUME interrupted = "nothing", state = "Parking" PROVE OnPath /\ StepsExact
  <2>1. AtCorner(current - 1) /\ current - 1 \in 0 .. Len(planned)
    BY <1>1, <1>3 DEF PathKept, Parked
  <2>2. OnPath
    BY <2>1, CornerOnPath
  <2> QED
    BY <1>3, <2>2 DEF StepsExact, Resting
<1>4. interrupted # "nothing" => OnPath /\ StepsExact
  BY DEF OnPath, StepsExact
<1> QED
  BY <1>2, <1>3, <1>4 DEF LineFollowed, PathKept

LEMMA LineInvariant == Spec => []LineInv
<1>1. Init => ControlPlaced /\ PathKept
  BY PathBegins, RingsAssumption, MotionAssumption
<1>2. StepperInv /\ ControlPlaced /\ PathKept /\ [Next]_vars => (ControlPlaced /\ PathKept)'
  <2>1. ASSUME StepperInv, ControlPlaced, PathKept, Next PROVE ControlPlaced' /\ PathKept'
    <3>1. ControlPlaced'
      BY <2>1, ControlKept DEF StepperInv
    <3>2. PathKept'
      BY <2>1, PathStays, RingsAssumption, MotionAssumption
    <3> QED
      BY <3>1, <3>2
  <2>2. ASSUME ControlPlaced, PathKept, UNCHANGED vars PROVE ControlPlaced' /\ PathKept'
    BY <2>2 DEF vars, generator, interrupt, ControlPlaced, PathKept, Parked, LineAtHand, CutInto, PieceOfLine,
                InterruptAt, Executed, AtCorner, Corner, GeneratorAt, Events, IndexAt, Begun, Continues, Pending,
                Empty, Commanded
  <2> QED
    BY <2>1, <2>2
<1> QED
  BY <1>1, <1>2, StepperInvariant, PTL DEF Spec, LineInv

\* Whatever the lines, the rings, the segments and the holds: the steps follow the lines
\* that were planned, and when all is done none was lost or made twice.
THEOREM LineAlwaysFollowed == Spec => []LineFollowed
<1>1. LineInv => LineFollowed
  BY PathIsLine, RingsAssumption, MotionAssumption
<1> QED
  BY <1>1, LineInvariant, PTL
=============================================================================
