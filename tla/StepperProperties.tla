-------------------------- MODULE StepperProperties --------------------------
(* What the generator and the stepper interrupt have to guarantee together. *)
EXTENDS Stepper

\* Segments the interrupt has not finished.
Pending == {i \in Segments :
               IF segment_buffer_tail <= segment_buffer_head
               THEN i \in segment_buffer_tail .. segment_buffer_head - 1
               ELSE i >= segment_buffer_tail \/ i < segment_buffer_head}

\* The Bresenham data of a segment that is still to be executed, or being executed,
\* are never overwritten: SEGMENT_BUFFER_SIZE - 1 slots of them are enough, unless a
\* parking motion begins with segments pending.
DataInUseKept ==
    [][ interrupted # "pending" =>
            \A i \in Pending : LET index == segment_buffer[i].st_block_index
                               IN  st_block_buffer'[index] = st_block_buffer[index] ]_vars

\* Where the k-th of some lines ends.
EndOf(lines, k) ==
    LET sum[i \in 0 .. k] == IF i = 0 THEN [X |-> 0, Y |-> 0]
                             ELSE [X |-> sum[i - 1].X + lines[i].X, Y |-> sum[i - 1].Y + lines[i].Y]
    IN  sum[k]

Corner(k) == EndOf(planned, k)

\* The machine is within a step of the k-th line.
Near(k) ==
    LET x == motor_steps.X - Corner(k - 1).X
        y == motor_steps.Y - Corner(k - 1).Y
        off == x * planned[k].Y - y * planned[k].X
        step == Greater(planned[k].X, planned[k].Y)
    IN  /\ x \in 0 .. planned[k].X /\ y \in 0 .. planned[k].Y
        /\ off <= step /\ -step <= off

\* The steps follow the lines that were planned, whatever segments they were cut
\* into, at whatever AMASS level, across feed holds: both axes stay within a step
\* of the line.
OnPath == interrupted = "nothing" =>
    \/ motor_steps.X = 0 /\ motor_steps.Y = 0
    \/ \E k \in 1 .. Len(planned) : Near(k)

\* All that was planned is done.
Resting == ~timer /\ Empty /\ ~st.exec /\ PlanEmpty /\ state = "Idle"

AtEnd == [X |-> motor_steps.X, Y |-> motor_steps.Y] = Corner(Len(planned))

\* When all is done no step has been lost or made twice: the machine is where the
\* planner thinks it is, after feed holds too.
StepsExact == Resting /\ interrupted = "nothing" => AtEnd

\* The two together: the line is followed, and to its end.
LineFollowed == OnPath /\ StepsExact

-----------------------------------------------------------------------------
(* The inductive invariant of DataInUseKept.                                *)

Preps == [loaded : BOOLEAN, flags : SUBSET Flags, st_block_index : StBlocks,
          steps_remaining : Nat, last_st_block_index : StBlocks, last_steps_remaining : Nat]

StepperTyped ==
    /\ planned \in Seq(Lines) /\ current \in Nat \ {0}
    /\ system_block \in [from : Int, to : Int] /\ motor_steps \in [Axes -> Int]
    /\ segment_buffer_tail \in Segments /\ segment_buffer_head \in Segments
    /\ segment_next_head = NextSegment(segment_buffer_head)
    /\ DOMAIN segment_buffer = Segments /\ DOMAIN st_block_buffer = StBlocks
    /\ \A i \in Segments : segment_buffer[i].st_block_index \in StBlocks
    /\ prep \in Preps
    /\ DOMAIN st = {"exec", "step_count", "exec_block_index", "counter", "steps"}
    /\ st.exec => ~Empty

\* When the interrupt is enabled, and when its request for a cycle stop is seen.
TimerPlaced ==
    /\ timer \in BOOLEAN /\ rtCycleStop \in BOOLEAN
    /\ state \in {"Idle", "Held"} \/ rtCycleStop \/ preparing = "wake" => ~timer
    /\ state \in {"Idle", "Held"} \/ preparing = "wake" => ~rtCycleStop
    /\ preparing = "wake" => state = "Cycle" \/ (state = "Parking" /\ Commanded("executeSysMotion"))
    /\ state = "Parking" /\ ~Commanded("executeSysMotion") => ~timer /\ ~rtCycleStop

\* The generator has begun a block, or is to compute its profile again.
Begun == prep.loaded \/ Continues

\* A parking motion of which no segment is left to make.
NoneLeft == Begun /\ prep.steps_remaining = 0

\* A parking motion that is over leaves no segments, and none is made before it is
\* taken notice of.
ParkingEnds ==
    state = "Parking" /\ interrupted # "pending" =>
        /\ rtCycleStop \/ ~Commanded("executeSysMotion") =>
               Empty /\ (Commanded("endMotion") \/ NoneLeft)
        /\ Commanded("executeSysMotion") /\ Commanded("endMotion") /\ ~Commanded("executeHold") =>
               NoneLeft

\* How many segments, and how many slots of Bresenham data, ago.
Ago(i) == IF i < segment_buffer_head THEN segment_buffer_head - i
          ELSE segment_buffer_head + SEGMENT_BUFFER_SIZE - i
Age(index) == IF index <= prep.st_block_index THEN prep.st_block_index - index
              ELSE prep.st_block_index + SEGMENT_BUFFER_SIZE - 1 - index

\* Each slot of data that was left behind has a segment, but for the one in use.
EachHasSegment ==
    interrupted # "pending" =>
        \A i \in Pending :
            Age(segment_buffer[i].st_block_index) < IF Begun THEN Ago(i) + 1 ELSE Ago(i)

StepperInv == StepperTyped /\ TimerPlaced /\ ParkingEnds /\ EachHasSegment

-----------------------------------------------------------------------------
(* The inductive invariant of LineFollowed.                                 *)

\* What the program has commanded, and when; a block is loaded with its profile.
ControlPlaced ==
    /\ Commanded("executeSysMotion") => state = "Parking"
    /\ Commanded("executeHold") => state = "Hold" \/ (state = "Parking" /\ Commanded("executeSysMotion"))
    /\ prep.loaded => ~Continues

Events(k) == EventCount(LineMotion(planned[k]))

\* The index of the data of slot i; at the head, that of the next segment.
IndexAt(i) == IF i # segment_buffer_head THEN segment_buffer[i].st_block_index
              ELSE IF Begun THEN prep.st_block_index ELSE next_block_index(prep.st_block_index)

\* A Bresenham counter after part of a line: part and whole are in events at the highest
\* AMASS level, made are the steps of the motor.
Bresenham(counter, made, steps, whole, part) ==
    counter \in 1 .. whole /\ 2 * (counter + made * whole) = whole + 2 * (part * steps)

\* Where the motors and their counters are when part of the k-th line is executed.
Executed(counter, k, part) ==
    LET whole == Events(k) * Power2[MaxAmassLevel]
    IN  /\ Bresenham(counter.X, motor_steps.X - Corner(k - 1).X, planned[k].X, whole, part)
        /\ Bresenham(counter.Y, motor_steps.Y - Corner(k - 1).Y, planned[k].Y, whole, part)

\* The motors are where the k-th line ends.
AtCorner(k) == motor_steps.X = Corner(k).X /\ motor_steps.Y = Corner(k).Y

\* A place of a segment: its line, the steps of the line before it, and its own.
Places == [line : Nat \ {0}, done : Nat, steps : Nat]

\* Where the generator is: the place of the segment it makes next.
GeneratorAt == [line |-> current, steps |-> 0,
                done |-> IF Begun THEN Events(current) - prep.steps_remaining ELSE 0]

\* The segment of slot i is a piece of a line, and what follows it the next piece, of
\* the same data, or the first of the next line, with data of its own.
PieceOfLine(i, here, next) ==
    LET segment == segment_buffer[i]
    IN  /\ here.line <= Len(planned) /\ here.steps \in 1 .. MaxSegment
        /\ segment.amass_level \in 0 .. MaxAmassLevel
        /\ segment.n_step = here.steps * Power2[segment.amass_level]
        /\ st_block_buffer[segment.st_block_index] = StBlock(LineMotion(planned[here.line]))
        /\ \/ /\ next.line = here.line /\ next.done = here.done + here.steps
              /\ next.done < Events(here.line)
              /\ IndexAt(NextSegment(i)) = segment.st_block_index
           \/ /\ next.line = here.line + 1 /\ next.done = 0
              /\ here.done + here.steps = Events(here.line)
              /\ IndexAt(NextSegment(i)) # segment.st_block_index

\* The interrupt is in the segment at the tail, or before it: what it has done of the
\* line are the pieces before, and the events of this one that are counted down.
InterruptAt(place) ==
    LET segment == segment_buffer[segment_buffer_tail]
        scale == Power2[MaxAmassLevel - segment.amass_level]
    IN  IF st.exec
        THEN /\ st.exec_block_index = segment.st_block_index
             /\ st.step_count \in 1 .. segment.n_step
             /\ st.steps.X = planned[place.line].X * scale /\ st.steps.Y = planned[place.line].Y * scale
             /\ Executed(st.counter, place.line, place.done * Power2[MaxAmassLevel]
                                     + (segment.n_step - st.step_count) * scale)
        ELSE IF place.done = 0
        THEN st.exec_block_index # IndexAt(segment_buffer_tail) /\ AtCorner(place.line - 1)
        ELSE /\ st.exec_block_index = IndexAt(segment_buffer_tail)
             /\ Executed(st.counter, place.line, place.done * Power2[MaxAmassLevel])

\* The segments are the lines, cut into pieces, from the interrupt to the generator.
CutInto(place) ==
    /\ place \in [Segments -> Places]
    /\ place[segment_buffer_head] = GeneratorAt
    /\ \A i \in Pending : PieceOfLine(i, place[i], place[NextSegment(i)])
    /\ InterruptAt(place[segment_buffer_tail])

\* A line that is begun isn't over, and its data are at hand.
LineAtHand ==
    Begun => /\ current <= Len(planned) /\ prep.steps_remaining \in 1 .. Events(current)
             /\ st_block_buffer[prep.st_block_index] = StBlock(LineMotion(planned[current]))

\* X and Y stay where they are in a parking motion: its first pass makes a segment, and
\* that has data of its own, without steps in X and Y.
Parked ==
    LET block == st_block_buffer[prep.st_block_index]
    IN  /\ AtCorner(current - 1)
        /\ "parking" \in prep.flags /\ "holdPartialBlock" \notin prep.flags
        /\ Begun => block.steps.X = 0 /\ block.steps.Y = 0 /\ block.step_event_count \in Nat
        /\ \/ /\ preparing = "wake" /\ Empty
              /\ ~Commanded("endMotion") /\ ~Commanded("executeHold")
              /\ st.exec_block_index # IndexAt(segment_buffer_head)
           \/ /\ Begun
              /\ \A i \in Pending : /\ segment_buffer[i].st_block_index = prep.st_block_index
                                    /\ segment_buffer[i].amass_level \in 0 .. MaxAmassLevel
              /\ Empty \/ st.exec => st.exec_block_index = prep.st_block_index
              /\ st.exec => st.steps.X = 0 /\ st.steps.Y = 0
              /\ st.exec_block_index = prep.st_block_index =>
                    /\ st.counter.X = block.step_event_count \div 2
                    /\ st.counter.Y = block.step_event_count \div 2

PathKept ==
    interrupted = "nothing" =>
        /\ current <= Len(planned) + 1
        /\ IF state = "Parking" THEN Parked
           ELSE LineAtHand /\ \E place : CutInto(place)

LineInv == StepperInv /\ ControlPlaced /\ PathKept
=============================================================================
