-------------------------- MODULE PlannerProperties --------------------------
(* Correctness properties of the planner; the model is in Planner. *)
EXTENDS Planner, Sequences

Count == plan_get_block_buffer_count

\* The ring never wraps onto itself: the head pointer and its successor agree,
\* the number of blocks and of free slots reported are complementary, and the
\* test that makes mc_line wait is true exactly when no slot is free.  The block
\* the stepper works on is a queued one: no discarding, replanning or reset in
\* between leaves it with a block that is gone.
RingConsistent ==
    /\ next_buffer_head = plan_next_block_index(block_buffer_head)
    /\ Count + plan_get_block_buffer_available = BLOCK_BUFFER_SIZE - 1
    /\ plan_check_full_buffer <=> plan_get_block_buffer_available = 0
    /\ prep.loaded => ~Empty

\* Squared speed at the start of what is left of the k-th queued block.
StartSpeed(k) == IF k = 0 /\ (prep.loaded \/ prep.recalculate) THEN prep.speed
                 ELSE Nth(k).entry

\* No block asks for a change of speed its length does not allow, the plan ends at
\* a standstill, and no junction is taken faster than its limit (the planner's
\* guidelines 1a to 1c and 2a).
Feasible ==
    \A k \in 0 .. Count - 1 :
        LET exit == IF k = Count - 1 THEN 0 ELSE StartSpeed(k + 1)
        IN  /\ Gap(StartSpeed(k), exit) <= Nth(k).reach
            /\ k > 0 => Nth(k).entry <= Nth(k).max_entry

\* Reach of the queued blocks i to j - 1.
Between(i, j) ==
    LET sum[k \in i .. j] == IF k = i THEN 0 ELSE sum[k - 1] + Nth(k - 1).reach
    IN  sum[j]

\* Outside a hold the plan can be executed and is optimal: every entry speed is as
\* high as its own limit, those of all the other blocks, the speed of the machine
\* and the final stop allow.  The incremental passes, which skip the blocks before
\* the planned pointer, lose nothing against this full plan.
PlanOptimal ==
    step_control = NoControl /\ ~lowered =>
        /\ Feasible
        /\ \A k \in 1 .. Count - 1 :
                \/ Nth(k).entry = Nth(k).max_entry
                \/ Nth(k).entry = Between(k, Count)
                \/ Nth(k).entry = StartSpeed(0) + Between(0, k)
                \/ \E j \in 1 .. Count - 1 :
                      /\ j # k
                      /\ Nth(k).entry = Nth(j).max_entry
                                        + (IF j < k THEN Between(j, k) ELSE Between(k, j))

\* The speed changes only by what the distance covered allows: never by a
\* replanning, at a block boundary, or when a profile is taken up.
SpeedContinuous ==
    [][ prep'.speed = prep.speed
        \/ lowered
        \/ prep' = IdlePrep
        \/ LET covered == IF block_buffer_tail' = block_buffer_tail
                          THEN block_buffer[block_buffer_tail].reach
                               - block_buffer'[block_buffer_tail].reach
                          ELSE block_buffer[block_buffer_tail].reach
           IN  Gap(prep.speed, prep'.speed) <= covered ]_vars

\* What a queued block says of its motion, whatever is planned or executed of it.
MotionOf(b) == [motion |-> b.motion, rate |-> b.rate, junction |-> b.junction]
QueuedMotions == [motion : Motions, rate : Rates \cup {RapidRate}, junction : Junctions \cup {0}]

\* The queued motions, the one at the tail first.
Contents == [k \in 1 .. Count |-> MotionOf(Nth(k - 1))]

Queue == INSTANCE PlannerQueue WITH
            Capacity <- BLOCK_BUFFER_SIZE - 1, queue <- Contents, speed <- prep.speed

\* The ring implements the bounded queue of motions.
QueueSpec == Queue!Spec
=============================================================================
