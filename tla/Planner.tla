------------------------------- MODULE Planner -------------------------------
(***************************************************************************)
(* The look-ahead planner (Planner.cpp): a ring of motion blocks, the      *)
(* incremental velocity planning over it, and the part of the stepper's    *)
(* segment generator that consumes the block at the tail                   *)
(* (Stepper::prep_buffer, Stepper::update_plan_block_parameters).          *)
(*                                                                         *)
(* Lengths and speeds are abstracted to small naturals: "reach" is the     *)
(* change of squared speed 2 * acceleration * millimeters that the rest of *)
(* a block allows, and entry, max_entry, junction and speed are squared    *)
(* speeds.  Geometry is a choice of junction speed.  The block of a system *)
(* motion is written into the always free slot at the head.  The contents  *)
(* of a slot are dropped (NoBlock) when its block leaves the queue: what   *)
(* the code leaves there is never read as a block.                         *)
(***************************************************************************)
EXTENDS Naturals

CONSTANTS BLOCK_BUFFER_SIZE,  \* slots of the ring, one of which stays empty
          Reaches,            \* values of 2 * acceleration * millimeters
          SystemReaches,      \* the same, of homing and parking motions
          Rates,              \* programmed rates
          Junctions,          \* junction speeds, squared
          RapidRate,          \* rate of a rapid, and limit of every other motion
          FeedOverrides,      \* feed overrides, in percent
          DefaultFeedOverride,
          Motions             \* subset of {"feed", "rapid"}

ASSUME RingAssumption == BLOCK_BUFFER_SIZE \in Nat /\ BLOCK_BUFFER_SIZE > 1
ASSUME DataAssumption ==
    /\ Reaches \subseteq Nat \ {0} /\ SystemReaches \subseteq Nat \ {0}
    /\ Rates \subseteq Nat \ {0}
    /\ Junctions \subseteq Nat /\ RapidRate \in Nat \ {0}
    /\ FeedOverrides \subseteq Nat \ {0} /\ DefaultFeedOverride \in FeedOverrides
    /\ Motions \subseteq {"feed", "rapid"}

VARIABLES block_buffer,          \* the ring
          block_buffer_tail,     \* block being executed
          block_buffer_head,     \* next slot to be written
          next_buffer_head,
          block_buffer_planned,  \* blocks before it are optimally planned
          previous_nominal,      \* pl.previous_nominal_speed
          f_override,            \* sys.f_override
          step_control,          \* sys.step_control: executeHold, endMotion
          prep,                  \* the stepper's view of the executing block
          lowered                \* history: the override was lowered while the
                                 \* queue has not been empty since

ring == <<block_buffer_tail, block_buffer_head, next_buffer_head>>
vars == <<block_buffer, ring, block_buffer_planned, previous_nominal, f_override,
          step_control, prep, lowered>>

Slots == 0 .. BLOCK_BUFFER_SIZE - 1
Lesser(a, b) == IF a < b THEN a ELSE b
Sq(v) == v * v
Gap(a, b) == IF a < b THEN b - a ELSE a - b

\* A block as memset leaves it.
NoBlock == [motion |-> "feed", rate |-> 0, reach |-> 0, junction |-> 0,
            max_entry |-> 0, entry |-> 0]

-----------------------------------------------------------------------------
(* Ring arithmetic. *)

plan_next_block_index(i) == IF i + 1 = BLOCK_BUFFER_SIZE THEN 0 ELSE i + 1
plan_prev_block_index(i) == IF i = 0 THEN BLOCK_BUFFER_SIZE - 1 ELSE i - 1

\* The slot k places after slot i.
Ahead(i, k) == (i + k) % BLOCK_BUFFER_SIZE

plan_get_block_buffer_count ==
    IF block_buffer_head >= block_buffer_tail
    THEN block_buffer_head - block_buffer_tail
    ELSE BLOCK_BUFFER_SIZE - (block_buffer_tail - block_buffer_head)

\* Mutant: the free slot at the head is counted as available.
AvailableCountsHead ==
    IF block_buffer_head >= block_buffer_tail
    THEN BLOCK_BUFFER_SIZE - (block_buffer_head - block_buffer_tail)
    ELSE block_buffer_tail - block_buffer_head

plan_get_block_buffer_available ==
    IF block_buffer_head >= block_buffer_tail
    THEN (BLOCK_BUFFER_SIZE - 1) - (block_buffer_head - block_buffer_tail)
    ELSE block_buffer_tail - block_buffer_head - 1

\* Mutant: the buffer is never full.
NeverFull == FALSE

plan_check_full_buffer == block_buffer_tail = next_buffer_head
Empty == block_buffer_head = block_buffer_tail

\* The slots that hold queued blocks, and the k-th queued block.
Queued == IF block_buffer_tail <= block_buffer_head
          THEN {i \in Slots : block_buffer_tail <= i /\ i < block_buffer_head}
          ELSE {i \in Slots : block_buffer_tail <= i \/ i < block_buffer_head}
Nth(k) == block_buffer[Ahead(block_buffer_tail, k)]

\* Exit speed of the executing block: the entry speed of the one after it.
ExitOf(buffer, tail, head) ==
    LET next == plan_next_block_index(tail)
    IN  IF next = head THEN 0 ELSE buffer[next].entry

-----------------------------------------------------------------------------
(* Nominal speeds and the limit they put on a block's entry speed. *)

MINIMUM_FEED_RATE == 1
SOME_LARGE_VALUE == 1000

plan_compute_profile_nominal_speed(b, override) ==
    LET speed == IF b.motion = "rapid" THEN b.rate
                 ELSE Lesser((b.rate * override) \div 100, RapidRate)
    IN  IF speed > MINIMUM_FEED_RATE THEN speed ELSE MINIMUM_FEED_RATE

plan_compute_profile_parameters(b, nominal, previous) ==
    [b EXCEPT !.max_entry = Lesser(Sq(Lesser(nominal, previous)), b.junction)]

\* All queued blocks get new limits when the feed override changes; the first
\* has no predecessor and is limited by its own nominal speed only.
plan_update_velocity_profile_parameters(override) ==
    LET nominal(i) == plan_compute_profile_nominal_speed(block_buffer[i], override)
        previous(i) == IF i = block_buffer_tail THEN nominal(i)
                       ELSE nominal(plan_prev_block_index(i))
    IN  [i \in Slots |->
            IF i \in Queued
            THEN plan_compute_profile_parameters(block_buffer[i], nominal(i), previous(i))
            ELSE block_buffer[i]]

-----------------------------------------------------------------------------
(* planner_recalculate, for a buffer, its tail, head and planned pointer and   *)
(* the stepper's view p.  The result holds all that the call changes.          *)

\* Stepper::update_plan_block_parameters: the executing block (at the tail)
\* restarts from the speed reached, and the stepper will reload its profile.
Notified(buffer, tail, p) ==
    IF p.loaded THEN [buffer EXCEPT ![tail].entry = p.speed] ELSE buffer
Unloaded(p) == IF p.loaded THEN [p EXCEPT !.loaded = FALSE, !.recalculate = TRUE] ELSE p

\* The last block is planned to end at a standstill.
LastEntrySpeed(b) == Lesser(b.max_entry, b.reach)

\* Reverse pass: entry speeds of the n blocks back from slot last, each as high
\* as its limit and a deceleration to the next one allow.
ReverseSpeeds(buffer, last, n) ==
    LET b(j) == buffer[Ahead(last, BLOCK_BUFFER_SIZE - j)]
        rev[j \in 0 .. n - 1] ==
            IF j = 0 THEN LastEntrySpeed(b(0))
            ELSE IF b(j).entry = b(j).max_entry THEN b(j).entry
            ELSE Lesser(b(j).max_entry, rev[j - 1] + b(j).reach)
    IN  rev

ReversePass(buffer, last, n) ==
    LET rev == ReverseSpeeds(buffer, last, n)
        back(i) == Ahead(last, BLOCK_BUFFER_SIZE - i)  \* how far i is behind last
    IN  [i \in Slots |-> IF back(i) < n THEN [buffer[i] EXCEPT !.entry = rev[back(i)]]
                         ELSE buffer[i]]

\* Mutant: every block passed over is taken for an optimal breakpoint.
BreakAlways(b, entry) == TRUE

\* A block entered as fast as acceleration or its limit allow: nothing before it
\* can be improved by later blocks.
OptimalBreak(b, entry) == entry < b.entry \/ entry = b.max_entry

\* Forward pass over the n blocks that follow slot first: no entry speed above
\* what acceleration reaches; planned moves to the last optimal breakpoint.
ForwardSpeeds(buffer, first, n) ==
    LET b(k) == buffer[Ahead(first, k)]
        fwd[k \in 0 .. n] ==
            IF k = 0 THEN b(0).entry ELSE Lesser(fwd[k - 1] + b(k - 1).reach, b(k).entry)
    IN  fwd

ForwardPass(buffer, first, n) ==
    LET fwd == ForwardSpeeds(buffer, first, n)
        place(i) == Ahead(i, BLOCK_BUFFER_SIZE - first)  \* how far i is after first
        breaks == {k \in 1 .. n : OptimalBreak(buffer[Ahead(first, k)], fwd[k])}
    IN  [buffer  |-> [i \in Slots |-> IF place(i) <= n THEN [buffer[i] EXCEPT !.entry = fwd[place(i)]]
                                      ELSE buffer[i]],
         planned |-> IF breaks = {} THEN first
                     ELSE Ahead(first, CHOOSE k \in breaks : \A l \in breaks : l <= k)]

planner_recalculate(buffer, tail, head, planned, p) ==
    LET last == plan_prev_block_index(head)
        \* blocks between planned (excluded) and last (included)
        n == Ahead(last, BLOCK_BUFFER_SIZE - planned)
        reached == \/ n = 1 /\ planned = tail
                   \/ \E j \in 2 .. n : tail = Ahead(last, BLOCK_BUFFER_SIZE - j)
        noticed == IF reached THEN Notified(buffer, tail, p) ELSE buffer
        forward == ForwardPass(ReversePass(noticed, last, n), planned, n)
    IN  IF n = 0
        THEN [buffer |-> buffer, planned |-> planned, prep |-> p]
        ELSE [buffer |-> forward.buffer, planned |-> forward.planned,
              prep |-> IF reached THEN Unloaded(p) ELSE p]

-----------------------------------------------------------------------------
(* Initial state; the operations of the main program on the planner. *)

IdlePrep == [loaded |-> FALSE, recalculate |-> FALSE, override |-> FALSE,
             speed |-> 0, exit |-> 0, complete |-> 0]
NoControl == [executeHold |-> FALSE, endMotion |-> FALSE]

Init ==
    /\ block_buffer = [i \in Slots |-> NoBlock]
    /\ block_buffer_tail = 0
    /\ block_buffer_head = 0
    /\ next_buffer_head = 1
    /\ block_buffer_planned = 0
    /\ previous_nominal = 0
    /\ f_override = DefaultFeedOverride
    /\ step_control = NoControl
    /\ prep = IdlePrep
    /\ lowered = FALSE

\* plan_buffer_line for an ordinary motion; mc_line has waited for a free slot.
BufferLine(motion, rate, reach, junction) ==
    /\ ~plan_check_full_buffer
    /\ LET new == [motion |-> motion, reach |-> reach,
                   rate |-> IF motion = "rapid" THEN RapidRate ELSE rate,
                   junction |-> IF Empty THEN 0 ELSE junction,
                   max_entry |-> 0, entry |-> 0]
           nominal == plan_compute_profile_nominal_speed(new, f_override)
           buffer == [block_buffer EXCEPT ![block_buffer_head] =
                        plan_compute_profile_parameters(new, nominal, previous_nominal)]
           plan == planner_recalculate(buffer, block_buffer_tail, next_buffer_head,
                                       block_buffer_planned, prep)
       IN  /\ block_buffer' = plan.buffer
           /\ block_buffer_planned' = plan.planned
           /\ prep' = plan.prep
           /\ previous_nominal' = nominal
    /\ block_buffer_head' = next_buffer_head
    /\ next_buffer_head' = plan_next_block_index(next_buffer_head)
    /\ UNCHANGED <<block_buffer_tail, f_override, step_control, lowered>>

\* plan_buffer_line for homing (nothing queued) and parking (the motion is held):
\* the block goes into the free slot at the head, which does not move.
BufferSystemMotion(reach) ==
    /\ Empty \/ (step_control.endMotion /\ ~step_control.executeHold)
    /\ block_buffer' = [block_buffer EXCEPT ![block_buffer_head] =
                           [NoBlock EXCEPT !.rate = RapidRate, !.reach = reach]]
    /\ UNCHANGED <<ring, block_buffer_planned, previous_nominal, f_override,
                   step_control, prep, lowered>>

\* plan_cycle_reinitialize on a buffer: all is replanned from the tail on.
plan_cycle_reinitialize(buffer) ==
    LET plan == planner_recalculate(Notified(buffer, block_buffer_tail, prep),
                                    block_buffer_tail, block_buffer_head,
                                    block_buffer_tail, Unloaded(prep))
    IN  /\ block_buffer' = plan.buffer
        /\ block_buffer_planned' = plan.planned
        /\ prep' = plan.prep

\* protocol_execute_overrides: new limits for all blocks, then a new plan.
ExecuteOverrides(override) ==
    /\ override # f_override
    /\ f_override' = override
    /\ plan_cycle_reinitialize(plan_update_velocity_profile_parameters(override))
    /\ previous_nominal' =
          IF Empty THEN SOME_LARGE_VALUE
          ELSE plan_compute_profile_nominal_speed(
                  block_buffer[plan_prev_block_index(block_buffer_head)], override)
    /\ lowered' = (~Empty /\ (lowered \/ override < f_override))
    /\ UNCHANGED <<ring, step_control>>

\* protocol_start_holding: the stepper is told to decelerate to a stop.
StartHolding ==
    /\ step_control = NoControl
    /\ block_buffer' = Notified(block_buffer, block_buffer_tail, prep)
    /\ prep' = Unloaded(prep)
    /\ step_control' = [NoControl EXCEPT !.executeHold = TRUE]
    /\ UNCHANGED <<ring, block_buffer_planned, previous_nominal, f_override, lowered>>

\* protocol_do_cycle_stop in a hold: the steppers have stopped.
HoldComplete ==
    /\ step_control.executeHold
    /\ step_control.endMotion \/ (Empty /\ ~prep.loaded)
    /\ plan_cycle_reinitialize(block_buffer)
    /\ step_control' = [step_control EXCEPT !.executeHold = FALSE]
    /\ UNCHANGED <<ring, previous_nominal, f_override, lowered>>

\* protocol_do_initiate_cycle: step control returns to normal.
InitiateCycle ==
    /\ step_control.endMotion /\ ~step_control.executeHold
    /\ step_control' = NoControl
    /\ UNCHANGED <<block_buffer, ring, block_buffer_planned, previous_nominal,
                   f_override, prep, lowered>>

\* plan_reset and Stepper::reset, after an abort (which also restores the
\* default override), a probe or a cancelled jog.
Reset(override) ==
    /\ block_buffer_tail' = 0
    /\ block_buffer_head' = 0
    /\ next_buffer_head' = 1
    /\ block_buffer_planned' = 0
    /\ previous_nominal' = 0
    /\ f_override' = override
    /\ step_control' = NoControl
    /\ prep' = IdlePrep
    /\ block_buffer' = [i \in Slots |-> NoBlock]
    /\ lowered' = FALSE

-----------------------------------------------------------------------------
(* The segment generator, Stepper::prep_buffer, at the tail of the buffer. *)

NominalSqr(b) == Sq(plan_compute_profile_nominal_speed(b, f_override))

\* Mutant: the planned entry speed is taken even in the middle of a hold.
EntrySpeedAsPlanned(b) == b.entry

\* A new block taken up in a hold, or after one that only slowed down, starts
\* at the speed the previous block ended with, whatever was planned.
EntrySpeed(b) ==
    IF ~prep.recalculate /\ (step_control.executeHold \/ prep.override)
    THEN prep.exit ELSE b.entry

\* Less than a step remains to the point where the hold stops.
HoldEndsAt(b, entry) == step_control.executeHold /\ b.reach > entry /\ entry = 0

\* Take up the tail block, or its new parameters, and compute its profile: the
\* speed at its end, and the reach left where it ends (mm_complete).
LoadBlock ==
    /\ ~step_control.endMotion
    /\ ~prep.loaded /\ ~Empty
    /\ LET b == block_buffer[block_buffer_tail]
           entry == EntrySpeed(b)
           speed == IF prep.recalculate THEN prep.speed ELSE entry
           \* the whole block only decelerates towards a lowered nominal speed
           slowing == entry > NominalSqr(b) /\ b.reach <= entry - NominalSqr(b)
           stops == step_control.executeHold /\ b.reach > entry
           through == step_control.executeHold /\ b.reach <= entry
       IN  /\ prep' = [loaded      |-> TRUE,
                       recalculate |-> FALSE,
                       override    |-> ~step_control.executeHold /\ slowing,
                       speed       |-> speed,
                       exit        |-> IF stops THEN 0
                                       ELSE IF through \/ slowing THEN entry - b.reach
                                       ELSE ExitOf(block_buffer, block_buffer_tail, block_buffer_head),
                       complete    |-> IF stops THEN b.reach - entry ELSE 0]
           /\ block_buffer' = [block_buffer EXCEPT ![block_buffer_tail].entry = entry]
           /\ step_control' = [step_control EXCEPT !.endMotion = HoldEndsAt(b, entry)]
    /\ UNCHANGED <<ring, block_buffer_planned, previous_nominal, f_override, lowered>>

\* The speeds the profile may have reached when r of the tail block is left:
\* any that acceleration allows and that still lets it meet the exit speed,
\* or a pure ramp when the exit speed cannot be met.
ProfileSpeeds(r) ==
    LET b == block_buffer[block_buffer_tail]
        used == b.reach - r
        left == r - prep.complete
        top == NominalSqr(b)
    IN  IF prep.speed > prep.exit + (b.reach - prep.complete)
        THEN {prep.speed - used}
        ELSE IF prep.exit > prep.speed + b.reach THEN {prep.speed + used}
        ELSE {s \in 0 .. prep.speed + used :
                 /\ prep.speed <= s + used
                 /\ s <= prep.speed \/ s <= top \/ s <= prep.exit
                 /\ Gap(s, prep.exit) <= left}

\* Segments are generated from part of the tail block.
AdvanceBlock ==
    /\ ~step_control.endMotion
    /\ prep.loaded
    /\ \E r \in 1 .. block_buffer[block_buffer_tail].reach - 1 :
          /\ r >= prep.complete
          /\ block_buffer' = [block_buffer EXCEPT ![block_buffer_tail].reach = r]
          /\ \E s \in ProfileSpeeds(r) : prep' = [prep EXCEPT !.speed = s]
          /\ step_control' = [step_control EXCEPT !.endMotion = (r = prep.complete)]
    /\ UNCHANGED <<ring, block_buffer_planned, previous_nominal, f_override, lowered>>

\* plan_discard_current_block pushes the planned pointer, if encountered.
PlannedAfterDiscard ==
    IF block_buffer_tail = block_buffer_planned
    THEN plan_next_block_index(block_buffer_tail) ELSE block_buffer_planned

\* The rest of the tail block is turned into segments and the block discarded
\* (plan_discard_current_block): the speed is now what the profile ends with.
FinishBlock ==
    /\ ~step_control.endMotion
    /\ prep.loaded /\ prep.complete = 0
    /\ prep' = [prep EXCEPT !.loaded = FALSE, !.speed = prep.exit]
    /\ block_buffer' = [block_buffer EXCEPT ![block_buffer_tail] = NoBlock]
    /\ block_buffer_tail' = plan_next_block_index(block_buffer_tail)
    /\ block_buffer_planned' = PlannedAfterDiscard
    /\ lowered' = (lowered /\ block_buffer_tail' # block_buffer_head)
    /\ UNCHANGED <<block_buffer_head, next_buffer_head, previous_nominal,
                   f_override, step_control>>

-----------------------------------------------------------------------------
Next ==
    \/ \E m \in Motions, v \in Rates, r \in Reaches, j \in Junctions : BufferLine(m, v, r, j)
    \/ \E r \in SystemReaches : BufferSystemMotion(r)
    \/ \E o \in FeedOverrides : ExecuteOverrides(o)
    \/ StartHolding
    \/ HoldComplete
    \/ InitiateCycle
    \/ \E o \in {f_override, DefaultFeedOverride} : Reset(o)
    \/ LoadBlock
    \/ AdvanceBlock
    \/ FinishBlock

Spec == Init /\ [][Next]_vars
=============================================================================
