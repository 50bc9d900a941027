---------------------------- MODULE PlannerProofs ----------------------------
(***************************************************************************)
(* The ring of the planner is consistent and implements a queue, its plan  *)
(* is always feasible and optimal, and the speed is continuous, for every  *)
(* size of the buffer and every set of motions, lengths, speeds and        *)
(* overrides.                                                              *)
(***************************************************************************)
EXTENDS PlannerProperties, Integers, WellFoundedInduction, TLAPS

-----------------------------------------------------------------------------
(* Induction and recursion over the natural numbers, for sets instead of *)
(* predicates: both follow from the order of the naturals being          *)
(* well-founded.                                                         *)

\* Every nonempty set of naturals has a smallest element.
LEMMA LeastElement ==
    ASSUME NEW T, T \subseteq Nat, T # {}
    PROVE  \E x \in T : \A y \in T : x <= y
<1>1. PICK x \in T : \A y \in T : ~(<<y, x>> \in OpToRel(<, Nat))
  BY NatLessThanWellFounded, WFMin
<1>2. \A y \in T : y < x => <<y, x>> \in OpToRel(<, Nat)
  BY DEF OpToRel
<1>3. \A y \in T : ~(y < x)
  BY <1>1, <1>2
<1> QED
  BY <1>3

\* Every nonempty set of naturals that is bounded has a greatest element.
LEMMA GreatestElement ==
    ASSUME NEW n \in Nat, NEW T, T \subseteq 0 .. n, T # {}
    PROVE  \E x \in T : \A y \in T : y <= x
<1> DEFINE U == {m \in Nat : \A y \in T : y <= m}
<1>1. n \in U /\ U \subseteq Nat
  OBVIOUS
<1>2. PICK x \in U : \A y \in U : x <= y
  <2> HIDE DEF U
  <2> QED
    BY <1>1, LeastElement
<1>3. x \in T
  <2> SUFFICES ASSUME x \notin T
               PROVE  FALSE
    OBVIOUS
  <2>1. PICK z \in T : z \in 0 .. n
    OBVIOUS
  <2>2. \A y \in T : y \in Nat /\ y < x
    BY <1>2
  <2>3. x - 1 \in Nat /\ x - 1 < x
    BY <2>1, <2>2
  <2>4. x - 1 \in U
    BY <2>2, <2>3
  <2>5. x <= x - 1
    <3> HIDE DEF U
    <3> QED
      BY <1>2, <2>4
  <2> QED
    BY <2>3, <2>5
<1> QED
  BY <1>2, <1>3

\* A set that holds zero, and the successor of each of its naturals, holds all.
LEMMA SetInduction ==
    ASSUME NEW S, 0 \in S, \A k \in Nat : k \in S => k + 1 \in S
    PROVE  Nat \subseteq S
<1> SUFFICES ASSUME Nat \ S # {}
             PROVE  FALSE
  OBVIOUS
<1>1. PICK x \in Nat \ S : \A y \in Nat \ S : x <= y
  BY LeastElement
<1>2. x # 0 /\ x - 1 \in Nat /\ x - 1 < x
  OBVIOUS
<1>3. x - 1 \in S
  BY <1>1, <1>2
<1> QED
  BY <1>1, <1>2, <1>3

\* The same up to a bound.
LEMMA BoundedInduction ==
    ASSUME NEW n \in Nat, NEW S, 0 \in S, \A k \in 1 .. n : k - 1 \in S => k \in S
    PROVE  0 .. n \subseteq S
<1> DEFINE T == {k \in Nat : k <= n => k \in S}
<1>1. 0 \in T
  OBVIOUS
<1>2. ASSUME NEW k \in Nat, k \in T
      PROVE  k + 1 \in T
  <2> SUFFICES ASSUME k + 1 <= n
               PROVE  k + 1 \in S
    OBVIOUS
  <2>1. k \in S /\ k + 1 \in 1 .. n /\ (k + 1) - 1 = k
    BY <1>2
  <2> QED
    BY <2>1
<1>3. Nat \subseteq T
  <2> HIDE DEF T
  <2> QED
    BY <1>1, <1>2, SetInduction
<1> QED
  BY <1>3

\* What holds of the first value of a function, and of each that follows one it
\* holds of, holds of all.
LEMMA ValuesInduction ==
    ASSUME NEW n \in Nat, NEW V, NEW f, f[0] \in V,
           \A k \in 1 .. n : f[k - 1] \in V => f[k] \in V
    PROVE  \A k \in 0 .. n : f[k] \in V
<1> DEFINE S == {k \in 0 .. n : f[k] \in V}
<1>1. 0 \in S
  OBVIOUS
<1>2. ASSUME NEW k \in 1 .. n, k - 1 \in S
      PROVE  k \in S
  BY <1>2
<1>3. 0 .. n \subseteq S
  <2> HIDE DEF S
  <2> QED
    BY <1>1, <1>2, BoundedInduction
<1> QED
  BY <1>3

\* A function on 0 .. n can be defined by its first value and by what a value
\* makes of the one before it.
Unrolled(n, V, a, g, f) ==
    f \in [0 .. n -> V] /\ f[0] = a /\ \A k \in 1 .. n : f[k] = g[k][f[k - 1]]

LEMMA NatRecursion ==
    ASSUME NEW n \in Nat, NEW V, NEW a \in V, NEW g \in [1 .. n -> [V -> V]]
    PROVE  \E f : Unrolled(n, V, a, g, f)
<1> DEFINE Upto(m, f) == f[0] = a /\ \A k \in 1 .. m : f[k] = g[k][f[k - 1]]
           S == {m \in Nat : \E f \in [0 .. m -> V] : Upto(m, f)}
<1>1. 0 \in S
  <2> DEFINE f0 == [k \in 0 .. 0 |-> a]
  <2>1. f0 \in [0 .. 0 -> V] /\ Upto(0, f0)
    OBVIOUS
  <2> QED
    BY <2>1
<1>2. ASSUME NEW m \in 1 .. n, m - 1 \in S
      PROVE  m \in S
  <2>1. PICK f \in [0 .. m - 1 -> V] : Upto(m - 1, f)
    BY <1>2
  <2>2. g[m][f[m - 1]] \in V
    OBVIOUS
  <2> DEFINE e == [k \in 0 .. m |-> IF k = m THEN g[m][f[m - 1]] ELSE f[k]]
  <2>3. e \in [0 .. m -> V]
    BY <2>2
  <2>4. \A k \in 0 .. m - 1 : e[k] = f[k]
    OBVIOUS
  <2>5. e[m] = g[m][e[m - 1]] /\ e[0] = a
    BY <2>1, <2>4
  <2>6. ASSUME NEW k \in 1 .. m
        PROVE  e[k] = g[k][e[k - 1]]
    <3> HIDE DEF e
    <3>1. CASE k = m
      BY <3>1, <2>5
    <3>2. CASE k # m
      <4>1. k \in 1 .. m - 1 /\ k \in 0 .. m - 1 /\ k - 1 \in 0 .. m - 1
        BY <3>2
      <4> QED
        BY <4>1, <2>1, <2>4
    <3> QED
      BY <3>1, <3>2
  <2> HIDE DEF e
  <2> QED
    BY <2>3, <2>5, <2>6
<1>3. n \in S
  <2> HIDE DEF S
  <2>1. 0 .. n \subseteq S
    BY <1>1, <1>2, BoundedInduction
  <2> QED
    BY <2>1
<1> QED
  BY <1>3 DEF Unrolled

-----------------------------------------------------------------------------
(* The index arithmetic of the ring. *)

\* The next index of a slot is a slot again, and another one.
LEMMA NextSlot ==
    ASSUME NEW i \in Slots
    PROVE  plan_next_block_index(i) \in Slots /\ plan_next_block_index(i) # i
BY RingAssumption DEF plan_next_block_index, Slots

\* The two counts are complementary wherever head and tail stand, and no slot is
\* available exactly when the tail follows the head.
LEMMA Counts ==
    ASSUME block_buffer_tail \in Slots, block_buffer_head \in Slots,
           next_buffer_head = plan_next_block_index(block_buffer_head)
    PROVE  /\ Count + plan_get_block_buffer_available = BLOCK_BUFFER_SIZE - 1
           /\ plan_check_full_buffer <=> plan_get_block_buffer_available = 0
BY RingAssumption
   DEF plan_next_block_index, Slots, Count, plan_get_block_buffer_count,
       plan_get_block_buffer_available, plan_check_full_buffer

-----------------------------------------------------------------------------
(* What the planning passes do to the stepper's view of its block. *)

\* A new plan leaves the stepper's view as it is or invalidates it.
LEMMA RecalculatedPrep ==
    ASSUME NEW buffer, NEW tail, NEW head, NEW planned, NEW p
    PROVE  planner_recalculate(buffer, tail, head, planned, p).prep \in {p, Unloaded(p)}
BY DEF planner_recalculate

\* The shape of the stepper's view.
IsPrep(p) ==
    /\ p = [loaded |-> p.loaded, recalculate |-> p.recalculate, override |-> p.override,
            speed |-> p.speed, exit |-> p.exit, complete |-> p.complete]
    /\ p.loaded \in BOOLEAN

\* An invalidated view is not loaded, and a new plan never loads one.
LEMMA UnloadedPrep ==
    ASSUME NEW p, IsPrep(p)
    PROVE  IsPrep(Unloaded(p)) /\ ~Unloaded(p).loaded
BY DEF Unloaded, IsPrep

LEMMA RecalculatedLoaded ==
    ASSUME NEW buffer, NEW tail, NEW head, NEW planned, NEW p, IsPrep(p),
           NEW q, q = planner_recalculate(buffer, tail, head, planned, p).prep
    PROVE  IsPrep(q) /\ (q.loaded => p.loaded)
BY RecalculatedPrep, UnloadedPrep

-----------------------------------------------------------------------------
(* The inductive invariant. *)

\* Indices are slots, and the stepper's view is a record.
RingTypes ==
    /\ block_buffer_tail \in Slots /\ block_buffer_head \in Slots
    /\ next_buffer_head \in Slots
    /\ IsPrep(prep)

\* What the counts and the test for a full buffer follow from.
RingInv ==
    /\ RingTypes
    /\ next_buffer_head = plan_next_block_index(block_buffer_head)
    /\ prep.loaded => ~Empty

LEMMA RingInvImpliesConsistent == RingInv => RingConsistent
BY Counts DEF RingInv, RingTypes, RingConsistent

LEMMA InitRing == Init => RingInv
<1>1. 0 \in Slots /\ 1 \in Slots /\ plan_next_block_index(0) = 1
  BY RingAssumption DEF Slots, plan_next_block_index
<1> QED
  BY <1>1 DEF Init, RingInv, RingTypes, IsPrep, IdlePrep

-----------------------------------------------------------------------------
(* The invariant is preserved by every step. *)

\* A step that leaves the ring alone and loads nothing, or loads from a queue
\* that is not empty.
LEMMA SameRing ==
    ASSUME RingInv, UNCHANGED ring, IsPrep(prep'),
           prep'.loaded => prep.loaded \/ ~Empty
    PROVE  RingInv'
BY DEF RingInv, RingTypes, ring, Empty, plan_next_block_index

\* A full replanning keeps the stepper's view in shape and loads nothing.
LEMMA Reinitialized ==
    ASSUME RingInv, NEW buffer, plan_cycle_reinitialize(buffer)
    PROVE  IsPrep(prep') /\ (prep'.loaded => prep.loaded)
<1>1. IsPrep(Unloaded(prep)) /\ ~Unloaded(prep).loaded
  BY UnloadedPrep DEF RingInv, RingTypes
<1>2. PICK b : prep' = planner_recalculate(b, block_buffer_tail, block_buffer_head,
                                           block_buffer_tail, Unloaded(prep)).prep
  BY DEF plan_cycle_reinitialize
<1> QED
  BY <1>1, <1>2, RecalculatedLoaded

\* A block goes into a slot only if another one stays free: the head does not
\* catch up with the tail.
LEMMA BufferLineRing ==
    ASSUME RingInv, NEW motion, NEW rate, NEW reach, NEW junction,
           BufferLine(motion, rate, reach, junction)
    PROVE  RingInv'
<1>1. PICK b : prep' = planner_recalculate(b, block_buffer_tail, next_buffer_head,
                                           block_buffer_planned, prep).prep
  BY DEF BufferLine
<1>2. IsPrep(prep')
  BY <1>1, RecalculatedLoaded DEF RingInv, RingTypes
<1>3. /\ block_buffer_tail' = block_buffer_tail
      /\ block_buffer_head' = next_buffer_head
      /\ next_buffer_head' = plan_next_block_index(next_buffer_head)
      /\ block_buffer_tail # next_buffer_head
  BY DEF BufferLine, plan_check_full_buffer
<1>4. next_buffer_head' \in Slots
  BY <1>3, NextSlot DEF RingInv, RingTypes
<1> QED
  BY <1>2, <1>3, <1>4 DEF RingInv, RingTypes, Empty, plan_next_block_index, Slots

\* A finished block leaves the ring at the tail, and no block is loaded then.
LEMMA FinishBlockRing ==
    ASSUME RingInv, FinishBlock
    PROVE  RingInv'
<1>1. block_buffer_tail' \in Slots
  BY NextSlot DEF FinishBlock, RingInv, RingTypes
<1>2. IsPrep(prep') /\ ~prep'.loaded
  BY DEF FinishBlock, RingInv, RingTypes, IsPrep
<1> QED
  BY <1>1, <1>2 DEF FinishBlock, RingInv, RingTypes, Empty, plan_next_block_index, Slots

\* A reset empties the ring and drops the stepper's view.
LEMMA ResetRing ==
    ASSUME NEW override, Reset(override)
    PROVE  RingInv'
<1>1. 0 \in Slots /\ 1 \in Slots /\ plan_next_block_index(0) = 1
  BY RingAssumption DEF Slots, plan_next_block_index
<1> QED
  BY <1>1 DEF Reset, RingInv, RingTypes, IsPrep, IdlePrep, Slots, plan_next_block_index

LEMMA NextRing == RingInv /\ [Next]_vars => RingInv'
<1> SUFFICES ASSUME RingInv, [Next]_vars
             PROVE  RingInv'
  OBVIOUS
<1> USE DEF RingInv, RingTypes
<1>1. ASSUME NEW m \in Motions, NEW v \in Rates, NEW r \in Reaches, NEW j \in Junctions,
             BufferLine(m, v, r, j)
      PROVE  RingInv'
  BY <1>1, BufferLineRing
<1>2. ASSUME NEW r \in SystemReaches, BufferSystemMotion(r)
      PROVE  RingInv'
  BY <1>2, SameRing DEF BufferSystemMotion
<1>3. ASSUME NEW o \in FeedOverrides, ExecuteOverrides(o)
      PROVE  RingInv'
  <2>1. plan_cycle_reinitialize(plan_update_velocity_profile_parameters(o)) /\ UNCHANGED ring
    BY <1>3 DEF ExecuteOverrides
  <2> QED
    BY <2>1, Reinitialized, SameRing
<1>4. CASE StartHolding
  BY <1>4, SameRing, UnloadedPrep DEF StartHolding
<1>5. CASE HoldComplete
  <2>1. plan_cycle_reinitialize(block_buffer) /\ UNCHANGED ring
    BY <1>5 DEF HoldComplete
  <2> QED
    BY <2>1, Reinitialized, SameRing
<1>6. CASE InitiateCycle
  BY <1>6, SameRing DEF InitiateCycle
<1>7. ASSUME NEW o \in {f_override, DefaultFeedOverride}, Reset(o)
      PROVE  RingInv'
  BY <1>7, ResetRing
<1>8. CASE LoadBlock
  <2>1. IsPrep(prep') /\ ~Empty /\ UNCHANGED ring
    BY <1>8 DEF LoadBlock, IsPrep, EntrySpeed
  <2> QED
    BY <2>1, SameRing
<1>9. CASE AdvanceBlock
  <2>1. PICK s : prep' = [prep EXCEPT !.speed = s]
    BY <1>9 DEF AdvanceBlock
  <2>2. IsPrep(prep') /\ (prep'.loaded => prep.loaded)
    BY <2>1 DEF IsPrep
  <2> QED
    BY <1>9, <2>2, SameRing DEF AdvanceBlock
<1>10. CASE FinishBlock
  BY <1>10, FinishBlockRing
<1>11. CASE UNCHANGED vars
  BY <1>11, SameRing DEF vars
<1> QED
  BY <1>1, <1>2, <1>3, <1>4, <1>5, <1>6, <1>7, <1>8, <1>9, <1>10, <1>11 DEF Next

-----------------------------------------------------------------------------

\* The ring of plan_get_block_buffer_count, plan_get_block_buffer_available and
\* plan_check_full_buffer is consistent in every reachable state, and the stepper
\* works on a queued block, for every size of the buffer.
THEOREM RingAlwaysConsistent == Spec => []RingConsistent
<1>1. Init => RingInv
  BY InitRing
<1>2. RingInv /\ [Next]_vars => RingInv'
  BY NextRing
<1>3. RingInv => RingConsistent
  BY RingInvImpliesConsistent
<1> QED
  BY <1>1, <1>2, <1>3, PTL DEF Spec
-----------------------------------------------------------------------------
(* Types of all that is planned. *)

Blocks == [motion : {"feed", "rapid"}, rate : Nat, reach : Nat, junction : Nat,
           max_entry : Nat, entry : Nat]
Buffers == [Slots -> Blocks]
Preps == [loaded : BOOLEAN, recalculate : BOOLEAN, override : BOOLEAN,
          speed : Nat, exit : Nat, complete : Nat]

\* Walking k places from a slot wraps at most once.
LEMMA AheadSlot ==
    ASSUME NEW i \in Slots, NEW k \in 0 .. BLOCK_BUFFER_SIZE
    PROVE  /\ Ahead(i, k) = IF i + k < BLOCK_BUFFER_SIZE THEN i + k ELSE i + k - BLOCK_BUFFER_SIZE
           /\ Ahead(i, k) \in Slots
<1>1. BLOCK_BUFFER_SIZE \in Nat /\ BLOCK_BUFFER_SIZE > 1 /\ i \in 0 .. BLOCK_BUFFER_SIZE - 1
  BY RingAssumption DEF Slots
<1>2. Ahead(i, k) = IF i + k < BLOCK_BUFFER_SIZE THEN i + k ELSE i + k - BLOCK_BUFFER_SIZE
  BY <1>1 DEF Ahead
<1> QED
  BY <1>1, <1>2 DEF Slots

\* The forward pass is defined for every buffer, and plans natural speeds.
LEMMA ForwardSpeedsDefined ==
    ASSUME NEW buffer \in Buffers, NEW first \in Slots, NEW n \in 0 .. BLOCK_BUFFER_SIZE - 1,
           NEW fwd, fwd = ForwardSpeeds(buffer, first, n)
    PROVE  /\ fwd \in [0 .. n -> Nat]
           /\ fwd[0] = buffer[Ahead(first, 0)].entry
           /\ \A k \in 1 .. n :
                fwd[k] = Lesser(fwd[k - 1] + buffer[Ahead(first, k - 1)].reach,
                                buffer[Ahead(first, k)].entry)
<1> DEFINE a == buffer[Ahead(first, 0)].entry
           reach(k) == buffer[Ahead(first, k - 1)].reach
           entry(k) == buffer[Ahead(first, k)].entry
           g == [k \in 1 .. n |-> [v \in Nat |-> Lesser(v + reach(k), entry(k))]]
           F(f) == f = [k \in 0 .. n |->
                          IF k = 0 THEN a ELSE Lesser(f[k - 1] + reach(k), entry(k))]
<1>1. n \in Nat /\ a \in Nat /\ \A k \in 1 .. n : reach(k) \in Nat /\ entry(k) \in Nat
  <2>1. \A k \in 0 .. n : buffer[Ahead(first, k)] \in Blocks
    BY AheadSlot, RingAssumption DEF Buffers
  <2>2. n \in Nat /\ \A k \in 1 .. n : k \in 0 .. n /\ k - 1 \in 0 .. n /\ 0 \in 0 .. n
    BY RingAssumption
  <2> QED
    BY <2>1, <2>2 DEF Blocks
<1> HIDE DEF a, reach, entry
<1>2. g \in [1 .. n -> [Nat -> Nat]]
  BY <1>1 DEF Lesser
<1>3. PICK f : Unrolled(n, Nat, a, g, f)
  <2>1. n \in Nat
    BY <1>1
  <2>2. a \in Nat
    BY <1>1
  <2> HIDE DEF g
  <2> QED
    BY <2>1, <2>2, <1>2, NatRecursion
<1>4. F(f)
  <2>1. ASSUME NEW k \in 1 .. n
        PROVE  f[k] = Lesser(f[k - 1] + reach(k), entry(k))
    <3>1. f[k] = g[k][f[k - 1]]
      <4> HIDE DEF g
      <4> QED
        BY <1>3 DEF Unrolled
    <3>3. f[k - 1] \in Nat
      BY <1>1, <1>3 DEF Unrolled
    <3>2. \A v \in Nat : g[k][v] = Lesser(v + reach(k), entry(k))
      OBVIOUS
    <3> HIDE DEF g
    <3> QED
      BY <3>1, <3>2, <3>3
  <2>2. \A k \in 0 .. n : f[k] = IF k = 0 THEN a ELSE Lesser(f[k - 1] + reach(k), entry(k))
    BY <1>1, <1>3, <2>1 DEF Unrolled
  <2> QED
    BY <1>3, <2>2 DEF Unrolled
<1>5. fwd = CHOOSE x : F(x)
  BY DEF ForwardSpeeds, a, reach, entry
<1>6. F(fwd)
  <2> HIDE DEF F
  <2> QED
    BY <1>4, <1>5
<1>7. /\ fwd[0] = a /\ DOMAIN fwd = 0 .. n /\ fwd = [k \in 0 .. n |-> fwd[k]]
      /\ \A k \in 1 .. n : fwd[k] = Lesser(fwd[k - 1] + reach(k), entry(k))
  BY <1>1, <1>6
<1>8. \A k \in 0 .. n : fwd[k] \in Nat
  <2>1. \A k \in 1 .. n : fwd[k - 1] \in Nat => fwd[k] \in Nat
    <3> SUFFICES ASSUME NEW k \in 1 .. n, fwd[k - 1] \in Nat
                 PROVE  fwd[k] \in Nat
      OBVIOUS
    <3>1. fwd[k] = Lesser(fwd[k - 1] + reach(k), entry(k)) /\ reach(k) \in Nat /\ entry(k) \in Nat
      BY <1>1, <1>7
    <3> QED
      BY <3>1 DEF Lesser
  <2> HIDE DEF F
  <2> QED
    BY <1>1, <1>7, <2>1, ValuesInduction
<1> QED
  BY <1>7, <1>8 DEF a, reach, entry

\* The block j places before a slot.
Behind(buffer, last, j) == buffer[Ahead(last, BLOCK_BUFFER_SIZE - j)]

\* The reverse pass likewise.
LEMMA ReverseSpeedsDefined ==
    ASSUME NEW buffer \in Buffers, NEW last \in Slots, NEW n \in 1 .. BLOCK_BUFFER_SIZE - 1,
           NEW rev, rev = ReverseSpeeds(buffer, last, n)
    PROVE  /\ rev \in [0 .. n - 1 -> Nat]
           /\ rev[0] = LastEntrySpeed(Behind(buffer, last, 0))
           /\ \A j \in 1 .. n - 1 :
                LET b == Behind(buffer, last, j)
                IN  rev[j] = IF b.entry = b.max_entry THEN b.entry
                             ELSE Lesser(b.max_entry, rev[j - 1] + b.reach)
<1> DEFINE b(j) == buffer[Ahead(last, BLOCK_BUFFER_SIZE - j)]
           a == LastEntrySpeed(b(0))
           H(j, v) == IF b(j).entry = b(j).max_entry THEN b(j).entry
                      ELSE Lesser(b(j).max_entry, v + b(j).reach)
           g == [j \in 1 .. n - 1 |-> [v \in Nat |-> H(j, v)]]
           F(f) == f = [j \in 0 .. n - 1 |-> IF j = 0 THEN a ELSE H(j, f[j - 1])]
<1>1. n - 1 \in Nat /\ 0 \in 0 .. n - 1 /\ \A j \in 1 .. n - 1 : j \in 0 .. n - 1 /\ j - 1 \in 0 .. n - 1
  BY RingAssumption
<1>2. \A j \in 0 .. n - 1 : b(j) \in Blocks
  <2> SUFFICES ASSUME NEW j \in 0 .. n - 1
               PROVE  buffer[Ahead(last, BLOCK_BUFFER_SIZE - j)] \in Blocks
    OBVIOUS
  <2>1. BLOCK_BUFFER_SIZE - j \in 0 .. BLOCK_BUFFER_SIZE
    BY RingAssumption
  <2> QED
    BY <2>1, AheadSlot DEF Buffers
<1>3. a \in Nat
  BY <1>1, <1>2 DEF Blocks, LastEntrySpeed, Lesser
<1>4. \A j \in 1 .. n - 1 : \A v \in Nat : H(j, v) \in Nat
  BY <1>1, <1>2 DEF Blocks, Lesser
<1>6. rev = CHOOSE x : F(x)
  BY DEF ReverseSpeeds
<1> HIDE DEF a, b, H
<1>7. g \in [1 .. n - 1 -> [Nat -> Nat]]
  BY <1>4
<1>8. PICK f : Unrolled(n - 1, Nat, a, g, f)
  <2>1. n - 1 \in Nat
    BY <1>1
  <2> HIDE DEF g
  <2> QED
    BY <2>1, <1>3, <1>7, NatRecursion
<1>9. F(f)
  <2>1. ASSUME NEW j \in 1 .. n - 1
        PROVE  f[j] = H(j, f[j - 1])
    <3>1. f[j] = g[j][f[j - 1]]
      <4> HIDE DEF g
      <4> QED
        BY <1>8 DEF Unrolled
    <3>2. \A v \in Nat : g[j][v] = H(j, v)
      OBVIOUS
    <3>3. f[j - 1] \in Nat
      BY <1>1, <1>8 DEF Unrolled
    <3> HIDE DEF g
    <3> QED
      BY <3>1, <3>2, <3>3
  <2>2. \A j \in 0 .. n - 1 : f[j] = IF j = 0 THEN a ELSE H(j, f[j - 1])
    BY <1>1, <1>8, <2>1 DEF Unrolled
  <2> QED
    BY <1>8, <2>2 DEF Unrolled
<1>10. F(rev)
  <2> HIDE DEF F
  <2> QED
    BY <1>6, <1>9
<1>11. /\ rev[0] = a /\ rev = [j \in 0 .. n - 1 |-> rev[j]]
       /\ \A j \in 1 .. n - 1 : rev[j] = H(j, rev[j - 1])
  BY <1>1, <1>10
<1>12. \A j \in 0 .. n - 1 : rev[j] \in Nat
  <2>1. n - 1 \in Nat /\ rev[0] \in Nat /\ \A j \in 1 .. n - 1 : rev[j - 1] \in Nat => rev[j] \in Nat
    BY <1>1, <1>3, <1>4, <1>11 DEF H, b
  <2> HIDE DEF F
  <2> QED
    BY <2>1, ValuesInduction
<1> QED
  BY <1>11, <1>12 DEF a, b, H, Behind

\* A buffer in which only entry speeds have been planned anew.
Replanned(b, c) ==
    /\ c \in Buffers
    /\ \A i \in Slots : c[i] = [b[i] EXCEPT !.entry = c[i].entry]

LEMMA ReplannedTwice ==
    ASSUME NEW b \in Buffers, NEW c, NEW d, Replanned(b, c), Replanned(c, d)
    PROVE  Replanned(b, d)
<1>1. ASSUME NEW i \in Slots
      PROVE  d[i] = [b[i] EXCEPT !.entry = d[i].entry]
  <2>1. b[i] \in Blocks /\ c[i] = [b[i] EXCEPT !.entry = c[i].entry]
        /\ d[i] = [c[i] EXCEPT !.entry = d[i].entry]
    BY DEF Replanned, Buffers
  <2> QED
    BY <2>1 DEF Blocks
<1> QED
  BY <1>1 DEF Replanned

LEMMA ReplannedOne ==
    ASSUME NEW b \in Buffers, NEW i \in Slots, NEW v \in Nat
    PROVE  Replanned(b, [b EXCEPT ![i].entry = v])
<1>1. b[i] \in Blocks
  BY DEF Buffers
<1>2. [b[i] EXCEPT !.entry = v] \in Blocks
  BY <1>1 DEF Blocks
<1> DEFINE c == [b EXCEPT ![i].entry = v]
<1>3. c \in Buffers
  BY <1>2 DEF Buffers
<1>4. ASSUME NEW j \in Slots
      PROVE  c[j] = [b[j] EXCEPT !.entry = c[j].entry]
  <2>1. b[j] \in Blocks
    BY DEF Buffers
  <2>2. c[j] = b[j] \/ c[j] = [b[j] EXCEPT !.entry = v]
    BY DEF Buffers
  <2> QED
    BY <2>1, <2>2 DEF Blocks
<1> QED
  BY <1>3, <1>4 DEF Replanned

\* A pass that plans some of the slots.
LEMMA ReplannedSome ==
    ASSUME NEW b \in Buffers, NEW D, NEW s, \A i \in Slots : i \in D => s[i] \in Nat,
           NEW c, c = [i \in Slots |-> IF i \in D THEN [b[i] EXCEPT !.entry = s[i]] ELSE b[i]]
    PROVE  Replanned(b, c)
<1>1. \A i \in Slots : b[i] \in Blocks
  BY DEF Buffers
<1>2. ASSUME NEW i \in Slots
      PROVE  c[i] \in Blocks /\ c[i] = [b[i] EXCEPT !.entry = c[i].entry]
  <2>1. CASE i \in D
    <3>1. c[i] = [b[i] EXCEPT !.entry = s[i]] /\ s[i] \in Nat
      BY <2>1
    <3> QED
      BY <3>1, <1>1 DEF Blocks
  <2>2. CASE i \notin D
    <3>1. c[i] = b[i]
      BY <2>2
    <3> QED
      BY <3>1, <1>1 DEF Blocks
  <2> QED
    BY <2>1, <2>2
<1> QED
  BY <1>2 DEF Replanned, Buffers

LEMMA ReversePassReplans ==
    ASSUME NEW b \in Buffers, NEW last \in Slots, NEW n \in 1 .. BLOCK_BUFFER_SIZE - 1
    PROVE  Replanned(b, ReversePass(b, last, n))
<1> DEFINE rev == ReverseSpeeds(b, last, n)
           back(i) == Ahead(last, BLOCK_BUFFER_SIZE - i)
           D == {i \in Slots : back(i) < n}
           s == [i \in Slots |-> rev[back(i)]]
           c == [i \in Slots |-> IF i \in D THEN [b[i] EXCEPT !.entry = s[i]] ELSE b[i]]
<1>1. rev \in [0 .. n - 1 -> Nat]
  BY ReverseSpeedsDefined
<1>2. \A i \in Slots : i \in D => s[i] \in Nat
  <2> SUFFICES ASSUME NEW i \in Slots, back(i) < n
               PROVE  rev[back(i)] \in Nat
    OBVIOUS
  <2>1. BLOCK_BUFFER_SIZE - i \in 0 .. BLOCK_BUFFER_SIZE
    BY RingAssumption DEF Slots
  <2>2. back(i) \in Slots
    BY <2>1, AheadSlot
  <2>3. back(i) \in 0 .. n - 1
    BY <2>2, RingAssumption DEF Slots
  <2> HIDE DEF rev, back
  <2> QED
    BY <1>1, <2>3
<1>3. ReversePass(b, last, n) = c
  BY DEF ReversePass
<1> QED
  <2> HIDE DEF c, D, s
  <2>1. Replanned(b, c)
    BY <1>2, ReplannedSome DEF c
  <2> QED
    BY <2>1, <1>3

LEMMA ForwardPassReplans ==
    ASSUME NEW b \in Buffers, NEW first \in Slots, NEW n \in 0 .. BLOCK_BUFFER_SIZE - 1,
           NEW f, f = ForwardPass(b, first, n)
    PROVE  Replanned(b, f.buffer) /\ f.planned \in Slots
<1> DEFINE fwd == ForwardSpeeds(b, first, n)
           place(i) == Ahead(i, BLOCK_BUFFER_SIZE - first)
           D == {i \in Slots : place(i) <= n}
           s == [i \in Slots |-> fwd[place(i)]]
           c == [i \in Slots |-> IF i \in D THEN [b[i] EXCEPT !.entry = s[i]] ELSE b[i]]
<1>1. fwd \in [0 .. n -> Nat]
  BY ForwardSpeedsDefined
<1>2. \A i \in Slots : i \in D => s[i] \in Nat
  <2> SUFFICES ASSUME NEW i \in Slots, place(i) <= n
               PROVE  fwd[place(i)] \in Nat
    OBVIOUS
  <2>1. BLOCK_BUFFER_SIZE - first \in 0 .. BLOCK_BUFFER_SIZE
    BY RingAssumption DEF Slots
  <2>2. place(i) \in Slots
    BY <2>1, AheadSlot
  <2>3. place(i) \in 0 .. n
    BY <2>2, RingAssumption DEF Slots
  <2> HIDE DEF fwd, place
  <2> QED
    BY <1>1, <2>3
<1>3. f.buffer = c
  BY DEF ForwardPass
<1>4. Replanned(b, c)
  <2> HIDE DEF D, s
  <2> QED
    BY <1>2, ReplannedSome
<1>5. f.planned \in Slots
  <2> DEFINE breaks == {k \in 1 .. n : OptimalBreak(b[Ahead(first, k)], fwd[k])}
             k0 == CHOOSE k \in breaks : \A l \in breaks : l <= k
  <2>1. f.planned = IF breaks = {} THEN first ELSE Ahead(first, k0)
    BY DEF ForwardPass
  <2>2. CASE breaks = {}
    BY <2>1, <2>2
  <2>3. CASE breaks # {}
    <3>1. \E k \in breaks : \A l \in breaks : l <= k
      <4>1. breaks \subseteq 0 .. n /\ n \in Nat
        BY RingAssumption
      <4> HIDE DEF breaks
      <4> QED
        BY <2>3, <4>1, GreatestElement
    <3>2. k0 \in 1 .. n
      BY <3>1
    <3>3. k0 \in 0 .. BLOCK_BUFFER_SIZE
      <4> HIDE DEF k0
      <4> QED
        BY <3>2, RingAssumption
    <3> HIDE DEF k0
    <3> QED
      BY <2>1, <2>3, <3>3, AheadSlot
  <2> QED
    BY <2>2, <2>3
<1> QED
  BY <1>3, <1>4, <1>5

LEMMA ReplannedNone == ASSUME NEW b \in Buffers PROVE Replanned(b, b)
<1>1. \A i \in Slots : b[i] = [b[i] EXCEPT !.entry = b[i].entry]
  BY DEF Buffers, Blocks
<1> QED
  BY <1>1 DEF Replanned

LEMMA NotifiedReplans ==
    ASSUME NEW b \in Buffers, NEW tail \in Slots, NEW p \in Preps
    PROVE  Replanned(b, Notified(b, tail, p))
<1>1. p.speed \in Nat
  BY DEF Preps
<1>2. CASE p.loaded
  BY <1>1, <1>2, ReplannedOne DEF Notified
<1>3. CASE ~p.loaded
  BY <1>3, ReplannedNone DEF Notified
<1> QED
  BY <1>2, <1>3

LEMMA PrevSlot ==
    ASSUME NEW i \in Slots
    PROVE  plan_prev_block_index(i) \in Slots
BY RingAssumption DEF plan_prev_block_index, Slots

\* A recalculation plans entry speeds, and leaves planned pointer and view in shape.
LEMMA RecalculateReplans ==
    ASSUME NEW b \in Buffers, NEW tail \in Slots, NEW head \in Slots, NEW planned \in Slots,
           NEW p \in Preps, NEW r, r = planner_recalculate(b, tail, head, planned, p)
    PROVE  Replanned(b, r.buffer) /\ r.planned \in Slots /\ r.prep \in {p, Unloaded(p)}
<1> DEFINE last == plan_prev_block_index(head)
           n == Ahead(last, BLOCK_BUFFER_SIZE - planned)
           noticed(v) == IF v THEN Notified(b, tail, p) ELSE b
           forward(v) == ForwardPass(ReversePass(noticed(v), last, n), planned, n)
<1>1. last \in Slots /\ n \in Slots
  <2>1. BLOCK_BUFFER_SIZE - planned \in 0 .. BLOCK_BUFFER_SIZE
    BY RingAssumption DEF Slots
  <2> QED
    BY <2>1, PrevSlot, AheadSlot
<1>2. \A v \in BOOLEAN : Replanned(b, noticed(v)) /\ noticed(v) \in Buffers
  <2>1. Replanned(b, b) /\ Replanned(b, Notified(b, tail, p))
    BY ReplannedNone, NotifiedReplans
  <2>2. Notified(b, tail, p) \in Buffers
    BY <2>1 DEF Replanned
  <2> QED
    BY <2>1, <2>2
<1>3. PICK v \in BOOLEAN :
        /\ r.buffer = IF n = 0 THEN b ELSE forward(v).buffer
        /\ r.planned = IF n = 0 THEN planned ELSE forward(v).planned
        /\ r.prep \in {p, Unloaded(p)}
  <2> DEFINE reached == \/ n = 1 /\ planned = tail
                        \/ \E j \in 2 .. n : tail = Ahead(last, BLOCK_BUFFER_SIZE - j)
  <2>1. reached \in BOOLEAN
    OBVIOUS
  <2>2. /\ r.buffer = IF n = 0 THEN b ELSE forward(reached).buffer
        /\ r.planned = IF n = 0 THEN planned ELSE forward(reached).planned
    BY DEF planner_recalculate
  <2>3. r.prep \in {p, Unloaded(p)}
    BY RecalculatedPrep
  <2> HIDE DEF reached, forward, n, last, noticed
  <2> QED
    BY <2>1, <2>2, <2>3
<1>4. CASE n = 0
  <2>1. r.buffer = b /\ r.planned = planned
    BY <1>3, <1>4
  <2> QED
    BY <1>3, <2>1, ReplannedNone
<1>5. CASE n # 0
  <2> DEFINE c == noticed(v)
             d == ReversePass(c, last, n)
  <2>1. Replanned(b, c) /\ c \in Buffers
    BY <1>2
  <2>2. n \in 1 .. BLOCK_BUFFER_SIZE - 1 /\ n \in 0 .. BLOCK_BUFFER_SIZE - 1
    BY <1>1, <1>5, RingAssumption DEF Slots
  <2>3. r.buffer = ForwardPass(d, planned, n).buffer /\ r.planned = ForwardPass(d, planned, n).planned
    BY <1>3, <1>5
  <2> HIDE DEF last, n, noticed
  <2>4. Replanned(c, d)
    BY <1>1, <2>1, <2>2, ReversePassReplans
  <2>5. d \in Buffers
    BY <2>4 DEF Replanned
  <2> HIDE DEF c, d
  <2>6. Replanned(d, r.buffer) /\ r.planned \in Slots
    BY <2>2, <2>3, <2>5, ForwardPassReplans
  <2>7. Replanned(b, d)
    BY <2>1, <2>4, ReplannedTwice
  <2> QED
    BY <1>3, <2>6, <2>7, ReplannedTwice
<1> QED
  BY <1>4, <1>5

LEMMA UnloadedPreps == ASSUME NEW p \in Preps PROVE Unloaded(p) \in Preps /\ Unloaded(p).speed = p.speed
BY DEF Preps, Unloaded

\* The nominal speed of a block is at least the minimum, so never zero.
LEMMA NominalSpeed ==
    ASSUME NEW b \in Blocks, NEW o \in Nat
    PROVE  plan_compute_profile_nominal_speed(b, o) \in Nat
<1>1. b.rate * o \in Nat /\ b.rate \in Nat
  BY DEF Blocks
<1>2. (b.rate * o) \div 100 \in Nat
  BY <1>1
<1> QED
  BY <1>1, <1>2, DataAssumption DEF plan_compute_profile_nominal_speed, Lesser, MINIMUM_FEED_RATE

LEMMA Square == ASSUME NEW v \in Nat PROVE Sq(v) \in Nat
BY DEF Sq

LEMMA ProfileParameters ==
    ASSUME NEW b \in Blocks, NEW v \in Nat, NEW u \in Nat, NEW c,
           c = plan_compute_profile_parameters(b, v, u)
    PROVE  c \in Blocks /\ MotionOf(c) = MotionOf(b)
<1>1. Lesser(v, u) \in Nat
  BY DEF Lesser
<1>2. Sq(Lesser(v, u)) \in Nat
  BY <1>1, Square
<1>3. Lesser(Sq(Lesser(v, u)), b.junction) \in Nat
  BY <1>2 DEF Lesser, Blocks
<1> DEFINE x == Lesser(Sq(Lesser(v, u)), b.junction)
<1>4. c = [b EXCEPT !.max_entry = x]
  BY DEF plan_compute_profile_parameters
<1> HIDE DEF x
<1>5. x \in Nat
  BY <1>3 DEF x
<1> QED
  BY <1>4, <1>5 DEF Blocks, MotionOf

-----------------------------------------------------------------------------
(* The planner keeps its types. *)

PlannerTypes ==
    /\ RingInv
    /\ block_buffer \in Buffers
    /\ block_buffer_planned \in Slots
    /\ previous_nominal \in Nat /\ f_override \in FeedOverrides
    /\ step_control \in [executeHold : BOOLEAN, endMotion : BOOLEAN]
    /\ prep \in Preps

LEMMA InitTypes == Init => PlannerTypes
<1>1. 0 \in Slots /\ NoBlock \in Blocks
  BY RingAssumption DEF Slots, NoBlock, Blocks
<1>2. NoControl \in [executeHold : BOOLEAN, endMotion : BOOLEAN] /\ IdlePrep \in Preps
  BY DEF NoControl, IdlePrep, Preps
<1> SUFFICES ASSUME Init
             PROVE  PlannerTypes
  OBVIOUS
<1>3. block_buffer \in Buffers
  BY <1>1 DEF Init, Buffers
<1> QED
  BY <1>1, <1>2, <1>3, InitRing, DataAssumption DEF Init, PlannerTypes

\* A full replanning, whatever buffer it starts from.
LEMMA ReinitializeReplans ==
    ASSUME PlannerTypes, NEW b \in Buffers, plan_cycle_reinitialize(b)
    PROVE  /\ Replanned(b, block_buffer') /\ block_buffer_planned' \in Slots
           /\ prep' \in Preps /\ prep'.speed = prep.speed
<1> DEFINE c == Notified(b, block_buffer_tail, prep)
           r == planner_recalculate(c, block_buffer_tail, block_buffer_head,
                                    block_buffer_tail, Unloaded(prep))
<1>1. block_buffer_tail \in Slots /\ block_buffer_head \in Slots /\ prep \in Preps
  BY DEF PlannerTypes, RingInv, RingTypes
<1>2. Replanned(b, c) /\ c \in Buffers
  BY <1>1, NotifiedReplans DEF Replanned
<1>3. Unloaded(prep) \in Preps /\ Unloaded(prep).speed = prep.speed
      /\ Unloaded(Unloaded(prep)) \in Preps /\ Unloaded(Unloaded(prep)).speed = prep.speed
  BY <1>1, UnloadedPreps
<1>4. block_buffer' = r.buffer /\ block_buffer_planned' = r.planned /\ prep' = r.prep
  BY DEF plan_cycle_reinitialize
<1> HIDE DEF c
<1>5. Replanned(c, r.buffer) /\ r.planned \in Slots /\ r.prep \in {Unloaded(prep), Unloaded(Unloaded(prep))}
  BY <1>1, <1>2, <1>3, RecalculateReplans
<1> HIDE DEF r
<1>6. prep' \in Preps /\ prep'.speed = prep.speed
  BY <1>3, <1>4, <1>5
<1>7. Replanned(b, r.buffer)
  BY <1>2, <1>5, ReplannedTwice
<1> QED
  BY <1>4, <1>5, <1>6, <1>7

\* The block a line becomes.
NewBlock(motion, rate, reach, junction) ==
    [motion |-> motion, reach |-> reach, rate |-> IF motion = "rapid" THEN RapidRate ELSE rate,
     junction |-> IF Empty THEN 0 ELSE junction, max_entry |-> 0, entry |-> 0]

LEMMA BufferLineTypes ==
    ASSUME PlannerTypes, NEW m \in Motions, NEW v \in Rates, NEW l \in Reaches, NEW j \in Junctions,
           BufferLine(m, v, l, j)
    PROVE  /\ PlannerTypes' /\ prep'.speed = prep.speed
           /\ \E b \in Blocks :
                 /\ MotionOf(b) = MotionOf(NewBlock(m, v, l, j))
                 /\ Replanned([block_buffer EXCEPT ![block_buffer_head] = b], block_buffer')
<1> DEFINE new == NewBlock(m, v, l, j)
           nominal == plan_compute_profile_nominal_speed(new, f_override)
           b == plan_compute_profile_parameters(new, nominal, previous_nominal)
           c == [block_buffer EXCEPT ![block_buffer_head] = b]
           r == planner_recalculate(c, block_buffer_tail, next_buffer_head,
                                    block_buffer_planned, prep)
<1>1. /\ block_buffer_tail \in Slots /\ block_buffer_head \in Slots /\ next_buffer_head \in Slots
      /\ prep \in Preps /\ f_override \in Nat /\ block_buffer \in Buffers /\ RingInv
      /\ previous_nominal \in Nat /\ block_buffer_planned \in Slots
  BY DataAssumption DEF PlannerTypes, RingInv, RingTypes
<1>2. new \in Blocks
  BY DataAssumption DEF NewBlock, Blocks
<1>3. /\ block_buffer' = r.buffer /\ block_buffer_planned' = r.planned /\ prep' = r.prep
      /\ previous_nominal' = nominal
  BY DEF BufferLine, NewBlock
<1> HIDE DEF new
<1>4. nominal \in Nat
  BY <1>1, <1>2, NominalSpeed
<1> HIDE DEF nominal
<1>5. b \in Blocks /\ MotionOf(b) = MotionOf(new)
  BY <1>1, <1>2, <1>4, ProfileParameters
<1> HIDE DEF b
<1>6. c \in Buffers
  BY <1>1, <1>5 DEF Buffers
<1> HIDE DEF c
<1>7. Replanned(c, r.buffer) /\ r.planned \in Slots /\ r.prep \in {prep, Unloaded(prep)}
  BY <1>1, <1>6, RecalculateReplans
<1> HIDE DEF r
<1>8. prep' \in Preps /\ prep'.speed = prep.speed
  BY <1>1, <1>3, <1>7, UnloadedPreps
<1>9. RingInv'
  BY <1>1, BufferLineRing
<1>10. block_buffer' \in Buffers
  BY <1>3, <1>7 DEF Replanned
<1>11. UNCHANGED <<f_override, step_control>>
  BY DEF BufferLine
<1>12. PlannerTypes'
  BY <1>3, <1>4, <1>7, <1>8, <1>9, <1>10, <1>11 DEF PlannerTypes
<1>13. Replanned(c, block_buffer')
  BY <1>3, <1>7
<1> QED
  BY <1>5, <1>8, <1>12, <1>13 DEF c, new

\* A full replanning of the queue.
LEMMA OverridesTypes ==
    ASSUME PlannerTypes, NEW o \in FeedOverrides, ExecuteOverrides(o)
    PROVE  /\ PlannerTypes' /\ prep'.speed = prep.speed
           /\ \A i \in Slots : MotionOf(block_buffer'[i]) = MotionOf(block_buffer[i])
<1> DEFINE b == plan_update_velocity_profile_parameters(o)
           nominal(i) == plan_compute_profile_nominal_speed(block_buffer[i], o)
<1>1. o \in Nat /\ block_buffer \in Buffers /\ RingInv /\ \A i \in Slots : block_buffer[i] \in Blocks
  BY DataAssumption DEF PlannerTypes, Buffers
<1>2. \A i \in Slots : nominal(i) \in Nat
  BY <1>1, NominalSpeed
<1>3. ASSUME NEW i \in Slots
      PROVE  b[i] \in Blocks /\ MotionOf(b[i]) = MotionOf(block_buffer[i])
  <2> DEFINE p == IF i = block_buffer_tail THEN nominal(i) ELSE nominal(plan_prev_block_index(i))
  <2>1. p \in Nat
    BY <1>2, PrevSlot
  <2>2. b[i] = IF i \in Queued THEN plan_compute_profile_parameters(block_buffer[i], nominal(i), p)
               ELSE block_buffer[i]
    BY DEF plan_update_velocity_profile_parameters
  <2> HIDE DEF b, p
  <2>3. nominal(i) \in Nat
    BY <1>2
  <2> HIDE DEF nominal
  <2>4. block_buffer[i] \in Blocks
    BY <1>1
  <2> QED
    BY <2>1, <2>2, <2>3, <2>4, ProfileParameters
<1>4. b \in Buffers
  <2>1. b = [i \in Slots |-> b[i]]
    BY DEF plan_update_velocity_profile_parameters
  <2> HIDE DEF b
  <2> QED
    BY <1>3, <2>1 DEF Buffers
<1>5. plan_cycle_reinitialize(b) /\ UNCHANGED <<ring, step_control>> /\ f_override' = o
  BY DEF ExecuteOverrides
<1> HIDE DEF b
<1>6. /\ Replanned(b, block_buffer') /\ block_buffer_planned' \in Slots
      /\ prep' \in Preps /\ prep'.speed = prep.speed
  BY <1>4, <1>5, ReinitializeReplans
<1>7. RingInv'
  BY <1>1, <1>5, Reinitialized, SameRing
<1>8. previous_nominal' \in Nat
  <2>1. plan_prev_block_index(block_buffer_head) \in Slots
    BY <1>1, PrevSlot DEF RingInv, RingTypes
  <2>2. previous_nominal' = IF Empty THEN SOME_LARGE_VALUE
                            ELSE nominal(plan_prev_block_index(block_buffer_head))
    BY DEF ExecuteOverrides
  <2> HIDE DEF nominal
  <2> QED
    BY <1>2, <2>1, <2>2 DEF SOME_LARGE_VALUE
<1>9. \A i \in Slots : MotionOf(block_buffer'[i]) = MotionOf(block_buffer[i])
  <2> SUFFICES ASSUME NEW i \in Slots
               PROVE  MotionOf(block_buffer'[i]) = MotionOf(block_buffer[i])
    OBVIOUS
  <2>1. b[i] \in Blocks /\ MotionOf(b[i]) = MotionOf(block_buffer[i])
    BY <1>3
  <2>2. block_buffer'[i] = [b[i] EXCEPT !.entry = block_buffer'[i].entry]
    BY <1>6 DEF Replanned
  <2> QED
    BY <2>1, <2>2 DEF MotionOf, Blocks
<1>10. block_buffer' \in Buffers
  BY <1>6 DEF Replanned
<1>11. PlannerTypes'
  BY <1>5, <1>6, <1>7, <1>8, <1>10 DEF PlannerTypes
<1> QED
  BY <1>6, <1>9, <1>11

\* Replanning changes no motion.
LEMMA ReplannedMotions ==
    ASSUME NEW b \in Buffers, NEW c, Replanned(b, c), NEW i \in Slots
    PROVE  MotionOf(c[i]) = MotionOf(b[i])
<1>1. b[i] \in Blocks /\ c[i] = [b[i] EXCEPT !.entry = c[i].entry]
  BY DEF Buffers, Replanned
<1> QED
  BY <1>1 DEF Blocks, MotionOf

\* The motions in all slots but one are kept.
KeepsMotionsBut(s) == \A i \in Slots : i # s => MotionOf(block_buffer'[i]) = MotionOf(block_buffer[i])

LEMMA SystemMotionTypes ==
    ASSUME PlannerTypes, NEW l \in SystemReaches, BufferSystemMotion(l)
    PROVE  PlannerTypes' /\ prep' = prep /\ UNCHANGED ring /\ KeepsMotionsBut(block_buffer_head)
<1> DEFINE b == [NoBlock EXCEPT !.rate = RapidRate, !.reach = l]
<1>1. b \in Blocks
  BY DataAssumption DEF NoBlock, Blocks
<1>2. block_buffer' = [block_buffer EXCEPT ![block_buffer_head] = b]
      /\ UNCHANGED <<ring, block_buffer_planned, previous_nominal, f_override, step_control, prep>>
  BY DEF BufferSystemMotion
<1> HIDE DEF b
<1>3. block_buffer' \in Buffers /\ KeepsMotionsBut(block_buffer_head)
  BY <1>1, <1>2 DEF PlannerTypes, Buffers, KeepsMotionsBut
<1>4. RingInv'
  BY <1>2, SameRing DEF PlannerTypes, RingInv, RingTypes
<1> QED
  BY <1>2, <1>3, <1>4 DEF PlannerTypes

LEMMA HoldingTypes ==
    ASSUME PlannerTypes, StartHolding
    PROVE  PlannerTypes' /\ prep'.speed = prep.speed /\ UNCHANGED ring
           /\ KeepsMotionsBut(block_buffer_head)
<1>1. block_buffer \in Buffers /\ prep \in Preps /\ block_buffer_tail \in Slots
  BY DEF PlannerTypes, RingInv, RingTypes
<1>2. Replanned(block_buffer, block_buffer')
  BY <1>1, NotifiedReplans DEF StartHolding
<1>3. prep' \in Preps /\ prep'.speed = prep.speed /\ IsPrep(prep') /\ (prep'.loaded => prep.loaded)
  BY <1>1, UnloadedPreps, UnloadedPrep DEF StartHolding, PlannerTypes, RingInv, RingTypes
<1>4. UNCHANGED <<ring, block_buffer_planned, previous_nominal, f_override>>
      /\ step_control' \in [executeHold : BOOLEAN, endMotion : BOOLEAN]
  BY DEF StartHolding, NoControl
<1>5. RingInv'
  BY <1>3, <1>4, SameRing DEF PlannerTypes
<1>6. block_buffer' \in Buffers /\ KeepsMotionsBut(block_buffer_head)
  BY <1>1, <1>2, ReplannedMotions DEF KeepsMotionsBut, Replanned
<1> QED
  BY <1>3, <1>4, <1>5, <1>6 DEF PlannerTypes

LEMMA HoldCompleteTypes ==
    ASSUME PlannerTypes, HoldComplete
    PROVE  PlannerTypes' /\ prep'.speed = prep.speed /\ UNCHANGED ring
           /\ KeepsMotionsBut(block_buffer_head)
<1>1. block_buffer \in Buffers
  BY DEF PlannerTypes
<1>2. plan_cycle_reinitialize(block_buffer)
      /\ UNCHANGED <<ring, previous_nominal, f_override>>
  BY DEF HoldComplete
<1>3. step_control' \in [executeHold : BOOLEAN, endMotion : BOOLEAN]
  BY DEF HoldComplete, PlannerTypes
<1>4. /\ Replanned(block_buffer, block_buffer') /\ block_buffer_planned' \in Slots
      /\ prep' \in Preps /\ prep'.speed = prep.speed
  BY <1>1, <1>2, ReinitializeReplans
<1>5. RingInv'
  BY <1>2, Reinitialized, SameRing DEF PlannerTypes
<1>6. block_buffer' \in Buffers /\ KeepsMotionsBut(block_buffer_head)
  BY <1>1, <1>4, ReplannedMotions DEF KeepsMotionsBut, Replanned
<1> QED
  BY <1>2, <1>3, <1>4, <1>5, <1>6 DEF PlannerTypes

LEMMA InitiateTypes ==
    ASSUME PlannerTypes, InitiateCycle
    PROVE  PlannerTypes' /\ prep' = prep /\ UNCHANGED ring /\ KeepsMotionsBut(block_buffer_head)
<1>1. UNCHANGED <<block_buffer, ring, block_buffer_planned, previous_nominal, f_override, prep>>
      /\ step_control' \in [executeHold : BOOLEAN, endMotion : BOOLEAN]
  BY DEF InitiateCycle, NoControl
<1>2. RingInv'
  BY <1>1, SameRing DEF PlannerTypes, RingInv, RingTypes
<1> QED
  BY <1>1, <1>2 DEF PlannerTypes, KeepsMotionsBut

LEMMA ResetTypes ==
    ASSUME PlannerTypes, NEW o \in {f_override, DefaultFeedOverride}, Reset(o)
    PROVE  PlannerTypes'
<1>1. 0 \in Slots /\ NoBlock \in Blocks
  BY RingAssumption DEF Slots, NoBlock, Blocks
<1>2. NoControl \in [executeHold : BOOLEAN, endMotion : BOOLEAN] /\ IdlePrep \in Preps
  BY DEF NoControl, IdlePrep, Preps
<1>3. RingInv'
  BY ResetRing
<1>4. block_buffer' \in Buffers
  BY <1>1 DEF Reset, Buffers
<1>5. o \in FeedOverrides
  BY DataAssumption DEF PlannerTypes
<1> QED
  BY <1>1, <1>2, <1>3, <1>4, <1>5 DEF Reset, PlannerTypes

\* The exit speed the executing block is to meet.
LEMMA ExitSpeed ==
    ASSUME PlannerTypes
    PROVE  ExitOf(block_buffer, block_buffer_tail, block_buffer_head) \in Nat
<1>1. plan_next_block_index(block_buffer_tail) \in Slots
  BY NextSlot DEF PlannerTypes, RingInv, RingTypes
<1>2. block_buffer[plan_next_block_index(block_buffer_tail)] \in Blocks
  BY <1>1 DEF PlannerTypes, Buffers
<1> QED
  BY <1>2 DEF ExitOf, Blocks

LEMMA LoadTypes ==
    ASSUME PlannerTypes, LoadBlock
    PROVE  PlannerTypes' /\ UNCHANGED ring /\ KeepsMotionsBut(block_buffer_head)
<1> DEFINE b == block_buffer[block_buffer_tail]
           entry == EntrySpeed(b)
           nominal == NominalSqr(b)
           next == ExitOf(block_buffer, block_buffer_tail, block_buffer_head)
<1>1. /\ block_buffer_tail \in Slots /\ prep \in Preps /\ block_buffer \in Buffers
      /\ step_control \in [executeHold : BOOLEAN, endMotion : BOOLEAN] /\ f_override \in Nat
  BY DataAssumption DEF PlannerTypes, RingInv, RingTypes
<1>2. b \in Blocks
  BY <1>1 DEF Buffers
<1>3. b.reach \in Nat /\ entry \in Nat /\ prep.speed \in Nat
  BY <1>1, <1>2 DEF Blocks, Preps, EntrySpeed
<1>4. nominal \in Nat
  BY <1>1, <1>2, NominalSpeed, Square DEF NominalSqr
<1>5. next \in Nat
  BY ExitSpeed
<1>6. /\ prep' = [loaded |-> TRUE, recalculate |-> FALSE,
                  override |-> ~step_control.executeHold /\ entry > nominal /\ b.reach <= entry - nominal,
                  speed |-> IF prep.recalculate THEN prep.speed ELSE entry,
                  exit |-> IF step_control.executeHold /\ b.reach > entry THEN 0
                           ELSE IF \/ step_control.executeHold /\ b.reach <= entry
                                   \/ entry > nominal /\ b.reach <= entry - nominal
                           THEN entry - b.reach ELSE next,
                  complete |-> IF step_control.executeHold /\ b.reach > entry
                               THEN b.reach - entry ELSE 0]
      /\ block_buffer' = [block_buffer EXCEPT ![block_buffer_tail].entry = entry]
      /\ step_control' = [step_control EXCEPT !.endMotion = HoldEndsAt(b, entry)]
      /\ ~Empty /\ UNCHANGED <<ring, block_buffer_planned, previous_nominal, f_override>>
  BY DEF LoadBlock
<1>7. HoldEndsAt(b, entry) \in BOOLEAN
  BY DEF HoldEndsAt
<1> HIDE DEF entry, nominal, next, b
<1>8. prep' \in Preps /\ IsPrep(prep')
  <2>1. /\ b.reach > entry => b.reach - entry \in Nat
        /\ b.reach <= entry => entry - b.reach \in Nat
        /\ entry > nominal /\ b.reach <= entry - nominal => entry - b.reach \in Nat
    BY <1>3, <1>4
  <2>2. prep'.exit \in Nat /\ prep'.complete \in Nat /\ prep'.speed \in Nat
    BY <1>3, <1>5, <1>6, <2>1
  <2>3. (IF prep.recalculate THEN prep.speed ELSE entry) \in Nat
    BY <1>3
  <2> QED
    BY <1>6, <2>2 DEF Preps, IsPrep
<1>9. Replanned(block_buffer, block_buffer')
  BY <1>1, <1>3, <1>6, ReplannedOne
<1>10. step_control' \in [executeHold : BOOLEAN, endMotion : BOOLEAN]
  BY <1>1, <1>6, <1>7
<1>11. RingInv'
  BY <1>6, <1>8, SameRing DEF PlannerTypes
<1>12. block_buffer' \in Buffers /\ KeepsMotionsBut(block_buffer_head)
  BY <1>1, <1>9, ReplannedMotions DEF KeepsMotionsBut, Replanned
<1> QED
  BY <1>6, <1>8, <1>10, <1>11, <1>12 DEF PlannerTypes

LEMMA ProfileSpeedsNat ==
    ASSUME PlannerTypes, NEW l \in 1 .. block_buffer[block_buffer_tail].reach - 1,
           l >= prep.complete, NEW s \in ProfileSpeeds(l)
    PROVE  s \in Nat
<1> DEFINE reach == block_buffer[block_buffer_tail].reach
           top == NominalSqr(block_buffer[block_buffer_tail])
<1>1. block_buffer_tail \in Slots /\ prep \in Preps
  BY DEF PlannerTypes, RingInv, RingTypes
<1>2. reach \in Nat /\ prep.speed \in Nat /\ prep.exit \in Nat /\ prep.complete \in Nat
  BY <1>1 DEF PlannerTypes, Buffers, Blocks, Preps
<1>3. \/ prep.speed > prep.exit + (reach - prep.complete) /\ s = prep.speed - (reach - l)
      \/ s = prep.speed + (reach - l)
      \/ s \in 0 .. prep.speed + (reach - l)
  BY DEF ProfileSpeeds
<1>4. l \in 1 .. reach - 1
  OBVIOUS
<1> HIDE DEF reach
<1> QED
  BY <1>2, <1>3, <1>4

LEMMA AdvanceTypes ==
    ASSUME PlannerTypes, AdvanceBlock
    PROVE  PlannerTypes' /\ UNCHANGED ring /\ KeepsMotionsBut(block_buffer_head)
<1>1. /\ block_buffer_tail \in Slots /\ prep \in Preps /\ block_buffer \in Buffers
      /\ step_control \in [executeHold : BOOLEAN, endMotion : BOOLEAN] /\ RingInv /\ IsPrep(prep)
  BY DEF PlannerTypes, RingInv, RingTypes
<1>2. block_buffer[block_buffer_tail] \in Blocks
  BY <1>1 DEF Buffers
<1>3. PICK l \in 1 .. block_buffer[block_buffer_tail].reach - 1 :
        /\ l >= prep.complete
        /\ block_buffer' = [block_buffer EXCEPT ![block_buffer_tail].reach = l]
        /\ \E s \in ProfileSpeeds(l) : prep' = [prep EXCEPT !.speed = s]
        /\ step_control' = [step_control EXCEPT !.endMotion = (l = prep.complete)]
  BY DEF AdvanceBlock
<1>4. PICK s \in ProfileSpeeds(l) : prep' = [prep EXCEPT !.speed = s]
  BY <1>3
<1>5. s \in Nat /\ l \in Nat
  BY <1>2, <1>3, ProfileSpeedsNat DEF Blocks
<1>6. prep' \in Preps /\ IsPrep(prep') /\ (prep'.loaded => prep.loaded)
  BY <1>1, <1>4, <1>5 DEF Preps, IsPrep
<1>7. step_control' \in [executeHold : BOOLEAN, endMotion : BOOLEAN]
      /\ UNCHANGED <<ring, block_buffer_planned, previous_nominal, f_override>>
  BY <1>1, <1>3 DEF AdvanceBlock
<1>8. RingInv'
  BY <1>1, <1>6, <1>7, SameRing
<1> DEFINE c == [block_buffer[block_buffer_tail] EXCEPT !.reach = l]
<1>9. c \in Blocks /\ MotionOf(c) = MotionOf(block_buffer[block_buffer_tail])
  BY <1>2, <1>5 DEF Blocks, MotionOf
<1>10. block_buffer' = [block_buffer EXCEPT ![block_buffer_tail] = c]
  BY <1>3
<1> HIDE DEF c
<1>11. block_buffer' \in Buffers /\ KeepsMotionsBut(block_buffer_head)
  BY <1>1, <1>9, <1>10 DEF Buffers, KeepsMotionsBut
<1> QED
  BY <1>6, <1>7, <1>8, <1>11 DEF PlannerTypes

LEMMA FinishTypes ==
    ASSUME PlannerTypes, FinishBlock
    PROVE  PlannerTypes' /\ KeepsMotionsBut(block_buffer_tail)
<1>1. /\ block_buffer_tail \in Slots /\ prep \in Preps /\ block_buffer \in Buffers /\ RingInv
      /\ block_buffer_planned \in Slots
  BY DEF PlannerTypes, RingInv, RingTypes
<1>2. NoBlock \in Blocks
  BY DEF NoBlock, Blocks
<1>3. block_buffer' = [block_buffer EXCEPT ![block_buffer_tail] = NoBlock]
      /\ UNCHANGED <<previous_nominal, f_override, step_control>>
  BY DEF FinishBlock
<1>4. block_buffer' \in Buffers /\ KeepsMotionsBut(block_buffer_tail)
  BY <1>1, <1>2, <1>3 DEF Buffers, KeepsMotionsBut
<1>5. prep' \in Preps
  BY <1>1 DEF FinishBlock, Preps
<1>6. block_buffer_planned' \in Slots
  BY <1>1, NextSlot DEF FinishBlock, PlannedAfterDiscard
<1>7. RingInv'
  BY <1>1, FinishBlockRing
<1> QED
  BY <1>3, <1>4, <1>5, <1>6, <1>7 DEF PlannerTypes

-----------------------------------------------------------------------------
(* The ring implements the queue of motions. *)

\* Where the queued blocks are.
LEMMA QueuedSlots ==
    ASSUME RingInv
    PROVE  /\ Count \in 0 .. BLOCK_BUFFER_SIZE - 1
           /\ \A k \in 0 .. Count - 1 :
                Ahead(block_buffer_tail, k) \in Slots /\ Ahead(block_buffer_tail, k) # block_buffer_head
           /\ Ahead(block_buffer_tail, Count) = block_buffer_head
           /\ Count = 0 <=> Empty
<1>1. /\ block_buffer_tail \in 0 .. BLOCK_BUFFER_SIZE - 1 /\ block_buffer_head \in 0 .. BLOCK_BUFFER_SIZE - 1
      /\ BLOCK_BUFFER_SIZE \in Nat /\ BLOCK_BUFFER_SIZE > 1
  BY RingAssumption DEF RingInv, RingTypes, Slots
<1>2. Count = IF block_buffer_head >= block_buffer_tail THEN block_buffer_head - block_buffer_tail
              ELSE BLOCK_BUFFER_SIZE - (block_buffer_tail - block_buffer_head)
  BY DEF Count, plan_get_block_buffer_count
<1>3. Count \in 0 .. BLOCK_BUFFER_SIZE - 1 /\ (Count = 0 <=> Empty)
  BY <1>1, <1>2 DEF Empty
<1>4. \A k \in 0 .. Count :
        /\ k \in 0 .. BLOCK_BUFFER_SIZE
        /\ Ahead(block_buffer_tail, k) \in Slots
        /\ Ahead(block_buffer_tail, k) = IF block_buffer_tail + k < BLOCK_BUFFER_SIZE
                                         THEN block_buffer_tail + k
                                         ELSE block_buffer_tail + k - BLOCK_BUFFER_SIZE
  <2> SUFFICES ASSUME NEW k \in 0 .. Count
               PROVE  /\ k \in 0 .. BLOCK_BUFFER_SIZE
                      /\ Ahead(block_buffer_tail, k) \in Slots
                      /\ Ahead(block_buffer_tail, k) = IF block_buffer_tail + k < BLOCK_BUFFER_SIZE
                                                       THEN block_buffer_tail + k
                                                       ELSE block_buffer_tail + k - BLOCK_BUFFER_SIZE
    OBVIOUS
  <2>1. k \in 0 .. BLOCK_BUFFER_SIZE /\ block_buffer_tail \in Slots
    BY <1>1, <1>3 DEF Slots
  <2> QED
    BY <2>1, AheadSlot
<1>5. ASSUME NEW k \in 0 .. Count - 1
      PROVE  Ahead(block_buffer_tail, k) \in Slots /\ Ahead(block_buffer_tail, k) # block_buffer_head
  <2>1. k \in 0 .. Count
    BY <1>1, <1>3
  <2> QED
    BY <2>1, <1>1, <1>2, <1>3, <1>4
<1>6. Ahead(block_buffer_tail, Count) = block_buffer_head
  <2>1. Count \in 0 .. Count
    BY <1>1, <1>3
  <2> QED
    BY <2>1, <1>1, <1>2, <1>3, <1>4
<1> QED
  BY <1>3, <1>5, <1>6

\* Steps that touch neither the ring nor the motions in it leave the queue alone.
LEMMA SameContents ==
    ASSUME RingInv, UNCHANGED ring, KeepsMotionsBut(block_buffer_head)
    PROVE  Contents' = Contents
<1>1. Count' = Count /\ block_buffer_tail' = block_buffer_tail
  BY DEF ring, Count, plan_get_block_buffer_count
<1>2. ASSUME NEW k \in 1 .. Count
      PROVE  MotionOf(Nth(k - 1))' = MotionOf(Nth(k - 1))
  <2>1. k - 1 \in 0 .. Count - 1
    BY QueuedSlots
  <2>2. Ahead(block_buffer_tail, k - 1) \in Slots /\ Ahead(block_buffer_tail, k - 1) # block_buffer_head
    BY <2>1, QueuedSlots
  <2>3. Nth(k - 1) = block_buffer[Ahead(block_buffer_tail, k - 1)]
        /\ Nth(k - 1)' = block_buffer'[Ahead(block_buffer_tail, k - 1)]
    BY <1>1 DEF Nth, Ahead
  <2>4. MotionOf(Nth(k - 1)') = MotionOf(Nth(k - 1))
    BY <2>2, <2>3 DEF KeepsMotionsBut
  <2> QED
    BY <2>4 DEF MotionOf
<1> QED
  BY <1>1, <1>2 DEF Contents

\* Appending to a function on 1 .. n.
LEMMA AppendedTo ==
    ASSUME NEW n \in Nat, NEW F, NEW f, f = [k \in 1 .. n |-> F[k]], NEW e
    PROVE  Append(f, e) = [k \in 1 .. n + 1 |-> IF k <= n THEN f[k] ELSE e]
<1> DEFINE S == {F[k] : k \in 1 .. n} \cup {e}
<1>1. f \in Seq(S) /\ Len(f) = n /\ e \in S
  OBVIOUS
<1> QED
  BY <1>1

\* A block buffered is the last of the queue.
LEMMA PutContents ==
    ASSUME PlannerTypes, NEW m \in Motions, NEW v \in Rates, NEW l \in Reaches, NEW j \in Junctions,
           BufferLine(m, v, l, j)
    PROVE  /\ Count < BLOCK_BUFFER_SIZE - 1
           /\ \E q \in QueuedMotions : Contents' = Append(Contents, q)
<1> DEFINE q == MotionOf(NewBlock(m, v, l, j))
<1>1. q \in QueuedMotions
  BY DEF MotionOf, NewBlock, QueuedMotions
<1>2. PICK b \in Blocks : /\ MotionOf(b) = q
                          /\ Replanned([block_buffer EXCEPT ![block_buffer_head] = b], block_buffer')
  BY BufferLineTypes
<1> HIDE DEF q
<1>3. /\ block_buffer_head \in Slots /\ block_buffer \in Buffers /\ RingInv
      /\ block_buffer_tail \in Slots
  BY DEF PlannerTypes, RingInv, RingTypes
<1> DEFINE c == [block_buffer EXCEPT ![block_buffer_head] = b]
<1>4. c \in Buffers /\ c[block_buffer_head] = b
      /\ \A i \in Slots : i # block_buffer_head => c[i] = block_buffer[i]
  BY <1>2, <1>3 DEF Buffers
<1>5. /\ MotionOf(block_buffer'[block_buffer_head]) = q
      /\ \A i \in Slots : i # block_buffer_head =>
            MotionOf(block_buffer'[i]) = MotionOf(block_buffer[i])
  <2>1. \A i \in Slots : MotionOf(block_buffer'[i]) = MotionOf(c[i])
    <3> HIDE DEF c
    <3> QED
      BY <1>2, <1>4, ReplannedMotions DEF c
  <2> HIDE DEF c
  <2> QED
    BY <2>1, <1>2, <1>3, <1>4
<1>6. /\ block_buffer_tail' = block_buffer_tail
      /\ block_buffer_head' = plan_next_block_index(block_buffer_head)
      /\ block_buffer_tail # plan_next_block_index(block_buffer_head)
  BY <1>3 DEF BufferLine, plan_check_full_buffer, RingInv
<1>7. Count' = Count + 1 /\ Count < BLOCK_BUFFER_SIZE - 1
  <2>1. /\ block_buffer_tail \in 0 .. BLOCK_BUFFER_SIZE - 1 /\ block_buffer_head \in 0 .. BLOCK_BUFFER_SIZE - 1
        /\ BLOCK_BUFFER_SIZE \in Nat /\ BLOCK_BUFFER_SIZE > 1
    BY <1>3, RingAssumption DEF Slots
  <2> QED
    BY <2>1, <1>6 DEF Count, plan_get_block_buffer_count, plan_next_block_index
<1>8. PICK n \in Nat : n = Count
  BY <1>3, QueuedSlots, RingAssumption
<1>9. \A k \in 0 .. n : Nth(k)' = block_buffer'[Ahead(block_buffer_tail, k)]
  BY <1>6 DEF Nth, Ahead
<1>10. \A k \in 1 .. n : MotionOf(Nth(k - 1)') = MotionOf(Nth(k - 1))
  <2> SUFFICES ASSUME NEW k \in 1 .. n
               PROVE  MotionOf(Nth(k - 1)') = MotionOf(Nth(k - 1))
    OBVIOUS
  <2>1. k - 1 \in 0 .. Count - 1 /\ k - 1 \in 0 .. n
    BY <1>8
  <2>2. Ahead(block_buffer_tail, k - 1) \in Slots /\ Ahead(block_buffer_tail, k - 1) # block_buffer_head
    BY <1>3, <2>1, QueuedSlots
  <2>3. Nth(k - 1) = block_buffer[Ahead(block_buffer_tail, k - 1)]
    BY DEF Nth
  <2> QED
    BY <1>5, <1>9, <2>1, <2>2, <2>3
<1>11. MotionOf(Nth(n)') = q
  <2>1. Ahead(block_buffer_tail, n) = block_buffer_head /\ n \in 0 .. n
    BY <1>3, <1>8, QueuedSlots
  <2> QED
    BY <1>5, <1>9, <2>1
<1>12. Contents' = Append(Contents, q)
  <2>1. Contents' = [k \in 1 .. n + 1 |-> MotionOf(Nth(k - 1)')]
    BY <1>7, <1>8 DEF Contents, MotionOf
  <2>2. Contents = [k \in 1 .. n |-> MotionOf(Nth(k - 1))]
    BY <1>8 DEF Contents
  <2>3. Append(Contents, q) = [k \in 1 .. n + 1 |-> IF k <= n THEN Contents[k] ELSE q]
    <3> DEFINE F == [k \in 1 .. n |-> MotionOf(Nth(k - 1))]
    <3>1. Contents = [k \in 1 .. n |-> F[k]]
      BY <2>2
    <3> HIDE DEF F
    <3> QED
      BY <3>1, AppendedTo
  <2>4. ASSUME NEW k \in 1 .. n + 1
        PROVE  MotionOf(Nth(k - 1)') = IF k <= n THEN Contents[k] ELSE q
    <3>1. CASE k \in 1 .. n
      BY <3>1, <1>8, <1>10, <2>2
    <3>2. CASE k = n + 1
      <4>1. k - 1 = n /\ ~(k <= n)
        BY <3>2, <1>8
      <4> QED
        BY <4>1, <1>11
    <3> QED
      BY <3>1, <3>2, <1>8
  <2> QED
    BY <2>1, <2>3, <2>4
<1> QED
  BY <1>1, <1>7, <1>12

\* The rest of a sequence given as a function on 1 .. n.
LEMMA TailOf ==
    ASSUME NEW n \in Nat \ {0}, NEW F, NEW f, f = [k \in 1 .. n |-> F[k]]
    PROVE  f # <<>> /\ Tail(f) = [k \in 1 .. n - 1 |-> f[k + 1]]
<1> DEFINE S == {F[k] : k \in 1 .. n}
<1>1. f \in Seq(S) /\ Len(f) = n
  OBVIOUS
<1> QED
  BY <1>1

\* A block that is finished was the first of the queue.
LEMMA TakeContents ==
    ASSUME PlannerTypes, FinishBlock
    PROVE  Contents # <<>> /\ Contents' = Tail(Contents)
<1>1. KeepsMotionsBut(block_buffer_tail)
  BY FinishTypes
<1>2. /\ block_buffer_head \in Slots /\ block_buffer_tail \in Slots /\ RingInv /\ ~Empty
      /\ block_buffer_tail' = plan_next_block_index(block_buffer_tail)
      /\ block_buffer_head' = block_buffer_head
  BY DEF PlannerTypes, RingInv, RingTypes, FinishBlock
<1>3. PICK n \in Nat \ {0} : n = Count
  BY <1>2, QueuedSlots, RingAssumption
<1>4. n < BLOCK_BUFFER_SIZE /\ BLOCK_BUFFER_SIZE \in Nat /\ BLOCK_BUFFER_SIZE > 1
  BY <1>2, <1>3, QueuedSlots, RingAssumption
<1>5. Count' = n - 1
  <2>1. block_buffer_tail \in 0 .. BLOCK_BUFFER_SIZE - 1 /\ block_buffer_head \in 0 .. BLOCK_BUFFER_SIZE - 1
    BY <1>2, RingAssumption DEF Slots
  <2> QED
    BY <2>1, <1>2, <1>3, <1>4 DEF Count, plan_get_block_buffer_count, plan_next_block_index, Empty
<1>6. ASSUME NEW k \in 1 .. n - 1
      PROVE  MotionOf(Nth(k - 1)') = MotionOf(Nth(k))
  <2>1. /\ k \in 0 .. BLOCK_BUFFER_SIZE /\ k - 1 \in 0 .. BLOCK_BUFFER_SIZE
        /\ k < BLOCK_BUFFER_SIZE /\ k # 0
    BY <1>4
  <2>2. block_buffer_tail' \in Slots
    BY <1>2, NextSlot
  <2> DEFINE i == Ahead(block_buffer_tail, k)
  <2>3. i \in Slots /\ Ahead(block_buffer_tail', k - 1) = i /\ i # block_buffer_tail
    <3>1. /\ i \in Slots
          /\ i = IF block_buffer_tail + k < BLOCK_BUFFER_SIZE THEN block_buffer_tail + k
                 ELSE block_buffer_tail + k - BLOCK_BUFFER_SIZE
      BY <1>2, <2>1, AheadSlot
    <3>2. Ahead(block_buffer_tail', k - 1) =
             IF block_buffer_tail' + (k - 1) < BLOCK_BUFFER_SIZE THEN block_buffer_tail' + (k - 1)
             ELSE block_buffer_tail' + (k - 1) - BLOCK_BUFFER_SIZE
      BY <2>1, <2>2, AheadSlot
    <3> HIDE DEF i
    <3> QED
      BY <1>2, <1>4, <2>1, <3>1, <3>2 DEF plan_next_block_index, Slots
  <2>4. Nth(k) = block_buffer[i] /\ Nth(k - 1)' = block_buffer'[i]
    BY <2>3 DEF Nth, Ahead
  <2> HIDE DEF i
  <2> QED
    BY <1>1, <2>3, <2>4 DEF KeepsMotionsBut
<1>7. Contents' = [k \in 1 .. n - 1 |-> MotionOf(Nth(k - 1)')]
  BY <1>5 DEF Contents, MotionOf
<1> DEFINE F == [k \in 1 .. n |-> MotionOf(Nth(k - 1))]
<1>8. Contents = [k \in 1 .. n |-> F[k]] /\ \A k \in 1 .. n - 1 : F[k + 1] = MotionOf(Nth(k))
  BY <1>3 DEF Contents
<1> HIDE DEF F
<1>9. Contents # <<>> /\ Tail(Contents) = [k \in 1 .. n - 1 |-> Contents[k + 1]]
  BY <1>8, TailOf
<1>10. \A k \in 1 .. n - 1 : Contents[k + 1] = MotionOf(Nth(k))
  BY <1>8
<1> QED
  BY <1>6, <1>7, <1>9, <1>10

\* Every step of the planner is a step of the queue, or changes nothing of it.
LEMMA StepImplementsQueue ==
    ASSUME PlannerTypes, [Next]_vars
    PROVE  PlannerTypes' /\ [Queue!Next]_<<Contents, prep.speed>>
<1> DEFINE Same == Contents' = Contents /\ prep'.speed \in Nat
<1>1. ASSUME NEW m \in Motions, NEW v \in Rates, NEW r \in Reaches, NEW j \in Junctions,
             BufferLine(m, v, r, j)
      PROVE  PlannerTypes' /\ Queue!Put
  <2>1. PlannerTypes' /\ prep'.speed = prep.speed
    BY <1>1, BufferLineTypes
  <2>2. Count < BLOCK_BUFFER_SIZE - 1 /\ \E q \in QueuedMotions : Contents' = Append(Contents, q)
    BY <1>1, PutContents
  <2>3. Len(Contents) = Count
    <3>1. Count \in Nat
      BY QueuedSlots, RingAssumption DEF PlannerTypes
    <3> QED
      BY <3>1 DEF Contents
  <2> QED
    BY <2>1, <2>2, <2>3 DEF Queue!Put
<1>2. ASSUME RingInv, PlannerTypes', UNCHANGED ring, KeepsMotionsBut(block_buffer_head)
      PROVE  Same
  <2>1. prep'.speed \in Nat
    BY <1>2 DEF PlannerTypes, Preps
  <2> QED
    BY <1>2, <2>1, SameContents
<1>3. ASSUME NEW r \in SystemReaches, BufferSystemMotion(r)
      PROVE  PlannerTypes' /\ Same
  BY <1>2, <1>3, SystemMotionTypes DEF PlannerTypes
<1>4. ASSUME NEW o \in FeedOverrides, ExecuteOverrides(o)
      PROVE  PlannerTypes' /\ Same
  <2>1. PlannerTypes' /\ \A i \in Slots : MotionOf(block_buffer'[i]) = MotionOf(block_buffer[i])
    BY <1>4, OverridesTypes
  <2>2. UNCHANGED ring /\ RingInv /\ KeepsMotionsBut(block_buffer_head)
    BY <1>4, <2>1 DEF ExecuteOverrides, KeepsMotionsBut, PlannerTypes
  <2> QED
    BY <1>2, <2>1, <2>2
<1>5. CASE StartHolding
  <2>1. PlannerTypes' /\ Same
    BY <1>2, <1>5, HoldingTypes DEF PlannerTypes
  <2> QED
    BY <2>1 DEF Queue!Next, Queue!Drive
<1>6. CASE HoldComplete
  <2>1. PlannerTypes' /\ Same
    BY <1>2, <1>6, HoldCompleteTypes DEF PlannerTypes
  <2> QED
    BY <2>1 DEF Queue!Next, Queue!Drive
<1>7. CASE InitiateCycle
  <2>1. PlannerTypes' /\ Same
    BY <1>2, <1>7, InitiateTypes DEF PlannerTypes
  <2> QED
    BY <2>1 DEF Queue!Next, Queue!Drive
<1>8. ASSUME NEW o \in {f_override, DefaultFeedOverride}, Reset(o)
      PROVE  PlannerTypes' /\ Queue!Clear
  <2>1. PlannerTypes'
    BY <1>8, ResetTypes
  <2>2. Count' = 0 /\ prep'.speed = 0
    BY <1>8 DEF Reset, Count, plan_get_block_buffer_count, IdlePrep
  <2>3. Contents' = <<>>
    BY <2>2 DEF Contents
  <2> QED
    BY <2>1, <2>2, <2>3 DEF Queue!Clear
<1>9. CASE LoadBlock
  <2>1. PlannerTypes' /\ Same
    BY <1>2, <1>9, LoadTypes DEF PlannerTypes
  <2> QED
    BY <2>1 DEF Queue!Next, Queue!Drive
<1>10. CASE AdvanceBlock
  <2>1. PlannerTypes' /\ Same
    BY <1>2, <1>10, AdvanceTypes DEF PlannerTypes
  <2> QED
    BY <2>1 DEF Queue!Next, Queue!Drive
<1>11. CASE FinishBlock
  <2>1. PlannerTypes' /\ Contents # <<>> /\ Contents' = Tail(Contents)
    BY <1>11, FinishTypes, TakeContents
  <2>2. prep'.speed \in Nat
    BY <2>1 DEF PlannerTypes, Preps
  <2> QED
    BY <2>1, <2>2 DEF Queue!Next, Queue!Take
<1>12. CASE UNCHANGED vars
  <2>1. Contents' = Contents /\ prep' = prep
    BY <1>12 DEF vars, ring, Contents, Count, plan_get_block_buffer_count, Nth, Ahead, MotionOf
  <2>2. PlannerTypes'
    BY <1>12, NextRing DEF vars, ring, PlannerTypes
  <2> QED
    BY <2>1, <2>2
<1> QED
  BY <1>1, <1>3, <1>4, <1>5, <1>6, <1>7, <1>8, <1>9, <1>10, <1>11, <1>12
     DEF Next, Queue!Next, Queue!Drive

\* The ring of the planner implements a bounded first-in first-out queue: whatever is
\* planned, replanned, held or executed in between, the motions that plan_buffer_line
\* accepted leave it in order, once and unchanged, or are dropped by plan_reset.
THEOREM ImplementsQueue == Spec => QueueSpec
<1>1. Init => PlannerTypes /\ Queue!Init
  <2> SUFFICES ASSUME Init
               PROVE  PlannerTypes /\ Queue!Init
    OBVIOUS
  <2>1. Count = 0 /\ prep.speed = 0
    BY DEF Init, Count, plan_get_block_buffer_count, IdlePrep
  <2>2. Contents = <<>>
    BY <2>1 DEF Contents
  <2> QED
    BY <2>1, <2>2, InitTypes DEF Queue!Init
<1>2. PlannerTypes /\ [Next]_vars => PlannerTypes' /\ [Queue!Next]_<<Contents, prep.speed>>
  BY StepImplementsQueue
<1> QED
  BY <1>1, <1>2, PTL DEF Spec, QueueSpec, Queue!Spec

-----------------------------------------------------------------------------
(* Plans.  A view has the blocks of the ring by their distance from the tail;  *)
(* the first c of them are queued, and the machine is at speed s.              *)

Views == [Slots -> Blocks]

\* The speeds at which the k-th block is entered and left.
Enters(N, s, k) == IF k = 0 THEN s ELSE N[k].entry
Leaves(N, c, k) == IF k = c - 1 THEN 0 ELSE N[k + 1].entry

\* Every block is long enough to slow down in; entry speeds are within their limits.
Braked(N, c, s) ==
    /\ \A k \in 0 .. c - 1 : Enters(N, s, k) <= Leaves(N, c, k) + N[k].reach
    /\ \A k \in 1 .. c - 1 : N[k].entry <= N[k].max_entry

\* Every block is long enough to speed up in.
Driven(N, c, s) == \A k \in 0 .. c - 1 : Leaves(N, c, k) <= Enters(N, s, k) + N[k].reach

\* An entry speed that no later block can raise: it is at its limit, or as high as
\* the block before allows.
Pressed(N, s, k) ==
    \/ N[k].entry = N[k].max_entry
    \/ N[k].entry = Enters(N, s, k - 1) + N[k - 1].reach

\* Nor can any other be raised, and none before the planned pointer, at q, ever.
Tight(N, c, s, q) ==
    /\ \A k \in 1 .. c - 1 : Pressed(N, s, k) \/ N[k].entry = Leaves(N, c, k) + N[k].reach
    /\ q >= 1 => Pressed(N, s, q)

\* The speeds of the reverse pass back to the planned pointer, at q.
Reversed(N, c, q, rev) ==
    /\ rev \in [q + 1 .. c - 1 -> Nat]
    /\ q + 1 <= c - 1 => rev[c - 1] = Lesser(N[c - 1].max_entry, N[c - 1].reach)
    /\ \A k \in q + 1 .. c - 2 :
          rev[k] = IF N[k].entry = N[k].max_entry THEN N[k].entry
                   ELSE Lesser(N[k].max_entry, rev[k + 1] + N[k].reach)

\* What planner_recalculate makes of a view: entry speeds after the planned pointer
\* are new, and the pointer moves to x.
Planned(N, c, q, rev, M, x) ==
    /\ Reversed(N, c, q, rev) /\ M \in Views
    /\ \A k \in Slots : M[k] = [N[k] EXCEPT !.entry = M[k].entry]
    /\ \A k \in Slots : k <= q \/ k >= c => M[k] = N[k]
    /\ \A k \in q + 1 .. c - 1 : M[k].entry = Lesser(M[k - 1].entry + N[k - 1].reach, rev[k])
    /\ \/ x = q
       \/ x \in q + 1 .. c - 1 /\ (M[x].entry < rev[x] \/ M[x].entry = N[x].max_entry)

\* Induction downwards.
LEMMA DownInduction ==
    ASSUME NEW a \in Nat, NEW b \in Nat, NEW S, b \in S, \A k \in a .. b - 1 : k + 1 \in S => k \in S
    PROVE  a .. b \subseteq S
<1> SUFFICES ASSUME NEW x \in a .. b
             PROVE  x \in S
  OBVIOUS
<1> DEFINE T == {j \in 0 .. b - a : b - j \in S}
<1>1. b - a \in Nat
  OBVIOUS
<1>2. 0 \in T
  BY <1>1
<1>3. ASSUME NEW j \in 1 .. b - a, j - 1 \in T
      PROVE  j \in T
  <2>1. b - j \in a .. b - 1 /\ b - (j - 1) = (b - j) + 1
    BY <1>1
  <2> QED
    BY <1>3, <2>1
<1>4. 0 .. b - a \subseteq T
  <2> HIDE DEF T
  <2> QED
    BY <1>1, <1>2, <1>3, BoundedInduction
<1> QED
  <2>1. b - x \in 0 .. b - a /\ b - (b - x) = x
    OBVIOUS
  <2> QED
    BY <1>4, <2>1

\* The blocks of a view.
LEMMA ViewTypes ==
    ASSUME NEW N \in Views, NEW k \in Slots
    PROVE  /\ N[k] \in Blocks
           /\ N[k].entry \in Nat /\ N[k].reach \in Nat /\ N[k].max_entry \in Nat
           /\ N[k].junction \in Nat /\ N[k].rate \in Nat
BY DEF Views, Blocks

\* The reverse pass raises entry speeds, within their limits.
LEMMA ReverseFacts ==
    ASSUME NEW N \in Views, NEW c \in 1 .. BLOCK_BUFFER_SIZE - 1, NEW q \in 0 .. c - 1,
           NEW s \in Nat, Braked(N, c, s), NEW rev, Reversed(N, c, q, rev)
    PROVE  \A k \in q + 1 .. c - 1 : rev[k] \in Nat /\ N[k].entry <= rev[k] /\ rev[k] <= N[k].max_entry
<1>1. c \in Nat /\ q \in Nat /\ c - 1 \in Nat /\ q + 1 \in Nat /\ BLOCK_BUFFER_SIZE \in Nat
      /\ \A k \in 0 .. c - 1 : k \in Slots
  BY RingAssumption DEF Slots
<1>2. \A k \in 0 .. c - 1 : N[k].entry \in Nat /\ N[k].reach \in Nat /\ N[k].max_entry \in Nat
  BY <1>1, ViewTypes
<1>3. \A k \in q + 1 .. c - 1 : rev[k] \in Nat
  BY DEF Reversed
<1> DEFINE S == {k \in q + 1 .. c - 1 : N[k].entry <= rev[k] /\ rev[k] <= N[k].max_entry}
<1>4. CASE q + 1 <= c - 1
  <2>1. c - 1 \in S
    <3>1. c - 1 \in 1 .. c - 1 /\ c - 1 \in 0 .. c - 1 /\ c - 1 \in q + 1 .. c - 1 /\ c - 1 # 0
      BY <1>1, <1>4
    <3>2. N[c - 1].entry <= N[c - 1].reach /\ N[c - 1].entry <= N[c - 1].max_entry
      <4>1. N[c - 1].entry <= 0 + N[c - 1].reach /\ N[c - 1].entry <= N[c - 1].max_entry
        BY <3>1 DEF Braked, Enters, Leaves
      <4> QED
        BY <4>1, <3>1, <1>2
    <3>3. rev[c - 1] = Lesser(N[c - 1].max_entry, N[c - 1].reach)
      BY <1>4 DEF Reversed
    <3> QED
      BY <1>2, <1>3, <3>1, <3>2, <3>3 DEF Lesser
  <2>2. ASSUME NEW k \in q + 1 .. (c - 1) - 1, k + 1 \in S
        PROVE  k \in S
    <3>1. /\ k \in 0 .. c - 1 /\ k \in 1 .. c - 1 /\ k \in q + 1 .. c - 2 /\ k \in q + 1 .. c - 1 /\ k # 0 /\ k # c - 1
          /\ k + 1 \in q + 1 .. c - 1 /\ k + 1 \in 0 .. c - 1
      BY <1>1
    <3>2. N[k].entry <= N[k + 1].entry + N[k].reach /\ N[k].entry <= N[k].max_entry
      BY <3>1 DEF Braked, Enters, Leaves
    <3>3. rev[k] = IF N[k].entry = N[k].max_entry THEN N[k].entry
                   ELSE Lesser(N[k].max_entry, rev[k + 1] + N[k].reach)
      BY <3>1 DEF Reversed
    <3>4. N[k + 1].entry <= rev[k + 1] /\ rev[k + 1] \in Nat /\ rev[k] \in Nat /\ N[k + 1].entry \in Nat
      BY <2>2, <1>2, <1>3, <3>1
    <3>5. N[k].entry \in Nat /\ N[k].reach \in Nat /\ N[k].max_entry \in Nat
      BY <1>2, <3>1
    <3>6. N[k].entry <= rev[k] /\ rev[k] <= N[k].max_entry
      BY <3>2, <3>3, <3>4, <3>5 DEF Lesser
    <3> QED
      BY <3>1, <3>6
  <2>3. q + 1 .. c - 1 \subseteq S
    <3> HIDE DEF S
    <3> QED
      BY <1>1, <2>1, <2>2, DownInduction
  <2> QED
    BY <1>3, <2>3
<1>5. CASE ~(q + 1 <= c - 1)
  BY <1>1, <1>5
<1> QED
  BY <1>4, <1>5

\* What both passes make of the entry speeds.
LEMMA PlannedFacts ==
    ASSUME NEW N \in Views, NEW c \in 1 .. BLOCK_BUFFER_SIZE - 1, NEW q \in 0 .. c - 1,
           NEW s \in Nat, Braked(N, c, s),
           NEW rev, NEW M, NEW x, Planned(N, c, q, rev, M, x)
    PROVE  /\ \A k \in 0 .. c - 1 :
                /\ N[k].entry \in Nat /\ N[k].reach \in Nat /\ N[k].max_entry \in Nat /\ M[k].entry \in Nat
                /\ M[k].reach = N[k].reach /\ M[k].max_entry = N[k].max_entry
                /\ k <= q => M[k].entry = N[k].entry
           /\ \A k \in q + 1 .. c - 1 :
                /\ rev[k] \in Nat /\ N[k].entry <= rev[k] /\ rev[k] <= N[k].max_entry
                /\ M[k].entry = M[k - 1].entry + N[k - 1].reach \/ M[k].entry = rev[k]
                /\ M[k].entry <= M[k - 1].entry + N[k - 1].reach /\ M[k].entry <= rev[k]
           /\ \A k \in q + 1 .. c - 2 : rev[k] <= rev[k + 1] + N[k].reach
           /\ q + 1 <= c - 1 => rev[c - 1] <= N[c - 1].reach
<1>1. c \in Nat /\ q \in Nat /\ c - 1 \in Nat /\ q + 1 \in Nat /\ BLOCK_BUFFER_SIZE \in Nat
      /\ \A k \in 0 .. c - 1 : k \in Slots
  BY RingAssumption DEF Slots
<1>2. \A k \in 0 .. c - 1 : N[k].entry \in Nat /\ N[k].reach \in Nat /\ N[k].max_entry \in Nat
  BY <1>1, ViewTypes
<1>3. \A k \in 0 .. c - 1 :
          /\ M[k].entry \in Nat
          /\ M[k].reach = N[k].reach /\ M[k].max_entry = N[k].max_entry
          /\ k <= q => M[k].entry = N[k].entry
  <2> SUFFICES ASSUME NEW k \in 0 .. c - 1
               PROVE  /\ M[k].entry \in Nat
                      /\ M[k].reach = N[k].reach /\ M[k].max_entry = N[k].max_entry
                      /\ k <= q => M[k].entry = N[k].entry
    OBVIOUS
  <2>1. k \in Slots /\ N[k] \in Blocks /\ M[k] \in Blocks
    BY <1>1, ViewTypes DEF Planned
  <2>2. M[k] = [N[k] EXCEPT !.entry = M[k].entry] /\ (k <= q => M[k] = N[k])
    BY <2>1 DEF Planned
  <2> QED
    BY <2>1, <2>2 DEF Blocks
<1>4. \A k \in q + 1 .. c - 1 : rev[k] \in Nat /\ N[k].entry <= rev[k] /\ rev[k] <= N[k].max_entry
  BY ReverseFacts DEF Planned
<1>5. ASSUME NEW k \in q + 1 .. c - 1
      PROVE  /\ M[k].entry = M[k - 1].entry + N[k - 1].reach \/ M[k].entry = rev[k]
             /\ M[k].entry <= M[k - 1].entry + N[k - 1].reach /\ M[k].entry <= rev[k]
  <2>1. M[k].entry = Lesser(M[k - 1].entry + N[k - 1].reach, rev[k])
    BY DEF Planned
  <2>2. k - 1 \in 0 .. c - 1
    BY <1>1
  <2>3. M[k - 1].entry \in Nat /\ N[k - 1].reach \in Nat /\ rev[k] \in Nat
    BY <1>2, <1>3, <1>4, <2>2
  <2> QED
    BY <2>1, <2>3 DEF Lesser
<1>6. ASSUME NEW k \in q + 1 .. c - 2
      PROVE  rev[k] <= rev[k + 1] + N[k].reach
  <2>1. k \in 0 .. c - 1 /\ k \in q + 1 .. c - 1 /\ k + 1 \in q + 1 .. c - 1 /\ k + 1 \in 0 .. c - 1
        /\ k # 0 /\ k # c - 1
    BY <1>1
  <2>2. N[k].entry <= N[k + 1].entry + N[k].reach
    BY <2>1 DEF Braked, Enters, Leaves
  <2>3. rev[k] = IF N[k].entry = N[k].max_entry THEN N[k].entry
                 ELSE Lesser(N[k].max_entry, rev[k + 1] + N[k].reach)
    BY DEF Planned, Reversed
  <2>4. N[k].entry \in Nat /\ N[k].reach \in Nat /\ N[k].max_entry \in Nat /\ N[k + 1].entry \in Nat
        /\ rev[k + 1] \in Nat /\ N[k + 1].entry <= rev[k + 1]
    BY <1>2, <1>4, <2>1
  <2> QED
    BY <2>2, <2>3, <2>4 DEF Lesser
<1>7. q + 1 <= c - 1 => rev[c - 1] <= N[c - 1].reach
  <2> SUFFICES ASSUME q + 1 <= c - 1
               PROVE  rev[c - 1] <= N[c - 1].reach
    OBVIOUS
  <2>1. rev[c - 1] = Lesser(N[c - 1].max_entry, N[c - 1].reach)
    BY DEF Planned, Reversed
  <2>2. c - 1 \in 0 .. c - 1
    BY <1>1
  <2>3. N[c - 1].max_entry \in Nat /\ N[c - 1].reach \in Nat
    BY <1>2, <2>2
  <2> QED
    BY <2>1, <2>3 DEF Lesser
<1> QED
  BY <1>2, <1>3, <1>4, <1>5, <1>6, <1>7


\* A new plan is one the machine can brake in, if it could with the old one.
LEMMA PlannedBrakes ==
    ASSUME NEW N \in Views, NEW c \in 1 .. BLOCK_BUFFER_SIZE - 1, NEW q \in 0 .. c - 1,
           NEW s \in Nat, Braked(N, c, s), q = 0 => s <= N[0].entry,
           NEW rev, NEW M, NEW x, Planned(N, c, q, rev, M, x)
    PROVE  Braked(M, c, s)
<1>1. c \in Nat /\ q \in Nat /\ c - 1 \in Nat /\ q + 1 \in Nat /\ BLOCK_BUFFER_SIZE \in Nat
  BY RingAssumption
<1>2. /\ \A k \in 0 .. c - 1 :
           /\ N[k].entry \in Nat /\ N[k].reach \in Nat /\ N[k].max_entry \in Nat /\ M[k].entry \in Nat
           /\ M[k].reach = N[k].reach /\ M[k].max_entry = N[k].max_entry
           /\ k <= q => M[k].entry = N[k].entry
      /\ \A k \in q + 1 .. c - 1 :
           /\ rev[k] \in Nat /\ N[k].entry <= rev[k] /\ rev[k] <= N[k].max_entry
           /\ M[k].entry = M[k - 1].entry + N[k - 1].reach \/ M[k].entry = rev[k]
           /\ M[k].entry <= M[k - 1].entry + N[k - 1].reach /\ M[k].entry <= rev[k]
      /\ \A k \in q + 1 .. c - 2 : rev[k] <= rev[k + 1] + N[k].reach
      /\ q + 1 <= c - 1 => rev[c - 1] <= N[c - 1].reach
  BY PlannedFacts
<1>3. ASSUME NEW k \in 1 .. c - 1
      PROVE  M[k].entry <= M[k].max_entry
  <2>1. k \in 0 .. c - 1 /\ N[k].entry <= N[k].max_entry
    BY <1>1 DEF Braked
  <2>2. CASE k <= q
    BY <1>2, <2>1, <2>2
  <2>3. CASE ~(k <= q)
    <3>1. k \in q + 1 .. c - 1
      BY <1>1, <2>3
    <3> QED
      BY <1>2, <2>1, <3>1
  <2> QED
    BY <2>2, <2>3
<1>4. ASSUME NEW k \in 0 .. c - 1
      PROVE  Enters(M, s, k) <= Leaves(M, c, k) + M[k].reach
  <2>1. Enters(N, s, k) <= Leaves(N, c, k) + N[k].reach
    BY DEF Braked
  <2>2. N[k].entry \in Nat /\ N[k].reach \in Nat /\ M[k].entry \in Nat /\ M[k].reach = N[k].reach
        /\ (k <= q => M[k].entry = N[k].entry)
    BY <1>2
  <2>3. CASE k = c - 1
    <3>1. CASE k <= q
      BY <2>1, <2>2, <2>3, <3>1 DEF Enters, Leaves
    <3>2. CASE ~(k <= q)
      <4>1. k \in q + 1 .. c - 1 /\ k # 0 /\ q + 1 <= c - 1
        BY <1>1, <3>2
      <4>2. M[k].entry <= rev[k] /\ rev[k] <= N[k].reach /\ rev[k] \in Nat
        BY <1>2, <2>3, <4>1
      <4>3. M[k].entry <= 0 + M[k].reach
        BY <2>2, <4>2
      <4> QED
        BY <2>3, <4>1, <4>3 DEF Enters, Leaves
    <3> QED
      BY <3>1, <3>2
  <2>4. CASE k # c - 1
    <3>1. k + 1 \in 0 .. c - 1 /\ k \in Nat
      BY <1>1, <2>4
    <3>2. N[k + 1].entry \in Nat /\ M[k + 1].entry \in Nat /\ (k + 1 <= q => M[k + 1].entry = N[k + 1].entry)
      BY <1>2, <3>1
    <3>3. Enters(N, s, k) <= N[k + 1].entry + N[k].reach
      BY <2>1, <2>4 DEF Leaves
    <3>4. CASE k + 1 <= q
      <4>1. Enters(M, s, k) = Enters(N, s, k) /\ M[k + 1].entry = N[k + 1].entry
        <5>1. k <= q
          BY <1>1, <3>1, <3>4
        <5> QED
          BY <2>2, <3>2, <3>4, <5>1 DEF Enters
      <4> QED
        BY <2>2, <2>4, <3>3, <4>1 DEF Leaves
    <3>5. CASE k = q
      <4>1. Enters(M, s, k) = Enters(N, s, k) /\ Enters(M, s, k) <= M[k].entry /\ Enters(M, s, k) \in Nat
        BY <1>1, <2>2, <3>5 DEF Enters
      <4>2. k + 1 \in q + 1 .. c - 1 /\ (k + 1) - 1 = k
        BY <1>1, <3>1, <3>5
      <4>3. /\ rev[k + 1] \in Nat /\ N[k + 1].entry <= rev[k + 1]
            /\ M[k + 1].entry = M[k].entry + N[k].reach \/ M[k + 1].entry = rev[k + 1]
        BY <1>2, <4>2
      <4>4. Enters(M, s, k) <= M[k + 1].entry + M[k].reach
        BY <2>2, <3>2, <3>3, <4>1, <4>3
      <4> QED
        BY <2>4, <4>4 DEF Leaves
    <3>6. CASE k >= q + 1
      <4>1. k \in q + 1 .. c - 2 /\ k \in q + 1 .. c - 1 /\ k + 1 \in q + 1 .. c - 1 /\ (k + 1) - 1 = k /\ k # 0
        BY <1>1, <2>4, <3>1, <3>6
      <4>2. /\ rev[k + 1] \in Nat /\ rev[k] \in Nat /\ rev[k] <= rev[k + 1] + N[k].reach
            /\ M[k].entry <= rev[k]
            /\ M[k + 1].entry = M[k].entry + N[k].reach \/ M[k + 1].entry = rev[k + 1]
        BY <1>2, <4>1
      <4>3. M[k].entry <= M[k + 1].entry + M[k].reach
        BY <2>2, <3>2, <4>2
      <4> QED
        BY <2>4, <4>1, <4>3 DEF Enters, Leaves
    <3> QED
      BY <1>1, <3>1, <3>4, <3>5, <3>6
  <2> QED
    BY <2>3, <2>4
<1> QED
  BY <1>3, <1>4 DEF Braked

\* A new plan is one the machine can speed up in, and no entry speed of it can be
\* raised, if that was so up to the planned pointer.
LEMMA PlannedBest ==
    ASSUME NEW N \in Views, NEW c \in 1 .. BLOCK_BUFFER_SIZE - 1, NEW q \in 0 .. c - 1,
           NEW s \in Nat, Braked(N, c, s), q = 0 => s = N[0].entry,
           \A k \in 0 .. q - 1 : N[k + 1].entry <= Enters(N, s, k) + N[k].reach,
           \A k \in 1 .. q - 1 : Pressed(N, s, k) \/ N[k].entry = N[k + 1].entry + N[k].reach,
           q >= 1 => Pressed(N, s, q),
           NEW rev, NEW M, NEW x, Planned(N, c, q, rev, M, x)
    PROVE  Driven(M, c, s) /\ Tight(M, c, s, x) /\ x \in 0 .. c - 1
<1>1. c \in Nat /\ q \in Nat /\ c - 1 \in Nat /\ q + 1 \in Nat /\ BLOCK_BUFFER_SIZE \in Nat
  BY RingAssumption
<1>2. /\ \A k \in 0 .. c - 1 :
           /\ N[k].entry \in Nat /\ N[k].reach \in Nat /\ N[k].max_entry \in Nat /\ M[k].entry \in Nat
           /\ M[k].reach = N[k].reach /\ M[k].max_entry = N[k].max_entry
           /\ k <= q => M[k].entry = N[k].entry
      /\ \A k \in q + 1 .. c - 1 :
           /\ rev[k] \in Nat /\ N[k].entry <= rev[k] /\ rev[k] <= N[k].max_entry
           /\ M[k].entry = M[k - 1].entry + N[k - 1].reach \/ M[k].entry = rev[k]
           /\ M[k].entry <= M[k - 1].entry + N[k - 1].reach /\ M[k].entry <= rev[k]
      /\ \A k \in q + 1 .. c - 2 : rev[k] <= rev[k + 1] + N[k].reach
      /\ q + 1 <= c - 1 => rev[c - 1] <= N[c - 1].reach
  BY PlannedFacts
<1>3. \A k \in 0 .. c - 1 : Enters(M, s, k) \in Nat
  BY <1>2 DEF Enters
<1>4. \A k \in 0 .. c - 1 : k <= q => Enters(M, s, k) = Enters(N, s, k)
  BY <1>2 DEF Enters
<1>5. \A k \in 0 .. c - 1 : k >= q => Enters(M, s, k) = M[k].entry
  <2> SUFFICES ASSUME NEW k \in 0 .. c - 1, k >= q
               PROVE  Enters(M, s, k) = M[k].entry
    OBVIOUS
  <2>1. CASE k # 0
    BY <2>1 DEF Enters
  <2>2. CASE k = 0
    <3>1. q = 0
      BY <1>1, <2>2
    <3>2. M[0].entry = N[0].entry
      BY <1>1, <1>2, <2>2
    <3> QED
      BY <2>2, <3>1, <3>2 DEF Enters
  <2> QED
    BY <2>1, <2>2
<1>6. ASSUME NEW k \in 0 .. c - 1
      PROVE  Leaves(M, c, k) <= Enters(M, s, k) + M[k].reach
  <2>1. M[k].reach \in Nat /\ M[k].reach = N[k].reach /\ Enters(M, s, k) \in Nat /\ k \in Nat
    BY <1>1, <1>2, <1>3
  <2>2. CASE k = c - 1
    <3>1. Leaves(M, c, k) = 0
      BY <2>2 DEF Leaves
    <3> QED
      BY <2>1, <3>1
  <2>3. CASE k # c - 1
    <3>1. k + 1 \in 0 .. c - 1 /\ Leaves(M, c, k) = M[k + 1].entry
      BY <1>1, <2>3 DEF Leaves
    <3>2. CASE k + 1 <= q
      <4>1. k \in 0 .. q - 1 /\ k <= q
        BY <1>1, <3>2
      <4>2. M[k + 1].entry = N[k + 1].entry
        BY <1>2, <3>1, <3>2
      <4>3. N[k + 1].entry <= Enters(N, s, k) + N[k].reach
        BY <4>1
      <4> QED
        BY <1>4, <2>1, <3>1, <4>1, <4>2, <4>3
    <3>3. CASE k >= q
      <4>1. k + 1 \in q + 1 .. c - 1 /\ (k + 1) - 1 = k
        BY <1>1, <3>1, <3>3
      <4>2. M[k + 1].entry <= M[k].entry + N[k].reach
        BY <1>2, <4>1
      <4> QED
        BY <1>5, <2>1, <3>1, <3>3, <4>2
    <3> QED
      BY <1>1, <3>2, <3>3
  <2> QED
    BY <2>2, <2>3
<1>7. ASSUME NEW k \in 1 .. c - 1, k <= q, Pressed(N, s, k)
      PROVE  Pressed(M, s, k)
  <2>1. k - 1 \in 0 .. c - 1 /\ k \in 0 .. c - 1 /\ k - 1 <= q
    BY <1>1, <1>7
  <2>2. M[k].entry = N[k].entry /\ M[k].max_entry = N[k].max_entry /\ M[k - 1].reach = N[k - 1].reach
        /\ Enters(M, s, k - 1) = Enters(N, s, k - 1)
    BY <1>2, <1>4, <1>7, <2>1
  <2> QED
    BY <1>7, <2>2 DEF Pressed
<1>8. ASSUME NEW k \in q + 1 .. c - 1, M[k].entry = M[k - 1].entry + N[k - 1].reach
      PROVE  Pressed(M, s, k)
  <2>1. k - 1 \in 0 .. c - 1 /\ k - 1 >= q
    BY <1>1
  <2>2. M[k - 1].reach = N[k - 1].reach /\ Enters(M, s, k - 1) = M[k - 1].entry
    BY <1>2, <1>5, <2>1
  <2> QED
    BY <1>8, <2>2 DEF Pressed
<1>9. ASSUME NEW k \in q + 1 .. c - 1
      PROVE  Pressed(M, s, k) \/ M[k].entry = Leaves(M, c, k) + M[k].reach
  <2>1. k \in 0 .. c - 1
    BY <1>1
  <2>2. N[k].reach \in Nat /\ N[k].max_entry \in Nat /\ M[k].reach = N[k].reach /\ M[k].max_entry = N[k].max_entry
        /\ M[k].entry \in Nat
    BY <1>2, <2>1
  <2>3. CASE M[k].entry = M[k - 1].entry + N[k - 1].reach
    BY <1>8, <2>3
  <2>4. CASE M[k].entry = rev[k]
    <3>1. CASE rev[k] = N[k].max_entry
      BY <2>2, <2>4, <3>1 DEF Pressed
    <3>2. CASE rev[k] # N[k].max_entry /\ k = c - 1
      <4>1. rev[k] = Lesser(N[k].max_entry, N[k].reach)
        BY <1>1, <3>2 DEF Planned, Reversed
      <4>2. rev[k] = 0 + N[k].reach
        BY <2>2, <3>2, <4>1 DEF Lesser
      <4> QED
        BY <2>2, <2>4, <3>2, <4>2 DEF Leaves
    <3>3. CASE rev[k] # N[k].max_entry /\ k # c - 1
      <4>1. k \in q + 1 .. c - 2 /\ k + 1 \in q + 1 .. c - 1 /\ (k + 1) - 1 = k
        BY <1>1, <3>3
      <4>2. rev[k] = IF N[k].entry = N[k].max_entry THEN N[k].entry
                     ELSE Lesser(N[k].max_entry, rev[k + 1] + N[k].reach)
        BY <4>1 DEF Planned, Reversed
      <4>3. rev[k + 1] \in Nat /\ M[k + 1].entry = Lesser(M[k].entry + N[k].reach, rev[k + 1])
        BY <1>2, <4>1 DEF Planned
      <4>4. rev[k] = rev[k + 1] + N[k].reach
        BY <2>2, <3>3, <4>2, <4>3 DEF Lesser
      <4>5. M[k + 1].entry = rev[k + 1]
        BY <2>2, <2>4, <4>3, <4>4 DEF Lesser
      <4>6. Leaves(M, c, k) = M[k + 1].entry
        BY <3>3 DEF Leaves
      <4> QED
        BY <2>2, <2>4, <4>4, <4>5, <4>6
    <3> QED
      BY <3>1, <3>2, <3>3
  <2> QED
    BY <1>2, <2>3, <2>4
<1>10. ASSUME NEW k \in 1 .. c - 1
       PROVE  Pressed(M, s, k) \/ M[k].entry = Leaves(M, c, k) + M[k].reach
  <2>1. CASE k <= q - 1
    <3>1. k \in 1 .. q - 1 /\ k \in 0 .. c - 1 /\ k + 1 \in 0 .. c - 1 /\ k <= q /\ k + 1 <= q /\ k # c - 1
      BY <1>1, <2>1
    <3>2. M[k].entry = N[k].entry /\ M[k + 1].entry = N[k + 1].entry /\ M[k].reach = N[k].reach
          /\ Leaves(M, c, k) = M[k + 1].entry
      BY <1>2, <3>1 DEF Leaves
    <3>3. Pressed(N, s, k) \/ N[k].entry = N[k + 1].entry + N[k].reach
      BY <3>1
    <3> QED
      BY <1>7, <3>1, <3>2, <3>3
  <2>2. CASE k = q
    <3>1. Pressed(N, s, k)
      BY <2>2
    <3> QED
      BY <1>1, <1>7, <2>2, <3>1
  <2>3. CASE k >= q + 1
    BY <1>1, <1>9, <2>3
  <2> QED
    BY <1>1, <2>1, <2>2, <2>3
<1>11. x = q \/ (x \in q + 1 .. c - 1 /\ (M[x].entry < rev[x] \/ M[x].entry = N[x].max_entry))
  BY DEF Planned
<1>12. x \in 0 .. c - 1
  BY <1>1, <1>11
<1>13. ASSUME x >= 1
       PROVE  Pressed(M, s, x)
  <2>1. CASE x = q
    <3>1. x \in 1 .. c - 1 /\ x <= q /\ Pressed(N, s, x)
      BY <1>1, <1>13, <2>1
    <3> QED
      BY <1>7, <3>1
  <2>2. CASE x \in q + 1 .. c - 1 /\ M[x].entry < rev[x]
    <3>1. M[x].entry = M[x - 1].entry + N[x - 1].reach \/ M[x].entry = rev[x]
      BY <1>2, <2>2
    <3>2. M[x].entry # rev[x]
      BY <1>2, <1>12, <2>2
    <3> QED
      BY <1>8, <2>2, <3>1, <3>2
  <2>3. CASE x \in q + 1 .. c - 1 /\ M[x].entry = N[x].max_entry
    BY <1>2, <1>12, <2>3 DEF Pressed
  <2> QED
    BY <1>11, <2>1, <2>2, <2>3
<1> QED
  BY <1>6, <1>10, <1>12, <1>13 DEF Driven, Tight

\* The lengths left from each block to the end of the plan.
Distances(N, c, w) ==
    w \in [0 .. c -> Nat] /\ w[c] = 0 /\ \A k \in 0 .. c - 1 : w[k] = w[k + 1] + N[k].reach

\* No entry speed is more than what the distance left to the end allows to stop from:
\* a new plan keeps that, whatever limits it is made for.
LEMMA PlannedStops ==
    ASSUME NEW N \in Views, NEW c \in 1 .. BLOCK_BUFFER_SIZE - 1, NEW q \in 0 .. c - 1,
           NEW w, Distances(N, c, w), \A k \in q + 1 .. c - 1 : N[k].entry <= w[k],
           NEW rev, NEW M, NEW x, Planned(N, c, q, rev, M, x)
    PROVE  \A k \in q + 1 .. c - 1 : M[k].entry <= w[k]
<1>1. c \in Nat /\ q \in Nat /\ c - 1 \in Nat /\ q + 1 \in Nat /\ BLOCK_BUFFER_SIZE \in Nat
      /\ \A k \in 0 .. c - 1 : k \in Slots /\ k \in 0 .. c
  BY RingAssumption DEF Slots
<1>2. \A k \in 0 .. c - 1 : /\ N[k].entry \in Nat /\ N[k].reach \in Nat /\ N[k].max_entry \in Nat
                            /\ M[k].entry \in Nat /\ w[k] \in Nat
  BY <1>1, ViewTypes DEF Distances, Planned
<1>3. \A k \in q + 1 .. c - 1 : rev[k] \in Nat
  BY DEF Planned, Reversed
<1> DEFINE S == {k \in q + 1 .. c - 1 : rev[k] <= w[k]}
<1>4. CASE q + 1 <= c - 1
  <2>1. c - 1 \in S
    <3>1. c - 1 \in 0 .. c - 1 /\ c - 1 \in q + 1 .. c - 1 /\ (c - 1) + 1 = c
      BY <1>1, <1>4
    <3>2. w[c - 1] = 0 + N[c - 1].reach
      BY <3>1 DEF Distances
    <3>3. rev[c - 1] = Lesser(N[c - 1].max_entry, N[c - 1].reach)
      BY <1>4 DEF Planned, Reversed
    <3>4. N[c - 1].max_entry \in Nat /\ N[c - 1].reach \in Nat
      BY <1>2, <3>1
    <3> QED
      BY <3>1, <3>2, <3>3, <3>4 DEF Lesser
  <2>2. ASSUME NEW k \in q + 1 .. (c - 1) - 1, k + 1 \in S
        PROVE  k \in S
    <3>1. /\ k \in 0 .. c - 1 /\ k \in q + 1 .. c - 2 /\ k \in q + 1 .. c - 1
          /\ k + 1 \in q + 1 .. c - 1 /\ k + 1 \in 0 .. c - 1
      BY <1>1
    <3>2. w[k] = w[k + 1] + N[k].reach
      BY <3>1 DEF Distances
    <3>3. rev[k] = IF N[k].entry = N[k].max_entry THEN N[k].entry
                   ELSE Lesser(N[k].max_entry, rev[k + 1] + N[k].reach)
      BY <3>1 DEF Planned, Reversed
    <3>4. rev[k + 1] <= w[k + 1] /\ rev[k + 1] \in Nat /\ w[k + 1] \in Nat /\ N[k].entry <= w[k]
      BY <2>2, <1>2, <1>3, <3>1
    <3>5. N[k].entry \in Nat /\ N[k].reach \in Nat /\ N[k].max_entry \in Nat
      BY <1>2, <3>1
    <3>6. rev[k] <= w[k]
      BY <3>2, <3>3, <3>4, <3>5 DEF Lesser
    <3> QED
      BY <3>1, <3>6
  <2>3. q + 1 .. c - 1 \subseteq S
    <3> HIDE DEF S
    <3> QED
      BY <1>1, <2>1, <2>2, DownInduction
  <2>4. ASSUME NEW k \in q + 1 .. c - 1
        PROVE  M[k].entry <= w[k]
    <3>1. M[k].entry = Lesser(M[k - 1].entry + N[k - 1].reach, rev[k]) /\ rev[k] \in Nat /\ rev[k] <= w[k]
      BY <1>3, <2>3 DEF Planned
    <3>2. k \in 0 .. c - 1 /\ k - 1 \in 0 .. c - 1
      BY <1>1
    <3>3. M[k - 1].entry \in Nat /\ N[k - 1].reach \in Nat /\ w[k] \in Nat
      BY <1>2, <3>2
    <3> QED
      BY <3>1, <3>3 DEF Lesser
  <2> QED
    BY <2>4
<1>5. CASE ~(q + 1 <= c - 1)
  BY <1>1, <1>5
<1> QED
  BY <1>4, <1>5


-----------------------------------------------------------------------------
(* What planner_recalculate does to the ring, seen from its tail. *)

\* Walking on, walking back, and the distance between two slots.
LEMMA AheadAhead ==
    ASSUME NEW t \in Slots, NEW i \in Slots, NEW j \in Slots
    PROVE  /\ Ahead(t, i) \in Slots
           /\ i + j < BLOCK_BUFFER_SIZE => Ahead(Ahead(t, i), j) = Ahead(t, i + j)
           /\ j <= i => Ahead(Ahead(t, i), BLOCK_BUFFER_SIZE - j) = Ahead(t, i - j)
           /\ Ahead(Ahead(t, i), BLOCK_BUFFER_SIZE - Ahead(t, j)) =
                 IF j <= i THEN i - j ELSE i - j + BLOCK_BUFFER_SIZE
           /\ Ahead(t, i) = Ahead(t, j) => i = j
<1>1. BLOCK_BUFFER_SIZE \in Nat /\ BLOCK_BUFFER_SIZE > 1
      /\ i \in 0 .. BLOCK_BUFFER_SIZE - 1 /\ j \in 0 .. BLOCK_BUFFER_SIZE - 1 /\ t \in 0 .. BLOCK_BUFFER_SIZE - 1
  BY RingAssumption DEF Slots
<1> DEFINE Z == BLOCK_BUFFER_SIZE
           Step(x, k) == IF x + k < Z THEN x + k ELSE x + k - Z
           a == Ahead(t, i)
           b == Ahead(t, j)
<1>2. /\ a = Step(t, i) /\ a \in Slots /\ b = Step(t, j) /\ b \in Slots
  <2>1. i \in 0 .. Z /\ j \in 0 .. Z
    BY <1>1
  <2> QED
    BY <2>1, AheadSlot
<1> HIDE DEF a, b
<1>3. a \in 0 .. Z - 1 /\ b \in 0 .. Z - 1
  BY <1>2 DEF Slots
<1>4. Ahead(a, j) = Step(a, j) /\ Ahead(a, Z - j) = Step(a, Z - j) /\ Ahead(a, Z - b) = Step(a, Z - b)
  <2>1. j \in 0 .. Z /\ Z - j \in 0 .. Z /\ Z - b \in 0 .. Z
    BY <1>1, <1>3
  <2> QED
    BY <1>2, <2>1, AheadSlot
<1>5. i + j < Z => Ahead(t, i + j) = Step(t, i + j)
  <2> SUFFICES ASSUME i + j < Z
               PROVE  Ahead(t, i + j) = Step(t, i + j)
    OBVIOUS
  <2>1. i + j \in 0 .. Z
    BY <1>1
  <2> QED
    BY <2>1, AheadSlot
<1>6. j <= i => Ahead(t, i - j) = Step(t, i - j)
  <2> SUFFICES ASSUME j <= i
               PROVE  Ahead(t, i - j) = Step(t, i - j)
    OBVIOUS
  <2>1. i - j \in 0 .. Z
    BY <1>1
  <2> QED
    BY <2>1, AheadSlot
<1>7. i + j < Z => Ahead(a, j) = Ahead(t, i + j)
  BY <1>1, <1>2, <1>3, <1>4, <1>5
<1>8. j <= i => Ahead(a, Z - j) = Ahead(t, i - j)
  BY <1>1, <1>2, <1>3, <1>4, <1>6
<1>9. Ahead(a, Z - b) = IF j <= i THEN i - j ELSE i - j + Z
  BY <1>1, <1>2, <1>3, <1>4
<1>10. a = b => i = j
  BY <1>1, <1>2
<1> QED
  BY <1>2, <1>7, <1>8, <1>9, <1>10 DEF a, b

\* Every slot is some way ahead of another.
LEMMA SlotAhead ==
    ASSUME NEW t \in Slots, NEW i \in Slots
    PROVE  \E k \in Slots : i = Ahead(t, k)
<1>1. BLOCK_BUFFER_SIZE \in Nat /\ BLOCK_BUFFER_SIZE > 1
      /\ i \in 0 .. BLOCK_BUFFER_SIZE - 1 /\ t \in 0 .. BLOCK_BUFFER_SIZE - 1
  BY RingAssumption DEF Slots
<1> DEFINE k == IF i >= t THEN i - t ELSE i - t + BLOCK_BUFFER_SIZE
<1>2. k \in 0 .. BLOCK_BUFFER_SIZE - 1 /\ k \in 0 .. BLOCK_BUFFER_SIZE
      /\ i = IF t + k < BLOCK_BUFFER_SIZE THEN t + k ELSE t + k - BLOCK_BUFFER_SIZE
  BY <1>1
<1>3. i = Ahead(t, k)
  <2> HIDE DEF k
  <2> QED
    BY <1>2, AheadSlot
<1> QED
  BY <1>2, <1>3 DEF Slots

\* The slot no way ahead, and the one before the slot c ahead.
LEMMA AheadNone ==
    ASSUME NEW t \in Slots
    PROVE  0 \in Slots /\ Ahead(t, 0) = t
<1>1. BLOCK_BUFFER_SIZE \in Nat /\ BLOCK_BUFFER_SIZE > 1 /\ t \in 0 .. BLOCK_BUFFER_SIZE - 1
  BY RingAssumption DEF Slots
<1>2. 0 \in 0 .. BLOCK_BUFFER_SIZE /\ 0 \in Slots
  BY <1>1 DEF Slots
<1> QED
  BY <1>1, <1>2, AheadSlot

LEMMA PrevAhead ==
    ASSUME NEW t \in Slots, NEW c \in 1 .. BLOCK_BUFFER_SIZE - 1
    PROVE  plan_prev_block_index(Ahead(t, c)) = Ahead(t, c - 1)
<1>1. BLOCK_BUFFER_SIZE \in Nat /\ BLOCK_BUFFER_SIZE > 1 /\ t \in 0 .. BLOCK_BUFFER_SIZE - 1
      /\ c \in 0 .. BLOCK_BUFFER_SIZE /\ c - 1 \in 0 .. BLOCK_BUFFER_SIZE
  BY RingAssumption DEF Slots
<1>2. /\ Ahead(t, c) = IF t + c < BLOCK_BUFFER_SIZE THEN t + c ELSE t + c - BLOCK_BUFFER_SIZE
      /\ Ahead(t, c - 1) = IF t + (c - 1) < BLOCK_BUFFER_SIZE THEN t + (c - 1) ELSE t + (c - 1) - BLOCK_BUFFER_SIZE
  BY <1>1, AheadSlot
<1> QED
  BY <1>1, <1>2 DEF plan_prev_block_index

LEMMA NextAhead ==
    ASSUME NEW t \in Slots, NEW c \in Slots, c + 1 \in Slots
    PROVE  plan_next_block_index(Ahead(t, c)) = Ahead(t, c + 1)
<1>1. BLOCK_BUFFER_SIZE \in Nat /\ BLOCK_BUFFER_SIZE > 1 /\ t \in 0 .. BLOCK_BUFFER_SIZE - 1
      /\ c \in 0 .. BLOCK_BUFFER_SIZE /\ c + 1 \in 0 .. BLOCK_BUFFER_SIZE
  BY RingAssumption DEF Slots
<1>2. /\ Ahead(t, c) = IF t + c < BLOCK_BUFFER_SIZE THEN t + c ELSE t + c - BLOCK_BUFFER_SIZE
      /\ Ahead(t, c + 1) = IF t + (c + 1) < BLOCK_BUFFER_SIZE THEN t + (c + 1) ELSE t + (c + 1) - BLOCK_BUFFER_SIZE
  BY <1>1, AheadSlot
<1> QED
  BY <1>1, <1>2 DEF plan_next_block_index

\* N is what is seen of the ring b from slot t on.
Seen(b, t, N) == \A k \in Slots : b[Ahead(t, k)] = N[k]

\* A view with other entry speeds after the planned pointer.
Lowered(N, c, q, rev) ==
    [k \in Slots |-> IF k \in q + 1 .. c - 1 THEN [N[k] EXCEPT !.entry = rev[k]] ELSE N[k]]

\* The view that the forward pass leaves, with the planned pointer at x.
Forwarded(N, c, q, M, x) ==
    /\ M \in Views
    /\ \A k \in Slots : M[k] = [N[k] EXCEPT !.entry = M[k].entry]
    /\ \A k \in Slots : k <= q \/ k >= c => M[k] = N[k]
    /\ \A k \in q + 1 .. c - 1 : M[k].entry = Lesser(M[k - 1].entry + N[k - 1].reach, N[k].entry)
    /\ \/ x = q
       \/ x \in q + 1 .. c - 1 /\ OptimalBreak(N[x], M[x].entry)

\* The speeds of the reverse pass, by what they satisfy.
ReverseOf(buffer, last, n, rev) ==
    /\ rev \in [0 .. n - 1 -> Nat]
    /\ rev[0] = LastEntrySpeed(Behind(buffer, last, 0))
    /\ \A j \in 1 .. n - 1 :
          LET b == Behind(buffer, last, j)
          IN  rev[j] = IF b.entry = b.max_entry THEN b.entry ELSE Lesser(b.max_entry, rev[j - 1] + b.reach)

LEMMA ReverseOfSpeeds ==
    ASSUME NEW buffer \in Buffers, NEW last \in Slots, NEW n \in 1 .. BLOCK_BUFFER_SIZE - 1
    PROVE  ReverseOf(buffer, last, n, ReverseSpeeds(buffer, last, n))
<1>1. PICK rev : rev = ReverseSpeeds(buffer, last, n)
  OBVIOUS
<1>2. ReverseOf(buffer, last, n, rev)
  BY <1>1, ReverseSpeedsDefined DEF ReverseOf
<1> QED
  BY <1>1, <1>2

\* The reverse pass over the n blocks up to the last of c.
LEMMA ReverseView ==
    ASSUME NEW b \in Buffers, NEW t \in Slots, NEW N \in Views, Seen(b, t, N),
           NEW c \in 1 .. BLOCK_BUFFER_SIZE - 1, NEW q \in 0 .. c - 2,
           NEW last, last = Ahead(t, c - 1), NEW n, n = c - 1 - q,
           NEW d, d = ReversePass(b, last, n)
    PROVE  \E rev : Reversed(N, c, q, rev) /\ Seen(d, t, Lowered(N, c, q, rev))
<1>1. /\ BLOCK_BUFFER_SIZE \in Nat /\ BLOCK_BUFFER_SIZE > 1 /\ c \in Nat /\ q \in Nat
      /\ n \in 1 .. BLOCK_BUFFER_SIZE - 1 /\ c - 1 \in Slots /\ c - 1 \in Nat
      /\ c <= BLOCK_BUFFER_SIZE - 1 /\ n - 1 = c - 1 - (q + 1)
  BY RingAssumption DEF Slots
<1>2. last \in Slots
  BY <1>1, AheadAhead
<1>0. PICK rv : rv = ReverseSpeeds(b, last, n)
  OBVIOUS
<1> DEFINE back(i) == Ahead(last, BLOCK_BUFFER_SIZE - i)
           rev == [k \in q + 1 .. c - 1 |-> rv[c - 1 - k]]
<1>3. /\ rv \in [0 .. n - 1 -> Nat]
      /\ rv[0] = LastEntrySpeed(Behind(b, last, 0))
      /\ \A j \in 1 .. n - 1 :
            rv[j] = IF Behind(b, last, j).entry = Behind(b, last, j).max_entry THEN Behind(b, last, j).entry
                    ELSE Lesser(Behind(b, last, j).max_entry, rv[j - 1] + Behind(b, last, j).reach)
  <2>1. b \in Buffers /\ n \in 1 .. BLOCK_BUFFER_SIZE - 1
    BY <1>1
  <2>2. ReverseOf(b, last, n, rv)
    BY ONLY <1>0, <1>2, <2>1, ReverseOfSpeeds
  <2> QED
    BY ONLY <2>2 DEF ReverseOf
<1>4. \A i \in Slots : d[i] = IF back(i) < n THEN [b[i] EXCEPT !.entry = rv[back(i)]] ELSE b[i]
  BY <1>0 DEF ReversePass
<1>5. \A k \in q + 1 .. c - 1 : /\ c - 1 - k \in 0 .. n - 1 /\ k \in Slots
                                /\ Behind(b, last, c - 1 - k) = N[k]
  <2> SUFFICES ASSUME NEW k \in q + 1 .. c - 1
               PROVE  /\ c - 1 - k \in 0 .. n - 1 /\ k \in Slots
                      /\ Behind(b, last, c - 1 - k) = N[k]
    OBVIOUS
  <2>1. c - 1 - k \in 0 .. n - 1 /\ k \in Slots /\ c - 1 - k \in Slots /\ c - 1 - k <= c - 1
        /\ (c - 1) - (c - 1 - k) = k
    BY <1>1 DEF Slots
  <2>2. Ahead(last, BLOCK_BUFFER_SIZE - (c - 1 - k)) = Ahead(t, k)
    BY <1>1, <2>1, AheadAhead
  <2> QED
    BY <2>1, <2>2 DEF Behind, Seen
<1>6. rev \in [q + 1 .. c - 1 -> Nat]
  BY <1>3, <1>5
<1>7. rev[c - 1] = Lesser(N[c - 1].max_entry, N[c - 1].reach)
  <2>1. c - 1 \in q + 1 .. c - 1 /\ c - 1 - (c - 1) = 0
    BY <1>1
  <2>2. rev[c - 1] = rv[0] /\ Behind(b, last, 0) = N[c - 1]
    BY <1>5, <2>1
  <2> HIDE DEF rev
  <2> QED
    BY <1>3, <2>2 DEF LastEntrySpeed
<1>8. ASSUME NEW k \in q + 1 .. c - 2
      PROVE  rev[k] = IF N[k].entry = N[k].max_entry THEN N[k].entry
                      ELSE Lesser(N[k].max_entry, rev[k + 1] + N[k].reach)
  <2>1. k \in q + 1 .. c - 1 /\ k + 1 \in q + 1 .. c - 1 /\ c - 1 - k \in 1 .. n - 1
        /\ c - 1 - (k + 1) = (c - 1 - k) - 1
    BY <1>1
  <2>2. rev[k] = rv[c - 1 - k] /\ rev[k + 1] = rv[(c - 1 - k) - 1] /\ Behind(b, last, c - 1 - k) = N[k]
    BY <1>5, <2>1
  <2> HIDE DEF rev
  <2> QED
    BY <1>3, <2>1, <2>2
<1>9. Reversed(N, c, q, rev)
  <2> HIDE DEF rev
  <2> QED
    BY <1>6, <1>7, <1>8 DEF Reversed
<1>10. ASSUME NEW k \in Slots
       PROVE  d[Ahead(t, k)] = Lowered(N, c, q, rev)[k]
  <2>1. Ahead(t, k) \in Slots /\ back(Ahead(t, k)) = IF k <= c - 1 THEN c - 1 - k ELSE c - 1 - k + BLOCK_BUFFER_SIZE
    BY <1>1, AheadAhead
  <2>2. b[Ahead(t, k)] = N[k]
    BY DEF Seen
  <2>3. k \in Nat /\ k < BLOCK_BUFFER_SIZE
    BY <1>1 DEF Slots
  <2>4. CASE k \in q + 1 .. c - 1
    <3>1. back(Ahead(t, k)) = c - 1 - k /\ c - 1 - k < n
      BY <1>1, <2>1, <2>3, <2>4
    <3>2. rev[k] = rv[c - 1 - k]
      BY <2>4
    <3> HIDE DEF rev
    <3>3. d[Ahead(t, k)] = [b[Ahead(t, k)] EXCEPT !.entry = rv[back(Ahead(t, k))]]
      BY <1>4, <2>1, <3>1, Zenon
    <3> HIDE DEF back
    <3>4. d[Ahead(t, k)] = [N[k] EXCEPT !.entry = rev[k]]
      BY ONLY <2>2, <3>1, <3>2, <3>3, Zenon
    <3>5. Lowered(N, c, q, rev)[k] = [N[k] EXCEPT !.entry = rev[k]]
      BY <2>4 DEF Lowered
    <3> QED
      BY <3>4, <3>5
  <2>5. CASE k \notin q + 1 .. c - 1
    <3>1. ~(back(Ahead(t, k)) < n)
      BY <1>1, <2>1, <2>3, <2>5
    <3>2. d[Ahead(t, k)] = b[Ahead(t, k)]
      BY <1>4, <2>1, <3>1, Zenon
    <3> HIDE DEF rev
    <3>3. Lowered(N, c, q, rev)[k] = N[k]
      BY <2>5 DEF Lowered
    <3> QED
      BY <2>2, <3>2, <3>3
  <2> QED
    BY <2>4, <2>5
<1> HIDE DEF rev
<1>11. Seen(d, t, Lowered(N, c, q, rev))
  BY <1>10 DEF Seen
<1> QED
  BY <1>9, <1>11


\* The forward pass over the n blocks after the one the planned pointer is at.
LEMMA ForwardView ==
    ASSUME NEW b \in Buffers, NEW t \in Slots, NEW N \in Views, Seen(b, t, N),
           NEW c \in 1 .. BLOCK_BUFFER_SIZE - 1, NEW q \in 0 .. c - 2,
           NEW first, first = Ahead(t, q), NEW n, n = c - 1 - q,
           NEW f, f = ForwardPass(b, first, n)
    PROVE  \E M, x : Forwarded(N, c, q, M, x) /\ Seen(f.buffer, t, M) /\ f.planned = Ahead(t, x)
<1>1. /\ BLOCK_BUFFER_SIZE \in Nat /\ BLOCK_BUFFER_SIZE > 1 /\ c \in Nat /\ q \in Nat
      /\ n \in 1 .. BLOCK_BUFFER_SIZE - 1 /\ n \in 0 .. BLOCK_BUFFER_SIZE - 1 /\ n \in Nat
      /\ q \in Slots /\ c - 1 \in Nat /\ c <= BLOCK_BUFFER_SIZE - 1 /\ q + n = c - 1
  BY RingAssumption DEF Slots
<1>2. first \in Slots
  BY <1>1, AheadAhead
<1>0. PICK fwd : fwd = ForwardSpeeds(b, first, n)
  OBVIOUS
<1> DEFINE place(i) == Ahead(i, BLOCK_BUFFER_SIZE - first)
           breaks == {k \in 1 .. n : OptimalBreak(b[Ahead(first, k)], fwd[k])}
           M == [k \in Slots |-> IF k \in q .. c - 1 THEN [N[k] EXCEPT !.entry = fwd[k - q]] ELSE N[k]]
<1>3. /\ fwd \in [0 .. n -> Nat]
      /\ fwd[0] = b[Ahead(first, 0)].entry
      /\ \A k \in 1 .. n :
            fwd[k] = Lesser(fwd[k - 1] + b[Ahead(first, k - 1)].reach, b[Ahead(first, k)].entry)
  <2>1. b \in Buffers /\ n \in 0 .. BLOCK_BUFFER_SIZE - 1
    BY <1>1
  <2> QED
    BY ONLY <1>0, <1>2, <2>1, ForwardSpeedsDefined, Zenon
<1>4. \A i \in Slots : f.buffer[i] = IF place(i) <= n THEN [b[i] EXCEPT !.entry = fwd[place(i)]] ELSE b[i]
  BY <1>0 DEF ForwardPass
<1>18. f.planned = IF breaks = {} THEN first
                   ELSE Ahead(first, CHOOSE k \in breaks : \A l \in breaks : l <= k)
  BY <1>0 DEF ForwardPass
<1>5. \A k \in 0 .. n : /\ q + k \in Slots /\ Ahead(first, k) = Ahead(t, q + k)
                        /\ b[Ahead(first, k)] = N[q + k]
  <2> SUFFICES ASSUME NEW k \in 0 .. n
               PROVE  q + k \in Slots /\ Ahead(first, k) = Ahead(t, q + k)
    BY DEF Seen
  <2>1. k \in Slots /\ q + k \in Slots /\ q + k < BLOCK_BUFFER_SIZE
    BY <1>1 DEF Slots
  <2> QED
    BY <1>1, <2>1, AheadAhead
<1>6. \A k \in q .. c - 1 : /\ k \in Slots /\ k - q \in 0 .. n /\ q + (k - q) = k
  BY <1>1 DEF Slots
<1>7. \A k \in Slots : N[k] \in Blocks
  BY ViewTypes
<1>8. ASSUME NEW k \in Slots
      PROVE  /\ M[k] \in Blocks
             /\ k \in q .. c - 1 => M[k] = [N[k] EXCEPT !.entry = fwd[k - q]] /\ M[k].entry = fwd[k - q]
             /\ k \notin q .. c - 1 => M[k] = N[k]
  <2>1. CASE k \in q .. c - 1
    <3>1. M[k] = [N[k] EXCEPT !.entry = fwd[k - q]]
      BY <2>1
    <3>2. fwd[k - q] \in Nat
      BY <1>3, <1>6, <2>1
    <3> HIDE DEF M
    <3> QED
      BY <1>7, <2>1, <3>1, <3>2 DEF Blocks
  <2>2. CASE k \notin q .. c - 1
    <3>1. M[k] = N[k]
      BY <2>2
    <3> HIDE DEF M
    <3> QED
      BY <1>7, <2>2, <3>1
  <2> QED
    BY <2>1, <2>2
<1>9. M \in Views
  <2>1. M = [k \in Slots |-> M[k]]
    OBVIOUS
  <2> HIDE DEF M
  <2> QED
    BY <1>8, <2>1 DEF Views
<1> HIDE DEF M
<1>10. M[q].entry = N[q].entry /\ M[q] = N[q]
  <2>1. q \in q .. c - 1 /\ q - q = 0 /\ 0 \in 0 .. n /\ q + 0 = q
    BY <1>1
  <2>2. fwd[0] = N[q].entry
    BY <1>3, <1>5, <2>1
  <2>3. M[q] = [N[q] EXCEPT !.entry = fwd[0]]
    BY <1>1, <1>8, <2>1
  <2> QED
    BY <1>1, <1>7, <2>2, <2>3 DEF Blocks
<1>11. ASSUME NEW k \in q + 1 .. c - 1
       PROVE  M[k].entry = Lesser(M[k - 1].entry + N[k - 1].reach, N[k].entry)
  <2>1. /\ k \in q .. c - 1 /\ k - 1 \in q .. c - 1 /\ k - q \in 1 .. n /\ (k - q) - 1 = (k - 1) - q
        /\ (k - q) - 1 \in 0 .. n /\ k - q \in 0 .. n /\ k \in Slots /\ k - 1 \in Slots
    BY <1>1 DEF Slots
  <2>2. M[k].entry = fwd[k - q] /\ M[k - 1].entry = fwd[(k - q) - 1]
    BY <1>8, <2>1
  <2>3. fwd[k - q] = Lesser(fwd[(k - q) - 1] + b[Ahead(first, (k - q) - 1)].reach, b[Ahead(first, k - q)].entry)
    BY <1>3, <2>1
  <2>4. b[Ahead(first, (k - q) - 1)] = N[k - 1] /\ b[Ahead(first, k - q)] = N[k]
    <3>1. q + (k - q) = k /\ q + ((k - q) - 1) = k - 1
      BY <1>1
    <3> QED
      BY <1>5, <2>1, <3>1
  <2> QED
    BY <2>2, <2>3, <2>4
<1>12. ASSUME NEW k \in Slots
       PROVE  M[k] = [N[k] EXCEPT !.entry = M[k].entry] /\ (k <= q \/ k >= c => M[k] = N[k])
  <2>1. CASE k \in q .. c - 1
    <3>1. M[k] = [N[k] EXCEPT !.entry = M[k].entry]
      BY <1>8, <2>1
    <3>2. k <= q \/ k >= c => k = q
      BY <1>1, <2>1
    <3> QED
      BY <1>10, <3>1, <3>2
  <2>2. CASE k \notin q .. c - 1
    <3>1. M[k] = N[k]
      BY <1>8, <2>2
    <3> QED
      BY <1>7, <3>1 DEF Blocks
  <2> QED
    BY <2>1, <2>2
<1>13. ASSUME NEW k \in Slots
       PROVE  f.buffer[Ahead(t, k)] = M[k]
  <2>1. Ahead(t, k) \in Slots /\ place(Ahead(t, k)) = IF q <= k THEN k - q ELSE k - q + BLOCK_BUFFER_SIZE
    BY <1>1, AheadAhead
  <2>2. b[Ahead(t, k)] = N[k]
    BY DEF Seen
  <2>3. k \in Nat /\ k < BLOCK_BUFFER_SIZE
    BY <1>1 DEF Slots
  <2>4. CASE k \in q .. c - 1
    <3>1. place(Ahead(t, k)) = k - q /\ k - q <= n
      BY <1>1, <2>1, <2>3, <2>4
    <3>2. f.buffer[Ahead(t, k)] = [b[Ahead(t, k)] EXCEPT !.entry = fwd[place(Ahead(t, k))]]
      BY <1>4, <2>1, <3>1, Zenon
    <3> HIDE DEF place
    <3>3. f.buffer[Ahead(t, k)] = [N[k] EXCEPT !.entry = fwd[k - q]]
      BY ONLY <2>2, <3>1, <3>2, Zenon
    <3> QED
      BY <1>8, <2>4, <3>3
  <2>5. CASE k \notin q .. c - 1
    <3>1. ~(place(Ahead(t, k)) <= n)
      BY <1>1, <2>1, <2>3, <2>5
    <3>2. f.buffer[Ahead(t, k)] = b[Ahead(t, k)]
      BY <1>4, <2>1, <3>1, Zenon
    <3> QED
      BY <1>8, <2>2, <2>5, <3>2
  <2> QED
    BY <2>4, <2>5
<1>14. \E x : /\ f.planned = Ahead(t, x)
              /\ x = q \/ (x \in q + 1 .. c - 1 /\ OptimalBreak(N[x], M[x].entry))
  <2>1. CASE breaks = {}
    <3>1. f.planned = Ahead(t, q)
      BY <1>18, <2>1
    <3> QED
      BY <3>1
  <2>2. CASE breaks # {}
    <3>1. \E k \in breaks : \A l \in breaks : l <= k
      <4>1. breaks \subseteq 0 .. n
        BY <1>1
      <4> HIDE DEF breaks
      <4> QED
        BY <1>1, <2>2, <4>1, GreatestElement
    <3>2. PICK k \in breaks : f.planned = Ahead(first, k)
      <4> HIDE DEF breaks
      <4> QED
        BY <1>18, <2>2, <3>1
    <3>3. k \in 1 .. n /\ k \in 0 .. n /\ OptimalBreak(b[Ahead(first, k)], fwd[k])
      BY <1>1
    <3>4. q + k \in q + 1 .. c - 1 /\ q + k \in q .. c - 1 /\ q + k \in Slots /\ (q + k) - q = k
      BY <1>1, <3>3 DEF Slots
    <3>5. M[q + k].entry = fwd[k] /\ b[Ahead(first, k)] = N[q + k] /\ f.planned = Ahead(t, q + k)
      BY <1>5, <1>8, <3>2, <3>3, <3>4
    <3> QED
      BY <3>3, <3>4, <3>5
  <2> QED
    BY <2>1, <2>2
<1>15. PICK x : /\ f.planned = Ahead(t, x)
                /\ x = q \/ (x \in q + 1 .. c - 1 /\ OptimalBreak(N[x], M[x].entry))
  BY ONLY <1>14
<1>16. Forwarded(N, c, q, M, x)
  BY <1>9, <1>11, <1>12, <1>15 DEF Forwarded
<1>17. Seen(f.buffer, t, M)
  BY <1>13 DEF Seen
<1> QED
  BY <1>15, <1>16, <1>17


\* Both passes, one after the other.
LEMMA BothPasses ==
    ASSUME NEW N \in Views, NEW c \in 1 .. BLOCK_BUFFER_SIZE - 1, NEW q \in 0 .. c - 2,
           NEW rev, Reversed(N, c, q, rev), NEW D, D = Lowered(N, c, q, rev),
           NEW M, NEW x, Forwarded(D, c, q, M, x)
    PROVE  Planned(N, c, q, rev, M, x)
<1>1. /\ BLOCK_BUFFER_SIZE \in Nat /\ c \in Nat /\ q \in Nat /\ c <= BLOCK_BUFFER_SIZE - 1
      /\ \A k \in q + 1 .. c - 1 : k \in Slots /\ k - 1 \in Slots
  BY RingAssumption DEF Slots
<1>2. \A k \in Slots : N[k] \in Blocks
  BY ViewTypes
<1>3. ASSUME NEW k \in Slots
      PROVE  /\ k \in q + 1 .. c - 1 => D[k] = [N[k] EXCEPT !.entry = rev[k]]
             /\ k \notin q + 1 .. c - 1 => D[k] = N[k]
  BY DEF Lowered
<1>4. ASSUME NEW k \in Slots
      PROVE  /\ D[k].reach = N[k].reach /\ D[k].max_entry = N[k].max_entry
             /\ \A v : [D[k] EXCEPT !.entry = v] = [N[k] EXCEPT !.entry = v]
             /\ k \in q + 1 .. c - 1 => D[k].entry = rev[k]
             /\ k \notin q + 1 .. c - 1 => D[k] = N[k]
  <2>1. CASE k \in q + 1 .. c - 1
    <3>1. D[k] = [N[k] EXCEPT !.entry = rev[k]]
      BY <1>3, <2>1
    <3>2. N[k] \in Blocks
      BY <1>2
    <3>3. D[k].reach = N[k].reach /\ D[k].max_entry = N[k].max_entry /\ D[k].entry = rev[k]
      BY <3>1, <3>2 DEF Blocks
    <3>4. ASSUME NEW v
          PROVE  [D[k] EXCEPT !.entry = v] = [N[k] EXCEPT !.entry = v]
      BY <3>1, <3>2 DEF Blocks
    <3> QED
      BY <2>1, <3>3, <3>4
  <2>2. CASE k \notin q + 1 .. c - 1
    BY <1>3, <2>2
  <2> QED
    BY <2>1, <2>2
<1>5. M \in Views
  BY DEF Forwarded
<1>6. ASSUME NEW k \in Slots
      PROVE  M[k] = [N[k] EXCEPT !.entry = M[k].entry] /\ (k <= q \/ k >= c => M[k] = N[k])
  <2>1. M[k] = [D[k] EXCEPT !.entry = M[k].entry] /\ (k <= q \/ k >= c => M[k] = D[k])
    BY DEF Forwarded
  <2>2. M[k] = [N[k] EXCEPT !.entry = M[k].entry]
    BY <1>4, <2>1, Zenon
  <2>3. k <= q \/ k >= c => k \notin q + 1 .. c - 1
    BY <1>1
  <2>4. k <= q \/ k >= c => M[k] = N[k]
    BY <1>4, <2>1, <2>3, Zenon
  <2> QED
    BY <2>2, <2>4
<1>7. ASSUME NEW k \in q + 1 .. c - 1
      PROVE  M[k].entry = Lesser(M[k - 1].entry + N[k - 1].reach, rev[k])
  <2>1. M[k].entry = Lesser(M[k - 1].entry + D[k - 1].reach, D[k].entry)
    BY DEF Forwarded
  <2>2. k \in Slots /\ k - 1 \in Slots
    BY <1>1
  <2>3. D[k - 1].reach = N[k - 1].reach /\ D[k].entry = rev[k]
    BY <1>4, <2>2
  <2> QED
    BY <2>1, <2>3
<1>8. x = q \/ (x \in q + 1 .. c - 1 /\ (M[x].entry < rev[x] \/ M[x].entry = N[x].max_entry))
  <2>1. x = q \/ (x \in q + 1 .. c - 1 /\ OptimalBreak(D[x], M[x].entry))
    BY DEF Forwarded
  <2>2. CASE x \in q + 1 .. c - 1 /\ OptimalBreak(D[x], M[x].entry)
    <3>1. D[x].max_entry = N[x].max_entry /\ D[x].entry = rev[x]
      BY <1>1, <1>4, <2>2
    <3> QED
      BY <2>2, <3>1 DEF OptimalBreak
  <2> QED
    BY <2>1, <2>2
<1> QED
  BY <1>5, <1>6, <1>7, <1>8 DEF Planned

\* Update_plan_block_parameters, on a view.
Noticed(N, p) == IF p.loaded THEN [N EXCEPT ![0].entry = p.speed] ELSE N

LEMMA NoticedView ==
    ASSUME NEW b \in Buffers, NEW t \in Slots, NEW N \in Views, Seen(b, t, N), NEW p \in Preps,
           NEW nb, nb = Notified(b, t, p), NEW B, B = Noticed(N, p)
    PROVE  /\ nb \in Buffers /\ B \in Views /\ Seen(nb, t, B)
           /\ \A k \in Slots : k # 0 => B[k] = N[k]
           /\ B[0] = [N[0] EXCEPT !.entry = B[0].entry]
           /\ B[0].entry = IF p.loaded THEN p.speed ELSE N[0].entry
<1>1. 0 \in Slots /\ Ahead(t, 0) = t /\ N[0] \in Blocks /\ b[t] \in Blocks /\ N[0] = b[t] /\ p.speed \in Nat
  BY AheadNone, ViewTypes DEF Buffers, Seen, Preps
<1>2. nb \in Buffers
  BY NotifiedReplans DEF Replanned
<1>3. CASE p.loaded
  <2> DEFINE a == [N[0] EXCEPT !.entry = p.speed]
  <2>1. nb = [b EXCEPT ![t] = a] /\ B = [N EXCEPT ![0] = a]
    BY <1>1, <1>3 DEF Notified, Noticed
  <2>2. a \in Blocks /\ a = [N[0] EXCEPT !.entry = a.entry] /\ a.entry = p.speed
    BY <1>1 DEF Blocks
  <2> HIDE DEF a
  <2>3. B \in Views /\ B[0] = a /\ \A k \in Slots : k # 0 => B[k] = N[k]
    BY <1>1, <2>1, <2>2 DEF Views
  <2>4. ASSUME NEW k \in Slots
        PROVE  nb[Ahead(t, k)] = B[k]
    <3>1. Ahead(t, k) \in Slots /\ (Ahead(t, k) = t => k = 0)
      BY <1>1, AheadAhead
    <3>2. b[Ahead(t, k)] = N[k]
      BY DEF Seen
    <3>3. CASE k = 0
      <4>1. nb[t] = a
        BY <2>1 DEF Buffers
      <4> QED
        BY <1>1, <2>3, <3>3, <4>1
    <3>4. CASE k # 0
      <4>1. nb[Ahead(t, k)] = b[Ahead(t, k)]
        BY <2>1, <3>1, <3>4 DEF Buffers
      <4> QED
        BY <2>3, <3>2, <3>4, <4>1
    <3> QED
      BY <3>3, <3>4
  <2>5. Seen(nb, t, B)
    BY <2>4 DEF Seen
  <2> QED
    BY <1>2, <1>3, <2>2, <2>3, <2>5
<1>4. CASE ~p.loaded
  <2>1. nb = b /\ B = N
    BY <1>4 DEF Notified, Noticed
  <2>2. N[0] = [N[0] EXCEPT !.entry = N[0].entry]
    BY <1>1 DEF Blocks
  <2> QED
    BY <1>4, <2>1, <2>2
<1> QED
  BY <1>3, <1>4

\* The view planner_recalculate starts from: a plan that reaches back to the block
\* being executed takes up the speed of the machine.
Basis(N, c, q, p) == IF q = 0 /\ c >= 2 THEN Noticed(N, p) ELSE N


\* The whole of planner_recalculate, on the view from the tail: planned pointer at q.
LEMMA RecalculateView ==
    ASSUME NEW b \in Buffers, NEW t \in Slots, NEW N \in Views, Seen(b, t, N), NEW p \in Preps,
           NEW c \in 1 .. BLOCK_BUFFER_SIZE - 1, NEW q \in 0 .. c - 1,
           NEW head, head = Ahead(t, c), NEW planned, planned = Ahead(t, q),
           NEW r, r = planner_recalculate(b, t, head, planned, p),
           NEW B, B = Basis(N, c, q, p)
    PROVE  /\ B \in Views
           /\ r.prep = IF q = 0 /\ c >= 2 THEN Unloaded(p) ELSE p
           /\ \E rev, M, x : Planned(B, c, q, rev, M, x) /\ Seen(r.buffer, t, M) /\ r.planned = Ahead(t, x)
<1>1. /\ BLOCK_BUFFER_SIZE \in Nat /\ BLOCK_BUFFER_SIZE > 1 /\ c \in Nat /\ q \in Nat
      /\ c - 1 \in Slots /\ q \in Slots /\ c - 1 \in Nat /\ c <= BLOCK_BUFFER_SIZE - 1 /\ c - 1 - q \in Nat
  BY RingAssumption DEF Slots
<1>2. PICK last : last = plan_prev_block_index(head)
  OBVIOUS
<1>3. last = Ahead(t, c - 1) /\ last \in Slots
  BY <1>1, <1>2, PrevAhead, AheadAhead
<1>4. PICK n : n = Ahead(last, BLOCK_BUFFER_SIZE - planned)
  OBVIOUS
<1>5. n = c - 1 - q
  BY <1>1, <1>3, <1>4, AheadAhead
<1> DEFINE reached == \/ n = 1 /\ planned = t
                      \/ \E j \in 2 .. n : t = Ahead(last, BLOCK_BUFFER_SIZE - j)
           noticed == IF reached THEN Notified(b, t, p) ELSE b
           forward == ForwardPass(ReversePass(noticed, last, n), planned, n)
<1>6. r = IF n = 0 THEN [buffer |-> b, planned |-> planned, prep |-> p]
          ELSE [buffer |-> forward.buffer, planned |-> forward.planned,
                prep |-> IF reached THEN Unloaded(p) ELSE p]
  BY <1>2, <1>4 DEF planner_recalculate
<1> HIDE DEF forward, noticed
<1>7. reached <=> q = 0 /\ n # 0
  <2>1. planned = t <=> q = 0
    <3>1. 0 \in Slots /\ t = Ahead(t, 0)
      BY AheadNone
    <3> QED
      BY <1>1, <3>1, AheadAhead
  <2>2. ASSUME NEW j \in 2 .. n
        PROVE  t = Ahead(last, BLOCK_BUFFER_SIZE - j) <=> j = c - 1
    <3>1. j \in Slots /\ j <= c - 1 /\ c - 1 - j \in Slots /\ j \in Nat
      BY <1>1, <1>5 DEF Slots
    <3>2. Ahead(last, BLOCK_BUFFER_SIZE - j) = Ahead(t, c - 1 - j)
      BY <1>1, <1>3, <3>1, AheadAhead
    <3>3. 0 \in Slots /\ t = Ahead(t, 0)
      BY AheadNone
    <3>4. t = Ahead(t, c - 1 - j) <=> c - 1 - j = 0
      BY <3>1, <3>3, AheadAhead
    <3> QED
      BY <1>1, <3>1, <3>2, <3>4
  <2>3. reached => q = 0 /\ n # 0
    <3>1. ASSUME NEW j \in 2 .. n, t = Ahead(last, BLOCK_BUFFER_SIZE - j)
          PROVE  q = 0 /\ n # 0
      <4>1. j = c - 1
        BY <2>2, <3>1
      <4> QED
        BY <1>1, <1>5, <4>1
    <3> QED
      BY <2>1, <3>1
  <2>4. q = 0 /\ n = 1 => reached
    BY <2>1
  <2>5. q = 0 /\ n # 0 /\ n # 1 => reached
    <3> SUFFICES ASSUME q = 0, n # 0, n # 1
                 PROVE  reached
      OBVIOUS
    <3>1. c - 1 \in 2 .. n
      BY <1>1, <1>5
    <3> QED
      BY <2>2, <3>1
  <2> QED
    BY <2>3, <2>4, <2>5
<1> HIDE DEF reached
<1>8. CASE n = 0
  <2>1. r.buffer = b /\ r.planned = planned /\ r.prep = p
    BY <1>6, <1>8
  <2>2. ~(q = 0 /\ c >= 2) /\ q = c - 1
    BY <1>1, <1>5, <1>8
  <2>3. B = N
    BY <2>2 DEF Basis
  <2> DEFINE rev == [k \in q + 1 .. c - 1 |-> 0]
  <2>4. q + 1 .. c - 1 = {} /\ q + 1 .. c - 2 = {} /\ ~(q + 1 <= c - 1)
    BY <1>1, <2>2
  <2>5. Reversed(N, c, q, rev)
    BY <2>4 DEF Reversed
  <2> HIDE DEF rev
  <2>6. \A k \in Slots : N[k] = [N[k] EXCEPT !.entry = N[k].entry]
    BY ViewTypes DEF Blocks
  <2>7. Planned(N, c, q, rev, N, q)
    BY <2>4, <2>5, <2>6 DEF Planned
  <2> QED
    BY <2>1, <2>2, <2>3, <2>7
<1>9. CASE n # 0
  <2>1. q \in 0 .. c - 2 /\ c >= 2 /\ n \in 1 .. BLOCK_BUFFER_SIZE - 1
    BY <1>1, <1>5, <1>9
  <2>2. reached <=> q = 0
    BY <1>7, <1>9
  <2>3. PICK nb : nb = noticed
    OBVIOUS
  <2>4. nb \in Buffers /\ B \in Views /\ Seen(nb, t, B)
    <3>1. CASE q = 0
      <4>1. nb = Notified(b, t, p)
        BY <2>2, <2>3, <3>1 DEF noticed
      <4>2. B = Noticed(N, p)
        BY <2>1, <3>1 DEF Basis
      <4> QED
        BY ONLY NoticedView, <4>1, <4>2, b \in Buffers, t \in Slots, N \in Views, Seen(b, t, N), p \in Preps, Zenon
    <3>2. CASE q # 0
      <4>1. nb = b /\ B = N
        BY <2>2, <2>3, <3>2 DEF noticed, Basis
      <4> QED
        BY <4>1
    <3> QED
      BY <3>1, <3>2
  <2>5. PICK d : d = ReversePass(nb, last, n)
    OBVIOUS
  <2>6. d \in Buffers
    BY <1>3, <2>1, <2>4, <2>5, ReversePassReplans DEF Replanned
  <2>7. \E rev : Reversed(B, c, q, rev) /\ Seen(d, t, Lowered(B, c, q, rev))
    <3>1. nb \in Buffers /\ B \in Views /\ Seen(nb, t, B) /\ q \in 0 .. c - 2
      BY <2>1, <2>4
    <3>2. last = Ahead(t, c - 1)
      BY <1>3
    <3> QED
      BY ONLY ReverseView, <3>1, <3>2, <1>5, <2>5, t \in Slots, c \in 1 .. BLOCK_BUFFER_SIZE - 1, Zenon
  <2>8. PICK rev : Reversed(B, c, q, rev) /\ Seen(d, t, Lowered(B, c, q, rev))
    BY ONLY <2>7
  <2>9. PICK D : D = Lowered(B, c, q, rev)
    OBVIOUS
  <2>10. Seen(d, t, D)
    BY <2>8, <2>9
  <2>11. D \in Views
    <3>1. ASSUME NEW k \in Slots
          PROVE  D[k] \in Blocks
      <4>1. Ahead(t, k) \in Slots
        BY AheadAhead
      <4> QED
        BY <2>6, <2>10, <4>1 DEF Buffers, Seen
    <3>2. D = [k \in Slots |-> D[k]]
      BY <2>9 DEF Lowered
    <3> QED
      BY <3>1, <3>2 DEF Views
  <2>12. PICK f : f = ForwardPass(d, planned, n)
    OBVIOUS
  <2>13. r.buffer = f.buffer /\ r.planned = f.planned /\ r.prep = IF q = 0 THEN Unloaded(p) ELSE p
    <3>1. forward = f
      BY <2>3, <2>5, <2>12 DEF forward
    <3> QED
      BY <1>6, <1>9, <2>2, <3>1
  <2>14. \E M, x : Forwarded(D, c, q, M, x) /\ Seen(f.buffer, t, M) /\ f.planned = Ahead(t, x)
    BY ONLY ForwardView, <2>6, <2>10, <2>11, <2>12, <2>1, <1>5, t \in Slots,
            c \in 1 .. BLOCK_BUFFER_SIZE - 1, planned = Ahead(t, q)
  <2>15. PICK M, x : Forwarded(D, c, q, M, x) /\ Seen(f.buffer, t, M) /\ f.planned = Ahead(t, x)
    BY ONLY <2>14
  <2>16. Planned(B, c, q, rev, M, x)
    BY <2>1, <2>4, <2>8, <2>9, <2>15, BothPasses
  <2>17. Planned(B, c, q, rev, M, x) /\ Seen(r.buffer, t, M) /\ r.planned = Ahead(t, x)
    BY <2>13, <2>15, <2>16
  <2>18. r.prep = IF q = 0 /\ c >= 2 THEN Unloaded(p) ELSE p
    BY <2>1, <2>13
  <2> QED
    BY <2>4, <2>17, <2>18
<1> QED
  BY <1>8, <1>9


-----------------------------------------------------------------------------
(* What the planner keeps: the plan on a view N of c blocks, optimally planned *)
(* up to q, for limits from override o, under step control sc and the          *)
(* stepper's view p.                                                           *)

\* The stepper is in the middle of the block at the tail.
Underway(p) == p.loaded \/ p.recalculate

\* The speed at which what is left of the plan is entered.
Starts(N, sc, p) == IF Underway(p) THEN p.speed ELSE IF sc.executeHold THEN p.exit ELSE N[0].entry

NominalOf(N, k, o) == plan_compute_profile_nominal_speed(N[k], o)

\* Nothing is planned in free slots.
Free(N, c) == \A k \in Slots : k >= c => N[k].entry = 0 /\ N[k].max_entry = 0

\* The entry speeds are limited by junctions and nominal speeds.
Limited(N, c, o, pn) ==
    /\ c > 0 => pn = NominalOf(N, c - 1, o)
    /\ \A k \in 1 .. c - 1 :
          N[k].max_entry = Lesser(Sq(Lesser(NominalOf(N, k, o), NominalOf(N, k - 1, o))), N[k].junction)
    /\ \A k \in 0 .. c - 1 : N[k].reach > 0

\* How the stepper's view agrees with the plan.
Prepared(N, c, sc, p) ==
    /\ ~(p.loaded /\ p.recalculate)
    /\ Underway(p) => c > 0
    /\ p.recalculate => N[0].entry = p.speed
    /\ ~Underway(p) => p.speed = p.exit
    /\ p.loaded => /\ p.complete <= N[0].reach
                   /\ p.complete > 0 => p.exit = 0
                   /\ sc.executeHold => p.speed = p.exit + (N[0].reach - p.complete)
                   /\ ~sc.executeHold => p.complete = 0
    /\ sc.endMotion => p.speed = 0 /\ Underway(p)

\* The machine can stop before the end of the queue: w has the distances left.
Stops(N, c, w, p) ==
    /\ \A k \in 0 .. c - 1 : (k = 0 /\ p.loaded) \/ N[k].entry <= w[k]
    /\ Underway(p) => p.speed <= w[0]
    /\ p.loaded => p.exit <= w[1]
    /\ ~Underway(p) => p.exit <= w[0]

\* Nothing is too fast, unless the override was lowered.
Slow(N, c, o, sc, p) ==
    c > 0 => /\ Braked(N, c, Starts(N, sc, p))
             /\ Starts(N, sc, p) <= Sq(NominalOf(N, 0, o))
             /\ ~Underway(p) => p.exit <= N[0].entry

\* Nothing is too slow, except in a hold.
Fast(N, c, q, sc, p) ==
    c > 0 => /\ Driven(N, c, Starts(N, sc, p))
             /\ Tight(N, c, Starts(N, sc, p), q)
             /\ p.loaded => p.exit = Leaves(N, c, 0)
             /\ ~Underway(p) => p.exit = N[0].entry

\* What holds between the passes as well, and what holds after them.
Steady(N, c, w, o, pn, sc, p, low) ==
    /\ Free(N, c) /\ Limited(N, c, o, pn) /\ Prepared(N, c, sc, p)
    /\ Distances(N, c, w) /\ Stops(N, c, w, p)
    /\ ~low => Slow(N, c, o, sc, p)

Planning(N, c, q, w, o, pn, sc, p, low) ==
    /\ Steady(N, c, w, o, pn, sc, p, low)
    /\ ~low /\ ~sc.executeHold => Fast(N, c, q, sc, p)

\* The planned pointer is on a queued block; of an empty queue it is at, or just
\* before, the slot of the next one.
Pointed(c, q) == IF c > 0 THEN q \in 0 .. c - 1 ELSE q \in {0, BLOCK_BUFFER_SIZE - 1}

\* A ring from t to h whose blocks, seen from the tail, are so planned.
PlanOf(b, t, h, pl, pn, o, sc, p, low) ==
    \E N \in Views, c \in Slots, q \in Slots : \E w :
        /\ Seen(b, t, N) /\ h = Ahead(t, c) /\ pl = Ahead(t, q) /\ Pointed(c, q)
        /\ Planning(N, c, q, w, o, pn, sc, p, low)

\* The inductive invariant of the plan.
PlanInv ==
    PlannerTypes /\ PlanOf(block_buffer, block_buffer_tail, block_buffer_head, block_buffer_planned,
                           previous_nominal, f_override, step_control, prep, lowered)


-----------------------------------------------------------------------------
(* A replanning keeps all that. *)

\* Nominal speeds do not depend on what is planned.
LEMMA SameNominal ==
    ASSUME NEW a \in Blocks, NEW b, NEW v, b = [a EXCEPT !.entry = v], NEW o
    PROVE  plan_compute_profile_nominal_speed(b, o) = plan_compute_profile_nominal_speed(a, o)
<1>1. b.motion = a.motion /\ b.rate = a.rate
  BY DEF Blocks
<1> QED
  BY <1>1 DEF plan_compute_profile_nominal_speed

LEMMA StartsNat ==
    ASSUME NEW N \in Views, NEW sc, NEW p \in Preps
    PROVE  Starts(N, sc, p) \in Nat
<1>1. 0 \in Slots
  BY RingAssumption DEF Slots
<1>2. N[0].entry \in Nat /\ p.speed \in Nat /\ p.exit \in Nat
  BY <1>1, ViewTypes DEF Preps
<1> QED
  BY <1>2 DEF Starts

\* What a new plan leaves as it is.
LEMMA PlannedFrame ==
    ASSUME NEW N \in Views, NEW c, NEW q, NEW rev, NEW M, NEW x, Planned(N, c, q, rev, M, x), NEW k \in Slots
    PROVE  /\ N[k] \in Blocks /\ M[k] \in Blocks
           /\ M[k].reach = N[k].reach /\ M[k].max_entry = N[k].max_entry /\ M[k].junction = N[k].junction
           /\ \A o : NominalOf(M, k, o) = NominalOf(N, k, o)
           /\ k <= q \/ k >= c => M[k] = N[k]
<1>1. N[k] \in Blocks /\ M[k] \in Blocks
  BY ViewTypes DEF Planned
<1>2. M[k] = [N[k] EXCEPT !.entry = M[k].entry] /\ (k <= q \/ k >= c => M[k] = N[k])
  BY DEF Planned
<1>3. M[k].reach = N[k].reach /\ M[k].max_entry = N[k].max_entry /\ M[k].junction = N[k].junction
  BY <1>1, <1>2 DEF Blocks
<1>4. ASSUME NEW o
      PROVE  NominalOf(M, k, o) = NominalOf(N, k, o)
  BY <1>1, <1>2, SameNominal DEF NominalOf
<1> QED
  BY <1>1, <1>2, <1>3, <1>4

\* Up to q, the plan is fast already.
FastTo(N, c, q, sc, p) ==
    /\ \A k \in 0 .. q - 1 : N[k + 1].entry <= Enters(N, Starts(N, sc, p), k) + N[k].reach
    /\ \A k \in 1 .. q - 1 : Pressed(N, Starts(N, sc, p), k) \/ N[k].entry = N[k + 1].entry + N[k].reach
    /\ q >= 1 => Pressed(N, Starts(N, sc, p), q)
    /\ p.loaded => p.exit = N[1].entry
    /\ ~Underway(p) => p.exit = N[0].entry

LEMMA PlannedKeeps ==
    ASSUME NEW N \in Views, NEW c \in 1 .. BLOCK_BUFFER_SIZE - 1, NEW q \in 0 .. c - 1,
           NEW o, NEW pn, NEW sc, NEW p \in Preps, NEW low, NEW w,
           Steady(N, c, w, o, pn, sc, p, low), p.loaded => q >= 1,
           ~low /\ ~sc.executeHold => FastTo(N, c, q, sc, p),
           NEW rev, NEW M, NEW x, Planned(N, c, q, rev, M, x)
    PROVE  Planning(M, c, x, w, o, pn, sc, p, low) /\ x \in 0 .. c - 1
<1>0. /\ Free(N, c) /\ Prepared(N, c, sc, p) /\ Limited(N, c, o, pn)
      /\ Distances(N, c, w) /\ Stops(N, c, w, p)
      /\ ~low => Slow(N, c, o, sc, p)
  BY DEF Steady
<1>1. /\ BLOCK_BUFFER_SIZE \in Nat /\ c \in Nat /\ q \in Nat /\ c <= BLOCK_BUFFER_SIZE - 1
      /\ \A k \in 0 .. c - 1 : k \in Slots /\ k \in Nat
      /\ 0 \in Slots /\ 0 \in 0 .. c - 1 /\ 0 <= q /\ c # 0
  BY RingAssumption DEF Slots
<1>2. M[0] = N[0]
  BY <1>1, PlannedFrame
<1>3. Starts(M, sc, p) = Starts(N, sc, p) /\ Starts(N, sc, p) \in Nat
  BY <1>2, StartsNat DEF Starts
<1>4. x \in 0 .. c - 1
  BY <1>1 DEF Planned
<1>5. Free(M, c)
  <2>1. ASSUME NEW k \in Slots, k >= c
        PROVE  M[k].entry = 0 /\ M[k].max_entry = 0
    <3>1. M[k] = N[k]
      BY <2>1, PlannedFrame
    <3> QED
      BY <1>0, <2>1, <3>1 DEF Free
  <2> QED
    BY <2>1 DEF Free
<1>6. Limited(M, c, o, pn)
  <2>1. \A k \in 0 .. c - 1 : /\ M[k].reach = N[k].reach /\ M[k].max_entry = N[k].max_entry
                              /\ M[k].junction = N[k].junction /\ NominalOf(M, k, o) = NominalOf(N, k, o)
    BY <1>1, PlannedFrame
  <2>2. c - 1 \in 0 .. c - 1 /\ \A k \in 1 .. c - 1 : k \in 0 .. c - 1 /\ k - 1 \in 0 .. c - 1
    BY <1>1
  <2> QED
    BY <1>0, <2>1, <2>2 DEF Limited
<1>7. Prepared(M, c, sc, p)
  BY <1>0, <1>2 DEF Prepared
<1>8. Distances(M, c, w)
  <2>1. \A k \in 0 .. c - 1 : M[k].reach = N[k].reach
    BY <1>1, PlannedFrame
  <2> QED
    BY <1>0, <2>1 DEF Distances
<1>9. Stops(M, c, w, p)
  <2>1. ASSUME NEW k \in 0 .. c - 1, ~(k = 0 /\ p.loaded)
        PROVE  M[k].entry <= w[k]
    <3>1. N[k].entry <= w[k]
      BY <1>0, <2>1 DEF Stops
    <3>2. CASE k <= q
      <4>1. M[k] = N[k]
        BY <1>1, <3>2, PlannedFrame
      <4> QED
        BY <3>1, <4>1
    <3>3. CASE k \in q + 1 .. c - 1
      <4>1. \A i \in q + 1 .. c - 1 : N[i].entry <= w[i]
        <5>1. \A i \in q + 1 .. c - 1 : i \in 0 .. c - 1 /\ i # 0
          BY <1>1
        <5> QED
          BY <1>0, <5>1 DEF Stops
      <4>2. M[k].entry <= w[k]
        BY <1>0, <3>3, <4>1, PlannedStops
      <4> QED
        BY <4>2
    <3> QED
      BY <1>1, <3>2, <3>3
  <2> QED
    BY <1>0, <2>1 DEF Stops
<1>10. ASSUME ~low
       PROVE  /\ Braked(N, c, Starts(N, sc, p)) /\ Starts(N, sc, p) <= Sq(NominalOf(N, 0, o))
              /\ ~Underway(p) => p.exit <= N[0].entry
  BY <1>0, <1>1, <1>10 DEF Slow
<1>11. ASSUME ~low, q = 0
       PROVE  /\ Starts(N, sc, p) <= N[0].entry
              /\ ~sc.executeHold => Starts(N, sc, p) = N[0].entry
  <2>1. ~p.loaded /\ N[0].entry \in Nat
    BY <1>1, <1>11, ViewTypes
  <2>2. CASE p.recalculate
    <3>1. Starts(N, sc, p) = p.speed /\ N[0].entry = p.speed
      BY <1>0, <2>2 DEF Starts, Underway, Prepared
    <3> QED
      BY <2>1, <3>1
  <2>3. CASE ~p.recalculate
    <3>1. ~Underway(p)
      BY <2>1, <2>3 DEF Underway
    <3>2. p.exit <= N[0].entry
      BY <1>10, <1>11, <3>1
    <3> QED
      BY <2>1, <3>1, <3>2 DEF Starts
  <2> QED
    BY <2>2, <2>3
<1>12. ASSUME ~low
       PROVE  Slow(M, c, o, sc, p)
  <2>1. Braked(M, c, Starts(N, sc, p))
    <3>1. Braked(N, c, Starts(N, sc, p)) /\ (q = 0 => Starts(N, sc, p) <= N[0].entry)
      BY <1>10, <1>11, <1>12
    <3> QED
      BY <1>3, <3>1, PlannedBrakes
  <2>2. NominalOf(M, 0, o) = NominalOf(N, 0, o)
    BY <1>1, PlannedFrame
  <2> QED
    BY <1>2, <1>3, <1>10, <1>12, <2>1, <2>2 DEF Slow
<1>13. ASSUME ~low, ~sc.executeHold
       PROVE  Fast(M, c, x, sc, p)
  <2>1. PICK s : s = Starts(N, sc, p)
    OBVIOUS
  <2>2. /\ s \in Nat /\ Braked(N, c, s) /\ (q = 0 => s = N[0].entry)
    BY <1>3, <1>10, <1>11, <1>13, <2>1
  <2>3. FastTo(N, c, q, sc, p)
    BY <1>13
  <2>4. /\ \A k \in 0 .. q - 1 : N[k + 1].entry <= Enters(N, s, k) + N[k].reach
        /\ \A k \in 1 .. q - 1 : Pressed(N, s, k) \/ N[k].entry = N[k + 1].entry + N[k].reach
        /\ q >= 1 => Pressed(N, s, q)
    BY <2>1, <2>3 DEF FastTo
  <2>5. Driven(M, c, s) /\ Tight(M, c, s, x)
    BY ONLY PlannedBest, N \in Views, c \in 1 .. BLOCK_BUFFER_SIZE - 1, q \in 0 .. c - 1,
            Planned(N, c, q, rev, M, x), <2>2, <2>4
  <2>6. p.loaded => p.exit = Leaves(M, c, 0)
    <3> SUFFICES ASSUME p.loaded
                 PROVE  p.exit = Leaves(M, c, 0)
      OBVIOUS
    <3>1. p.exit = N[1].entry /\ q >= 1
      BY <2>3 DEF FastTo
    <3>2. 1 \in 0 .. c - 1 /\ c - 1 # 0 /\ 1 <= q /\ 0 + 1 = 1
      BY <1>1, <3>1
    <3>3. M[1] = N[1]
      BY <1>1, <3>2, PlannedFrame
    <3> QED
      BY <3>1, <3>2, <3>3 DEF Leaves
  <2>7. ~Underway(p) => p.exit = M[0].entry
    BY <1>2, <2>3 DEF FastTo
  <2> QED
    BY <1>3, <2>1, <2>5, <2>6, <2>7 DEF Fast
<1> QED
  BY <1>4, <1>5, <1>6, <1>7, <1>8, <1>9, <1>12, <1>13 DEF Planning, Steady


-----------------------------------------------------------------------------
(* An empty queue, and the first block of one. *)

\* Nothing to plan: the passes change no speed, and the planned pointer moves to
\* the slot before the head.
LEMMA NothingToPlan ==
    ASSUME NEW b \in Buffers, \A i \in Slots : b[i].entry = 0 /\ b[i].max_entry = 0,
           NEW t \in Slots, NEW h \in Slots, NEW planned \in Slots, NEW p \in Preps, ~p.loaded,
           NEW r, r = planner_recalculate(b, t, h, planned, p)
    PROVE  r.buffer = b /\ r.prep = p /\ r.planned = plan_prev_block_index(h)
<1>1. BLOCK_BUFFER_SIZE \in Nat /\ BLOCK_BUFFER_SIZE > 1
  BY RingAssumption
<1>2. PICK last : last = plan_prev_block_index(h)
  OBVIOUS
<1>3. last \in Slots
  BY <1>2, PrevSlot
<1>4. PICK n : n = Ahead(last, BLOCK_BUFFER_SIZE - planned)
  OBVIOUS
<1>5. n \in Slots /\ last = Ahead(planned, n)
  <2>1. PICK k \in Slots : last = Ahead(planned, k)
    BY <1>3, SlotAhead
  <2>2. 0 \in Slots /\ planned = Ahead(planned, 0)
    BY AheadNone
  <2>3. k \in Nat /\ 0 <= k
    BY <1>1 DEF Slots
  <2>4. Ahead(last, BLOCK_BUFFER_SIZE - planned) = k - 0
    BY <2>1, <2>2, <2>3, AheadAhead
  <2> QED
    BY <1>4, <2>1, <2>3, <2>4
<1> DEFINE reached == \/ n = 1 /\ planned = t
                      \/ \E j \in 2 .. n : t = Ahead(last, BLOCK_BUFFER_SIZE - j)
           noticed == IF reached THEN Notified(b, t, p) ELSE b
           forward == ForwardPass(ReversePass(noticed, last, n), planned, n)
<1>6. r = IF n = 0 THEN [buffer |-> b, planned |-> planned, prep |-> p]
          ELSE [buffer |-> forward.buffer, planned |-> forward.planned,
                prep |-> IF reached THEN Unloaded(p) ELSE p]
  BY <1>2, <1>4 DEF planner_recalculate
<1>7. Unloaded(p) = p /\ Notified(b, t, p) = b
  BY DEF Unloaded, Notified
<1> HIDE DEF reached
<1>8. noticed = b
  BY <1>7
<1> HIDE DEF forward, noticed
<1>9. CASE n = 0
  <2>1. last = planned
    BY <1>5, <1>9, AheadNone
  <2> QED
    BY <1>2, <1>6, <1>9, <2>1
<1>10. CASE n # 0
  <2>1. n \in 1 .. BLOCK_BUFFER_SIZE - 1 /\ n \in 0 .. BLOCK_BUFFER_SIZE - 1 /\ n \in Nat
    BY <1>1, <1>5, <1>10 DEF Slots
  <2>2. PICK d : d = ReversePass(b, last, n)
    OBVIOUS
  <2>3. PICK rv : rv = ReverseSpeeds(b, last, n)
    OBVIOUS
  <2>4. /\ rv \in [0 .. n - 1 -> Nat]
        /\ rv[0] = LastEntrySpeed(Behind(b, last, 0))
        /\ \A j \in 1 .. n - 1 :
              rv[j] = IF Behind(b, last, j).entry = Behind(b, last, j).max_entry THEN Behind(b, last, j).entry
                       ELSE Lesser(Behind(b, last, j).max_entry, rv[j - 1] + Behind(b, last, j).reach)
    <3>1. b \in Buffers /\ n \in 1 .. BLOCK_BUFFER_SIZE - 1
      BY <2>1
    <3>2. ReverseOf(b, last, n, rv)
      BY ONLY <1>3, <2>3, <3>1, ReverseOfSpeeds
    <3> QED
      BY ONLY <3>2 DEF ReverseOf
  <2>5. \A i \in Slots : b[i] \in Blocks
    BY DEF Buffers
  <2>6. \A j \in 0 .. n - 1 : rv[j] = 0
    <3> SUFFICES ASSUME NEW j \in 0 .. n - 1
                 PROVE  rv[j] = 0
      OBVIOUS
    <3>1. Ahead(last, BLOCK_BUFFER_SIZE - j) \in Slots
      <4>1. BLOCK_BUFFER_SIZE - j \in 0 .. BLOCK_BUFFER_SIZE
        BY <1>1, <2>1
      <4> QED
        BY <1>3, <4>1, AheadSlot
    <3>2. Behind(b, last, j).entry = 0 /\ Behind(b, last, j).max_entry = 0 /\ Behind(b, last, j) \in Blocks
      BY <2>5, <3>1 DEF Behind
    <3>3. CASE j = 0
      BY <2>4, <3>2, <3>3 DEF LastEntrySpeed, Lesser, Blocks
    <3>4. CASE j # 0
      <4>1. j \in 1 .. n - 1
        BY <2>1, <3>4
      <4> QED
        BY <2>4, <3>2, <4>1
    <3> QED
      BY <3>3, <3>4
  <2>7. d = b
    <3> DEFINE back(i) == Ahead(last, BLOCK_BUFFER_SIZE - i)
    <3>1. d = [i \in Slots |-> IF back(i) < n THEN [b[i] EXCEPT !.entry = rv[back(i)]] ELSE b[i]]
      BY <2>2, <2>3 DEF ReversePass
    <3>2. \A i \in Slots : back(i) < n => back(i) \in 0 .. n - 1
      <4> SUFFICES ASSUME NEW i \in Slots, back(i) < n
                   PROVE  back(i) \in 0 .. n - 1
        OBVIOUS
      <4>1. BLOCK_BUFFER_SIZE - i \in 0 .. BLOCK_BUFFER_SIZE
        BY <1>1 DEF Slots
      <4>2. back(i) \in Slots
        BY <1>3, <4>1, AheadSlot
      <4> HIDE DEF back
      <4> QED
        BY <1>1, <2>1, <4>2 DEF Slots
    <3> HIDE DEF back
    <3>3. ASSUME NEW i \in Slots
          PROVE  d[i] = b[i]
      <4>1. b[i] \in Blocks /\ b[i].entry = 0
        BY <2>5
      <4>2. CASE back(i) < n
        <5>1. rv[back(i)] = 0
          BY <2>6, <3>2, <4>2
        <5>2. d[i] = [b[i] EXCEPT !.entry = rv[back(i)]]
          BY <3>1, <4>2, Zenon
        <5>3. d[i] = [b[i] EXCEPT !.entry = 0]
          BY <5>1, <5>2, Zenon
        <5> QED
          BY ONLY <4>1, <5>3 DEF Blocks
      <4>3. CASE ~(back(i) < n)
        BY <3>1, <4>3, Zenon
      <4> QED
        BY <4>2, <4>3
    <3>4. d = [i \in Slots |-> d[i]] /\ b = [i \in Slots |-> b[i]]
      BY <3>1 DEF Buffers
    <3> HIDE DEF back
    <3> QED
      BY <3>3, <3>4
  <2>8. PICK f : f = ForwardPass(b, planned, n)
    OBVIOUS
  <2>9. r.buffer = f.buffer /\ r.planned = f.planned /\ r.prep = p
    <3>1. forward = f
      BY <1>8, <2>2, <2>7, <2>8 DEF forward
    <3> QED
      BY <1>6, <1>7, <1>10, <3>1
  <2>10. PICK fwd : fwd = ForwardSpeeds(b, planned, n)
    OBVIOUS
  <2>11. /\ fwd \in [0 .. n -> Nat]
         /\ fwd[0] = b[Ahead(planned, 0)].entry
         /\ \A k \in 1 .. n :
               fwd[k] = Lesser(fwd[k - 1] + b[Ahead(planned, k - 1)].reach, b[Ahead(planned, k)].entry)
    BY ONLY <2>1, <2>10, b \in Buffers, planned \in Slots, ForwardSpeedsDefined, Zenon
  <2>12. \A k \in 0 .. n : Ahead(planned, k) \in Slots
    <3>1. \A k \in 0 .. n : k \in 0 .. BLOCK_BUFFER_SIZE
      BY <1>1, <2>1
    <3> QED
      BY <3>1, AheadSlot
  <2>13. \A k \in 0 .. n : fwd[k] = 0
    <3> SUFFICES ASSUME NEW k \in 0 .. n
                 PROVE  fwd[k] = 0
      OBVIOUS
    <3>1. CASE k = 0
      BY <2>11, <2>12, <3>1
    <3>2. CASE k # 0
      <4>1. k \in 1 .. n /\ k - 1 \in 0 .. n
        BY <2>1, <3>2
      <4>2. b[Ahead(planned, k)].entry = 0 /\ b[Ahead(planned, k - 1)] \in Blocks
        BY <2>5, <2>12, <4>1
      <4>3. b[Ahead(planned, k - 1)].reach \in Nat
        BY <4>2 DEF Blocks
      <4>4. fwd[k - 1] \in Nat
        BY <2>11, <4>1
      <4>5. fwd[k] = Lesser(fwd[k - 1] + b[Ahead(planned, k - 1)].reach, b[Ahead(planned, k)].entry)
        BY <2>11, <4>1
      <4> QED
        BY <4>2, <4>3, <4>4, <4>5 DEF Lesser
    <3> QED
      BY <3>1, <3>2
  <2>14. f.buffer = b
    <3> DEFINE place(i) == Ahead(i, BLOCK_BUFFER_SIZE - planned)
    <3>1. f.buffer = [i \in Slots |-> IF place(i) <= n THEN [b[i] EXCEPT !.entry = fwd[place(i)]] ELSE b[i]]
      BY <2>8, <2>10 DEF ForwardPass
    <3>2. \A i \in Slots : place(i) <= n => place(i) \in 0 .. n
      <4> SUFFICES ASSUME NEW i \in Slots, place(i) <= n
                   PROVE  place(i) \in 0 .. n
        OBVIOUS
      <4>1. BLOCK_BUFFER_SIZE - planned \in 0 .. BLOCK_BUFFER_SIZE
        BY <1>1 DEF Slots
      <4>2. place(i) \in Slots
        BY <4>1, AheadSlot
      <4> HIDE DEF place
      <4> QED
        BY <1>1, <2>1, <4>2 DEF Slots
    <3> HIDE DEF place
    <3>3. ASSUME NEW i \in Slots
          PROVE  f.buffer[i] = b[i]
      <4>1. b[i] \in Blocks /\ b[i].entry = 0
        BY <2>5
      <4>2. CASE place(i) <= n
        <5>1. fwd[place(i)] = 0
          BY <2>13, <3>2, <4>2
        <5>2. f.buffer[i] = [b[i] EXCEPT !.entry = fwd[place(i)]]
          BY <3>1, <4>2, Zenon
        <5>3. f.buffer[i] = [b[i] EXCEPT !.entry = 0]
          BY <5>1, <5>2, Zenon
        <5> QED
          BY ONLY <4>1, <5>3 DEF Blocks
      <4>3. CASE ~(place(i) <= n)
        BY <3>1, <4>3, Zenon
      <4> QED
        BY <4>2, <4>3
    <3>4. f.buffer = [i \in Slots |-> f.buffer[i]] /\ b = [i \in Slots |-> b[i]]
      BY <3>1 DEF Buffers
    <3> QED
      BY <3>3, <3>4
  <2>15. f.planned = Ahead(planned, n)
    <3> DEFINE breaks == {k \in 1 .. n : OptimalBreak(b[Ahead(planned, k)], fwd[k])}
    <3>1. f.planned = IF breaks = {} THEN planned
                      ELSE Ahead(planned, CHOOSE k \in breaks : \A l \in breaks : l <= k)
      BY <2>8, <2>10 DEF ForwardPass
    <3>2. breaks = 1 .. n
      <4>1. ASSUME NEW k \in 1 .. n
            PROVE  OptimalBreak(b[Ahead(planned, k)], fwd[k])
        <5>1. k \in 0 .. n
          BY <2>1
        <5> QED
          BY <2>12, <2>13, <5>1 DEF OptimalBreak
      <4> QED
        BY <4>1
    <3> HIDE DEF breaks
    <3>3. n \in 1 .. n /\ 1 .. n # {} /\ \A k \in 1 .. n : k <= n /\ (n <= k => k = n)
      BY <2>1
    <3>4. (CHOOSE k \in 1 .. n : \A l \in 1 .. n : l <= k) = n
      BY <3>3
    <3> QED
      BY <3>1, <3>2, <3>3, <3>4
  <2> QED
    BY <1>2, <1>5, <2>9, <2>14, <2>15
<1> QED
  BY <1>9, <1>10


\* The plan of an empty queue.
LEMMA EmptyPlan ==
    ASSUME NEW b \in Buffers, \A i \in Slots : b[i].entry = 0 /\ b[i].max_entry = 0,
           NEW t \in Slots, NEW q \in {0, BLOCK_BUFFER_SIZE - 1}, NEW pl, pl = Ahead(t, q),
           NEW pn, NEW o, NEW sc, ~sc.endMotion, NEW low,
           NEW p \in Preps, ~Underway(p), p.speed = 0, p.exit = 0
    PROVE  PlanOf(b, t, t, pl, pn, o, sc, p, low)
<1> DEFINE N == [k \in Slots |-> b[Ahead(t, k)]]
           w == [k \in 0 .. 0 |-> 0]
<1>1. BLOCK_BUFFER_SIZE \in Nat /\ BLOCK_BUFFER_SIZE > 1 /\ 0 \in Slots /\ q \in Slots /\ Ahead(t, 0) = t
  BY RingAssumption, AheadNone DEF Slots
<1>2. \A k \in Slots : N[k] = b[Ahead(t, k)] /\ Ahead(t, k) \in Slots
  BY AheadAhead
<1>3. N \in Views /\ Seen(b, t, N)
  BY <1>2 DEF Views, Buffers, Seen
<1>4. Free(N, 0)
  BY <1>2 DEF Free
<1>5. w \in [0 .. 0 -> Nat] /\ w[0] = 0
  OBVIOUS
<1> HIDE DEF N, w
<1>6. 0 .. 0 - 1 = {} /\ 1 .. 0 - 1 = {} /\ ~(0 > 0)
  OBVIOUS
<1>7. Limited(N, 0, o, pn) /\ Slow(N, 0, o, sc, p) /\ Fast(N, 0, q, sc, p)
  BY <1>6 DEF Limited, Slow, Fast
<1>8. Prepared(N, 0, sc, p)
  BY DEF Prepared, Underway
<1>9. Distances(N, 0, w)
  BY <1>5, <1>6 DEF Distances
<1>10. Stops(N, 0, w, p)
  BY <1>5, <1>6 DEF Stops, Underway
<1>11. Planning(N, 0, q, w, o, pn, sc, p, low)
  BY <1>4, <1>7, <1>8, <1>9, <1>10 DEF Planning, Steady
<1>12. Pointed(0, q)
  BY DEF Pointed
<1> QED
  BY <1>1, <1>3, <1>11, <1>12 DEF PlanOf

LEMMA NoPlan ==
    ASSUME NEW b \in Buffers, NEW t \in Slots, NEW pl, NEW pn, NEW o, NEW sc, NEW low,
           NEW p \in Preps, PlanOf(b, t, t, pl, pn, o, sc, p, low)
    PROVE  /\ \A i \in Slots : b[i].entry = 0 /\ b[i].max_entry = 0
           /\ \E q \in {0, BLOCK_BUFFER_SIZE - 1} : pl = Ahead(t, q)
           /\ ~Underway(p) /\ p.speed = 0 /\ p.exit = 0 /\ ~sc.endMotion
<1>1. PICK N \in Views, c \in Slots, q \in Slots :
        \E w : /\ Seen(b, t, N) /\ t = Ahead(t, c) /\ pl = Ahead(t, q) /\ Pointed(c, q)
               /\ Planning(N, c, q, w, o, pn, sc, p, low)
  BY Zenon DEF PlanOf
<1>11. PICK w : /\ Seen(b, t, N) /\ t = Ahead(t, c) /\ pl = Ahead(t, q) /\ Pointed(c, q)
                /\ Planning(N, c, q, w, o, pn, sc, p, low)
  BY <1>1, Zenon
<1>2. Seen(b, t, N) /\ pl = Ahead(t, q) /\ Pointed(c, q) /\ Planning(N, c, q, w, o, pn, sc, p, low)
  BY <1>11, Zenon
<1>3. c = 0
  <2>1. 0 \in Slots /\ t = Ahead(t, 0)
    BY AheadNone
  <2>2. Ahead(t, c) = Ahead(t, 0)
    BY <1>11, <2>1, Zenon
  <2>3. 0 \in Slots
    BY <2>1, Zenon
  <2> QED
    BY <2>2, <2>3, AheadAhead
<1>4. /\ Free(N, 0) /\ Prepared(N, 0, sc, p) /\ Distances(N, 0, w) /\ Stops(N, 0, w, p)
      /\ q \in {0, BLOCK_BUFFER_SIZE - 1}
  BY <1>2, <1>3 DEF Planning, Steady, Pointed
<1>5. ~Underway(p) /\ p.speed = p.exit /\ ~sc.endMotion
  BY <1>4 DEF Prepared
<1>6. p.exit \in Nat /\ p.exit <= 0
  BY <1>4, <1>5 DEF Stops, Distances, Preps
<1>7. ASSUME NEW i \in Slots
      PROVE  b[i].entry = 0 /\ b[i].max_entry = 0
  <2>1. PICK k \in Slots : i = Ahead(t, k)
    BY SlotAhead
  <2>2. k >= 0
    BY RingAssumption DEF Slots
  <2>3. N[k].entry = 0 /\ N[k].max_entry = 0 /\ b[i] = N[k]
    BY <1>2, <1>4, <2>1, <2>2 DEF Free, Seen
  <2> QED
    BY <2>3
<1> QED
  BY <1>2, <1>4, <1>5, <1>6, <1>7

\* From nothing: the initial state, and a reset.
LEMMA ClearedPlan ==
    ASSUME NEW pn, NEW o, NEW low
    PROVE  PlanOf([i \in Slots |-> NoBlock], 0, 0, 0, pn, o, NoControl, IdlePrep, low)
<1>1. 0 \in Slots /\ NoBlock \in Blocks /\ NoBlock.entry = 0 /\ NoBlock.max_entry = 0
  BY RingAssumption DEF Slots, NoBlock, Blocks
<1> DEFINE b == [i \in Slots |-> NoBlock]
<1>3. b \in Buffers /\ \A i \in Slots : b[i].entry = 0 /\ b[i].max_entry = 0
  BY <1>1 DEF Buffers
<1> HIDE DEF b
<1>4. IdlePrep \in Preps /\ ~Underway(IdlePrep) /\ IdlePrep.speed = 0 /\ IdlePrep.exit = 0 /\ ~NoControl.endMotion
  BY DEF IdlePrep, Preps, Underway, NoControl
<1>5. 0 = Ahead(0, 0)
  BY <1>1, AheadNone
<1>6. PICK p, sc : p = IdlePrep /\ sc = NoControl
  OBVIOUS
<1>7. PlanOf(b, 0, 0, 0, pn, o, sc, p, low)
  BY <1>1, <1>3, <1>4, <1>5, <1>6, EmptyPlan
<1> QED
  BY <1>6, <1>7 DEF b

LEMMA InitPlan == Init => PlanInv
<1> SUFFICES ASSUME Init
             PROVE  PlanInv
  OBVIOUS
<1>1. /\ block_buffer = [i \in Slots |-> NoBlock] /\ block_buffer_tail = 0 /\ block_buffer_head = 0
      /\ block_buffer_planned = 0 /\ step_control = NoControl /\ prep = IdlePrep
  BY DEF Init
<1>2. PlanOf([i \in Slots |-> NoBlock], 0, 0, 0, previous_nominal, f_override, NoControl, IdlePrep, lowered)
  BY ClearedPlan
<1> QED
  BY <1>1, <1>2, InitTypes DEF PlanInv

LEMMA ResetPlan ==
    ASSUME PlanInv, NEW o \in {f_override, DefaultFeedOverride}, Reset(o)
    PROVE  PlanInv'
<1>1. PlannerTypes'
  BY ResetTypes DEF PlanInv
<1>2. /\ block_buffer' = [i \in Slots |-> NoBlock] /\ block_buffer_tail' = 0 /\ block_buffer_head' = 0
      /\ block_buffer_planned' = 0 /\ step_control' = NoControl /\ prep' = IdlePrep
  BY DEF Reset
<1>3. PICK pn, f, low : pn = previous_nominal' /\ f = f_override' /\ low = lowered'
  OBVIOUS
<1>4. PlanOf([i \in Slots |-> NoBlock], 0, 0, 0, pn, f, NoControl, IdlePrep, low)
  BY ClearedPlan
<1> QED
  BY <1>1, <1>2, <1>3, <1>4 DEF PlanInv


-----------------------------------------------------------------------------
(* The operations that replan nothing. *)

\* The plan of a queue that is not empty.
LEMMA ThePlan ==
    ASSUME NEW b, NEW t \in Slots, NEW h, NEW pl, NEW pn, NEW o, NEW sc, NEW low,
           NEW p, PlanOf(b, t, h, pl, pn, o, sc, p, low), h # t
    PROVE  \E N \in Views, c \in 1 .. BLOCK_BUFFER_SIZE - 1, q \in Slots : \E w :
             /\ q \in 0 .. c - 1 /\ Seen(b, t, N) /\ h = Ahead(t, c) /\ pl = Ahead(t, q)
             /\ Planning(N, c, q, w, o, pn, sc, p, low)
<1>1. PICK N \in Views, c \in Slots, q \in Slots :
        \E w : /\ Seen(b, t, N) /\ h = Ahead(t, c) /\ pl = Ahead(t, q) /\ Pointed(c, q)
               /\ Planning(N, c, q, w, o, pn, sc, p, low)
  BY Zenon DEF PlanOf
<1>2. PICK w : /\ Seen(b, t, N) /\ h = Ahead(t, c) /\ pl = Ahead(t, q) /\ Pointed(c, q)
               /\ Planning(N, c, q, w, o, pn, sc, p, low)
  BY <1>1, Zenon
<1>3. c # 0
  <2>1. Ahead(t, 0) = t
    BY AheadNone
  <2> QED
    BY <1>2, <2>1, Zenon
<1>4. c \in 1 .. BLOCK_BUFFER_SIZE - 1 /\ c > 0
  BY <1>3, RingAssumption DEF Slots
<1>5. q \in 0 .. c - 1
  BY <1>2, <1>4 DEF Pointed
<1> QED
  BY <1>2, <1>4, <1>5, Zenon

LEMMA APlan ==
    ASSUME NEW b, NEW t, NEW h, NEW pl, NEW pn, NEW o, NEW sc, NEW low, NEW p,
           NEW N \in Views, NEW c \in 1 .. BLOCK_BUFFER_SIZE - 1, NEW q \in 0 .. c - 1, NEW w,
           Seen(b, t, N), h = Ahead(t, c), pl = Ahead(t, q),
           Planning(N, c, q, w, o, pn, sc, p, low)
    PROVE  PlanOf(b, t, h, pl, pn, o, sc, p, low)
<1>1. c \in Slots /\ q \in Slots /\ c > 0
  BY RingAssumption DEF Slots
<1>2. Pointed(c, q)
  BY <1>1 DEF Pointed
<1> QED
  BY <1>1, <1>2, Zenon DEF PlanOf

\* The plan does not depend on what is in free slots.
LEMMA SamePlan ==
    ASSUME NEW N \in Views, NEW B \in Views, NEW c \in 1 .. BLOCK_BUFFER_SIZE - 1,
           \A k \in 0 .. c - 1 : B[k] = N[k], Free(B, c), NEW q \in 0 .. c - 1, NEW w,
           NEW o, NEW pn, NEW sc, NEW p, NEW low, Planning(N, c, q, w, o, pn, sc, p, low)
    PROVE  Planning(B, c, q, w, o, pn, sc, p, low)
<1>1. /\ c \in Nat /\ q \in Nat /\ c > 0 /\ 0 \in 0 .. c - 1 /\ c - 1 \in 0 .. c - 1
      /\ \A k \in 1 .. c - 1 : k \in 0 .. c - 1 /\ k - 1 \in 0 .. c - 1
      /\ \A k \in 0 .. c - 1 : k # c - 1 => k + 1 \in 0 .. c - 1
      /\ q >= 1 => q \in 1 .. c - 1
  BY RingAssumption
<1>2. \A k \in 0 .. c - 1 : NominalOf(B, k, o) = NominalOf(N, k, o)
  BY DEF NominalOf
<1>3. Limited(N, c, o, pn) => Limited(B, c, o, pn)
  BY <1>1, <1>2 DEF Limited
<1>4. Prepared(N, c, sc, p) => Prepared(B, c, sc, p)
  BY <1>1 DEF Prepared
<1>5. Distances(N, c, w) => Distances(B, c, w)
  BY DEF Distances
<1>6. Stops(N, c, w, p) => Stops(B, c, w, p)
  BY DEF Stops
<1>7. Starts(B, sc, p) = Starts(N, sc, p)
  BY <1>1 DEF Starts
<1>8. ASSUME NEW s, NEW k \in 0 .. c - 1
      PROVE  Enters(B, s, k) = Enters(N, s, k) /\ Leaves(B, c, k) = Leaves(N, c, k)
  BY <1>1 DEF Enters, Leaves
<1>9. ASSUME NEW s
      PROVE  /\ Braked(N, c, s) => Braked(B, c, s)
             /\ Driven(N, c, s) => Driven(B, c, s)
             /\ \A k \in 1 .. c - 1 : Pressed(N, s, k) => Pressed(B, s, k)
  BY <1>1, <1>8 DEF Braked, Driven, Pressed
<1>10. ASSUME NEW s
       PROVE  Tight(N, c, s, q) => Tight(B, c, s, q)
  BY <1>1, <1>8, <1>9 DEF Tight
<1>11. Slow(N, c, o, sc, p) => Slow(B, c, o, sc, p)
  BY <1>1, <1>2, <1>7, <1>9 DEF Slow
<1>12. Fast(N, c, q, sc, p) => Fast(B, c, q, sc, p)
  BY <1>1, <1>7, <1>8, <1>9, <1>10 DEF Fast
<1> QED
  BY <1>3, <1>4, <1>5, <1>6, <1>11, <1>12 DEF Planning, Steady

\* Views that differ in the entry speed of the first block only.
Renewed(N, B) ==
    /\ \A k \in Slots : k # 0 => B[k] = N[k]
    /\ B[0] = [N[0] EXCEPT !.entry = B[0].entry]

LEMMA NewEntry ==
    ASSUME NEW N \in Views, NEW B \in Views, Renewed(N, B),
           NEW c \in 1 .. BLOCK_BUFFER_SIZE - 1, NEW q \in 0 .. c - 1, NEW w, NEW o, NEW pn, NEW s
    PROVE  /\ Free(N, c) => Free(B, c)
           /\ Limited(N, c, o, pn) => Limited(B, c, o, pn)
           /\ Distances(N, c, w) => Distances(B, c, w)
           /\ Braked(N, c, s) => Braked(B, c, s)
           /\ Driven(N, c, s) => Driven(B, c, s)
           /\ Tight(N, c, s, q) => Tight(B, c, s, q)
           /\ Leaves(B, c, 0) = Leaves(N, c, 0)
           /\ NominalOf(B, 0, o) = NominalOf(N, 0, o)
           /\ B[0].reach = N[0].reach
<1>1. /\ c \in Nat /\ q \in Nat /\ c > 0 /\ 0 \in 0 .. c - 1 /\ c - 1 \in 0 .. c - 1 /\ 0 \in Slots
      /\ \A k \in 1 .. c - 1 : k \in 0 .. c - 1 /\ k - 1 \in 0 .. c - 1 /\ k # 0
      /\ \A k \in 0 .. c - 1 : k \in Slots /\ (k # c - 1 => k + 1 \in 0 .. c - 1 /\ k + 1 # 0)
      /\ \A k \in Slots : k >= c => k # 0
      /\ q >= 1 => q \in 1 .. c - 1
  BY RingAssumption DEF Slots
<1>2. N[0] \in Blocks /\ B[0] = [N[0] EXCEPT !.entry = B[0].entry]
  BY <1>1, ViewTypes DEF Renewed
<1>20. \A k \in 0 .. c - 1 : k # 0 => B[k] = N[k]
  BY <1>1 DEF Renewed
<1>3. /\ B[0].reach = N[0].reach /\ B[0].junction = N[0].junction
      /\ \A u : NominalOf(B, 0, u) = NominalOf(N, 0, u)
  <2>1. B[0].reach = N[0].reach /\ B[0].junction = N[0].junction
    BY <1>2 DEF Blocks
  <2> QED
    BY <1>2, <2>1, SameNominal DEF NominalOf
<1>4. \A k \in 0 .. c - 1 : B[k].reach = N[k].reach /\ NominalOf(B, k, o) = NominalOf(N, k, o)
  <2> SUFFICES ASSUME NEW k \in 0 .. c - 1
               PROVE  B[k].reach = N[k].reach /\ NominalOf(B, k, o) = NominalOf(N, k, o)
    OBVIOUS
  <2>1. CASE k = 0
    BY <1>3, <2>1
  <2>2. CASE k # 0
    BY <1>20, <2>2 DEF NominalOf
  <2> QED
    BY <2>1, <2>2
<1>5. Free(N, c) => Free(B, c)
  BY <1>1 DEF Free, Renewed
<1>6. Limited(N, c, o, pn) => Limited(B, c, o, pn)
  BY <1>1, <1>4, <1>20 DEF Limited
<1>7. Distances(N, c, w) => Distances(B, c, w)
  BY <1>4 DEF Distances
<1>8. \A k \in 0 .. c - 1 : Enters(B, s, k) = Enters(N, s, k) /\ Leaves(B, c, k) = Leaves(N, c, k)
  BY <1>1, <1>20 DEF Enters, Leaves
<1>9. /\ Braked(N, c, s) => Braked(B, c, s)
      /\ Driven(N, c, s) => Driven(B, c, s)
      /\ \A k \in 1 .. c - 1 : Pressed(N, s, k) => Pressed(B, s, k)
  BY <1>1, <1>4, <1>8, <1>20 DEF Braked, Driven, Pressed
<1>10. Tight(N, c, s, q) => Tight(B, c, s, q)
  BY <1>1, <1>4, <1>8, <1>9, <1>20 DEF Tight
<1> QED
  BY <1>1, <1>3, <1>5, <1>6, <1>7, <1>8, <1>9, <1>10


\* Step control returns to normal.
LEMMA InitiatePlan ==
    ASSUME PlanInv, InitiateCycle
    PROVE  PlanInv'
<1>1. /\ UNCHANGED <<block_buffer, ring, block_buffer_planned, previous_nominal, f_override, prep, lowered>>
      /\ ~step_control.executeHold /\ step_control' = NoControl
  BY DEF InitiateCycle
<1>2. PlannerTypes'
  BY InitiateTypes DEF PlanInv
<1>3. PICK sc : sc = NoControl
  OBVIOUS
<1>4. ~sc.executeHold /\ ~sc.endMotion
  BY <1>3 DEF NoControl
<1>5. ASSUME NEW N, NEW c, NEW q, NEW w,
             Planning(N, c, q, w, f_override, previous_nominal, step_control, prep, lowered)
      PROVE  Planning(N, c, q, w, f_override, previous_nominal, sc, prep, lowered)
  <2>1. Starts(N, sc, prep) = Starts(N, step_control, prep)
    BY <1>1, <1>4 DEF Starts
  <2>2. Prepared(N, c, sc, prep)
    BY <1>1, <1>4, <1>5 DEF Planning, Steady, Prepared
  <2>3. /\ Slow(N, c, f_override, step_control, prep) => Slow(N, c, f_override, sc, prep)
        /\ Fast(N, c, q, step_control, prep) => Fast(N, c, q, sc, prep)
    BY <2>1 DEF Slow, Fast
  <2> QED
    BY <1>1, <1>4, <1>5, <2>2, <2>3 DEF Planning, Steady
<1>6. PlanOf(block_buffer, block_buffer_tail, block_buffer_head, block_buffer_planned,
             previous_nominal, f_override, step_control, prep, lowered)
  BY DEF PlanInv
<1>7. PlanOf(block_buffer, block_buffer_tail, block_buffer_head, block_buffer_planned,
             previous_nominal, f_override, sc, prep, lowered)
  BY <1>5, <1>6, Zenon DEF PlanOf
<1> QED
  BY <1>1, <1>2, <1>3, <1>7 DEF PlanInv, ring

\* A system motion is planned in the free slot.
LEMMA SystemMotionPlan ==
    ASSUME PlanInv, NEW l \in SystemReaches, BufferSystemMotion(l)
    PROVE  PlanInv'
<1> DEFINE a == [NoBlock EXCEPT !.rate = RapidRate, !.reach = l]
           b == [block_buffer EXCEPT ![block_buffer_head] = a]
<1>1. /\ block_buffer' = b
      /\ UNCHANGED <<ring, block_buffer_planned, previous_nominal, f_override, step_control, prep, lowered>>
  BY DEF BufferSystemMotion
<1>2. PlannerTypes'
  BY SystemMotionTypes DEF PlanInv
<1>3. /\ block_buffer \in Buffers /\ block_buffer_tail \in Slots /\ block_buffer_head \in Slots /\ prep \in Preps
      /\ PlanOf(block_buffer, block_buffer_tail, block_buffer_head, block_buffer_planned,
                previous_nominal, f_override, step_control, prep, lowered)
  BY DEF PlanInv, PlannerTypes, RingInv, RingTypes
<1>4. a \in Blocks /\ a.entry = 0 /\ a.max_entry = 0
  BY DataAssumption DEF NoBlock, Blocks
<1> HIDE DEF a
<1>5. b \in Buffers /\ \A i \in Slots : b[i] = IF i = block_buffer_head THEN a ELSE block_buffer[i]
  BY <1>3, <1>4 DEF Buffers
<1> HIDE DEF b
<1>6. PlanOf(b, block_buffer_tail, block_buffer_head, block_buffer_planned,
             previous_nominal, f_override, step_control, prep, lowered)
  <2>1. CASE block_buffer_head = block_buffer_tail
    <3>1. PlanOf(block_buffer, block_buffer_tail, block_buffer_tail, block_buffer_planned,
                 previous_nominal, f_override, step_control, prep, lowered)
      BY <1>3, <2>1
    <3>2. /\ \A i \in Slots : block_buffer[i].entry = 0 /\ block_buffer[i].max_entry = 0
          /\ \E q \in {0, BLOCK_BUFFER_SIZE - 1} : block_buffer_planned = Ahead(block_buffer_tail, q)
          /\ ~Underway(prep) /\ prep.speed = 0 /\ prep.exit = 0 /\ ~step_control.endMotion
      BY <1>3, <3>1, NoPlan
    <3>3. \A i \in Slots : b[i].entry = 0 /\ b[i].max_entry = 0
      BY <1>4, <1>5, <3>2
    <3>4. PICK q \in {0, BLOCK_BUFFER_SIZE - 1} : block_buffer_planned = Ahead(block_buffer_tail, q)
      BY <3>2
    <3>5. PlanOf(b, block_buffer_tail, block_buffer_tail, block_buffer_planned,
                 previous_nominal, f_override, step_control, prep, lowered)
      BY <1>3, <1>5, <3>2, <3>3, <3>4, EmptyPlan
    <3> QED
      BY <2>1, <3>5
  <2>2. CASE block_buffer_head # block_buffer_tail
    <3>1. PICK N \in Views, c \in 1 .. BLOCK_BUFFER_SIZE - 1, q \in Slots : \E w :
            /\ q \in 0 .. c - 1 /\ Seen(block_buffer, block_buffer_tail, N) /\ block_buffer_head = Ahead(block_buffer_tail, c)
            /\ block_buffer_planned = Ahead(block_buffer_tail, q)
            /\ Planning(N, c, q, w, f_override, previous_nominal, step_control, prep, lowered)
      BY <1>3, <2>2, ThePlan
    <3>2. PICK w :
            /\ q \in 0 .. c - 1 /\ Seen(block_buffer, block_buffer_tail, N) /\ block_buffer_head = Ahead(block_buffer_tail, c)
            /\ block_buffer_planned = Ahead(block_buffer_tail, q)
            /\ Planning(N, c, q, w, f_override, previous_nominal, step_control, prep, lowered)
      BY <3>1, Zenon
    <3> DEFINE B == [N EXCEPT ![c] = a]
    <3>3. c \in Slots /\ \A k \in 0 .. c - 1 : k \in Slots /\ k # c
      BY RingAssumption DEF Slots
    <3>4. B \in Views /\ \A k \in Slots : B[k] = IF k = c THEN a ELSE N[k]
      BY <1>4, <3>3 DEF Views
    <3> HIDE DEF B
    <3>5. Seen(b, block_buffer_tail, B)
      <4>1. ASSUME NEW k \in Slots
            PROVE  b[Ahead(block_buffer_tail, k)] = B[k]
        <5>1. Ahead(block_buffer_tail, k) \in Slots /\ (Ahead(block_buffer_tail, k) = block_buffer_head => k = c)
              /\ (k = c => Ahead(block_buffer_tail, k) = block_buffer_head)
          BY <1>3, <3>2, <3>3, AheadAhead
        <5>2. block_buffer[Ahead(block_buffer_tail, k)] = N[k]
          BY <3>2 DEF Seen
        <5> QED
          BY <1>5, <3>4, <5>1, <5>2
      <4> QED
        BY <4>1 DEF Seen
    <3>6. Free(B, c)
      <4>1. Free(N, c)
        BY <3>2 DEF Planning, Steady
      <4> QED
        BY <1>4, <3>4, <4>1 DEF Free
    <3>7. \A k \in 0 .. c - 1 : B[k] = N[k]
      BY <3>3, <3>4
    <3>8. Planning(B, c, q, w, f_override, previous_nominal, step_control, prep, lowered)
      BY <3>2, <3>4, <3>6, <3>7, SamePlan
    <3> QED
      BY <1>3, <3>2, <3>4, <3>5, <3>8, APlan
  <2> QED
    BY <2>1, <2>2
<1> QED
  BY <1>1, <1>2, <1>6 DEF PlanInv, ring

\* What the stepper's view becomes when it is told of a new plan.
LEMMA UnloadedIs ==
    ASSUME NEW p \in Preps
    PROVE  /\ Unloaded(p) \in Preps /\ ~Unloaded(p).loaded
           /\ Unloaded(p).speed = p.speed /\ Unloaded(p).exit = p.exit
           /\ Unloaded(p).recalculate <=> p.loaded \/ p.recalculate
           /\ Underway(Unloaded(p)) <=> Underway(p)
           /\ ~Underway(p) => Unloaded(p) = p
BY DEF Preps, Unloaded, Underway

\* The plan takes up the speed of the machine: what is planned stays good.
LEMMA NoticedPlan ==
    ASSUME NEW N \in Views, NEW B \in Views, Renewed(N, B), NEW c \in 1 .. BLOCK_BUFFER_SIZE - 1,
           NEW w, NEW o, NEW pn, NEW sc, NEW p \in Preps, NEW low, Steady(N, c, w, o, pn, sc, p, low),
           B[0].entry = IF p.loaded THEN p.speed ELSE N[0].entry,
           NEW p2, p2 = Unloaded(p), NEW sd, sd.endMotion => sc.endMotion,
           ~low => Starts(B, sd, p2) = Starts(N, sc, p)
    PROVE  Steady(B, c, w, o, pn, sd, p2, low)
<1>0. /\ Free(N, c) /\ Prepared(N, c, sc, p) /\ Limited(N, c, o, pn)
      /\ Distances(N, c, w) /\ Stops(N, c, w, p)
      /\ ~low => Slow(N, c, o, sc, p)
  BY DEF Steady
<1>1. c \in Nat /\ c > 0 /\ 0 \in Slots /\ 0 \in 0 .. c - 1 /\ \A k \in 0 .. c - 1 : k \in Slots
  BY RingAssumption DEF Slots
<1>2. /\ p2 \in Preps /\ ~p2.loaded /\ p2.speed = p.speed /\ p2.exit = p.exit
      /\ p2.recalculate <=> p.loaded \/ p.recalculate
      /\ Underway(p2) <=> Underway(p)
  BY UnloadedIs
<1>3. Free(B, c) /\ Limited(B, c, o, pn) /\ Distances(B, c, w)
  BY <1>0, <1>1, NewEntry
<1>4. Prepared(B, c, sd, p2)
  BY <1>0, <1>1, <1>2 DEF Prepared, Underway
<1>5. Stops(B, c, w, p2)
  <2>1. ASSUME NEW k \in 0 .. c - 1
        PROVE  B[k].entry <= w[k]
    BY <1>0, <1>1 DEF Stops, Underway, Renewed
  <2> QED
    BY <1>0, <1>2, <2>1 DEF Stops
<1>6. ASSUME ~low
      PROVE  Slow(B, c, o, sd, p2)
  <2>1. PICK s : s = Starts(N, sc, p)
    OBVIOUS
  <2>2. /\ Braked(N, c, s) /\ s <= Sq(NominalOf(N, 0, o)) /\ (~Underway(p) => p.exit <= N[0].entry)
    BY <1>0, <1>1, <1>6, <2>1 DEF Slow
  <2>3. Braked(B, c, s) /\ NominalOf(B, 0, o) = NominalOf(N, 0, o)
    BY <1>1, <2>2, NewEntry
  <2>4. ~Underway(p) => B[0].entry = N[0].entry
    BY DEF Underway
  <2> QED
    BY <1>2, <1>6, <2>1, <2>2, <2>3, <2>4 DEF Slow
<1> QED
  BY <1>3, <1>4, <1>5, <1>6 DEF Steady

\* The speed the plan starts from is that of the machine.
LEMMA NoticedStart ==
    ASSUME NEW N, NEW B, NEW sc, NEW sd, NEW p \in Preps, NEW p2, p2 = Unloaded(p),
           B[0].entry = IF p.loaded THEN p.speed ELSE N[0].entry,
           Underway(p) \/ (sd.executeHold <=> sc.executeHold)
    PROVE  Starts(B, sd, p2) = Starts(N, sc, p)
<1>1. /\ p2.speed = p.speed /\ p2.exit = p.exit
      /\ Underway(p2) <=> Underway(p)
  BY UnloadedIs
<1> QED
  BY <1>1 DEF Starts, Underway


\* A hold starts.
LEMMA HoldingPlan ==
    ASSUME PlanInv, StartHolding
    PROVE  PlanInv'
<1>1. /\ step_control = NoControl /\ prep' = Unloaded(prep)
      /\ block_buffer' = Notified(block_buffer, block_buffer_tail, prep)
      /\ step_control' = [NoControl EXCEPT !.executeHold = TRUE]
      /\ UNCHANGED <<ring, block_buffer_planned, previous_nominal, f_override, lowered>>
  BY DEF StartHolding
<1>2. PlannerTypes'
  BY HoldingTypes DEF PlanInv
<1>3. /\ block_buffer \in Buffers /\ block_buffer_tail \in Slots /\ block_buffer_head \in Slots /\ prep \in Preps
      /\ PlanOf(block_buffer, block_buffer_tail, block_buffer_head, block_buffer_planned,
                previous_nominal, f_override, step_control, prep, lowered)
  BY DEF PlanInv, PlannerTypes, RingInv, RingTypes
<1>4. PICK sd, p2, nb : /\ sd = [NoControl EXCEPT !.executeHold = TRUE] /\ p2 = Unloaded(prep)
                        /\ nb = Notified(block_buffer, block_buffer_tail, prep)
  OBVIOUS
<1>5. sd.executeHold /\ ~sd.endMotion /\ ~step_control.executeHold /\ ~step_control.endMotion
  BY <1>1, <1>4 DEF NoControl
<1>6. PlanOf(nb, block_buffer_tail, block_buffer_head, block_buffer_planned,
             previous_nominal, f_override, sd, p2, lowered)
  <2>1. CASE block_buffer_head = block_buffer_tail
    <3>1. PlanOf(block_buffer, block_buffer_tail, block_buffer_tail, block_buffer_planned,
                 previous_nominal, f_override, step_control, prep, lowered)
      BY <1>3, <2>1
    <3>2. /\ \A i \in Slots : block_buffer[i].entry = 0 /\ block_buffer[i].max_entry = 0
          /\ \E q \in {0, BLOCK_BUFFER_SIZE - 1} : block_buffer_planned = Ahead(block_buffer_tail, q)
          /\ ~Underway(prep) /\ prep.speed = 0 /\ prep.exit = 0
      BY <1>3, <3>1, NoPlan
    <3>3. p2 = prep
      BY <1>3, <1>4, <3>2, UnloadedIs
    <3>4. nb = block_buffer
      BY <1>4, <3>2 DEF Notified, Underway
    <3>5. PICK q \in {0, BLOCK_BUFFER_SIZE - 1} : block_buffer_planned = Ahead(block_buffer_tail, q)
      BY <3>2
    <3>6. PlanOf(block_buffer, block_buffer_tail, block_buffer_tail, block_buffer_planned,
                 previous_nominal, f_override, sd, prep, lowered)
      BY <1>3, <1>5, <3>2, <3>5, EmptyPlan
    <3> QED
      BY <2>1, <3>3, <3>4, <3>6
  <2>2. CASE block_buffer_head # block_buffer_tail
    <3>1. PICK N \in Views, c \in 1 .. BLOCK_BUFFER_SIZE - 1, q \in Slots : \E w :
            /\ q \in 0 .. c - 1 /\ Seen(block_buffer, block_buffer_tail, N)
            /\ block_buffer_head = Ahead(block_buffer_tail, c)
            /\ block_buffer_planned = Ahead(block_buffer_tail, q)
            /\ Planning(N, c, q, w, f_override, previous_nominal, step_control, prep, lowered)
      BY <1>3, <2>2, ThePlan
    <3>2. PICK w :
            /\ q \in 0 .. c - 1 /\ Seen(block_buffer, block_buffer_tail, N)
            /\ block_buffer_head = Ahead(block_buffer_tail, c)
            /\ block_buffer_planned = Ahead(block_buffer_tail, q)
            /\ Planning(N, c, q, w, f_override, previous_nominal, step_control, prep, lowered)
      BY <3>1, Zenon
    <3>3. PICK B : B = Noticed(N, prep)
      OBVIOUS
    <3>4. /\ B \in Views /\ Seen(nb, block_buffer_tail, B) /\ Renewed(N, B)
          /\ B[0].entry = IF prep.loaded THEN prep.speed ELSE N[0].entry
      BY <1>3, <1>4, <3>2, <3>3, NoticedView DEF Renewed
    <3>5. /\ Steady(N, c, w, f_override, previous_nominal, step_control, prep, lowered)
          /\ ~lowered => Fast(N, c, q, step_control, prep)
      BY <1>5, <3>2 DEF Planning
    <3>6. ~lowered => Starts(B, sd, p2) = Starts(N, step_control, prep)
      <4>1. CASE Underway(prep)
        BY <1>3, <1>4, <3>4, <4>1, NoticedStart
      <4>2. CASE ~Underway(prep)
        <5>1. p2 = prep
          BY <1>3, <1>4, <4>2, UnloadedIs
        <5>2. ~lowered => prep.exit = N[0].entry
          <6>1. c > 0
            OBVIOUS
          <6> QED
            BY <3>5, <4>2, <6>1 DEF Fast
        <5> QED
          BY <1>5, <4>2, <5>1, <5>2 DEF Starts
      <4> QED
        BY <4>1, <4>2
    <3>7. Steady(B, c, w, f_override, previous_nominal, sd, p2, lowered)
      BY <1>3, <1>4, <1>5, <3>4, <3>5, <3>6, NoticedPlan
    <3>8. Planning(B, c, q, w, f_override, previous_nominal, sd, p2, lowered)
      BY <1>5, <3>7 DEF Planning
    <3> QED
      BY <3>2, <3>4, <3>8, APlan
  <2> QED
    BY <2>1, <2>2
<1> QED
  BY <1>1, <1>2, <1>4, <1>6 DEF PlanInv, ring

-----------------------------------------------------------------------------
(* The operations that replan the whole queue. *)

LEMMA ReplannedQueue ==
    ASSUME NEW b \in Buffers, NEW t \in Slots, NEW N \in Views, Seen(b, t, N),
           NEW c \in 1 .. BLOCK_BUFFER_SIZE - 1, NEW h, h = Ahead(t, c), NEW w,
           NEW o, NEW pn, NEW sc, NEW p \in Preps, NEW low, Steady(N, c, w, o, pn, sc, p, low),
           NEW sd, sd.endMotion => sc.endMotion, Underway(p) \/ (sd.executeHold <=> sc.executeHold),
           ~low /\ ~sd.executeHold /\ ~Underway(p) => p.exit = N[0].entry,
           NEW r, r = planner_recalculate(Notified(b, t, p), t, h, t, Unloaded(p))
    PROVE  PlanOf(r.buffer, t, h, r.planned, pn, o, sd, r.prep, low)
<1>1. PICK nb, p2, B : nb = Notified(b, t, p) /\ p2 = Unloaded(p) /\ B = Noticed(N, p)
  OBVIOUS
<1>2. /\ nb \in Buffers /\ B \in Views /\ Seen(nb, t, B) /\ Renewed(N, B)
      /\ B[0].entry = IF p.loaded THEN p.speed ELSE N[0].entry
  BY <1>1, NoticedView DEF Renewed
<1>3. /\ p2 \in Preps /\ ~p2.loaded /\ Unloaded(p2) = p2 /\ p2.exit = p.exit
      /\ Underway(p2) <=> Underway(p)
  <2>1. /\ p2 \in Preps /\ ~p2.loaded /\ p2.exit = p.exit /\ (Underway(p2) <=> Underway(p))
    BY <1>1, UnloadedIs
  <2>2. Unloaded(p2) = p2
    BY <2>1, Zenon DEF Unloaded
  <2> QED
    BY <2>1, <2>2
<1>4. Starts(B, sd, p2) = Starts(N, sc, p)
  BY <1>1, <1>2, NoticedStart
<1>5. Steady(B, c, w, o, pn, sd, p2, low)
  BY <1>1, <1>2, <1>4, NoticedPlan
<1>7. 0 \in 0 .. c - 1 /\ t = Ahead(t, 0)
  BY AheadNone
<1>8. Basis(B, c, 0, p2) = B
  BY <1>3 DEF Basis, Noticed
<1>9. r = planner_recalculate(nb, t, h, t, p2)
  BY <1>1
<1>10. /\ r.prep = IF 0 = 0 /\ c >= 2 THEN Unloaded(p2) ELSE p2
       /\ \E rev, M, x : Planned(B, c, 0, rev, M, x) /\ Seen(r.buffer, t, M) /\ r.planned = Ahead(t, x)
  BY <1>2, <1>3, <1>7, <1>8, <1>9, RecalculateView
<1>11. r.prep = p2
  BY <1>3, <1>10
<1>12. PICK rev, M, x : Planned(B, c, 0, rev, M, x) /\ Seen(r.buffer, t, M) /\ r.planned = Ahead(t, x)
  BY <1>10, Zenon
<1>13. ~low /\ ~sd.executeHold => FastTo(B, c, 0, sd, p2)
  <2>1. 0 .. 0 - 1 = {} /\ 1 .. 0 - 1 = {} /\ ~(0 >= 1)
    OBVIOUS
  <2>2. ~low /\ ~sd.executeHold /\ ~Underway(p2) => p2.exit = B[0].entry
    BY <1>2, <1>3 DEF Underway
  <2> QED
    BY <1>3, <2>1, <2>2 DEF FastTo
<1>14. Planning(M, c, x, w, o, pn, sd, p2, low) /\ x \in 0 .. c - 1
  BY <1>2, <1>3, <1>5, <1>7, <1>12, <1>13, PlannedKeeps
<1>15. M \in Views
  BY <1>12 DEF Planned
<1> QED
  BY <1>11, <1>12, <1>14, <1>15, APlan

LEMMA ReplannedNothing ==
    ASSUME NEW b \in Buffers, \A i \in Slots : b[i].entry = 0 /\ b[i].max_entry = 0,
           NEW t \in Slots, NEW o, NEW pn, NEW sc, ~sc.endMotion, NEW low,
           NEW p \in Preps, ~Underway(p), p.speed = 0, p.exit = 0,
           NEW r, r = planner_recalculate(Notified(b, t, p), t, t, t, Unloaded(p))
    PROVE  PlanOf(r.buffer, t, t, r.planned, pn, o, sc, r.prep, low)
<1>1. Unloaded(p) = p /\ Notified(b, t, p) = b /\ ~p.loaded
  BY UnloadedIs DEF Notified, Underway
<1>2. r.buffer = b /\ r.prep = p /\ r.planned = plan_prev_block_index(t)
  BY <1>1, NothingToPlan
<1>3. plan_prev_block_index(t) = Ahead(t, BLOCK_BUFFER_SIZE - 1)
  <2>1. BLOCK_BUFFER_SIZE \in Nat /\ BLOCK_BUFFER_SIZE > 1 /\ t \in 0 .. BLOCK_BUFFER_SIZE - 1
        /\ BLOCK_BUFFER_SIZE - 1 \in 0 .. BLOCK_BUFFER_SIZE
    BY RingAssumption DEF Slots
  <2>2. Ahead(t, BLOCK_BUFFER_SIZE - 1) =
          IF t + (BLOCK_BUFFER_SIZE - 1) < BLOCK_BUFFER_SIZE THEN t + (BLOCK_BUFFER_SIZE - 1)
          ELSE t + (BLOCK_BUFFER_SIZE - 1) - BLOCK_BUFFER_SIZE
    BY <2>1, AheadSlot
  <2> QED
    BY <2>1, <2>2 DEF plan_prev_block_index
<1>4. PICK q \in {0, BLOCK_BUFFER_SIZE - 1} : r.planned = Ahead(t, q)
  BY <1>2, <1>3
<1> QED
  BY <1>2, <1>4, EmptyPlan


\* More is not less.
LEMMA TimesRises ==
    ASSUME NEW a \in Nat, NEW x \in Nat, NEW y \in Nat, x <= y
    PROVE  a * x <= a * y
<1>1. PICK d \in Nat : y = x + d
  <2>1. y - x \in Nat /\ y = x + (y - x)
    OBVIOUS
  <2> QED
    BY <2>1
<1>2. a * (x + d) = a * x + a * d /\ a * x \in Nat /\ a * d \in Nat
  OBVIOUS
<1> QED
  BY <1>1, <1>2

LEMMA SquareRises ==
    ASSUME NEW x \in Nat, NEW y \in Nat, x <= y
    PROVE  Sq(x) <= Sq(y)
<1>1. x * x <= x * y /\ y * x <= y * y /\ x * y = y * x
  BY TimesRises
<1>2. x * x \in Nat /\ x * y \in Nat /\ y * y \in Nat
  OBVIOUS
<1> QED
  BY <1>1, <1>2 DEF Sq

LEMMA NominalRises ==
    ASSUME NEW b \in Blocks, NEW o \in Nat, NEW u \in Nat, o <= u
    PROVE  plan_compute_profile_nominal_speed(b, o) <= plan_compute_profile_nominal_speed(b, u)
<1>1. b.rate \in Nat /\ RapidRate \in Nat
  BY DataAssumption DEF Blocks
<1>2. b.rate * o <= b.rate * u /\ b.rate * o \in Nat /\ b.rate * u \in Nat
  BY <1>1, TimesRises
<1>3. PICK v, z : v = b.rate * o /\ z = b.rate * u
  OBVIOUS
<1>4. v \in Nat /\ z \in Nat /\ v <= z
  BY <1>2, <1>3
<1>5. v \div 100 <= z \div 100 /\ v \div 100 \in Nat /\ z \div 100 \in Nat
  BY ONLY <1>4
<1> QED
  BY <1>1, <1>3, <1>5 DEF plan_compute_profile_nominal_speed, Lesser, MINIMUM_FEED_RATE


\* What the invariant says of the state, by cases of the queue.
LEMMA PlanTypes ==
    ASSUME PlanInv
    PROVE  /\ block_buffer \in Buffers /\ block_buffer_tail \in Slots /\ block_buffer_head \in Slots
           /\ prep \in Preps /\ block_buffer_planned \in Slots
           /\ PlanOf(block_buffer, block_buffer_tail, block_buffer_head, block_buffer_planned,
                     previous_nominal, f_override, step_control, prep, lowered)
BY DEF PlanInv, PlannerTypes, RingInv, RingTypes

LEMMA QueueIsEmpty ==
    ASSUME PlanInv, block_buffer_head = block_buffer_tail
    PROVE  /\ \A i \in Slots : block_buffer[i].entry = 0 /\ block_buffer[i].max_entry = 0
           /\ \E q \in {0, BLOCK_BUFFER_SIZE - 1} : block_buffer_planned = Ahead(block_buffer_tail, q)
           /\ ~Underway(prep) /\ prep.speed = 0 /\ prep.exit = 0 /\ ~step_control.endMotion
<1>1. /\ block_buffer \in Buffers /\ block_buffer_tail \in Slots /\ prep \in Preps
      /\ PlanOf(block_buffer, block_buffer_tail, block_buffer_head, block_buffer_planned,
                previous_nominal, f_override, step_control, prep, lowered)
  BY PlanTypes
<1>2. PlanOf(block_buffer, block_buffer_tail, block_buffer_tail, block_buffer_planned,
             previous_nominal, f_override, step_control, prep, lowered)
  BY <1>1
<1> QED
  BY <1>1, <1>2, NoPlan

\* The view of a queue that is not empty.
Queueing(N, c, q, w) ==
    /\ q \in 0 .. c - 1 /\ Seen(block_buffer, block_buffer_tail, N)
    /\ block_buffer_head = Ahead(block_buffer_tail, c)
    /\ block_buffer_planned = Ahead(block_buffer_tail, q)
    /\ Planning(N, c, q, w, f_override, previous_nominal, step_control, prep, lowered)

LEMMA QueueIsPlanned ==
    ASSUME PlanInv, block_buffer_head # block_buffer_tail
    PROVE  \E N \in Views, c \in 1 .. BLOCK_BUFFER_SIZE - 1, q \in Slots : \E w : Queueing(N, c, q, w)
<1>1. PICK N \in Views, c \in 1 .. BLOCK_BUFFER_SIZE - 1, q \in Slots : \E w :
        /\ q \in 0 .. c - 1 /\ Seen(block_buffer, block_buffer_tail, N)
        /\ block_buffer_head = Ahead(block_buffer_tail, c)
        /\ block_buffer_planned = Ahead(block_buffer_tail, q)
        /\ Planning(N, c, q, w, f_override, previous_nominal, step_control, prep, lowered)
  BY PlanTypes, ThePlan
<1>2. PICK w :
        /\ q \in 0 .. c - 1 /\ Seen(block_buffer, block_buffer_tail, N)
        /\ block_buffer_head = Ahead(block_buffer_tail, c)
        /\ block_buffer_planned = Ahead(block_buffer_tail, q)
        /\ Planning(N, c, q, w, f_override, previous_nominal, step_control, prep, lowered)
  BY <1>1, Zenon
<1>3. Queueing(N, c, q, w)
  BY <1>2 DEF Queueing
<1> QED
  BY <1>3, Zenon

\* The steppers have stopped: all is planned anew, from a standstill.
LEMMA HoldCompletePlan ==
    ASSUME PlanInv, HoldComplete
    PROVE  PlanInv'
<1>1. /\ step_control.executeHold
      /\ step_control.endMotion \/ (Empty /\ ~prep.loaded)
      /\ plan_cycle_reinitialize(block_buffer)
      /\ step_control' = [step_control EXCEPT !.executeHold = FALSE]
      /\ UNCHANGED <<ring, previous_nominal, f_override, lowered>>
  BY DEF HoldComplete
<1>2. PlannerTypes'
  BY HoldCompleteTypes DEF PlanInv
<1>3. /\ block_buffer \in Buffers /\ block_buffer_tail \in Slots /\ block_buffer_head \in Slots /\ prep \in Preps
      /\ step_control \in [executeHold : BOOLEAN, endMotion : BOOLEAN]
  BY PlanTypes DEF PlanInv, PlannerTypes
<1>4. PICK sd, r : /\ sd = [step_control EXCEPT !.executeHold = FALSE]
                   /\ r = planner_recalculate(Notified(block_buffer, block_buffer_tail, prep), block_buffer_tail,
                                              block_buffer_head, block_buffer_tail, Unloaded(prep))
  OBVIOUS
<1>5. ~sd.executeHold /\ (sd.endMotion <=> step_control.endMotion)
  BY <1>3, <1>4
<1>6. block_buffer' = r.buffer /\ block_buffer_planned' = r.planned /\ prep' = r.prep /\ step_control' = sd
  BY <1>1, <1>4 DEF plan_cycle_reinitialize
<1>7. PlanOf(r.buffer, block_buffer_tail, block_buffer_head, r.planned, previous_nominal, f_override,
             sd, r.prep, lowered)
  <2>1. CASE block_buffer_head = block_buffer_tail
    <3>1. /\ \A i \in Slots : block_buffer[i].entry = 0 /\ block_buffer[i].max_entry = 0
          /\ ~Underway(prep) /\ prep.speed = 0 /\ prep.exit = 0 /\ ~sd.endMotion
      BY <1>5, <2>1, QueueIsEmpty
    <3>2. r = planner_recalculate(Notified(block_buffer, block_buffer_tail, prep), block_buffer_tail,
                                  block_buffer_tail, block_buffer_tail, Unloaded(prep))
      BY <1>4, <2>1
    <3>3. PlanOf(r.buffer, block_buffer_tail, block_buffer_tail, r.planned, previous_nominal, f_override,
                 sd, r.prep, lowered)
      BY <1>3, <3>1, <3>2, ReplannedNothing
    <3> QED
      BY <2>1, <3>3
  <2>2. CASE block_buffer_head # block_buffer_tail
    <3>1. PICK N \in Views, c \in 1 .. BLOCK_BUFFER_SIZE - 1, q \in Slots : \E w : Queueing(N, c, q, w)
      BY <2>2, QueueIsPlanned
    <3>2. PICK w : Queueing(N, c, q, w)
      BY <3>1, Zenon
    <3>3. /\ Seen(block_buffer, block_buffer_tail, N) /\ block_buffer_head = Ahead(block_buffer_tail, c)
          /\ Steady(N, c, w, f_override, previous_nominal, step_control, prep, lowered)
      BY <3>2, Zenon DEF Queueing, Planning
    <3>4. step_control.endMotion
      BY <1>1, <2>2 DEF Empty
    <3>5. Underway(prep)
      BY <3>3, <3>4 DEF Steady, Prepared
    <3> QED
      BY <1>3, <1>4, <1>5, <3>3, <3>5, ReplannedQueue
  <2> QED
    BY <2>1, <2>2
<1> QED
  BY <1>1, <1>2, <1>6, <1>7 DEF PlanInv, ring


\* New limits for the queued blocks.
Relimited(N, B, c, o) ==
    \A k \in Slots : B[k] = IF k < c THEN plan_compute_profile_parameters(N[k], NominalOf(N, k, o),
                                             IF k = 0 THEN NominalOf(N, k, o) ELSE NominalOf(N, k - 1, o))
                            ELSE N[k]

LEMMA NominalNat ==
    ASSUME NEW N \in Views, NEW k \in Slots, NEW o \in Nat
    PROVE  NominalOf(N, k, o) \in Nat
BY ViewTypes, NominalSpeed DEF NominalOf

LEMMA RelimitedFacts ==
    ASSUME NEW N \in Views, NEW c \in 1 .. BLOCK_BUFFER_SIZE - 1, NEW o \in Nat, NEW B, Relimited(N, B, c, o),
           NEW k \in Slots
    PROVE  /\ B[k] \in Blocks /\ B[k].reach = N[k].reach /\ B[k].entry = N[k].entry
           /\ B[k].junction = N[k].junction
           /\ \A u : NominalOf(B, k, u) = NominalOf(N, k, u)
           /\ k >= c => B[k] = N[k]
           /\ k \in 1 .. c - 1 => B[k].max_entry = Lesser(Sq(Lesser(NominalOf(N, k, o), NominalOf(N, k - 1, o))),
                                                          N[k].junction)
<1>1. c \in Nat /\ k \in Nat /\ N[k] \in Blocks /\ (k # 0 => k - 1 \in Slots)
  BY RingAssumption, ViewTypes DEF Slots
<1>2. PICK u : u = IF k = 0 THEN NominalOf(N, k, o) ELSE NominalOf(N, k - 1, o)
  OBVIOUS
<1>3. NominalOf(N, k, o) \in Nat /\ u \in Nat
  BY <1>1, <1>2, NominalNat
<1>4. B[k] = IF k < c THEN plan_compute_profile_parameters(N[k], NominalOf(N, k, o), u) ELSE N[k]
  BY <1>2 DEF Relimited
<1>5. CASE k < c
  <2>1. /\ B[k] \in Blocks /\ B[k].reach = N[k].reach /\ B[k].entry = N[k].entry
        /\ B[k].junction = N[k].junction
        /\ B[k].max_entry = Lesser(Sq(Lesser(NominalOf(N, k, o), u)), N[k].junction)
        /\ \A z : plan_compute_profile_nominal_speed(B[k], z) = plan_compute_profile_nominal_speed(N[k], z)
    <3>1. PICK a, b : a = N[k] /\ b = B[k]
      OBVIOUS
    <3>2. PICK v, x : v = NominalOf(N, k, o) /\ x = Lesser(Sq(Lesser(v, u)), a.junction)
      OBVIOUS
    <3>3. a \in Blocks /\ v \in Nat /\ b = plan_compute_profile_parameters(a, v, u)
      BY <1>1, <1>3, <1>4, <1>5, <3>1, <3>2
    <3>4. b \in Blocks
      BY <1>3, <3>3, ProfileParameters
    <3>5. b = [a EXCEPT !.max_entry = x]
      BY <3>2, <3>3 DEF plan_compute_profile_parameters
    <3>6. /\ b.motion = a.motion /\ b.rate = a.rate /\ b.reach = a.reach /\ b.entry = a.entry
          /\ b.junction = a.junction /\ b.max_entry = x
      BY ONLY <3>3, <3>5 DEF Blocks
    <3>7. \A z : plan_compute_profile_nominal_speed(b, z) = plan_compute_profile_nominal_speed(a, z)
      BY <3>6 DEF plan_compute_profile_nominal_speed
    <3> QED
      BY <3>1, <3>2, <3>4, <3>6, <3>7
  <2>2. k \in 1 .. c - 1 => u = NominalOf(N, k - 1, o)
    BY <1>1, <1>2
  <2> QED
    BY <1>1, <1>5, <2>1, <2>2 DEF NominalOf
<1>6. CASE ~(k < c)
  <2>1. B[k] = N[k] /\ ~(k \in 1 .. c - 1)
    BY <1>1, <1>4, <1>6
  <2> QED
    BY <1>1, <2>1 DEF NominalOf
<1> QED
  BY <1>5, <1>6

\* A plan stays good under new limits, unless they are lower.
LEMMA RelimitedPlan ==
    ASSUME NEW N \in Views, NEW c \in 1 .. BLOCK_BUFFER_SIZE - 1, NEW o \in Nat, NEW B \in Views, Relimited(N, B, c, o),
           NEW w, NEW f \in Nat, NEW pn, NEW pm, pm = NominalOf(N, c - 1, o), NEW sc, NEW p \in Preps, NEW low, NEW now,
           Steady(N, c, w, f, pn, sc, p, low), ~now => ~low /\ f <= o
    PROVE  Steady(B, c, w, o, pm, sc, p, now)
<1>0. /\ Free(N, c) /\ Prepared(N, c, sc, p) /\ Limited(N, c, f, pn)
      /\ Distances(N, c, w) /\ Stops(N, c, w, p)
      /\ ~low => Slow(N, c, f, sc, p)
  BY DEF Steady
<1>1. /\ c \in Nat /\ c > 0 /\ 0 \in Slots /\ 0 \in 0 .. c - 1 /\ c - 1 \in Slots /\ c - 1 \in 0 .. c - 1
      /\ \A k \in 0 .. c - 1 : k \in Slots /\ (k # 0 => k - 1 \in Slots)
      /\ \A k \in 1 .. c - 1 : k \in Slots /\ k - 1 \in Slots /\ k \in 0 .. c - 1
  BY RingAssumption DEF Slots
<1>2. ASSUME NEW k \in Slots
      PROVE  /\ B[k].reach = N[k].reach /\ B[k].entry = N[k].entry
             /\ B[k].junction = N[k].junction
             /\ \A u : NominalOf(B, k, u) = NominalOf(N, k, u)
             /\ k >= c => B[k] = N[k]
             /\ k \in 1 .. c - 1 => B[k].max_entry = Lesser(Sq(Lesser(NominalOf(N, k, o), NominalOf(N, k - 1, o))),
                                                            N[k].junction)
  BY RelimitedFacts
<1>3. Free(B, c)
  BY <1>0, <1>2 DEF Free
<1>4. Limited(B, c, o, pm)
  <2>1. pm = NominalOf(B, c - 1, o)
    BY <1>1, <1>2
  <2>2. ASSUME NEW k \in 1 .. c - 1
        PROVE  B[k].max_entry = Lesser(Sq(Lesser(NominalOf(B, k, o), NominalOf(B, k - 1, o))), B[k].junction)
    <3>1. k \in Slots /\ k - 1 \in Slots
      BY <1>1
    <3>2. NominalOf(B, k, o) = NominalOf(N, k, o) /\ NominalOf(B, k - 1, o) = NominalOf(N, k - 1, o)
      BY <1>2, <3>1
    <3> QED
      BY <1>2, <3>1, <3>2
  <2>3. \A k \in 0 .. c - 1 : B[k].reach > 0
    BY <1>0, <1>1, <1>2 DEF Limited
  <2> QED
    BY <2>1, <2>2, <2>3 DEF Limited
<1>5. Prepared(B, c, sc, p)
  <2>1. B[0].reach = N[0].reach /\ B[0].entry = N[0].entry
    BY <1>1, <1>2
  <2> QED
    BY <1>0, <2>1 DEF Prepared
<1>6. Distances(B, c, w)
  <2>1. \A k \in 0 .. c - 1 : B[k].reach = N[k].reach
    BY <1>1, <1>2
  <2> QED
    BY <1>0, <2>1 DEF Distances
<1>7. Stops(B, c, w, p)
  <2>1. \A k \in 0 .. c - 1 : B[k].entry = N[k].entry
    BY <1>1, <1>2
  <2> QED
    BY <1>0, <2>1 DEF Stops
<1>8. ASSUME ~now
      PROVE  Slow(B, c, o, sc, p)
  <2>1. PICK s : s = Starts(N, sc, p)
    OBVIOUS
  <2>2. /\ Braked(N, c, s) /\ s <= Sq(NominalOf(N, 0, f)) /\ (~Underway(p) => p.exit <= N[0].entry)
    BY <1>0, <1>1, <1>8, <2>1 DEF Slow
  <2>3. Starts(B, sc, p) = s /\ B[0].entry = N[0].entry /\ s \in Nat
    <3>1. B[0].entry = N[0].entry
      BY <1>1, <1>2
    <3> QED
      BY <2>1, <3>1, StartsNat DEF Starts
  <2>4. ASSUME NEW k \in Slots
        PROVE  /\ NominalOf(N, k, f) \in Nat /\ NominalOf(N, k, o) \in Nat
               /\ NominalOf(N, k, f) <= NominalOf(N, k, o)
    BY <1>8, ViewTypes, NominalNat, NominalRises DEF NominalOf
  <2>5. s <= Sq(NominalOf(B, 0, o))
    <3>1. PICK v, u : v = NominalOf(N, 0, f) /\ u = NominalOf(N, 0, o)
      OBVIOUS
    <3>2. v \in Nat /\ u \in Nat /\ v <= u
      BY <1>1, <2>4, <3>1
    <3>3. Sq(v) \in Nat /\ Sq(u) \in Nat /\ Sq(v) <= Sq(u)
      BY <3>2, SquareRises, Square
    <3>4. NominalOf(B, 0, o) = u /\ s <= Sq(v)
      BY <1>1, <1>2, <2>2, <3>1
    <3>5. s <= Sq(u)
      BY <2>3, <3>3, <3>4
    <3> QED
      BY <3>4, <3>5
  <2>6. Braked(B, c, s)
    <3>1. ASSUME NEW k \in 0 .. c - 1
          PROVE  Enters(B, s, k) <= Leaves(B, c, k) + B[k].reach
      <4>1. k \in Slots /\ (k # c - 1 => k + 1 \in Slots)
        BY <1>1, RingAssumption DEF Slots
      <4>2. B[k].reach = N[k].reach /\ B[k].entry = N[k].entry /\ (k # c - 1 => B[k + 1].entry = N[k + 1].entry)
        BY <1>2, <4>1
      <4>3. Enters(N, s, k) <= Leaves(N, c, k) + N[k].reach
        BY <2>2 DEF Braked
      <4> QED
        BY <4>2, <4>3 DEF Enters, Leaves
    <3>2. ASSUME NEW k \in 1 .. c - 1
          PROVE  B[k].entry <= B[k].max_entry
      <4>1. k \in Slots /\ k - 1 \in Slots
        BY <1>1
      <4>2. PICK v1, v2, u1, u2 : /\ v1 = NominalOf(N, k, f) /\ v2 = NominalOf(N, k - 1, f)
                                  /\ u1 = NominalOf(N, k, o) /\ u2 = NominalOf(N, k - 1, o)
        OBVIOUS
      <4>3. v1 \in Nat /\ v2 \in Nat /\ u1 \in Nat /\ u2 \in Nat /\ v1 <= u1 /\ v2 <= u2
        BY <2>4, <4>1, <4>2
      <4>4. PICK v, u : v = Lesser(v1, v2) /\ u = Lesser(u1, u2)
        OBVIOUS
      <4>5. v \in Nat /\ u \in Nat /\ v <= u
        BY <4>3, <4>4 DEF Lesser
      <4>6. Sq(v) \in Nat /\ Sq(u) \in Nat /\ Sq(v) <= Sq(u)
        BY <4>5, SquareRises, Square
      <4>7. /\ N[k].max_entry = Lesser(Sq(v), N[k].junction) /\ B[k].max_entry = Lesser(Sq(u), N[k].junction)
            /\ B[k].entry = N[k].entry
        BY <1>0, <1>2, <4>1, <4>2, <4>4 DEF Limited
      <4>8. N[k].entry <= N[k].max_entry /\ N[k].entry \in Nat /\ N[k].junction \in Nat
        BY <2>2, <4>1, ViewTypes DEF Braked
      <4> QED
        BY <4>6, <4>7, <4>8 DEF Lesser
    <3> QED
      BY <3>1, <3>2 DEF Braked
  <2> QED
    BY <2>2, <2>3, <2>5, <2>6 DEF Slow
<1> QED
  BY <1>3, <1>4, <1>5, <1>6, <1>7, <1>8 DEF Steady


\* The blocks of the queue are those less than c after the tail.
LEMMA QueuedAhead ==
    ASSUME RingInv, NEW c \in 1 .. BLOCK_BUFFER_SIZE - 1, block_buffer_head = Ahead(block_buffer_tail, c),
           NEW k \in Slots
    PROVE  Ahead(block_buffer_tail, k) \in Queued <=> k < c
<1>1. /\ block_buffer_tail \in Slots /\ c \in Slots /\ BLOCK_BUFFER_SIZE \in Nat
      /\ k \in 0 .. BLOCK_BUFFER_SIZE /\ c \in 0 .. BLOCK_BUFFER_SIZE
  BY RingAssumption DEF RingInv, RingTypes, Slots
<1>2. PICK t, h, i : t = block_buffer_tail /\ h = Ahead(t, c) /\ i = Ahead(t, k)
  OBVIOUS
<1>3. /\ i = IF t + k < BLOCK_BUFFER_SIZE THEN t + k ELSE t + k - BLOCK_BUFFER_SIZE
      /\ h = IF t + c < BLOCK_BUFFER_SIZE THEN t + c ELSE t + c - BLOCK_BUFFER_SIZE
  BY <1>1, <1>2, AheadSlot
<1>4. i \in Slots /\ t \in Slots
  BY <1>1, <1>2, AheadAhead
<1>5. i \in Queued <=> IF t <= h THEN t <= i /\ i < h ELSE t <= i \/ i < h
  BY <1>2, <1>4 DEF Queued
<1>6. (IF t <= h THEN t <= i /\ i < h ELSE t <= i \/ i < h) <=> k < c
  BY <1>1, <1>3, <1>4, RingAssumption DEF Slots
<1> QED
  BY <1>2, <1>5, <1>6

LEMMA UpdatedView ==
    ASSUME PlannerTypes, NEW c \in 1 .. BLOCK_BUFFER_SIZE - 1, block_buffer_head = Ahead(block_buffer_tail, c),
           NEW N \in Views, Seen(block_buffer, block_buffer_tail, N), NEW o \in Nat
    PROVE  \E B \in Views : /\ Relimited(N, B, c, o)
                            /\ Seen(plan_update_velocity_profile_parameters(o), block_buffer_tail, B)
<1> DEFINE B == [k \in Slots |-> IF k < c THEN plan_compute_profile_parameters(N[k], NominalOf(N, k, o),
                                                  IF k = 0 THEN NominalOf(N, k, o) ELSE NominalOf(N, k - 1, o))
                                 ELSE N[k]]
<1>1. RingInv /\ block_buffer_tail \in Slots
  BY DEF PlannerTypes, RingInv, RingTypes
<1>2. Relimited(N, B, c, o)
  BY DEF Relimited
<1>3. B \in Views
  <2>1. ASSUME NEW k \in Slots
        PROVE  B[k] \in Blocks
    <3> HIDE DEF B
    <3> QED
      BY <1>2, RelimitedFacts
  <2>2. B = [k \in Slots |-> B[k]]
    OBVIOUS
  <2> HIDE DEF B
  <2> QED
    BY <2>1, <2>2 DEF Views
<1> HIDE DEF B
<1>4. ASSUME NEW k \in Slots
      PROVE  plan_update_velocity_profile_parameters(o)[Ahead(block_buffer_tail, k)] = B[k]
  <2>1. PICK i : i = Ahead(block_buffer_tail, k)
    OBVIOUS
  <2>2. i \in Slots /\ (i \in Queued <=> k < c) /\ block_buffer[i] = N[k]
    BY <1>1, <2>1, QueuedAhead, AheadAhead DEF Seen
  <2>3. plan_update_velocity_profile_parameters(o)[i] =
          IF i \in Queued
          THEN plan_compute_profile_parameters(block_buffer[i], plan_compute_profile_nominal_speed(block_buffer[i], o),
                 IF i = block_buffer_tail THEN plan_compute_profile_nominal_speed(block_buffer[i], o)
                 ELSE plan_compute_profile_nominal_speed(block_buffer[plan_prev_block_index(i)], o))
          ELSE block_buffer[i]
    BY <2>2 DEF plan_update_velocity_profile_parameters
  <2>4. plan_compute_profile_nominal_speed(block_buffer[i], o) = NominalOf(N, k, o)
    BY <2>2 DEF NominalOf
  <2>5. (i = block_buffer_tail) <=> (k = 0)
    <3>1. 0 \in Slots /\ Ahead(block_buffer_tail, 0) = block_buffer_tail
      BY <1>1, AheadNone
    <3>2. \A j \in Slots : Ahead(block_buffer_tail, k) = Ahead(block_buffer_tail, j) => k = j
      BY <1>1, AheadAhead
    <3>3. i = block_buffer_tail => k = 0
      BY <2>1, <3>1, <3>2, Zenon
    <3>4. k = 0 => i = block_buffer_tail
      BY <2>1, <3>1, Zenon
    <3> QED
      BY <3>3, <3>4
  <2>6. k # 0 => plan_compute_profile_nominal_speed(block_buffer[plan_prev_block_index(i)], o) = NominalOf(N, k - 1, o)
    <3> SUFFICES ASSUME k # 0
                 PROVE  plan_compute_profile_nominal_speed(block_buffer[plan_prev_block_index(i)], o)
                        = NominalOf(N, k - 1, o)
      OBVIOUS
    <3>1. k \in 1 .. BLOCK_BUFFER_SIZE - 1 /\ k - 1 \in Slots
      BY RingAssumption DEF Slots
    <3>2. plan_prev_block_index(i) = Ahead(block_buffer_tail, k - 1)
      BY <1>1, <2>1, <3>1, PrevAhead
    <3> QED
      BY <3>1, <3>2 DEF Seen, NominalOf
  <2>7. PICK u, v, z : /\ u = plan_compute_profile_nominal_speed(block_buffer[i], o)
                       /\ v = plan_compute_profile_nominal_speed(block_buffer[plan_prev_block_index(i)], o)
                       /\ z = plan_update_velocity_profile_parameters(o)[i]
    OBVIOUS
  <2>8. u = NominalOf(N, k, o) /\ (k # 0 => v = NominalOf(N, k - 1, o))
    BY <2>4, <2>6, <2>7
  <2>9. z = IF k < c THEN plan_compute_profile_parameters(N[k], u, IF k = 0 THEN u ELSE v) ELSE N[k]
    BY ONLY <2>2, <2>3, <2>5, <2>7
  <2>10. (IF k = 0 THEN u ELSE v) = IF k = 0 THEN NominalOf(N, k, o) ELSE NominalOf(N, k - 1, o)
    BY <2>8
  <2>11. z = B[k]
    BY <1>2, <2>8, <2>9, <2>10 DEF Relimited
  <2> QED
    BY <2>1, <2>7, <2>11
<1>5. Seen(plan_update_velocity_profile_parameters(o), block_buffer_tail, B)
  BY <1>4, Zenon DEF Seen
<1> QED
  BY <1>2, <1>3, <1>5

\* The feed override changes: new limits and a new plan for the whole queue.
LEMMA OverridesPlan ==
    ASSUME PlanInv, NEW o \in FeedOverrides, ExecuteOverrides(o)
    PROVE  PlanInv'
<1>1. /\ plan_cycle_reinitialize(plan_update_velocity_profile_parameters(o))
      /\ previous_nominal' = (IF Empty THEN SOME_LARGE_VALUE
                              ELSE plan_compute_profile_nominal_speed(
                                     block_buffer[plan_prev_block_index(block_buffer_head)], o))
      /\ lowered' = (~Empty /\ (lowered \/ o < f_override))
      /\ f_override' = o /\ UNCHANGED <<ring, step_control>>
  BY DEF ExecuteOverrides
<1>2. PlannerTypes'
  BY OverridesTypes DEF PlanInv
<1>3. /\ block_buffer \in Buffers /\ block_buffer_tail \in Slots /\ block_buffer_head \in Slots /\ prep \in Preps
      /\ f_override \in Nat /\ o \in Nat /\ PlannerTypes
  BY PlanTypes, DataAssumption DEF PlanInv, PlannerTypes
<1>4. PICK b, pm, now : /\ b = plan_update_velocity_profile_parameters(o)
                        /\ pm = IF Empty THEN SOME_LARGE_VALUE
                                ELSE plan_compute_profile_nominal_speed(
                                       block_buffer[plan_prev_block_index(block_buffer_head)], o)
                        /\ now = (~Empty /\ (lowered \/ o < f_override))
  OBVIOUS
<1>5. PICK r : r = planner_recalculate(Notified(b, block_buffer_tail, prep), block_buffer_tail,
                                       block_buffer_head, block_buffer_tail, Unloaded(prep))
  OBVIOUS
<1>6. block_buffer' = r.buffer /\ block_buffer_planned' = r.planned /\ prep' = r.prep
      /\ previous_nominal' = pm /\ lowered' = now
  BY <1>1, <1>4, <1>5 DEF plan_cycle_reinitialize
<1>7. PlanOf(r.buffer, block_buffer_tail, block_buffer_head, r.planned, pm, o, step_control, r.prep, now)
  <2>1. CASE block_buffer_head = block_buffer_tail
    <3>1. /\ \A i \in Slots : block_buffer[i].entry = 0 /\ block_buffer[i].max_entry = 0
          /\ ~Underway(prep) /\ prep.speed = 0 /\ prep.exit = 0 /\ ~step_control.endMotion
      BY <2>1, QueueIsEmpty
    <3>2. Queued = {}
      BY <1>3, <2>1, RingAssumption DEF Queued, Slots
    <3>3. b = block_buffer
      <4>1. b = [i \in Slots |-> block_buffer[i]]
        BY <1>4, <3>2 DEF plan_update_velocity_profile_parameters
      <4> QED
        BY <1>3, <4>1 DEF Buffers
    <3>4. r = planner_recalculate(Notified(block_buffer, block_buffer_tail, prep), block_buffer_tail,
                                  block_buffer_tail, block_buffer_tail, Unloaded(prep))
      BY <1>5, <2>1, <3>3
    <3>5. PlanOf(r.buffer, block_buffer_tail, block_buffer_tail, r.planned, pm, o, step_control, r.prep, now)
      BY <1>3, <3>1, <3>4, ReplannedNothing
    <3> QED
      BY <2>1, <3>5
  <2>2. CASE block_buffer_head # block_buffer_tail
    <3>1. PICK N \in Views, c \in 1 .. BLOCK_BUFFER_SIZE - 1, q \in Slots : \E w : Queueing(N, c, q, w)
      BY <2>2, QueueIsPlanned
    <3>2. PICK w : Queueing(N, c, q, w)
      BY <3>1, Zenon
    <3>3. /\ Seen(block_buffer, block_buffer_tail, N) /\ block_buffer_head = Ahead(block_buffer_tail, c)
          /\ Steady(N, c, w, f_override, previous_nominal, step_control, prep, lowered)
      BY <3>2, Zenon DEF Queueing, Planning
    <3>4. PICK B \in Views : Relimited(N, B, c, o) /\ Seen(b, block_buffer_tail, B)
      BY <1>3, <1>4, <3>3, UpdatedView
    <3>5. pm = NominalOf(N, c - 1, o)
      <4>1. plan_prev_block_index(block_buffer_head) = Ahead(block_buffer_tail, c - 1) /\ c - 1 \in Slots
        BY <1>3, <3>3, PrevAhead, RingAssumption DEF Slots
      <4>2. pm = plan_compute_profile_nominal_speed(block_buffer[plan_prev_block_index(block_buffer_head)], o)
        BY <1>4, <2>2 DEF Empty
      <4> QED
        BY <3>3, <4>1, <4>2 DEF Seen, NominalOf
    <3>6. ~now => ~lowered /\ f_override <= o
      <4>1. now <=> ~Empty /\ (lowered \/ o < f_override)
        BY <1>4, Zenon
      <4> QED
        BY <1>3, <2>2, <4>1 DEF Empty
    <3>7. Steady(B, c, w, o, pm, step_control, prep, now)
      BY <1>3, <3>3, <3>4, <3>5, <3>6, RelimitedPlan
    <3>8. ~now /\ ~step_control.executeHold /\ ~Underway(prep) => prep.exit = B[0].entry
      <4>1. 0 \in Slots /\ c > 0
        BY AheadNone, <1>3
      <4>2. B[0].entry = N[0].entry
        BY <1>3, <3>4, <4>1, RelimitedFacts
      <4>3. ~lowered /\ ~step_control.executeHold => Fast(N, c, q, step_control, prep)
        BY <3>2, Zenon DEF Queueing, Planning
      <4> QED
        BY <3>6, <4>1, <4>2, <4>3 DEF Fast
    <3>9. b \in Buffers
      <4>1. ASSUME NEW i \in Slots
            PROVE  b[i] \in Blocks
        <5>1. PICK k \in Slots : i = Ahead(block_buffer_tail, k)
          BY <1>3, SlotAhead
        <5> QED
          BY <3>4, <5>1, ViewTypes DEF Seen
      <4>2. b = [i \in Slots |-> b[i]]
        BY <1>4 DEF plan_update_velocity_profile_parameters
      <4> QED
        BY <4>1, <4>2 DEF Buffers
    <3> QED
      BY <1>3, <1>5, <3>3, <3>4, <3>7, <3>8, <3>9, ReplannedQueue
  <2> QED
    BY <2>1, <2>2
<1> QED
  BY <1>1, <1>2, <1>6, <1>7 DEF PlanInv, ring


-----------------------------------------------------------------------------
(* A line is buffered. *)

\* A view with another block at its end.
Extended(N, B, c, a) == \A k \in Slots : B[k] = IF k = c THEN a ELSE N[k]

\* A new block: nothing is planned of it but its limit.
Fresh(a, o, pn) ==
    /\ a \in Blocks /\ a.entry = 0 /\ a.reach > 0
    /\ a.max_entry = Lesser(Sq(Lesser(plan_compute_profile_nominal_speed(a, o), pn)), a.junction)

LEMMA ExtendedBounds ==
    ASSUME NEW c \in 1 .. BLOCK_BUFFER_SIZE - 2
    PROVE  /\ c \in Nat /\ c > 0 /\ c \in Slots /\ 0 \in Slots /\ c # 0 /\ c + 1 \in Nat /\ (c + 1) - 1 = c
           /\ c + 1 \in 1 .. BLOCK_BUFFER_SIZE - 1 /\ c \in 1 .. BLOCK_BUFFER_SIZE - 1 /\ c - 1 \in Slots /\ c - 1 # c
           /\ c - 1 \in 0 .. c - 1 /\ 0 \in 0 .. c - 1
           /\ \A k \in 0 .. c - 1 : k \in Slots /\ k # c /\ k \in 0 .. c
           /\ \A k \in 1 .. c - 1 : k \in Slots /\ k - 1 \in Slots /\ k # c /\ k - 1 # c
           /\ \A k \in 0 .. (c + 1) - 1 : k = c \/ k \in 0 .. c - 1
           /\ \A k \in 1 .. (c + 1) - 1 : k = c \/ k \in 1 .. c - 1
BY RingAssumption DEF Slots

LEMMA ExtendedSlow ==
    ASSUME NEW c \in 1 .. BLOCK_BUFFER_SIZE - 2, NEW N \in Views, NEW B \in Views, NEW a,
           NEW o, NEW pn, Fresh(a, o, pn), pn \in Nat, o \in Nat, Extended(N, B, c, a), NEW s \in Nat, Braked(N, c, s)
    PROVE  Braked(B, c + 1, s)
<1>1. ASSUME NEW k \in 0 .. (c + 1) - 1
      PROVE  Enters(B, s, k) <= Leaves(B, c + 1, k) + B[k].reach
  <2>1. CASE k = c
    <3>1. B[k] = a
      BY <2>1, ExtendedBounds DEF Extended
    <3> QED
      BY <2>1, <3>1, ExtendedBounds DEF Fresh, Enters, Leaves, Blocks
  <2>2. CASE k \in 0 .. c - 2
    <3>1. k \in 0 .. c - 1 /\ k # c - 1 /\ k # c /\ k + 1 # c /\ k + 1 \in Slots
      BY <2>2, ExtendedBounds, RingAssumption DEF Slots
    <3>2. B[k] = N[k] /\ B[k + 1] = N[k + 1]
      BY <3>1, ExtendedBounds DEF Extended
    <3>3. Enters(N, s, k) <= Leaves(N, c, k) + N[k].reach
      BY <3>1 DEF Braked
    <3> QED
      BY <3>1, <3>2, <3>3, ExtendedBounds DEF Enters, Leaves
  <2>3. CASE k = c - 1
    <3>1. k \in 0 .. c - 1 /\ k # c /\ k + 1 = c
      BY <2>3, ExtendedBounds
    <3>2. B[k] = N[k] /\ B[k + 1] = a
      BY <3>1, ExtendedBounds DEF Extended
    <3>3. Enters(N, s, k) <= Leaves(N, c, k) + N[k].reach
      BY <3>1 DEF Braked
    <3> QED
      BY <2>3, <3>1, <3>2, <3>3, ExtendedBounds DEF Enters, Leaves, Fresh
  <2> QED
    BY <2>1, <2>2, <2>3, ExtendedBounds
<1>2. ASSUME NEW k \in 1 .. (c + 1) - 1
      PROVE  B[k].entry <= B[k].max_entry
  <2>1. CASE k = c
    <3>1. B[k] = a
      BY <2>1, ExtendedBounds DEF Extended
    <3> QED
      BY <3>1 DEF Fresh, Blocks
  <2>2. CASE k \in 1 .. c - 1
    <3>1. B[k] = N[k]
      BY <2>2, ExtendedBounds DEF Extended
    <3> QED
      BY <2>2, <3>1 DEF Braked
  <2> QED
    BY <2>1, <2>2, ExtendedBounds
<1> QED
  BY <1>1, <1>2 DEF Braked

LEMMA ExtendedLimits ==
    ASSUME NEW c \in 1 .. BLOCK_BUFFER_SIZE - 2, NEW N \in Views, NEW B \in Views, NEW a,
           NEW o, NEW pn, Fresh(a, o, pn), Extended(N, B, c, a), Limited(N, c, o, pn),
           NEW pm, pm = plan_compute_profile_nominal_speed(a, o)
    PROVE  Limited(B, c + 1, o, pm)
<1>1. B[c] = a /\ B[c - 1] = N[c - 1]
  BY ExtendedBounds DEF Extended
<1>2. pn = NominalOf(N, c - 1, o)
  BY ExtendedBounds DEF Limited
<1>3. pm = NominalOf(B, (c + 1) - 1, o)
  BY <1>1, ExtendedBounds DEF NominalOf
<1>4. ASSUME NEW k \in 1 .. (c + 1) - 1
      PROVE  B[k].max_entry = Lesser(Sq(Lesser(NominalOf(B, k, o), NominalOf(B, k - 1, o))), B[k].junction)
  <2>1. CASE k = c
    <3>1. NominalOf(B, k - 1, o) = pn /\ NominalOf(B, k, o) = plan_compute_profile_nominal_speed(a, o) /\ B[k] = a
      BY <1>1, <1>2, <2>1 DEF NominalOf
    <3> QED
      BY <3>1 DEF Fresh
  <2>2. CASE k \in 1 .. c - 1
    <3>1. B[k] = N[k] /\ B[k - 1] = N[k - 1]
      BY <2>2, ExtendedBounds DEF Extended
    <3>2. NominalOf(B, k, o) = NominalOf(N, k, o) /\ NominalOf(B, k - 1, o) = NominalOf(N, k - 1, o)
      BY <3>1 DEF NominalOf
    <3> QED
      BY <2>2, <3>1, <3>2 DEF Limited
  <2> QED
    BY <2>1, <2>2, ExtendedBounds
<1>5. ASSUME NEW k \in 0 .. (c + 1) - 1
      PROVE  B[k].reach > 0
  <2>1. k \in 0 .. c - 1 => B[k] = N[k]
    BY ExtendedBounds DEF Extended
  <2> QED
    BY <1>1, <2>1, ExtendedBounds DEF Limited, Fresh
<1> QED
  BY <1>3, <1>4, <1>5 DEF Limited

LEMMA ExtendedSteady ==
    ASSUME NEW c \in 1 .. BLOCK_BUFFER_SIZE - 2, NEW N \in Views, NEW B \in Views, NEW a,
           NEW o \in Nat, NEW pn \in Nat, Fresh(a, o, pn), Extended(N, B, c, a),
           NEW pm, pm = plan_compute_profile_nominal_speed(a, o),
           NEW w, NEW sc, NEW p \in Preps, NEW low, Steady(N, c, w, o, pn, sc, p, low)
    PROVE  \E z : Steady(B, c + 1, z, o, pm, sc, p, low)
<1> DEFINE z == [k \in 0 .. c + 1 |-> IF k = c + 1 THEN 0 ELSE w[k] + a.reach]
<1>0. /\ Free(N, c) /\ Prepared(N, c, sc, p) /\ Limited(N, c, o, pn)
      /\ Distances(N, c, w) /\ Stops(N, c, w, p)
      /\ ~low => Slow(N, c, o, sc, p)
  BY DEF Steady
<1>1. /\ B[0] = N[0] /\ B[c] = a /\ a.reach \in Nat /\ a.entry = 0
      /\ \A k \in 0 .. c - 1 : B[k] = N[k]
  BY ExtendedBounds DEF Extended, Fresh, Blocks
<1>2. Free(B, c + 1)
  <2>1. ASSUME NEW k \in Slots, k >= c + 1
        PROVE  B[k].entry = 0 /\ B[k].max_entry = 0
    <3>1. k # c /\ k >= c
      BY <2>1, ExtendedBounds DEF Slots
    <3> QED
      BY <1>0, <3>1 DEF Free, Extended
  <2> QED
    BY <2>1 DEF Free
<1>3. Limited(B, c + 1, o, pm)
  BY <1>0, ExtendedLimits
<1>4. Prepared(B, c + 1, sc, p)
  BY <1>0, <1>1, ExtendedBounds DEF Prepared
<1>5. /\ z \in [0 .. c + 1 -> Nat] /\ z[c + 1] = 0
      /\ \A k \in 0 .. c : z[k] = w[k] + a.reach /\ w[k] \in Nat
      /\ w[c] = 0
  BY <1>0, <1>1, ExtendedBounds DEF Distances
<1> HIDE DEF z
<1>6. Distances(B, c + 1, z)
  <2>1. ASSUME NEW k \in 0 .. (c + 1) - 1
        PROVE  z[k] = z[k + 1] + B[k].reach
    <3>1. CASE k = c
      BY <1>1, <1>5, <3>1, ExtendedBounds
    <3>2. CASE k \in 0 .. c - 1
      <4>1. k + 1 \in 0 .. c /\ k \in 0 .. c
        BY <3>2, ExtendedBounds
      <4>2. w[k] = w[k + 1] + N[k].reach /\ B[k] = N[k] /\ N[k].reach \in Nat
        BY <1>0, <1>1, <3>2, ViewTypes, ExtendedBounds DEF Distances
      <4> QED
        BY <1>1, <1>5, <4>1, <4>2
    <3> QED
      BY <3>1, <3>2, ExtendedBounds
  <2> QED
    BY <1>5, <2>1 DEF Distances
<1>7. Stops(B, c + 1, z, p)
  <2>1. ASSUME NEW k \in 0 .. (c + 1) - 1
        PROVE  (k = 0 /\ p.loaded) \/ B[k].entry <= z[k]
    <3>1. CASE k = c
      BY <1>1, <1>5, <3>1, ExtendedBounds
    <3>2. CASE k \in 0 .. c - 1
      <4>1. (k = 0 /\ p.loaded) \/ N[k].entry <= w[k]
        BY <1>0, <3>2 DEF Stops
      <4>2. k \in 0 .. c /\ B[k] = N[k] /\ N[k].entry \in Nat
        BY <1>1, <3>2, ExtendedBounds, ViewTypes
      <4> QED
        BY <1>1, <1>5, <4>1, <4>2
    <3> QED
      BY <3>1, <3>2, ExtendedBounds
  <2>2. 0 \in 0 .. c /\ 1 \in 0 .. c /\ w[0] \in Nat /\ w[1] \in Nat
    BY <1>5, ExtendedBounds
  <2>3. z[0] >= w[0] /\ z[1] >= w[1]
    <3>1. PICK y, z0, z1, w0, w1 : y = a.reach /\ z0 = z[0] /\ z1 = z[1] /\ w0 = w[0] /\ w1 = w[1]
      OBVIOUS
    <3>2. z0 = w0 + y /\ z1 = w1 + y /\ y \in Nat /\ w0 \in Nat /\ w1 \in Nat
      BY <1>1, <1>5, <2>2, <3>1
    <3>3. z0 >= w0 /\ z1 >= w1
      BY ONLY <3>2
    <3> QED
      BY <3>1, <3>3
  <2>4. p.speed \in Nat /\ p.exit \in Nat /\ z[0] \in Nat /\ z[1] \in Nat
    BY <1>1, <1>5, <2>2 DEF Preps
  <2> QED
    BY <1>0, <2>1, <2>2, <2>3, <2>4 DEF Stops
<1>8. ASSUME ~low
      PROVE  Slow(B, c + 1, o, sc, p)
  <2>1. PICK s : s = Starts(N, sc, p)
    OBVIOUS
  <2>2. /\ Braked(N, c, s) /\ s <= Sq(NominalOf(N, 0, o)) /\ (~Underway(p) => p.exit <= N[0].entry)
    BY <1>0, <1>8, <2>1, ExtendedBounds DEF Slow
  <2>3. Starts(B, sc, p) = s /\ s \in Nat
    BY <1>1, <2>1, StartsNat DEF Starts
  <2>4. Braked(B, c + 1, s)
    BY <2>2, <2>3, ExtendedSlow
  <2>5. NominalOf(B, 0, o) = NominalOf(N, 0, o)
    BY <1>1 DEF NominalOf
  <2> QED
    BY <1>1, <2>2, <2>3, <2>4, <2>5 DEF Slow
<1>9. Steady(B, c + 1, z, o, pm, sc, p, low)
  BY <1>2, <1>3, <1>4, <1>6, <1>7, <1>8 DEF Steady
<1> QED
  BY <1>9

\* What is planned up to the planned pointer needs nothing of the blocks after it.
LEMMA ExtendedFast ==
    ASSUME NEW c \in 1 .. BLOCK_BUFFER_SIZE - 2, NEW N \in Views, NEW B \in Views, NEW a, Extended(N, B, c, a),
           NEW q \in 0 .. c - 1, NEW sc, NEW p \in Preps, Fast(N, c, q, sc, p), p.loaded => q >= 1
    PROVE  FastTo(B, c + 1, q, sc, p)
<1>1. PICK s : s = Starts(N, sc, p)
  OBVIOUS
<1>2. /\ Driven(N, c, s) /\ Tight(N, c, s, q)
      /\ p.loaded => p.exit = Leaves(N, c, 0)
      /\ ~Underway(p) => p.exit = N[0].entry
  BY <1>1, ExtendedBounds DEF Fast
<1>3. B[0] = N[0] /\ \A k \in 0 .. c - 1 : B[k] = N[k]
  BY ExtendedBounds DEF Extended
<1>4. Starts(B, sc, p) = s
  BY <1>1, <1>3 DEF Starts
<1>5. /\ \A k \in 0 .. q - 1 : k \in 0 .. c - 1 /\ k # c - 1 /\ k + 1 \in 0 .. c - 1
      /\ \A k \in 1 .. q - 1 : k \in 1 .. c - 1 /\ k \in 0 .. q - 1 /\ k - 1 \in 0 .. c - 1
      /\ q \in 0 .. c - 1 /\ (q >= 1 => q - 1 \in 0 .. c - 1 /\ 0 # c - 1 /\ 1 \in 0 .. c - 1)
  BY ExtendedBounds
<1>6. ASSUME NEW k \in 0 .. q - 1
      PROVE  B[k + 1].entry <= Enters(B, s, k) + B[k].reach
  BY <1>2, <1>3, <1>5 DEF Driven, Enters, Leaves
<1>7. ASSUME NEW k \in 1 .. q - 1
      PROVE  Pressed(B, s, k) \/ B[k].entry = B[k + 1].entry + B[k].reach
  <2>1. Pressed(N, s, k) \/ N[k].entry = Leaves(N, c, k) + N[k].reach
    BY <1>2, <1>5 DEF Tight
  <2>2. /\ B[k] = N[k] /\ B[k - 1] = N[k - 1] /\ B[k + 1] = N[k + 1] /\ k # c - 1
    BY <1>3, <1>5
  <2> QED
    BY <2>1, <2>2 DEF Pressed, Enters, Leaves
<1>8. q >= 1 => Pressed(B, s, q)
  <2>1. q >= 1 => B[q] = N[q] /\ B[q - 1] = N[q - 1] /\ Pressed(N, s, q)
    BY <1>2, <1>3, <1>5 DEF Tight
  <2> QED
    BY <2>1 DEF Pressed, Enters
<1>9. p.loaded => p.exit = B[1].entry
  BY <1>2, <1>3, <1>5 DEF Leaves
<1> QED
  BY <1>2, <1>3, <1>4, <1>6, <1>7, <1>8, <1>9 DEF FastTo


\* A line after others: the plan is good for it.
LEMMA AddedPlan ==
    ASSUME NEW b \in Buffers, NEW t \in Slots, NEW N \in Views, Seen(b, t, N),
           NEW c \in 1 .. BLOCK_BUFFER_SIZE - 2, NEW q \in 0 .. c - 1, NEW w, NEW o \in Nat, NEW pn \in Nat,
           NEW sc, NEW p \in Preps, NEW low, Planning(N, c, q, w, o, pn, sc, p, low),
           NEW a, Fresh(a, o, pn), NEW pm, pm = plan_compute_profile_nominal_speed(a, o),
           NEW d, d = [b EXCEPT ![Ahead(t, c)] = a], NEW head, head = Ahead(t, c + 1),
           NEW pl, pl = Ahead(t, q), NEW r, r = planner_recalculate(d, t, head, pl, p)
    PROVE  PlanOf(r.buffer, t, head, r.planned, pm, o, sc, r.prep, low)
<1> DEFINE B == [N EXCEPT ![c] = a]
<1>1. a \in Blocks
  BY DEF Fresh
<1>2. B \in Views /\ Extended(N, B, c, a)
  BY <1>1, ExtendedBounds DEF Views, Extended
<1> HIDE DEF B
<1>3. Ahead(t, c) \in Slots /\ d \in Buffers
  BY <1>1, ExtendedBounds, AheadAhead DEF Buffers
<1>4. Seen(d, t, B)
  <2>1. ASSUME NEW k \in Slots
        PROVE  d[Ahead(t, k)] = B[k]
    <3>1. Ahead(t, k) \in Slots /\ (Ahead(t, k) = Ahead(t, c) => k = c)
      BY ExtendedBounds, AheadAhead
    <3>2. d[Ahead(t, k)] = IF Ahead(t, k) = Ahead(t, c) THEN a ELSE b[Ahead(t, k)]
      BY <1>3, <3>1 DEF Buffers
    <3> QED
      BY <1>2, <3>1, <3>2 DEF Extended, Seen
  <2> QED
    BY <2>1 DEF Seen
<1>5. /\ Steady(N, c, w, o, pn, sc, p, low)
      /\ ~low /\ ~sc.executeHold => Fast(N, c, q, sc, p)
  BY DEF Planning
<1>6. PICK z : Steady(B, c + 1, z, o, pm, sc, p, low)
  BY <1>2, <1>5, ExtendedSteady
<1>7. PICK e : e = c + 1
  OBVIOUS
<1>8. e \in 1 .. BLOCK_BUFFER_SIZE - 1 /\ e >= 2 /\ q \in 0 .. e - 1 /\ head = Ahead(t, e)
  BY <1>7, ExtendedBounds
<1>9. PICK D, p2 : D = Basis(B, e, q, p) /\ p2 = IF q = 0 /\ e >= 2 THEN Unloaded(p) ELSE p
  OBVIOUS
<1>10. /\ D \in Views /\ r.prep = p2
       /\ \E rev, M, x : Planned(D, e, q, rev, M, x) /\ Seen(r.buffer, t, M) /\ r.planned = Ahead(t, x)
  <2>1. /\ d \in Buffers /\ t \in Slots /\ B \in Views /\ Seen(d, t, B) /\ p \in Preps
        /\ e \in 1 .. BLOCK_BUFFER_SIZE - 1 /\ q \in 0 .. e - 1 /\ head = Ahead(t, e) /\ pl = Ahead(t, q)
        /\ r = planner_recalculate(d, t, head, pl, p) /\ D = Basis(B, e, q, p)
    BY <1>2, <1>3, <1>4, <1>8, <1>9
  <2>2. /\ D \in Views
        /\ r.prep = IF q = 0 /\ e >= 2 THEN Unloaded(p) ELSE p
        /\ \E rev, M, x : Planned(D, e, q, rev, M, x) /\ Seen(r.buffer, t, M) /\ r.planned = Ahead(t, x)
    BY ONLY <2>1, RecalculateView
  <2> QED
    BY <1>9, <2>2
<1>11. /\ p2 \in Preps /\ (p2.loaded => q >= 1) /\ Steady(D, e, z, o, pm, sc, p2, low)
       /\ ~low /\ ~sc.executeHold => FastTo(D, e, q, sc, p2)
  <2>1. CASE q = 0
    <3>1. p2 = Unloaded(p) /\ D = Noticed(B, p)
      BY <1>8, <1>9, <2>1 DEF Basis
    <3>2. /\ Renewed(B, D) /\ D[0].entry = IF p.loaded THEN p.speed ELSE B[0].entry
      BY <1>2, <1>3, <1>4, <3>1, NoticedView DEF Renewed
    <3>3. Starts(D, sc, p2) = Starts(B, sc, p)
      BY <3>1, <3>2, NoticedStart
    <3>4. Steady(B, e, z, o, pm, sc, p, low)
      BY <1>6, <1>7
    <3>5. Steady(D, e, z, o, pm, sc, p2, low)
      BY <1>2, <1>8, <1>10, <3>1, <3>2, <3>3, <3>4, NoticedPlan
    <3>6. /\ p2 \in Preps /\ ~p2.loaded /\ p2.exit = p.exit /\ (Underway(p2) <=> Underway(p))
      BY <3>1, UnloadedIs
    <3>7. ASSUME ~low, ~sc.executeHold
          PROVE  FastTo(D, e, q, sc, p2)
      <4>1. 0 .. q - 1 = {} /\ 1 .. q - 1 = {} /\ ~(q >= 1)
        BY <2>1
      <4>2. ~Underway(p2) => p2.exit = D[0].entry
        <5>1. ~Underway(p) => p.exit = N[0].entry
          BY <1>5, <3>7, ExtendedBounds DEF Fast
        <5>2. B[0] = N[0]
          BY <1>2, ExtendedBounds DEF Extended
        <5> QED
          BY <3>2, <3>6, <5>1, <5>2 DEF Underway
      <4> QED
        BY <3>6, <4>1, <4>2 DEF FastTo
    <3> QED
      BY <3>5, <3>6, <3>7
  <2>2. CASE q # 0
    <3>1. p2 = p /\ D = B /\ q >= 1
      BY <1>9, <2>2 DEF Basis
    <3>2. ~low /\ ~sc.executeHold => FastTo(B, c + 1, q, sc, p)
      BY <1>2, <1>5, <3>1, ExtendedFast
    <3> QED
      BY <1>6, <1>7, <3>1, <3>2
  <2> QED
    BY <2>1, <2>2
<1>12. PICK rev, M, x : Planned(D, e, q, rev, M, x) /\ Seen(r.buffer, t, M) /\ r.planned = Ahead(t, x)
  BY <1>10, Zenon
<1>13. Planning(M, e, x, z, o, pm, sc, p2, low) /\ x \in 0 .. e - 1
  BY <1>8, <1>10, <1>11, <1>12, PlannedKeeps
<1>14. M \in Views
  BY <1>12 DEF Planned
<1> QED
  BY <1>8, <1>10, <1>12, <1>13, <1>14, APlan

\* A line into an empty queue: it is planned to be entered and left at a standstill.
LEMMA FirstPlan ==
    ASSUME NEW b \in Buffers, \A i \in Slots : b[i].entry = 0 /\ b[i].max_entry = 0, NEW t \in Slots,
           NEW o \in Nat, NEW sc, ~sc.endMotion, NEW p \in Preps, ~Underway(p), p.speed = 0, p.exit = 0, NEW low,
           NEW a \in Blocks, a.entry = 0, a.max_entry = 0, a.reach > 0,
           NEW pm, pm = plan_compute_profile_nominal_speed(a, o),
           NEW d, d = [b EXCEPT ![t] = a], NEW head, head = Ahead(t, 1),
           NEW pl \in Slots, NEW r, r = planner_recalculate(d, t, head, pl, p)
    PROVE  PlanOf(r.buffer, t, head, r.planned, pm, o, sc, r.prep, low)
<1>1. 1 \in 1 .. BLOCK_BUFFER_SIZE - 1 /\ 0 \in Slots /\ 1 \in Slots /\ Ahead(t, 0) = t /\ head \in Slots
      /\ 0 \in 0 .. 1 - 1
  BY RingAssumption, AheadNone, AheadAhead DEF Slots
<1>2. d \in Buffers /\ \A i \in Slots : d[i].entry = 0 /\ d[i].max_entry = 0
  BY DEF Buffers
<1>3. d[t] = a
  BY DEF Buffers
<1>4. r.buffer = d /\ r.prep = p /\ r.planned = t
  <2>1. r.buffer = d /\ r.prep = p /\ r.planned = plan_prev_block_index(head)
    <3>1. /\ ~p.loaded /\ head \in Slots /\ d \in Buffers /\ t \in Slots /\ pl \in Slots /\ p \in Preps
          /\ \A i \in Slots : d[i].entry = 0 /\ d[i].max_entry = 0
          /\ r = planner_recalculate(d, t, head, pl, p)
      BY <1>1, <1>2 DEF Underway
    <3> QED
      BY ONLY <3>1, NothingToPlan
  <2>2. plan_prev_block_index(head) = Ahead(t, 1 - 1)
    BY <1>1, PrevAhead
  <2> QED
    BY <1>1, <2>1, <2>2
<1> DEFINE N == [k \in Slots |-> d[Ahead(t, k)]]
           w == [k \in 0 .. 1 |-> IF k = 0 THEN a.reach ELSE 0]
<1>5. N \in Views /\ Seen(d, t, N) /\ N[0] = a
      /\ \A k \in Slots : N[k].entry = 0 /\ N[k].max_entry = 0
  <2>1. ASSUME NEW k \in Slots
        PROVE  N[k] \in Blocks /\ N[k].entry = 0 /\ N[k].max_entry = 0 /\ d[Ahead(t, k)] = N[k]
    <3>1. Ahead(t, k) \in Slots
      BY AheadAhead
    <3> QED
      BY <1>2, <3>1 DEF Buffers
  <2> QED
    BY <1>1, <1>3, <2>1 DEF Views, Seen
<1> HIDE DEF N
<1>6. a.reach \in Nat
  BY DEF Blocks
<1>7. w \in [0 .. 1 -> Nat] /\ w[1] = 0 /\ w[0] = a.reach
  BY <1>6
<1> HIDE DEF w
<1>8. Free(N, 1) /\ Distances(N, 1, w)
  <2>1. ASSUME NEW k \in 0 .. 1 - 1
        PROVE  w[k] = w[k + 1] + N[k].reach
    BY <1>5, <1>6, <1>7
  <2> QED
    BY <1>5, <1>7, <2>1 DEF Free, Distances
<1>9. Limited(N, 1, o, pm)
  BY <1>5 DEF Limited, NominalOf
<1>10. Prepared(N, 1, sc, p)
  BY DEF Prepared, Underway
<1>11. Stops(N, 1, w, p)
  BY <1>5, <1>6, <1>7 DEF Stops, Underway
<1>12. Starts(N, sc, p) = 0
  BY <1>1, <1>5 DEF Starts
<1>13. Braked(N, 1, 0) /\ Driven(N, 1, 0) /\ Tight(N, 1, 0, 0)
  <2>1. \A k \in 0 .. 1 - 1 : k = 0 /\ k = 1 - 1
    OBVIOUS
  <2>2. 1 .. 1 - 1 = {} /\ ~(0 >= 1)
    OBVIOUS
  <2> QED
    BY <1>5, <1>6, <2>1, <2>2 DEF Braked, Driven, Tight, Enters, Leaves
<1>14. Slow(N, 1, o, sc, p)
  <2>1. NominalOf(N, 0, o) \in Nat
    BY <1>1, <1>5, NominalNat
  <2>2. Sq(NominalOf(N, 0, o)) \in Nat
    BY <2>1, Square
  <2> QED
    BY <1>1, <1>5, <1>12, <1>13, <2>2 DEF Slow
<1>15. Fast(N, 1, 0, sc, p)
  BY <1>1, <1>5, <1>12, <1>13 DEF Fast, Underway
<1>16. Planning(N, 1, 0, w, o, pm, sc, p, low)
  BY <1>8, <1>9, <1>10, <1>11, <1>14, <1>15 DEF Planning, Steady
<1>17. PlanOf(d, t, head, t, pm, o, sc, p, low)
  BY <1>1, <1>5, <1>16, APlan
<1> QED
  BY <1>4, <1>17


\* A queue that is not full has a free slot besides the one that always is.
LEMMA RoomAhead ==
    ASSUME RingInv, ~plan_check_full_buffer, NEW c \in 1 .. BLOCK_BUFFER_SIZE - 1,
           block_buffer_head = Ahead(block_buffer_tail, c)
    PROVE  c \in 1 .. BLOCK_BUFFER_SIZE - 2 /\ next_buffer_head = Ahead(block_buffer_tail, c + 1)
<1>1. /\ block_buffer_tail \in 0 .. BLOCK_BUFFER_SIZE - 1 /\ block_buffer_tail \in Slots
      /\ BLOCK_BUFFER_SIZE \in Nat /\ BLOCK_BUFFER_SIZE > 1 /\ c \in Slots /\ c \in 0 .. BLOCK_BUFFER_SIZE
      /\ next_buffer_head = plan_next_block_index(block_buffer_head)
  BY RingAssumption DEF RingInv, RingTypes, Slots
<1>2. PICK t, h, n : t = block_buffer_tail /\ h = Ahead(t, c) /\ n = plan_next_block_index(h)
  OBVIOUS
<1>3. n # t
  BY <1>1, <1>2 DEF plan_check_full_buffer
<1>4. h = IF t + c < BLOCK_BUFFER_SIZE THEN t + c ELSE t + c - BLOCK_BUFFER_SIZE
  BY <1>1, <1>2, AheadSlot
<1>5. n = IF h + 1 = BLOCK_BUFFER_SIZE THEN 0 ELSE h + 1
  BY <1>2 DEF plan_next_block_index
<1>6. c # BLOCK_BUFFER_SIZE - 1
  BY <1>1, <1>2, <1>3, <1>4, <1>5
<1>7. c \in 1 .. BLOCK_BUFFER_SIZE - 2 /\ c + 1 \in Slots
  BY <1>1, <1>6 DEF Slots
<1> QED
  BY <1>1, <1>2, <1>7, NextAhead

LEMMA BufferLinePlan ==
    ASSUME PlanInv, NEW m \in Motions, NEW v \in Rates, NEW l \in Reaches, NEW j \in Junctions,
           BufferLine(m, v, l, j)
    PROVE  PlanInv'
<1> DEFINE new == NewBlock(m, v, l, j)
           nominal == plan_compute_profile_nominal_speed(new, f_override)
           x == Lesser(Sq(Lesser(nominal, previous_nominal)), new.junction)
           a == plan_compute_profile_parameters(new, nominal, previous_nominal)
           d == [block_buffer EXCEPT ![block_buffer_head] = a]
           r == planner_recalculate(d, block_buffer_tail, next_buffer_head, block_buffer_planned, prep)
<1>1. /\ block_buffer' = r.buffer /\ block_buffer_planned' = r.planned /\ prep' = r.prep
      /\ previous_nominal' = nominal /\ ~plan_check_full_buffer
      /\ block_buffer_head' = next_buffer_head
      /\ UNCHANGED <<block_buffer_tail, f_override, step_control, lowered>>
  BY DEF BufferLine, NewBlock
<1>2. PlannerTypes'
  BY BufferLineTypes DEF PlanInv
<1>3. /\ block_buffer \in Buffers /\ block_buffer_tail \in Slots /\ block_buffer_head \in Slots /\ prep \in Preps
      /\ block_buffer_planned \in Slots /\ f_override \in Nat /\ previous_nominal \in Nat /\ RingInv
      /\ next_buffer_head = plan_next_block_index(block_buffer_head)
  BY PlanTypes, DataAssumption DEF PlanInv, PlannerTypes, RingInv
<1>4. /\ new \in Blocks /\ new.reach > 0 /\ new.entry = 0
      /\ block_buffer_head = block_buffer_tail => new.junction = 0
  BY DataAssumption DEF NewBlock, Blocks, Empty
<1> HIDE DEF new
<1>5. nominal \in Nat
  BY <1>3, <1>4, NominalSpeed
<1>6. a = [new EXCEPT !.max_entry = x]
  BY DEF plan_compute_profile_parameters
<1>7. a \in Blocks
  BY <1>3, <1>4, <1>5, ProfileParameters
<1> HIDE DEF x, a
<1>8. /\ a.reach > 0 /\ a.entry = 0 /\ a.max_entry = x
      /\ a.junction = new.junction /\ a.rate = new.rate /\ a.motion = new.motion
  BY <1>4, <1>6 DEF Blocks
<1>9. plan_compute_profile_nominal_speed(a, f_override) = nominal
  BY <1>8 DEF plan_compute_profile_nominal_speed
<1> HIDE DEF d, r, nominal
<1>10. PlanOf(r.buffer, block_buffer_tail, next_buffer_head, r.planned, nominal, f_override,
              step_control, r.prep, lowered)
  <2>1. CASE block_buffer_head = block_buffer_tail
    <3>1. /\ \A i \in Slots : block_buffer[i].entry = 0 /\ block_buffer[i].max_entry = 0
          /\ ~Underway(prep) /\ prep.speed = 0 /\ prep.exit = 0 /\ ~step_control.endMotion
      BY <2>1, QueueIsEmpty
    <3>2. a.max_entry = 0
      <4>1. Sq(Lesser(nominal, previous_nominal)) \in Nat
        BY <1>3, <1>5, Square DEF Lesser
      <4> QED
        BY <1>4, <1>8, <2>1, <4>1 DEF x, Lesser
    <3>3. next_buffer_head = Ahead(block_buffer_tail, 1)
      <4>1. 0 \in Slots /\ 0 + 1 \in Slots /\ Ahead(block_buffer_tail, 0) = block_buffer_tail
        BY <1>3, AheadNone, RingAssumption DEF Slots
      <4>2. plan_next_block_index(Ahead(block_buffer_tail, 0)) = Ahead(block_buffer_tail, 0 + 1)
        BY <1>3, <4>1, NextAhead
      <4> QED
        BY <1>3, <2>1, <4>1, <4>2
    <3>4. d = [block_buffer EXCEPT ![block_buffer_tail] = a]
      BY <2>1 DEF d
    <3>5. r = planner_recalculate(d, block_buffer_tail, next_buffer_head, block_buffer_planned, prep)
      BY DEF r
    <3>6. a.entry = 0 /\ a.reach > 0 /\ nominal = plan_compute_profile_nominal_speed(a, f_override)
      BY <1>8, <1>9
    <3> QED
      BY ONLY <1>3, <1>7, <3>1, <3>2, <3>3, <3>4, <3>5, <3>6, FirstPlan
  <2>2. CASE block_buffer_head # block_buffer_tail
    <3>1. PICK N \in Views, c \in 1 .. BLOCK_BUFFER_SIZE - 1, q \in Slots : \E w : Queueing(N, c, q, w)
      BY <2>2, QueueIsPlanned
    <3>2. PICK w : Queueing(N, c, q, w)
      BY <3>1, Zenon
    <3>3. /\ Seen(block_buffer, block_buffer_tail, N) /\ block_buffer_head = Ahead(block_buffer_tail, c)
          /\ q \in 0 .. c - 1 /\ block_buffer_planned = Ahead(block_buffer_tail, q)
          /\ Planning(N, c, q, w, f_override, previous_nominal, step_control, prep, lowered)
      BY <3>2, Zenon DEF Queueing
    <3>4. c \in 1 .. BLOCK_BUFFER_SIZE - 2 /\ next_buffer_head = Ahead(block_buffer_tail, c + 1)
      BY <1>1, <1>3, <3>3, RoomAhead
    <3>5. Fresh(a, f_override, previous_nominal)
      BY <1>7, <1>8, <1>9 DEF Fresh, x
    <3>6. d = [block_buffer EXCEPT ![Ahead(block_buffer_tail, c)] = a]
      BY <3>3 DEF d
    <3>7. r = planner_recalculate(d, block_buffer_tail, next_buffer_head, block_buffer_planned, prep)
      BY DEF r
    <3>8. nominal = plan_compute_profile_nominal_speed(a, f_override)
      BY <1>9
    <3> QED
      BY ONLY <1>3, <3>3, <3>4, <3>5, <3>6, <3>7, <3>8, AddedPlan
  <2> QED
    BY <2>1, <2>2
<1> QED
  BY <1>1, <1>2, <1>10 DEF PlanInv


-----------------------------------------------------------------------------
(* The segment generator works on the block at the tail. *)

\* A block is taken up at speed e.
TakenUp(N, c, o, sc, p, e, sd, p2) ==
    LET top == Sq(NominalOf(N, 0, o))
        slowing == e > top /\ N[0].reach <= e - top
        stops == sc.executeHold /\ N[0].reach > e
        through == sc.executeHold /\ N[0].reach <= e
    IN  /\ e = IF ~p.recalculate /\ (sc.executeHold \/ p.override) THEN p.exit ELSE N[0].entry
        /\ p2.loaded /\ ~p2.recalculate
        /\ p2.speed = IF p.recalculate THEN p.speed ELSE e
        /\ p2.exit = IF stops THEN 0 ELSE IF through \/ slowing THEN e - N[0].reach ELSE Leaves(N, c, 0)
        /\ p2.complete = IF stops THEN N[0].reach - e ELSE 0
        /\ sd.executeHold <=> sc.executeHold
        /\ sd.endMotion <=> sc.executeHold /\ N[0].reach > e /\ e = 0

\* The machine goes on at its speed, unless the override was lowered.
TakenAt(N, w, sc, p, low, p2, e) ==
    /\ p2.speed = e /\ e \in Nat /\ e <= w[0]
    /\ ~low => e = Starts(N, sc, p) /\ e = p.speed

LEMMA TakenUpSpeed ==
    ASSUME NEW N \in Views, NEW c \in 1 .. BLOCK_BUFFER_SIZE - 1, NEW q \in 0 .. c - 1, NEW w,
           NEW o \in Nat, NEW pn, NEW sc, NEW p \in Preps, NEW low, Planning(N, c, q, w, o, pn, sc, p, low),
           ~p.loaded, NEW e, NEW sd, NEW p2 \in Preps, TakenUp(N, c, o, sc, p, e, sd, p2)
    PROVE  TakenAt(N, w, sc, p, low, p2, e)
<1>1. c > 0 /\ 0 \in 0 .. c - 1 /\ 0 \in Slots
  BY RingAssumption DEF Slots
<1>2. /\ Prepared(N, c, sc, p) /\ Stops(N, c, w, p)
      /\ ~low /\ ~sc.executeHold => Fast(N, c, q, sc, p)
  BY Zenon DEF Planning, Steady
<1>3. /\ e = IF ~p.recalculate /\ (sc.executeHold \/ p.override) THEN p.exit ELSE N[0].entry
      /\ p2.speed = IF p.recalculate THEN p.speed ELSE e
  BY DEF TakenUp
<1>4. /\ p.recalculate => N[0].entry = p.speed /\ p.speed <= w[0]
      /\ ~p.recalculate => p.speed = p.exit /\ p.exit <= w[0]
      /\ N[0].entry <= w[0]
  BY <1>1, <1>2 DEF Prepared, Stops, Underway
<1>5. ~low /\ ~sc.executeHold /\ ~p.recalculate => p.exit = N[0].entry
  BY <1>1, <1>2 DEF Fast, Underway
<1>6. N[0].entry \in Nat /\ p.speed \in Nat /\ p.exit \in Nat
  BY <1>1, ViewTypes DEF Preps
<1>7. Starts(N, sc, p) = IF p.recalculate THEN p.speed ELSE IF sc.executeHold THEN p.exit ELSE N[0].entry
  BY DEF Starts, Underway
<1> QED
  BY <1>3, <1>4, <1>5, <1>6, <1>7 DEF TakenAt

LEMMA TakenUpPlan ==
    ASSUME NEW N \in Views, NEW c \in 1 .. BLOCK_BUFFER_SIZE - 1, NEW q \in 0 .. c - 1, NEW w,
           NEW o \in Nat, NEW pn, NEW sc, NEW p \in Preps, NEW low, Planning(N, c, q, w, o, pn, sc, p, low),
           ~p.loaded, NEW e, NEW sd, NEW p2 \in Preps, TakenUp(N, c, o, sc, p, e, sd, p2),
           NEW B \in Views, Renewed(N, B), B[0].entry = e
    PROVE  Planning(B, c, q, w, o, pn, sd, p2, low)
<1>0. /\ Free(N, c) /\ Prepared(N, c, sc, p) /\ Limited(N, c, o, pn)
      /\ Distances(N, c, w) /\ Stops(N, c, w, p)
      /\ ~low => Slow(N, c, o, sc, p)
      /\ ~low /\ ~sc.executeHold => Fast(N, c, q, sc, p)
  BY Zenon DEF Planning, Steady
<1>1. /\ c > 0 /\ 0 \in 0 .. c - 1 /\ 0 \in Slots /\ 0 \in 0 .. c /\ 1 \in 0 .. c /\ 0 + 1 = 1
      /\ \A k \in 0 .. c - 1 : k \in Slots
  BY RingAssumption DEF Slots
<1>2. PICK R, z, w0, w1 : /\ R = N[0].reach /\ z = Sq(NominalOf(N, 0, o)) /\ w0 = w[0] /\ w1 = w[1]
  OBVIOUS
<1>3. /\ p2.speed = e /\ e \in Nat /\ e <= w0
      /\ ~low => e = Starts(N, sc, p)
  <2>1. TakenAt(N, w, sc, p, low, p2, e)
    BY TakenUpSpeed
  <2> QED
    BY <1>2, <2>1 DEF TakenAt
<1>4. PICK x : x = Leaves(N, c, 0)
  OBVIOUS
<1>5. /\ p2.loaded /\ ~p2.recalculate /\ Underway(p2)
      /\ p2.exit = IF sc.executeHold /\ R > e THEN 0
                   ELSE IF (sc.executeHold /\ R <= e) \/ (e > z /\ R <= e - z) THEN e - R ELSE x
      /\ p2.complete = IF sc.executeHold /\ R > e THEN R - e ELSE 0
      /\ sd.executeHold <=> sc.executeHold
      /\ sd.endMotion <=> sc.executeHold /\ R > e /\ e = 0
  BY <1>2, <1>4 DEF TakenUp, Underway
<1>6. R \in Nat /\ z \in Nat /\ w0 \in Nat /\ w1 \in Nat /\ w0 = w1 + R /\ R > 0
  <2>1. NominalOf(N, 0, o) \in Nat
    BY <1>1, NominalNat
  <2> QED
    BY <1>0, <1>1, <1>2, <2>1, ViewTypes, Square DEF Distances, Limited
<1>7. x \in Nat /\ x <= w1
  <2>1. CASE c = 1
    BY <1>4, <1>6, <2>1 DEF Leaves
  <2>2. CASE c # 1
    <3>1. 1 \in 0 .. c - 1 /\ 1 \in Slots /\ 0 # c - 1 /\ 1 # 0
      BY <2>2, RingAssumption DEF Slots
    <3>2. N[1].entry <= w[1]
      BY <1>0, <3>1 DEF Stops
    <3> QED
      BY <1>1, <1>2, <1>4, <3>1, <3>2, ViewTypes DEF Leaves
  <2> QED
    BY <2>1, <2>2
<1>8. p2.exit \in Nat /\ p2.exit <= w1
  BY <1>3, <1>5, <1>6, <1>7
<1>9. /\ Free(B, c) /\ Limited(B, c, o, pn) /\ Distances(B, c, w) /\ B[0].reach = R
      /\ NominalOf(B, 0, o) = NominalOf(N, 0, o) /\ Leaves(B, c, 0) = x
  BY <1>0, <1>2, <1>4, NewEntry
<1>10. Prepared(B, c, sd, p2)
  <2>1. /\ p2.complete <= R /\ (p2.complete > 0 => p2.exit = 0)
        /\ sc.executeHold => p2.speed = p2.exit + (R - p2.complete)
        /\ ~sc.executeHold => p2.complete = 0
        /\ sd.endMotion => p2.speed = 0
    BY <1>3, <1>5, <1>6, <1>7
  <2> QED
    BY <1>1, <1>5, <1>9, <2>1 DEF Prepared
<1>11. Stops(B, c, w, p2)
  <2>1. ASSUME NEW k \in 0 .. c - 1, k # 0
        PROVE  B[k].entry <= w[k]
    BY <1>0, <1>1, <2>1 DEF Stops, Renewed
  <2> QED
    BY <1>2, <1>3, <1>5, <1>8, <2>1 DEF Stops
<1>12. Starts(B, sd, p2) = e
  BY <1>3, <1>5 DEF Starts
<1>13. ASSUME ~low
       PROVE  Slow(B, c, o, sd, p2) /\ e <= z
  <2>1. Braked(N, c, e) /\ e <= z
    BY <1>0, <1>1, <1>2, <1>3, <1>13 DEF Slow
  <2>2. Braked(B, c, e)
    BY <2>1, NewEntry
  <2> QED
    BY <1>2, <1>5, <1>9, <1>12, <2>1, <2>2 DEF Slow
<1>14. ASSUME ~low, ~sd.executeHold
       PROVE  Fast(B, c, q, sd, p2)
  <2>1. Driven(N, c, e) /\ Tight(N, c, e, q)
    BY <1>0, <1>1, <1>3, <1>5, <1>14 DEF Fast
  <2>2. Driven(B, c, e) /\ Tight(B, c, e, q)
    BY <2>1, NewEntry
  <2>3. p2.exit = x
    BY <1>5, <1>6, <1>3, <1>13, <1>14
  <2> QED
    BY <1>5, <1>9, <1>12, <2>2, <2>3 DEF Fast
<1> QED
  BY <1>9, <1>10, <1>11, <1>13, <1>14 DEF Planning, Steady


\* A ring with another block at its tail.
TailSet(b, d, t, a) == d = [b EXCEPT ![t] = a]

\* Where the tail block goes in a view.
LEMMA TailView ==
    ASSUME NEW b \in Buffers, NEW t \in Slots, NEW N \in Views, Seen(b, t, N), NEW a \in Blocks,
           NEW d, TailSet(b, d, t, a)
    PROVE  \E B \in Views : Seen(d, t, B) /\ B[0] = a /\ \A k \in Slots : k # 0 => B[k] = N[k]
<1> DEFINE B == [N EXCEPT ![0] = a]
<1>1. 0 \in Slots /\ Ahead(t, 0) = t
  BY AheadNone
<1>2. B \in Views /\ B[0] = a /\ \A k \in Slots : k # 0 => B[k] = N[k]
  BY <1>1 DEF Views
<1> HIDE DEF B
<1>3. ASSUME NEW k \in Slots
      PROVE  d[Ahead(t, k)] = B[k]
  <2>1. \A j \in Slots : Ahead(t, k) \in Slots /\ (Ahead(t, k) = Ahead(t, j) => k = j)
    BY AheadAhead
  <2>2. Ahead(t, k) \in Slots /\ (Ahead(t, k) = t => k = 0)
    <3>1. PICK j \in Slots : j = 0
      BY <1>1
    <3> QED
      BY <1>1, <2>1, <3>1
  <2>3. d[Ahead(t, k)] = IF Ahead(t, k) = t THEN a ELSE b[Ahead(t, k)]
    BY <2>2 DEF Buffers, TailSet
  <2>4. CASE k = 0
    BY <1>1, <1>2, <2>3, <2>4
  <2>5. CASE k # 0
    BY <1>2, <2>2, <2>3, <2>5 DEF Seen
  <2> QED
    BY <2>4, <2>5
<1>4. Seen(d, t, B)
  BY <1>3, Zenon DEF Seen
<1> QED
  BY <1>2, <1>4

\* The exit speed of the tail block.
LEMMA ExitView ==
    ASSUME NEW b, NEW t \in Slots, NEW N \in Views, Seen(b, t, N),
           NEW c \in 1 .. BLOCK_BUFFER_SIZE - 1, NEW h, h = Ahead(t, c)
    PROVE  ExitOf(b, t, h) = Leaves(N, c, 0)
<1>1. 0 \in Slots /\ 1 \in Slots /\ 0 + 1 = 1 /\ c \in Slots
  BY RingAssumption DEF Slots
<1>2. plan_next_block_index(t) = Ahead(t, 1)
  <2>1. Ahead(t, 0) = t
    BY AheadNone
  <2>2. plan_next_block_index(Ahead(t, 0)) = Ahead(t, 0 + 1)
    BY <1>1, NextAhead
  <2> QED
    BY <1>1, <2>1, <2>2
<1>3. Ahead(t, 1) = h <=> c = 1
  <2>1. \A j \in Slots : Ahead(t, j) = Ahead(t, c) => j = c
    BY <1>1, AheadAhead
  <2> QED
    BY <1>1, <2>1
<1>4. b[Ahead(t, 1)] = N[1]
  BY <1>1 DEF Seen
<1>5. Leaves(N, c, 0) = IF c = 1 THEN 0 ELSE N[1].entry
  BY <1>1 DEF Leaves
<1> QED
  BY <1>2, <1>3, <1>4, <1>5 DEF ExitOf

LEMMA LoadPlan ==
    ASSUME PlanInv, LoadBlock
    PROVE  PlanInv' /\ (prep'.speed = prep.speed \/ lowered)
<1> DEFINE t == block_buffer_tail
           b == block_buffer[t]
           e == EntrySpeed(b)
           top == NominalSqr(b)
           next == ExitOf(block_buffer, t, block_buffer_head)
<1>1. /\ prep' = [loaded |-> TRUE, recalculate |-> FALSE,
                  override |-> ~step_control.executeHold /\ e > top /\ b.reach <= e - top,
                  speed |-> IF prep.recalculate THEN prep.speed ELSE e,
                  exit |-> IF step_control.executeHold /\ b.reach > e THEN 0
                           ELSE IF \/ step_control.executeHold /\ b.reach <= e
                                   \/ e > top /\ b.reach <= e - top
                           THEN e - b.reach ELSE next,
                  complete |-> IF step_control.executeHold /\ b.reach > e THEN b.reach - e ELSE 0]
      /\ block_buffer' = [block_buffer EXCEPT ![t].entry = e]
      /\ step_control' = [step_control EXCEPT !.endMotion = HoldEndsAt(b, e)]
      /\ block_buffer_head # t /\ ~prep.loaded
      /\ UNCHANGED <<ring, block_buffer_planned, previous_nominal, f_override, lowered>>
  BY DEF LoadBlock, Empty
<1>2. PlannerTypes'
  BY LoadTypes DEF PlanInv
<1>3. /\ block_buffer \in Buffers /\ t \in Slots /\ block_buffer_head \in Slots /\ prep \in Preps
      /\ block_buffer_planned \in Slots /\ f_override \in Nat
      /\ step_control \in [executeHold : BOOLEAN, endMotion : BOOLEAN]
      /\ prep' \in Preps
  BY <1>2, PlanTypes, DataAssumption DEF PlanInv, PlannerTypes
<1>4. PICK N \in Views, c \in 1 .. BLOCK_BUFFER_SIZE - 1, q \in Slots : \E w : Queueing(N, c, q, w)
  BY <1>1, QueueIsPlanned
<1>5. PICK w : Queueing(N, c, q, w)
  BY <1>4, Zenon
<1>6. /\ Seen(block_buffer, t, N) /\ block_buffer_head = Ahead(t, c)
      /\ q \in 0 .. c - 1 /\ block_buffer_planned = Ahead(t, q)
      /\ Planning(N, c, q, w, f_override, previous_nominal, step_control, prep, lowered)
  BY <1>5, Zenon DEF Queueing
<1>7. N[0] = b /\ b \in Blocks
  <2>1. 0 \in Slots /\ Ahead(t, 0) = t
    BY <1>3, AheadNone
  <2> QED
    BY <1>3, <1>6, <2>1 DEF Seen, Buffers
<1>8. PICK p2, sd, x, z : /\ p2 = prep' /\ sd = step_control' /\ x = e
                          /\ z = top
  OBVIOUS
<1>9. next = Leaves(N, c, 0)
  BY <1>3, <1>6, ExitView
<1>10. /\ z = Sq(NominalOf(N, 0, f_override))
       /\ x = IF ~prep.recalculate /\ (step_control.executeHold \/ prep.override) THEN prep.exit ELSE N[0].entry
  BY <1>7, <1>8 DEF NominalSqr, NominalOf, EntrySpeed
<1> HIDE DEF b, e, top, next
<1>11. TakenUp(N, c, f_override, step_control, prep, x, sd, p2)
  <2>1. /\ p2.loaded /\ ~p2.recalculate
        /\ p2.speed = IF prep.recalculate THEN prep.speed ELSE x
        /\ p2.exit = IF step_control.executeHold /\ N[0].reach > x THEN 0
                     ELSE IF \/ step_control.executeHold /\ N[0].reach <= x
                             \/ x > z /\ N[0].reach <= x - z
                     THEN x - N[0].reach ELSE Leaves(N, c, 0)
        /\ p2.complete = IF step_control.executeHold /\ N[0].reach > x THEN N[0].reach - x ELSE 0
    BY <1>1, <1>7, <1>8, <1>9
  <2>2. /\ sd.executeHold <=> step_control.executeHold
        /\ sd.endMotion <=> step_control.executeHold /\ N[0].reach > x /\ x = 0
    BY <1>1, <1>3, <1>7, <1>8 DEF HoldEndsAt
  <2> QED
    BY <1>10, <2>1, <2>2 DEF TakenUp
<1>12. x \in Nat /\ p2.speed = x /\ (~lowered => x = prep.speed)
  <2>1. p2 \in Preps /\ ~prep.loaded
    BY <1>1, <1>3, <1>8
  <2>2. TakenAt(N, w, step_control, prep, lowered, p2, x)
    BY <1>3, <1>6, <1>11, <2>1, TakenUpSpeed
  <2> QED
    BY <2>2 DEF TakenAt
<1> DEFINE a == [b EXCEPT !.entry = x]
<1>13. a \in Blocks /\ a.entry = x
  BY <1>7, <1>12 DEF Blocks
<1>14. block_buffer' = [block_buffer EXCEPT ![t] = a]
  BY <1>1, <1>3, <1>8 DEF b, Buffers
<1> HIDE DEF a
<1>15. PICK d : d = block_buffer'
  OBVIOUS
<1>16. PICK B \in Views : Seen(d, t, B) /\ B[0] = a /\ \A k \in Slots : k # 0 => B[k] = N[k]
  <2>1. TailSet(block_buffer, d, t, a)
    BY <1>14, <1>15 DEF TailSet
  <2> QED
    BY <1>3, <1>6, <1>13, <2>1, TailView
<1>17. Renewed(N, B) /\ B[0].entry = x
  BY <1>7, <1>13, <1>16 DEF Renewed, a
<1>18. Planning(B, c, q, w, f_override, previous_nominal, sd, p2, lowered)
  <2>1. p2 \in Preps
    BY <1>3, <1>8
  <2> QED
    BY <1>1, <1>3, <1>6, <1>11, <1>16, <1>17, <2>1, TakenUpPlan
<1>19. PlanOf(d, t, block_buffer_head, block_buffer_planned, previous_nominal, f_override, sd, p2, lowered)
  BY <1>3, <1>6, <1>16, <1>18, APlan
<1>20. PlanOf(block_buffer', t, block_buffer_head, block_buffer_planned, previous_nominal, f_override,
              step_control', prep', lowered)
  BY <1>8, <1>15, <1>19
<1> QED
  BY <1>1, <1>2, <1>8, <1>12, <1>20 DEF PlanInv, ring


\* The speeds s a profile may have reached when r of the block is left: v and x are
\* the speeds of the block at its start and end, m is left of it where it ends.
Profiled(v, x, m, R, top, r, s) ==
    IF v > x + (R - m) THEN s = v - (R - r)
    ELSE IF x > v + R THEN s = v + (R - r)
    ELSE /\ s \in 0 .. v + (R - r)
         /\ v <= s + (R - r)
         /\ s <= v \/ s <= top \/ s <= x
         /\ Gap(s, x) <= r - m

\* What such a speed is good for.
Reachable(v, x, m, R, top, r, s) ==
    /\ s \in Nat /\ Gap(v, s) <= R - r
    /\ v = x + (R - m) => s = x + (r - m)
    /\ \A w0, w1 \in Nat : w0 = w1 + R /\ v <= w0 /\ x <= w1 => s <= w1 + r
    /\ ~(v > x + (R - m)) /\ ~(x > v + R) =>
          /\ s <= v \/ s <= top \/ s <= x
          /\ s <= x + (r - m) /\ x <= s + (r - m) /\ s <= v + (R - r)

LEMMA ProfileArithmetic ==
    ASSUME NEW v \in Nat, NEW x \in Nat, NEW m \in Nat, NEW R \in Nat, NEW r \in 1 .. R - 1, m <= r, m > 0 => x = 0,
           NEW top \in Nat, NEW s, Profiled(v, x, m, R, top, r, s)
    PROVE  Reachable(v, x, m, R, top, r, s)
<1>1. R - r \in Nat /\ r \in Nat /\ r - m \in Nat /\ R > 0 /\ R - m \in Nat /\ m <= R
  OBVIOUS
<1>2. CASE v > x + (R - m)
  <2>1. v >= R - r
    BY <1>1, <1>2
  <2>2. s = v - (R - r)
    BY <1>2 DEF Profiled
  <2>3. s \in Nat /\ Gap(v, s) <= R - r
    BY <1>1, <2>1, <2>2 DEF Gap
  <2> QED
    BY <1>1, <1>2, <2>1, <2>2, <2>3 DEF Reachable
<1>3. CASE ~(v > x + (R - m)) /\ x > v + R
  <2>1. s = v + (R - r)
    BY <1>3 DEF Profiled
  <2>2. s \in Nat /\ Gap(v, s) <= R - r
    BY <1>1, <2>1 DEF Gap
  <2> QED
    BY <1>1, <1>3, <2>1, <2>2 DEF Reachable
<1>4. CASE ~(v > x + (R - m)) /\ ~(x > v + R)
  <2>1. /\ s \in 0 .. v + (R - r) /\ v <= s + (R - r)
        /\ s <= v \/ s <= top \/ s <= x
        /\ Gap(s, x) <= r - m
    BY <1>4 DEF Profiled
  <2>2. s \in Nat /\ s <= x + (r - m) /\ x <= s + (r - m) /\ Gap(v, s) <= R - r
    BY <1>1, <2>1 DEF Gap
  <2>3. \A w0, w1 \in Nat : w0 = w1 + R /\ v <= w0 /\ x <= w1 => s <= w1 + r
    BY <1>1, <2>2
  <2>4. v = x + (R - m) => s = x + (r - m)
    BY <1>1, <2>1, <2>2
  <2> QED
    BY <1>4, <2>1, <2>2, <2>3, <2>4 DEF Reachable
<1> QED
  BY <1>2, <1>3, <1>4

\* Of the block at the tail, r is left.
Shortened(N, B, r) ==
    /\ \A k \in Slots : k # 0 => B[k] = N[k]
    /\ B[0] = [N[0] EXCEPT !.reach = r]

\* What does not depend on the length of the block at the tail.
LEMMA ShortenedSame ==
    ASSUME NEW N \in Views, NEW B \in Views, NEW r \in Nat, r > 0, Shortened(N, B, r),
           NEW c \in 1 .. BLOCK_BUFFER_SIZE - 1, NEW o, NEW pn
    PROVE  /\ B[0].reach = r /\ B[0].entry = N[0].entry /\ Leaves(B, c, 0) = Leaves(N, c, 0)
           /\ NominalOf(B, 0, o) = NominalOf(N, 0, o)
           /\ Free(N, c) => Free(B, c)
           /\ Limited(N, c, o, pn) => Limited(B, c, o, pn)
<1>1. /\ c \in Nat /\ c > 0 /\ 0 \in Slots /\ 0 \in 0 .. c - 1 /\ (0 # c - 1 => 1 \in Slots) /\ c - 1 \in Slots
      /\ \A k \in 0 .. c - 1 : k \in Slots
      /\ \A k \in 1 .. c - 1 : k \in Slots /\ k - 1 \in Slots /\ k # 0
      /\ \A k \in Slots : k >= c => k # 0
  BY RingAssumption DEF Slots
<1>2. N[0] \in Blocks
  BY <1>1, ViewTypes
<1>3. /\ B[0].motion = N[0].motion /\ B[0].rate = N[0].rate /\ B[0].entry = N[0].entry
      /\ B[0].reach = r /\ B[0].max_entry = N[0].max_entry
  BY <1>2 DEF Shortened, Blocks
<1>4. ASSUME NEW k \in Slots
      PROVE  NominalOf(B, k, o) = NominalOf(N, k, o)
  <2>1. CASE k = 0
    BY <1>3, <2>1 DEF NominalOf, plan_compute_profile_nominal_speed
  <2>2. CASE k # 0
    BY <2>2 DEF NominalOf, Shortened
  <2> QED
    BY <2>1, <2>2
<1>5. Leaves(B, c, 0) = Leaves(N, c, 0)
  BY <1>1 DEF Leaves, Shortened
<1>6. Free(N, c) => Free(B, c)
  BY <1>1 DEF Free, Shortened
<1>7. Limited(N, c, o, pn) => Limited(B, c, o, pn)
  <2> SUFFICES ASSUME Limited(N, c, o, pn)
               PROVE  Limited(B, c, o, pn)
    OBVIOUS
  <2>1. pn = NominalOf(B, c - 1, o)
    BY <1>1, <1>4 DEF Limited
  <2>2. ASSUME NEW k \in 1 .. c - 1
        PROVE  B[k].max_entry = Lesser(Sq(Lesser(NominalOf(B, k, o), NominalOf(B, k - 1, o))), B[k].junction)
    <3>1. k \in Slots /\ k - 1 \in Slots /\ k # 0
      BY <1>1
    <3>2. NominalOf(B, k, o) = NominalOf(N, k, o) /\ NominalOf(B, k - 1, o) = NominalOf(N, k - 1, o)
          /\ B[k] = N[k]
      BY <1>4, <3>1 DEF Shortened
    <3> QED
      BY <3>2 DEF Limited
  <2>3. ASSUME NEW k \in 0 .. c - 1
        PROVE  B[k].reach > 0
    BY <1>1, <1>3 DEF Limited, Shortened
  <2> QED
    BY <2>1, <2>2, <2>3 DEF Limited
<1> QED
  BY <1>1, <1>3, <1>4, <1>5, <1>6, <1>7

\* A junction is not taken faster than the motion before it may be.
LEMMA ExitLimit ==
    ASSUME NEW N \in Views, NEW c \in 1 .. BLOCK_BUFFER_SIZE - 1, NEW o \in Nat, NEW pn, Limited(N, c, o, pn),
           NEW s, Braked(N, c, s)
    PROVE  Leaves(N, c, 0) <= Sq(NominalOf(N, 0, o)) /\ Leaves(N, c, 0) \in Nat
<1>1. 0 \in Slots
  BY RingAssumption DEF Slots
<1>2. PICK v0, z : v0 = NominalOf(N, 0, o) /\ z = Sq(v0)
  OBVIOUS
<1>3. v0 \in Nat /\ z \in Nat
  BY <1>1, <1>2, NominalNat, Square
<1>4. CASE c = 1
  BY <1>2, <1>3, <1>4 DEF Leaves
<1>5. CASE c # 1
  <2>1. 1 \in Slots /\ 1 \in 1 .. c - 1 /\ 0 # c - 1 /\ 1 - 1 = 0 /\ 0 + 1 = 1
    BY <1>5, RingAssumption DEF Slots
  <2>2. PICK v1, u : v1 = NominalOf(N, 1, o) /\ u = Lesser(v1, v0)
    OBVIOUS
  <2>3. v1 \in Nat /\ u \in Nat /\ u <= v0
    BY <1>3, <2>1, <2>2, NominalNat DEF Lesser
  <2>4. Sq(u) \in Nat /\ Sq(u) <= z
    BY <1>2, <1>3, <2>3, SquareRises, Square
  <2>5. N[1].max_entry = Lesser(Sq(u), N[1].junction)
    BY <1>2, <2>1, <2>2 DEF Limited
  <2>6. N[1].entry <= N[1].max_entry
    BY <2>1 DEF Braked
  <2>7. N[1].entry \in Nat /\ N[1].junction \in Nat
    BY <2>1, ViewTypes
  <2>8. N[1].entry <= z
    BY <1>3, <2>4, <2>5, <2>6, <2>7 DEF Lesser
  <2> QED
    BY <1>2, <2>1, <2>7, <2>8 DEF Leaves
<1> QED
  BY <1>4, <1>5


\* Of the loaded block at the tail r is left, and the speed is s.
Advanced(N, o, sc, p, r, s, sd, p2) ==
    /\ p.loaded /\ r \in 1 .. N[0].reach - 1 /\ r >= p.complete
    /\ Profiled(p.speed, p.exit, p.complete, N[0].reach, Sq(NominalOf(N, 0, o)), r, s)
    /\ p2 = [p EXCEPT !.speed = s]
    /\ sd.executeHold <=> sc.executeHold
    /\ sd.endMotion <=> r = p.complete

LEMMA AdvancedPlan ==
    ASSUME NEW N \in Views, NEW c \in 1 .. BLOCK_BUFFER_SIZE - 1, NEW q \in 0 .. c - 1, NEW w,
           NEW o \in Nat, NEW pn, NEW sc, NEW p \in Preps, NEW low, Planning(N, c, q, w, o, pn, sc, p, low),
           NEW r, NEW s, NEW sd, NEW p2, Advanced(N, o, sc, p, r, s, sd, p2),
           NEW B \in Views, Shortened(N, B, r)
    PROVE  /\ Gap(p.speed, s) <= N[0].reach - r
           /\ \E z : Planning(B, c, q, z, o, pn, sd, p2, low)
<1>0. /\ Free(N, c) /\ Prepared(N, c, sc, p) /\ Limited(N, c, o, pn)
      /\ Distances(N, c, w) /\ Stops(N, c, w, p)
      /\ ~low => Slow(N, c, o, sc, p)
      /\ ~low /\ ~sc.executeHold => Fast(N, c, q, sc, p)
  BY Zenon DEF Planning, Steady
<1>0a. /\ p.loaded /\ r \in 1 .. N[0].reach - 1 /\ r >= p.complete
       /\ Profiled(p.speed, p.exit, p.complete, N[0].reach, Sq(NominalOf(N, 0, o)), r, s)
       /\ p2 = [p EXCEPT !.speed = s]
       /\ sd.executeHold <=> sc.executeHold
       /\ sd.endMotion <=> r = p.complete
  BY DEF Advanced
<1>1. /\ c \in Nat /\ c > 0 /\ 0 \in 0 .. c - 1 /\ 0 \in Slots /\ 0 \in 0 .. c /\ 1 \in 0 .. c /\ 0 + 1 = 1
      /\ \A k \in 0 .. c - 1 : k \in Slots /\ k \in 0 .. c /\ k + 1 \in 0 .. c /\ k + 1 # 0
  BY RingAssumption DEF Slots
<1>2. PICK R, top, w0, w1, v, x, m, L :
        /\ R = N[0].reach /\ top = Sq(NominalOf(N, 0, o)) /\ w0 = w[0] /\ w1 = w[1]
        /\ v = p.speed /\ x = p.exit /\ m = p.complete /\ L = Leaves(N, c, 0)
  OBVIOUS
<1>3. /\ R \in Nat /\ top \in Nat /\ w0 \in Nat /\ w1 \in Nat /\ v \in Nat /\ x \in Nat /\ m \in Nat
      /\ w0 = w1 + R /\ R > 0 /\ r \in 1 .. R - 1
  <2>1. NominalOf(N, 0, o) \in Nat
    BY <1>1, NominalNat
  <2>2. R \in Nat /\ top \in Nat /\ v \in Nat /\ x \in Nat /\ m \in Nat /\ R > 0
    BY <1>0, <1>1, <1>2, <2>1, ViewTypes, Square DEF Limited, Preps
  <2>3. w0 \in Nat /\ w1 \in Nat /\ w0 = w1 + R
    BY <1>0, <1>1, <1>2 DEF Distances
  <2> QED
    BY <1>0a, <1>2, <2>2, <2>3
<1>4. /\ m <= R /\ m <= r /\ v <= w0 /\ x <= w1
      /\ m > 0 => x = 0
      /\ sc.executeHold => v = x + (R - m)
      /\ ~sc.executeHold => m = 0
  BY <1>0, <1>0a, <1>2 DEF Prepared, Stops, Underway
<1>5. /\ s \in Nat /\ Gap(v, s) <= R - r
      /\ v = x + (R - m) => s = x + (r - m)
      /\ s <= w1 + r
      /\ ~(v > x + (R - m)) /\ ~(x > v + R) =>
            /\ s <= v \/ s <= top \/ s <= x
            /\ s <= x + (r - m) /\ x <= s + (r - m) /\ s <= v + (R - r)
  <2>1. Profiled(v, x, m, R, top, r, s)
    BY <1>0a, <1>2
  <2>2. Reachable(v, x, m, R, top, r, s)
    BY <1>3, <1>4, <2>1, ProfileArithmetic
  <2> QED
    BY <1>3, <1>4, <2>2 DEF Reachable
<1>6. /\ p2 \in Preps /\ p2.loaded /\ p2.speed = s /\ p2.exit = x /\ p2.complete = m
      /\ (p2.recalculate <=> p.recalculate) /\ Underway(p2) /\ Underway(p)
  BY <1>0a, <1>2, <1>5 DEF Preps, Underway
<1>7. /\ B[0].reach = r /\ B[0].entry = N[0].entry /\ Leaves(B, c, 0) = L
      /\ NominalOf(B, 0, o) = NominalOf(N, 0, o) /\ Free(B, c) /\ Limited(B, c, o, pn)
  BY <1>0, <1>2, <1>3, ShortenedSame
<1>7a. PICK e : e = w1 + r
  OBVIOUS
<1> DEFINE y == [w EXCEPT ![0] = e]
<1>8. /\ y \in [0 .. c -> Nat] /\ y[0] = w1 + r
      /\ \A k \in 0 .. c : k # 0 => y[k] = w[k]
  <2>1. e \in Nat /\ w \in [0 .. c -> Nat]
    BY <1>0, <1>3, <1>7a DEF Distances
  <2> QED
    BY <1>1, <1>7a, <2>1
<1> HIDE DEF y
<1>9. Distances(B, c, y)
  <2>1. ASSUME NEW k \in 0 .. c - 1
        PROVE  y[k] = y[k + 1] + B[k].reach
    <3>1. CASE k = 0
      BY <1>1, <1>2, <1>7, <1>8, <3>1
    <3>2. CASE k # 0
      <4>1. y[k] = w[k] /\ y[k + 1] = w[k + 1] /\ B[k] = N[k]
        BY <1>1, <1>8, <3>2 DEF Shortened
      <4> QED
        BY <1>0, <4>1 DEF Distances
    <3> QED
      BY <3>1, <3>2
  <2>2. y[c] = 0
    BY <1>0, <1>1, <1>8 DEF Distances
  <2> QED
    BY <1>8, <2>1, <2>2 DEF Distances
<1>10. Stops(B, c, y, p2)
  <2>1. ASSUME NEW k \in 0 .. c - 1, k # 0
        PROVE  B[k].entry <= y[k]
    <3>1. B[k] = N[k] /\ y[k] = w[k]
      BY <1>1, <1>8, <2>1 DEF Shortened
    <3> QED
      BY <1>0, <2>1, <3>1 DEF Stops
  <2>2. y[1] = w1
    BY <1>1, <1>2, <1>8
  <2> QED
    BY <1>4, <1>5, <1>6, <1>8, <2>1, <2>2 DEF Stops
<1>11. Prepared(B, c, sd, p2)
  <2>1. sd.endMotion => s = 0
    BY <1>0a, <1>2, <1>3, <1>4, <1>5
  <2>2. ~p.recalculate
    BY <1>0, <1>0a DEF Prepared
  <2> QED
    BY <1>1, <1>0a, <1>4, <1>5, <1>6, <1>7, <2>1, <2>2 DEF Prepared
<1>12. Starts(B, sd, p2) = s /\ Starts(N, sc, p) = v
  BY <1>0a, <1>2, <1>6 DEF Starts
<1>13. ASSUME ~low
       PROVE  /\ Slow(B, c, o, sd, p2)
              /\ ~sc.executeHold => Fast(B, c, q, sd, p2)
  <2>1. Braked(N, c, v) /\ v <= top
    BY <1>0, <1>1, <1>2, <1>12, <1>13 DEF Slow
  <2>2. ~sc.executeHold => Driven(N, c, v) /\ Tight(N, c, v, q) /\ x = L
    BY <1>0, <1>0a, <1>1, <1>2, <1>12, <1>13 DEF Fast
  <2>3. L <= top /\ L \in Nat
    BY <1>0, <1>2, <2>1, ExitLimit
  <2>4. v <= L + R
    BY <1>1, <1>2, <2>1 DEF Braked, Enters
  <2>5. ~sc.executeHold => L <= v + R
    BY <1>1, <1>2, <2>2 DEF Driven, Enters
  <2>6. s <= L + r /\ s <= top /\ (~sc.executeHold => L <= s + r /\ s + r <= v + R)
    <3>1. CASE sc.executeHold
      <4>1. v = x + (R - m) /\ s = x + (r - m)
        BY <1>4, <1>5, <3>1
      <4> QED
        BY <1>3, <1>4, <2>1, <2>3, <2>4, <3>1, <4>1
    <3>2. CASE ~sc.executeHold
      <4>1. m = 0 /\ x = L
        BY <1>4, <2>2, <3>2
      <4>2. ~(v > x + (R - m)) /\ ~(x > v + R)
        BY <1>3, <2>4, <2>5, <3>2, <4>1
      <4> QED
        BY <1>3, <1>5, <2>1, <2>3, <4>1, <4>2
    <3> QED
      BY <3>1, <3>2
  <2>7. Braked(B, c, s)
    <3>1. ASSUME NEW k \in 0 .. c - 1
          PROVE  Enters(B, s, k) <= Leaves(B, c, k) + B[k].reach
      <4>1. CASE k = 0
        BY <1>7, <2>6, <4>1 DEF Enters
      <4>2. CASE k # 0
        <5>1. Enters(N, v, k) <= Leaves(N, c, k) + N[k].reach
          BY <2>1 DEF Braked
        <5>2. B[k] = N[k] /\ (k # c - 1 => B[k + 1] = N[k + 1])
          BY <1>1, <4>2, RingAssumption DEF Shortened, Slots
        <5> QED
          BY <4>2, <5>1, <5>2 DEF Enters, Leaves
      <4> QED
        BY <4>1, <4>2
    <3>2. ASSUME NEW k \in 1 .. c - 1
          PROVE  B[k].entry <= B[k].max_entry
      <4>1. B[k] = N[k]
        BY <1>1 DEF Shortened
      <4> QED
        BY <2>1, <4>1 DEF Braked
    <3> QED
      BY <3>1, <3>2 DEF Braked
  <2>8. Slow(B, c, o, sd, p2)
    BY <1>2, <1>6, <1>7, <1>12, <2>6, <2>7 DEF Slow
  <2>9. ASSUME ~sc.executeHold
        PROVE  Fast(B, c, q, sd, p2)
    <3>1. Driven(B, c, s)
      <4>1. ASSUME NEW k \in 0 .. c - 1
            PROVE  Leaves(B, c, k) <= Enters(B, s, k) + B[k].reach
        <5>1. CASE k = 0
          BY <1>7, <2>6, <2>9, <5>1 DEF Enters
        <5>2. CASE k # 0
          <6>1. Leaves(N, c, k) <= Enters(N, v, k) + N[k].reach
            BY <2>2, <2>9 DEF Driven
          <6>2. B[k] = N[k] /\ (k # c - 1 => B[k + 1] = N[k + 1])
            BY <1>1, <5>2, RingAssumption DEF Shortened, Slots
          <6> QED
            BY <5>2, <6>1, <6>2 DEF Enters, Leaves
        <5> QED
          BY <5>1, <5>2
      <4> QED
        BY <4>1 DEF Driven
    <3>2. ASSUME NEW k \in 1 .. c - 1, Pressed(N, v, k)
          PROVE  Pressed(B, s, k)
      <4>1. B[k] = N[k]
        BY <1>1 DEF Shortened
      <4>2. CASE k = 1
        <5>1. L = N[1].entry /\ k - 1 = 0
          BY <1>1, <1>2, <4>2 DEF Leaves
        <5>2. N[1].entry = N[1].max_entry \/ N[1].entry = v + R
          BY <1>2, <3>2, <4>2, <5>1 DEF Pressed, Enters
        <5>3. N[1].entry = v + R => N[1].entry = s + r
          BY <1>3, <1>5, <2>3, <2>6, <2>9, <5>1
        <5> QED
          BY <1>7, <4>1, <4>2, <5>1, <5>2, <5>3 DEF Pressed, Enters
      <4>3. CASE k # 1
        <5>1. k - 1 # 0 /\ k - 1 \in 0 .. c - 1
          BY <4>3
        <5>2. B[k - 1] = N[k - 1]
          BY <1>1, <5>1 DEF Shortened
        <5> QED
          BY <3>2, <4>1, <5>1, <5>2 DEF Pressed, Enters
      <4> QED
        BY <4>2, <4>3
    <3>3. Tight(B, c, s, q)
      <4>1. ASSUME NEW k \in 1 .. c - 1
            PROVE  Pressed(B, s, k) \/ B[k].entry = Leaves(B, c, k) + B[k].reach
        <5>1. Pressed(N, v, k) \/ N[k].entry = Leaves(N, c, k) + N[k].reach
          BY <2>2, <2>9 DEF Tight
        <5>2. B[k] = N[k] /\ (k # c - 1 => B[k + 1] = N[k + 1])
          BY <1>1, RingAssumption DEF Shortened, Slots
        <5> QED
          BY <3>2, <5>1, <5>2 DEF Leaves
      <4>2. q >= 1 => Pressed(B, s, q)
        BY <2>2, <2>9, <3>2 DEF Tight
      <4> QED
        BY <4>1, <4>2 DEF Tight
    <3> QED
      BY <1>2, <1>6, <1>7, <1>12, <2>2, <2>9, <3>1, <3>3 DEF Fast
  <2> QED
    BY <2>8, <2>9
<1>14. Planning(B, c, q, y, o, pn, sd, p2, low)
  BY <1>7, <1>9, <1>10, <1>11, <1>13, <1>0a DEF Planning, Steady
<1> QED
  BY <1>2, <1>5, <1>14


LEMMA AdvancePlan ==
    ASSUME PlanInv, AdvanceBlock
    PROVE  /\ PlanInv' /\ block_buffer_tail' = block_buffer_tail
           /\ Gap(prep.speed, prep'.speed) <= block_buffer[block_buffer_tail].reach
                                              - block_buffer'[block_buffer_tail].reach
<1> DEFINE t == block_buffer_tail
           b == block_buffer[t]
<1>1. /\ block_buffer \in Buffers /\ t \in Slots /\ block_buffer_head \in Slots /\ prep \in Preps
      /\ block_buffer_planned \in Slots /\ f_override \in Nat
      /\ step_control \in [executeHold : BOOLEAN, endMotion : BOOLEAN] /\ RingInv
  BY PlanTypes, DataAssumption DEF PlanInv, PlannerTypes
<1>2. PlannerTypes'
  BY AdvanceTypes DEF PlanInv
<1>3. PICK l \in 1 .. b.reach - 1 :
        /\ l >= prep.complete
        /\ block_buffer' = [block_buffer EXCEPT ![t].reach = l]
        /\ \E s \in ProfileSpeeds(l) : prep' = [prep EXCEPT !.speed = s]
        /\ step_control' = [step_control EXCEPT !.endMotion = (l = prep.complete)]
  BY DEF AdvanceBlock
<1>4. PICK s \in ProfileSpeeds(l) : prep' = [prep EXCEPT !.speed = s]
  BY <1>3
<1>5. prep.loaded /\ UNCHANGED <<ring, block_buffer_planned, previous_nominal, f_override, lowered>>
  BY DEF AdvanceBlock
<1>6. block_buffer_head # t
  BY <1>1, <1>5 DEF RingInv, Empty
<1>7. PICK N \in Views, c \in 1 .. BLOCK_BUFFER_SIZE - 1, q \in Slots : \E w : Queueing(N, c, q, w)
  BY <1>6, QueueIsPlanned
<1>8. PICK w : Queueing(N, c, q, w)
  BY <1>7, Zenon
<1>9. /\ Seen(block_buffer, t, N) /\ block_buffer_head = Ahead(t, c)
      /\ q \in 0 .. c - 1 /\ block_buffer_planned = Ahead(t, q)
      /\ Planning(N, c, q, w, f_override, previous_nominal, step_control, prep, lowered)
  BY <1>8, Zenon DEF Queueing
<1>10. N[0] = b /\ b \in Blocks
  <2>1. 0 \in Slots /\ Ahead(t, 0) = t
    BY <1>1, AheadNone
  <2> QED
    BY <1>1, <1>9, <2>1 DEF Seen, Buffers
<1>11. Profiled(prep.speed, prep.exit, prep.complete, N[0].reach, Sq(NominalOf(N, 0, f_override)), l, s)
  <2>1. Sq(NominalOf(N, 0, f_override)) = NominalSqr(b)
    BY <1>10 DEF NominalSqr, NominalOf
  <2>2. PICK top, R, v, x, m : top = NominalSqr(b) /\ R = b.reach /\ v = prep.speed /\ x = prep.exit /\ m = prep.complete
    OBVIOUS
  <2>3. s \in IF v > x + (R - m) THEN {v - (R - l)}
              ELSE IF x > v + R THEN {v + (R - l)}
              ELSE {z \in 0 .. v + (R - l) :
                      /\ v <= z + (R - l)
                      /\ z <= v \/ z <= top \/ z <= x
                      /\ Gap(z, x) <= l - m}
    BY <2>2 DEF ProfileSpeeds
  <2>4. Profiled(v, x, m, R, top, l, s)
    BY ONLY <2>3 DEF Profiled
  <2> QED
    BY <1>10, <2>1, <2>2, <2>4
<1> HIDE DEF b
<1> DEFINE a == [b EXCEPT !.reach = l]
<1>12. a \in Blocks /\ a.reach = l /\ l \in Nat /\ l > 0
  <2>1. l \in Nat /\ l > 0
    BY <1>3, <1>10 DEF Blocks
  <2> QED
    BY <1>10, <2>1 DEF Blocks
<1>13. block_buffer' = [block_buffer EXCEPT ![t] = a]
  BY <1>1, <1>3 DEF b, Buffers
<1> HIDE DEF a
<1>14. PICK d, p2, sd : d = block_buffer' /\ p2 = prep' /\ sd = step_control'
  OBVIOUS
<1>15. TailSet(block_buffer, d, t, a)
  BY <1>13, <1>14 DEF TailSet
<1>16. PICK B \in Views : Seen(d, t, B) /\ B[0] = a /\ \A k \in Slots : k # 0 => B[k] = N[k]
  BY <1>1, <1>9, <1>12, <1>15, TailView
<1>17. Shortened(N, B, l)
  BY <1>10, <1>16 DEF Shortened, a
<1>18. p2 = [prep EXCEPT !.speed = s] /\ (sd.executeHold <=> step_control.executeHold)
       /\ (sd.endMotion <=> l = prep.complete)
  BY <1>1, <1>3, <1>4, <1>14
<1>19. l \in 1 .. N[0].reach - 1 /\ l >= prep.complete
  BY <1>3, <1>10
<1>20. /\ Gap(prep.speed, s) <= N[0].reach - l
       /\ \E z : Planning(B, c, q, z, f_override, previous_nominal, sd, p2, lowered)
  <2>1. Advanced(N, f_override, step_control, prep, l, s, sd, p2)
    BY <1>5, <1>11, <1>18, <1>19 DEF Advanced
  <2> QED
    BY <1>1, <1>9, <1>16, <1>17, <2>1, AdvancedPlan
<1>21. PICK z : Planning(B, c, q, z, f_override, previous_nominal, sd, p2, lowered)
  BY <1>20
<1>22. PlanOf(d, t, block_buffer_head, block_buffer_planned, previous_nominal, f_override, sd, p2, lowered)
  BY <1>1, <1>9, <1>16, <1>21, APlan
<1>23. PlanOf(block_buffer', t, block_buffer_head, block_buffer_planned, previous_nominal, f_override,
              step_control', prep', lowered)
  BY <1>14, <1>22
<1>24. PlanInv' /\ block_buffer_tail' = t
  BY <1>2, <1>5, <1>23 DEF PlanInv, ring
<1>25. Gap(prep.speed, prep'.speed) <= block_buffer[t].reach - block_buffer'[t].reach
  <2>1. prep'.speed = s
    BY <1>1, <1>4 DEF Preps
  <2>2. block_buffer'[t] = a
    BY <1>1, <1>13 DEF Buffers
  <2> QED
    BY <1>10, <1>12, <1>20, <2>1, <2>2 DEF b
<1> QED
  BY <1>24, <1>25


\* How the block at the tail ends.
Ends(N, c, w, sc, p, low) ==
    /\ p.exit <= w[1]
    /\ ~low => /\ Gap(p.speed, p.exit) <= N[0].reach /\ p.exit <= Leaves(N, c, 0)
               /\ ~sc.executeHold => p.exit = Leaves(N, c, 0)

LEMMA FinishedSpeed ==
    ASSUME NEW N \in Views, NEW c \in 1 .. BLOCK_BUFFER_SIZE - 1, NEW q \in 0 .. c - 1, NEW w,
           NEW o \in Nat, NEW pn, NEW sc, NEW p \in Preps, NEW low, Planning(N, c, q, w, o, pn, sc, p, low),
           p.loaded, p.complete = 0
    PROVE  Ends(N, c, w, sc, p, low)
<1>0. /\ Prepared(N, c, sc, p) /\ Limited(N, c, o, pn) /\ Stops(N, c, w, p)
      /\ ~low => Slow(N, c, o, sc, p)
      /\ ~low /\ ~sc.executeHold => Fast(N, c, q, sc, p)
  BY Zenon DEF Planning, Steady
<1>1. c > 0 /\ 0 \in 0 .. c - 1 /\ 0 \in Slots
  BY RingAssumption DEF Slots
<1>2. PICK v, x, R, L : v = p.speed /\ x = p.exit /\ R = N[0].reach /\ L = Leaves(N, c, 0)
  OBVIOUS
<1>3. v \in Nat /\ x \in Nat /\ R \in Nat
  BY <1>1, <1>2, ViewTypes DEF Preps
<1>4. x <= w[1]
  BY <1>0, <1>2 DEF Stops
<1>5. ASSUME ~low
      PROVE  Gap(v, x) <= R /\ x <= L /\ (~sc.executeHold => x = L)
  <2>1. Starts(N, sc, p) = v
    BY <1>2 DEF Starts, Underway
  <2>2. Braked(N, c, v)
    BY <1>0, <1>1, <1>5, <2>1 DEF Slow
  <2>3. L \in Nat
    BY <1>0, <1>2, <2>2, ExitLimit
  <2>4. v <= L + R
    BY <1>1, <1>2, <2>2 DEF Braked, Enters
  <2>5. CASE sc.executeHold
    <3>1. v = x + (R - 0)
      BY <1>0, <1>2, <2>5 DEF Prepared
    <3> QED
      BY <1>3, <2>3, <2>4, <2>5, <3>1 DEF Gap
  <2>6. CASE ~sc.executeHold
    <3>1. x = L /\ Driven(N, c, v)
      BY <1>0, <1>1, <1>2, <1>5, <2>1, <2>6 DEF Fast
    <3>2. L <= v + R
      BY <1>1, <1>2, <3>1 DEF Driven, Enters
    <3> QED
      BY <1>3, <2>3, <2>4, <3>1, <3>2 DEF Gap
  <2> QED
    BY <2>5, <2>6
<1> QED
  BY <1>2, <1>4, <1>5 DEF Ends

\* A view without its first block.
Shifted(N, B) == \A k \in Slots : B[k] = IF k + 1 \in Slots THEN N[k + 1] ELSE NoBlock

\* The stepper is between blocks.
BetweenBlocks(p, p2) == /\ p2 \in Preps /\ ~p2.loaded /\ ~p2.recalculate
                   /\ p2.speed = p.exit /\ p2.exit = p.exit

LEMMA FinishedPlan ==
    ASSUME NEW N \in Views, NEW c \in 2 .. BLOCK_BUFFER_SIZE - 1, NEW q \in 0 .. c - 1, NEW w,
           NEW o \in Nat, NEW pn, NEW sc, NEW p \in Preps, NEW low, Planning(N, c, q, w, o, pn, sc, p, low),
           p.loaded, p.complete = 0, ~sc.endMotion, NEW p2, BetweenBlocks(p, p2), NEW now, ~now => ~low,
           NEW B \in Views, Shifted(N, B), NEW x, x = IF q = 0 THEN 0 ELSE q - 1
    PROVE  \E z : Planning(B, c - 1, x, z, o, pn, sc, p2, now)
<1> DEFINE z == [k \in 0 .. c - 1 |-> w[k + 1]]
<1>0. /\ Free(N, c) /\ Prepared(N, c, sc, p) /\ Limited(N, c, o, pn)
      /\ Distances(N, c, w) /\ Stops(N, c, w, p)
      /\ ~low => Slow(N, c, o, sc, p)
      /\ ~low /\ ~sc.executeHold => Fast(N, c, q, sc, p)
  BY Zenon DEF Planning, Steady
<1>1. /\ c \in Nat /\ c > 0 /\ c - 1 > 0 /\ c - 1 \in Nat /\ (c - 1) - 1 \in Slots /\ ((c - 1) - 1) + 1 = c - 1
      /\ c - 1 \in Slots /\ c \in 1 .. BLOCK_BUFFER_SIZE - 1 /\ 0 \in 0 .. c - 1 /\ 1 \in 0 .. c - 1 /\ 0 \in Slots
      /\ 1 \in Slots /\ 1 \in 1 .. c - 1 /\ 0 # c - 1 /\ 1 - 1 = 0 /\ 0 + 1 = 1
      /\ \A k \in 0 .. (c - 1) - 1 : /\ k \in Slots /\ k + 1 \in Slots /\ k + 1 \in 0 .. c - 1 /\ k \in 0 .. c - 1
                                     /\ k + 1 # 0 /\ (k = (c - 1) - 1 <=> k + 1 = c - 1)
                                     /\ (k # (c - 1) - 1 => k + 1 \in 0 .. (c - 1) - 1)
      /\ \A k \in 1 .. (c - 1) - 1 : /\ k \in 0 .. (c - 1) - 1 /\ k + 1 \in 1 .. c - 1 /\ k - 1 \in 0 .. (c - 1) - 1
                                     /\ (k + 1) - 1 = k /\ (k - 1) + 1 = k /\ k # 0
  BY RingAssumption DEF Slots
<1>2. /\ p2 \in Preps /\ ~p2.loaded /\ ~p2.recalculate /\ ~Underway(p2)
      /\ p2.speed = p.exit /\ p2.exit = p.exit
  BY DEF BetweenBlocks, Underway
<1>3. \A k \in 0 .. (c - 1) - 1 : B[k] = N[k + 1]
  BY <1>1 DEF Shifted
<1>4. Ends(N, c, w, sc, p, low)
  BY <1>1, FinishedSpeed
<1>5. Free(B, c - 1)
  <2>1. ASSUME NEW k \in Slots, k >= c - 1
        PROVE  B[k].entry = 0 /\ B[k].max_entry = 0
    <3>1. CASE k + 1 \in Slots
      <4>1. B[k] = N[k + 1] /\ k + 1 >= c
        BY <1>1, <2>1, <3>1 DEF Shifted, Slots
      <4> QED
        BY <1>0, <3>1, <4>1 DEF Free
    <3>2. CASE k + 1 \notin Slots
      BY <3>2 DEF Shifted, NoBlock
    <3> QED
      BY <3>1, <3>2
  <2> QED
    BY <2>1 DEF Free
<1>6. ASSUME NEW k \in 0 .. (c - 1) - 1, NEW u
      PROVE  NominalOf(B, k, u) = NominalOf(N, k + 1, u)
  BY <1>3 DEF NominalOf
<1>7. Limited(B, c - 1, o, pn)
  <2>1. pn = NominalOf(B, (c - 1) - 1, o)
    BY <1>0, <1>1, <1>3 DEF Limited, NominalOf
  <2>2. ASSUME NEW k \in 1 .. (c - 1) - 1
        PROVE  B[k].max_entry = Lesser(Sq(Lesser(NominalOf(B, k, o), NominalOf(B, k - 1, o))), B[k].junction)
    <3>1. B[k] = N[k + 1]
      BY <1>1, <1>3
    <3>2. NominalOf(B, k, o) = NominalOf(N, k + 1, o) /\ NominalOf(B, k - 1, o) = NominalOf(N, (k + 1) - 1, o)
      BY <1>1, <1>6
    <3>3. N[k + 1].max_entry = Lesser(Sq(Lesser(NominalOf(N, k + 1, o), NominalOf(N, (k + 1) - 1, o))),
                                      N[k + 1].junction)
      BY <1>0, <1>1 DEF Limited
    <3> QED
      BY <3>1, <3>2, <3>3
  <2>3. \A k \in 0 .. (c - 1) - 1 : B[k].reach > 0
    BY <1>0, <1>1, <1>3 DEF Limited
  <2> QED
    BY <2>1, <2>2, <2>3 DEF Limited
<1>8. Prepared(B, c - 1, sc, p2)
  BY <1>1, <1>2 DEF Prepared
<1>9. z \in [0 .. c - 1 -> Nat] /\ \A k \in 0 .. c - 1 : z[k] = w[k + 1]
  BY <1>0, <1>1 DEF Distances
<1> HIDE DEF z
<1>10. Distances(B, c - 1, z)
  <2>1. ASSUME NEW k \in 0 .. (c - 1) - 1
        PROVE  z[k] = z[k + 1] + B[k].reach
    <3>1. z[k] = w[k + 1] /\ z[k + 1] = w[(k + 1) + 1] /\ B[k] = N[k + 1]
      BY <1>1, <1>3, <1>9
    <3>2. w[k + 1] = w[(k + 1) + 1] + N[k + 1].reach
      BY <1>0, <1>1 DEF Distances
    <3> QED
      BY <3>1, <3>2
  <2>2. z[c - 1] = 0
    BY <1>0, <1>1, <1>9 DEF Distances
  <2> QED
    BY <1>9, <2>1, <2>2 DEF Distances
<1>11. Stops(B, c - 1, z, p2)
  <2>1. ASSUME NEW k \in 0 .. (c - 1) - 1
        PROVE  B[k].entry <= z[k]
    <3>1. N[k + 1].entry <= w[k + 1]
      BY <1>0, <1>1 DEF Stops
    <3> QED
      BY <1>1, <1>3, <1>9, <3>1
  <2>2. p.exit <= z[0]
    BY <1>1, <1>4, <1>9 DEF Ends
  <2> QED
    BY <1>2, <2>1, <2>2 DEF Stops
<1>12. ASSUME ~now
       PROVE  Slow(B, c - 1, o, sc, p2) /\ (~sc.executeHold => Fast(B, c - 1, x, sc, p2))
  <2>1. PICK v, s, L : v = Starts(N, sc, p) /\ s = Starts(B, sc, p2) /\ L = N[1].entry
    OBVIOUS
  <2>2. Braked(N, c, v) /\ (~sc.executeHold => Driven(N, c, v) /\ Tight(N, c, v, q))
    BY <1>0, <1>1, <1>12, <2>1 DEF Slow, Fast
  <2>3. B[0] = N[1] /\ Leaves(N, c, 0) = L /\ L \in Nat /\ p.exit \in Nat
    BY <1>1, <1>3, <2>1, ViewTypes DEF Leaves, Preps
  <2>4. p.exit <= L /\ (~sc.executeHold => p.exit = L)
    BY <1>4, <1>12, <2>3 DEF Ends
  <2>5. s <= L /\ (~sc.executeHold => s = L) /\ s \in Nat
    BY <1>2, <2>1, <2>3, <2>4 DEF Starts
  <2>6. Braked(B, c - 1, s)
    <3>1. ASSUME NEW k \in 0 .. (c - 1) - 1
          PROVE  Enters(B, s, k) <= Leaves(B, c - 1, k) + B[k].reach
      <4>1. Enters(N, v, k + 1) <= Leaves(N, c, k + 1) + N[k + 1].reach
        BY <1>1, <2>2 DEF Braked
      <4>2. Leaves(B, c - 1, k) = Leaves(N, c, k + 1) /\ Leaves(N, c, k + 1) \in Nat
        <5>1. CASE k = (c - 1) - 1
          BY <1>1, <5>1 DEF Leaves
        <5>2. CASE k # (c - 1) - 1
          <6>1. B[k + 1] = N[(k + 1) + 1] /\ k + 1 # c - 1 /\ (k + 1) + 1 \in Slots
            BY <1>1, <1>3, <5>2
          <6> QED
            BY <5>2, <6>1, ViewTypes DEF Leaves
        <5> QED
          BY <5>1, <5>2
      <4>3. N[k + 1].reach \in Nat /\ B[k] = N[k + 1]
        BY <1>1, <1>3, ViewTypes
      <4>4. Enters(N, v, k + 1) = N[k + 1].entry /\ N[k + 1].entry \in Nat
        BY <1>1, ViewTypes DEF Enters
      <4>5. Enters(B, s, k) <= N[k + 1].entry /\ Enters(B, s, k) \in Nat
        BY <2>1, <2>5, <4>3, <4>4 DEF Enters
      <4> QED
        BY <4>1, <4>2, <4>3, <4>4, <4>5
    <3>2. ASSUME NEW k \in 1 .. (c - 1) - 1
          PROVE  B[k].entry <= B[k].max_entry
      BY <1>1, <1>3, <2>2 DEF Braked
    <3> QED
      BY <3>1, <3>2 DEF Braked
  <2>7. s <= Sq(NominalOf(B, 0, o))
    <3>1. PICK v1, v0, u : v1 = NominalOf(N, 1, o) /\ v0 = NominalOf(N, 0, o) /\ u = Lesser(v1, v0)
      OBVIOUS
    <3>2. v1 \in Nat /\ v0 \in Nat /\ u \in Nat /\ u <= v1
      BY <1>1, <3>1, NominalNat DEF Lesser
    <3>3. Sq(u) \in Nat /\ Sq(v1) \in Nat /\ Sq(u) <= Sq(v1)
      BY <3>2, SquareRises, Square
    <3>4. N[1].max_entry = Lesser(Sq(u), N[1].junction) /\ L <= N[1].max_entry
      BY <1>0, <1>1, <2>1, <2>2, <3>1 DEF Limited, Braked
    <3>5. N[1].junction \in Nat
      BY <1>1, ViewTypes
    <3>6. L <= Sq(v1)
      BY <2>3, <3>3, <3>4, <3>5 DEF Lesser
    <3>7. NominalOf(B, 0, o) = v1
      BY <2>3, <3>1 DEF NominalOf
    <3> QED
      BY <2>3, <2>5, <3>3, <3>6, <3>7
  <2>8. Slow(B, c - 1, o, sc, p2)
    BY <1>2, <2>1, <2>3, <2>4, <2>6, <2>7 DEF Slow
  <2>9. ASSUME ~sc.executeHold
        PROVE  Fast(B, c - 1, x, sc, p2)
    <3>1. ASSUME NEW k \in 0 .. (c - 1) - 1
          PROVE  Enters(B, s, k) = Enters(N, v, k + 1) /\ Leaves(B, c - 1, k) = Leaves(N, c, k + 1)
                 /\ B[k] = N[k + 1]
      <4>1. B[k] = N[k + 1]
        BY <1>3
      <4>2. Enters(B, s, k) = Enters(N, v, k + 1)
        BY <1>1, <2>1, <2>5, <2>9, <4>1 DEF Enters
      <4>3. Leaves(B, c - 1, k) = Leaves(N, c, k + 1)
        <5>1. k # (c - 1) - 1 => B[k + 1] = N[(k + 1) + 1]
          BY <1>1, <1>3
        <5> QED
          BY <1>1, <5>1 DEF Leaves
      <4> QED
        BY <4>1, <4>2, <4>3
    <3>2. Driven(B, c - 1, s)
      <4>1. ASSUME NEW k \in 0 .. (c - 1) - 1
            PROVE  Leaves(B, c - 1, k) <= Enters(B, s, k) + B[k].reach
        <5>1. Leaves(N, c, k + 1) <= Enters(N, v, k + 1) + N[k + 1].reach
          BY <1>1, <2>2, <2>9 DEF Driven
        <5> QED
          BY <3>1, <5>1
      <4> QED
        BY <4>1 DEF Driven
    <3>3. ASSUME NEW k \in 1 .. (c - 1) - 1, Pressed(N, v, k + 1)
          PROVE  Pressed(B, s, k)
      <4>1. B[k] = N[k + 1] /\ B[k - 1] = N[(k + 1) - 1] /\ Enters(B, s, k - 1) = Enters(N, v, (k + 1) - 1)
        BY <1>1, <3>1
      <4> QED
        BY <3>3, <4>1 DEF Pressed
    <3>4. Tight(B, c - 1, s, x)
      <4>1. ASSUME NEW k \in 1 .. (c - 1) - 1
            PROVE  Pressed(B, s, k) \/ B[k].entry = Leaves(B, c - 1, k) + B[k].reach
        <5>1. Pressed(N, v, k + 1) \/ N[k + 1].entry = Leaves(N, c, k + 1) + N[k + 1].reach
          BY <1>1, <2>2, <2>9 DEF Tight
        <5>2. B[k] = N[k + 1] /\ Leaves(B, c - 1, k) = Leaves(N, c, k + 1)
          BY <1>1, <3>1
        <5> QED
          BY <3>3, <5>1, <5>2
      <4>2. x >= 1 => Pressed(B, s, x)
        <5>1. x >= 1 => x \in 1 .. (c - 1) - 1 /\ x + 1 = q /\ q >= 1
          BY <1>1
        <5> QED
          BY <2>2, <2>9, <3>3, <5>1 DEF Tight
      <4> QED
        BY <4>1, <4>2 DEF Tight
    <3> QED
      BY <1>2, <2>1, <2>3, <2>4, <2>9, <3>2, <3>4 DEF Fast
  <2> QED
    BY <2>8, <2>9
<1>13. Planning(B, c - 1, x, z, o, pn, sc, p2, now)
  BY <1>5, <1>7, <1>8, <1>10, <1>11, <1>12 DEF Planning, Steady
<1> QED
  BY <1>13


\* The queue without its first block.
LEMMA ShiftedView ==
    ASSUME NEW b \in Buffers, NEW t \in Slots, NEW N \in Views, Seen(b, t, N),
           NEW d, TailSet(b, d, t, NoBlock)
    PROVE  \E B \in Views : Shifted(N, B) /\ Seen(d, Ahead(t, 1), B)
<1> DEFINE B == [k \in Slots |-> IF k + 1 \in Slots THEN N[k + 1] ELSE NoBlock]
<1>1. /\ 0 \in Slots /\ 1 \in Slots /\ Ahead(t, 0) = t /\ 1 - 1 = 0 /\ 1 <= 1
      /\ BLOCK_BUFFER_SIZE - 1 \in Slots /\ BLOCK_BUFFER_SIZE - 1 \in Nat
      /\ \A k \in Slots : /\ k + 1 \in Slots => 1 + k = k + 1 /\ 1 + k < BLOCK_BUFFER_SIZE /\ k + 1 # 0
                          /\ k + 1 \notin Slots => k = BLOCK_BUFFER_SIZE - 1
  BY RingAssumption, AheadNone DEF Slots
<1>2. NoBlock \in Blocks /\ \A k \in Slots : N[k] \in Blocks
  BY ViewTypes DEF NoBlock, Blocks
<1>3. B \in Views /\ Shifted(N, B)
  BY <1>2 DEF Views, Shifted
<1> HIDE DEF B
<1>4. \A k \in Slots : d[Ahead(t, k)] = IF k = 0 THEN NoBlock ELSE N[k]
  <2> SUFFICES ASSUME NEW k \in Slots
               PROVE  d[Ahead(t, k)] = IF k = 0 THEN NoBlock ELSE N[k]
    OBVIOUS
  <2>1. Ahead(t, k) \in Slots /\ (Ahead(t, k) = Ahead(t, 0) => k = 0)
    <3>1. \A j \in Slots : Ahead(t, k) \in Slots /\ (Ahead(t, k) = Ahead(t, j) => k = j)
      BY AheadAhead
    <3> QED
      BY <1>1, <3>1
  <2>2. d[Ahead(t, k)] = IF Ahead(t, k) = t THEN NoBlock ELSE b[Ahead(t, k)]
    BY <2>1 DEF Buffers, TailSet
  <2>3. b[Ahead(t, k)] = N[k]
    BY DEF Seen
  <2> QED
    BY <1>1, <2>1, <2>2, <2>3
<1>5. ASSUME NEW k \in Slots
      PROVE  d[Ahead(Ahead(t, 1), k)] = B[k]
  <2>1. CASE k + 1 \in Slots
    <3>1. Ahead(Ahead(t, 1), k) = Ahead(t, k + 1)
      BY <1>1, <2>1, AheadAhead
    <3>2. B[k] = N[k + 1] /\ k + 1 # 0
      BY <1>1, <1>3, <2>1 DEF Shifted
    <3> QED
      BY <1>4, <2>1, <3>1, <3>2
  <2>2. CASE k + 1 \notin Slots
    <3>1. Ahead(Ahead(t, 1), BLOCK_BUFFER_SIZE - 1) = Ahead(t, 0)
      BY <1>1, AheadAhead
    <3>2. B[k] = NoBlock /\ k = BLOCK_BUFFER_SIZE - 1
      BY <1>1, <1>3, <2>2 DEF Shifted
    <3> QED
      BY <1>1, <1>4, <3>1, <3>2
  <2> QED
    BY <2>1, <2>2
<1>6. Seen(d, Ahead(t, 1), B)
  BY <1>5, Zenon DEF Seen
<1> QED
  BY <1>3, <1>6

\* The planned pointer after the block at the tail has left.
LEMMA PointerAfter ==
    ASSUME NEW t \in Slots, NEW q \in Slots, NEW n, n = Ahead(t, 1)
    PROVE  /\ (IF t = Ahead(t, q) THEN n ELSE Ahead(t, q)) = Ahead(n, IF q = 0 THEN 0 ELSE q - 1)
           /\ \A c \in 1 .. BLOCK_BUFFER_SIZE - 1 : Ahead(t, c) = Ahead(n, c - 1)
<1>1. /\ 0 \in Slots /\ 1 \in Slots /\ Ahead(t, 0) = t /\ BLOCK_BUFFER_SIZE \in Nat
      /\ \A c \in 1 .. BLOCK_BUFFER_SIZE - 1 : /\ c - 1 \in Slots /\ 1 + (c - 1) < BLOCK_BUFFER_SIZE
                                               /\ 1 + (c - 1) = c
      /\ q # 0 => q \in 1 .. BLOCK_BUFFER_SIZE - 1
  BY RingAssumption, AheadNone DEF Slots
<1>2. n \in Slots
  BY <1>1, AheadAhead
<1>3. Ahead(n, 0) = n
  BY <1>2, AheadNone
<1>4. ASSUME NEW c \in 1 .. BLOCK_BUFFER_SIZE - 1
      PROVE  Ahead(t, c) = Ahead(n, c - 1)
  <2>1. Ahead(Ahead(t, 1), c - 1) = Ahead(t, 1 + (c - 1))
    BY <1>1, AheadAhead
  <2> QED
    BY <1>1, <2>1
<1>5. t = Ahead(t, q) <=> q = 0
  <2>1. \A j \in Slots : Ahead(t, j) = Ahead(t, q) => j = q
    BY AheadAhead
  <2> QED
    BY <1>1, <2>1
<1> QED
  BY <1>1, <1>3, <1>4, <1>5

\* The last queued block has been executed: the machine stands still.
LEMMA FinishedAll ==
    ASSUME NEW N \in Views, NEW q \in 0 .. 0, NEW w, NEW o \in Nat, NEW pn, NEW sc, NEW p \in Preps, NEW low,
           Planning(N, 1, q, w, o, pn, sc, p, low), p.loaded, p.complete = 0, NEW B \in Views, Shifted(N, B)
    PROVE  /\ p.exit = 0 /\ Ends(N, 1, w, sc, p, low)
           /\ \A k \in Slots : B[k].entry = 0 /\ B[k].max_entry = 0
<1>1. 1 \in 1 .. BLOCK_BUFFER_SIZE - 1 /\ q \in 0 .. 1 - 1
  BY RingAssumption
<1>2. Ends(N, 1, w, sc, p, low)
  BY <1>1, FinishedSpeed
<1>3. Free(N, 1) /\ Distances(N, 1, w)
  BY Zenon DEF Planning, Steady
<1>4. p.exit = 0
  BY <1>2, <1>3 DEF Ends, Distances, Preps
<1>5. ASSUME NEW k \in Slots
      PROVE  B[k].entry = 0 /\ B[k].max_entry = 0
  <2>1. CASE k + 1 \in Slots
    <3>1. B[k] = N[k + 1] /\ k + 1 >= 1
      BY <2>1, RingAssumption DEF Shifted, Slots
    <3> QED
      BY <1>3, <2>1, <3>1 DEF Free
  <2>2. CASE k + 1 \notin Slots
    BY <2>2 DEF Shifted, NoBlock
  <2> QED
    BY <2>1, <2>2
<1> QED
  BY <1>2, <1>4, <1>5


LEMMA FinishPlan ==
    ASSUME PlanInv, FinishBlock
    PROVE  /\ PlanInv' /\ block_buffer_tail' # block_buffer_tail
           /\ lowered \/ Gap(prep.speed, prep'.speed) <= block_buffer[block_buffer_tail].reach
<1>1. /\ ~step_control.endMotion /\ prep.loaded /\ prep.complete = 0
      /\ prep' = [prep EXCEPT !.loaded = FALSE, !.speed = prep.exit]
      /\ block_buffer' = [block_buffer EXCEPT ![block_buffer_tail] = NoBlock]
      /\ block_buffer_tail' = plan_next_block_index(block_buffer_tail)
      /\ block_buffer_planned' = (IF block_buffer_tail = block_buffer_planned
                                  THEN plan_next_block_index(block_buffer_tail) ELSE block_buffer_planned)
      /\ lowered' = (lowered /\ block_buffer_tail' # block_buffer_head)
      /\ UNCHANGED <<block_buffer_head, previous_nominal, f_override, step_control>>
  BY DEF FinishBlock, PlannedAfterDiscard
<1>2. PlannerTypes'
  BY FinishTypes DEF PlanInv
<1>3. /\ block_buffer \in Buffers /\ block_buffer_tail \in Slots /\ block_buffer_head \in Slots /\ prep \in Preps
      /\ f_override \in Nat /\ RingInv
      /\ block_buffer' \in Buffers /\ prep' \in Preps
  BY <1>2, PlanTypes, DataAssumption DEF PlanInv, PlannerTypes
<1>4. block_buffer_head # block_buffer_tail
  BY <1>1, <1>3 DEF RingInv, Empty
<1>5. PICK N \in Views, c \in 1 .. BLOCK_BUFFER_SIZE - 1, q \in Slots : \E w : Queueing(N, c, q, w)
  BY <1>4, QueueIsPlanned
<1>6. PICK w : Queueing(N, c, q, w)
  BY <1>5, Zenon
<1>7. /\ Seen(block_buffer, block_buffer_tail, N) /\ block_buffer_head = Ahead(block_buffer_tail, c)
      /\ q \in 0 .. c - 1 /\ block_buffer_planned = Ahead(block_buffer_tail, q)
      /\ Planning(N, c, q, w, f_override, previous_nominal, step_control, prep, lowered)
  BY <1>6, Zenon DEF Queueing
<1>8. PICK t, p, d, p2, n, x : /\ t = block_buffer_tail /\ p = prep /\ d = block_buffer' /\ p2 = prep'
                               /\ n = Ahead(block_buffer_tail, 1) /\ x = IF q = 0 THEN 0 ELSE q - 1
  OBVIOUS
<1>9. PICK now \in BOOLEAN : now = lowered'
  <2>1. lowered' \in BOOLEAN
    BY <1>1
  <2> QED
    BY <2>1
<1>10. ~now => ~lowered \/ block_buffer_tail' = block_buffer_head
  BY <1>1, <1>9, Zenon
<1>11. t \in Slots /\ p \in Preps /\ p2 \in Preps /\ d \in Buffers /\ n \in Slots /\ 1 \in Slots
       /\ 0 \in Slots /\ Ahead(t, 0) = t
  <2>1. 1 \in Slots
    BY RingAssumption DEF Slots
  <2> QED
    BY <1>3, <1>8, <2>1, AheadAhead, AheadNone
<1>12. plan_next_block_index(t) = n /\ n # t
  <2>1. 0 + 1 \in Slots /\ 0 + 1 = 1
    BY <1>11
  <2>2. plan_next_block_index(Ahead(t, 0)) = Ahead(t, 0 + 1)
    BY <1>11, <2>1, NextAhead
  <2>3. Ahead(t, 1) = Ahead(t, 0) => 1 = 0
    <3>1. \A j \in Slots : Ahead(t, 1) = Ahead(t, j) => 1 = j
      BY <1>11, AheadAhead
    <3> QED
      BY <1>11, <3>1
  <2> QED
    BY <1>8, <1>11, <2>1, <2>2, <2>3
<1>13. block_buffer_tail' = n
  BY <1>1, <1>8, <1>12
<1>14. block_buffer_planned' = Ahead(n, x) /\ block_buffer_head = Ahead(n, c - 1)
  <2>1. /\ (IF t = Ahead(t, q) THEN n ELSE Ahead(t, q)) = Ahead(n, IF q = 0 THEN 0 ELSE q - 1)
        /\ \A k \in 1 .. BLOCK_BUFFER_SIZE - 1 : Ahead(t, k) = Ahead(n, k - 1)
    BY <1>8, <1>11, PointerAfter
  <2> QED
    BY <1>1, <1>7, <1>8, <1>12, <2>1
<1>15. PICK B \in Views : Shifted(N, B) /\ Seen(d, n, B)
  <2>1. TailSet(block_buffer, d, t, NoBlock)
    BY <1>1, <1>8 DEF TailSet
  <2> QED
    BY <1>3, <1>7, <1>8, <2>1, ShiftedView
<1>16. BetweenBlocks(p, p2)
  <2>1. ~p.recalculate
    BY <1>1, <1>7, <1>8 DEF Planning, Steady, Prepared
  <2> QED
    BY <1>1, <1>3, <1>8, <1>11, <2>1 DEF BetweenBlocks, Preps
<1>17. p.loaded /\ p.complete = 0 /\ ~step_control.endMotion
       /\ Planning(N, c, q, w, f_override, previous_nominal, step_control, p, lowered)
  BY <1>1, <1>7, <1>8
<1>18. Ends(N, c, w, step_control, p, lowered)
  BY <1>3, <1>7, <1>11, <1>17, FinishedSpeed
<1>19. lowered \/ Gap(prep.speed, prep'.speed) <= block_buffer[block_buffer_tail].reach
  <2>1. N[0] = block_buffer[t]
    BY <1>7, <1>8, <1>11 DEF Seen
  <2>2. p2.speed = p.exit
    BY <1>16 DEF BetweenBlocks
  <2> QED
    BY <1>8, <1>18, <2>1, <2>2 DEF Ends
<1>20. PlanOf(d, n, block_buffer_head, Ahead(n, x), previous_nominal, f_override, step_control, p2, now)
  <2>1. CASE c = 1
    <3>1. q = 0 /\ q \in 0 .. 0 /\ x = 0 /\ c - 1 = 0
      BY <1>7, <1>8, <2>1
    <3>2. p.exit = 0 /\ \A k \in Slots : B[k].entry = 0 /\ B[k].max_entry = 0
      <4>1. Planning(N, 1, q, w, f_override, previous_nominal, step_control, p, lowered)
        BY <1>17, <2>1
      <4> QED
        BY <1>3, <1>11, <1>15, <1>17, <3>1, <4>1, FinishedAll
    <3>3. \A i \in Slots : d[i].entry = 0 /\ d[i].max_entry = 0
      <4> SUFFICES ASSUME NEW i \in Slots
                   PROVE  d[i].entry = 0 /\ d[i].max_entry = 0
        OBVIOUS
      <4>1. PICK k \in Slots : i = Ahead(n, k)
        BY <1>11, SlotAhead
      <4> QED
        BY <1>15, <3>2, <4>1 DEF Seen
    <3>4. ~Underway(p2) /\ p2.speed = 0 /\ p2.exit = 0
      BY <1>16, <3>2 DEF BetweenBlocks, Underway
    <3>5. PICK pl : pl = Ahead(n, 0)
      OBVIOUS
    <3>6. PlanOf(d, n, n, pl, previous_nominal, f_override, step_control, p2, now)
      BY <1>11, <1>17, <3>3, <3>4, <3>5, EmptyPlan
    <3>7. block_buffer_head = n
      BY <1>11, <1>14, <3>1, AheadNone
    <3> QED
      BY <3>1, <3>5, <3>6, <3>7
  <2>2. CASE c # 1
    <3>1. /\ c \in 2 .. BLOCK_BUFFER_SIZE - 1 /\ c - 1 \in 1 .. BLOCK_BUFFER_SIZE - 1 /\ x \in 0 .. (c - 1) - 1
          /\ c - 1 \in Slots /\ c - 1 # 0
      BY <1>7, <1>8, <2>2, RingAssumption DEF Slots
    <3>2. n # block_buffer_head
      <4>1. \A j \in Slots : Ahead(n, c - 1) = Ahead(n, j) => c - 1 = j
        BY <1>11, <3>1, AheadAhead
      <4>2. Ahead(n, 0) = n
        BY <1>11, AheadNone
      <4> QED
        BY <1>11, <1>14, <3>1, <4>1, <4>2
    <3>3. ~now => ~lowered
      BY <1>10, <1>13, <3>2
    <3>4. \E z : Planning(B, c - 1, x, z, f_override, previous_nominal, step_control, p2, now)
      BY <1>3, <1>7, <1>8, <1>11, <1>15, <1>16, <1>17, <3>1, <3>3, FinishedPlan
    <3>5. PICK z : Planning(B, c - 1, x, z, f_override, previous_nominal, step_control, p2, now)
      BY <3>4
    <3> QED
      BY <1>11, <1>14, <1>15, <3>1, <3>5, APlan
  <2> QED
    BY <2>1, <2>2
<1>21. PlanOf(block_buffer', block_buffer_tail', block_buffer_head', block_buffer_planned', previous_nominal',
              f_override', step_control', prep', lowered')
  BY <1>1, <1>8, <1>9, <1>13, <1>14, <1>20
<1> QED
  BY <1>2, <1>8, <1>12, <1>13, <1>19, <1>21 DEF PlanInv


-----------------------------------------------------------------------------
(* The plan is kept by every step, and the speed is continuous.              *)

\* No step but a reset changes the speed by more than the distance covered allows.
Smooth ==
    \/ prep'.speed = prep.speed
    \/ lowered
    \/ prep' = IdlePrep
    \/ LET covered == IF block_buffer_tail' = block_buffer_tail
                      THEN block_buffer[block_buffer_tail].reach
                           - block_buffer'[block_buffer_tail].reach
                      ELSE block_buffer[block_buffer_tail].reach
       IN  Gap(prep.speed, prep'.speed) <= covered

LEMMA NextPlan ==
    ASSUME PlanInv, [Next]_vars
    PROVE  PlanInv' /\ (Smooth \/ UNCHANGED vars)
<1>0. PlannerTypes
  BY DEF PlanInv
<1>1. ASSUME NEW m \in Motions, NEW v \in Rates, NEW r \in Reaches, NEW j \in Junctions,
             BufferLine(m, v, r, j)
      PROVE  PlanInv' /\ Smooth
  BY <1>0, <1>1, BufferLinePlan, BufferLineTypes DEF Smooth
<1>2. ASSUME NEW r \in SystemReaches, BufferSystemMotion(r)
      PROVE  PlanInv' /\ Smooth
  BY <1>0, <1>2, SystemMotionPlan, SystemMotionTypes DEF Smooth
<1>3. ASSUME NEW o \in FeedOverrides, ExecuteOverrides(o)
      PROVE  PlanInv' /\ Smooth
  BY <1>0, <1>3, OverridesPlan, OverridesTypes DEF Smooth
<1>4. CASE StartHolding
  BY <1>0, <1>4, HoldingPlan, HoldingTypes DEF Smooth
<1>5. CASE HoldComplete
  BY <1>0, <1>5, HoldCompletePlan, HoldCompleteTypes DEF Smooth
<1>6. CASE InitiateCycle
  BY <1>0, <1>6, InitiatePlan, InitiateTypes DEF Smooth
<1>7. ASSUME NEW o \in {f_override, DefaultFeedOverride}, Reset(o)
      PROVE  PlanInv' /\ Smooth
  <2>1. prep' = IdlePrep
    BY <1>7 DEF Reset
  <2> QED
    BY <1>7, <2>1, ResetPlan DEF Smooth
<1>8. CASE LoadBlock
  BY <1>8, LoadPlan DEF Smooth
<1>9. CASE AdvanceBlock
  BY <1>9, AdvancePlan DEF Smooth
<1>10. CASE FinishBlock
  BY <1>10, FinishPlan DEF Smooth
<1>11. CASE UNCHANGED vars
  <2>1. /\ UNCHANGED <<block_buffer, block_buffer_tail, block_buffer_head, block_buffer_planned, previous_nominal,
                       f_override, step_control, prep, lowered>>
    BY <1>11 DEF vars, ring
  <2>2. PlannerTypes'
    BY <1>0, <1>11, NextRing DEF vars, ring, PlannerTypes
  <2> QED
    BY <1>11, <2>1, <2>2 DEF PlanInv
<1> QED
  BY <1>1, <1>2, <1>3, <1>4, <1>5, <1>6, <1>7, <1>8, <1>9, <1>10, <1>11 DEF Next

\* At every step the entry speeds in the ring of plan_buffer_line and planner_recalculate,
\* the planned pointer and the profile of Stepper::prep_buffer agree (PlanInv).
THEOREM PlanAlwaysHolds == Spec => []PlanInv
<1>1. Init => PlanInv
  BY InitPlan
<1>2. PlanInv /\ [Next]_vars => PlanInv'
  BY NextPlan
<1> QED
  BY <1>1, <1>2, PTL DEF Spec

\* The speed changes only by what the distance covered allows: never by a replanning
\* (plan_cycle_reinitialize), at a block boundary (plan_discard_current_block), or when
\* the stepper takes up a profile (Stepper::prep_buffer).
THEOREM SpeedAlwaysContinuous == Spec => SpeedContinuous
<1>1. PlanInv /\ [Next]_vars => [Smooth]_vars
  BY NextPlan
<1>2. [Smooth]_vars =>
        [ prep'.speed = prep.speed
          \/ lowered
          \/ prep' = IdlePrep
          \/ LET covered == IF block_buffer_tail' = block_buffer_tail
                            THEN block_buffer[block_buffer_tail].reach
                                 - block_buffer'[block_buffer_tail].reach
                            ELSE block_buffer[block_buffer_tail].reach
             IN  Gap(prep.speed, prep'.speed) <= covered ]_vars
  BY DEF Smooth
<1> QED
  BY <1>1, <1>2, PlanAlwaysHolds, PTL DEF Spec, SpeedContinuous


-----------------------------------------------------------------------------
(* The plan is optimal.                                                      *)

\* Reaches of queued blocks add up.
LEMMA BetweenSums ==
    ASSUME NEW i \in Nat, NEW j \in Nat, i <= j, NEW s \in [i .. j -> Nat], s[i] = 0,
           \A k \in i + 1 .. j : s[k] = s[k - 1] + Nth(k - 1).reach
    PROVE  Between(i, j) = s[j]
<1> DEFINE reach(k) == Nth(k - 1).reach
           F(f) == f = [k \in i .. j |-> IF k = i THEN 0 ELSE f[k - 1] + reach(k)]
<1>1. F(s)
  <2>1. \A k \in i .. j : k # i => k \in i + 1 .. j
    OBVIOUS
  <2> QED
    BY <2>1
<1>2. PICK f : f = CHOOSE x : F(x)
  OBVIOUS
<1>3. Between(i, j) = f[j]
  BY <1>2 DEF Between
<1> HIDE DEF F
<1>4. F(f)
  BY <1>1, <1>2
<1> USE DEF F
<1> HIDE DEF reach
<1>5. /\ f[i] = 0
      /\ \A k \in i + 1 .. j : f[k] = f[k - 1] + reach(k)
  <2>1. i \in i .. j /\ \A k \in i + 1 .. j : k \in i .. j /\ k # i
    OBVIOUS
  <2> QED
    BY <1>4, <2>1
<1>6. \A k \in i + 1 .. j : s[k] = s[k - 1] + reach(k)
  BY DEF reach
<1> HIDE DEF F
<1> DEFINE S == {k \in 0 .. j - i : f[i + k] = s[i + k]}
<1>7. 0 .. j - i \subseteq S
  <2>1. j - i \in Nat /\ 0 \in 0 .. j - i /\ i + 0 = i
    OBVIOUS
  <2>2. 0 \in S
    BY <1>5, <2>1
  <2>3. ASSUME NEW k \in 1 .. j - i, k - 1 \in S
        PROVE  k \in S
    <3>1. /\ i + k \in i + 1 .. j /\ (i + k) - 1 = i + (k - 1) /\ k \in 0 .. j - i
      BY <2>1
    <3>2. f[i + (k - 1)] = s[i + (k - 1)]
      BY <2>3
    <3>3. f[i + k] = f[(i + k) - 1] + reach(i + k) /\ s[i + k] = s[(i + k) - 1] + reach(i + k)
      BY <1>5, <1>6, <3>1
    <3> QED
      BY <3>1, <3>2, <3>3
  <2> HIDE DEF S
  <2> QED
    BY <2>1, <2>2, <2>3, BoundedInduction
<1>8. f[j] = s[j]
  <2>1. j - i \in 0 .. j - i /\ i + (j - i) = j
    OBVIOUS
  <2>2. j - i \in S
    BY <1>7, <2>1
  <2> QED
    BY <2>1, <2>2
<1> QED
  BY <1>3, <1>8

\* What lies between two queued blocks is the difference of their distances to the end.
LEMMA BetweenIs ==
    ASSUME NEW N \in Views, NEW c \in 1 .. BLOCK_BUFFER_SIZE - 1, NEW w, Distances(N, c, w),
           \A k \in 0 .. c - 1 : Nth(k) = N[k],
           NEW i \in 0 .. c, NEW j \in i .. c
    PROVE  Between(i, j) = w[i] - w[j] /\ w[i] \in Nat /\ w[j] \in Nat /\ w[j] <= w[i]
<1> DEFINE s == [k \in i .. j |-> w[i] - w[k]]
<1>1. /\ c \in Nat /\ i \in Nat /\ j \in Nat /\ i <= j /\ i \in i .. j /\ j \in i .. j /\ j \in 0 .. c
      /\ \A k \in i .. j : k \in 0 .. c
      /\ \A k \in i + 1 .. j : k - 1 \in 0 .. c - 1 /\ k - 1 \in Slots /\ k - 1 \in i .. j /\ (k - 1) + 1 = k /\ k \in i .. j
      /\ \A k \in 1 .. j - i : /\ i + k \in i + 1 .. j /\ (i + k) - 1 = i + (k - 1) /\ k - 1 \in 0 .. j - i
                               /\ k \in 0 .. j - i
      /\ \A k \in i .. j : k - i \in 0 .. j - i /\ i + (k - i) = k
      /\ j - i \in Nat /\ i + 0 = i
  BY RingAssumption DEF Slots
<1>2. \A k \in 0 .. c : w[k] \in Nat
  BY DEF Distances
<1>3. \A k \in i + 1 .. j : w[k - 1] = w[k] + N[k - 1].reach /\ N[k - 1].reach \in Nat /\ Nth(k - 1) = N[k - 1]
  <2> SUFFICES ASSUME NEW k \in i + 1 .. j
               PROVE  w[k - 1] = w[k] + N[k - 1].reach /\ N[k - 1].reach \in Nat /\ Nth(k - 1) = N[k - 1]
    OBVIOUS
  <2>1. k - 1 \in 0 .. c - 1 /\ k - 1 \in Slots /\ (k - 1) + 1 = k
    BY <1>1
  <2>2. w[k - 1] = w[(k - 1) + 1] + N[k - 1].reach
    BY <2>1 DEF Distances
  <2> QED
    BY <2>1, <2>2, ViewTypes
<1>4. \A k \in i .. j : w[k] <= w[i]
  <2> DEFINE S == {k \in 0 .. j - i : w[i + k] <= w[i]}
  <2>1. 0 \in S
    BY <1>1, <1>2
  <2>2. ASSUME NEW k \in 1 .. j - i, k - 1 \in S
        PROVE  k \in S
    <3>1. i + k \in i + 1 .. j /\ (i + k) - 1 = i + (k - 1) /\ i + k \in 0 .. c /\ i \in 0 .. c
      BY <1>1
    <3>2. w[(i + k) - 1] = w[i + k] + N[(i + k) - 1].reach /\ N[(i + k) - 1].reach \in Nat
      BY <1>3, <3>1
    <3>3. w[(i + k) - 1] <= w[i]
      BY <2>2, <3>1
    <3>4. w[i + k] \in Nat /\ w[i] \in Nat
      BY <1>2, <3>1
    <3>5. w[i + k] <= w[i]
      BY <3>2, <3>3, <3>4
    <3> QED
      BY <1>1, <3>5
  <2>3. 0 .. j - i \subseteq S
    <3> HIDE DEF S
    <3> QED
      BY <1>1, <2>1, <2>2, BoundedInduction
  <2>4. ASSUME NEW k \in i .. j
        PROVE  w[k] <= w[i]
    <3>1. k - i \in S /\ i + (k - i) = k
      BY <1>1, <2>3
    <3>2. w[i + (k - i)] <= w[i]
      BY <3>1
    <3> QED
      BY <3>1, <3>2
  <2> QED
    BY <2>4
<1>5. s \in [i .. j -> Nat] /\ \A k \in i .. j : s[k] = w[i] - w[k]
  <2>1. \A k \in i .. j : w[i] - w[k] \in Nat
    BY <1>1, <1>2, <1>4
  <2> QED
    BY <2>1
<1> HIDE DEF s
<1>6. s[i] = 0
  BY <1>1, <1>2, <1>5
<1>7. ASSUME NEW k \in i + 1 .. j
      PROVE  s[k] = s[k - 1] + Nth(k - 1).reach
  <2>1. w[k] \in Nat /\ w[i] \in Nat
    BY <1>1, <1>2
  <2>2. s[k] = w[i] - w[k] /\ s[k - 1] = w[i] - w[k - 1]
    BY <1>1, <1>5
  <2> QED
    BY <1>3, <2>1, <2>2
<1>8. Between(i, j) = s[j]
  BY <1>1, <1>5, <1>6, <1>7, BetweenSums
<1> QED
  BY <1>1, <1>2, <1>4, <1>5, <1>8


\* An entry speed that the blocks before it limit, or those after it.
Rising(N, w, v, k) ==
    \/ N[k].entry = v + (w[0] - w[k])
    \/ \E j \in 1 .. k : N[k].entry = N[j].max_entry + (w[j] - w[k])

Falling(N, c, w, k) ==
    \/ N[k].entry = w[k]
    \/ \E j \in k .. c - 1 : N[k].entry = N[j].max_entry + (w[k] - w[j])

LEMMA DistancesFacts ==
    ASSUME NEW N \in Views, NEW c \in 1 .. BLOCK_BUFFER_SIZE - 1, NEW w, Distances(N, c, w),
           \A j \in 0 .. c - 1 : N[j].reach > 0, NEW k \in 0 .. c - 1
    PROVE  /\ k \in Slots /\ w[k] \in Nat /\ w[k + 1] \in Nat /\ w[k] = w[k + 1] + N[k].reach
           /\ N[k].reach \in Nat /\ N[k].reach > 0 /\ N[k].entry \in Nat /\ N[k].max_entry \in Nat
<1>1. k \in Slots /\ k \in 0 .. c /\ k + 1 \in 0 .. c
  BY RingAssumption DEF Slots
<1>2. w[k] \in Nat /\ w[k + 1] \in Nat /\ w[k] = w[k + 1] + N[k].reach
  BY <1>1 DEF Distances
<1> QED
  BY <1>1, <1>2, ViewTypes

LEMMA PressedRises ==
    ASSUME NEW N \in Views, NEW c \in 1 .. BLOCK_BUFFER_SIZE - 1, NEW w, Distances(N, c, w),
           \A k \in 0 .. c - 1 : N[k].reach > 0, NEW v \in Nat, NEW q, Tight(N, c, v, q),
           NEW x \in 1 .. c - 1, Pressed(N, v, x)
    PROVE  Rising(N, w, v, x)
<1> DEFINE S == {k \in 0 .. c - 1 : k # 0 /\ Pressed(N, v, k) => Rising(N, w, v, k)}
<1>1. /\ c \in Nat /\ c - 1 \in Nat /\ 0 \in 0 .. c - 1 /\ x \in 0 .. c - 1 /\ x # 0
      /\ \A k \in 1 .. c - 1 : /\ k \in 0 .. c - 1 /\ k - 1 \in 0 .. c - 1 /\ (k - 1) + 1 = k /\ k \in 1 .. k
                               /\ k - 1 # c - 1 /\ k # 0
                               /\ k - 1 # 0 => k - 1 \in 1 .. c - 1
                               /\ \A j \in 1 .. k - 1 : j \in 1 .. k
  BY RingAssumption
<1>2. 0 \in S
  BY <1>1
<1>3. ASSUME NEW k \in 1 .. c - 1, k - 1 \in S
      PROVE  k \in S
  <2> SUFFICES ASSUME Pressed(N, v, k)
               PROVE  Rising(N, w, v, k)
    BY <1>1
  <2>1. /\ w[k] \in Nat /\ w[k - 1] \in Nat /\ w[k - 1] = w[k] + N[k - 1].reach /\ N[k - 1].reach \in Nat
        /\ N[k - 1].reach > 0 /\ N[k].entry \in Nat /\ N[k].max_entry \in Nat /\ N[k - 1].entry \in Nat
    <3>1. k \in 0 .. c - 1 /\ k - 1 \in 0 .. c - 1 /\ (k - 1) + 1 = k
      BY <1>1
    <3>2. /\ w[k - 1] \in Nat /\ w[(k - 1) + 1] \in Nat /\ w[k - 1] = w[(k - 1) + 1] + N[k - 1].reach
          /\ N[k - 1].reach \in Nat /\ N[k - 1].reach > 0 /\ N[k - 1].entry \in Nat
      BY <3>1, DistancesFacts
    <3>3. N[k].entry \in Nat /\ N[k].max_entry \in Nat
      BY <3>1, DistancesFacts
    <3> QED
      BY <3>1, <3>2, <3>3
  <2>2. CASE N[k].entry = N[k].max_entry
    <3>1. N[k].entry = N[k].max_entry + (w[k] - w[k])
      BY <2>1, <2>2
    <3> QED
      BY <1>1, <3>1 DEF Rising
  <2>3. CASE N[k].entry = Enters(N, v, k - 1) + N[k - 1].reach /\ k - 1 = 0
    <3>1. N[k].entry = v + N[k - 1].reach
      BY <2>3 DEF Enters
    <3>2. N[k].entry = v + (w[0] - w[k])
      BY <2>1, <2>3, <3>1
    <3> QED
      BY <3>2 DEF Rising
  <2>4. CASE N[k].entry = Enters(N, v, k - 1) + N[k - 1].reach /\ k - 1 # 0
    <3>1. N[k].entry = N[k - 1].entry + N[k - 1].reach
      BY <2>4 DEF Enters
    <3>2. Pressed(N, v, k - 1)
      <4>1. Pressed(N, v, k - 1) \/ N[k - 1].entry = Leaves(N, c, k - 1) + N[k - 1].reach
        BY <1>1, <2>4 DEF Tight
      <4>2. Leaves(N, c, k - 1) = N[k].entry
        BY <1>1 DEF Leaves
      <4>3. N[k - 1].entry # N[k].entry + N[k - 1].reach
        BY <2>1, <3>1
      <4> QED
        BY <4>1, <4>2, <4>3
    <3>3. Rising(N, w, v, k - 1)
      BY <1>3, <2>4, <3>2
    <3>4. CASE N[k - 1].entry = v + (w[0] - w[k - 1])
      <4>1. w[0] \in Nat
        BY <1>1, DistancesFacts
      <4>2. N[k].entry = v + (w[0] - w[k])
        BY <2>1, <3>1, <3>4, <4>1
      <4> QED
        BY <4>2 DEF Rising
    <3>5. ASSUME NEW j \in 1 .. k - 1, N[k - 1].entry = N[j].max_entry + (w[j] - w[k - 1])
          PROVE  Rising(N, w, v, k)
      <4>1. j \in 0 .. c - 1 /\ j \in 1 .. k
        BY <1>1, <3>5
      <4>2. w[j] \in Nat /\ N[j].max_entry \in Nat
        BY <4>1, DistancesFacts
      <4>3. N[k].entry = N[j].max_entry + (w[j] - w[k])
        BY <2>1, <3>1, <3>5, <4>2
      <4> QED
        BY <4>1, <4>3 DEF Rising
    <3> QED
      BY <3>3, <3>4, <3>5 DEF Rising
  <2> QED
    BY <2>2, <2>3, <2>4 DEF Pressed
<1>4. 0 .. c - 1 \subseteq S
  <2> HIDE DEF S
  <2> QED
    BY <1>1, <1>2, <1>3, BoundedInduction
<1> QED
  BY <1>1, <1>4

LEMMA ReleasedFalls ==
    ASSUME NEW N \in Views, NEW c \in 1 .. BLOCK_BUFFER_SIZE - 1, NEW w, Distances(N, c, w),
           \A k \in 0 .. c - 1 : N[k].reach > 0, NEW v \in Nat, NEW q, Tight(N, c, v, q),
           NEW x \in 1 .. c - 1, ~Pressed(N, v, x)
    PROVE  Falling(N, c, w, x)
<1> DEFINE S == {k \in 1 .. c - 1 : N[k].entry = Leaves(N, c, k) + N[k].reach => Falling(N, c, w, k)}
<1>1. /\ c \in Nat /\ c - 1 \in Nat /\ 1 \in Nat /\ x \in 1 .. c - 1 /\ c - 1 \in 1 .. c - 1
      /\ \A k \in 1 .. c - 1 : /\ k \in 0 .. c - 1 /\ k # 0 /\ k \in k .. c - 1
      /\ \A k \in 1 .. (c - 1) - 1 : /\ k \in 1 .. c - 1 /\ k \in 0 .. c - 1 /\ k # c - 1 /\ k # 0
                                     /\ k + 1 \in 1 .. c - 1 /\ k + 1 \in 0 .. c - 1 /\ (k + 1) - 1 = k
                                     /\ \A j \in k + 1 .. c - 1 : j \in k .. c - 1 /\ j \in 0 .. c - 1
  BY RingAssumption
<1>2. c - 1 \in S
  <2>1. w[c - 1] = w[(c - 1) + 1] + N[c - 1].reach /\ N[c - 1].reach \in Nat
    BY <1>1, DistancesFacts
  <2>2. w[c] = 0 /\ (c - 1) + 1 = c
    BY <1>1 DEF Distances
  <2>3. Leaves(N, c, c - 1) = 0
    BY DEF Leaves
  <2> QED
    BY <1>1, <2>1, <2>2, <2>3 DEF Falling
<1>3. ASSUME NEW k \in 1 .. (c - 1) - 1, k + 1 \in S
      PROVE  k \in S
  <2> SUFFICES ASSUME N[k].entry = Leaves(N, c, k) + N[k].reach
               PROVE  Falling(N, c, w, k)
    BY <1>1
  <2>1. N[k].entry = N[k + 1].entry + N[k].reach
    BY <1>1 DEF Leaves
  <2>2. /\ w[k] \in Nat /\ w[k + 1] \in Nat /\ w[k] = w[k + 1] + N[k].reach /\ N[k].reach \in Nat
        /\ N[k].reach > 0 /\ N[k].entry \in Nat /\ N[k + 1].entry \in Nat /\ N[k + 1].max_entry \in Nat
    <3>1. k \in 0 .. c - 1 /\ k + 1 \in 0 .. c - 1
      BY <1>1
    <3>2. /\ w[k] \in Nat /\ w[k + 1] \in Nat /\ w[k] = w[k + 1] + N[k].reach /\ N[k].reach \in Nat
          /\ N[k].reach > 0 /\ N[k].entry \in Nat
      BY <3>1, DistancesFacts
    <3>3. N[k + 1].entry \in Nat /\ N[k + 1].max_entry \in Nat
      BY <3>1, DistancesFacts
    <3> QED
      BY <3>2, <3>3
  <2>3. CASE N[k + 1].entry = N[k + 1].max_entry
    <3>1. N[k].entry = N[k + 1].max_entry + (w[k] - w[k + 1])
      BY <2>1, <2>2, <2>3
    <3>2. k + 1 \in k .. c - 1
      BY <1>1
    <3> QED
      BY <3>1, <3>2 DEF Falling
  <2>4. CASE N[k + 1].entry # N[k + 1].max_entry
    <3>1. ~Pressed(N, v, k + 1)
      <4>1. Enters(N, v, (k + 1) - 1) = N[k].entry
        BY <1>1 DEF Enters
      <4>2. N[k + 1].entry # N[k].entry + N[k].reach
        BY <2>1, <2>2
      <4> QED
        BY <1>1, <2>4, <4>1, <4>2 DEF Pressed
    <3>2. N[k + 1].entry = Leaves(N, c, k + 1) + N[k + 1].reach
      BY <1>1, <3>1 DEF Tight
    <3>3. Falling(N, c, w, k + 1)
      BY <1>3, <3>2
    <3>4. CASE N[k + 1].entry = w[k + 1]
      BY <2>1, <2>2, <3>4 DEF Falling
    <3>5. ASSUME NEW j \in k + 1 .. c - 1, N[k + 1].entry = N[j].max_entry + (w[k + 1] - w[j])
          PROVE  Falling(N, c, w, k)
      <4>1. j \in 0 .. c - 1 /\ j \in k .. c - 1
        BY <1>1, <3>5
      <4>2. w[j] \in Nat /\ N[j].max_entry \in Nat
        BY <4>1, DistancesFacts
      <4>3. N[k].entry = N[j].max_entry + (w[k] - w[j])
        BY <2>1, <2>2, <3>5, <4>2
      <4> QED
        BY <4>1, <4>3 DEF Falling
    <3> QED
      BY <3>3, <3>4, <3>5 DEF Falling
  <2> QED
    BY <2>3, <2>4
<1>4. 1 .. c - 1 \subseteq S
  <2> HIDE DEF S
  <2> QED
    BY <1>1, <1>2, <1>3, DownInduction
<1> QED
  BY <1>1, <1>4 DEF Tight


\* A plan without a hold can be executed, and no speed of it can be raised.
LEMMA OptimalView ==
    ASSUME NEW N \in Views, NEW c \in 1 .. BLOCK_BUFFER_SIZE - 1, NEW q, NEW w, NEW v \in Nat,
           Distances(N, c, w), \A k \in 0 .. c - 1 : N[k].reach > 0,
           Braked(N, c, v), Driven(N, c, v), Tight(N, c, v, q)
    PROVE  /\ \A k \in 0 .. c - 1 : /\ Gap(Enters(N, v, k), Leaves(N, c, k)) <= N[k].reach
                                    /\ k > 0 => N[k].entry <= N[k].max_entry
           /\ \A k \in 1 .. c - 1 : Rising(N, w, v, k) \/ Falling(N, c, w, k)
<1>1. \A k \in 0 .. c - 1 : k > 0 => k \in 1 .. c - 1
  BY RingAssumption
<1>2. ASSUME NEW k \in 0 .. c - 1
      PROVE  Gap(Enters(N, v, k), Leaves(N, c, k)) <= N[k].reach
  <2>1. Enters(N, v, k) <= Leaves(N, c, k) + N[k].reach /\ Leaves(N, c, k) <= Enters(N, v, k) + N[k].reach
    BY DEF Braked, Driven
  <2>2. k \in Slots /\ (k # c - 1 => k + 1 \in Slots)
    BY RingAssumption DEF Slots
  <2>3. Enters(N, v, k) \in Nat /\ Leaves(N, c, k) \in Nat /\ N[k].reach \in Nat
    BY <2>2, ViewTypes DEF Enters, Leaves
  <2> QED
    BY <2>1, <2>3 DEF Gap
<1>3. ASSUME NEW k \in 1 .. c - 1
      PROVE  Rising(N, w, v, k) \/ Falling(N, c, w, k)
  <2>1. CASE Pressed(N, v, k)
    BY <2>1, PressedRises
  <2>2. CASE ~Pressed(N, v, k)
    BY <2>2, ReleasedFalls
  <2> QED
    BY <2>1, <2>2
<1> QED
  BY <1>1, <1>2, <1>3 DEF Braked

LEMMA PlanInvImpliesOptimal == PlanInv => PlanOptimal
<1> SUFFICES ASSUME PlanInv, step_control = NoControl, ~lowered
             PROVE  /\ Feasible
                    /\ \A k \in 1 .. Count - 1 :
                         \/ Nth(k).entry = Nth(k).max_entry
                         \/ Nth(k).entry = Between(k, Count)
                         \/ Nth(k).entry = StartSpeed(0) + Between(0, k)
                         \/ \E j \in 1 .. Count - 1 :
                               /\ j # k
                               /\ Nth(k).entry = Nth(j).max_entry
                                                 + (IF j < k THEN Between(j, k) ELSE Between(k, j))
  BY DEF PlanOptimal
<1>1. /\ block_buffer_tail \in Slots /\ prep \in Preps /\ Count \in 0 .. BLOCK_BUFFER_SIZE - 1
      /\ block_buffer_head = Ahead(block_buffer_tail, Count)
      /\ Count = 0 <=> block_buffer_head = block_buffer_tail
  BY PlanTypes, QueuedSlots DEF PlanInv, PlannerTypes, Empty
<1>2. CASE block_buffer_head = block_buffer_tail
  <2>1. 0 .. Count - 1 = {} /\ 1 .. Count - 1 = {}
    BY <1>1, <1>2
  <2> QED
    BY <2>1 DEF Feasible
<1>3. CASE block_buffer_head # block_buffer_tail
  <2>1. PICK N \in Views, c \in 1 .. BLOCK_BUFFER_SIZE - 1, q \in Slots : \E w : Queueing(N, c, q, w)
    BY <1>3, QueueIsPlanned
  <2>2. PICK w : Queueing(N, c, q, w)
    BY <2>1, Zenon
  <2>3. /\ Seen(block_buffer, block_buffer_tail, N) /\ block_buffer_head = Ahead(block_buffer_tail, c)
        /\ Planning(N, c, q, w, f_override, previous_nominal, step_control, prep, lowered)
    BY <2>2, Zenon DEF Queueing
  <2>4. Count = c
    <3>1. c \in Slots /\ Count \in Slots
      BY <1>1, RingAssumption DEF Slots
    <3>2. \A i, j \in Slots : Ahead(block_buffer_tail, i) = Ahead(block_buffer_tail, j) => i = j
      BY <1>1, AheadAhead
    <3> QED
      BY <1>1, <2>3, <3>1, <3>2, Zenon
  <2>5. PICK v : v = Starts(N, step_control, prep)
    OBVIOUS
  <2>6. v \in Nat
    BY <1>1, <2>5, StartsNat
  <2>7. /\ c > 0 /\ ~step_control.executeHold /\ 0 \in 0 .. c - 1 /\ c \in 0 .. c
        /\ \A k \in 0 .. c - 1 : k \in Slots
        /\ \A k \in 1 .. c - 1 : k \in 0 .. c - 1 /\ k \in 0 .. c /\ c \in k .. c /\ 0 \in 0 .. c /\ k # 0
    BY RingAssumption DEF NoControl, Slots
  <2>8. /\ Distances(N, c, w) /\ \A k \in 0 .. c - 1 : N[k].reach > 0
        /\ Braked(N, c, v) /\ Driven(N, c, v) /\ Tight(N, c, v, q)
    <3>1. /\ Distances(N, c, w) /\ Limited(N, c, f_override, previous_nominal)
          /\ Slow(N, c, f_override, step_control, prep) /\ Fast(N, c, q, step_control, prep)
      BY <2>3, <2>7, Zenon DEF Planning, Steady
    <3> QED
      BY <2>5, <2>7, <3>1 DEF Slow, Fast, Limited
  <2>9. /\ \A k \in 0 .. c - 1 : /\ Gap(Enters(N, v, k), Leaves(N, c, k)) <= N[k].reach
                                 /\ k > 0 => N[k].entry <= N[k].max_entry
        /\ \A k \in 1 .. c - 1 : Rising(N, w, v, k) \/ Falling(N, c, w, k)
    BY <2>6, <2>8, OptimalView
  <2>10. \A k \in 0 .. c - 1 : Nth(k) = N[k]
    BY <2>3, <2>7 DEF Nth, Seen
  <2>11. \A k \in 0 .. c - 1 : StartSpeed(k) = Enters(N, v, k)
    BY <2>5, <2>7, <2>10 DEF StartSpeed, Enters, Starts, Underway
  <2>12. Feasible
    <3>1. ASSUME NEW k \in 0 .. c - 1
          PROVE  (IF k = c - 1 THEN 0 ELSE StartSpeed(k + 1)) = Leaves(N, c, k)
      <4>1. k # c - 1 => k + 1 \in 0 .. c - 1 /\ k + 1 # 0
        OBVIOUS
      <4> QED
        BY <2>11, <4>1 DEF Leaves, Enters
    <3> QED
      BY <2>4, <2>9, <2>10, <2>11, <3>1 DEF Feasible
  <2>13. \A i \in 0 .. c : \A j \in i .. c : Between(i, j) = w[i] - w[j] /\ w[i] \in Nat /\ w[j] \in Nat
    BY <2>8, <2>10, BetweenIs
  <2>14. ASSUME NEW k \in 1 .. c - 1
         PROVE  \/ Nth(k).entry = Nth(k).max_entry
                \/ Nth(k).entry = Between(k, c)
                \/ Nth(k).entry = StartSpeed(0) + Between(0, k)
                \/ \E j \in 1 .. c - 1 :
                      /\ j # k
                      /\ Nth(k).entry = Nth(j).max_entry + (IF j < k THEN Between(j, k) ELSE Between(k, j))
    <3>1. Nth(k) = N[k] /\ N[k].entry \in Nat /\ N[k].max_entry \in Nat
      BY <2>7, <2>10, ViewTypes
    <3>2. Between(k, c) = w[k] /\ Between(0, k) = w[0] - w[k] /\ w[k] \in Nat
      <4>1. w[c] = 0
        BY <2>8 DEF Distances
      <4>2. Between(k, c) = w[k] - w[c] /\ Between(0, k) = w[0] - w[k] /\ w[k] \in Nat
        BY <2>7, <2>13
      <4> QED
        BY <4>1, <4>2
    <3>3. StartSpeed(0) = v
      BY <2>7, <2>11 DEF Enters
    <3>4. ASSUME NEW j \in 1 .. k, N[k].entry = N[j].max_entry + (w[j] - w[k]), N[k].entry # N[k].max_entry
          PROVE  \E i \in 1 .. c - 1 :
                    /\ i # k
                    /\ Nth(k).entry = Nth(i).max_entry + (IF i < k THEN Between(i, k) ELSE Between(k, i))
      <4>1. j \in 1 .. c - 1 /\ j \in 0 .. c /\ k \in j .. c /\ j \in 0 .. c - 1
        BY <2>7
      <4>2. Nth(j) = N[j] /\ Between(j, k) = w[j] - w[k]
        BY <2>10, <2>13, <4>1
      <4>3. j # k
        <5>1. j = k => N[k].entry = N[k].max_entry
          BY <3>1, <3>2, <3>4
        <5> QED
          BY <3>4, <5>1
      <4>4. j < k
        BY <4>3
      <4> QED
        BY <3>1, <3>4, <4>1, <4>2, <4>3, <4>4
    <3>5. ASSUME NEW j \in k .. c - 1, N[k].entry = N[j].max_entry + (w[k] - w[j]), N[k].entry # N[k].max_entry
          PROVE  \E i \in 1 .. c - 1 :
                    /\ i # k
                    /\ Nth(k).entry = Nth(i).max_entry + (IF i < k THEN Between(i, k) ELSE Between(k, i))
      <4>1. j \in 1 .. c - 1 /\ k \in 0 .. c /\ j \in k .. c /\ j \in 0 .. c - 1
        BY <2>7
      <4>2. Nth(j) = N[j] /\ Between(k, j) = w[k] - w[j]
        BY <2>10, <2>13, <4>1
      <4>3. j # k
        <5>1. j = k => N[k].entry = N[k].max_entry
          BY <3>1, <3>2, <3>5
        <5> QED
          BY <3>5, <5>1
      <4>4. ~(j < k)
        OBVIOUS
      <4> QED
        BY <3>1, <3>5, <4>1, <4>2, <4>3, <4>4
    <3>6. CASE Rising(N, w, v, k)
      BY <3>1, <3>2, <3>3, <3>4, <3>6 DEF Rising
    <3>7. CASE Falling(N, c, w, k)
      BY <3>1, <3>2, <3>5, <3>7 DEF Falling
    <3> QED
      BY <2>9, <3>6, <3>7
  <2> QED
    BY <2>4, <2>12, <2>14
<1> QED
  BY <1>2, <1>3

\* Outside a hold the queue can always be executed to a standstill within its limits, and
\* no entry speed of it could be higher: planner_recalculate, which plans only the blocks
\* after the planned pointer, loses nothing against a plan of the whole queue.
THEOREM PlanAlwaysOptimal == Spec => []PlanOptimal
<1>1. PlanInv => PlanOptimal
  BY PlanInvImpliesOptimal
<1> QED
  BY <1>1, PlanAlwaysHolds, PTL
==============================================================================
