----------------------------- MODULE GCodeProofs -----------------------------
(***************************************************************************)
(* What a program may rely on, whatever lines are sent, whatever the        *)
(* machine has, and wherever resets and soft limits fall: the spindle and   *)
(* the coolant follow it, and the position that the parser reckons with is  *)
(* where the machine stands.                                                *)
(*                                                                         *)
(* OutputsFollowProgram speaks of the time between lines; the stages of a   *)
(* line keep more.  Outside check mode, as long as nothing is aborted, the  *)
(* outputs agree with the parser's state after every stage, since a stage   *)
(* sets both.  Once aborted they are off, and stay off until the restart,   *)
(* when the parser's state begins anew.  The invariants of the position and *)
(* of the work coordinates follow further down.                             *)
(***************************************************************************)
EXTENDS GCodeProperties, TLAPS, WellFoundedInduction

\* What the stages write into is there.
Shape == /\ {"modal", "coolant", "spindle_speed"} \subseteq DOMAIN gc
         /\ {"spindle", "override"} \subseteq DOMAIN gc.modal
         /\ {"spindle", "speed", "coolant", "override"} \subseteq DOMAIN outputs

\* The outputs are as the parser has them.
Agree(g, o) == /\ o.spindle = g.modal.spindle
               /\ g.modal.spindle # "Disable" => o.speed = g.spindle_speed
               /\ o.coolant = g.coolant

OutputsAgree == ~abort /\ sys # "CheckMode" => Agree(gc, outputs)

\* mc_reset has turned everything off.
OffWhenAborted == abort => outputs.spindle = "Disable" /\ outputs.coolant = {}

\* The inductive invariant.
IInv == Shape /\ OutputsAgree /\ OffWhenAborted

-----------------------------------------------------------------------------
\* Everything agrees at boot: the parser has switched nothing on (gc_init).
LEMMA InitAgrees == Init => IInv
  BY DEF Init, IInv, Shape, OutputsAgree, OffWhenAborted, Agree, gc_init, Modal0, Outputs0

\* A step that leaves the spindle, its speed and the coolant alone, in the parser's
\* state and at the machine.
Untouched == /\ gc'.modal.spindle = gc.modal.spindle
             /\ gc'.spindle_speed = gc.spindle_speed
             /\ gc'.coolant = gc.coolant
             /\ outputs'.spindle = outputs.spindle
             /\ outputs'.speed = outputs.speed
             /\ outputs'.coolant = outputs.coolant

\* Nothing is restarted, and check mode is left by a restart alone.
Running == (abort' = abort) /\ (sys' # "CheckMode" => sys # "CheckMode")

\* Such a step keeps the invariant: most stages of gc_execute_line, and motion.
LEMMA UntouchedKeeps ==
    ASSUME IInv, Shape', Untouched, Running
    PROVE  IInv'
  BY DEF IInv, OutputsAgree, OffWhenAborted, Agree, Untouched, Running

\* mc_reset turns everything off, and raises the abort.
LEMMA ResetKeeps ==
    ASSUME IInv, outputs' = Off(outputs), abort' = TRUE, gc' = gc
    PROVE  IInv'
  BY DEF IInv, Shape, OutputsAgree, OffWhenAborted, Off, Outputs0

-----------------------------------------------------------------------------
\* The stages that set the spindle, its speed or the coolant: what the parser takes
\* down is what is switched, or an abort or check mode keeps it from being switched.
LEMMA SwitchingKeeps ==
    ASSUME IInv, SetSpeed \/ SetSpindle \/ SetCoolant \/ EndProgram
    PROVE  IInv'
<1> USE DEF IInv, Shape, OutputsAgree, OffWhenAborted, Agree, Live, Done
<1>1. CASE SetSpeed
  BY <1>1 DEF SetSpeed, machine
<1>2. CASE SetSpindle
  BY <1>2 DEF SetSpindle, machine
<1>3. CASE SetCoolant
  BY <1>3 DEF SetCoolant, machine
<1>4. CASE EndProgram
  BY <1>4 DEF EndProgram, machine
<1> QED
  BY <1>1, <1>2, <1>3, <1>4

\* The other stages of a line.
LEMMA StagesKeep == ASSUME IInv, Stages PROVE IInv'
<1> USE DEF machine, execution, bounds, Done, Then
<1>1. CASE limits_soft_check
  BY <1>1, ResetKeeps DEF limits_soft_check
<1>2. CASE SetSpeed \/ SetSpindle \/ SetCoolant \/ EndProgram
  BY <1>2, SwitchingKeeps
<1>3. CASE SetDigital
  BY <1>3 DEF SetDigital, Fail, IInv, Shape, OutputsAgree, OffWhenAborted, Agree
<1>4. CASE SetAnalog
  BY <1>4 DEF SetAnalog, Fail, IInv, Shape, OutputsAgree, OffWhenAborted, Agree
<1>5. CASE SetOverride
  BY <1>5 DEF SetOverride, IInv, Shape, OutputsAgree, OffWhenAborted, Agree
<1>6. CASE mc_line \/ Wait \/ SetCoordinateData \/ GoHomeWay \/ SetHome \/ Pause
  <2>1. gc' = gc /\ outputs' = outputs /\ sys' = sys /\ abort' = abort
    BY <1>6 DEF mc_line, Wait, SetCoordinateData, GoHomeWay, SetHome, Pause
  <2> QED
    BY <2>1, UntouchedKeeps DEF IInv, Shape, Untouched, Running
<1>7. CASE \/ SetModes \/ SetToolLength \/ SelectCoordSystem \/ UseCoordinateData
           \/ AtHome \/ SetCoordinateOffset \/ BeginMotion \/ AtTarget
  <2>1. outputs' = outputs /\ sys' = sys /\ abort' = abort
    BY <1>7 DEF SetModes, SetToolLength, SelectCoordSystem, UseCoordinateData, AtHome,
                SetCoordinateOffset, BeginMotion, AtTarget
  <2>2. /\ gc'.modal.spindle = gc.modal.spindle /\ gc'.spindle_speed = gc.spindle_speed
        /\ gc'.coolant = gc.coolant
        /\ DOMAIN gc' = DOMAIN gc /\ DOMAIN gc'.modal = DOMAIN gc.modal
    <3>1. CASE SetModes
      BY <3>1 DEF SetModes, IInv, Shape
    <3>2. CASE SetToolLength
      BY <3>2 DEF SetToolLength, IInv, Shape
    <3>3. CASE SelectCoordSystem
      BY <3>3 DEF SelectCoordSystem, IInv, Shape
    <3>4. CASE UseCoordinateData
      BY <3>4 DEF UseCoordinateData, IInv, Shape
    <3>5. CASE AtHome \/ AtTarget
      BY <3>5 DEF AtHome, AtTarget, IInv, Shape
    <3>6. CASE SetCoordinateOffset
      BY <3>6 DEF SetCoordinateOffset, IInv, Shape
    <3>7. CASE BeginMotion
      BY <3>7 DEF BeginMotion, IInv, Shape
    <3> QED
      BY <1>7, <3>1, <3>2, <3>3, <3>4, <3>5, <3>6, <3>7
  <2> QED
    BY <2>1, <2>2, UntouchedKeeps DEF IInv, Shape, Untouched, Running
<1>8. CASE StartJog \/ StartProbe \/ EndProbe
  <2>1. outputs' = outputs /\ abort' = abort /\ (sys' # "CheckMode" => sys # "CheckMode")
    BY <1>8 DEF StartJog, StartProbe, EndProbe, Live
  <2>2. gc' = gc \/ \E position : gc' = [gc EXCEPT !.position = position]
    BY <1>8 DEF StartJog, StartProbe, EndProbe
  <2> QED
    BY <2>1, <2>2, UntouchedKeeps DEF IInv, Shape, Untouched, Running
<1> QED
  BY <1>1, <1>2, <1>3, <1>4, <1>5, <1>6, <1>7, <1>8 DEF Stages

\* Lines begin without a switch: a refused line has selected its tool at most.
LEMMA LinesKeep == ASSUME IInv, GCodeLine \/ JogLine PROVE IInv'
<1>1. outputs' = outputs /\ sys' = sys /\ abort' = abort
  BY DEF GCodeLine, JogLine, machine
<1>2. /\ gc'.modal.spindle = gc.modal.spindle /\ gc'.spindle_speed = gc.spindle_speed
      /\ gc'.coolant = gc.coolant
      /\ DOMAIN gc' = DOMAIN gc /\ DOMAIN gc'.modal = DOMAIN gc.modal
  <2>1. CASE GCodeLine
    <3>1. PICK b : gc' = Parsed(b)
      BY <2>1 DEF GCodeLine
    <3>2. CASE ~b.legal
      BY <3>1, <3>2 DEF Parsed, IInv, Shape
    <3>3. CASE b.legal
      <4>1. DOMAIN gc' = DOMAIN gc
        BY <3>1, <3>3 DEF Parsed
      <4>2. /\ gc'.spindle_speed = gc.spindle_speed /\ gc'.coolant = gc.coolant
            /\ gc'.modal = [gc.modal EXCEPT !.feed_rate = b.modal.feed_rate]
        BY <3>1, <3>3 DEF Parsed, IInv, Shape
      <4> QED
        BY <4>1, <4>2 DEF IInv, Shape
    <3> QED
      BY <3>2, <3>3
  <2>2. CASE JogLine
    <3>1. PICK b : gc' = [gc EXCEPT !.tool = b.tool]
      BY <2>2 DEF JogLine
    <3> QED
      BY <3>1 DEF IInv, Shape
  <2> QED
    BY <2>1, <2>2
<1> QED
  BY <1>1, <1>2, UntouchedKeeps DEF IInv, Shape, Untouched, Running

\* The restart begins with both: the parser anew, and everything off since mc_reset.
LEMMA RestartKeeps == ASSUME IInv, Restart PROVE IInv'
  BY DEF Restart, IInv, Shape, OutputsAgree, OffWhenAborted, Agree, gc_init, Modal0

\* Motion and events, whenever they fall.
LEMMA EventsKeep ==
    ASSUME IInv, Motion \/ Resume \/ Reset \/ JogCancel \/ Unlock \/ CheckMode
                 \/ RestoreParameters
    PROVE  IInv'
<1> USE DEF machine, execution, bounds, Done, Then
<1>1. CASE Reset
  BY <1>1, ResetKeeps DEF Reset, mc_reset
<1>2. CASE CheckMode
  <2>1. CASE mc_reset
    BY <2>1, ResetKeeps DEF mc_reset
  <2>2. CASE sys' = "CheckMode" /\ UNCHANGED <<gc, abort, outputs>>
    BY <2>2 DEF IInv, Shape, OutputsAgree, OffWhenAborted
  <2> QED
    BY <1>2, <2>1, <2>2 DEF CheckMode
<1>3. CASE Motion \/ Resume \/ Unlock \/ RestoreParameters
  <2>1. gc' = gc /\ outputs' = outputs /\ Running
    BY <1>3 DEF Motion, StartCycle, EndMotion, Contact, Resume, Unlock,
                RestoreParameters, Running
  <2> QED
    BY <2>1, UntouchedKeeps DEF IInv, Shape, Untouched
<1>4. CASE JogCancel
  <2>1. gc' = [gc EXCEPT !.position = mpos'] /\ outputs' = outputs /\ Running
    BY <1>4 DEF JogCancel, Running
  <2> QED
    BY <2>1, UntouchedKeeps DEF IInv, Shape, Untouched
<1> QED
  BY <1>1, <1>2, <1>3, <1>4

LEMMA NextKeeps == ASSUME IInv, [Next]_vars PROVE IInv'
<1>1. CASE Next
  BY <1>1, StagesKeep, LinesKeep, RestartKeeps, EventsKeep DEF Next
<1>2. CASE UNCHANGED vars
  BY <1>2 DEF vars, machine, IInv, Shape, OutputsAgree, OffWhenAborted
<1> QED
  BY <1>1, <1>2

-----------------------------------------------------------------------------
\* In every behaviour of the parser and of the machine, whatever the program, the
\* spindle and the coolant are between its lines as it has set them: aborted waits,
\* soft limits, probes and check mode included (gc_execute_line, mc_reset, run_once).
THEOREM OutputsAlwaysFollow == Spec => []OutputsFollowProgram
<1>1. IInv => OutputsFollowProgram
  BY DEF IInv, OutputsAgree, Agree, OutputsFollowProgram, AtRest
<1> QED
  BY InitAgrees, NextKeeps, <1>1, PTL DEF Spec

-----------------------------------------------------------------------------
(* The position.  A line brings the parser's position and the machine to    *)
(* the same place by way of the planner: the last target on its way there,  *)
(* in mc_line's hands, queued or reached, is at every stage the position    *)
(* that the parser has or, at a stage that is about to set it, will have.   *)
(* An abort breaks this, and the restart mends it.                          *)

IsSeq(s) == s \in Seq(ToSet(s))
LastOf(s) == s[Len(s)]

\* The stages at which the position is about to be set.
Moving == {"target", "home", "jog", "probing", "contact"}

\* The others: those a line begins with, and those that follow from them.
Standing == {"speed", "spindle", "coolant", "digital", "analog", "override", "dwell", "modes",
             "toolLength", "coordSelect", "nonModal", "motion", "flow",
             "wait", "coordData", "probe", "paused"}

\* What is left of a line: its head moves at most, and only then are there targets.
StagesLeft ==
    /\ todo # <<>> => /\ IsSeq(todo) /\ Tail(todo) \in Seq(Standing)
                      /\ Head(todo) \in Moving \cup Standing
    /\ path # <<>> => todo # <<>> /\ Head(todo) \in Moving

\* A motion has a target to go to, and none is left after a contact.
Queued ==
    /\ IsSeq(queue) /\ IsSeq(path)
    /\ sys \in {"Cycle", "Jog"} => queue # <<>>
    /\ todo # <<>> /\ Head(todo) = "contact" => queue = <<>> /\ path = <<>>

\* Where the machine will be when motion ends, and where the parser will say it is.
Final == IF path # <<>> THEN LastOf(path)
         ELSE IF queue # <<>> THEN LastOf(queue) ELSE mpos

Goal == IF todo = <<>> THEN gc.position
        ELSE CASE Head(todo) \in {"target", "jog", "probing"} -> block.xyz
               [] Head(todo) = "home" -> block.coord_data
               [] Head(todo) = "contact" -> mpos
               [] OTHER -> gc.position

OnTheWay == ~abort /\ sys # "CheckMode" => Final = Goal

PositionInv == /\ {"position", "modal"} \subseteq DOMAIN gc
               /\ StagesLeft /\ Queued /\ OnTheWay

-----------------------------------------------------------------------------
\* Sequences: what the planner and mc_line do to them.
LEMMA SeqOfItsValues == ASSUME NEW S, NEW s \in Seq(S) PROVE IsSeq(s)
<1>1. s \in [1 .. Len(s) -> S] /\ Len(s) \in Nat
  OBVIOUS
<1>2. \A i \in 1 .. Len(s) : s[i] \in ToSet(s)
  BY <1>1 DEF ToSet
<1>3. s \in [1 .. Len(s) -> ToSet(s)]
  BY <1>1, <1>2
<1> QED
  BY <1>1, <1>3 DEF IsSeq

LEMMA AppendLast ==
    ASSUME NEW s, IsSeq(s), NEW e
    PROVE  /\ IsSeq(Append(s, e)) /\ Append(s, e) # <<>>
           /\ LastOf(Append(s, e)) = e
<1> DEFINE t == Append(s, e)
           S == ToSet(s) \cup {e}
<1>1. s \in Seq(S) /\ e \in S
  BY DEF IsSeq
<1>2. t \in Seq(S) /\ Len(t) = Len(s) + 1 /\ Len(s) \in Nat /\ t[Len(t)] = e
  BY <1>1
<1>3. IsSeq(t)
  BY <1>2, SeqOfItsValues
<1> QED
  BY <1>2, <1>3 DEF LastOf

LEMMA TailLast ==
    ASSUME NEW s, IsSeq(s), s # <<>>
    PROVE  /\ IsSeq(Tail(s))
           /\ Tail(s) = <<>> => Head(s) = LastOf(s)
           /\ Tail(s) # <<>> => LastOf(Tail(s)) = LastOf(s)
<1> DEFINE t == Tail(s)
           S == ToSet(s)
<1>1. s \in Seq(S) /\ Len(s) \in Nat \ {0}
  BY DEF IsSeq
<1>2. /\ t \in Seq(S) /\ Len(t) = Len(s) - 1 /\ Len(t) \in Nat
      /\ \A i \in 1 .. Len(t) : t[i] = s[i + 1]
  BY <1>1
<1>3. IsSeq(t)
  BY <1>2, SeqOfItsValues
<1>4. t = <<>> => Head(s) = s[Len(s)]
  <2>1. t = <<>> => Len(s) = 1
    BY <1>1, <1>2
  <2> QED
    BY <1>1, <2>1
<1>5. t # <<>> => t[Len(t)] = s[Len(s)]
  <2>1. t # <<>> => Len(t) \in 1 .. Len(t) /\ Len(t) + 1 = Len(s)
    BY <1>1, <1>2
  <2> HIDE DEF t
  <2> QED
    BY <1>2, <2>1
<1> QED
  BY <1>3, <1>4, <1>5 DEF LastOf

LEMMA ShortSequences ==
    /\ IsSeq(<<>>)
    /\ \A e : IsSeq(<<e>>) /\ <<e>> # <<>> /\ LastOf(<<e>>) = e
               /\ Head(<<e>>) = e /\ Tail(<<e>>) = <<>>
    /\ \A d, e : /\ IsSeq(<<d, e>>) /\ <<d, e>> # <<>> /\ LastOf(<<d, e>>) = e
                  /\ IsSeq(<<d>> \o <<e>>) /\ <<d>> \o <<e>> # <<>>
                  /\ LastOf(<<d>> \o <<e>>) = e /\ <<>> \o <<e>> = <<e>>
<1>1. IsSeq(<<>>)
  BY DEF IsSeq
<1>2. ASSUME NEW e
      PROVE  IsSeq(<<e>>) /\ LastOf(<<e>>) = e
  BY DEF IsSeq, LastOf, ToSet
<1>3. ASSUME NEW d, NEW e
      PROVE  IsSeq(<<d, e>>) /\ LastOf(<<d, e>>) = e
  BY DEF IsSeq, LastOf, ToSet
<1>4. ASSUME NEW d, NEW e
      PROVE  /\ IsSeq(<<d>> \o <<e>>) /\ <<d>> \o <<e>> # <<>>
             /\ LastOf(<<d>> \o <<e>>) = e /\ <<>> \o <<e>> = <<e>>
  <2> DEFINE S == {d, e}
             t == <<d>> \o <<e>>
  <2>1. <<d>> \in Seq(S) /\ <<e>> \in Seq(S) /\ <<>> \in Seq(S)
        /\ Len(<<d>>) = 1 /\ Len(<<e>>) = 1
    OBVIOUS
  <2>2. t \in Seq(S) /\ Len(t) = 2 /\ t[2] = e
    BY <2>1
  <2>3. <<>> \o <<e>> = <<e>>
    BY <2>1
  <2>4. IsSeq(t)
    BY <2>2, SeqOfItsValues
  <2> QED
    BY <2>2, <2>3, <2>4 DEF LastOf
<1> QED
  BY <1>1, <1>2, <1>3, <1>4

\* The stage that takes the place of a head.
LEMMA HeadReplaced ==
    ASSUME NEW s, NEW S, Tail(s) \in Seq(S), NEW e
    PROVE  /\ <<e>> \o Tail(s) # <<>> /\ IsSeq(<<e>> \o Tail(s))
           /\ Head(<<e>> \o Tail(s)) = e /\ Tail(<<e>> \o Tail(s)) = Tail(s)
<1> DEFINE t == Tail(s)
           r == <<e>> \o t
<1> HIDE DEF t
<1>1. t \in Seq(S) /\ Len(t) \in Nat
  BY DEF t
<1>2. r \in Seq(S \cup {e}) /\ Len(r) = Len(t) + 1 /\ r[1] = e
  BY <1>1
<1>3. \A i \in 1 .. Len(t) : r[i + 1] = t[i]
  BY <1>1
<1>4. IsSeq(r)
  BY <1>2, SeqOfItsValues
<1>5. r # <<>> /\ Head(r) = e
  BY <1>1, <1>2
<1>6. Tail(r) = t
  BY <1>1
<1> QED
  BY <1>4, <1>5, <1>6 DEF t

-----------------------------------------------------------------------------
\* A stage is done, or fails: what a line begins with is left.
LEMMA DoneStage ==
    ASSUME StagesLeft, todo # <<>>, path' = <<>>, todo' = Tail(todo) \/ todo' = <<>>
    PROVE  StagesLeft' /\ (todo' # <<>> => Head(todo') \in Standing)
<1> SUFFICES ASSUME todo' # <<>>, todo' = Tail(todo)
             PROVE  IsSeq(todo') /\ Tail(todo') \in Seq(Standing) /\ Head(todo') \in Standing
  BY DEF StagesLeft
<1>1. todo' \in Seq(Standing)
  BY DEF StagesLeft
<1>2. IsSeq(todo')
  BY <1>1, SeqOfItsValues
<1> QED
  BY <1>1, <1>2

\* A stage goes over into another.
LEMMA ThenStage ==
    ASSUME StagesLeft, todo # <<>>, NEW e \in Moving \cup Standing,
           todo' = <<e>> \o Tail(todo), path' # <<>> => e \in Moving
    PROVE  StagesLeft' /\ todo' # <<>> /\ Head(todo') = e
<1>1. Tail(todo) \in Seq(Standing)
  BY DEF StagesLeft
<1>2. /\ todo' # <<>> /\ IsSeq(todo') /\ Head(todo') = e /\ Tail(todo') \in Seq(Standing)
  BY <1>1, HeadReplaced
<1> QED
  BY <1>2 DEF StagesLeft

\* At a stage that does not move, the goal is the position.
LEMMA StandingGoal ==
    ASSUME NEW s, s = <<>> \/ Head(s) \in Standing
    PROVE  s # <<>> => Head(s) \notin {"target", "jog", "probing", "home", "contact"}
  BY DEF Standing

\* Such a stage keeps the position, the machine and what is queued, and goes over into
\* another that does not move.
LEMMA StandingKeeps ==
    ASSUME PositionInv, todo # <<>>, Head(todo) \in Standing, path = <<>>,
           path' = <<>>, UNCHANGED machine,
           todo' \in {Tail(todo), <<>>} \/ \E e \in Standing : todo' = <<e>> \o Tail(todo),
           gc'.position = gc.position, DOMAIN gc' = DOMAIN gc
    PROVE  PositionInv'
<1>1. StagesLeft' /\ (todo' # <<>> => Head(todo') \in Standing)
  <2>1. CASE todo' \in {Tail(todo), <<>>}
    BY <2>1, DoneStage DEF PositionInv
  <2>2. CASE \E e \in Standing : todo' = <<e>> \o Tail(todo)
    BY <2>2, ThenStage DEF PositionInv
  <2> QED
    BY <2>1, <2>2
<1>2. Goal = gc.position /\ Goal' = gc'.position
  BY <1>1, StandingGoal DEF Goal
<1>3. Final' = Final
  BY DEF Final, machine
<1>4. Queued'
  <2>1. todo' # <<>> => Head(todo') # "contact"
    BY <1>1, StandingGoal
  <2> QED
    BY <2>1 DEF Queued, machine, PositionInv
<1> QED
  BY <1>1, <1>2, <1>3, <1>4 DEF PositionInv, OnTheWay, machine

\* A stage that moves has its targets queued: it sets the position to its goal.
LEMMA ArrivalKeeps ==
    ASSUME PositionInv, todo # <<>>, path = <<>>,
           path' = <<>>, UNCHANGED <<abort, queue, mpos>>, todo' = Tail(todo),
           sys' \in {"Cycle", "Jog"} => queue # <<>>, sys = "CheckMode" => sys' = sys,
           ~abort /\ sys # "CheckMode" => gc'.position = Goal, DOMAIN gc' = DOMAIN gc
    PROVE  PositionInv'
<1>1. StagesLeft' /\ (todo' # <<>> => Head(todo') \in Standing)
  BY DoneStage DEF PositionInv
<1>2. Goal' = gc'.position
  BY <1>1, StandingGoal DEF Goal
<1>3. Final' = Final
  BY DEF Final
<1>4. Queued'
  <2>1. todo' # <<>> => Head(todo') # "contact"
    BY <1>1, StandingGoal
  <2> QED
    BY <2>1 DEF Queued, PositionInv
<1> QED
  BY <1>1, <1>2, <1>3, <1>4 DEF PositionInv, OnTheWay

-----------------------------------------------------------------------------
\* At boot everything stands at zero.
LEMMA InitStands == Init => PositionInv
<1> SUFFICES ASSUME Init
             PROVE  PositionInv
  OBVIOUS
<1>1. IsSeq(<<>>)
  BY ShortSequences
<1>2. {"position", "modal"} \subseteq DOMAIN gc /\ gc.position = Zero
  BY DEF Init, gc_init
<1>3. StagesLeft /\ Queued
  BY <1>1 DEF Init, StagesLeft, Queued
<1>4. Final = Zero /\ Goal = Zero
  BY <1>2 DEF Init, Final, Goal
<1> QED
  BY <1>2, <1>3, <1>4 DEF PositionInv, OnTheWay

\* Motion: the next target becomes the place where the machine stands, and a target
\* in mc_line's hands the last that is queued.
LEMMA EndMotionKeeps == ASSUME PositionInv, EndMotion PROVE PositionInv'
<1>1. queue # <<>> /\ IsSeq(queue)
  BY DEF EndMotion, PositionInv, Queued
<1>2. /\ IsSeq(Tail(queue))
      /\ Tail(queue) = <<>> => Head(queue) = LastOf(queue)
      /\ Tail(queue) # <<>> => LastOf(Tail(queue)) = LastOf(queue)
  BY <1>1, TailLast
<1>3. ~(todo # <<>> /\ Head(todo) = "contact")
  BY <1>1 DEF PositionInv, Queued
<1>4. Final' = Final
  BY <1>1, <1>2 DEF EndMotion, Final, execution
<1>5. Goal' = Goal
  BY <1>3 DEF Goal, EndMotion, execution
<1>6. StagesLeft' /\ Queued'
  BY <1>2, <1>3 DEF EndMotion, execution, PositionInv, StagesLeft, Queued
<1>7. gc' = gc /\ abort' = abort /\ (sys # "CheckMode" => sys' # "CheckMode")
      /\ (sys = "CheckMode" => sys' = sys)
  BY DEF EndMotion
<1> QED
  BY <1>4, <1>5, <1>6, <1>7 DEF PositionInv, OnTheWay

LEMMA mc_lineKeeps == ASSUME PositionInv, mc_line PROVE PositionInv'
<1> DEFINE target == Head(path)
<1>1. path # <<>> /\ IsSeq(path) /\ IsSeq(queue)
  BY DEF mc_line, PositionInv, Queued
<1>2. /\ IsSeq(Tail(path))
      /\ Tail(path) = <<>> => target = LastOf(path)
      /\ Tail(path) # <<>> => LastOf(Tail(path)) = LastOf(path)
  BY <1>1, TailLast
<1>3. IsSeq(Append(queue, target)) /\ Append(queue, target) # <<>>
      /\ LastOf(Append(queue, target)) = target
  BY <1>1, AppendLast
<1>4. todo # <<>> /\ Head(todo) # "contact" /\ Head(todo) \in Moving
  BY <1>1 DEF PositionInv, StagesLeft, Queued
<1>5. /\ path' = Tail(path) /\ UNCHANGED <<gc, sys, abort, mpos, block, todo>>
      /\ queue' = queue \/ queue' = Append(queue, target)
      /\ ~abort /\ sys # "CheckMode" => queue' = Append(queue, target)
  BY DEF mc_line
<1> HIDE DEF target
<1>6. Goal' = Goal
  BY <1>4, <1>5 DEF Goal
<1>7. ~abort /\ sys # "CheckMode" => Final' = Final
  BY <1>1, <1>2, <1>3, <1>5 DEF Final
<1>8. StagesLeft'
  BY <1>4, <1>5 DEF PositionInv, StagesLeft
<1>9. Queued'
  BY <1>2, <1>3, <1>4, <1>5 DEF PositionInv, Queued
<1> QED
  BY <1>5, <1>6, <1>7, <1>8, <1>9 DEF PositionInv, OnTheWay

\* Once aborted, nothing is claimed.
LEMMA AbortKeeps ==
    ASSUME PositionInv, abort', UNCHANGED <<gc, queue, execution>>,
           sys' \in {"Cycle", "Jog"} => sys \in {"Cycle", "Jog"}
    PROVE  PositionInv'
<1>1. StagesLeft' /\ Queued'
  BY DEF PositionInv, StagesLeft, Queued, execution
<1> QED
  BY <1>1 DEF PositionInv, OnTheWay, execution

\* Lines begin where the position is.
LEMMA LineStands == ASSUME NEW b PROVE /\ IsSeq(Order(b)) /\ Tail(Order(b)) \in Seq(Standing)
                                       /\ Order(b) # <<>> /\ Head(Order(b)) \in Standing
<1>1. Order(b) \in Seq(Standing) /\ Order(b) # <<>>
  <2>1. \A asked : \A stage \in Standing : Needed(asked, stage) \in Seq(Standing)
    BY DEF Needed
  <2>2. \A s, t \in Seq(Standing) : /\ s \o t \in Seq(Standing)
                                    /\ Len(s \o t) = Len(s) + Len(t)
    OBVIOUS
  <2>3. \A s \in Seq(Standing), stage \in Standing : \A asked :
            s \o Needed(asked, stage) \in Seq(Standing)
    BY <2>1, <2>2
  <2>4. \A s \in Seq(Standing) : \A stage \in Standing :
            s \o <<stage>> \in Seq(Standing) /\ s \o <<stage>> # <<>>
    <3>1. \A stage \in Standing : <<stage>> \in Seq(Standing) /\ Len(<<stage>>) = 1
      OBVIOUS
    <3> QED
      BY <2>2, <3>1
  <2>5. /\ {"speed", "spindle", "coolant", "digital", "analog", "override", "dwell"}
               \subseteq Standing
        /\ {"modes", "toolLength", "coordSelect", "nonModal", "motion", "flow"}
               \subseteq Standing
    BY DEF Standing
  <2> DEFINE first == Needed(b.s # gc.spindle_speed, "speed")
                 \o Needed(b.modal.spindle # gc.modal.spindle, "spindle")
                 \o Needed(b.coolant # "None", "coolant")
             early == first \o Needed(Digital(b), "digital") \o Needed(Analog(b), "analog")
                 \o Needed("parking" \in Features /\ b.modal.override # gc.modal.override,
                           "override")
                 \o Needed(/\ b.non_modal = "Dwell" /\ b.values["P"] > 0
                           /\ sys # "CheckMode", "dwell")
             late == early \o <<"modes">>
                 \o Needed(b.axis_command = "ToolLengthOffset", "toolLength")
                 \o Needed(b.modal.coord_select # gc.modal.coord_select, "coordSelect")
                 \o Needed(b.non_modal \notin {"NoAction", "Dwell", "AbsoluteOverride"},
                           "nonModal")
  <2>6. early \in Seq(Standing)
    <3>1. first \in Seq(Standing)
      BY <2>1, <2>3, <2>5
    <3> HIDE DEF first
    <3> QED
      BY <2>3, <2>5, <3>1
  <2>7. late \in Seq(Standing)
    <3> HIDE DEF early
    <3> QED
      BY <2>3, <2>4, <2>5, <2>6
  <2> DEFINE most == late \o <<"motion">>
             flow == Needed(b.program_flow # "Running", "flow")
  <2>8. most \in Seq(Standing) /\ Len(most) > 0
    <3> HIDE DEF late
    <3> QED
      BY <2>4, <2>5, <2>7
  <2>9. flow \in Seq(Standing)
    BY <2>1, <2>5
  <2>10. Order(b) = most \o flow
    BY DEF Order
  <2>11. Len(Order(b)) > 0 /\ Order(b) \in Seq(Standing)
    <3> HIDE DEF most, flow
    <3> QED
      BY <2>2, <2>8, <2>9, <2>10
  <2> QED
    BY <2>11
<1>2. IsSeq(Order(b))
  BY <1>1, SeqOfItsValues
<1> QED
  BY <1>1, <1>2

\* What a line leaves: the position, the machine, and perhaps a block and its stages.
LEMMA GCodeLineTakes ==
    ASSUME GCodeLine
    PROVE  /\ todo = <<>> /\ path' = path /\ UNCHANGED machine
           /\ \E b : gc' = Parsed(b) /\ todo' \in {todo, Order(b)}
<1>1. PICK line \in {l \in Lines : ~l.jog} :
          LET b == Block(gc, coords, line)
          IN  /\ gc' = Parsed(b)
              /\ IF b.legal THEN block' = b /\ todo' = Order(b)
                 ELSE UNCHANGED <<block, todo>>
  BY DEF GCodeLine
<1> DEFINE b == Block(gc, coords, line)
<1>2. gc' = Parsed(b) /\ todo' \in {todo, Order(b)}
  BY <1>1
<1>3. todo = <<>> /\ path' = path /\ UNCHANGED machine
  BY DEF GCodeLine
<1> HIDE DEF b
<1> QED
  BY <1>2, <1>3

LEMMA JogLineTakes ==
    ASSUME JogLine
    PROVE  /\ todo = <<>> /\ UNCHANGED machine
           /\ \E b : /\ gc' = [gc EXCEPT !.tool = b.tool]
                     /\ \/ UNCHANGED execution
                        \/ block' = b /\ todo' = <<"jog">> /\ path' = <<b.xyz>>
<1>1. PICK line \in {l \in Lines : l.jog} :
          LET b == Block(gc, coords, line)
          IN  /\ gc' = [gc EXCEPT !.tool = b.tool]
              /\ IF b.legal /\ ~limitsCheckTravel(b.xyz)
                 THEN block' = b /\ todo' = <<"jog">> /\ path' = <<b.xyz>>
                 ELSE UNCHANGED execution
  BY DEF JogLine
<1> DEFINE b == Block(gc, coords, line)
<1>2. /\ gc' = [gc EXCEPT !.tool = b.tool]
      /\ \/ UNCHANGED execution
         \/ block' = b /\ todo' = <<"jog">> /\ path' = <<b.xyz>>
  BY <1>1
<1>3. todo = <<>> /\ UNCHANGED machine
  BY DEF JogLine
<1> HIDE DEF b
<1> QED
  BY <1>2, <1>3

LEMMA LinesStand == ASSUME PositionInv, GCodeLine \/ JogLine PROVE PositionInv'
<1>1. /\ todo = <<>> /\ path = <<>> /\ UNCHANGED machine
  <2>1. todo = <<>> /\ UNCHANGED machine
    BY GCodeLineTakes, JogLineTakes
  <2> QED
    BY <2>1 DEF PositionInv, StagesLeft
<1>2. gc'.position = gc.position /\ {"position", "modal"} \subseteq DOMAIN gc'
  <2>0. {"position", "modal"} \subseteq DOMAIN gc
    BY DEF PositionInv
  <2>1. CASE GCodeLine
    <3>1. PICK b : gc' = Parsed(b)
      BY <2>1, GCodeLineTakes
    <3> QED
      BY <2>0, <3>1 DEF Parsed
  <2>2. CASE JogLine
    <3>1. PICK b : gc' = [gc EXCEPT !.tool = b.tool]
      BY <2>2, JogLineTakes
    <3> QED
      BY <2>0, <3>1
  <2> QED
    BY <2>1, <2>2
<1>3. Goal = gc.position
  BY <1>1 DEF Goal
<1>4. CASE UNCHANGED execution
  <2>1. Final' = Final /\ Goal' = gc'.position /\ StagesLeft' /\ Queued'
    BY <1>1, <1>4 DEF execution, machine, Final, Goal, PositionInv, StagesLeft, Queued
  <2> QED
    BY <1>1, <1>2, <1>3, <2>1 DEF PositionInv, OnTheWay, machine
<1>5. ASSUME NEW b, todo' = Order(b), path' = path
      PROVE  PositionInv'
  <2>1. StagesLeft' /\ todo' # <<>> /\ Head(todo') \in Standing
    BY <1>1, <1>5, LineStands DEF StagesLeft
  <2>2. Goal' = gc'.position
    BY <2>1, StandingGoal DEF Goal
  <2>3. Queued'
    BY <1>1, <1>5, <2>1, StandingGoal DEF PositionInv, Queued, machine
  <2>4. Final' = Final
    BY <1>1, <1>5 DEF Final, machine
  <2> QED
    BY <1>1, <1>2, <1>3, <2>1, <2>2, <2>3, <2>4 DEF PositionInv, OnTheWay, machine
<1>6. ASSUME NEW b, block' = b, todo' = <<"jog">>, path' = <<b.xyz>>
      PROVE  PositionInv'
  <2>1. todo' # <<>> /\ IsSeq(todo') /\ Tail(todo') = <<>> /\ Head(todo') = "jog"
    BY <1>6, ShortSequences
  <2>2. path' # <<>> /\ IsSeq(path') /\ LastOf(path') = block'.xyz
    BY <1>6, ShortSequences
  <2>3. StagesLeft'
    <3>1. <<>> \in Seq(Standing) /\ "jog" \in Moving
      BY DEF Moving
    <3> QED
      BY <2>1, <3>1 DEF StagesLeft
  <2>4. Queued'
    BY <1>1, <2>1, <2>2 DEF PositionInv, Queued, machine
  <2>5. Final' = Goal'
    BY <2>1, <2>2 DEF Final, Goal
  <2> QED
    BY <1>2, <2>3, <2>4, <2>5 DEF PositionInv, OnTheWay
<1>7. CASE GCodeLine
  <2>1. PICK b : todo' \in {todo, Order(b)} /\ path' = path
    BY <1>7, GCodeLineTakes
  <2>2. CASE todo' = Order(b)
    BY <2>1, <2>2, <1>5
  <2>3. CASE todo' = todo
    <3>1. Final' = Final /\ Goal' = gc'.position /\ StagesLeft' /\ Queued'
      BY <1>1, <2>1, <2>3 DEF machine, Final, Goal, PositionInv, StagesLeft, Queued
    <3> QED
      BY <1>1, <1>2, <1>3, <3>1 DEF PositionInv, OnTheWay, machine
  <2> QED
    BY <2>1, <2>2, <2>3
<1>8. CASE JogLine
  <2>1. \/ UNCHANGED execution
        \/ \E b : block' = b /\ todo' = <<"jog">> /\ path' = <<b.xyz>>
    BY <1>8, JogLineTakes
  <2> QED
    BY <2>1, <1>4, <1>6
<1> QED
  BY <1>7, <1>8

\* The stages that leave the position and the machine as they are.
StandingStages ==
    \/ SetSpeed \/ SetSpindle \/ SetCoolant \/ SetDigital \/ SetAnalog \/ SetOverride
    \/ Wait \/ SetModes \/ SetToolLength \/ SelectCoordSystem \/ SetCoordinateData
    \/ UseCoordinateData \/ SetHome \/ SetCoordinateOffset \/ Pause \/ Resume \/ EndProgram

LEMMA StandingStagesKeep == ASSUME PositionInv, StandingStages PROVE PositionInv'
<1>1. todo # <<>> /\ Head(todo) \in Standing /\ path = <<>>
  BY DEF StandingStages, SetSpeed, SetSpindle, SetCoolant, SetDigital, SetAnalog, SetOverride,
         Wait, SetModes, SetToolLength, SelectCoordSystem, SetCoordinateData,
         UseCoordinateData, SetHome, SetCoordinateOffset, Pause, Resume, EndProgram, At, Standing
<1>2. UNCHANGED machine
  BY DEF StandingStages, SetSpeed, SetSpindle, SetCoolant, SetDigital, SetAnalog, SetOverride,
         Wait, SetModes, SetToolLength, SelectCoordSystem, SetCoordinateData,
         UseCoordinateData, SetHome, SetCoordinateOffset, Pause, Resume, EndProgram
<1>3. \/ Done \/ Then("wait") \/ Then("coordData") \/ Then("paused")
      \/ todo' = <<>> /\ path' = path
  BY DEF StandingStages, SetSpeed, SetSpindle, SetCoolant, SetDigital, SetAnalog, SetOverride,
         Wait, SetModes, SetToolLength, SelectCoordSystem, SetCoordinateData,
         UseCoordinateData, SetHome, SetCoordinateOffset, Pause, Resume, EndProgram, Fail
<1>4. /\ path' = <<>>
      /\ todo' \in {Tail(todo), <<>>} \/ \E e \in Standing : todo' = <<e>> \o Tail(todo)
  BY <1>1, <1>3 DEF Done, Then, Standing
<1>5. gc'.position = gc.position /\ DOMAIN gc' = DOMAIN gc
  <2>0. {"position", "modal"} \subseteq DOMAIN gc
    BY DEF PositionInv
  <2>1. CASE SetSpeed \/ SetSpindle \/ SetCoolant \/ SetOverride \/ SetModes
    BY <2>0, <2>1 DEF SetSpeed, SetSpindle, SetCoolant, SetOverride, SetModes
  <2>2. CASE SetToolLength \/ SelectCoordSystem \/ UseCoordinateData \/ SetCoordinateOffset
    BY <2>0, <2>2 DEF SetToolLength, SelectCoordSystem, UseCoordinateData, SetCoordinateOffset
  <2>3. CASE EndProgram
    BY <2>0, <2>3 DEF EndProgram
  <2>4. CASE \/ SetDigital \/ SetAnalog \/ Wait \/ SetCoordinateData \/ SetHome \/ Pause
             \/ Resume
    BY <2>4 DEF SetDigital, SetAnalog, Fail, Wait, SetCoordinateData, SetHome, Pause, Resume
  <2> QED
    BY <2>1, <2>2, <2>3, <2>4 DEF StandingStages
<1> QED
  BY <1>1, <1>2, <1>4, <1>5, StandingKeeps

\* The motion of a line: its targets are given to mc_line, the last is the goal.
LEMMA TargetsGiven ==
    ASSUME PositionInv, todo # <<>>, Head(todo) \in Standing, path = <<>>,
           IsSeq(path'), path' # <<>>, UNCHANGED machine,
           NEW e \in Moving \ {"contact"}, todo' = <<e>> \o Tail(todo),
           LastOf(path') = IF e = "home" THEN block'.coord_data ELSE block'.xyz,
           {"position", "modal"} \subseteq DOMAIN gc'
    PROVE  PositionInv'
<1>1. StagesLeft' /\ todo' # <<>> /\ Head(todo') = e
  BY ThenStage DEF PositionInv
<1>2. Final' = LastOf(path')
  BY DEF Final
<1>3. Goal' = LastOf(path')
  BY <1>1 DEF Goal, Moving
<1>4. Queued'
  BY <1>1 DEF PositionInv, Queued, machine
<1> QED
  BY <1>1, <1>2, <1>3, <1>4 DEF PositionInv, OnTheWay

LEMMA MovingStagesKeep ==
    ASSUME PositionInv, GoHomeWay \/ BeginMotion \/ AtHome \/ AtTarget \/ StartJog
    PROVE  PositionInv'
<1>0. {"position", "modal"} \subseteq DOMAIN gc
  BY DEF PositionInv
<1>1. CASE GoHomeWay
  <2>1. todo # <<>> /\ Head(todo) \in Standing /\ path = <<>>
    BY <1>1 DEF GoHomeWay, At, Standing
  <2>2. \/ path' = <<>> \o <<block.coord_data>>
        \/ path' = <<block.xyz>> \o <<block.coord_data>>
    BY <1>1 DEF GoHomeWay
  <2>3. IsSeq(path') /\ path' # <<>> /\ LastOf(path') = block.coord_data /\ block' = block
    BY <1>1, <2>2, ShortSequences DEF GoHomeWay
  <2>4. "home" \in Moving \ {"contact"} /\ todo' = <<"home">> \o Tail(todo) /\ gc' = gc
        /\ UNCHANGED machine
    BY <1>1 DEF GoHomeWay, Moving
  <2> QED
    BY <1>0, <2>1, <2>3, <2>4, TargetsGiven
<1>2. CASE BeginMotion
  <2>1. todo # <<>> /\ Head(todo) \in Standing /\ path = <<>> /\ UNCHANGED machine
    BY <1>2 DEF BeginMotion, At, Standing
  <2>2. gc'.position = gc.position /\ DOMAIN gc' = DOMAIN gc
    BY <1>0, <1>2 DEF BeginMotion
  <2>3. CASE Done \/ Then("probe")
    <3>1. /\ path' = <<>>
          /\ todo' \in {Tail(todo), <<>>} \/ \E e \in Standing : todo' = <<e>> \o Tail(todo)
      BY <2>1, <2>3 DEF Done, Then, Standing
    <3> QED
      BY <2>1, <2>2, <3>1, StandingKeeps
  <2>4. CASE /\ path' \in IF Arc(block) THEN ArcPaths(block) ELSE {<<block.xyz>>}
             /\ todo' = <<"target">> \o Tail(todo) /\ UNCHANGED block
    <3>1. path' = <<block.xyz>> \/ \E via : path' = <<via, block.xyz>>
      BY <2>4 DEF ArcPaths
    <3>2. IsSeq(path') /\ path' # <<>> /\ LastOf(path') = block'.xyz
      <4>1. CASE path' = <<block.xyz>>
        BY <2>4, <4>1, ShortSequences
      <4>2. ASSUME NEW via, path' = <<via, block.xyz>>
            PROVE  IsSeq(path') /\ path' # <<>> /\ LastOf(path') = block'.xyz
        BY <2>4, <4>2, ShortSequences
      <4> QED
        BY <3>1, <4>1, <4>2
    <3>3. "target" \in Moving \ {"contact"}
      BY DEF Moving
    <3> QED
      BY <1>0, <2>1, <2>2, <2>4, <3>2, <3>3, TargetsGiven
  <2>5. \/ Done \/ Then("probe")
        \/ /\ path' \in IF Arc(block) THEN ArcPaths(block) ELSE {<<block.xyz>>}
           /\ todo' = <<"target">> \o Tail(todo) /\ UNCHANGED block
    BY <1>2 DEF BeginMotion
  <2> QED
    BY <2>3, <2>4, <2>5
<1>3. CASE AtHome \/ AtTarget
  <2>1. todo # <<>> /\ path = <<>> /\ path' = <<>> /\ todo' = Tail(todo) /\ UNCHANGED machine
    BY <1>3 DEF AtHome, AtTarget, At, Done
  <2>2. gc'.position = Goal /\ DOMAIN gc' = DOMAIN gc
    BY <1>0, <1>3 DEF AtHome, AtTarget, At, Goal
  <2>3. sys \in {"Cycle", "Jog"} => queue # <<>>
    BY DEF PositionInv, Queued
  <2> QED
    BY <2>1, <2>2, <2>3, ArrivalKeeps DEF machine
<1>4. CASE StartJog
  <2>1. todo # <<>> /\ path = <<>> /\ path' = <<>> /\ todo' = Tail(todo)
        /\ UNCHANGED <<abort, queue, mpos>>
    BY <1>4 DEF StartJog, At, Done
  <2>2. (~abort => gc'.position = Goal) /\ DOMAIN gc' = DOMAIN gc
    BY <1>0, <1>4 DEF StartJog, At, Goal
  <2>3. (sys' \in {"Cycle", "Jog"} => queue # <<>>) /\ (sys = "CheckMode" => sys' = sys)
    BY <1>4 DEF StartJog, PositionInv, Queued
  <2> QED
    BY <2>1, <2>2, <2>3, ArrivalKeeps
<1> QED
  BY <1>1, <1>2, <1>3, <1>4

-----------------------------------------------------------------------------
\* Probing: the target is the goal until there is a contact, then it is where the
\* machine stands.
LEMMA ProbingKeeps == ASSUME PositionInv, StartProbe \/ Contact \/ EndProbe PROVE PositionInv'
<1>0. {"position", "modal"} \subseteq DOMAIN gc /\ (sys \in {"Cycle", "Jog"} => queue # <<>>)
  BY DEF PositionInv, Queued
<1>1. CASE StartProbe
  <2>1. todo # <<>> /\ Head(todo) \in Standing /\ path = <<>>
        /\ UNCHANGED <<abort, queue, mpos>>
    BY <1>1 DEF StartProbe, At, Standing
  <2>2. Goal = gc.position
    BY <2>1, StandingGoal DEF Goal
  <2>3. CASE path' = <<block.xyz>> /\ todo' = <<"probing">> \o Tail(todo) /\ UNCHANGED <<gc, sys, block>>
    <3>1. IsSeq(path') /\ path' # <<>> /\ LastOf(path') = block'.xyz
      BY <2>3, ShortSequences
    <3>2. "probing" \in Moving \ {"contact"} /\ "probing" # "home"
      BY DEF Moving
    <3> QED
      BY <1>0, <2>1, <2>3, <3>1, <3>2, TargetsGiven DEF machine
  <2>4. CASE Done
    <3>1. path' = <<>> /\ todo' = Tail(todo)
      BY <2>1, <2>4 DEF Done
    <3>2. \/ gc' = gc
          \/ gc' = [gc EXCEPT !.position = block.xyz] /\ sys = "CheckMode"
      BY <1>1 DEF StartProbe, Live
    <3>3. DOMAIN gc' = DOMAIN gc /\ (~abort /\ sys # "CheckMode" => gc'.position = Goal)
      BY <2>2, <3>2
    <3>4. /\ sys' \in {"Cycle", "Jog"} => queue # <<>>
          /\ sys = "CheckMode" => sys' = sys
      BY <1>0, <1>1 DEF StartProbe, Live
    <3> QED
      BY <2>1, <3>1, <3>3, <3>4, ArrivalKeeps
  <2> QED
    BY <1>1, <2>3, <2>4 DEF StartProbe
<1>2. CASE Contact
  <2>1. /\ todo # <<>> /\ path = <<>> /\ path' = <<>> /\ todo' = <<"contact">> \o Tail(todo)
        /\ queue' = <<>> /\ sys' = "Idle" /\ gc' = gc
    BY <1>2 DEF Contact, At, Then
  <2>2. StagesLeft' /\ todo' # <<>> /\ Head(todo') = "contact"
    <3>1. "contact" \in Moving \cup Standing
      BY DEF Moving
    <3> QED
      BY <2>1, <3>1, ThenStage DEF PositionInv
  <2>3. Final' = mpos' /\ Goal' = mpos'
    BY <2>1, <2>2 DEF Final, Goal
  <2>4. Queued'
    BY <2>1, ShortSequences DEF Queued
  <2> QED
    BY <1>0, <2>1, <2>2, <2>3, <2>4 DEF PositionInv, OnTheWay
<1>3. CASE EndProbe
  <2>1. todo # <<>> /\ path = <<>> /\ path' = <<>> /\ todo' = Tail(todo)
        /\ UNCHANGED <<abort, queue, mpos>>
        /\ Head(todo) \in {"probing", "contact"}
    BY <1>3 DEF EndProbe, At, Done
  <2>2. DOMAIN gc' = DOMAIN gc /\ (~abort => gc'.position = Goal)
    BY <1>0, <1>3, <2>1 DEF EndProbe, Goal
  <2>3. (sys' \in {"Cycle", "Jog"} => queue # <<>>)
    BY <1>0, <1>3 DEF EndProbe
  <2>4. sys = "CheckMode" => sys' = sys
    BY <1>3 DEF EndProbe
  <2> QED
    BY <2>1, <2>2, <2>3, <2>4, ArrivalKeeps
<1> QED
  BY <1>1, <1>2, <1>3

\* Events: a reset leaves the position to the restart, which takes it from the machine.
LEMMA ResetsKeep ==
    ASSUME PositionInv, limits_soft_check \/ Reset \/ CheckMode \/ Restart
    PROVE  PositionInv'
<1>1. CASE limits_soft_check \/ Reset \/ mc_reset
  <2>1. abort' /\ UNCHANGED <<gc, queue, execution>>
    BY <1>1 DEF limits_soft_check, Reset, mc_reset
  <2>2. sys' \in {"Cycle", "Jog"} => sys \in {"Cycle", "Jog"}
    BY <1>1 DEF limits_soft_check, Reset, mc_reset
  <2> QED
    BY <2>1, <2>2, AbortKeeps
<1>2. CASE CheckMode /\ ~mc_reset
  <2>1. sys' = "CheckMode" /\ UNCHANGED <<gc, abort, queue, mpos, execution>>
    BY <1>2 DEF CheckMode
  <2> QED
    BY <2>1 DEF PositionInv, StagesLeft, Queued, OnTheWay, execution
<1>3. CASE Restart
  <2>1. /\ todo = <<>> /\ path = <<>> /\ UNCHANGED execution /\ queue' = <<>>
        /\ gc' = gc_init(mpos) /\ mpos' = mpos /\ sys' \in {"Alarm", "Idle"}
    BY <1>3 DEF Restart, PositionInv, StagesLeft
  <2>2. {"position", "modal"} \subseteq DOMAIN gc' /\ gc'.position = mpos
    BY <2>1 DEF gc_init
  <2>3. Final' = mpos' /\ Goal' = gc'.position
    BY <2>1 DEF Final, Goal, execution
  <2>4. StagesLeft' /\ Queued'
    BY <2>1, ShortSequences DEF StagesLeft, Queued, execution, PositionInv
  <2> QED
    BY <2>1, <2>2, <2>3, <2>4 DEF PositionInv, OnTheWay
<1> QED
  BY <1>1, <1>2, <1>3

LEMMA OtherEventsKeep ==
    ASSUME PositionInv, StartCycle \/ JogCancel \/ Unlock \/ RestoreParameters
    PROVE  PositionInv'
<1>1. CASE StartCycle \/ Unlock \/ RestoreParameters
  <2>1. /\ UNCHANGED <<gc, abort, queue, mpos, execution>>
        /\ sys' \in {"Cycle", "Jog"} => queue # <<>>
        /\ sys' # "CheckMode" => sys # "CheckMode"
    BY <1>1 DEF StartCycle, Unlock, RestoreParameters, machine, PositionInv, Queued
  <2>2. Final' = Final /\ Goal' = Goal
    BY <2>1 DEF Final, Goal, execution
  <2>3. StagesLeft' /\ Queued'
    BY <2>1 DEF PositionInv, StagesLeft, Queued, execution
  <2> QED
    BY <2>1, <2>2, <2>3 DEF PositionInv, OnTheWay
<1>2. CASE JogCancel
  <2>1. /\ todo' = <<>> /\ path' = <<>> /\ queue' = <<>> /\ sys' = "Idle"
        /\ gc' = [gc EXCEPT !.position = mpos']
    BY <1>2 DEF JogCancel
  <2>2. {"position", "modal"} \subseteq DOMAIN gc' /\ gc'.position = mpos'
    BY <2>1 DEF PositionInv
  <2>3. Final' = mpos' /\ Goal' = mpos' /\ StagesLeft' /\ Queued'
    BY <2>1, <2>2, ShortSequences DEF Final, Goal, StagesLeft, Queued
  <2> QED
    BY <2>2, <2>3 DEF PositionInv, OnTheWay
<1> QED
  BY <1>1, <1>2

LEMMA NextStands == ASSUME PositionInv, [Next]_vars PROVE PositionInv'
<1>1. CASE Next
  <2>1. CASE Stages
    BY <2>1, mc_lineKeeps, ResetsKeep, StandingStagesKeep, MovingStagesKeep, ProbingKeeps
       DEF Stages, StandingStages
  <2>2. CASE Motion
    BY <2>2, OtherEventsKeep, EndMotionKeeps, ProbingKeeps DEF Motion
  <2>3. CASE GCodeLine \/ JogLine \/ Resume
    BY <2>3, LinesStand, StandingStagesKeep DEF StandingStages
  <2>4. CASE Reset \/ Restart \/ JogCancel \/ Unlock \/ CheckMode \/ RestoreParameters
    BY <2>4, ResetsKeep, OtherEventsKeep
  <2> QED
    BY <1>1, <2>1, <2>2, <2>3, <2>4 DEF Next
<1>2. CASE UNCHANGED vars
  BY <1>2 DEF vars, machine, execution, PositionInv, StagesLeft, Queued, OnTheWay, Final, Goal
<1> QED
  BY <1>1, <1>2

\* In every behaviour of the parser and of the machine, whatever the program: at rest
\* between lines, the parser's position is where the machine stands; after probes
\* that hit and that miss, cancelled jogs, resets in the middle of a motion and lines
\* that fail halfway (gc_execute_line, mc_line, mc_probe_cycle, gc_sync_position).
THEOREM PositionAlwaysAgrees == Spec => []PositionAgrees
<1>1. PositionInv => PositionAgrees
  BY DEF PositionInv, StagesLeft, OnTheWay, Final, Goal, PositionAgrees, AtRest
<1> QED
  BY InitStands, NextStands, <1>1, PTL DEF Spec

-----------------------------------------------------------------------------
(* The work coordinates.  A line is parsed with the coordinate system, the  *)
(* offsets and the tool length of its time; what its block says of them is  *)
(* true until the stage that makes use of it, since the stages before it,   *)
(* in their order, change none of it.                                       *)

Point == [Axes -> Int]

\* The words of G-code: which set the coordinate system, and which mean an origin.
GoodWord(w) ==
    /\ w.axis \in {"none", "motion", "NonModal", "MotionMode", "ToolLengthOffset"}
    /\ w.field \in {"none", "non_modal", "motion", "plane_select", "distance", "feed_rate",
                    "units", "tool_length", "coord_select"}
    /\ w.field = "coord_select" => w.value \in ToSet(Systems)
    /\ w.field = "non_modal" /\ w.value \in {"SetCoordinateData", "SetCoordinateOffset"}
       => w.axis = "NonModal"

\* A table has the values of its entries.
LEMMA TableValues ==
    ASSUME NEW entries, NEW code \in DOMAIN Table(entries)
    PROVE  \E e \in entries : Table(entries)[code] = e[2]
<1>1. code \in {e[1] : e \in entries}
  BY DEF Table
<1>2. \E e \in entries : e[1] = code
  BY <1>1
<1> DEFINE e == CHOOSE e \in entries : e[1] = code
<1>3. e \in entries
  BY <1>2
<1>4. Table(entries)[code] = e[2]
  BY <1>1 DEF Table
<1> QED
  BY <1>3, <1>4

\* The coordinate systems, of which G54 is the first.
LEMMA SystemsKnown == /\ DOMAIN Systems = 1 .. Len(Systems) /\ Len(Systems) \in Nat
                      /\ \A i \in 1 .. Len(Systems) : Systems[i] \in ToSet(Systems)
                      /\ "G54" \in ToSet(Systems)
<1>1. DOMAIN Systems = 1 .. Len(Systems) /\ Len(Systems) \in Nat
  BY BlockAssumption DEF BlockAssumption
<1>2. \A i \in 1 .. Len(Systems) : Systems[i] \in ToSet(Systems)
  BY <1>1 DEF ToSet
<1>3. 1 \in 1 .. Len(Systems) /\ Systems[1] = "G54"
  BY <1>1, BlockAssumption DEF BlockAssumption
<1> QED
  BY <1>1, <1>2, <1>3

\* A word is made of what it is given.
LEMMA WordFields ==
    ASSUME NEW group, NEW field, NEW value, NEW axis
    PROVE  LET w == Word(group, field, value, axis)
           IN  w.group = group /\ w.field = field /\ w.value = value /\ w.axis = axis
BY DEF Word

\* Every word of G-code is such a word, group by group.
LEMMA GoodWords == \A code \in DOMAIN GWords : GoodWord(GWords[code])
<1>1. ASSUME NEW e \in NonModalGWords PROVE GoodWord(e[2])
  <2>1. PICK value, axis :
            /\ e[2] = Word("MG0", "non_modal", value, axis) /\ axis \in {"none", "NonModal"}
            /\ value \in {"SetCoordinateData", "SetCoordinateOffset"} => axis = "NonModal"
    BY DEF NonModalGWords
  <2> QED
    BY <2>1, WordFields DEF GoodWord
<1>2. ASSUME NEW e \in MotionGWords PROVE GoodWord(e[2])
  <2>1. PICK value, axis : /\ e[2] = Word("MG1", "motion", value, axis)
                           /\ axis \in {"motion", "MotionMode", "none"}
    BY DEF MotionGWords
  <2> QED
    BY <2>1, WordFields DEF GoodWord
<1>3. ASSUME NEW e \in ModalGWords PROVE GoodWord(e[2])
  <2>1. PICK group, field, value : /\ e[2] = Mode(group, field, value)
                                   /\ field \in {"plane_select", "distance", "feed_rate", "none"}
    BY DEF ModalGWords
  <2> QED
    BY <2>1, WordFields DEF GoodWord, Mode
<1>4. ASSUME NEW e \in OtherGWords PROVE GoodWord(e[2])
  <2>1. PICK group, field, value, axis :
            /\ e[2] = Word(group, field, value, axis)
            /\ field \in {"units", "tool_length", "none"} /\ axis \in {"none", "ToolLengthOffset"}
    BY DEF OtherGWords, Mode
  <2> QED
    BY <2>1, WordFields DEF GoodWord
<1>5. ASSUME NEW e \in CoordSystemGWords PROVE GoodWord(e[2])
  <2>1. PICK i \in 1 .. Len(Systems) : e[2] = Mode("MG12", "coord_select", Systems[i])
    BY DEF CoordSystemGWords
  <2> QED
    BY <2>1, SystemsKnown, WordFields DEF GoodWord, Mode
<1>6. ASSUME NEW code \in DOMAIN GWords PROVE GoodWord(GWords[code])
  <2>1. PICK e \in NonModalGWords \cup MotionGWords \cup ModalGWords \cup OtherGWords
                  \cup CoordSystemGWords : GWords[code] = e[2]
    BY TableValues DEF GWords
  <2> QED
    BY <1>1, <1>2, <1>3, <1>4, <1>5, <2>1
<1> QED
  BY <1>6

\* The words that begin with M are about something else.
LEMMA OtherWords ==
    \A code \in DOMAIN MWords :
        MWords[code].field \in
            {"none", "program_flow", "spindle", "coolant", "override", "io_control"}
<1> DEFINE fields == {"none", "program_flow", "spindle", "coolant", "override", "io_control"}
<1>1. ASSUME NEW e \in FlowMWords \cup OutputMWords \cup AccessoryMWords PROVE e[2].field \in fields
  <2>1. CASE e \in FlowMWords
    <3>1. PICK group, field, value : e[2] = Mode(group, field, value) /\ field \in fields
      BY <2>1 DEF FlowMWords
    <3> QED
      BY <3>1, WordFields DEF Mode
  <2>2. CASE e \in OutputMWords
    <3>1. PICK group, field, value : e[2] = Mode(group, field, value) /\ field \in fields
      BY <2>2 DEF OutputMWords
    <3> QED
      BY <3>1, WordFields DEF Mode
  <2>3. CASE e \in AccessoryMWords
    <3>1. PICK group, field, value : e[2] = Mode(group, field, value) /\ field \in fields
      BY <2>3 DEF AccessoryMWords, Known
    <3> QED
      BY <3>1, WordFields DEF Mode
  <2> QED
    BY <1>1, <2>1, <2>2, <2>3
<1>2. ASSUME NEW code \in DOMAIN MWords PROVE MWords[code].field \in fields
  <2>1. PICK e \in FlowMWords \cup OutputMWords \cup AccessoryMWords : MWords[code] = e[2]
    BY TableValues DEF MWords
  <2> HIDE DEF fields
  <2> QED
    BY <1>1, <2>1
<1> QED
  BY <1>2

-----------------------------------------------------------------------------
\* What a block is after any of its words.
Groups == {"motion", "feed_rate", "plane_select", "units", "distance", "tool_length",
           "coord_select", "spindle", "override"}

BlockFields == {"legal", "jog", "modal", "non_modal", "axis_command", "coolant", "io_control",
                "program_flow", "tool", "command_words", "value_words", "values",
                "xyz", "f", "s", "coord_system", "coord_data"}

Sound(b) ==
    /\ DOMAIN b = BlockFields /\ DOMAIN b.modal = Groups
    /\ b.values \in [Letters -> Int] /\ b.values["P"] >= 0
    /\ b.modal.coord_select \in ToSet(Systems)
    /\ b.non_modal \in {"SetCoordinateData", "SetCoordinateOffset"}
       => b.axis_command \in {"NonModal", "MotionMode"}

\* Commands that do not touch the axis words.
LEMMA CommandKeeps ==
    ASSUME NEW b, Sound(b), NEW word,
           word.field = "coord_select" => word.value \in ToSet(Systems),
           word.field \in {"none", "motion", "plane_select", "distance", "feed_rate", "units",
                           "tool_length", "coord_select", "program_flow", "spindle", "coolant",
                           "override", "io_control"}
    PROVE  Sound(Command(b, word))
<1>1. CASE word.group \in b.command_words
  BY <1>1 DEF Command, Refused, Sound, BlockFields
<1>2. CASE word.group \notin b.command_words
  <2> DEFINE counted == [b EXCEPT !.command_words = @ \cup {word.group}]
  <2>1. Sound(counted) /\ counted.modal = b.modal
    BY DEF Sound, BlockFields
  <2>2. CASE word.field \in DOMAIN b.modal
    <3> DEFINE modal == [b.modal EXCEPT ![word.field] = word.value]
               c == [counted EXCEPT !.modal[word.field] = word.value]
    <3>1. Command(b, word) = c
      <4>1. word.field \notin DOMAIN b
        BY <2>2 DEF Sound, Groups, BlockFields
      <4> QED
        BY <1>2, <2>2, <4>1, Zenon DEF Command
    <3>2. DOMAIN modal = Groups /\ modal.coord_select \in ToSet(Systems)
      BY DEF Sound, Groups
    <3>3. c = [counted EXCEPT !.modal = modal]
      BY <2>1
    <3> HIDE DEF modal, c, counted
    <3>4. Sound([counted EXCEPT !.modal = modal])
      BY <2>1, <3>2 DEF Sound, BlockFields
    <3> QED
      BY <3>1, <3>3, <3>4
  <2>3. CASE word.field \notin DOMAIN b.modal
    <3>1. Command(b, word) \in {counted, [counted EXCEPT ![word.field] = word.value]}
      BY <1>2, <2>3 DEF Command
    <3>2. word.field \in {"none", "program_flow", "coolant", "io_control"}
      BY <2>3 DEF Sound, Groups
    <3> HIDE DEF counted
    <3>3. Sound([counted EXCEPT ![word.field] = word.value])
      BY <2>1, <3>2 DEF Sound, BlockFields
    <3> QED
      BY <2>1, <3>1, <3>3
  <2> QED
    BY <2>2, <2>3
<1> QED
  BY <1>1, <1>2

\* A word of G-code, whose axis command is taken up first.
LEMMA GWordKeeps == ASSUME NEW b, Sound(b), NEW code PROVE Sound(GWord(b, code))
<1> DEFINE word == GWords[code]
           axis == CASE word.axis = "none" -> b.axis_command
                     [] word.axis = "motion" -> "MotionMode"
                     [] OTHER -> word.axis
           c == [b EXCEPT !.axis_command = axis]
<1>1. Sound(Refused(b))
  BY DEF Sound, Refused, BlockFields
<1>2. ASSUME code \in DOMAIN GWords, ~AxisConflict(b, GWords[code])
      PROVE  Sound(Command(c, word))
  <2>1. GoodWord(word)
    BY <1>2, GoodWords
  <2>2. b.axis_command \in {"NonModal", "MotionMode"} => axis \in {"NonModal", "MotionMode"}
    BY <1>2, <2>1 DEF AxisConflict, GoodWord
  <2> HIDE DEF axis
  <2>3. Sound(c) /\ c.axis_command = axis /\ c.command_words = b.command_words
    BY <2>2 DEF Sound, BlockFields
  <2> HIDE DEF c, word
  <2>4. CASE word.field # "non_modal"
    BY <2>1, <2>3, <2>4, CommandKeeps DEF GoodWord
  <2>5. CASE word.field = "non_modal"
    <3> DEFINE counted == [c EXCEPT !.command_words = @ \cup {word.group}]
    <3>1. Sound(counted) /\ counted.axis_command = axis
      BY <2>3 DEF Sound, BlockFields
    <3>2. word.value \in {"SetCoordinateData", "SetCoordinateOffset"} => axis = "NonModal"
      BY <2>1, <2>5 DEF GoodWord, axis
    <3>3. Command(c, word) \in {Refused(c), counted, [counted EXCEPT ![word.field] = word.value]}
      <4>1. word.field \notin DOMAIN c.modal
        BY <2>3, <2>5 DEF Sound, Groups
      <4> QED
        BY <4>1, Zenon DEF Command
    <3> HIDE DEF counted
    <3>4. Sound([counted EXCEPT !.non_modal = word.value])
      BY <3>1, <3>2 DEF Sound, BlockFields
    <3>5. Sound(Refused(c))
      BY <2>3 DEF Sound, Refused, BlockFields
    <3> QED
      BY <2>5, <3>1, <3>3, <3>4, <3>5
  <2> QED
    BY <2>4, <2>5
<1>3. GWord(b, code) \in {Refused(b), Command(c, word)}
  BY Zenon DEF GWord
<1>4. GWord(b, code) # Refused(b) => code \in DOMAIN GWords /\ ~AxisConflict(b, GWords[code])
  BY Zenon DEF GWord
<1> HIDE DEF c, word
<1> QED
  BY <1>1, <1>2, <1>3, <1>4

\* A word that begins with M leaves the axis words alone.
LEMMA MWordKeeps == ASSUME NEW b, Sound(b), NEW code PROVE Sound(MWord(b, code))
<1>1. CASE code \in DOMAIN MWords
  <2>1. Sound(Command(b, MWords[code]))
    BY <1>1, OtherWords, CommandKeeps
  <2> QED
    BY <1>1, <2>1 DEF MWord
<1>2. CASE code \notin DOMAIN MWords
  BY <1>2 DEF MWord, Sound, Refused, BlockFields
<1> QED
  BY <1>1, <1>2

\* A value: a negative P is refused, and any number is a number.
LEMMA ValueWordKeeps ==
    ASSUME NEW b, Sound(b), NEW letter, NEW value \in Int PROVE Sound(ValueWord(b, letter, value))
<1> DEFINE known == IF letter = "T" THEN [b EXCEPT !.tool = value] ELSE b
<1>1. Sound(Refused(b)) /\ Sound(known)
  BY DEF Sound, Refused, BlockFields
<1> HIDE DEF known
<1>2. Sound(Refused(known))
  BY <1>1 DEF Sound, Refused, BlockFields
<1>3. ASSUME letter \in Letters, ~(letter \in NotNegative /\ value < 0)
      PROVE  Sound([known EXCEPT !.values[letter] = value, !.value_words = @ \cup {letter}])
  <2> DEFINE values == [known.values EXCEPT ![letter] = value]
  <2>1. values \in [Letters -> Int] /\ values["P"] >= 0
    BY <1>1, <1>3 DEF Sound, NotNegative, Letters
  <2> HIDE DEF values
  <2>2. Sound([known EXCEPT !.values = values, !.value_words = @ \cup {letter}])
    BY <1>1, <2>1 DEF Sound, BlockFields
  <2> QED
    BY <2>2 DEF values
<1>4. ValueWord(b, letter, value) \in
          {Refused(b), Refused(known),
           [known EXCEPT !.values[letter] = value, !.value_words = @ \cup {letter}]}
  BY Zenon DEF ValueWord, known
<1>5. ValueWord(b, letter, value) \in {Refused(b), Refused(known)}
      \/ (letter \in Letters /\ ~(letter \in NotNegative /\ value < 0))
  BY Zenon DEF ValueWord, known
<1> QED
  BY <1>1, <1>2, <1>3, <1>4, <1>5

\* Any word, then.
LEMMA ImportKeeps ==
    ASSUME NEW b, Sound(b), NEW word \in STRING \X Int PROVE Sound(Import(b, word))
<1>1. Import(b, word) \in {b, GWord(b, word[2]), MWord(b, word[2]), ValueWord(b, word[1], word[2])}
  BY Zenon DEF Import
<1> QED
  BY <1>1, GWordKeeps, MWordKeeps, ValueWordKeeps

-----------------------------------------------------------------------------
\* The block that a line is parsed into.  FoldLeft goes through the sets of positions
\* by their largest element: what it makes of the first k words is sound, by induction
\* on k over the naturals.
LEMMA InductionOverSets ==
  ASSUME NEW T, 0 \in T, \A n \in Nat : n \in T => n + 1 \in T
  PROVE  Nat \subseteq T
<1> SUFFICES ASSUME Nat \ T # {} PROVE FALSE
  OBVIOUS
<1> DEFINE R == OpToRel(<, Nat)
           U == Nat \ T
<1>1. IsWellFoundedOn(R, Nat)
  BY ONLY NatLessThanWellFounded, Zenon
<1>2. \A m, n \in Nat : m < n => <<m, n>> \in R
  BY DEF OpToRel
<1> HIDE DEF R
<1>3. PICK n \in U : \A m \in U : ~(<<m, n>> \in R)
  <2>1. U \subseteq Nat /\ U # {}
    OBVIOUS
  <2> HIDE DEF U
  <2> QED
    BY <1>1, <2>1, WFMin
<1>4. n # 0 /\ n - 1 \in Nat /\ (n - 1) + 1 = n /\ n - 1 < n
  OBVIOUS
<1>5. n - 1 \in T
  BY <1>2, <1>3, <1>4
<1> QED
  BY <1>4, <1>5

\* The fold goes by the largest position.
LEMMA LargestOf == ASSUME NEW k \in Nat, NEW s \in SUBSET (1 .. k), k \in s PROVE Max(s) = k
<1>1. \A y \in s : k >= y
  OBVIOUS
<1>2. \A x \in s : (\A y \in s : x >= y) => x = k
  OBVIOUS
<1> QED
  BY <1>1, <1>2 DEF Max

\* g is what Import makes of the words at any positions.
Imports(g, positions, base, words) ==
    g = [s \in SUBSET positions |-> IF s = {} THEN base ELSE Import(g[s \ {Max(s)}], words[Max(s)])]

\* FoldLeft is a function that is chosen for its equation.
LEMMA FoldUnfolded ==
    ASSUME NEW base, NEW words
    PROVE  FoldLeft(Import, base, words)
           = (CHOOSE g : Imports(g, DOMAIN words, base, words))[DOMAIN words]
BY DEF FoldLeft, MapThenFoldSet, Imports

SoundUpTo(g, k, base, words) ==
    Imports(g, 1 .. k, base, words) /\ \A s \in SUBSET (1 .. k) : Sound(g[s])

\* Before the first word: the base.
LEMMA NoWordImported ==
    ASSUME NEW base, Sound(base), NEW words PROVE \E g : SoundUpTo(g, 0, base, words)
<1> DEFINE g == [s \in SUBSET (1 .. 0) |-> base]
<1>1. \A s \in SUBSET (1 .. 0) : s = {}
  OBVIOUS
<1>2. Imports(g, 1 .. 0, base, words)
  BY <1>1 DEF Imports
<1>3. \A s \in SUBSET (1 .. 0) : Sound(g[s])
  OBVIOUS
<1> HIDE DEF g
<1> QED
  BY <1>2, <1>3 DEF SoundUpTo

\* One word more.
LEMMA WordImported ==
    ASSUME NEW base, NEW words, NEW k \in Nat, words[k + 1] \in STRING \X Int,
           NEW g, SoundUpTo(g, k, base, words)
    PROVE  \E h : SoundUpTo(h, k + 1, base, words)
<1> DEFINE n == k + 1
           h == [s \in SUBSET (1 .. n) |-> IF n \in s THEN Import(g[s \ {n}], words[n]) ELSE g[s]]
           Next1(f, s) == IF s = {} THEN base ELSE Import(f[s \ {Max(s)}], words[Max(s)])
<1>1. /\ n \in Nat
      /\ \A s \in SUBSET (1 .. n) : s \ {n} \in SUBSET (1 .. k) /\ s \ {n} \in SUBSET (1 .. n)
  OBVIOUS
<1>2. \A s \in SUBSET (1 .. k) : s \in SUBSET (1 .. n) /\ n \notin s
  OBVIOUS
<1>3. \A s \in SUBSET (1 .. k) : g[s] = Next1(g, s) /\ Sound(g[s])
  BY DEF SoundUpTo, Imports
<1>4. ASSUME NEW s \in SUBSET (1 .. n), n \in s PROVE h[s] = Next1(h, s) /\ Sound(h[s])
  <2>1. Max(s) = n /\ s # {}
    BY <1>1, <1>4, LargestOf
  <2>2. h[s] = Import(g[s \ {n}], words[n]) /\ h[s \ {n}] = g[s \ {n}]
    BY <1>1, <1>4
  <2>3. Sound(Import(g[s \ {n}], words[n]))
    BY <1>1, <1>3, ImportKeeps
  <2> HIDE DEF h, n
  <2> QED
    BY <2>1, <2>2, <2>3
<1>5. ASSUME NEW s \in SUBSET (1 .. n), n \notin s PROVE h[s] = Next1(h, s) /\ Sound(h[s])
  <2>1. s \in SUBSET (1 .. k)
    BY <1>5
  <2>2. s \ {Max(s)} \in SUBSET (1 .. k)
    BY <2>1
  <2>3. h[s] = g[s] /\ h[s \ {Max(s)}] = g[s \ {Max(s)}]
    BY <1>2, <2>1, <2>2
  <2> HIDE DEF h, n
  <2> QED
    BY <1>3, <2>1, <2>3
<1>6. h = [s \in SUBSET (1 .. n) |-> h[s]]
  OBVIOUS
<1>7. Imports(h, 1 .. n, base, words)
  <2> HIDE DEF h, n
  <2> QED
    BY <1>4, <1>5, <1>6 DEF Imports
<1>8. \A s \in SUBSET (1 .. n) : Sound(h[s])
  BY <1>4, <1>5
<1> HIDE DEF h
<1> QED
  BY <1>7, <1>8 DEF SoundUpTo

\* After all words: what is chosen agrees with what was built word by word.
LEMMA FoldSound ==
    ASSUME NEW base, Sound(base), NEW words \in Seq(STRING \X Int)
    PROVE  Sound(FoldLeft(Import, base, words))
<1> DEFINE T == {k \in Nat : k <= Len(words) => \E g : SoundUpTo(g, k, base, words)}
           f == CHOOSE g : Imports(g, DOMAIN words, base, words)
<1>1. 0 \in T
  BY NoWordImported
<1>2. ASSUME NEW k \in Nat, k \in T PROVE k + 1 \in T
  <2> SUFFICES ASSUME k + 1 <= Len(words) PROVE \E g : SoundUpTo(g, k + 1, base, words)
    OBVIOUS
  <2>1. words[k + 1] \in STRING \X Int
    OBVIOUS
  <2>2. PICK g : SoundUpTo(g, k, base, words)
    BY <1>2
  <2> QED
    BY <2>1, <2>2, WordImported
<1>3. Nat \subseteq T
  <2> HIDE DEF T
  <2> QED
    BY <1>1, <1>2, InductionOverSets
<1>4. DOMAIN words = 1 .. Len(words) /\ Len(words) \in Nat
  OBVIOUS
<1>5. PICK g : SoundUpTo(g, Len(words), base, words)
  BY <1>3, <1>4
<1>6. Imports(f, DOMAIN words, base, words)
  BY <1>4, <1>5, Zenon DEF SoundUpTo
<1> HIDE DEF f
<1> DEFINE U == {k \in Nat : k <= Len(words) => \A s \in SUBSET (1 .. k) : f[s] = g[s]}
<1>7. ASSUME NEW s \in SUBSET DOMAIN words
      PROVE  /\ f[s] = IF s = {} THEN base ELSE Import(f[s \ {Max(s)}], words[Max(s)])
             /\ g[s] = IF s = {} THEN base ELSE Import(g[s \ {Max(s)}], words[Max(s)])
  <2>1. Imports(g, DOMAIN words, base, words)
    BY <1>4, <1>5 DEF SoundUpTo
  <2> QED
    BY <1>6, <2>1 DEF Imports
<1>8. 0 \in U
  <2>1. \A s \in SUBSET (1 .. 0) : s = {} /\ s \in SUBSET DOMAIN words
    OBVIOUS
  <2> QED
    BY <1>7, <2>1
<1>9. ASSUME NEW k \in Nat, k \in U PROVE k + 1 \in U
  <2> SUFFICES ASSUME k + 1 <= Len(words), NEW s \in SUBSET (1 .. k + 1) PROVE f[s] = g[s]
    OBVIOUS
  <2>1. \A t \in SUBSET (1 .. k) : f[t] = g[t]
    BY <1>9
  <2>2. CASE k + 1 \in s
    <3>1. s \in SUBSET DOMAIN words /\ Max(s) = k + 1 /\ s \ {k + 1} \in SUBSET (1 .. k)
      BY <1>4, <2>2, LargestOf
    <3> QED
      BY <1>7, <2>1, <3>1
  <2>3. CASE k + 1 \notin s
    BY <2>1, <2>3
  <2> QED
    BY <2>2, <2>3
<1>10. Nat \subseteq U
  <2> HIDE DEF U
  <2> QED
    BY <1>8, <1>9, InductionOverSets
<1>11. f[DOMAIN words] = g[DOMAIN words]
  BY <1>4, <1>10
<1>12. Sound(g[DOMAIN words])
  BY <1>4, <1>5 DEF SoundUpTo
<1> QED
  BY <1>11, <1>12, FoldUnfolded DEF f

-----------------------------------------------------------------------------
\* The parser's state and the places are numbers on each axis.
Fields == {"modal", "coolant", "feed_rate", "spindle_speed", "tool", "position",
           "coord_system", "coord_offset", "tool_length_offset"}

Numbers(g) ==
    /\ DOMAIN g = Fields /\ DOMAIN g.modal = Groups
    /\ g.position \in Point /\ g.coord_system \in Point /\ g.coord_offset \in Point
    /\ g.tool_length_offset \in Int
    /\ g.modal.coord_select \in ToSet(Systems)

PlacesKnown == /\ coords \in [CoordNames -> Point] /\ mpos \in Point
               /\ queue \in Seq(Point) /\ path \in Seq(Point)

\* What a block says, and that a line with an origin does not change the tool.
Numbered(b) ==
    /\ b.values \in [Letters -> Int]
    /\ b.xyz \in Point /\ b.coord_system \in Point /\ b.coord_data \in Point
    /\ b.modal.coord_select \in ToSet(Systems)
    /\ b.non_modal \in {"SetCoordinateData", "SetCoordinateOffset"}
       => b.axis_command # "ToolLengthOffset"

ToAbsolute(b) == /\ b.non_modal = "NoAction" /\ b.axis_command = "MotionMode"
                 /\ b.modal.motion \in {"Seek", "Linear"} /\ b.modal.distance = "Absolute"

\* A target, the offset of G92 and the data of G10 L20, for which the position reads
\* the numbers of the line, with the offsets that g has.
TargetTrue(g, b) ==
    ToAbsolute(b) => \A a \in Named(b) :
        b.xyz[a] = Mm(b, b.values[a]) + b.coord_system[a] + g.coord_offset[a] + ToolLength(g, a)

OffsetTrue(g, b) ==
    b.non_modal = "SetCoordinateOffset" => \A a \in Named(b) :
        b.xyz[a] = Origin(g, b, a) - b.coord_system[a]

DataTrue(g, b) ==
    b.non_modal = "SetCoordinateData" /\ b.values["L"] = 20 => \A a \in Named(b) :
        b.coord_data[a] = Origin(g, b, a) - g.coord_offset[a]

\* A line is parsed into a sound block, whatever its words.
LEMMA ParseSound ==
    ASSUME Numbers(gc), NEW line \in Lines PROVE Sound(Parse(gc, line))
<1>1. line.words \in Seq(STRING \X Int) /\ line.jog \in BOOLEAN
  BY MachineAssumption DEF MachineAssumption
<1>2. Sound(NewBlock(gc, line.jog))
  <2> DEFINE modal == IF line.jog
                      THEN [gc.modal EXCEPT !.motion = "Linear", !.feed_rate = "UnitsPerMin"]
                      ELSE gc.modal
  <2>1. DOMAIN modal = Groups /\ modal.coord_select \in ToSet(Systems)
    BY DEF Numbers, Groups
  <2>2. NewBlock(gc, line.jog).modal = modal
    BY DEF NewBlock
  <2> HIDE DEF modal
  <2>3. /\ DOMAIN NewBlock(gc, line.jog) = BlockFields
        /\ NewBlock(gc, line.jog).non_modal = "NoAction"
        /\ NewBlock(gc, line.jog).values = [l \in Letters |-> 0]
    BY DEF NewBlock, BlockFields
  <2>4. "P" \in Letters
    BY DEF Letters
  <2> QED
    BY <2>1, <2>2, <2>3, <2>4 DEF Sound
<1> QED
  BY <1>1, <1>2, FoldSound DEF Parse

\* Conversion to millimetres gives a number.
LEMMA MmNumber == ASSUME NEW b, NEW v \in Int PROVE Mm(b, v) \in Int
  BY BlockAssumption DEF Mm, BlockAssumption

\* The systems of the program and G28's and G30's are stored.
LEMMA SystemNames ==
    ToSet(Systems) \subseteq CoordNames /\ {"G28", "G30", "G54"} \subseteq CoordNames
  BY SystemsKnown DEF CoordNames

\* What is computed from sound words is a number for each axis.
LEMMA BlockNumbers ==
    ASSUME Numbers(gc), PlacesKnown, NEW p, Sound(p), G10Legal(p)
    PROVE  /\ CoordSystem(gc, coords, p) \in Point
           /\ CoordData(gc, coords, p) \in Point
           /\ Xyz(gc, coords, p) \in Point
<1> DEFINE sys0 == CoordSystem(gc, coords, p)
<1>1. \A c \in CoordNames : coords[c] \in Point
  BY DEF PlacesKnown
<1>2. sys0 \in Point
  BY <1>1, SystemNames DEF CoordSystem, Numbers, Sound
<1>3. \A a \in Axes : /\ sys0[a] \in Int /\ gc.position[a] \in Int /\ gc.coord_offset[a] \in Int
                      /\ ToolLength(gc, a) \in Int
  BY <1>2 DEF Point, Numbers, ToolLength
<1> HIDE DEF sys0
<1>4. \A a \in Axes : Mm(p, p.values[a]) \in Int
  <2>1. \A a \in Axes : p.values[a] \in Int
    BY DEF Sound, Letters
  <2> QED
    BY <2>1, MmNumber
<1>5. \A a \in Axes : Origin(gc, p, a) \in Int
  BY <1>3, <1>4 DEF Origin
<1>6. CoordData(gc, coords, p) \in Point
  <2>1. CASE p.non_modal = "SetCoordinateData"
    <3>1. CoordIndex(p) \in CoordNames
      <4>1. p.values["P"] \in Int /\ p.values["P"] >= 0 /\ p.values["P"] <= Len(Systems)
        BY <2>1 DEF Sound, G10Legal, Letters
      <4> QED
        BY <4>1, SystemsKnown, SystemNames DEF CoordIndex, Sound
    <3>2. \A a \in Axes : coords[CoordIndex(p)][a] \in Int
      BY <1>1, <3>1 DEF Point
    <3>3. CoordData(gc, coords, p) =
              [a \in Axes |->
                 IF a \notin Named(p) THEN coords[CoordIndex(p)][a]
                 ELSE IF p.values["L"] = 20 THEN Origin(gc, p, a) - gc.coord_offset[a]
                 ELSE Mm(p, p.values[a])]
      BY <2>1 DEF CoordData, GoHome
    <3> QED
      BY <1>3, <1>4, <1>5, <3>2, <3>3 DEF Point
  <2>2. CASE p.non_modal \in GoHome
    <3> DEFINE stored == coords[IF p.non_modal = "GoHome0" THEN "G28" ELSE "G30"]
    <3>1. stored \in Point
      BY <1>1, SystemNames
    <3>2. CoordData(gc, coords, p) =
              [a \in Axes |-> IF Named(p) # {} /\ a \notin Named(p) THEN gc.position[a] ELSE stored[a]]
      BY <2>2 DEF CoordData, GoHome
    <3> HIDE DEF stored
    <3> QED
      BY <1>3, <3>1, <3>2 DEF Point
  <2>3. CASE p.non_modal # "SetCoordinateData" /\ p.non_modal \notin GoHome
    BY <2>3 DEF CoordData, Zero, Point
  <2> QED
    BY <2>1, <2>2, <2>3
<1>7. Xyz(gc, coords, p) \in Point
  <2> DEFINE x == Xyz(gc, coords, p)
  <2>1. DOMAIN x = Axes /\ x = [a \in Axes |-> x[a]]
    BY DEF Xyz
  <2>2. ASSUME NEW a \in Axes PROVE x[a] \in Int
    <3>1. CASE p.non_modal = "SetCoordinateData"
      BY <1>4, <3>1 DEF Xyz
    <3>2. CASE p.non_modal = "SetCoordinateOffset"
      BY <1>3, <1>5, <3>2 DEF Xyz, sys0
    <3>3. CASE p.non_modal \notin {"SetCoordinateData", "SetCoordinateOffset"}
      <4> DEFINE value == Mm(p, p.values[a])
                 moved == IF a \notin Named(p) THEN gc.position[a]
                          ELSE IF p.non_modal = "AbsoluteOverride" THEN value
                          ELSE IF p.modal.distance = "Absolute"
                          THEN value + sys0[a] + gc.coord_offset[a] + ToolLength(gc, a)
                          ELSE value + gc.position[a]
      <4>1. x[a] \in {0, value, moved}
        BY <3>3 DEF Xyz, sys0
      <4>2. value \in Int /\ moved \in Int
        BY <1>3, <1>4
      <4> HIDE DEF x, value, moved
      <4> QED
        BY <4>1, <4>2
    <3> QED
      BY <3>1, <3>2, <3>3
  <2> HIDE DEF x
  <2> QED
    BY <2>1, <2>2 DEF Point, x
<1> QED
  BY <1>2, <1>6, <1>7 DEF sys0

\* The block of a line that was found right: its words, and what was computed of them.
LEMMA BlockLegal ==
    ASSUME Numbers(gc), NEW line \in Lines, Block(gc, coords, line).legal
    PROVE  LET b == Block(gc, coords, line)
               p == Parse(gc, line)
           IN  /\ G10Legal(p)
               /\ b.values = p.values /\ b.value_words = p.value_words /\ b.non_modal = p.non_modal
               /\ b.axis_command = AxisCommand(p)
               /\ b.modal.coord_select = p.modal.coord_select /\ b.modal.units = p.modal.units
               /\ b.modal.motion = p.modal.motion /\ b.modal.distance = p.modal.distance
               /\ b.xyz = Xyz(gc, coords, p) /\ b.coord_system = CoordSystem(gc, coords, p)
               /\ b.coord_data = CoordData(gc, coords, p)
<1> DEFINE p == Parse(gc, line)
           xyz == Xyz(gc, coords, p)
           system == CoordSystem(gc, coords, p)
           data == CoordData(gc, coords, p)
           axis == AxisCommand(p)
           rate == FeedRate(gc, p)
           off == OverrideTakesP(p) /\ p.values["P"] = 0
           s == IF "S" \in p.value_words THEN p.values["S"] ELSE gc.spindle_speed
           b == [p EXCEPT !.axis_command = axis, !.modal.override = IF off THEN "Disabled" ELSE @,
                          !.xyz = xyz, !.f = rate, !.s = s, !.coord_system = system,
                          !.coord_data = data]
<1>1. Sound(p)
  BY ParseSound
<1>2. Block(gc, coords, line) = Refused(p) \/ (Block(gc, coords, line) = b /\ G10Legal(p))
  BY DEF Block
<1> HIDE DEF p, xyz, system, data, axis, rate, off, s
<1>3. Refused(p).legal = FALSE
  BY <1>1 DEF Refused, Sound, BlockFields
<1>4. Block(gc, coords, line) = b /\ G10Legal(p)
  BY <1>2, <1>3
<1> DEFINE modal == [p.modal EXCEPT !.override = IF off THEN "Disabled" ELSE @]
<1>5. b = [p EXCEPT !.axis_command = axis, !.modal = modal, !.xyz = xyz, !.f = rate, !.s = s,
                    !.coord_system = system, !.coord_data = data]
  BY <1>1 DEF Sound, BlockFields
<1>6. /\ modal.coord_select = p.modal.coord_select /\ modal.units = p.modal.units
      /\ modal.motion = p.modal.motion /\ modal.distance = p.modal.distance
  BY <1>1 DEF Sound, Groups
<1> HIDE DEF modal
<1>7. /\ b.values = p.values /\ b.value_words = p.value_words /\ b.non_modal = p.non_modal
      /\ b.axis_command = axis /\ b.modal = modal /\ b.xyz = xyz /\ b.coord_system = system
      /\ b.coord_data = data
  BY <1>1, <1>5 DEF Sound, BlockFields
<1> QED
  BY <1>4, <1>6, <1>7 DEF p, xyz, system, data, axis

\* It says what is true at its time.
LEMMA BlockTrue ==
    ASSUME Numbers(gc), PlacesKnown, NEW line \in Lines, Block(gc, coords, line).legal
    PROVE  LET b == Block(gc, coords, line)
           IN  /\ Numbered(b) /\ TargetTrue(gc, b) /\ OffsetTrue(gc, b) /\ DataTrue(gc, b)
               /\ b.modal.coord_select = gc.modal.coord_select => b.coord_system = gc.coord_system
<1> DEFINE b == Block(gc, coords, line)
           p == Parse(gc, line)
           system == CoordSystem(gc, coords, p)
           xyz == Xyz(gc, coords, p)
           data == CoordData(gc, coords, p)
<1>1. Sound(p)
  BY ParseSound
<1>2. /\ G10Legal(p)
      /\ b.values = p.values /\ b.value_words = p.value_words /\ b.non_modal = p.non_modal
      /\ b.axis_command = AxisCommand(p)
      /\ b.modal.coord_select = p.modal.coord_select /\ b.modal.units = p.modal.units
      /\ b.modal.motion = p.modal.motion /\ b.modal.distance = p.modal.distance
      /\ b.xyz = xyz /\ b.coord_system = system /\ b.coord_data = data
  BY BlockLegal
<1> HIDE DEF b, p
<1>3. system \in Point /\ data \in Point /\ xyz \in Point
  BY <1>1, <1>2, BlockNumbers
<1>4. AxisCommand(p) \in {"None", Asked(p)}
  BY DEF AxisCommand
<1>5. Named(b) = Named(p) /\ \A a : Mm(b, b.values[a]) = Mm(p, p.values[a])
  BY <1>2 DEF Named, Mm
<1>6. \A a : Origin(gc, b, a) = Origin(gc, p, a)
  BY <1>5 DEF Origin
<1>7. Numbered(b)
  <2>1. p.non_modal \in {"SetCoordinateData", "SetCoordinateOffset"}
        => AxisCommand(p) # "ToolLengthOffset"
    BY <1>1, <1>4 DEF Sound, Asked
  <2> HIDE DEF system, xyz, data
  <2> QED
    BY <1>1, <1>2, <1>3, <2>1 DEF Numbered, Sound
<1>8. TargetTrue(gc, b)
  <2> SUFFICES ASSUME ToAbsolute(b), NEW a \in Named(b)
               PROVE  xyz[a] = Mm(p, p.values[a]) + system[a] + gc.coord_offset[a] + ToolLength(gc, a)
    BY <1>2, <1>5 DEF TargetTrue
  <2>1. /\ p.non_modal = "NoAction" /\ p.modal.distance = "Absolute" /\ Asked(p) = "MotionMode"
        /\ a \in Named(p) /\ a \in Axes
    BY <1>2, <1>4, <1>5 DEF ToAbsolute, Named
  <2> QED
    BY <2>1 DEF Xyz
<1>9. OffsetTrue(gc, b)
  <2> SUFFICES ASSUME p.non_modal = "SetCoordinateOffset", NEW a \in Named(p)
               PROVE  xyz[a] = Origin(gc, p, a) - system[a]
    BY <1>2, <1>5, <1>6 DEF OffsetTrue
  <2> QED
    BY DEF Xyz, Named
<1>10. DataTrue(gc, b)
  <2> SUFFICES ASSUME p.non_modal = "SetCoordinateData", p.values["L"] = 20, NEW a \in Named(p)
               PROVE  data[a] = Origin(gc, p, a) - gc.coord_offset[a]
    BY <1>2, <1>5, <1>6 DEF DataTrue
  <2> QED
    BY DEF CoordData, Named, GoHome
<1>11. b.modal.coord_select = gc.modal.coord_select => b.coord_system = gc.coord_system
  BY <1>2 DEF CoordSystem
<1> QED
  BY <1>7, <1>8, <1>9, <1>10, <1>11 DEF b

-----------------------------------------------------------------------------
\* The order of execution: a stage that takes the place of another comes before what
\* comes after that.
Place == [speed |-> 1, spindle |-> 2, coolant |-> 3, digital |-> 4, analog |-> 5,
          override |-> 6, dwell |-> 7, modes |-> 8, toolLength |-> 9, wait |-> 9,
          coordSelect |-> 10, nonModal |-> 11, coordData |-> 11, home |-> 11,
          motion |-> 12, target |-> 12, jog |-> 12, probe |-> 12, probing |-> 12,
          contact |-> 12, flow |-> 13, paused |-> 13]

AnyStage == Moving \cup Standing

Rising(s) == \A i, j \in DOMAIN s : i < j => Place[s[i]] < Place[s[j]]

\* The places of the stages, one by one.
LEMMA Places ==
    /\ \A stage \in AnyStage : Place[stage] \in 1 .. 13
    /\ Place["speed"] = 1 /\ Place["spindle"] = 2 /\ Place["coolant"] = 3
    /\ Place["digital"] = 4 /\ Place["analog"] = 5 /\ Place["override"] = 6
    /\ Place["dwell"] = 7 /\ Place["modes"] = 8 /\ Place["toolLength"] = 9 /\ Place["wait"] = 9
    /\ Place["coordSelect"] = 10 /\ Place["nonModal"] = 11 /\ Place["coordData"] = 11
    /\ Place["home"] = 11 /\ Place["motion"] = 12 /\ Place["target"] = 12 /\ Place["jog"] = 12
    /\ Place["probe"] = 12 /\ Place["probing"] = 12 /\ Place["contact"] = 12
    /\ Place["flow"] = 13 /\ Place["paused"] = 13
BY DEF Place, AnyStage, Moving, Standing

\* The stages of a sequence are those at its positions.
LEMMA StagesIn == ASSUME NEW s \in Seq(AnyStage)
                  PROVE  /\ DOMAIN s = 1 .. Len(s) /\ Len(s) \in Nat
                         /\ \A i \in DOMAIN s : s[i] \in AnyStage /\ s[i] \in ToSet(s)
                         /\ \A e \in ToSet(s) : \E i \in DOMAIN s : s[i] = e
<1>1. DOMAIN s = 1 .. Len(s) /\ Len(s) \in Nat /\ \A i \in DOMAIN s : s[i] \in AnyStage
  OBVIOUS
<1> QED
  BY <1>1 DEF ToSet

\* What is left when the head is gone comes after it.
LEMMA TailRises ==
    ASSUME NEW s \in Seq(AnyStage), s # <<>>, Rising(s)
    PROVE  /\ Tail(s) \in Seq(AnyStage) /\ Rising(Tail(s))
           /\ \A e \in ToSet(Tail(s)) : e \in ToSet(s) /\ Place[Head(s)] < Place[e]
           /\ \A e \in ToSet(s) : e = Head(s) \/ e \in ToSet(Tail(s))
           /\ Head(s) \in ToSet(s) /\ Head(s) \in AnyStage
<1> DEFINE t == Tail(s)
<1>1. /\ t \in Seq(AnyStage) /\ Len(t) = Len(s) - 1 /\ Len(t) \in Nat
      /\ \A i \in 1 .. Len(t) : t[i] = s[i + 1]
  OBVIOUS
<1>2. Head(s) = s[1] /\ 1 \in DOMAIN s /\ DOMAIN s = 1 .. Len(s) /\ Len(s) \in Nat
  OBVIOUS
<1>3. DOMAIN t = 1 .. Len(t)
  BY <1>1
<1> HIDE DEF t
<1>4. Rising(t)
  <2>1. \A i \in DOMAIN t : i + 1 \in DOMAIN s /\ t[i] = s[i + 1]
    BY <1>1, <1>2, <1>3
  <2>2. \A i, j \in DOMAIN t : i < j => i + 1 < j + 1
    BY <1>1, <1>3
  <2> QED
    BY <2>1, <2>2 DEF Rising
<1>5. ASSUME NEW e \in ToSet(t) PROVE e \in ToSet(s) /\ Place[Head(s)] < Place[e]
  <2>1. PICK i \in 1 .. Len(t) : t[i] = e
    BY <1>1, <1>3, StagesIn
  <2>2. i + 1 \in DOMAIN s /\ 1 < i + 1 /\ s[i + 1] = e
    BY <1>1, <1>2, <2>1
  <2> QED
    BY <1>2, <2>2, StagesIn DEF Rising
<1>6. ASSUME NEW e \in ToSet(s), e # Head(s) PROVE e \in ToSet(t)
  <2>1. PICK i \in DOMAIN s : s[i] = e
    BY StagesIn
  <2>2. i - 1 \in 1 .. Len(t) /\ (i - 1) + 1 = i
    BY <1>1, <1>2, <1>6, <2>1
  <2>3. t[i - 1] = e
    BY <1>1, <2>1, <2>2
  <2> QED
    BY <1>1, <1>3, <2>2, <2>3, StagesIn
<1>7. Head(s) \in ToSet(s) /\ Head(s) \in AnyStage
  BY <1>2, StagesIn
<1> QED
  BY <1>1, <1>4, <1>5, <1>6, <1>7 DEF t

\* A head that goes before what follows.
LEMMA HeadRises ==
    ASSUME NEW t \in Seq(AnyStage), Rising(t), NEW e \in AnyStage,
           \A d \in ToSet(t) : Place[e] < Place[d]
    PROVE  /\ <<e>> \o t \in Seq(AnyStage) /\ <<e>> \o t # <<>> /\ Rising(<<e>> \o t)
           /\ \A d \in ToSet(<<e>> \o t) : d = e \/ d \in ToSet(t)
           /\ \A d \in ToSet(t) : d \in ToSet(<<e>> \o t)
<1> DEFINE r == <<e>> \o t
<1>1. /\ r \in Seq(AnyStage) /\ Len(r) = Len(t) + 1 /\ r[1] = e /\ Len(t) \in Nat
      /\ \A i \in 1 .. Len(t) : r[i + 1] = t[i]
  OBVIOUS
<1>2. DOMAIN r = 1 .. Len(r) /\ DOMAIN t = 1 .. Len(t) /\ r # <<>>
  BY <1>1
<1> HIDE DEF r
<1>3. \A i \in DOMAIN r : i = 1 \/ (i - 1 \in DOMAIN t /\ r[i] = t[i - 1])
  <2>1. \A i \in DOMAIN r : i = 1 \/ (i - 1 \in 1 .. Len(t) /\ (i - 1) + 1 = i)
    BY <1>1, <1>2
  <2> QED
    BY <1>1, <1>2, <2>1
<1>4. ASSUME NEW i \in DOMAIN r, NEW j \in DOMAIN r, i < j PROVE Place[r[i]] < Place[r[j]]
  <2>1. j - 1 \in DOMAIN t /\ r[j] = t[j - 1] /\ t[j - 1] \in ToSet(t)
    BY <1>2, <1>3, <1>4, StagesIn
  <2>2. CASE i = 1
    BY <1>1, <2>1, <2>2
  <2>3. CASE i # 1
    <3>1. i - 1 \in DOMAIN t /\ r[i] = t[i - 1] /\ i - 1 < j - 1
      BY <1>2, <1>3, <1>4, <2>3
    <3> QED
      BY <2>1, <3>1 DEF Rising
  <2> QED
    BY <2>2, <2>3
<1>5. \A d \in ToSet(r) : d = e \/ d \in ToSet(t)
  <2>1. \A d \in ToSet(r) : \E i \in DOMAIN r : r[i] = d
    BY <1>1, StagesIn
  <2> QED
    BY <1>1, <1>3, <2>1, StagesIn
<1>6. \A d \in ToSet(t) : d \in ToSet(r)
  <2>1. \A d \in ToSet(t) : \E i \in 1 .. Len(t) : t[i] = d
    BY <1>2, StagesIn
  <2>2. \A i \in 1 .. Len(t) : i + 1 \in DOMAIN r /\ r[i + 1] = t[i]
    BY <1>1, <1>2
  <2> QED
    BY <1>1, <2>1, <2>2, StagesIn
<1> QED
  BY <1>1, <1>2, <1>4, <1>5, <1>6 DEF Rising, r

\* The stages of a line as far as a place.
UpTo(s, k) == s \in Seq(AnyStage) /\ Rising(s) /\ \A e \in ToSet(s) : Place[e] <= k

\* A stage at the next place.
LEMMA StageTaken ==
    ASSUME NEW k \in Nat, NEW s, UpTo(s, k), NEW stage \in AnyStage, Place[stage] = k + 1
    PROVE  /\ UpTo(s \o <<stage>>, k + 1) /\ stage \in ToSet(s \o <<stage>>)
           /\ \A e \in ToSet(s \o <<stage>>) : e \in ToSet(s) \/ e = stage
           /\ \A e \in ToSet(s) : e \in ToSet(s \o <<stage>>)
<1>1. s \in Seq(AnyStage) /\ \A e \in ToSet(s) : Place[e] <= k /\ Place[e] \in Int
  <2>1. \A e \in ToSet(s) : e \in AnyStage
    BY StagesIn DEF UpTo
  <2> QED
    BY <2>1, Places DEF UpTo
<1> DEFINE r == s \o <<stage>>
<1>2. /\ r \in Seq(AnyStage) /\ Len(r) = Len(s) + 1 /\ Len(s) \in Nat /\ r[Len(s) + 1] = stage
      /\ \A i \in 1 .. Len(s) : r[i] = s[i]
  BY <1>1
<1>3. DOMAIN r = 1 .. Len(r) /\ DOMAIN s = 1 .. Len(s)
  BY <1>1, <1>2
<1> HIDE DEF r
<1>4. \A i \in DOMAIN r : \/ i \in DOMAIN s /\ r[i] = s[i] /\ s[i] \in ToSet(s)
                          \/ i = Len(s) + 1 /\ r[i] = stage
  BY <1>1, <1>2, <1>3, StagesIn
<1>5. ASSUME NEW i \in DOMAIN r, NEW j \in DOMAIN r, i < j PROVE Place[r[i]] < Place[r[j]]
  <2>1. i \in DOMAIN s /\ r[i] = s[i] /\ s[i] \in ToSet(s)
    BY <1>2, <1>3, <1>4, <1>5
  <2>2. CASE j = Len(s) + 1 /\ r[j] = stage
    BY <1>1, <2>1, <2>2
  <2>3. CASE j \in DOMAIN s /\ r[j] = s[j]
    BY <1>5, <2>1, <2>3 DEF UpTo, Rising
  <2> QED
    BY <1>4, <2>2, <2>3
<1>6. \A e \in ToSet(r) : e \in ToSet(s) \/ e = stage
  <2>1. \A e \in ToSet(r) : \E i \in DOMAIN r : r[i] = e
    BY <1>2, StagesIn
  <2> QED
    BY <1>4, <2>1
<1>7. stage \in ToSet(r)
  <2>1. Len(s) + 1 \in DOMAIN r
    BY <1>2, <1>3
  <2> QED
    BY <1>2, <2>1, StagesIn
<1>8. \A e \in ToSet(s) : e \in ToSet(r)
  <2>1. \A e \in ToSet(s) : \E i \in DOMAIN s : s[i] = e
    BY <1>1, StagesIn
  <2>2. \A i \in DOMAIN s : i \in DOMAIN r /\ r[i] = s[i]
    BY <1>2, <1>3
  <2> QED
    BY <1>2, <2>1, <2>2, StagesIn
<1>9. \A e \in ToSet(r) : Place[e] <= k + 1
  BY <1>1, <1>6
<1> QED
  BY <1>2, <1>5, <1>6, <1>7, <1>8, <1>9 DEF UpTo, Rising, r

\* The stages of a block as far as a place: none is among them that only follows from
\* another.
Begun(b, s, k) ==
    /\ UpTo(s, k) /\ "target" \notin ToSet(s) /\ "coordData" \notin ToSet(s)
    /\ "toolLength" \in ToSet(s) => b.axis_command = "ToolLengthOffset"

\* A stage that every line has.
LEMMA StageBegun ==
    ASSUME NEW b, NEW k \in Nat, NEW s, Begun(b, s, k),
           NEW stage \in AnyStage, Place[stage] = k + 1, stage \notin {"target", "coordData"},
           stage = "toolLength" => b.axis_command = "ToolLengthOffset"
    PROVE  /\ Begun(b, s \o <<stage>>, k + 1) /\ stage \in ToSet(s \o <<stage>>)
           /\ \A e \in ToSet(s) : e \in ToSet(s \o <<stage>>)
BY StageTaken DEF Begun

\* A stage that a line may have.
LEMMA NextBegun ==
    ASSUME NEW b, NEW k \in Nat, NEW s, Begun(b, s, k),
           NEW stage \in AnyStage, Place[stage] = k + 1, stage \notin {"target", "coordData"}, NEW asked,
           asked /\ stage = "toolLength" => b.axis_command = "ToolLengthOffset"
    PROVE  /\ Begun(b, s \o Needed(asked, stage), k + 1)
           /\ asked => stage \in ToSet(s \o Needed(asked, stage))
           /\ \A e \in ToSet(s) : e \in ToSet(s \o Needed(asked, stage))
<1>1. CASE asked
  <2>1. s \o Needed(asked, stage) = s \o <<stage>>
    BY <1>1 DEF Needed
  <2> QED
    BY <1>1, <2>1, StageBegun
<1>2. CASE ~asked
  <2>1. s \in Seq(AnyStage) /\ \A e \in ToSet(s) : Place[e] <= k /\ Place[e] \in Int
    <3>1. \A e \in ToSet(s) : e \in AnyStage
      BY StagesIn DEF Begun, UpTo
    <3> QED
      BY <3>1, Places DEF Begun, UpTo
  <2>2. s \o Needed(asked, stage) = s
    BY <1>2, <2>1 DEF Needed
  <2> QED
    BY <1>2, <2>1, <2>2 DEF Begun, UpTo
<1> QED
  BY <1>1, <1>2

\* The stages of a line are in their order.
LEMMA OrderRises ==
    ASSUME NEW b
    PROVE  /\ Order(b) \in Seq(AnyStage) /\ Order(b) # <<>> /\ Rising(Order(b))
           /\ "target" \notin ToSet(Order(b)) /\ "coordData" \notin ToSet(Order(b))
           /\ "toolLength" \in ToSet(Order(b)) => b.axis_command = "ToolLengthOffset"
           /\ b.modal.coord_select # gc.modal.coord_select => "coordSelect" \in ToSet(Order(b))
<1>1. {"speed", "spindle", "coolant", "digital", "analog", "override", "dwell", "modes",
       "toolLength", "coordSelect", "nonModal", "motion", "flow"} \subseteq AnyStage
  BY DEF AnyStage, Standing
<1> DEFINE override == "parking" \in Features /\ b.modal.override # gc.modal.override
           dwell == b.non_modal = "Dwell" /\ b.values["P"] > 0 /\ sys # "CheckMode"
           tools == b.axis_command = "ToolLengthOffset"
           select == b.modal.coord_select # gc.modal.coord_select
           other == b.non_modal \notin {"NoAction", "Dwell", "AbsoluteOverride"}
           s0 == Needed(b.s # gc.spindle_speed, "speed")
           s1 == s0 \o Needed(b.modal.spindle # gc.modal.spindle, "spindle")
           s2 == s1 \o Needed(b.coolant # "None", "coolant")
           s3 == s2 \o Needed(Digital(b), "digital")
           s4 == s3 \o Needed(Analog(b), "analog")
           s5 == s4 \o Needed(override, "override")
           s6 == s5 \o Needed(dwell, "dwell")
           s7 == s6 \o <<"modes">>
           s8 == s7 \o Needed(tools, "toolLength")
           s9 == s8 \o Needed(select, "coordSelect")
           s10 == s9 \o Needed(other, "nonModal")
           s11 == s10 \o <<"motion">>
           s12 == s11 \o Needed(b.program_flow # "Running", "flow")
<1>2. Order(b) = s12
  BY DEF Order
<1> HIDE DEF override, dwell, select, other
<1>3. Begun(b, s0, 1)
  <2>1. Begun(b, <<>>, 0) /\ Begun(b, <<>>, 1)
    <3>1. <<>> \in Seq(AnyStage) /\ DOMAIN <<>> = {} /\ ToSet(<<>>) = {}
      BY DEF ToSet
    <3> QED
      BY <3>1 DEF Begun, UpTo, Rising
  <2>2. Begun(b, <<>> \o <<"speed">>, 0 + 1)
    <3>1. 0 \in Nat /\ Place["speed"] = 0 + 1 /\ "speed" \in AnyStage
      BY <1>1, Places
    <3> QED
      BY <2>1, <3>1, StageBegun
  <2>3. <<>> \o <<"speed">> = <<"speed">> /\ 0 + 1 = 1
    OBVIOUS
  <2> QED
    BY <2>1, <2>2, <2>3 DEF Needed
<1>4. Begun(b, s1, 2)
  <2> HIDE DEF s0, tools
  <2> QED
    BY <1>1, <1>3, NextBegun, Places
<1>5. Begun(b, s2, 3)
  <2> HIDE DEF s1, tools
  <2> QED
    BY <1>1, <1>4, NextBegun, Places
<1>6. Begun(b, s3, 4)
  <2> HIDE DEF s2, tools
  <2> QED
    BY <1>1, <1>5, NextBegun, Places
<1>7. Begun(b, s4, 5)
  <2> HIDE DEF s3, tools
  <2> QED
    BY <1>1, <1>6, NextBegun, Places
<1>8. Begun(b, s5, 6)
  <2> HIDE DEF s4, tools
  <2> QED
    BY <1>1, <1>7, NextBegun, Places
<1>9. Begun(b, s6, 7)
  <2> HIDE DEF s5, tools
  <2> QED
    BY <1>1, <1>8, NextBegun, Places
<1>10. Begun(b, s7, 8)
  <2> HIDE DEF s6, tools
  <2> QED
    BY <1>1, <1>9, StageBegun, Places
<1>11. Begun(b, s8, 9)
  <2>1. tools => b.axis_command = "ToolLengthOffset"
    OBVIOUS
  <2> HIDE DEF s7, tools
  <2> QED
    BY <1>1, <1>10, <2>1, NextBegun, Places
<1>12. Begun(b, s9, 10) /\ (select => "coordSelect" \in ToSet(s9))
  <2> HIDE DEF s8, tools
  <2> QED
    BY <1>1, <1>11, NextBegun, Places
<1>13. Begun(b, s10, 11) /\ (select => "coordSelect" \in ToSet(s10))
  <2> HIDE DEF s9, tools
  <2> QED
    BY <1>1, <1>12, NextBegun, Places
<1>14. Begun(b, s11, 12) /\ (select => "coordSelect" \in ToSet(s11)) /\ "motion" \in ToSet(s11)
  <2> HIDE DEF s10, tools
  <2> QED
    BY <1>1, <1>13, StageBegun, Places
<1>15. Begun(b, s12, 13) /\ (select => "coordSelect" \in ToSet(s12)) /\ "motion" \in ToSet(s12)
  <2> HIDE DEF s11, tools
  <2> QED
    BY <1>1, <1>14, NextBegun, Places
<1>16. s12 # <<>>
  <2> HIDE DEF s12
  <2>1. ToSet(<<>>) = {}
    BY DEF ToSet
  <2> QED
    BY <1>15, <2>1
<1> QED
  <2> HIDE DEF s12
  <2> QED
    BY <1>2, <1>15, <1>16 DEF Begun, UpTo, select

-----------------------------------------------------------------------------
\* What a block says is true for the stages that are left of it.
Kept(g, b, s) ==
    /\ s \in Seq(AnyStage) /\ Rising(s) /\ Numbered(b)
    /\ "toolLength" \in ToSet(s) => b.axis_command = "ToolLengthOffset"
    /\ "target" \in ToSet(s) => b.axis_command = "MotionMode"
    /\ "coordData" \in ToSet(s) => b.non_modal = "SetCoordinateData"
    /\ /\ \E e \in {"nonModal", "motion", "target"} : e \in ToSet(s)
       /\ "coordSelect" \notin ToSet(s)
       /\ b.non_modal # "SetCoordinateData"
       => g.coord_system = b.coord_system
    /\ "motion" \in ToSet(s) \/ "target" \in ToSet(s) => TargetTrue(g, b)
    /\ "nonModal" \in ToSet(s) => OffsetTrue(g, b)
    /\ "nonModal" \in ToSet(s) \/ "coordData" \in ToSet(s) => DataTrue(g, b)

LineKept == todo # <<>> => Kept(gc, block, todo)

\* The inductive invariant of the work coordinates.
WorkInv == PositionInv /\ Numbers(gc) /\ PlacesKnown /\ LineKept

\* What is left of a block when a stage has been executed: what came after it, and
\* perhaps a stage that takes its place.
Follows(b, s, t) ==
    /\ t \in Seq(AnyStage) /\ Rising(t)
    /\ \A e \in ToSet(t) :
           \/ e \in ToSet(s)
           \/ e \in {"wait", "home", "probe", "probing", "contact", "paused"}
           \/ e = "target" /\ "motion" \in ToSet(s) /\ b.axis_command = "MotionMode"
           \/ e = "coordData" /\ "nonModal" \in ToSet(s) /\ b.non_modal = "SetCoordinateData"
    /\ \A e \in ToSet(s) : e = Head(s) \/ e \in ToSet(t)

\* A stage that is done.
LEMMA TailFollows ==
    ASSUME NEW g, NEW b, NEW s, Kept(g, b, s), s # <<>>
    PROVE  Follows(b, s, Tail(s))
BY TailRises DEF Kept, Follows

\* A stage that another takes the place of.
LEMMA HeadFollows ==
    ASSUME NEW g, NEW b, NEW s, Kept(g, b, s), s # <<>>,
           NEW e \in AnyStage, Place[e] <= Place[Head(s)],
           \/ e \in {"wait", "home", "probe", "probing", "contact", "paused"}
           \/ e = "target" /\ Head(s) = "motion" /\ b.axis_command = "MotionMode"
           \/ e = "coordData" /\ Head(s) = "nonModal" /\ b.non_modal = "SetCoordinateData"
    PROVE  Follows(b, s, <<e>> \o Tail(s))
<1> DEFINE t == Tail(s)
<1>1. s \in Seq(AnyStage) /\ Rising(s)
  BY DEF Kept
<1>2. /\ t \in Seq(AnyStage) /\ Rising(t) /\ Head(s) \in ToSet(s) /\ Head(s) \in AnyStage
      /\ \A d \in ToSet(t) : d \in ToSet(s) /\ Place[Head(s)] < Place[d]
      /\ \A d \in ToSet(s) : d = Head(s) \/ d \in ToSet(t)
  BY <1>1, TailRises
<1> HIDE DEF t
<1>3. \A d \in ToSet(t) : Place[e] < Place[d]
  <2>1. \A d \in ToSet(t) : d \in AnyStage
    BY <1>2, StagesIn
  <2>2. Place[e] \in Int /\ Place[Head(s)] \in Int /\ \A d \in ToSet(t) : Place[d] \in Int
    BY <1>2, <2>1, Places
  <2> QED
    BY <1>2, <2>2
<1>4. /\ <<e>> \o t \in Seq(AnyStage) /\ Rising(<<e>> \o t)
      /\ \A d \in ToSet(<<e>> \o t) : d = e \/ d \in ToSet(t)
      /\ \A d \in ToSet(t) : d \in ToSet(<<e>> \o t)
  BY <1>2, <1>3, HeadRises
<1> QED
  BY <1>2, <1>4 DEF Follows, t

\* The parser's state may change, but for what the stages that are left have to do with.
LEMMA StillKept ==
    ASSUME NEW g, NEW h, NEW b, NEW s, NEW t, Kept(g, b, s), Follows(b, s, t),
           \/ b.non_modal = "SetCoordinateData"
           \/ h.coord_system = g.coord_system \/ h.coord_system = b.coord_system,
           Head(s) = "coordSelect" => h.coord_system = b.coord_system,
           b.axis_command = "ToolLengthOffset" \/ h.tool_length_offset = g.tool_length_offset,
           \/ b.non_modal \in {"SetCoordinateOffset", "ResetCoordinateOffset"}
           \/ h.coord_offset = g.coord_offset,
           \/ h.position = g.position
           \/ "nonModal" \notin ToSet(t) /\ "coordData" \notin ToSet(t)
    PROVE  Kept(h, b, t)
<1>1. /\ t \in Seq(AnyStage) /\ Rising(t) /\ Numbered(b)
      /\ "toolLength" \in ToSet(t) => b.axis_command = "ToolLengthOffset"
      /\ "target" \in ToSet(t) => b.axis_command = "MotionMode"
      /\ "coordData" \in ToSet(t) => b.non_modal = "SetCoordinateData"
  BY DEF Kept, Follows
<1>2. ASSUME \E e \in {"nonModal", "motion", "target"} : e \in ToSet(t),
             "coordSelect" \notin ToSet(t), b.non_modal # "SetCoordinateData"
      PROVE  h.coord_system = b.coord_system
  <2>1. \E e \in {"nonModal", "motion", "target"} : e \in ToSet(s)
    BY <1>2 DEF Follows
  <2>2. "coordSelect" \in ToSet(s) => Head(s) = "coordSelect"
    BY <1>2 DEF Follows
  <2> QED
    BY <1>2, <2>1, <2>2 DEF Kept
<1>3. "motion" \in ToSet(t) \/ "target" \in ToSet(t) => TargetTrue(h, b)
  <2> SUFFICES ASSUME "motion" \in ToSet(t) \/ "target" \in ToSet(t), ToAbsolute(b)
               PROVE  TargetTrue(h, b)
    BY DEF TargetTrue
  <2>1. TargetTrue(g, b)
    BY DEF Follows, Kept
  <2>2. h.tool_length_offset = g.tool_length_offset /\ h.coord_offset = g.coord_offset
    BY DEF ToAbsolute
  <2> QED
    BY <2>1, <2>2 DEF TargetTrue, ToolLength
<1>4. "nonModal" \in ToSet(t) => OffsetTrue(h, b)
  <2> SUFFICES ASSUME "nonModal" \in ToSet(t), b.non_modal = "SetCoordinateOffset"
               PROVE  OffsetTrue(h, b)
    BY DEF OffsetTrue
  <2>1. OffsetTrue(g, b)
    BY DEF Follows, Kept
  <2>2. h.tool_length_offset = g.tool_length_offset /\ h.position = g.position
    BY DEF Kept, Numbered
  <2> QED
    BY <2>1, <2>2 DEF OffsetTrue, Origin, ToolLength
<1>5. "nonModal" \in ToSet(t) \/ "coordData" \in ToSet(t) => DataTrue(h, b)
  <2> SUFFICES ASSUME "nonModal" \in ToSet(t) \/ "coordData" \in ToSet(t),
                      b.non_modal = "SetCoordinateData"
               PROVE  DataTrue(h, b)
    BY DEF DataTrue
  <2>1. DataTrue(g, b)
    BY DEF Follows, Kept
  <2>2. /\ h.tool_length_offset = g.tool_length_offset /\ h.position = g.position
        /\ h.coord_offset = g.coord_offset
    BY DEF Kept, Numbered
  <2> QED
    BY <2>1, <2>2 DEF DataTrue, Origin, ToolLength
<1> QED
  BY <1>1, <1>2, <1>3, <1>4, <1>5 DEF Kept

\* After a motion, nothing of the line needs its starting point; and after its end,
\* nothing is left.
LEMMA LateTail ==
    ASSUME NEW g, NEW b, NEW s, Kept(g, b, s), s # <<>>
    PROVE  /\ Place[Head(s)] >= 11
              => "nonModal" \notin ToSet(Tail(s)) /\ "coordData" \notin ToSet(Tail(s))
           /\ Place[Head(s)] >= 10 => "coordSelect" \notin ToSet(Tail(s))
           /\ Place[Head(s)] = 13 => Tail(s) = <<>>
<1>1. s \in Seq(AnyStage) /\ Rising(s)
  BY DEF Kept
<1>2. /\ Tail(s) \in Seq(AnyStage) /\ Head(s) \in AnyStage
      /\ \A e \in ToSet(Tail(s)) : Place[Head(s)] < Place[e]
  BY <1>1, TailRises
<1>3. Place[Head(s)] \in 1 .. 13
  BY <1>2, Places
<1>4. Place[Head(s)] = 13 => Tail(s) = <<>>
  <2> SUFFICES ASSUME Place[Head(s)] = 13, Tail(s) # <<>> PROVE FALSE
    OBVIOUS
  <2> DEFINE t == Tail(s)
  <2>1. t \in Seq(AnyStage) /\ t # <<>>
    BY <1>2
  <2> HIDE DEF t
  <2>2. 1 \in DOMAIN t
    BY <2>1
  <2>3. t[1] \in ToSet(t) /\ t[1] \in AnyStage
    BY <2>1, <2>2, StagesIn
  <2>4. 13 < Place[t[1]] /\ Place[t[1]] \in 1 .. 13
    BY <1>2, <2>3, Places DEF t
  <2> QED
    BY <2>4
<1> QED
  BY <1>2, <1>3, <1>4, Places

\* The same, of the line in execution.
LEMMA DoneFollows ==
    ASSUME LineKept, todo # <<>>, Done, todo' # <<>>
    PROVE  block' = block /\ Follows(block, todo, todo')
BY TailFollows DEF LineKept, Done

\* And of a stage of it that goes over into another.
LEMMA ThenFollows ==
    ASSUME LineKept, todo # <<>>, NEW e \in AnyStage, block' = block, todo' = <<e>> \o Tail(todo),
           Place[e] <= Place[Head(todo)],
           \/ e \in {"wait", "home", "probe", "probing", "contact", "paused"}
           \/ e = "target" /\ Head(todo) = "motion" /\ block.axis_command = "MotionMode"
           \/ e = "coordData" /\ Head(todo) = "nonModal" /\ block.non_modal = "SetCoordinateData"
    PROVE  block' = block /\ Follows(block, todo, todo')
BY HeadFollows DEF LineKept

\* A stage that has nothing to do with the work coordinates.
SameOrigin == /\ gc'.position = gc.position /\ gc'.coord_system = gc.coord_system
              /\ gc'.coord_offset = gc.coord_offset
              /\ gc'.tool_length_offset = gc.tool_length_offset

\* Such a stage leaves what the block says true.
LEMMA OtherStageKeeps ==
    ASSUME LineKept, todo # <<>>, Head(todo) # "coordSelect", SameOrigin,
           todo' # <<>> => block' = block /\ Follows(block, todo, todo')
    PROVE  LineKept'
BY StillKept DEF LineKept, SameOrigin

\* They are most stages, and a contact of the probe.
LEMMA OtherStages ==
    ASSUME WorkInv,
           \/ SetSpeed \/ SetSpindle \/ SetCoolant \/ SetDigital \/ SetAnalog \/ SetOverride
           \/ Wait \/ SetModes \/ SetCoordinateData \/ GoHomeWay \/ SetHome \/ BeginMotion
           \/ Pause \/ Resume \/ Contact
    PROVE  LineKept'
<1>1. SameOrigin
  <2>1. DOMAIN gc = Fields
    BY DEF WorkInv, Numbers
  <2>2. CASE SetSpeed \/ SetSpindle \/ SetCoolant \/ SetOverride \/ SetModes \/ BeginMotion
    BY <2>1, <2>2 DEF SetSpeed, SetSpindle, SetCoolant, SetOverride, SetModes, BeginMotion, SameOrigin,
                      Fields
  <2>3. CASE \/ SetDigital \/ SetAnalog \/ Wait \/ SetCoordinateData \/ GoHomeWay \/ SetHome
             \/ Pause \/ Resume \/ Contact
    <3>1. gc' = gc
      BY <2>3 DEF SetDigital, SetAnalog, Wait, SetCoordinateData, GoHomeWay, SetHome, Pause, Resume,
                  Contact, Fail
    <3> QED
      BY <3>1 DEF SameOrigin
  <2> QED
    BY <2>2, <2>3
<1>2. todo # <<>> /\ Head(todo) # "coordSelect"
  BY DEF SetSpeed, SetSpindle, SetCoolant, SetDigital, SetAnalog, SetOverride, Wait, SetModes,
         SetCoordinateData, GoHomeWay, SetHome, BeginMotion, Pause, Resume, Contact, At
<1>3. LineKept
  BY DEF WorkInv
<1>4. todo' # <<>> => block' = block /\ Follows(block, todo, todo')
  <2>1. CASE \/ SetSpeed \/ SetSpindle \/ SetCoolant \/ SetDigital \/ SetAnalog \/ SetOverride
             \/ Wait \/ SetModes \/ Resume
    <3>1. Done \/ todo' = <<>>
      BY <2>1 DEF SetSpeed, SetSpindle, SetCoolant, SetDigital, SetAnalog, SetOverride, Wait,
                  SetModes, Resume, Fail
    <3> QED
      BY <1>2, <1>3, <3>1, DoneFollows
  <2>2. CASE SetCoordinateData
    <3>1. /\ Head(todo) = "nonModal" /\ block.non_modal = "SetCoordinateData"
          /\ block' = block /\ todo' = <<"coordData">> \o Tail(todo)
      BY <2>2 DEF SetCoordinateData, At, Then
    <3>2. "coordData" \in AnyStage
      BY DEF AnyStage, Standing
    <3>3. Place["coordData"] <= Place[Head(todo)]
      BY <3>1, Places
    <3> QED
      BY <1>2, <1>3, <3>1, <3>2, <3>3, ThenFollows
  <2>3. CASE GoHomeWay
    <3>1. /\ Head(todo) = "nonModal" /\ block' = block /\ todo' = <<"home">> \o Tail(todo)
      BY <2>3 DEF GoHomeWay, At
    <3>2. "home" \in AnyStage
      BY DEF AnyStage, Moving
    <3> QED
      BY <1>2, <1>3, <3>1, <3>2, ThenFollows, Places
  <2>4. CASE SetHome
    <3>1. /\ Head(todo) = "nonModal" /\ block' = block /\ todo' = <<"wait">> \o Tail(todo)
      BY <2>4 DEF SetHome, At, Then
    <3>2. "wait" \in AnyStage
      BY DEF AnyStage, Standing
    <3> QED
      BY <1>2, <1>3, <3>1, <3>2, ThenFollows, Places
  <2>5. CASE BeginMotion
    <3>1. Head(todo) = "motion"
      BY <2>5 DEF BeginMotion, At
    <3>2. \/ Done
          \/ block' = block /\ todo' = <<"probe">> \o Tail(todo)
          \/ /\ block.axis_command = "MotionMode"
             /\ block' = block /\ todo' = <<"target">> \o Tail(todo)
      BY <2>5 DEF BeginMotion, Then, Moves
    <3>3. "probe" \in AnyStage /\ "target" \in AnyStage
      BY DEF AnyStage, Moving, Standing
    <3>4. CASE Done
      BY <1>2, <1>3, <3>4, DoneFollows
    <3>5. CASE block' = block /\ todo' = <<"probe">> \o Tail(todo)
      BY <1>2, <1>3, <3>1, <3>3, <3>5, ThenFollows, Places
    <3>6. CASE /\ block.axis_command = "MotionMode"
               /\ block' = block /\ todo' = <<"target">> \o Tail(todo)
      BY <1>2, <1>3, <3>1, <3>3, <3>6, ThenFollows, Places
    <3> QED
      BY <3>2, <3>4, <3>5, <3>6
  <2>6. CASE Pause
    <3>1. /\ Head(todo) = "flow"
          /\ \/ Done
             \/ block' = block /\ todo' = <<"paused">> \o Tail(todo)
      BY <2>6 DEF Pause, At, Then
    <3>2. "paused" \in AnyStage
      BY DEF AnyStage, Standing
    <3>3. CASE Done
      BY <1>2, <1>3, <3>3, DoneFollows
    <3>4. CASE block' = block /\ todo' = <<"paused">> \o Tail(todo)
      BY <1>2, <1>3, <3>1, <3>2, <3>4, ThenFollows, Places
    <3> QED
      BY <3>1, <3>3, <3>4
  <2>7. CASE Contact
    <3>1. /\ Head(todo) = "probing" /\ block' = block /\ todo' = <<"contact">> \o Tail(todo)
      BY <2>7 DEF Contact, At, Then
    <3>2. "contact" \in AnyStage
      BY DEF AnyStage, Moving
    <3> QED
      BY <1>2, <1>3, <3>1, <3>2, ThenFollows, Places
  <2> QED
    BY <2>1, <2>2, <2>3, <2>4, <2>5, <2>6, <2>7
<1> QED
  BY <1>1, <1>2, <1>3, <1>4, OtherStageKeeps

\* The stages that set the origin: each is the one its block was made for.
LEMMA OriginStages ==
    ASSUME WorkInv,
           SetToolLength \/ SelectCoordSystem \/ UseCoordinateData \/ SetCoordinateOffset
    PROVE  LineKept'
<1>0. LineKept /\ DOMAIN gc = Fields /\ DOMAIN gc.modal = Groups
  BY DEF WorkInv, Numbers
<1>1. todo # <<>> /\ Kept(gc, block, todo)
  BY <1>0 DEF SetToolLength, SelectCoordSystem, UseCoordinateData, SetCoordinateOffset, At, LineKept
<1>2. /\ Head(todo) \in ToSet(todo) /\ "wait" \in AnyStage
      /\ Head(todo) \in {"toolLength", "coordSelect", "coordData", "nonModal"}
  <2>1. Head(todo) \in ToSet(todo)
    BY <1>1, TailRises DEF Kept
  <2> QED
    BY <2>1 DEF SetToolLength, SelectCoordSystem, UseCoordinateData, SetCoordinateOffset, At,
                AnyStage, Standing
<1>3. Done \/ (block' = block /\ todo' = <<"wait">> \o Tail(todo))
  BY DEF SetToolLength, SelectCoordSystem, UseCoordinateData, SetCoordinateOffset, Then
<1>4. todo' # <<>> => block' = block /\ Follows(block, todo, todo')
  <2>1. Place["wait"] <= Place[Head(todo)]
    BY <1>2, Places
  <2> QED
    BY <1>0, <1>1, <1>2, <1>3, <2>1, DoneFollows, ThenFollows
<1>5. CASE SetToolLength
  <2>1. /\ block.axis_command = "ToolLengthOffset" /\ Head(todo) # "coordSelect"
    BY <1>1, <1>2, <1>5 DEF SetToolLength, At, Kept
  <2>2. /\ gc'.coord_system = gc.coord_system /\ gc'.coord_offset = gc.coord_offset
        /\ gc'.position = gc.position
    BY <1>0, <1>5 DEF SetToolLength, Fields
  <2> QED
    BY <1>1, <1>4, <2>1, <2>2, StillKept DEF LineKept
<1>6. CASE SelectCoordSystem
  <2>1. /\ gc'.coord_system = block.coord_system /\ gc'.coord_offset = gc.coord_offset
        /\ gc'.position = gc.position /\ gc'.tool_length_offset = gc.tool_length_offset
    BY <1>0, <1>6 DEF SelectCoordSystem, Fields
  <2> QED
    BY <1>1, <1>4, <2>1, StillKept DEF LineKept
<1>7. CASE UseCoordinateData
  <2>1. block.non_modal = "SetCoordinateData" /\ Head(todo) # "coordSelect"
    BY <1>1, <1>2, <1>7 DEF UseCoordinateData, At, Kept
  <2>2. /\ gc'.coord_offset = gc.coord_offset
        /\ gc'.position = gc.position /\ gc'.tool_length_offset = gc.tool_length_offset
    BY <1>0, <1>7 DEF UseCoordinateData, Fields
  <2> QED
    BY <1>1, <1>4, <2>1, <2>2, StillKept DEF LineKept
<1>8. CASE SetCoordinateOffset
  <2>1. /\ block.non_modal \in {"SetCoordinateOffset", "ResetCoordinateOffset"}
        /\ Head(todo) # "coordSelect"
    BY <1>8 DEF SetCoordinateOffset, At
  <2>2. /\ gc'.coord_system = gc.coord_system
        /\ gc'.position = gc.position /\ gc'.tool_length_offset = gc.tool_length_offset
    BY <1>0, <1>8 DEF SetCoordinateOffset, Fields
  <2> QED
    BY <1>1, <1>4, <2>1, <2>2, StillKept DEF LineKept
<1> QED
  BY <1>5, <1>6, <1>7, <1>8

\* The stages that set the position: nothing that is left of the line needs the one
\* before.
LEMMA ArrivalStages ==
    ASSUME WorkInv, AtHome \/ AtTarget \/ StartJog \/ StartProbe \/ EndProbe
    PROVE  LineKept'
<1>0. LineKept /\ DOMAIN gc = Fields
  BY DEF WorkInv, Numbers
<1>1. todo # <<>> /\ Kept(gc, block, todo)
  BY <1>0 DEF AtHome, AtTarget, StartJog, StartProbe, EndProbe, At, LineKept
<1>2. Head(todo) \in {"home", "target", "jog", "probe", "probing", "contact"}
  BY DEF AtHome, AtTarget, StartJog, StartProbe, EndProbe, At
<1>3. gc' = gc \/ \E position : gc' = [gc EXCEPT !.position = position]
  BY DEF AtHome, AtTarget, StartJog, StartProbe, EndProbe
<1>4. /\ gc'.coord_system = gc.coord_system /\ gc'.coord_offset = gc.coord_offset
      /\ gc'.tool_length_offset = gc.tool_length_offset
  BY <1>0, <1>3 DEF Fields
<1>5. CASE Done
  <2>1. "nonModal" \notin ToSet(Tail(todo)) /\ "coordData" \notin ToSet(Tail(todo))
    <3>1. Place[Head(todo)] >= 11
      BY <1>2, Places
    <3> QED
      BY <1>1, <3>1, LateTail
  <2>2. todo' = Tail(todo)
    BY <1>5 DEF Done
  <2>3. todo' # <<>> => block' = block /\ Follows(block, todo, todo')
    BY <1>0, <1>1, <1>5, DoneFollows
  <2> QED
    BY <1>1, <1>2, <1>4, <2>1, <2>2, <2>3, StillKept DEF LineKept
<1>6. CASE /\ Head(todo) = "probe" /\ gc' = gc /\ block' = block
           /\ todo' = <<"probing">> \o Tail(todo)
  <2>1. "probing" \in AnyStage /\ Place["probing"] <= Place[Head(todo)]
    BY <1>6, Places DEF AnyStage, Moving
  <2>2. Follows(block, todo, todo')
    BY <1>0, <1>1, <1>6, <2>1, ThenFollows
  <2> QED
    BY <1>1, <1>2, <1>6, <2>2, StillKept DEF LineKept
<1> QED
  BY <1>5, <1>6 DEF AtHome, AtTarget, StartJog, StartProbe, EndProbe, At

\* M2 and M30 come last: nothing is left of the line.
LEMMA EndProgramKeeps == ASSUME WorkInv, EndProgram PROVE LineKept'
<1>1. todo # <<>> /\ Kept(gc, block, todo) /\ Head(todo) = "flow" /\ todo' = Tail(todo)
  BY DEF WorkInv, LineKept, EndProgram, At, Done
<1>2. todo' = <<>>
  BY <1>1, LateTail, Places
<1> QED
  BY <1>2 DEF LineKept

\* A line begins with what its block says being true.
LEMMA GCodeLineKept == ASSUME WorkInv, GCodeLine PROVE LineKept' /\ Numbers(gc)'
<1>1. PICK line \in {l \in Lines : ~l.jog} :
          LET b == Block(gc, coords, line)
          IN  /\ gc' = Parsed(b)
              /\ IF b.legal THEN block' = b /\ todo' = Order(b)
                 ELSE UNCHANGED <<block, todo>>
  BY DEF GCodeLine
<1> DEFINE b == Block(gc, coords, line)
<1>2. todo = <<>> /\ DOMAIN gc = Fields /\ DOMAIN gc.modal = Groups
  BY DEF GCodeLine, WorkInv, Numbers
<1>3. /\ b.legal => /\ Numbered(b) /\ TargetTrue(gc, b) /\ OffsetTrue(gc, b) /\ DataTrue(gc, b)
                    /\ b.modal.coord_select = gc.modal.coord_select => b.coord_system = gc.coord_system
  BY BlockTrue DEF WorkInv
<1>4. /\ gc' = Parsed(b)
      /\ b.legal => block' = b /\ todo' = Order(b)
      /\ ~b.legal => todo' = todo
  BY <1>1
<1> HIDE DEF b
<1>5. /\ gc'.position = gc.position /\ gc'.coord_system = gc.coord_system
      /\ gc'.coord_offset = gc.coord_offset /\ gc'.tool_length_offset = gc.tool_length_offset
      /\ gc'.modal.coord_select = gc.modal.coord_select
      /\ DOMAIN gc' = Fields /\ DOMAIN gc'.modal = Groups
  BY <1>2, <1>4 DEF Parsed, Fields, Groups
<1>6. Numbers(gc)'
  BY <1>5 DEF WorkInv, Numbers
<1>7. CASE b.legal
  <2>1. TargetTrue(gc', b) /\ OffsetTrue(gc', b) /\ DataTrue(gc', b)
    BY <1>3, <1>5, <1>7 DEF TargetTrue, OffsetTrue, DataTrue, Origin, ToolLength
  <2>2. Kept(gc', b, Order(b))
    BY <1>3, <1>5, <1>7, <2>1, OrderRises DEF Kept
  <2>3. block' = b /\ todo' = Order(b)
    BY <1>4, <1>7
  <2> QED
    BY <1>6, <2>2, <2>3 DEF LineKept
<1>8. CASE ~b.legal
  <2>1. todo' = <<>>
    BY <1>2, <1>4, <1>8
  <2> QED
    BY <1>6, <2>1 DEF LineKept
<1> QED
  BY <1>6, <1>7, <1>8

\* A jog has its one stage, and its target.
LEMMA JogLineKept == ASSUME WorkInv, JogLine PROVE LineKept' /\ Numbers(gc)' /\ PlacesKnown'
<1>1. PICK line \in {l \in Lines : l.jog} :
          LET b == Block(gc, coords, line)
          IN  /\ gc' = [gc EXCEPT !.tool = b.tool]
              /\ IF b.legal /\ ~limitsCheckTravel(b.xyz)
                 THEN block' = b /\ todo' = <<"jog">> /\ path' = <<b.xyz>>
                 ELSE UNCHANGED execution
  BY DEF JogLine
<1> DEFINE b == Block(gc, coords, line)
<1>2. todo = <<>> /\ DOMAIN gc = Fields /\ PlacesKnown
  BY DEF JogLine, WorkInv, Numbers
<1>3. b.legal => Numbered(b)
  BY BlockTrue DEF WorkInv
<1>4. /\ gc' = [gc EXCEPT !.tool = b.tool]
      /\ UNCHANGED execution \/ (b.legal /\ block' = b /\ todo' = <<"jog">> /\ path' = <<b.xyz>>)
  BY <1>1
<1> HIDE DEF b
<1>5. Numbers(gc)'
  BY <1>2, <1>4 DEF WorkInv, Numbers, Fields
<1>6. UNCHANGED <<coords, mpos, queue>>
  BY DEF JogLine, machine
<1>7. CASE UNCHANGED execution
  BY <1>2, <1>5, <1>6, <1>7 DEF execution, LineKept, PlacesKnown
<1>8. CASE b.legal /\ block' = b /\ todo' = <<"jog">> /\ path' = <<b.xyz>>
  <2>1. PlacesKnown'
    BY <1>2, <1>3, <1>6, <1>8 DEF PlacesKnown, Numbered
  <2>2. todo' \in Seq(AnyStage) /\ \A e \in ToSet(todo') : e = "jog"
    BY <1>8 DEF AnyStage, Moving, ToSet
  <2>3. Rising(todo')
    <3>1. \A i \in DOMAIN todo' : i = 1
      BY <1>8
    <3> QED
      BY <3>1 DEF Rising
  <2>4. Kept(gc', block', todo')
    BY <1>3, <1>8, <2>2, <2>3 DEF Kept
  <2> QED
    BY <1>5, <2>1, <2>4 DEF LineKept
<1> QED
  BY <1>4, <1>7, <1>8

\* The events between and during the stages leave the line as it is, or end it.
LEMMA EventsKept ==
    ASSUME WorkInv,
           \/ mc_line \/ limits_soft_check \/ StartCycle \/ EndMotion \/ Reset \/ Restart
           \/ JogCancel \/ Unlock \/ CheckMode \/ RestoreParameters
    PROVE  LineKept'
<1>1. (gc' = gc /\ block' = block /\ todo' = todo) \/ todo' = <<>>
  BY DEF mc_line, limits_soft_check, StartCycle, EndMotion, Reset, Restart, JogCancel, Unlock,
         CheckMode, RestoreParameters, mc_reset, execution
<1> QED
  BY <1>1 DEF WorkInv, LineKept

-----------------------------------------------------------------------------
\* The parser's state stays numbers.
LEMMA NumbersKept ==
    ASSUME WorkInv, Stages \/ Motion \/ Resume
    PROVE  Numbers(gc)'
<1>0. /\ DOMAIN gc = Fields /\ DOMAIN gc.modal = Groups /\ Numbers(gc) /\ PlacesKnown
      /\ todo # <<>> => Numbered(block)
  BY DEF WorkInv, Numbers, LineKept, Kept
<1>1. CASE SetSpeed \/ SetSpindle \/ SetCoolant \/ SetOverride \/ SetModes \/ BeginMotion
  <2>1. /\ DOMAIN gc' = Fields /\ DOMAIN gc'.modal = Groups
        /\ gc'.modal.coord_select = gc.modal.coord_select
    <3>1. CASE SetSpeed \/ SetCoolant
      BY <1>0, <3>1 DEF SetSpeed, SetCoolant, Fields
    <3>2. CASE SetSpindle
      BY <1>0, <3>2 DEF SetSpindle, Fields, Groups
    <3>3. CASE SetOverride
      BY <1>0, <3>3 DEF SetOverride, Fields, Groups
    <3>4. CASE SetModes
      BY <1>0, <3>4 DEF SetModes, Fields, Groups
    <3>5. CASE BeginMotion
      <4>1. gc' = [gc EXCEPT !.modal.motion = block.modal.motion,
                             !.modal.distance = block.modal.distance]
        BY <3>5 DEF BeginMotion
      <4> QED
        BY <1>0, <4>1 DEF Fields, Groups
    <3> QED
      BY <1>1, <3>1, <3>2, <3>3, <3>4, <3>5
  <2>2. /\ gc'.position = gc.position /\ gc'.coord_system = gc.coord_system
        /\ gc'.coord_offset = gc.coord_offset /\ gc'.tool_length_offset = gc.tool_length_offset
    BY <1>0, <1>1 DEF SetSpeed, SetSpindle, SetCoolant, SetOverride, SetModes, BeginMotion, Fields
  <2> QED
    BY <1>0, <2>1, <2>2 DEF Numbers
<1>2. CASE \/ mc_line \/ limits_soft_check \/ SetDigital \/ SetAnalog \/ Wait \/ SetCoordinateData
           \/ GoHomeWay \/ SetHome \/ Pause \/ Resume \/ Motion
  <2>1. gc' = gc
    BY <1>2 DEF mc_line, limits_soft_check, SetDigital, SetAnalog, Fail, Wait, SetCoordinateData,
                GoHomeWay, SetHome, Pause, Resume, Motion, StartCycle, EndMotion, Contact
  <2> QED
    BY <1>0, <2>1
<1>3. CASE SetToolLength \/ SelectCoordSystem
  <2>1. todo # <<>>
    BY <1>3 DEF SetToolLength, SelectCoordSystem, At
  <2>2. block.xyz["Z"] \in Int /\ block.coord_system \in Point
        /\ block.modal.coord_select \in ToSet(Systems)
    BY <1>0, <2>1 DEF Numbered, Point, Axes
  <2>3. CASE SetToolLength
    <3>1. /\ DOMAIN gc' = Fields /\ DOMAIN gc'.modal = Groups
          /\ gc'.position = gc.position /\ gc'.coord_system = gc.coord_system
          /\ gc'.coord_offset = gc.coord_offset
          /\ gc'.tool_length_offset \in {0, block.xyz["Z"]}
          /\ gc'.modal.coord_select = gc.modal.coord_select
      BY <1>0, <2>3 DEF SetToolLength, TOOL_LENGTH_OFFSET_AXIS, Fields, Groups
    <3> QED
      BY <1>0, <2>2, <3>1 DEF Numbers
  <2>4. CASE SelectCoordSystem
    <3>1. /\ DOMAIN gc' = Fields /\ DOMAIN gc'.modal = Groups
          /\ gc'.position = gc.position /\ gc'.coord_system = block.coord_system
          /\ gc'.coord_offset = gc.coord_offset /\ gc'.tool_length_offset = gc.tool_length_offset
          /\ gc'.modal.coord_select = block.modal.coord_select
      BY <1>0, <2>4 DEF SelectCoordSystem, Fields, Groups
    <3> QED
      BY <1>0, <2>2, <3>1 DEF Numbers
  <2> QED
    BY <1>3, <2>3, <2>4
<1>4. CASE UseCoordinateData \/ SetCoordinateOffset
  <2>1. block.coord_data \in Point /\ block.xyz \in Point /\ Zero \in Point
    BY <1>0, <1>4 DEF UseCoordinateData, SetCoordinateOffset, At, Numbered, Zero, Point
  <2>2. /\ DOMAIN gc' = Fields /\ gc'.modal = gc.modal /\ gc'.position = gc.position
        /\ gc'.tool_length_offset = gc.tool_length_offset
        /\ gc'.coord_system \in {gc.coord_system, block.coord_data}
        /\ gc'.coord_offset \in {gc.coord_offset, block.xyz, Zero}
    BY <1>0, <1>4 DEF UseCoordinateData, SetCoordinateOffset, Fields
  <2> QED
    BY <1>0, <2>1, <2>2 DEF Numbers
<1>5. CASE AtHome \/ AtTarget \/ StartJog \/ StartProbe \/ EndProbe
  <2>1. block.coord_data \in Point /\ block.xyz \in Point /\ mpos \in Point
    BY <1>0, <1>5 DEF AtHome, AtTarget, StartJog, StartProbe, EndProbe, At, Numbered, PlacesKnown
  <2>2. \/ gc' = gc
        \/ \E position \in {block.xyz, block.coord_data, mpos} :
               gc' = [gc EXCEPT !.position = position]
    BY <1>5 DEF AtHome, AtTarget, StartJog, StartProbe, EndProbe
  <2> QED
    BY <1>0, <2>1, <2>2 DEF Numbers, Fields
<1>6. CASE EndProgram
  <2>1. /\ DOMAIN gc' = Fields /\ DOMAIN gc'.modal = Groups
        /\ gc'.position = gc.position /\ gc'.coord_system \in {gc.coord_system, coords["G54"]}
        /\ gc'.coord_offset = gc.coord_offset /\ gc'.tool_length_offset = gc.tool_length_offset
        /\ gc'.modal.coord_select = "G54"
    BY <1>0, <1>6 DEF EndProgram, Fields, Groups
  <2>2. coords["G54"] \in Point /\ "G54" \in ToSet(Systems)
    BY <1>0, SystemNames, SystemsKnown DEF PlacesKnown
  <2> QED
    BY <1>0, <2>1, <2>2 DEF Numbers
<1> QED
  BY <1>1, <1>2, <1>3, <1>4, <1>5, <1>6 DEF Stages

\* What a reset and a cancelled jog begin anew with.
LEMMA NumbersAnew ==
    ASSUME WorkInv, PlacesKnown',
           Reset \/ Restart \/ JogCancel \/ Unlock \/ CheckMode \/ RestoreParameters
    PROVE  Numbers(gc)'
<1>0. DOMAIN gc = Fields /\ Numbers(gc) /\ PlacesKnown /\ mpos' \in Point
  BY DEF WorkInv, Numbers, PlacesKnown
<1>1. CASE Reset \/ Unlock \/ CheckMode \/ RestoreParameters
  BY <1>0, <1>1 DEF Reset, Unlock, CheckMode, RestoreParameters, mc_reset
<1>2. CASE Restart
  <2>1. gc' = gc_init(mpos) /\ mpos \in Point
    BY <1>0, <1>2 DEF Restart, PlacesKnown
  <2>2. coords["G54"] \in Point /\ "G54" \in ToSet(Systems) /\ Zero \in Point
    BY <1>0, SystemNames, SystemsKnown DEF PlacesKnown, Zero, Point
  <2>3. DOMAIN Modal0 = Groups /\ Modal0.coord_select = "G54"
    BY DEF Modal0, Groups
  <2>4. /\ DOMAIN gc' = Fields /\ gc'.modal = Modal0 /\ gc'.position = mpos
        /\ gc'.coord_system = coords["G54"] /\ gc'.coord_offset = Zero
        /\ gc'.tool_length_offset = 0
    BY <2>1 DEF gc_init, Fields
  <2> QED
    BY <2>1, <2>2, <2>3, <2>4 DEF Numbers
<1>3. CASE JogCancel
  <2>1. gc' = [gc EXCEPT !.position = mpos']
    BY <1>3 DEF JogCancel
  <2> QED
    BY <1>0, <2>1 DEF Numbers, Fields
<1> QED
  BY <1>1, <1>2, <1>3

-----------------------------------------------------------------------------
\* Places stay numbers on each axis: where motion is stopped, and what mc_line is given.
LEMMA WayKnown == ASSUME PlacesKnown PROVE Way \subseteq Point
<1>1. ASSUME NEW p \in Point, NEW q \in Point PROVE Between(p, q) \subseteq Point
  BY DEF Between, Point
<1>2. ASSUME NEW i \in DOMAIN queue
      PROVE  Between(IF i = 1 THEN mpos ELSE queue[i - 1], queue[i]) \subseteq Point
  <2>1. DOMAIN queue = 1 .. Len(queue) /\ Len(queue) \in Nat /\ queue[i] \in Point /\ mpos \in Point
    BY DEF PlacesKnown
  <2>2. i # 1 => queue[i - 1] \in Point
    <3>1. i # 1 => i - 1 \in 1 .. Len(queue)
      BY <2>1
    <3> QED
      BY <2>1, <3>1 DEF PlacesKnown
  <2> QED
    BY <1>1, <2>1, <2>2
<1> QED
  BY <1>2 DEF Way

\* The lines of an arc.
LEMMA ArcKnown ==
    ASSUME Numbers(gc), Numbered(block), NEW p \in ArcPaths(block)
    PROVE  p \in Seq(Point)
<1> DEFINE x == InPlane(block, 1)
           y == InPlane(block, 2)
           z == CHOOSE a \in Axes : a \notin {x, y}
           near == -MaxPosition .. MaxPosition
           via(d) == [a \in Axes |->
                         IF a = x THEN gc.position[x] + Centre(block, 1) + d[1]
                         ELSE IF a = y THEN gc.position[y] + Centre(block, 2) + d[2]
                         ELSE (gc.position[z] + block.xyz[z]) \div 2]
<1>1. block.xyz \in Point /\ gc.position \in Point
  BY DEF Numbers, Numbered
<1>2. p = <<block.xyz>> \/ \E d \in near \X near : p = <<via(d), block.xyz>>
  BY DEF ArcPaths
<1>3. MaxPosition \in Nat
  BY MachineAssumption DEF MachineAssumption
<1>4. ASSUME NEW d \in near \X near PROVE via(d) \in Point
  <2>1. d[1] \in Int /\ d[2] \in Int
    BY <1>3
  <2>2. /\ x \in Axes => Centre(block, 1) \in Int
        /\ y \in Axes => Centre(block, 2) \in Int
    <3>1. \A a \in Axes : block.values[Offset[a]] \in Int
      <4>1. \A a \in Axes : Offset[a] \in Letters
        BY DEF Offset, Axes, Letters
      <4> QED
        BY <4>1 DEF Numbered
    <3> QED
      BY <3>1, MmNumber DEF Centre
  <2>3. ASSUME NEW a \in Axes, a \notin {x, y} PROVE (gc.position[z] + block.xyz[z]) \div 2 \in Int
    <3>1. z \in Axes
      BY <2>3
    <3> HIDE DEF z
    <3>2. gc.position[z] \in Int /\ block.xyz[z] \in Int
      BY <1>1, <3>1 DEF Point
    <3> QED
      BY <3>2
  <2>4. \A a \in Axes : gc.position[a] \in Int
    BY <1>1 DEF Point
  <2> HIDE DEF x, y, z, near
  <2>5. ASSUME NEW a \in Axes PROVE via(d)[a] \in Int
    <3>1. CASE a = x
      BY <2>1, <2>2, <2>4, <3>1
    <3>2. CASE a # x /\ a = y
      BY <2>1, <2>2, <2>4, <3>2
    <3>3. CASE a # x /\ a # y
      BY <2>3, <3>3
    <3> QED
      BY <3>1, <3>2, <3>3
  <2>6. via(d) = [a \in Axes |-> via(d)[a]]
    OBVIOUS
  <2> HIDE DEF via
  <2> QED
    BY <2>5, <2>6 DEF Point
<1>5. \A v, w \in Point : <<v, w>> \in Seq(Point) /\ <<w>> \in Seq(Point)
  OBVIOUS
<1>6. CASE p = <<block.xyz>>
  BY <1>1, <1>5, <1>6
<1>7. ASSUME NEW d \in near \X near, p = <<via(d), block.xyz>> PROVE p \in Seq(Point)
  <2>1. via(d) \in Point
    BY <1>4
  <2> HIDE DEF via
  <2> QED
    BY <1>1, <1>5, <1>7, <2>1
<1> HIDE DEF via, near
<1> QED
  BY <1>2, <1>6, <1>7

\* Motion, and the targets of each stage.
LEMMA PlacesKept ==
    ASSUME WorkInv, Stages \/ Motion \/ Resume \/ GCodeLine
    PROVE  PlacesKnown'
<1>0. /\ PlacesKnown /\ Numbers(gc) /\ (todo # <<>> => Numbered(block))
      /\ coords \in [CoordNames -> Point] /\ mpos \in Point
      /\ queue \in Seq(Point) /\ path \in Seq(Point)
      /\ sys \in {"Cycle", "Jog"} => queue # <<>>
  BY DEF WorkInv, LineKept, Kept, PlacesKnown, PositionInv, Queued
<1>1. CASE mc_line
  <2>1. UNCHANGED <<coords, mpos>> /\ path # <<>> /\ path' = Tail(path)
        /\ (queue' = queue \/ queue' = Append(queue, Head(path)))
    BY <1>1 DEF mc_line
  <2>2. Head(path) \in Point /\ Tail(path) \in Seq(Point)
    BY <1>0, <2>1
  <2>3. Append(queue, Head(path)) \in Seq(Point)
    <3>1. ASSUME NEW S, NEW q \in Seq(S), NEW e \in S PROVE Append(q, e) \in Seq(S)
      OBVIOUS
    <3> QED
      BY ONLY <1>0, <2>2, <3>1
  <2>4. queue' \in Seq(Point)
    BY ONLY <1>0, <2>1, <2>3
  <2>5. path' \in Seq(Point)
    BY ONLY <2>1, <2>2
  <2> QED
    BY <1>0, <2>1, <2>4, <2>5 DEF PlacesKnown
<1>2. CASE limits_soft_check \/ Contact
  <2>1. /\ UNCHANGED <<coords, path>> /\ mpos' \in Way \cup {mpos} /\ queue' \in {queue, <<>>}
    BY <1>2 DEF limits_soft_check, Contact, Then, execution
  <2>2. mpos' \in Point
    BY <1>0, <2>1, WayKnown
  <2>3. <<>> \in Seq(Point)
    OBVIOUS
  <2>4. queue' \in Seq(Point)
    BY <1>0, <2>1, <2>3
  <2> QED
    BY <1>0, <2>1, <2>2, <2>4 DEF PlacesKnown
<1>3. CASE EndMotion
  <2>1. UNCHANGED <<coords, path>> /\ mpos' = Head(queue) /\ queue' = Tail(queue) /\ queue # <<>>
    BY <1>0, <1>3 DEF EndMotion, execution
  <2>2. Head(queue) \in Point /\ Tail(queue) \in Seq(Point)
    BY <1>0, <2>1
  <2> QED
    BY <1>0, <2>1, <2>2 DEF PlacesKnown
<1>4. CASE SetCoordinateData \/ SetHome
  <2>1. UNCHANGED <<mpos, queue, path>>
    BY <1>4 DEF SetCoordinateData, SetHome, Then, machine
  <2>2. \E c : \E p \in {block.coord_data, gc.position} : coords' = [coords EXCEPT ![c] = p]
    BY <1>4 DEF SetCoordinateData, SetHome
  <2>3. block.coord_data \in Point /\ gc.position \in Point
    BY <1>0, <1>4 DEF SetCoordinateData, SetHome, At, Numbered, Numbers
  <2> QED
    BY <1>0, <2>1, <2>2, <2>3 DEF PlacesKnown
<1>5. CASE GoHomeWay \/ BeginMotion \/ StartProbe
  <2>1. UNCHANGED <<coords, mpos, queue>>
    BY <1>5 DEF GoHomeWay, BeginMotion, StartProbe, machine
  <2>2. Numbered(block) /\ block.xyz \in Point /\ block.coord_data \in Point
    BY <1>0, <1>5 DEF GoHomeWay, BeginMotion, StartProbe, At, Numbered
  <2>3. \/ path' = path \/ path' = <<block.xyz>> \/ path' \in ArcPaths(block)
        \/ path' = <<>> \o <<block.coord_data>>
        \/ path' = <<block.xyz>> \o <<block.coord_data>>
    BY <1>5 DEF GoHomeWay, BeginMotion, StartProbe, Done, Then
  <2>4. path' \in Seq(Point)
    <3>1. \A p, q \in Point : /\ <<p>> \in Seq(Point) /\ <<>> \o <<p>> \in Seq(Point)
                              /\ <<q>> \o <<p>> \in Seq(Point)
      OBVIOUS
    <3> QED
      BY <1>0, <2>2, <2>3, <3>1, ArcKnown
  <2> QED
    BY <1>0, <2>1, <2>4 DEF PlacesKnown
<1>6. CASE \/ SetSpeed \/ SetSpindle \/ SetCoolant \/ SetDigital \/ SetAnalog \/ SetOverride \/ Wait
           \/ SetModes \/ SetToolLength \/ SelectCoordSystem \/ UseCoordinateData \/ AtHome
           \/ SetCoordinateOffset \/ AtTarget \/ StartJog \/ EndProbe \/ Pause \/ EndProgram
           \/ Resume \/ StartCycle \/ GCodeLine
  <2>1. UNCHANGED <<coords, mpos, queue>>
    BY <1>6 DEF SetSpeed, SetSpindle, SetCoolant, SetDigital, SetAnalog, SetOverride, Wait, SetModes,
                SetToolLength, SelectCoordSystem, UseCoordinateData, AtHome, SetCoordinateOffset,
                AtTarget, StartJog, EndProbe, Pause, EndProgram, Resume, StartCycle, GCodeLine, machine
  <2>2. path' = path
    BY <1>6 DEF SetSpeed, SetSpindle, SetCoolant, SetDigital, SetAnalog, Fail, SetOverride, Wait,
                SetModes, SetToolLength, SelectCoordSystem, UseCoordinateData, AtHome,
                SetCoordinateOffset, AtTarget, StartJog, EndProbe, Pause, EndProgram, Resume,
                StartCycle, GCodeLine, Done, Then, execution
  <2> QED
    BY <1>0, <2>1, <2>2 DEF PlacesKnown
<1> QED
  BY <1>1, <1>2, <1>3, <1>4, <1>5, <1>6 DEF Stages, Motion

\* Resets, cancelled jogs and the stored data that are cleared.
LEMMA PlacesAnew ==
    ASSUME WorkInv, Reset \/ Restart \/ JogCancel \/ Unlock \/ CheckMode \/ RestoreParameters
    PROVE  PlacesKnown'
<1>0. PlacesKnown /\ [c \in CoordNames |-> Zero] \in [CoordNames -> Point]
  BY DEF WorkInv, Zero, Point
<1>1. mpos' \in Way \cup {mpos} /\ queue' \in {queue, <<>>} /\ path' \in {path, <<>>}
      /\ coords' \in {coords, [c \in CoordNames |-> Zero]}
  BY DEF Reset, Restart, JogCancel, Unlock, CheckMode, RestoreParameters, mc_reset, machine, execution
<1>2. mpos \in Point /\ queue \in Seq(Point) /\ path \in Seq(Point) /\ <<>> \in Seq(Point)
      /\ coords \in [CoordNames -> Point]
  BY <1>0 DEF PlacesKnown
<1>3. mpos' \in Point
  BY <1>0, <1>1, <1>2, WayKnown
<1>4. queue' \in Seq(Point) /\ path' \in Seq(Point) /\ coords' \in [CoordNames -> Point]
  BY <1>0, <1>1, <1>2
<1> QED
  BY <1>3, <1>4 DEF PlacesKnown

-----------------------------------------------------------------------------
\* Everything is at zero at boot.
LEMMA InitWork == Init => WorkInv
<1> SUFFICES ASSUME Init PROVE WorkInv
  OBVIOUS
<1>1. Zero \in Point /\ Zero = [a \in Axes |-> 0]
  BY DEF Zero, Point
<1>2. coords \in [CoordNames -> Point] /\ coords["G54"] = Zero
  BY <1>1, SystemNames DEF Init
<1>3. DOMAIN Modal0 = Groups /\ Modal0.coord_select = "G54" /\ "G54" \in ToSet(Systems)
  BY SystemsKnown DEF Modal0, Groups
<1>4. gc = gc_init(Zero)
  BY DEF Init
<1>5. /\ DOMAIN gc = Fields /\ gc.modal = Modal0 /\ gc.position = Zero
      /\ gc.coord_system = coords["G54"] /\ gc.coord_offset = Zero /\ gc.tool_length_offset = 0
  BY <1>4 DEF gc_init, Fields
<1>6. Numbers(gc)
  BY <1>1, <1>2, <1>3, <1>5 DEF Numbers
<1>7. PlacesKnown /\ LineKept
  BY <1>1, <1>2 DEF Init, PlacesKnown, LineKept
<1> QED
  BY <1>6, <1>7, InitStands DEF WorkInv

\* Every step keeps the invariant.
LEMMA NextWorks == ASSUME WorkInv, [Next]_vars PROVE WorkInv'
<1>1. PositionInv'
  BY NextStands DEF WorkInv
<1>2. CASE Stages \/ Motion \/ Resume
  <2>1. Numbers(gc)' /\ PlacesKnown'
    BY <1>2, NumbersKept, PlacesKept
  <2>2. LineKept'
    BY <1>2, OtherStages, OriginStages, ArrivalStages, EndProgramKeeps, EventsKept DEF Stages, Motion
  <2> QED
    BY <1>1, <2>1, <2>2 DEF WorkInv
<1>3. CASE GCodeLine
  BY <1>1, <1>3, GCodeLineKept, PlacesKept DEF WorkInv
<1>4. CASE JogLine
  BY <1>1, <1>4, JogLineKept DEF WorkInv
<1>5. CASE Reset \/ Restart \/ JogCancel \/ Unlock \/ CheckMode \/ RestoreParameters
  <2>1. PlacesKnown'
    BY <1>5, PlacesAnew
  <2> QED
    BY <1>1, <1>5, <2>1, NumbersAnew, EventsKept DEF WorkInv
<1>6. CASE UNCHANGED vars
  BY <1>1, <1>6 DEF vars, machine, execution, WorkInv, Numbers, PlacesKnown, LineKept
<1> QED
  BY <1>2, <1>3, <1>4, <1>5, <1>6 DEF Next

\* What the stages that make use of the origin leave.
LEMMA StagesRead == ASSUME WorkInv, [Next]_vars PROVE
    \/ Ends("nonModal") /\ block.non_modal = "SetCoordinateOffset"
    \/ Ends("coordData") /\ block.values["L"] = 20 /\ CoordIndex(block) = gc.modal.coord_select
    \/ Ends("target") /\ block.non_modal = "NoAction"
       /\ block.modal.motion \in {"Seek", "Linear"} /\ block.modal.distance = "Absolute"
    => Reads(gc')
<1>0. /\ DOMAIN gc = Fields /\ gc.position \in Point /\ gc.coord_system \in Point
      /\ gc.coord_offset \in Point /\ \A a \in Axes : ToolLength(gc, a) \in Int
      /\ todo # <<>> => Kept(gc, block, todo)
  BY DEF WorkInv, Numbers, LineKept, ToolLength
<1>1. ASSUME NEW stage, Ends(stage)
      PROVE  /\ todo # <<>> /\ Head(todo) = stage /\ path = <<>> /\ todo' # todo
             /\ Kept(gc, block, todo) /\ Numbered(block) /\ stage \in ToSet(todo)
             /\ \A a \in Named(block) : a \in Axes /\ Mm(block, block.values[a]) \in Int
  <2>1. todo # <<>> /\ Head(todo) = stage /\ path = <<>> /\ todo' # todo
    BY <1>1 DEF Ends, At
  <2>2. Kept(gc, block, todo) /\ Numbered(block)
    BY <1>0, <2>1 DEF Kept
  <2>3. stage \in ToSet(todo)
    BY <2>1, <2>2, TailRises DEF Kept
  <2>4. \A a \in Named(block) : a \in Axes /\ block.values[a] \in Int
    BY <2>2 DEF Named, Numbered, Letters
  <2> QED
    BY <2>1, <2>2, <2>3, <2>4, MmNumber
<1>2. ASSUME NEW stage, Ends(stage), stage \in {"nonModal", "coordData", "target"}
      PROVE  /\ "coordSelect" \notin ToSet(todo)
             /\ SetCoordinateData \/ UseCoordinateData \/ GoHomeWay \/ SetHome
                \/ SetCoordinateOffset \/ AtTarget
  <2>1. "coordSelect" \notin ToSet(todo)
    <3>1. todo # <<>> /\ Head(todo) = stage /\ Kept(gc, block, todo)
      BY <1>1, <1>2
    <3>2. Place[Head(todo)] >= 10
      BY <1>2, <3>1, Places
    <3>3. "coordSelect" \notin ToSet(Tail(todo))
      BY <3>1, <3>2, LateTail
    <3>4. \A e \in ToSet(todo) : e = Head(todo) \/ e \in ToSet(Tail(todo))
      BY <3>1, TailRises DEF Kept
    <3> QED
      BY <1>2, <3>1, <3>3, <3>4
  <2>2. todo # <<>> /\ path = <<>> /\ todo' # todo /\ Head(todo) = stage
    BY <1>1, <1>2
  <2>3. Next
    BY <2>2 DEF vars, execution
  <2>4. CASE Stages
    <3>1. ~mc_line /\ ~limits_soft_check
      BY <2>2 DEF mc_line, limits_soft_check
    <3>2. ~SetSpeed /\ ~SetSpindle /\ ~SetCoolant /\ ~SetDigital /\ ~SetAnalog /\ ~SetOverride
      BY <1>2, <2>2 DEF SetSpeed, SetSpindle, SetCoolant, SetDigital, SetAnalog, SetOverride, At
    <3>3. ~Wait /\ ~SetModes /\ ~SetToolLength /\ ~SelectCoordSystem /\ ~AtHome /\ ~BeginMotion
      BY <1>2, <2>2 DEF Wait, SetModes, SetToolLength, SelectCoordSystem, AtHome, BeginMotion, At
    <3>4. ~StartJog /\ ~StartProbe /\ ~EndProbe /\ ~Pause /\ ~EndProgram
      BY <1>2, <2>2 DEF StartJog, StartProbe, EndProbe, Pause, EndProgram, At
    <3> QED
      BY <2>1, <2>4, <3>1, <3>2, <3>3, <3>4 DEF Stages
  <2>5. CASE \/ GCodeLine \/ JogLine \/ Motion \/ Resume \/ Reset \/ Restart \/ JogCancel \/ Unlock
             \/ CheckMode \/ RestoreParameters
    BY <1>2, <2>2, <2>5 DEF GCodeLine, JogLine, Motion, StartCycle, EndMotion, Contact, Resume, Reset,
       Restart, JogCancel, Unlock, CheckMode, RestoreParameters, mc_reset, execution, At
  <2> QED
    BY <2>1, <2>3, <2>4, <2>5 DEF Next
<1>3. ASSUME Ends("nonModal"), block.non_modal = "SetCoordinateOffset" PROVE Reads(gc')
  <2>1. SetCoordinateOffset
    BY <1>1, <1>2, <1>3 DEF SetCoordinateData, UseCoordinateData, GoHomeWay, SetHome, AtTarget, At, GoHome
  <2>2. gc' = [gc EXCEPT !.coord_offset = block.xyz]
    BY <1>3, <2>1 DEF SetCoordinateOffset
  <2>3. /\ gc'.position = gc.position /\ gc'.coord_system = gc.coord_system
        /\ gc'.tool_length_offset = gc.tool_length_offset /\ gc'.coord_offset = block.xyz
    BY <1>0, <2>2 DEF Fields
  <2>4. gc.coord_system = block.coord_system /\ OffsetTrue(gc, block)
    BY <1>1, <1>2, <1>3 DEF Kept
  <2>5. ASSUME NEW a \in Named(block) PROVE WorkPosition(gc', a) = Mm(block, block.values[a])
    <3>1. block.xyz[a] = Origin(gc, block, a) - block.coord_system[a]
      BY <1>3, <2>4 DEF OffsetTrue
    <3>2. /\ a \in Axes /\ Mm(block, block.values[a]) \in Int /\ gc.position[a] \in Int
          /\ gc.coord_system[a] \in Int /\ ToolLength(gc, a) \in Int
      BY <1>0, <1>1, <1>3 DEF Point
    <3>3. ToolLength(gc', a) = ToolLength(gc, a)
      BY <2>3 DEF ToolLength
    <3> QED
      BY <2>3, <2>4, <3>1, <3>2, <3>3 DEF WorkPosition, Origin
  <2> QED
    BY <2>1, <2>5 DEF Reads, SetCoordinateOffset, Then
<1>4. ASSUME Ends("coordData"), block.values["L"] = 20, CoordIndex(block) = gc.modal.coord_select
      PROVE  Reads(gc')
  <2>1. UseCoordinateData
    BY <1>1, <1>2, <1>4 DEF SetCoordinateData, GoHomeWay, SetHome, SetCoordinateOffset, AtTarget, At
  <2>2. gc' = [gc EXCEPT !.coord_system = block.coord_data] /\ block' = block
    BY <1>4, <2>1 DEF UseCoordinateData, Then
  <2>3. /\ gc'.position = gc.position /\ gc'.coord_system = block.coord_data
        /\ gc'.tool_length_offset = gc.tool_length_offset /\ gc'.coord_offset = gc.coord_offset
    BY <1>0, <2>2 DEF Fields
  <2>4. DataTrue(gc, block) /\ block.non_modal = "SetCoordinateData"
    BY <1>1, <1>4 DEF Kept
  <2>5. ASSUME NEW a \in Named(block) PROVE WorkPosition(gc', a) = Mm(block, block.values[a])
    <3>1. block.coord_data[a] = Origin(gc, block, a) - gc.coord_offset[a]
      BY <1>4, <2>4 DEF DataTrue
    <3>2. /\ a \in Axes /\ Mm(block, block.values[a]) \in Int /\ gc.position[a] \in Int
          /\ gc.coord_offset[a] \in Int /\ ToolLength(gc, a) \in Int
      BY <1>0, <1>1, <1>4 DEF Point
    <3>3. ToolLength(gc', a) = ToolLength(gc, a)
      BY <2>3 DEF ToolLength
    <3> QED
      BY <2>3, <3>1, <3>2, <3>3 DEF WorkPosition, Origin
  <2> QED
    BY <2>2, <2>5 DEF Reads
<1>5. ASSUME Ends("target"), block.non_modal = "NoAction",
             block.modal.motion \in {"Seek", "Linear"}, block.modal.distance = "Absolute"
      PROVE  Reads(gc')
  <2>1. AtTarget
    BY <1>1, <1>2, <1>5 DEF SetCoordinateData, UseCoordinateData, GoHomeWay, SetHome,
                            SetCoordinateOffset, At
  <2>2. gc' = [gc EXCEPT !.position = block.xyz]
    BY <2>1 DEF AtTarget
  <2>3. /\ gc'.position = block.xyz /\ gc'.coord_system = gc.coord_system
        /\ gc'.tool_length_offset = gc.tool_length_offset /\ gc'.coord_offset = gc.coord_offset
    BY <1>0, <2>2 DEF Fields
  <2>4. gc.coord_system = block.coord_system /\ TargetTrue(gc, block) /\ ToAbsolute(block)
    BY <1>1, <1>2, <1>5 DEF Kept, ToAbsolute
  <2>5. ASSUME NEW a \in Named(block) PROVE WorkPosition(gc', a) = Mm(block, block.values[a])
    <3>1. block.xyz[a] = Mm(block, block.values[a]) + block.coord_system[a] + gc.coord_offset[a]
                         + ToolLength(gc, a)
      BY <2>4 DEF TargetTrue
    <3>2. /\ a \in Axes /\ Mm(block, block.values[a]) \in Int
          /\ gc.coord_system[a] \in Int /\ gc.coord_offset[a] \in Int /\ ToolLength(gc, a) \in Int
      BY <1>0, <1>1, <1>5 DEF Point
    <3>3. ToolLength(gc', a) = ToolLength(gc, a)
      BY <2>3 DEF ToolLength
    <3> QED
      BY <2>3, <2>4, <3>1, <3>2, <3>3 DEF WorkPosition
  <2> QED
    BY <2>5 DEF Reads
<1> QED
  BY <1>3, <1>4, <1>5

\* In every behaviour, whatever the program: G92 and G10 L20 make the work position read
\* what they name, and a plain G0 or G1 in absolute mode ends where it reads it, in the
\* units and under the coordinate system, offsets and tool length of their line, whatever
\* else the line says and wherever it has to wait (gc_execute_line).
THEOREM WorkCoordinatesTrue == Spec => WorkCoordinates
<1>1. WorkInv /\ [Next]_vars
      => [ \/ Ends("nonModal") /\ block.non_modal = "SetCoordinateOffset"
           \/ Ends("coordData") /\ block.values["L"] = 20
              /\ CoordIndex(block) = gc.modal.coord_select
           \/ Ends("target") /\ block.non_modal = "NoAction"
              /\ block.modal.motion \in {"Seek", "Linear"} /\ block.modal.distance = "Absolute"
           => Reads(gc') ]_vars
  BY StagesRead
<1> QED
  BY InitWork, NextWorks, <1>1, PTL DEF Spec, WorkCoordinates
=============================================================================
