-------------------------- MODULE VFDSpindleProofs --------------------------
(***************************************************************************)
(* A VFD spindle does what it was last asked, for every drive of the code, *)
(* every size of its queue, every number of attempts and polls, and any    *)
(* program, however long it runs.                                          *)
(***************************************************************************)
EXTENDS VFDSpindleProperties, TLAPS

Modes == {"Disable", "Cw", "Ccw"}
Commands == [action : {"mode", "speed"}, arg : Modes \cup Int, critical : BOOLEAN]

-----------------------------------------------------------------------------
(* What is on its way to the drive. *)

StopIn(q) == \E i \in DOMAIN q : q[i].action = "mode" /\ q[i].arg = "Disable"
ModeIn(q) == \E i \in DOMAIN q : q[i].action = "mode"
SpeedIn(q) == \E i \in DOMAIN q : q[i].action = "speed"

Sending(what) == task.at = "send" /\ task.cmd.action = what

\* The drive is in a mode, or is being put into it.
InMode(m) == IF Sending("mode") THEN task.cmd.arg = m ELSE drive.mode = m

\* The drive will be stopped: a stop behind any other command discards what follows it.
StopComes == StopIn(vfd_cmd_queue) \/ (~ModeIn(vfd_cmd_queue) /\ InMode("Disable"))

\* Only commands of one call are queued.
AllOf(q, a) == \A i \in DOMAIN q : q[i].arg = IF q[i].action = "mode" THEN a.mode ELSE a.dev

\* The last call was a start that found the spindle settled, and no reset came since.
UnderWay == asked.mode # "Disable" /\ asked.settled

-----------------------------------------------------------------------------
(* The inductive invariant. *)

SpindleTypes ==
    /\ cycle \in BOOLEAN
    /\ main = [at |-> main.at, mode |-> main.mode, target |-> main.target,
               unchanged |-> main.unchanged, last |-> main.last]
    /\ main.target.dev \in Int
    /\ vfd_cmd_queue \in Seq(Commands)
    /\ task = [at |-> task.at, cmd |-> task.cmd, retry |-> task.retry]
    /\ drive = [mode |-> drive.mode, speed |-> drive.speed, actual |-> drive.actual]

\* Whoever takes the spindle for stopped, or has asked for it, can rely on a stop.
StopDue ==
    \/ main.at = "idle" /\ currentState = "Disable"
    \/ main.at # "idle" /\ main.mode = "Disable"
    \/ main.at = "idle" /\ asked.mode = "Disable" /\ ~rtReset /\ ~abort
StopKept == StopDue => StopComes \/ "mode" \in lost

\* A start that a reset has overtaken ends with the restart of the program.
RestartDue == main.at # "idle" /\ main.mode # "Disable" /\ asked.mode = "Disable" => rtReset \/ abort

\* A start under way has only its own commands in the queue, and each of them is on
\* its way, was executed, or is lost.
StartKept ==
    UnderWay =>
        /\ ~rtReset /\ ~abort
        /\ asked.dev # None
        /\ main.at = "setSpeed" => main.target.dev = asked.dev
        /\ AllOf(vfd_cmd_queue, asked)
        /\ "mode" \in lost \/ ModeIn(vfd_cmd_queue) \/ InMode(asked.mode)
        /\ \/ "speed" \in lost \/ main.at = "setSpeed" \/ SpeedIn(vfd_cmd_queue)
           \/ currentDevSpeed = asked.dev

\* The speed that is not sent again is the drive's, unless it was given up.
SpeedKept ==
    IF Sending("speed") THEN task.cmd.arg = currentDevSpeed
    ELSE currentDevSpeed \in {None, drive.speed} \/ "line" \in lost

SpindleInv == SpindleTypes /\ StopKept /\ RestartDue /\ StartKept /\ SpeedKept

\* The segments of a motion carry the speed of the start under way.
SegmentsInv ==
    /\ kind \in Drives /\ programmed \in 0 .. MaxRpm
    /\ UnderWay => known /\ \A t \in Targets(programmed) : t.dev = asked.dev

-----------------------------------------------------------------------------
(* The speed map and the queue. *)

\* With the configured map a speed in its range is never the one that stands for none.
LEMMA LinearMap ==
    ASSUME NEW max \in Nat \ {0}, NEW range \in Nat, NEW speed \in 0 .. max
    PROVE  Map(setupSpeeds(linearSpeeds(max, 100), range), speed) \in Nat
<1> DEFINE entries == setupSpeeds(linearSpeeds(max, 100), range)
           scale == ((100 - 0) * range * 65536) \div (100 * (max - 0))
<1>1. /\ Len(linearSpeeds(max, 100)) = 2 /\ DOMAIN linearSpeeds(max, 100) = {1, 2}
      /\ linearSpeeds(max, 100)[1].speed = 0 /\ linearSpeeds(max, 100)[1].percent = 0
      /\ linearSpeeds(max, 100)[2].speed = max /\ linearSpeeds(max, 100)[2].percent = 100
  BY DEF linearSpeeds, Entry
<1>2. /\ entries[1].speed = 0 /\ entries[1].offset = 0 /\ entries[1].scale = scale
      /\ entries[2].speed = max /\ entries[2].offset = (100 * range) \div 100 /\ entries[2].scale = 0
  BY <1>1 DEF setupSpeeds
<1>3. Len(entries) = 2
  BY <1>1 DEF setupSpeeds
<1>4. scale \in Nat
  <2>1. 100 * range * 65536 \in Nat /\ 100 * max \in Nat \ {0}
    OBVIOUS
  <2>2. \A a \in Nat : \A b \in Nat \ {0} : a \div b \in Nat
    OBVIOUS
  <2> QED
    BY <2>1, <2>2
<1> HIDE DEF entries, scale
<1>5. CASE speed = 0
  BY <1>2, <1>5 DEF Map, entries
<1>6. CASE speed # 0 /\ speed = max
  <2>1. {i \in 2 .. Len(entries) : speed < entries[i].speed} = {}
    BY <1>2, <1>3, <1>6
  <2>2. Map(entries, speed) = entries[2].offset + ((speed - entries[2].speed) * entries[2].scale) \div 65536
    BY <1>2, <1>3, <1>6, <2>1 DEF Map
  <2> QED
    BY <1>2, <1>6, <2>2 DEF entries
<1>7. CASE speed # 0 /\ speed < max
  <2> DEFINE above == {i \in 2 .. Len(entries) : speed < entries[i].speed}
             i == IF above = {} THEN Len(entries) ELSE Min(above) - 1
             value(k) == entries[k].offset + ((speed - entries[k].speed) * entries[k].scale) \div 65536
  <2>1. above = {2}
    BY <1>2, <1>3, <1>7
  <2>2. Map(entries, speed) = IF speed = 0 \/ speed < entries[1].speed THEN entries[1].offset ELSE value(i)
    BY DEF Map
  <2>3. i = 1
    <3> HIDE DEF above
    <3>1. Min({2}) - 1 = 1 /\ {2} # {}
      BY DEF Min
    <3> QED
      BY <2>1, <3>1
  <2>4. Map(entries, speed) = value(1)
    <3>1. ~(speed = 0 \/ speed < entries[1].speed)
      BY <1>2, <1>7
    <3> HIDE DEF value, i
    <3> QED
      BY <2>2, <2>3, <3>1
  <2>5. \A a \in Nat, b \in Nat : a * b \in Nat
    OBVIOUS
  <2>6. speed * scale \in Nat
    BY <1>4, <2>5
  <2> QED
    BY <1>2, <2>4, <2>6 DEF entries
<1> QED
  BY <1>5, <1>6, <1>7

\* What a call of setState takes from the map.
LEMMA TargetsSpeed ==
    ASSUME NEW speed \in 0 .. MaxRpm, NEW t \in Targets(speed), kind \in Drives
    PROVE  t.dev \in Nat
<1>1. Drive.range \in Nat
  BY VFDAssumption DEF Drive, Huanyang, H2A, YL620
<1>2. CASE known
  BY <1>1, <1>2, LinearMap, VFDAssumption DEF Targets
<1>3. CASE ~known
  BY <1>3, VFDAssumption DEF Targets
<1> QED
  BY <1>2, <1>3

\* A command that is sent is the last of the queue, unless the queue is full.
LEMMA QueueSend ==
    ASSUME NEW q \in Seq(Commands), NEW a \in Commands
    PROVE  /\ Send(q, a) \in Seq(Commands)
           /\ StopIn(q) => StopIn(Send(q, a))
           /\ ModeIn(q) => ModeIn(Send(q, a))
           /\ SpeedIn(q) => SpeedIn(Send(q, a))
           /\ ModeIn(Send(q, a)) => ModeIn(q) \/ a.action = "mode"
           /\ ~Full(q) /\ a.action = "mode" => ModeIn(Send(q, a)) /\ (a.arg = "Disable" => StopIn(Send(q, a)))
           /\ ~Full(q) /\ a.action = "speed" => SpeedIn(Send(q, a))
           /\ \A i \in DOMAIN Send(q, a) : Send(q, a)[i] = a \/ (i \in DOMAIN q /\ Send(q, a)[i] = q[i])
<1> DEFINE p == Append(q, a)
<1>1. p \in Seq(Commands) /\ Len(q) \in Nat /\ DOMAIN q = 1 .. Len(q) /\ DOMAIN p = 1 .. (Len(q) + 1)
  OBVIOUS
<1>2. p[Len(q) + 1] = a /\ \A i \in 1 .. Len(q) : p[i] = q[i]
  OBVIOUS
<1>3. Len(q) + 1 \in DOMAIN p /\ \A i \in DOMAIN p : i \in DOMAIN q \/ i = Len(q) + 1
  BY <1>1
<1>4. DOMAIN q \subseteq DOMAIN p
  BY <1>1
<1> HIDE DEF p
<1>5. CASE Full(q)
  BY <1>5 DEF Send
<1>6. CASE ~Full(q)
  <2>1. Send(q, a) = p
    BY <1>6 DEF Send, p
  <2> QED
    BY <1>1, <1>2, <1>3, <1>4, <2>1 DEF StopIn, ModeIn, SpeedIn
<1> QED
  BY <1>5, <1>6

\* Taking the first command leaves the others.
LEMMA QueueTail ==
    ASSUME NEW q \in Seq(Commands), q # <<>>
    PROVE  /\ Tail(q) \in Seq(Commands)
           /\ Head(q) \in Commands
           /\ 1 \in DOMAIN q /\ Head(q) = q[1]
           /\ \A i \in DOMAIN Tail(q) : i + 1 \in DOMAIN q /\ Tail(q)[i] = q[i + 1]
           /\ \A i \in DOMAIN q : i # 1 => i - 1 \in DOMAIN Tail(q) /\ Tail(q)[i - 1] = q[i]
OBVIOUS

\* Both commands of the main program and those of the task have the type of the queue.
LEMMA CommandTypes ==
    /\ \A m \in Modes, c \in BOOLEAN : SetMode(m, c) \in Commands
    /\ \A s \in Int : SetSpeed(s) \in Commands
BY DEF Modes, Commands, SetMode, SetSpeed

\* The commands of one call.
LEMMA QueueOwn ==
    ASSUME NEW q \in Seq(Commands), NEW a, AllOf(q, a)
    PROVE  /\ \A m \in Commands : m.arg = (IF m.action = "mode" THEN a.mode ELSE a.dev) => AllOf(Send(q, m), a)
           /\ q # <<>> => AllOf(Tail(q), a) /\ Head(q).arg = IF Head(q).action = "mode" THEN a.mode ELSE a.dev
<1>1. \A m \in Commands : m.arg = (IF m.action = "mode" THEN a.mode ELSE a.dev) => AllOf(Send(q, m), a)
  <2> SUFFICES ASSUME NEW m \in Commands, m.arg = IF m.action = "mode" THEN a.mode ELSE a.dev
               PROVE  AllOf(Send(q, m), a)
    OBVIOUS
  <2>1. \A i \in DOMAIN Send(q, m) : Send(q, m)[i] = m \/ (i \in DOMAIN q /\ Send(q, m)[i] = q[i])
    BY QueueSend
  <2> QED
    BY <2>1 DEF AllOf
<1>2. ASSUME q # <<>>
      PROVE  AllOf(Tail(q), a) /\ Head(q).arg = IF Head(q).action = "mode" THEN a.mode ELSE a.dev
  <2>1. /\ 1 \in DOMAIN q /\ Head(q) = q[1]
        /\ \A i \in DOMAIN Tail(q) : i + 1 \in DOMAIN q /\ Tail(q)[i] = q[i + 1]
    BY <1>2, QueueTail
  <2> QED
    BY <2>1 DEF AllOf
<1> QED
  BY <1>1, <1>2

\* What is queued behind the first command, and what the first command may be.
LEMMA QueueRest ==
    ASSUME NEW q \in Seq(Commands), q # <<>>
    PROVE  /\ StopIn(q) => StopIn(Tail(q)) \/ (Head(q).action = "mode" /\ Head(q).arg = "Disable")
           /\ ModeIn(q) => ModeIn(Tail(q)) \/ Head(q).action = "mode"
           /\ Head(q).action = "mode" => ModeIn(q)
           /\ ModeIn(Tail(q)) => ModeIn(q)
           /\ SpeedIn(q) => SpeedIn(Tail(q)) \/ Head(q).action = "speed"
<1>1. /\ 1 \in DOMAIN q /\ Head(q) = q[1]
      /\ \A i \in DOMAIN Tail(q) : i + 1 \in DOMAIN q /\ Tail(q)[i] = q[i + 1]
      /\ \A i \in DOMAIN q : i # 1 => i - 1 \in DOMAIN Tail(q) /\ Tail(q)[i - 1] = q[i]
  BY QueueTail
<1>2. \A i \in DOMAIN q : q[i] = Head(q) \/ \E j \in DOMAIN Tail(q) : Tail(q)[j] = q[i]
  BY <1>1
<1>3. \A j \in DOMAIN Tail(q) : \E i \in DOMAIN q : q[i] = Tail(q)[j]
  BY <1>1
<1>4. \E i \in DOMAIN q : q[i] = Head(q)
  BY <1>1
<1> QED
  BY ONLY <1>2, <1>3, <1>4 DEF StopIn, ModeIn, SpeedIn

\* An empty queue.
LEMMA QueueEmpty ==
    /\ <<>> \in Seq(Commands) /\ ~StopIn(<<>>) /\ ~ModeIn(<<>>) /\ ~SpeedIn(<<>>)
    /\ \A a : AllOf(<<>>, a)
<1>1. DOMAIN <<>> = {} /\ <<>> \in Seq(Commands)
  OBVIOUS
<1> QED
  BY <1>1 DEF StopIn, ModeIn, SpeedIn, AllOf

-----------------------------------------------------------------------------
(* The steps of the main program. *)

\* The invariant holds when the program has booted.
LEMMA InitSpindle == Init => SpindleInv
<1> SUFFICES ASSUME Init
             PROVE  SpindleInv
  OBVIOUS
<1>1. vfd_cmd_queue \in Seq(Commands) /\ StopIn(vfd_cmd_queue)
  <2>1. SetMode("Disable", TRUE) \in Commands
    BY CommandTypes DEF Modes
  <2>2. vfd_cmd_queue = <<SetMode("Disable", TRUE)>>
    BY DEF Init
  <2>3. vfd_cmd_queue \in Seq(Commands)
    <3>1. ASSUME NEW S, NEW a \in S
          PROVE  <<a>> \in Seq(S)
      OBVIOUS
    <3> QED
      BY ONLY <2>1, <2>2, <3>1
  <2>4. 1 \in DOMAIN vfd_cmd_queue /\ vfd_cmd_queue[1] = SetMode("Disable", TRUE)
    BY <2>2
  <2> QED
    BY <2>3, <2>4 DEF StopIn, SetMode
<1>2. SpindleTypes
  <2>1. /\ cycle = FALSE
        /\ main = Idle /\ task = Resting /\ drive = [mode |-> "Cw", speed |-> 0, actual |-> 0]
    BY DEF Init
  <2>2. main = [at |-> main.at, mode |-> main.mode, target |-> main.target,
                unchanged |-> main.unchanged, last |-> main.last] /\ main.target.dev \in Int
    BY ONLY <2>1 DEF Idle
  <2>3. task = [at |-> task.at, cmd |-> task.cmd, retry |-> task.retry]
    BY ONLY <2>1 DEF Resting
  <2>4. drive = [mode |-> drive.mode, speed |-> drive.speed, actual |-> drive.actual]
    BY ONLY <2>1
  <2> QED
    BY ONLY <1>1, <2>1, <2>2, <2>3, <2>4 DEF SpindleTypes
<1>3. StopKept /\ RestartDue /\ StartKept /\ SpeedKept
  BY <1>1 DEF Init, StopKept, StopComes, RestartDue, Idle, StartKept, UnderWay, Stop, SpeedKept, Sending, Resting
<1> QED
  BY <1>2, <1>3 DEF SpindleInv

\* What is kept by a step that sends nothing, changes no call and leaves the task alone.
LEMMA QuietStep ==
    ASSUME SpindleInv, cycle' \in BOOLEAN,
           UNCHANGED <<vfd_cmd_queue, currentState, currentDevSpeed, task, drive, asked, lost>>,
           main' = [at |-> main'.at, mode |-> main.mode, target |-> main.target,
                    unchanged |-> main'.unchanged, last |-> main'.last],
           main'.at = "idle" <=> main.at = "idle",
           main'.at = "setSpeed" <=> main.at = "setSpeed",
           rtReset' \/ abort' <=> rtReset \/ abort
    PROVE  SpindleInv'
<1>1. main'.mode = main.mode /\ main'.target = main.target
  OBVIOUS
<1>2. SpindleTypes'
  BY <1>1 DEF SpindleInv, SpindleTypes
<1>3. StopKept' /\ RestartDue'
  BY <1>1 DEF SpindleInv, StopKept, StopDue, StopComes, InMode, Sending, RestartDue
<1>4. StartKept' /\ SpeedKept'
  BY <1>1 DEF SpindleInv, StartKept, UnderWay, InMode, Sending, SpeedKept
<1> QED
  BY <1>2, <1>3, <1>4 DEF SpindleInv

\* A call takes its mode for done only when that mode is kept, and a start that finds
\* the spindle settled sends what is missing.
LEMMA CallKeeps ==
    ASSUME SpindleInv, main.at = "idle", cycle' \in BOOLEAN, NEW mode \in Modes, NEW t, t.dev \in Nat,
           Call(mode, t), mode # "Disable" => ~rtReset' /\ ~abort',
           UNCHANGED <<currentState, currentDevSpeed, task, drive>>
    PROVE  SpindleInv'
<1> USE DEF SpindleInv, SpindleTypes
<1>1. /\ main' = [at |-> main'.at, mode |-> main'.mode, target |-> main'.target,
                  unchanged |-> main'.unchanged, last |-> main'.last]
      /\ main'.mode = mode /\ main'.target = t
      /\ main'.at = IF currentState # mode THEN "setSpeed" ELSE "sync"
  BY DEF Call, AwaitSpeed
<1>2. /\ SetMode(mode, mode # "Disable") \in Commands /\ SetSpeed(t.dev) \in Commands
      /\ SetMode(mode, mode # "Disable").action = "mode" /\ SetMode(mode, mode # "Disable").arg = mode
      /\ SetSpeed(t.dev).action = "speed" /\ SetSpeed(t.dev).arg = t.dev
  <2>1. (mode # "Disable") \in BOOLEAN /\ t.dev \in Int
    OBVIOUS
  <2> QED
    BY <2>1, CommandTypes DEF SetMode, SetSpeed
<1>3. vfd_cmd_queue' \in Seq(Commands)
  BY <1>2, QueueSend DEF Call
<1>4. SpindleTypes'
  BY <1>1, <1>3
<1>5. StopKept'
  <2> SUFFICES ASSUME mode = "Disable"
               PROVE  StopComes' \/ "mode" \in lost'
    BY <1>1 DEF StopKept, StopDue
  <2>1. CASE currentState # mode
    <3>1. CASE Full(vfd_cmd_queue)
      <4>1. lost' = (lost \ {"mode", "speed"}) \cup Dropped("mode")
        BY <2>1 DEF Call
      <4> QED
        BY ONLY <3>1, <4>1 DEF Dropped
    <3>2. CASE ~Full(vfd_cmd_queue)
      <4>1. vfd_cmd_queue' = Send(vfd_cmd_queue, SetMode(mode, mode # "Disable"))
        BY <2>1 DEF Call
      <4>2. vfd_cmd_queue \in Seq(Commands)
        OBVIOUS
      <4>3. StopIn(vfd_cmd_queue')
        BY ONLY <1>2, <3>2, <4>1, <4>2, mode = "Disable", QueueSend
      <4> QED
        BY <4>3 DEF StopComes
    <3> QED
      BY <3>1, <3>2
  <2>2. CASE currentState = mode
    <3>1. StopComes \/ "mode" \in lost
      BY <2>2 DEF StopKept, StopDue
    <3>2. "mode" \in lost => "mode" \in lost'
      BY <2>2 DEF Call
    <3>3. /\ StopIn(vfd_cmd_queue) => StopIn(vfd_cmd_queue')
          /\ ModeIn(vfd_cmd_queue') => ModeIn(vfd_cmd_queue)
      <4>1. vfd_cmd_queue' \in {vfd_cmd_queue, Send(vfd_cmd_queue, SetSpeed(t.dev))}
        BY <2>2 DEF Call
      <4>2. vfd_cmd_queue \in Seq(Commands)
        OBVIOUS
      <4> QED
        BY ONLY <1>2, <4>1, <4>2, QueueSend
    <3> QED
      BY <3>1, <3>2, <3>3 DEF StopComes, InMode, Sending
  <2> QED
    BY <2>1, <2>2
<1>6. RestartDue'
  BY <1>1 DEF RestartDue, Call
<1>7. SpeedKept'
  <2>1. "line" \in lost => "line" \in lost'
    BY DEF Call
  <2> QED
    BY <2>1 DEF SpeedKept, Sending
<1>8. StartKept'
  <2> SUFFICES ASSUME UnderWay'
               PROVE  StartKept'
    BY DEF StartKept
  <2>1. mode # "Disable" /\ Settled /\ asked' = [mode |-> mode, dev |-> t.dev, settled |-> Settled]
    BY DEF UnderWay, Call, Stop
  <2>2. asked'.mode = mode /\ asked'.dev = t.dev /\ t.dev # None
    BY <2>1 DEF None
  <2>3. vfd_cmd_queue = <<>> /\ ~Sending("mode") /\ drive.mode = currentState
    BY <2>1 DEF Settled, Sending
  <2>4. CASE currentState # mode
    <3>1. vfd_cmd_queue' = Send(<<>>, SetMode(mode, mode # "Disable"))
      BY <2>3, <2>4 DEF Call
    <3>2. AllOf(vfd_cmd_queue', asked')
      BY <1>2, <2>2, <3>1, QueueEmpty, QueueOwn
    <3>3. "mode" \in lost' \/ ModeIn(vfd_cmd_queue')
      <4>1. CASE Full(<<>>)
        BY <2>3, <2>4, <4>1 DEF Call, Dropped
      <4>2. CASE ~Full(<<>>)
        BY <1>2, <3>1, <4>2, QueueEmpty, QueueSend
      <4> QED
        BY <4>1, <4>2
    <3> QED
      BY <1>1, <2>1, <2>2, <2>4, <3>2, <3>3 DEF StartKept
  <2>5. CASE currentState = mode
    <3>1. InMode(asked.mode)'
      BY <2>2, <2>3, <2>5 DEF InMode, Sending
    <3>2. CASE currentDevSpeed = t.dev
      <4>1. vfd_cmd_queue' = <<>>
        BY <2>3, <2>5, <3>2 DEF Call
      <4> QED
        BY <1>1, <2>1, <2>2, <2>5, <3>1, <3>2, <4>1, QueueEmpty DEF StartKept
    <3>3. CASE currentDevSpeed # t.dev
      <4>1. vfd_cmd_queue' = Send(<<>>, SetSpeed(t.dev))
        BY <2>3, <2>5, <3>3 DEF Call
      <4>2. AllOf(vfd_cmd_queue', asked')
        BY <1>2, <2>2, <4>1, QueueEmpty, QueueOwn
      <4>3. "speed" \in lost' \/ SpeedIn(vfd_cmd_queue')
        <5>1. CASE Full(<<>>)
          BY <2>3, <2>5, <3>3, <5>1 DEF Call, Dropped
        <5>2. CASE ~Full(<<>>)
          BY <1>2, <4>1, <5>2, QueueEmpty, QueueSend
        <5> QED
          BY <5>1, <5>2
      <4> QED
        BY <1>1, <2>1, <2>2, <2>5, <3>1, <4>2, <4>3 DEF StartKept
    <3> QED
      BY <3>2, <3>3
  <2> QED
    BY <2>4, <2>5
<1> QED
  BY <1>4, <1>5, <1>6, <1>7, <1>8

\* What mc_reset does to the queue and to what is lost.
LEMMA ResetSends ==
    ASSUME SpindleTypes, NEW t, t.dev \in Nat, NEW before, McReset(before, t)
    PROVE  /\ vfd_cmd_queue' \in Seq(Commands) /\ cycle' \in BOOLEAN /\ rtReset'
           /\ StopIn(vfd_cmd_queue) => StopIn(vfd_cmd_queue')
           /\ "line" \in before => "line" \in lost'
           /\ IF Stopping /\ currentState # "Disable"
              THEN StopIn(vfd_cmd_queue') \/ "mode" \in lost'
              ELSE lost' = before /\ (ModeIn(vfd_cmd_queue') => ModeIn(vfd_cmd_queue))
           /\ asked' = IF Stopping THEN Stop ELSE asked
<1> DEFINE m == SetMode("Disable", InCycle)
           s == SetSpeed(t.dev)
<1>1. m \in Commands /\ s \in Commands /\ m.action = "mode" /\ m.arg = "Disable" /\ s.action = "speed"
  <2>1. InCycle \in BOOLEAN /\ "Disable" \in Modes /\ t.dev \in Int
    BY DEF InCycle, Modes
  <2>2. m.action = "mode" /\ m.arg = "Disable" /\ s.action = "speed"
    BY DEF SetMode, SetSpeed
  <2> QED
    BY ONLY <2>1, <2>2, CommandTypes
<1>2. /\ vfd_cmd_queue \in Seq(Commands)
      /\ vfd_cmd_queue' = StopCommands(t)
      /\ asked' = IF Stopping THEN Stop ELSE asked
      /\ lost' = IF Stopping /\ currentState # "Disable" THEN (before \ {"mode"}) \cup Dropped("mode") ELSE before
      /\ rtReset' = TRUE /\ cycle' = cycle
  BY DEF McReset, SpindleTypes
<1>3. cycle' \in BOOLEAN
  BY <1>2 DEF SpindleTypes
<1>4. CASE Stopping /\ currentState # "Disable"
  <2>1. vfd_cmd_queue' = Send(Send(vfd_cmd_queue, m), s)
    BY <1>2, <1>4 DEF StopCommands
  <2>2. Send(vfd_cmd_queue, m) \in Seq(Commands)
    BY <1>1, <1>2, QueueSend
  <2>3. /\ vfd_cmd_queue' \in Seq(Commands)
        /\ StopIn(Send(vfd_cmd_queue, m)) => StopIn(vfd_cmd_queue')
        /\ StopIn(vfd_cmd_queue) => StopIn(Send(vfd_cmd_queue, m))
    BY ONLY <1>1, <1>2, <2>1, <2>2, QueueSend
  <2>4. CASE Full(vfd_cmd_queue)
    BY ONLY <1>2, <1>3, <1>4, <2>3, <2>4 DEF Dropped
  <2>5. CASE ~Full(vfd_cmd_queue)
    <3>1. StopIn(Send(vfd_cmd_queue, m))
      BY ONLY <1>1, <1>2, <2>5, QueueSend
    <3> QED
      BY ONLY <1>2, <1>3, <1>4, <2>3, <3>1
  <2> QED
    BY <2>4, <2>5
<1>5. CASE ~(Stopping /\ currentState # "Disable")
  <2>1. vfd_cmd_queue' \in {vfd_cmd_queue, Send(vfd_cmd_queue, s)}
    BY <1>2, <1>5 DEF StopCommands
  <2>2. /\ vfd_cmd_queue' \in Seq(Commands)
        /\ StopIn(vfd_cmd_queue) => StopIn(vfd_cmd_queue')
        /\ ModeIn(vfd_cmd_queue') => ModeIn(vfd_cmd_queue)
    BY ONLY <1>1, <1>2, <2>1, QueueSend
  <2> QED
    BY ONLY <1>2, <1>3, <1>5, <2>2
<1> QED
  BY <1>4, <1>5

\* After mc_reset, whoever relied on a stop still can, and no start is under way.
LEMMA ResetKeeps ==
    ASSUME SpindleInv, NEW t, t.dev \in Nat, NEW before, McReset(before, t), lost \subseteq before,
           main' = main \/ (main' = Idle /\ main.at # "idle"),
           IF main' = main THEN currentState' = (IF Stopping THEN "Disable" ELSE currentState)
                                 ELSE currentState' = main.mode,
           task' = [at |-> task'.at, cmd |-> task.cmd, retry |-> task'.retry],
           task'.at = task.at \/ (~Sending("speed")' /\ ~Sending("mode")' /\ (Sending("mode") => "mode" \in before)
                                  /\ (Sending("speed") => "line" \in before)),
           drive' = [mode |-> drive'.mode, speed |-> drive'.speed, actual |-> drive'.actual],
           ~Sending("mode") => drive'.mode = drive.mode,
           ~Sending("speed") => drive'.speed = drive.speed,
           UNCHANGED currentDevSpeed
    PROVE  SpindleInv'
<1>1. /\ vfd_cmd_queue' \in Seq(Commands) /\ cycle' \in BOOLEAN /\ rtReset'
      /\ StopIn(vfd_cmd_queue) => StopIn(vfd_cmd_queue')
      /\ "line" \in before => "line" \in lost'
      /\ IF Stopping /\ currentState # "Disable"
         THEN StopIn(vfd_cmd_queue') \/ "mode" \in lost'
         ELSE lost' = before /\ (ModeIn(vfd_cmd_queue') => ModeIn(vfd_cmd_queue))
      /\ asked' = IF Stopping THEN Stop ELSE asked
  <2>1. SpindleTypes
    BY DEF SpindleInv
  <2> QED
    BY <2>1, ResetSends
<1>2. /\ main' = [at |-> main'.at, mode |-> main'.mode, target |-> main'.target,
                  unchanged |-> main'.unchanged, last |-> main'.last]
      /\ main'.target.dev \in Int
      /\ main' = main \/ (main'.at = "idle" /\ main.at # "idle" /\ main' # main)
  BY DEF SpindleInv, SpindleTypes, Idle
<1>3. SpindleTypes'
  BY <1>1, <1>2 DEF SpindleInv, SpindleTypes
<1>4. StopKept'
  <2> SUFFICES ASSUME StopDue', ~(Stopping /\ currentState # "Disable")
               PROVE  StopComes' \/ "mode" \in lost'
    BY <1>1 DEF StopKept, StopComes
  <2>1. StopDue
    BY <1>1, <1>2 DEF StopDue
  <2>2. StopComes \/ "mode" \in lost
    BY <2>1 DEF SpindleInv, StopKept
  <2>3. lost' = before /\ (ModeIn(vfd_cmd_queue') => ModeIn(vfd_cmd_queue))
    BY <1>1
  <2>4. InMode("Disable") => InMode("Disable")' \/ "mode" \in before
    BY DEF InMode, Sending
  <2> QED
    BY <1>1, <2>2, <2>3, <2>4 DEF StopComes
<1>5. RestartDue'
  BY <1>1 DEF RestartDue
<1>6. StartKept'
  <2>1. ~UnderWay'
    BY <1>1 DEF SpindleInv, StartKept, UnderWay, Stop, Stopping
  <2> QED
    BY <2>1 DEF StartKept
<1>7. SpeedKept'
  BY <1>1 DEF SpindleInv, SpeedKept, Sending
<1> QED
  BY <1>3, <1>4, <1>5, <1>6, <1>7 DEF SpindleInv

\* The speed behind a mode.
LEMMA SetStateSpeedKeeps == SpindleInv /\ SetStateSpeed => SpindleInv'
<1> SUFFICES ASSUME SpindleInv, SetStateSpeed
             PROVE  SpindleInv'
  OBVIOUS
<1> DEFINE s == SetSpeed(main.target.dev)
<1>1. s \in Commands /\ s.action = "speed" /\ s.arg = main.target.dev
  BY CommandTypes DEF SetSpeed, SpindleInv, SpindleTypes
<1>2. /\ vfd_cmd_queue \in Seq(Commands) /\ vfd_cmd_queue' = Send(vfd_cmd_queue, s)
      /\ lost' = lost \cup Dropped("speed")
      /\ main.at = "setSpeed" /\ main'.at = "sync" /\ main'.mode = main.mode /\ main'.target = main.target
      /\ main' = [at |-> main'.at, mode |-> main'.mode, target |-> main'.target,
                   unchanged |-> main'.unchanged, last |-> main'.last]
      /\ UNCHANGED <<cycle, abort, rtReset, currentState, currentDevSpeed, task, drive, asked>>
  BY DEF SetStateSpeed, AwaitSpeed, SpindleInv, SpindleTypes, realtime
<1> HIDE DEF s
<1>3. /\ vfd_cmd_queue' \in Seq(Commands)
      /\ StopIn(vfd_cmd_queue) => StopIn(vfd_cmd_queue')
      /\ ModeIn(vfd_cmd_queue') <=> ModeIn(vfd_cmd_queue)
      /\ "speed" \in lost' \/ SpeedIn(vfd_cmd_queue')
  <2>1. CASE Full(vfd_cmd_queue)
    BY ONLY <1>2, <2>1 DEF Dropped, Send
  <2>2. CASE ~Full(vfd_cmd_queue)
    BY ONLY <1>1, <1>2, <2>2, QueueSend
  <2> QED
    BY <2>1, <2>2
<1>4. SpindleTypes'
  BY <1>2, <1>3 DEF SpindleInv, SpindleTypes
<1>5. StopKept' /\ RestartDue' /\ SpeedKept'
  BY <1>2, <1>3
     DEF SpindleInv, StopKept, StopDue, StopComes, InMode, Sending, RestartDue, SpeedKept
<1>6. StartKept'
  <2> SUFFICES ASSUME UnderWay
               PROVE  StartKept'
    BY <1>2 DEF StartKept, UnderWay
  <2>1. AllOf(vfd_cmd_queue', asked)
    BY <1>1, <1>2, QueueOwn DEF SpindleInv, StartKept
  <2> QED
    BY <1>2, <1>3, <2>1 DEF SpindleInv, StartKept, InMode, Sending
<1> QED
  BY <1>4, <1>5, <1>6 DEF SpindleInv

\* The end of a call, with the speed or with a reset.
LEMMA SetStateEndKeeps == SpindleInv /\ kind \in Drives /\ SetStateEnd => SpindleInv'
<1> SUFFICES ASSUME SpindleInv, kind \in Drives, SetStateEnd
             PROVE  SpindleInv'
  OBVIOUS
<1>1. /\ main.at = "sync" /\ main' = Idle /\ currentState' = main.mode
      /\ UNCHANGED <<currentDevSpeed, task, drive>>
  BY DEF SetStateEnd
<1>2. CASE NotReached
  <2>1. PICK t \in Targets(0) : McReset(lost, t)
    BY <1>2 DEF SetStateEnd
  <2>2. t.dev \in Nat
    BY TargetsSpeed, VFDAssumption
  <2> QED
    BY <1>1, <2>1, <2>2, ResetKeeps DEF SpindleInv, SpindleTypes, Idle
<1>3. CASE ~NotReached
  <2>1. UNCHANGED <<cycle, abort, rtReset, vfd_cmd_queue, asked, lost>>
    BY <1>3 DEF SetStateEnd, realtime
  <2>2. /\ main' = [at |-> main'.at, mode |-> main'.mode, target |-> main'.target,
                    unchanged |-> main'.unchanged, last |-> main'.last]
        /\ main'.target.dev \in Int /\ main'.at = "idle"
    BY <1>1 DEF Idle
  <2>3. SpindleTypes'
    BY <1>1, <2>1, <2>2 DEF SpindleInv, SpindleTypes
  <2>4. StopKept'
    BY <1>1, <2>1, <2>2 DEF SpindleInv, StopKept, StopDue, StopComes, InMode, Sending, RestartDue
  <2>5. RestartDue' /\ StartKept' /\ SpeedKept'
    BY <1>1, <2>1, <2>2 DEF SpindleInv, RestartDue, StartKept, UnderWay, InMode, Sending, SpeedKept
  <2> QED
    BY <2>3, <2>4, <2>5 DEF SpindleInv
<1> QED
  BY <1>2, <1>3

\* A reset by the user.
LEMMA UserResetKeeps == SpindleInv /\ kind \in Drives /\ UserReset => SpindleInv'
<1> SUFFICES ASSUME SpindleInv, kind \in Drives, UserReset
             PROVE  SpindleInv'
  OBVIOUS
<1>1. /\ currentState' = IF Stopping THEN "Disable" ELSE currentState
      /\ UNCHANGED <<main, currentDevSpeed, task, drive>>
  BY DEF UserReset, Stopping
<1>2. PICK t \in Targets(0) : McReset(lost, t)
  BY DEF UserReset
<1>3. t.dev \in Nat
  BY TargetsSpeed, VFDAssumption
<1> QED
  BY <1>1, <1>2, <1>3, ResetKeeps DEF SpindleInv, SpindleTypes

\* A call of the program.
LEMMA SetStateKeeps == SpindleInv /\ kind \in Drives /\ SetState => SpindleInv'
<1> SUFFICES ASSUME SpindleInv, kind \in Drives, SetState
             PROVE  SpindleInv'
  OBVIOUS
<1>1. PICK r \in Requests[kind] : \E t \in Targets(r[2]) : Call(r[1], t)
  BY DEF SetState
<1>2. PICK t \in Targets(r[2]) : Call(r[1], t)
  BY <1>1
<1>3. r[1] \in Modes /\ r[2] \in 0 .. MaxRpm
  BY VFDAssumption DEF Modes
<1>4. t.dev \in Nat
  BY <1>3, TargetsSpeed
<1>5. /\ main.at = "idle" /\ ~abort' /\ ~rtReset'
      /\ UNCHANGED <<cycle, currentState, currentDevSpeed, task, drive>>
  BY DEF SetState, realtime
<1> QED
  BY <1>2, <1>3, <1>4, <1>5, CallKeeps DEF SpindleInv, SpindleTypes

\* The restart of the program, which stops the spindle, or an alarm.
LEMMA ExecRealtimeKeeps == SpindleInv /\ kind \in Drives /\ ExecRealtime => SpindleInv'
<1> SUFFICES ASSUME SpindleInv, kind \in Drives, ExecRealtime
             PROVE  SpindleInv'
  OBVIOUS
<1>1. main.at = "idle" /\ UNCHANGED <<currentState, currentDevSpeed, task, drive>>
  BY DEF ExecRealtime
<1>2. CASE rtReset \/ abort
  <2>1. PICK t \in Targets(0) : Call("Disable", t)
    BY <1>2 DEF ExecRealtime
  <2>2. t.dev \in Nat
    BY TargetsSpeed, VFDAssumption
  <2>3. cycle' \in BOOLEAN
    BY <1>2 DEF ExecRealtime
  <2> QED
    BY <1>1, <2>1, <2>2, <2>3, CallKeeps DEF Modes
<1>3. CASE ~(rtReset \/ abort)
  <2>1. UNCHANGED <<rtReset, abort, cycle, main, vfd_cmd_queue, asked, lost>>
    BY <1>3 DEF ExecRealtime
  <2> QED
    BY <1>1, <2>1, QuietStep DEF SpindleInv, SpindleTypes
<1> QED
  BY <1>2, <1>3

\* The steps that send nothing.
LEMMA MainQuietKeeps ==
    SpindleInv /\ (SetStateWait \/ Dwell \/ Unlock \/ CycleStart \/ CycleEnd) => SpindleInv'
<1> SUFFICES ASSUME SpindleInv
             PROVE  (SetStateWait \/ Dwell \/ Unlock \/ CycleStart \/ CycleEnd) => SpindleInv'
  OBVIOUS
<1>1. ASSUME SetStateWait
      PROVE  SpindleInv'
  <2>1. /\ UNCHANGED <<vfd_cmd_queue, currentState, currentDevSpeed, task, drive, asked, lost, cycle, rtReset, abort>>
        /\ main.at = "sync" /\ main'.at = "dwell"
        /\ main' = [at |-> main'.at, mode |-> main.mode, target |-> main.target,
                    unchanged |-> main'.unchanged, last |-> main'.last]
    BY <1>1 DEF SetStateWait, spindle, realtime, SpindleInv, SpindleTypes
  <2> QED
    BY <2>1, QuietStep DEF SpindleInv, SpindleTypes
<1>2. ASSUME Dwell
      PROVE  SpindleInv'
  <2>1. /\ UNCHANGED <<vfd_cmd_queue, currentState, currentDevSpeed, task, drive, asked, lost, cycle, rtReset>>
        /\ main.at = "dwell" /\ main'.at = "sync"
        /\ main' = [at |-> main'.at, mode |-> main.mode, target |-> main.target,
                    unchanged |-> main'.unchanged, last |-> main'.last]
    BY <1>2 DEF Dwell, spindle, SpindleInv, SpindleTypes
  <2>2. rtReset' \/ abort' <=> rtReset \/ abort
    BY <1>2 DEF Dwell, Ended
  <2> QED
    BY <2>1, <2>2, QuietStep DEF SpindleInv, SpindleTypes
<1>3. ASSUME Unlock \/ CycleStart \/ CycleEnd
      PROVE  SpindleInv'
  <2>1. UNCHANGED <<vfd_cmd_queue, currentState, currentDevSpeed, task, drive, asked, lost, rtReset, abort, main>>
    BY <1>3 DEF Unlock, CycleStart, CycleEnd, spindle
  <2>2. cycle' \in BOOLEAN
    BY <1>3 DEF Unlock, CycleStart, CycleEnd, SpindleInv, SpindleTypes
  <2> QED
    BY <2>1, <2>2, QuietStep DEF SpindleInv, SpindleTypes
<1> QED
  BY <1>1, <1>2, <1>3

-----------------------------------------------------------------------------
(* The interrupt. *)

\* A segment sends the speed of the start under way, if there is one, or none is queued.
LEMMA LoadSegmentKeeps == SpindleInv /\ SegmentsInv /\ LoadSegment => SpindleInv'
<1> SUFFICES ASSUME SpindleInv, SegmentsInv, LoadSegment
             PROVE  SpindleInv'
  OBVIOUS
<1>1. PICK t \in Targets(programmed) : vfd_cmd_queue' = Send(vfd_cmd_queue, SetSpeed(t.dev))
  BY DEF LoadSegment
<1> DEFINE s == SetSpeed(t.dev)
<1>2. s \in Commands /\ s.action = "speed" /\ s.arg = t.dev
  <2>1. t.dev \in Int
    BY TargetsSpeed DEF SegmentsInv
  <2> QED
    BY <2>1, CommandTypes DEF SetSpeed
<1>3. /\ vfd_cmd_queue \in Seq(Commands) /\ vfd_cmd_queue' = Send(vfd_cmd_queue, s)
      /\ lost' = IF Full(vfd_cmd_queue) THEN lost ELSE lost \ {"speed"}
      /\ UNCHANGED <<cycle, abort, rtReset, main, currentState, currentDevSpeed, task, drive, asked>>
  BY <1>1 DEF LoadSegment, SpindleInv, SpindleTypes, realtime, spindle
<1> HIDE DEF s
<1>4. /\ vfd_cmd_queue' \in Seq(Commands)
      /\ StopIn(vfd_cmd_queue) => StopIn(vfd_cmd_queue')
      /\ ModeIn(vfd_cmd_queue') <=> ModeIn(vfd_cmd_queue)
      /\ SpeedIn(vfd_cmd_queue) => SpeedIn(vfd_cmd_queue')
      /\ "speed" \in lost => "speed" \in lost' \/ SpeedIn(vfd_cmd_queue')
  <2>1. CASE Full(vfd_cmd_queue)
    BY ONLY <1>3, <2>1 DEF Send
  <2>2. CASE ~Full(vfd_cmd_queue)
    BY ONLY <1>2, <1>3, <2>2, QueueSend
  <2> QED
    BY <2>1, <2>2
<1>5. ("mode" \in lost => "mode" \in lost') /\ ("line" \in lost => "line" \in lost')
  BY <1>3
<1>6. SpindleTypes'
  BY <1>3, <1>4 DEF SpindleInv, SpindleTypes
<1>7. StopKept' /\ RestartDue' /\ SpeedKept'
  BY <1>3, <1>4, <1>5 DEF SpindleInv, StopKept, StopDue, StopComes, InMode, Sending, RestartDue, SpeedKept
<1>8. StartKept'
  <2> SUFFICES ASSUME UnderWay
               PROVE  StartKept'
    BY <1>3 DEF StartKept, UnderWay
  <2>1. AllOf(vfd_cmd_queue', asked)
    <3>1. s.arg = IF s.action = "mode" THEN asked.mode ELSE asked.dev
      BY <1>2 DEF SegmentsInv
    <3>2. AllOf(vfd_cmd_queue, asked)
      BY DEF SpindleInv, StartKept
    <3> QED
      BY ONLY <1>2, <1>3, <3>1, <3>2, QueueOwn
  <2> QED
    BY <1>3, <1>4, <1>5, <2>1 DEF SpindleInv, StartKept, InMode, Sending
<1> QED
  BY <1>6, <1>7, <1>8 DEF SpindleInv

\* What a call asks for is what segments carry from then on.
LEMMA SegmentsCall ==
    ASSUME SegmentsInv, NEW mode, NEW rpm \in 0 .. MaxRpm, NEW t \in Targets(rpm), Call(mode, t),
           programmed' = (IF mode = "Disable" THEN 0 ELSE rpm), UNCHANGED <<kind, known>>
    PROVE  SegmentsInv'
<1>1. kind' \in Drives /\ programmed' \in 0 .. MaxRpm
  BY VFDAssumption DEF SegmentsInv
<1>2. ASSUME UnderWay'
      PROVE  known' /\ \A u \in Targets(programmed)' : u.dev = asked'.dev
  <2>1. mode # "Disable" /\ Settled /\ asked'.dev = t.dev
    BY <1>2 DEF UnderWay, Call, Stop
  <2>2. known /\ programmed' = rpm
    BY <2>1 DEF Settled
  <2>3. Targets(programmed)' = Targets(rpm)
    BY <2>2 DEF Targets, Drive
  <2>4. \A u \in Targets(rpm) : u.dev = t.dev
    BY <2>2 DEF Targets
  <2> QED
    BY <2>1, <2>2, <2>3, <2>4
<1> QED
  BY <1>1, <1>2 DEF SegmentsInv

\* Any other step leaves the segments and the last call alone, or is a stop.
LEMMA SegmentsStep ==
    ASSUME SegmentsInv, UNCHANGED <<kind, programmed>>, known => known',
           asked' \in {asked, Stop}
    PROVE  SegmentsInv'
<1>1. kind' \in Drives /\ programmed' \in 0 .. MaxRpm
  BY DEF SegmentsInv
<1>2. ASSUME UnderWay'
      PROVE  known' /\ \A u \in Targets(programmed)' : u.dev = asked'.dev
  <2>1. asked' = asked /\ UnderWay
    BY <1>2 DEF UnderWay, Stop
  <2>2. known /\ known'
    BY <2>1 DEF SegmentsInv
  <2>3. Targets(programmed)' = Targets(programmed)
    BY <2>2 DEF Targets, Drive
  <2> QED
    BY <2>1, <2>2, <2>3 DEF SegmentsInv
<1> QED
  BY <1>1, <1>2 DEF SegmentsInv

\* Every step keeps what is known of the segments.
LEMMA NextSegments == SegmentsInv /\ [Next]_vars => SegmentsInv'
<1> SUFFICES ASSUME SegmentsInv, [Next]_vars
             PROVE  SegmentsInv'
  OBVIOUS
<1>1. CASE SetState
  <2>1. PICK r \in Requests[kind] : /\ \E t \in Targets(r[2]) : Call(r[1], t)
                                   /\ programmed' = IF r[1] = "Disable" THEN 0 ELSE r[2]
    BY <1>1 DEF SetState
  <2>2. PICK t \in Targets(r[2]) : Call(r[1], t)
    BY <2>1
  <2>3. r[2] \in 0 .. MaxRpm
    BY VFDAssumption DEF SegmentsInv
  <2>4. UNCHANGED <<kind, known>>
    BY <1>1 DEF SetState, config
  <2> QED
    BY <2>1, <2>2, <2>3, <2>4, SegmentsCall
<1>2. CASE ExecRealtime
  <2>1. UNCHANGED <<kind, known>>
    BY <1>2 DEF ExecRealtime, config
  <2>2. CASE rtReset \/ abort
    <3>1. PICK t \in Targets(0) : Call("Disable", t)
      BY <1>2, <2>2 DEF ExecRealtime
    <3>2. programmed' = 0 /\ 0 \in 0 .. MaxRpm
      BY <1>2, <2>2, VFDAssumption DEF ExecRealtime
    <3> QED
      BY <2>1, <3>1, <3>2, SegmentsCall
  <2>3. CASE ~(rtReset \/ abort)
    <3>1. UNCHANGED <<programmed, asked>>
      BY <1>2, <2>3 DEF ExecRealtime
    <3> QED
      BY <2>1, <3>1, SegmentsStep
  <2> QED
    BY <2>2, <2>3
<1>3. CASE SetStateEnd \/ UserReset
  <2>1. UNCHANGED <<kind, known, programmed>>
    BY <1>3 DEF SetStateEnd, UserReset, config
  <2>2. asked' \in {asked, Stop}
    BY <1>3 DEF SetStateEnd, UserReset, McReset
  <2> QED
    BY <2>1, <2>2, SegmentsStep
<1>4. CASE SetStateSpeed \/ SetStateWait \/ Dwell \/ Unlock \/ CycleStart \/ CycleEnd \/ LoadSegment
  <2>1. UNCHANGED <<kind, known, programmed, asked>>
    BY <1>4 DEF SetStateSpeed, SetStateWait, Dwell, Unlock, CycleStart, CycleEnd, LoadSegment, config
  <2> QED
    BY <2>1, SegmentsStep
<1>5. CASE TaskInit \/ TaskSpeed \/ TaskMode \/ TaskPoll \/ TaskAlarm
  <2>1. UNCHANGED <<kind, known, programmed, asked>>
    BY <1>5 DEF TaskInit, TaskSpeed, TaskMode, TaskPoll, TaskAlarm, TaskKeeps, config
  <2> QED
    BY <2>1, SegmentsStep
<1>6. CASE TaskAnswered
  <2>1. UNCHANGED <<kind, programmed, asked>> /\ (known => known')
    BY <1>6 DEF TaskAnswered
  <2> QED
    BY <2>1, SegmentsStep
<1>7. CASE TaskUnanswered
  <2>1. UNCHANGED <<kind, known, programmed>>
    BY <1>7 DEF TaskUnanswered, config
  <2>2. asked' \in {asked, Stop}
    BY <1>7 DEF TaskUnanswered, McReset
  <2> QED
    BY <2>1, <2>2, SegmentsStep
<1>8. CASE UNCHANGED vars
  BY <1>8, SegmentsStep DEF vars, config
<1> QED
  BY <1>1, <1>2, <1>3, <1>4, <1>5, <1>6, <1>7, <1>8 DEF Next, MainNext, TaskNext

-----------------------------------------------------------------------------
(* The steps of the task. *)

\* The task takes a speed from the queue.
LEMMA TaskSpeedKeeps == SpindleInv /\ TaskSpeed => SpindleInv'
<1> SUFFICES ASSUME SpindleInv, TaskSpeed
             PROVE  SpindleInv'
  OBVIOUS
<1> DEFINE a == Head(vfd_cmd_queue)
<1>1. /\ vfd_cmd_queue \in Seq(Commands) /\ vfd_cmd_queue # <<>> /\ vfd_cmd_queue' = Tail(vfd_cmd_queue)
      /\ task.at = "top" /\ a.action = "speed"
      /\ UNCHANGED <<cycle, main, rtReset, abort, drive, asked, lost, currentState>>
  BY DEF TaskSpeed, TaskKeeps, realtime, SpindleInv, SpindleTypes, spindle
<1>2. \/ a.arg = currentDevSpeed /\ UNCHANGED <<task, currentDevSpeed>>
      \/ currentDevSpeed' = a.arg /\ task' = [at |-> "send", cmd |-> a, retry |-> 0]
  BY DEF TaskSpeed, Attempt, spindle
<1> HIDE DEF a
<1>3. /\ vfd_cmd_queue' \in Seq(Commands)
      /\ StopIn(vfd_cmd_queue) => StopIn(vfd_cmd_queue')
      /\ ModeIn(vfd_cmd_queue) <=> ModeIn(vfd_cmd_queue')
  BY ONLY <1>1, QueueTail, QueueRest DEF a
<1>4. /\ task' = [at |-> task'.at, cmd |-> task'.cmd, retry |-> task'.retry]
      /\ ~Sending("mode") /\ ~Sending("mode")'
  BY <1>1, <1>2 DEF SpindleInv, SpindleTypes, Sending
<1>5. SpindleTypes'
  BY <1>1, <1>3, <1>4 DEF SpindleInv, SpindleTypes
<1>6. StopKept' /\ RestartDue'
  BY <1>1, <1>3, <1>4 DEF SpindleInv, StopKept, StopDue, StopComes, InMode, RestartDue
<1>7. SpeedKept'
  BY <1>1, <1>2 DEF SpindleInv, SpeedKept, Sending
<1>8. StartKept'
  <2> SUFFICES ASSUME UnderWay
               PROVE  StartKept'
    BY <1>1 DEF StartKept, UnderWay
  <2>1. AllOf(vfd_cmd_queue', asked) /\ a.arg = asked.dev
    BY <1>1, QueueOwn DEF SpindleInv, StartKept, a
  <2>2. currentDevSpeed' = asked.dev
    BY <1>2, <2>1
  <2> QED
    BY <1>1, <1>3, <1>4, <2>1, <2>2 DEF SpindleInv, StartKept, InMode
<1> QED
  BY <1>5, <1>6, <1>7, <1>8 DEF SpindleInv

\* The task takes a mode from the queue, and with a stop all that is queued behind it.
LEMMA TaskModeKeeps == SpindleInv /\ TaskMode => SpindleInv'
<1> SUFFICES ASSUME SpindleInv, TaskMode
             PROVE  SpindleInv'
  OBVIOUS
<1> DEFINE a == Head(vfd_cmd_queue)
<1>1. /\ vfd_cmd_queue \in Seq(Commands) /\ vfd_cmd_queue # <<>>
      /\ vfd_cmd_queue' = IF a.arg = "Disable" THEN <<>> ELSE Tail(vfd_cmd_queue)
      /\ task.at = "top" /\ a.action = "mode"
      /\ lost' = lost \cup (IF a.arg = "Disable" THEN Discarded ELSE {})
      /\ currentState' = a.arg
      /\ task' = [at |-> "send", cmd |-> a, retry |-> 0]
      /\ UNCHANGED <<cycle, main, rtReset, abort, drive, asked, currentDevSpeed>>
  BY DEF TaskMode, Sends, Attempt, TaskKeeps, realtime, SpindleInv, SpindleTypes, spindle
<1> HIDE DEF a
<1>2. vfd_cmd_queue' \in Seq(Commands)
  BY ONLY <1>1, QueueTail, QueueEmpty
<1>3. /\ task' = [at |-> task'.at, cmd |-> task'.cmd, retry |-> task'.retry]
      /\ Sending("mode")' /\ task'.cmd.arg = a.arg
      /\ ~Sending("mode") /\ ~Sending("speed") /\ ~Sending("speed")'
  BY <1>1 DEF Sending
<1>4. SpindleTypes'
  BY <1>1, <1>2, <1>3 DEF SpindleInv, SpindleTypes
<1>5. StopKept'
  <2>1. CASE a.arg = "Disable"
    <3>1. ~ModeIn(vfd_cmd_queue')
      BY <1>1, <2>1, QueueEmpty
    <3> QED
      BY <1>3, <2>1, <3>1 DEF StopKept, StopComes, InMode
  <2>2. CASE a.arg # "Disable"
    <3>1. /\ StopIn(vfd_cmd_queue) => StopIn(vfd_cmd_queue')
          /\ ModeIn(vfd_cmd_queue)
      BY ONLY <1>1, <2>2, QueueRest DEF a
    <3>2. StopDue' => StopDue
      BY <1>1, <2>2 DEF StopDue
    <3> QED
      BY <1>1, <3>1, <3>2 DEF SpindleInv, StopKept, StopComes
  <2> QED
    BY <2>1, <2>2
<1>6. RestartDue' /\ SpeedKept'
  BY <1>1, <1>3 DEF SpindleInv, RestartDue, SpeedKept
<1>7. StartKept'
  <2> SUFFICES ASSUME UnderWay
               PROVE  StartKept'
    BY <1>1 DEF StartKept, UnderWay
  <2>1. AllOf(Tail(vfd_cmd_queue), asked) /\ a.arg = asked.mode
    BY <1>1, QueueOwn DEF SpindleInv, StartKept, a
  <2>2. a.arg # "Disable"
    BY <2>1 DEF UnderWay
  <2>3. vfd_cmd_queue' = Tail(vfd_cmd_queue)
    BY <1>1, <2>2
  <2>4. SpeedIn(vfd_cmd_queue) => SpeedIn(vfd_cmd_queue')
    BY ONLY <1>1, <2>3, QueueRest DEF a
  <2>5. InMode(asked.mode)'
    BY <1>1, <1>3, <2>1 DEF InMode
  <2> QED
    BY <1>1, <2>1, <2>3, <2>4, <2>5 DEF SpindleInv, StartKept
<1> QED
  BY <1>4, <1>5, <1>6, <1>7 DEF SpindleInv

\* What is kept by a step of the task that leaves the queue and the calls alone and
\* neither starts nor ends the sending of a command.
LEMMA TaskStep ==
    ASSUME SpindleInv,
           UNCHANGED <<cycle, main, rtReset, abort, vfd_cmd_queue, currentState, currentDevSpeed, asked>>,
           lost \subseteq lost' \/ (Sending("speed") /\ drive'.speed = task.cmd.arg /\ lost' = lost \ {"line"}),
           task' = [at |-> task'.at, cmd |-> task'.cmd, retry |-> task'.retry],
           drive' = [mode |-> drive'.mode, speed |-> drive'.speed, actual |-> drive'.actual],
           \/ task'.at = task.at /\ task'.cmd = task.cmd
           \/ ~Sending("mode")' /\ ~Sending("speed")',
           Sending("mode") /\ ~Sending("mode")' => drive'.mode = task.cmd.arg \/ "mode" \in lost',
           ~Sending("mode") => drive'.mode = drive.mode,
           Sending("speed") /\ ~Sending("speed")' => drive'.speed = task.cmd.arg \/ "line" \in lost',
           ~Sending("speed") => drive'.speed = drive.speed
    PROVE  SpindleInv'
<1>1. SpindleTypes'
  BY DEF SpindleInv, SpindleTypes
<1>2. \A m : InMode(m) => InMode(m)' \/ "mode" \in lost'
  BY DEF InMode, Sending
<1>3. "mode" \in lost => "mode" \in lost'
  OBVIOUS
<1>4. "speed" \in lost => "speed" \in lost'
  OBVIOUS
<1>5. StopKept' /\ RestartDue'
  BY <1>2, <1>3 DEF SpindleInv, StopKept, StopDue, StopComes, RestartDue
<1>6. StartKept'
  BY <1>2, <1>3, <1>4 DEF SpindleInv, StartKept, UnderWay
<1>7. SpeedKept'
  BY DEF SpindleInv, SpeedKept, Sending
<1> QED
  BY <1>1, <1>5, <1>6, <1>7 DEF SpindleInv

\* The requests of the initialization sequence and of the polls, and the alarm.
LEMMA TaskRequestKeeps == SpindleInv /\ (TaskInit \/ TaskPoll \/ TaskAlarm) => SpindleInv'
<1> SUFFICES ASSUME SpindleInv, TaskInit \/ TaskPoll \/ TaskAlarm
             PROVE  SpindleInv'
  OBVIOUS
<1>1. UNCHANGED <<cycle, main, rtReset, abort, vfd_cmd_queue, currentState, currentDevSpeed, asked, lost, drive>>
  BY DEF TaskInit, TaskPoll, TaskAlarm, TaskKeeps, realtime, spindle
<1>2. task.at \in {"top", "alarm"}
  BY DEF TaskInit, TaskPoll, TaskAlarm
<1>3. \/ task' = task
      \/ task' = [at |-> "send", cmd |-> Request("init"), retry |-> 0]
      \/ task' = [at |-> "send", cmd |-> Request("poll"), retry |-> 0]
      \/ task' = [at |-> "top", cmd |-> NoCommand, retry |-> 0]
  BY DEF TaskInit, TaskPoll, TaskAlarm, Attempt, Resting
<1>4. /\ task' = [at |-> task'.at, cmd |-> task'.cmd, retry |-> task'.retry]
      /\ ~Sending("mode") /\ ~Sending("speed") /\ ~Sending("mode")' /\ ~Sending("speed")'
  BY <1>2, <1>3 DEF Sending, Request, SpindleInv, SpindleTypes
<1> QED
  BY <1>1, <1>4, TaskStep DEF SpindleInv, SpindleTypes

\* What the drive does with a command.
LEMMA ObeyedTypes ==
    ASSUME SpindleTypes, NEW d, d \in {drive, Obeyed(task.cmd)}
    PROVE  /\ d = [mode |-> d.mode, speed |-> d.speed, actual |-> d.actual]
           /\ task.cmd.action # "mode" => d.mode = drive.mode
           /\ task.cmd.action # "speed" => d.speed = drive.speed
           /\ d = Obeyed(task.cmd) /\ task.cmd.action = "mode" => d.mode = task.cmd.arg
           /\ d = Obeyed(task.cmd) /\ task.cmd.action = "speed" => d.speed = task.cmd.arg
<1>1. CASE task.cmd.action = "mode"
  BY <1>1 DEF Obeyed, SpindleTypes
<1>2. CASE task.cmd.action = "speed"
  BY <1>2 DEF Obeyed, SpindleTypes
<1>3. CASE task.cmd.action \notin {"mode", "speed"}
  BY <1>3 DEF Obeyed, SpindleTypes
<1> QED
  BY <1>1, <1>2, <1>3

\* An attempt that is answered.
LEMMA TaskAnsweredKeeps == SpindleInv /\ TaskAnswered => SpindleInv'
<1> SUFFICES ASSUME SpindleInv, TaskAnswered
             PROVE  SpindleInv'
  OBVIOUS
<1>1. /\ UNCHANGED <<cycle, main, rtReset, abort, vfd_cmd_queue, currentState, currentDevSpeed, asked>>
      /\ task.at = "send" /\ task' = Resting
      /\ lost' = IF task.cmd.action = "speed" THEN lost \ {"line"} ELSE lost
  BY DEF TaskAnswered, realtime
<1>2. /\ task' = [at |-> task'.at, cmd |-> task'.cmd, retry |-> task'.retry]
      /\ ~Sending("mode")' /\ ~Sending("speed")'
  BY <1>1 DEF Resting, Sending
<1>3. CASE task.cmd.action = "poll"
  <2>1. PICK actual \in {drive.actual, Goal} : drive' = [drive EXCEPT !.actual = actual]
    BY <1>3 DEF TaskAnswered
  <2>2. /\ drive' = [mode |-> drive'.mode, speed |-> drive'.speed, actual |-> drive'.actual]
        /\ drive'.mode = drive.mode /\ drive'.speed = drive.speed
    BY <2>1 DEF SpindleInv, SpindleTypes
  <2>3. lost' = lost /\ ~Sending("mode") /\ ~Sending("speed")
    BY <1>1, <1>3 DEF Sending
  <2> QED
    BY <1>1, <1>2, <2>2, <2>3, TaskStep
<1>4. CASE task.cmd.action # "poll"
  <2>1. drive' = Obeyed(task.cmd)
    BY <1>4 DEF TaskAnswered
  <2>2. /\ drive' = [mode |-> drive'.mode, speed |-> drive'.speed, actual |-> drive'.actual]
        /\ task.cmd.action # "mode" => drive'.mode = drive.mode
        /\ task.cmd.action # "speed" => drive'.speed = drive.speed
        /\ task.cmd.action = "mode" => drive'.mode = task.cmd.arg
        /\ task.cmd.action = "speed" => drive'.speed = task.cmd.arg
    BY <2>1, ObeyedTypes DEF SpindleInv
  <2>3. \A what : Sending(what) <=> task.cmd.action = what
    BY <1>1 DEF Sending
  <2>4. lost \subseteq lost' \/ (Sending("speed") /\ drive'.speed = task.cmd.arg /\ lost' = lost \ {"line"})
    BY <1>1, <2>2, <2>3
  <2> QED
    BY <1>1, <1>2, <2>2, <2>3, <2>4, TaskStep
<1> QED
  BY <1>3, <1>4

\* An attempt that is not answered: the next one, a command given up, or a reset.
LEMMA TaskUnansweredKeeps == SpindleInv /\ kind \in Drives /\ TaskUnanswered => SpindleInv'
<1> SUFFICES ASSUME SpindleInv, kind \in Drives, TaskUnanswered
             PROVE  SpindleInv'
  OBVIOUS
<1> DEFINE missing == lost \cup (CASE task.cmd.action = "mode" -> {"mode"}
                                 [] task.cmd.action = "speed" -> {"line"} [] OTHER -> {})
<1>1. /\ task.at = "send" /\ drive' \in {drive, Obeyed(task.cmd)}
      /\ UNCHANGED <<main, currentDevSpeed>>
  BY DEF TaskUnanswered
<1>2. /\ drive' = [mode |-> drive'.mode, speed |-> drive'.speed, actual |-> drive'.actual]
      /\ task.cmd.action # "mode" => drive'.mode = drive.mode
      /\ task.cmd.action # "speed" => drive'.speed = drive.speed
  BY <1>1, ObeyedTypes DEF SpindleInv
<1>3. \A what : Sending(what) <=> task.cmd.action = what
  BY <1>1 DEF Sending
<1>4. /\ lost \subseteq missing
      /\ task.cmd.action = "mode" => "mode" \in missing
      /\ task.cmd.action = "speed" => "line" \in missing
  OBVIOUS
<1> HIDE DEF missing
<1>5. CASE ~GivesUp
  <2>1. /\ task' = [task EXCEPT !.retry = @ + 1]
        /\ UNCHANGED <<cycle, rtReset, abort, vfd_cmd_queue, currentState, asked, lost>>
    BY <1>5 DEF TaskUnanswered, realtime
  <2>2. /\ task' = [at |-> task'.at, cmd |-> task'.cmd, retry |-> task'.retry]
        /\ task'.at = task.at /\ task'.cmd = task.cmd
    BY <2>1 DEF SpindleInv, SpindleTypes
  <2>3. \A what : Sending(what)' <=> Sending(what)
    BY <2>2 DEF Sending
  <2> QED
    BY <1>1, <1>2, <1>3, <2>1, <2>2, <2>3, TaskStep
<1>6. CASE GivesUp /\ ~Critical
  <2>1. /\ task' = Resting /\ lost' = missing
        /\ UNCHANGED <<cycle, rtReset, abort, vfd_cmd_queue, currentState, asked>>
    BY <1>6 DEF TaskUnanswered, realtime, missing
  <2>2. /\ task' = [at |-> task'.at, cmd |-> task'.cmd, retry |-> task'.retry]
        /\ ~Sending("mode")' /\ ~Sending("speed")'
    BY <2>1 DEF Resting, Sending
  <2> QED
    BY <1>1, <1>2, <1>3, <1>4, <2>1, <2>2, TaskStep
<1>7. CASE GivesUp /\ Critical
  <2>1. /\ task' = [task EXCEPT !.at = "alarm"]
        /\ \E t \in Targets(0) : McReset(missing, t)
        /\ currentState' = IF Stopping THEN "Disable" ELSE currentState
    BY <1>7 DEF TaskUnanswered, missing
  <2>2. PICK t \in Targets(0) : McReset(missing, t)
    BY <2>1
  <2>3. t.dev \in Nat
    BY TargetsSpeed, VFDAssumption
  <2>4. /\ task' = [at |-> task'.at, cmd |-> task.cmd, retry |-> task'.retry]
        /\ task'.at = "alarm"
    BY <2>1 DEF SpindleInv, SpindleTypes
  <2>5. ~Sending("mode")' /\ ~Sending("speed")'
    BY <2>4 DEF Sending
  <2> QED
    BY <1>1, <1>2, <1>3, <1>4, <2>1, <2>2, <2>3, <2>4, <2>5, ResetKeeps
<1> QED
  BY <1>5, <1>6, <1>7

-----------------------------------------------------------------------------

\* Every step keeps the invariant.
LEMMA NextSpindle == SpindleInv /\ SegmentsInv /\ [Next]_vars => SpindleInv'
<1> SUFFICES ASSUME SpindleInv, SegmentsInv, [Next]_vars
             PROVE  SpindleInv'
  OBVIOUS
<1>1. kind \in Drives
  BY DEF SegmentsInv
<1>2. CASE MainNext
  BY <1>1, <1>2, SetStateKeeps, SetStateSpeedKeeps, SetStateEndKeeps, MainQuietKeeps, ExecRealtimeKeeps, UserResetKeeps
     DEF MainNext
<1>3. CASE LoadSegment
  BY <1>3, LoadSegmentKeeps
<1>4. CASE TaskNext
  BY <1>1, <1>4, TaskRequestKeeps, TaskSpeedKeeps, TaskModeKeeps, TaskAnsweredKeeps, TaskUnansweredKeeps DEF TaskNext
<1>5. CASE UNCHANGED vars
  <2>1. UNCHANGED <<cycle, main, rtReset, abort, vfd_cmd_queue, currentState, currentDevSpeed, asked, lost,
                    task, drive>>
    BY <1>5 DEF vars, realtime, spindle
  <2> QED
    BY <2>1, QuietStep DEF SpindleInv, SpindleTypes
<1> QED
  BY <1>2, <1>3, <1>4, <1>5 DEF Next

\* The spindle does what was last asked of it: it stops unless the stop was lost on the
\* way, and runs as asked when the call found it settled and nothing was lost.
THEOREM AlwaysObeys == Spec => []DriveObeys
<1>1. Init => SpindleInv /\ SegmentsInv
  <2>1. Init => kind \in Drives /\ programmed \in 0 .. MaxRpm /\ ~UnderWay
    BY VFDAssumption DEF Init, UnderWay, Stop
  <2> QED
    BY <2>1, InitSpindle DEF SegmentsInv
<1>2. SpindleInv => DriveObeys
  <2> SUFFICES ASSUME SpindleInv, main.at = "idle", ~rtReset, ~abort, vfd_cmd_queue = <<>>, task.at = "top"
               PROVE  /\ asked.mode = "Disable" /\ "mode" \notin lost => drive.mode = "Disable"
                      /\ asked.mode # "Disable" /\ asked.settled /\ lost = {}
                             => drive.mode = asked.mode /\ drive.speed = asked.dev
    BY DEF DriveObeys
  <2>1. ~Sending("mode") /\ ~Sending("speed")
    BY DEF Sending
  <2>2. asked.mode = "Disable" /\ "mode" \notin lost => drive.mode = "Disable"
    BY <2>1, QueueEmpty DEF SpindleInv, StopKept, StopDue, StopComes, InMode
  <2>3. ASSUME asked.mode # "Disable", asked.settled, lost = {}
        PROVE  drive.mode = asked.mode /\ drive.speed = asked.dev
    <3>1. /\ asked.dev # None
          /\ InMode(asked.mode) /\ currentDevSpeed = asked.dev
      BY <2>3, QueueEmpty DEF SpindleInv, StartKept, UnderWay
    <3>2. currentDevSpeed \in {None, drive.speed}
      BY <2>1, <2>3 DEF SpindleInv, SpeedKept
    <3> QED
      BY <2>1, <3>1, <3>2 DEF InMode
  <2> QED
    BY <2>2, <2>3
<1>3. SpindleInv /\ SegmentsInv /\ [Next]_vars => (SpindleInv /\ SegmentsInv)'
  BY NextSpindle, NextSegments
<1> QED
  BY <1>1, <1>2, <1>3, PTL DEF Spec
=============================================================================
