------------------------- MODULE ConfigurationProofs -------------------------
(***************************************************************************)
(* The machine never crashes twice in a row: whatever the files are and    *)
(* whatever the user does, a start that follows a crash does not crash.    *)
(***************************************************************************)
EXTENDS ConfigurationProperties, TLAPS

Root(indent) == <<[obj |-> "machine", entry |-> -1, this |-> indent]>>

\* The root takes at most the two lines of the built-in configuration.
OnlyRoot == lines = defaultConfig /\ applied \subseteq {"machine"} \X (1 .. 2)

\* Reading the built-in configuration: it never leaves the root, and every line is
\* taken or ignored.
ReadingDefault ==
    /\ OnlyRoot
    /\ made = {"machine"}
    /\ state = "Idle"
    /\ \/ /\ parse = "enter"
          /\ tok = [line |-> 0, state |-> "Matching"]
          /\ stack = Root(-1)
       \/ /\ parse = "token"
          /\ tok \in [line : 1 .. 3, state : {"Matching"}]
          /\ stack = Root(0)
       \/ /\ parse = "next"
          /\ tok \in [line : 1 .. 2, state : {"Matching", "Matched"}]
          /\ stack = Root(0)
       \/ parse = "done"

\* The tree is complete and no assertion can fail.
Complete == OnlyRoot /\ Defaults \subseteq made /\ "driver" \notin made

(***************************************************************************)
(* PanicRecovers is not inductive: that a start does not crash depends on  *)
(* what was read, made and set up before.                                  *)
(***************************************************************************)
IInv ==
    reset = "panic" =>
        \/ phase = "load" /\ state = "Idle"
        \/ phase = "parse" /\ ReadingDefault
        \/ phase = "init" /\ Complete /\ state = "Idle"
        \/ /\ phase \in {"main", "run", "sleep"}
           /\ Complete
           /\ {"userOutputs", "axes", "coolant"} \subseteq ready

\* The pins of the coolant are those of no line.
LEMMA NoValue ==
    ASSUME OnlyRoot, NEW obj, obj # "machine", NEW key
    PROVE  Value(obj, key) = "none"
<1>1. {i \in 1 .. Len(lines) : <<obj, i>> \in applied /\ lines[i].key = key} = {}
  BY DEF OnlyRoot
<1> QED
  BY <1>1 DEF Value

LEMMA NoShiftIn ==
    ASSUME OnlyRoot
    PROVE  ~ShiftInUsed
<1>1. \A i \in 1 .. 2 : lines[i].val = "ok"
  BY DEF OnlyRoot, defaultConfig, Line
<1> QED
  BY <1>1 DEF ShiftInUsed, OnlyRoot

\* What a line of the built-in configuration is.
LEMMA DefaultLines ==
    ASSUME OnlyRoot
    PROVE  /\ Len(lines) = 2
           /\ \A i \in 1 .. 2 : /\ lines[i].indent = 0
                                /\ lines[i].val = "ok"
                                /\ lines[i].key \in {"name", "board"}
  BY DEF OnlyRoot, defaultConfig, Line

LEMMA ParseKeeps ==
    ASSUME ReadingDefault, Parse
    PROVE  ReadingDefault'
<1>0. OnlyRoot
  BY DEF ReadingDefault
<1>1. /\ Len(lines) = 2
      /\ \A i \in 1 .. 2 : /\ lines[i].indent = 0
                           /\ lines[i].val = "ok"
                           /\ lines[i].key \in {"name", "board"}
  BY <1>0, DefaultLines
<1>2. ~TokenizeFails
  BY <1>1 DEF TokenizeFails, IsLine
<1>3. parse \in {"token", "next"} => Len(stack) = 1 /\ Top = Root(0)[1]
  BY DEF ReadingDefault, Root, Top, Last
<1>4. CASE OpenSection
  <2>1. parse = "enter" /\ tok = [line |-> 0, state |-> "Matching"] /\ stack = Root(-1)
    BY <1>4 DEF OpenSection, ReadingDefault
  <2>2. NextToken = [line |-> 1, state |-> "Matching"] /\ Indent(NextToken) = 0
    BY <2>1, <1>1 DEF NextToken, Indent, IsLine
  <2>3. Top.entry = -1 /\ Len(stack) = 1
    BY <2>1 DEF Top, Last, Root
  <2>4. /\ tok' = [line |-> 1, state |-> "Matching"]
        /\ stack' = [stack EXCEPT ![Len(stack)].this = 0]
        /\ parse' = "token"
        /\ UNCHANGED <<lines, made, applied, state>>
    BY <1>2, <1>4, <2>2, <2>3 DEF OpenSection
  <2>5. stack' = Root(0)
    BY <2>1, <2>3, <2>4 DEF Root
  <2> QED
    BY <2>4, <2>5 DEF ReadingDefault, OnlyRoot
<1>5. CASE Tokenize
  <2>1. parse = "next" /\ tok \in [line : 1 .. 2, state : {"Matching", "Matched"}]
        /\ stack = Root(0)
    BY <1>5 DEF Tokenize, ReadingDefault
  <2>2. NextToken \in [line : 1 .. 3, state : {"Matching"}]
    BY <2>1 DEF NextToken
  <2>3. tok' = NextToken /\ parse' = "token" /\ UNCHANGED <<lines, stack, made, applied, state>>
    BY <1>2, <1>5 DEF Tokenize
  <2> QED
    BY <2>1, <2>2, <2>3 DEF ReadingDefault, OnlyRoot
<1>6. CASE LeaveSection
  <2>1. Len(stack) = 1
    BY <1>3, <1>6 DEF LeaveSection
  <2>2. parse' = "done" /\ UNCHANGED <<lines, made, applied, state>>
    BY <1>6, <2>1 DEF LeaveSection, LeaveAt
  <2> QED
    BY <2>2 DEF ReadingDefault, OnlyRoot
<1>7. CASE SkipKey
  <2>1. parse = "token" /\ Top.this = 0
    BY <1>3, <1>7 DEF SkipKey, Root
  <2>2. Indent(tok) \in {0, -1}
    BY <2>1, <1>1 DEF ReadingDefault, Indent, IsLine
  <2> QED
    BY <1>7, <2>1, <2>2 DEF SkipKey
<1>8. CASE MakeSection \/ TakeItem \/ IgnoreKey
  <2>1. parse = "token" /\ Indent(tok) = 0 /\ Top.obj = "machine" /\ stack = Root(0)
        /\ tok \in [line : 1 .. 3, state : {"Matching"}]
    BY <1>3, <1>8 DEF MakeSection, TakeItem, IgnoreKey, Here, ReadingDefault, Root
  <2>2. tok.line \in 1 .. 2
    BY <2>1, <1>1 DEF Indent, IsLine
  <2>3. Key \in {"name", "board"} /\ Val = "ok"
    BY <2>2, <1>1 DEF Key, Val
  <2>4. ~MakeSection
    BY <2>1, <2>3 DEF MakeSection, Sections
  <2>5. CASE TakeItem
    <3>1. /\ applied' = applied \cup {<<"machine", tok.line>>}
          /\ tok' = [tok EXCEPT !.state = "Matched"]
          /\ parse' = "next"
          /\ UNCHANGED <<lines, stack, made, state>>
      BY <2>1, <2>3, <2>5 DEF TakeItem, Reenter
    <3>2. tok' \in [line : 1 .. 2, state : {"Matching", "Matched"}]
      BY <2>1, <2>2, <3>1
    <3> QED
      BY <1>0, <2>1, <2>2, <3>1, <3>2 DEF ReadingDefault, OnlyRoot
  <2>6. CASE IgnoreKey
    <3>1. parse' = "next" /\ UNCHANGED <<lines, tok, stack, made, applied, state>>
      BY <2>1, <2>6 DEF IgnoreKey, Reenter
    <3> QED
      BY <2>1, <2>2, <3>1 DEF ReadingDefault, OnlyRoot
  <2> QED
    BY <1>8, <2>4, <2>5, <2>6
<1> QED
  BY <1>4, <1>5, <1>6, <1>7, <1>8 DEF Parse

LEMMA InitKeeps == Init => IInv
  BY DEF Init, IInv

LEMMA LoadKeeps ==
    ASSUME IInv, load \/ ReadFile \/ afterParse \/ CatchParseException \/ main_init
    PROVE  IInv'
<1> SUFFICES ASSUME reset' = "panic"
             PROVE  IInv'
  BY DEF IInv
<1>0. reset = "panic"
  BY DEF load, ReadFile, afterParse, CatchParseException, main_init
<1>1. CASE load
  <2>1. BeginParse(defaultConfig) /\ phase' = "parse" /\ state' = "Idle"
    BY <1>0, <1>1 DEF load, IInv
  <2> QED
    BY <2>1 DEF BeginParse, ReadingDefault, OnlyRoot, Root, IInv
<1>2. CASE ReadFile
  <2>1. ReadingDefault /\ phase' = "parse"
    BY <1>0, <1>2 DEF ReadFile, IInv
  <2>2. ReadingDefault'
    BY <1>2, <2>1, ParseKeeps DEF ReadFile
  <2> QED
    BY <2>1, <2>2 DEF IInv
<1>3. CASE afterParse
  <2>1. ReadingDefault /\ OnlyRoot
    BY <1>0, <1>3 DEF afterParse, IInv, ReadingDefault
  <2>2. ~ShiftInUsed /\ Value("x", "max_rate") = "none"
    BY <2>1, NoShiftIn, NoValue
  <2>3. ~Invalid
    BY <2>1, <2>2 DEF Invalid, DriverInvalid, ReadingDefault
  <2>4. made' = made \cup Defaults /\ state' = state /\ phase' = "init" /\ UNCHANGED <<lines, applied>>
    BY <1>3, <2>2, <2>3 DEF afterParse
  <2> QED
    BY <2>1, <2>4 DEF ReadingDefault, OnlyRoot, Complete, Defaults, IInv
<1>4. CASE CatchParseException
  BY <1>0, <1>4 DEF CatchParseException, IInv, ReadingDefault
<1>5. CASE main_init
  <2>1. Complete /\ OnlyRoot /\ state = "Idle" /\ "driver" \notin made
    BY <1>0, <1>5 DEF main_init, IInv, Complete
  <2>2. Value("coolant", "flood_pin") = "none"
    BY <2>1, NoValue
  <2>3. ready' = {"userOutputs", "axes", "coolant"} /\ phase' = "main" /\ UNCHANGED <<lines, made, applied>>
    BY <1>5, <2>1, <2>2 DEF main_init
  <2> QED
    BY <2>1, <2>3 DEF Complete, OnlyRoot, IInv
<1> QED
  BY <1>1, <1>2, <1>3, <1>4, <1>5

\* While the machine runs nothing is missing: a crash or a failed assertion cannot be
\* what happens.
LEMMA RunKeeps ==
    ASSUME IInv,
           \/ run_once \/ Answer \/ mc_reset \/ Upload
           \/ Move \/ protocol_do_cycle_stop \/ protocol_do_sleep \/ protocol_do_alarm
           \/ disable_alarm_lock
           \/ \E rate \in {"ok", "fast"} : do_command_or_setting(rate)
    PROVE  IInv'
<1> SUFFICES ASSUME reset' = "panic"
             PROVE  IInv'
  BY DEF IInv
<1> DEFINE Commands == Move \/ protocol_do_cycle_stop \/ protocol_do_alarm \/ disable_alarm_lock
<1>0. reset = "panic" /\ phase \in {"main", "run", "sleep"}
  BY DEF run_once, Answer, mc_reset, Upload, do_command_or_setting, Panic, AssertionInMain,
         Move, protocol_do_cycle_stop, protocol_do_sleep, protocol_do_alarm,
         disable_alarm_lock, SetState
<1>1. Complete /\ {"userOutputs", "axes", "coolant"} \subseteq ready
  BY <1>0 DEF IInv
<1>2. {"start", "spindle"} \subseteq made /\ Defaults \subseteq made
  BY <1>1 DEF Complete, Defaults
<1>3. CASE run_once
  <2>1. phase' = "run" /\ UNCHANGED <<lines, made, applied, ready>>
    BY <1>2, <1>3 DEF run_once
  <2> QED
    BY <1>1, <2>1 DEF Complete, OnlyRoot, IInv
<1>4. CASE Answer
  BY <1>2, <1>4 DEF Answer
<1>5. CASE mc_reset \/ protocol_do_sleep
  <2>1. ~CoolantUnready /\ ~("driver" \in made /\ "axes" \notin ready)
    BY <1>1 DEF CoolantUnready
  <2>2. phase' \in {"main", "sleep"} /\ UNCHANGED <<lines, made, applied, ready>>
    BY <1>1, <1>2, <1>5, <2>1 DEF mc_reset, protocol_do_sleep, SetState
  <2> QED
    BY <1>1, <2>2 DEF Complete, OnlyRoot, IInv
<1>6. CASE Upload
  <2>1. UNCHANGED <<parserVars, ready, phase>>
    BY <1>6 DEF Upload
  <2> QED
    BY <1>0, <1>1, <2>1 DEF parserVars, Complete, OnlyRoot, IInv
<1>7. CASE \E rate \in {"ok", "fast"} : do_command_or_setting(rate)
  <2>1. UNCHANGED <<lines, applied, ready, phase>> /\ made' \in {made, made \cup Defaults}
    BY <1>7 DEF do_command_or_setting
  <2> QED
    BY <1>0, <1>1, <2>1 DEF Complete, OnlyRoot, Defaults, IInv
<1>8. CASE Commands
  <2>1. UNCHANGED <<lines, made, applied, ready>> /\ phase' = phase
    BY <1>1, <1>8 DEF Move, protocol_do_cycle_stop, protocol_do_alarm, disable_alarm_lock, SetState
  <2> QED
    BY <1>0, <1>1, <2>1 DEF Complete, OnlyRoot, IInv
<1> QED
  BY <1>3, <1>4, <1>5, <1>6, <1>7, <1>8

LEMMA StepKeeps == IInv /\ [Next]_vars => IInv'
<1> SUFFICES ASSUME IInv, [Next]_vars
             PROVE  IInv'
  OBVIOUS
<1>1. CASE UNCHANGED vars
  BY <1>1 DEF vars, parserVars, motionVars, IInv, ReadingDefault, OnlyRoot, Complete
<1>2. CASE RestartAfterPanic \/ Restart
  BY <1>2 DEF RestartAfterPanic, Restart, Boot, IInv
<1> QED
  BY <1>1, <1>2, LoadKeeps, RunKeeps DEF Next, Start

LEMMA Recovers == IInv => PanicRecovers
  BY DEF IInv, PanicRecovers

\* A crash is not followed by another one.
THEOREM NoCrashLoop == Spec => []PanicRecovers
<1>1. Spec => []IInv
  BY InitKeeps, StepKeeps, PTL DEF Spec
<1> QED
  BY <1>1, Recovers, PTL
=============================================================================
