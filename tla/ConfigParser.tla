---------------------------- MODULE ConfigParser ----------------------------
(* Reading the configuration file: Configuration/Tokenizer.cpp splits it into   *)
(* tokens, Configuration/ParserHandler.h walks the tree of sections with them,  *)
(* and the group() functions of the sections take the values.  A line is its    *)
(* indent, its key and what its value is worth: "ok", "bad" (no number, no      *)
(* address: a ParseException), "fails" (a pin that does not exist or is taken:  *)
(* an assertion), "input" and "i2si" (pins that cannot be an output) and "fast" *)
(* (a rate beyond what the stepping engine can do).  The key "garbled" is a     *)
(* line the tokenizer rejects: tabs, no identifier, no colon, an unterminated   *)
(* string, a value without an end of line.  Of the tree, the sections that show *)
(* every way of nesting are kept: plain sections, a section with an index, and  *)
(* the driver a motor makes by its name.                                        *)
EXTENDS Integers, Sequences, SequencesExt, FiniteSets

VARIABLES
    lines,     \* the text that is read, once comments and blank lines are left out
    tok,       \* the current token: its line (0 before the first) and its state
    stack,     \* the sections that are entered, outermost first
    parse,     \* what is done next: enter, token, next, or done, thrown
    made,      \* the objects of the configuration that exist
    applied,   \* which object took which line's value
    state      \* sys.state, as far as the configuration goes: Idle, Cycle, Sleep, Alarm,
               \* ConfigAlarm

parserVars == <<lines, tok, stack, parse, made, applied, state>>

Items ==
    [machine |-> {"name", "arc_tolerance_mm"}, start |-> {"must_home"},
     coolant |-> {"flood_pin"}, i2si |-> {"bck_pin"}, axes |-> {}, x |-> {"max_rate"},
     motor0 |-> {"pulloff_mm"}, driver |-> {"step_pin"}]

Sections ==
    [machine |-> {"start", "coolant", "i2si", "axes"}, start |-> {}, coolant |-> {},
     i2si |-> {}, axes |-> {"x"}, x |-> {"motor0"}, motor0 |-> {}, driver |-> {}]

Drivers == {"standard_stepper", "stepstick"}

Objects == DOMAIN Items

-----------------------------------------------------------------------------
IsLine(i) == i \in 1 .. Len(lines)

\* Before the first line and after the last one the indent is -1.
Indent(t) == IF IsLine(t.line) THEN lines[t.line].indent ELSE -1

\* Mutant: a held token is forgotten.
ForgetHeld == [line |-> tok.line + 1, state |-> "Matching"]

\* The token Tokenize leaves: a held one is released, else the next line is split.
NextToken ==
    [line |-> IF tok.state = "Held" THEN tok.line ELSE tok.line + 1, state |-> "Matching"]

TokenizeFails == IsLine(NextToken.line) /\ lines[NextToken.line].key = "garbled"

Top == Last(stack)

Frame(obj) == [obj |-> obj, entry |-> Indent(tok), this |-> -1]

\* Reading starts with the root of the tree, at the indent of no line.
BeginParse(text) ==
    /\ lines' = text
    /\ tok' = [line |-> 0, state |-> "Matching"]
    /\ stack' = <<[obj |-> "machine", entry |-> -1, this |-> -1]>>
    /\ parse' = "enter"
    /\ made' = {"machine"}
    /\ applied' = {}

\* The rest of the file is given up.
Throw ==
    /\ parse' = "thrown"
    /\ UNCHANGED <<lines, tok, stack, made, applied, state>>

\* A section ends at the first line that is not its own, and holds it for its caller.
LeaveAt(t) ==
    /\ tok' = [t EXCEPT !.state = "Held"]
    /\ stack' = Front(stack)
    /\ parse' = IF Len(stack) = 1 THEN "done" ELSE "next"
    /\ UNCHANGED <<lines, made, applied, state>>

\* The first line of a section sets the indent of all its lines.
OpenSection ==
    /\ parse = "enter"
    /\ IF TokenizeFails THEN Throw
       ELSE IF Indent(NextToken) > Top.entry
         THEN /\ tok' = NextToken
              /\ stack' = [stack EXCEPT ![Len(stack)].this = Indent(NextToken)]
              /\ parse' = "token"
              /\ UNCHANGED <<lines, made, applied, state>>
         ELSE LeaveAt(NextToken)

Tokenize ==
    /\ parse = "next"
    /\ IF TokenizeFails THEN Throw
       ELSE /\ tok' = NextToken
            /\ parse' = "token"
            /\ UNCHANGED <<lines, stack, made, applied, state>>

LeaveSection ==
    /\ parse = "token"
    /\ Indent(tok) < Top.this
    /\ LeaveAt(tok)

\* The current line as its section sees it.
Here == parse = "token" /\ Indent(tok) = Top.this
Key == lines[tok.line].key
Val == lines[tok.line].val

\* A line that is further in than the section's first one is passed over.
SkipKey ==
    /\ parse = "token"
    /\ Indent(tok) > Top.this
    /\ parse' = "next"
    /\ UNCHANGED <<lines, tok, stack, made, applied, state>>

\* Once a motor has its driver, every further line of the motor enters the driver's
\* section, whatever its key.
Reenter == Top.obj = "motor0" /\ "driver" \in made

Enter(obj) ==
    /\ tok' = [tok EXCEPT !.state = "Matched"]
    /\ stack' = Append(stack, Frame(obj))
    /\ parse' = "enter"

\* A section that does not exist yet is made and entered.
MakeSection ==
    /\ Here
    /\ \E obj \in Objects \ made :
         /\ \/ obj = Key /\ Key \in Sections[Top.obj]
            \/ obj = "driver" /\ Top.obj = "motor0" /\ Key \in Drivers
         /\ made' = made \cup {obj}
         /\ Enter(obj)
    /\ UNCHANGED <<lines, applied, state>>

\* A value that cannot be read ends the reading; a failed assertion sets the alarm.
TakeItem ==
    /\ Here
    /\ Key \in Items[Top.obj]
    /\ \/ /\ Val = "bad"
          /\ Throw
       \/ /\ Val = "fails"
          /\ state' = "ConfigAlarm"
          /\ tok' = [tok EXCEPT !.state = "Matched"]
          /\ parse' = "next"
          /\ UNCHANGED <<lines, stack, made, applied>>
       \/ /\ Val \notin {"bad", "fails"}
          /\ applied' = applied \cup {<<Top.obj, tok.line>>}
          /\ IF Reenter THEN Enter("driver")
             ELSE /\ tok' = [tok EXCEPT !.state = "Matched"]
                  /\ parse' = "next"
                  /\ UNCHANGED stack
          /\ UNCHANGED <<lines, made, state>>

\* Unknown keys, and sections that exist already, are ignored with a warning.
IgnoreKey ==
    /\ Here
    /\ Key \notin Items[Top.obj]
    /\ Key \notin Sections[Top.obj] \ made
    /\ ~(Top.obj = "motor0" /\ Key \in Drivers /\ "driver" \notin made)
    /\ IF Reenter THEN Enter("driver") ELSE parse' = "next" /\ UNCHANGED <<tok, stack>>
    /\ UNCHANGED <<lines, made, applied, state>>

Parse ==
    \/ OpenSection \/ Tokenize \/ LeaveSection
    \/ SkipKey \/ MakeSection \/ TakeItem \/ IgnoreKey

\* The value an object has for a key: the last line it took, if there is one.
Value(obj, key) ==
    LET own == {i \in 1 .. Len(lines) : <<obj, i>> \in applied /\ lines[i].key = key}
    IN  IF own = {} THEN "none" ELSE lines[CHOOSE i \in own : \A j \in own : j <= i].val
=============================================================================
