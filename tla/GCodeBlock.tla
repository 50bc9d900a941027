----------------------------- MODULE GCodeBlock -----------------------------
(***************************************************************************)
(* Steps 1 to 3 of gc_execute_line: a line's words are imported into a     *)
(* block, checked, and converted to millimetres and machine coordinates.   *)
(*                                                                         *)
(* A line is a sequence of words <<letter, number>>; the numbers of G      *)
(* words are hundredths, <<"G", 3820>> is G38.2.  Numbers are small        *)
(* integers, so that no conversion to an 8 bit value loses anything.       *)
(* Which error a line is refused with is left out.                         *)
(***************************************************************************)
EXTENDS Integers, Sequences, SequencesExt, FiniteSets

CONSTANTS Features,      \* what the machine has, see AllFeatures
          Systems,       \* the work coordinate systems, <<"G54", ...>>
          MM_PER_INCH

AllFeatures == {"probe", "checkModeStart", "reversable", "mist", "flood",
                "parking", "deactivateParking", "softLimits"}

ASSUME BlockAssumption ==
    /\ Features \subseteq AllFeatures
    /\ Systems \in Seq(STRING) /\ Len(Systems) > 0 /\ Systems[1] = "G54"
    /\ MM_PER_INCH \in Nat \ {0}

Axes == {"X", "Y", "Z"}
TOOL_LENGTH_OFFSET_AXIS == "Z"
Zero == [a \in Axes |-> 0]
Letters == Axes \cup {"E", "F", "I", "J", "K", "L", "N", "P", "Q", "R", "S", "T"}
NotNegative == {"F", "N", "P", "T", "S"}
MaxToolNumber == 255

\* The axes of a plane and, of an axis, the letter of its arc offset.
Plane == [XY |-> <<"X", "Y">>, ZX |-> <<"Z", "X">>, YZ |-> <<"Y", "Z">>]
Offset == [X |-> "I", Y |-> "J", Z |-> "K"]

-----------------------------------------------------------------------------
(* Step 2.  Of a command: its modal group, what it sets, and the axis       *)
(* command that it is.                                                      *)

Table(entries) == [code \in {e[1] : e \in entries} |-> (CHOOSE e \in entries : e[1] = code)[2]]

Word(group, field, value, axis) == [group |-> group, field |-> field, value |-> value, axis |-> axis]
Mode(group, field, value) == Word(group, field, value, "none")
Known(feature, field) == IF feature \in Features THEN field ELSE "none"

NonModalGWords ==
    LET MG0(value, axis) == Word("MG0", "non_modal", value, axis)
    IN  {<<400, MG0("Dwell", "none")>>, <<5300, MG0("AbsoluteOverride", "none")>>,
         <<1000, MG0("SetCoordinateData", "NonModal")>>,
         <<2800, MG0("GoHome0", "NonModal")>>, <<2810, MG0("SetHome0", "none")>>,
         <<3000, MG0("GoHome1", "NonModal")>>, <<3010, MG0("SetHome1", "none")>>,
         <<9200, MG0("SetCoordinateOffset", "NonModal")>>,
         <<9210, MG0("ResetCoordinateOffset", "none")>>}

MotionGWords ==
    LET MG1(value, axis) == Word("MG1", "motion", value, axis)
    IN  {<<0, MG1("Seek", "motion")>>, <<100, MG1("Linear", "motion")>>,
         <<200, MG1("CwArc", "motion")>>, <<300, MG1("CcwArc", "motion")>>,
         <<3820, MG1("ProbeToward", "MotionMode")>>,
         <<3830, MG1("ProbeTowardNoError", "MotionMode")>>,
         <<3840, MG1("ProbeAway", "MotionMode")>>, <<3850, MG1("ProbeAway", "MotionMode")>>,
         <<8000, MG1("None", "none")>>}

ModalGWords ==
    {<<1700, Mode("MG2", "plane_select", "XY")>>, <<1800, Mode("MG2", "plane_select", "ZX")>>,
     <<1900, Mode("MG2", "plane_select", "YZ")>>,
     <<9000, Mode("MG3", "distance", "Absolute")>>, <<9100, Mode("MG3", "distance", "Incremental")>>,
     <<9110, Mode("MG4", "none", "none")>>,
     <<9300, Mode("MG5", "feed_rate", "InverseTime")>>,
     <<9400, Mode("MG5", "feed_rate", "UnitsPerMin")>>}

OtherGWords ==
    {<<2000, Mode("MG6", "units", "Inches")>>, <<2100, Mode("MG6", "units", "Mm")>>,
     <<4000, Mode("MG7", "none", "none")>>, <<6100, Mode("MG13", "none", "none")>>,
     <<4310, Word("MG8", "tool_length", "EnableDynamic", "ToolLengthOffset")>>,
     <<4900, Word("MG8", "tool_length", "Cancel", "ToolLengthOffset")>>}

CoordSystemGWords ==
    {<<5300 + 100 * i, Mode("MG12", "coord_select", Systems[i])>> : i \in 1 .. Len(Systems)}

GWords == Table(NonModalGWords \cup MotionGWords \cup ModalGWords \cup OtherGWords \cup CoordSystemGWords)

FlowMWords ==
    {<<0, Mode("MM4", "program_flow", "Paused")>>, <<1, Mode("MM4", "none", "none")>>,
     <<2, Mode("MM4", "program_flow", "CompletedM2")>>,
     <<30, Mode("MM4", "program_flow", "CompletedM30")>>}

OutputMWords ==
    {<<62, Mode("MM10", "io_control", "DigitalOnSync")>>,
     <<63, Mode("MM10", "io_control", "DigitalOffSync")>>,
     <<64, Mode("MM10", "io_control", "DigitalOnImmediate")>>,
     <<65, Mode("MM10", "io_control", "DigitalOffImmediate")>>,
     <<67, Mode("MM10", "io_control", "SetAnalogSync")>>,
     <<68, Mode("MM10", "io_control", "SetAnalogImmediate")>>}

\* MM6 and MM9 are the same bit.
AccessoryMWords ==
    {<<3, Mode("MM7", "spindle", "Cw")>>, <<5, Mode("MM7", "spindle", "Disable")>>,
     <<6, Mode("MM9", "none", "none")>>,
     <<7, Mode("MM8", Known("mist", "coolant"), "M7")>>,
     <<8, Mode("MM8", Known("flood", "coolant"), "M8")>>, <<9, Mode("MM8", "coolant", "M9")>>}
    \cup (IF "reversable" \in Features THEN {<<4, Mode("MM7", "spindle", "Ccw")>>} ELSE {})
    \cup (IF "parking" \in Features THEN {<<56, Mode("MM9", "override", "ParkingMotion")>>} ELSE {})

MWords == Table(FlowMWords \cup OutputMWords \cup AccessoryMWords)

\* The block before its first word: the modes are those of the state, but a jog
\* is a linear motion in units per minute.
NewBlock(gc, jog) ==
    [legal |-> TRUE, jog |-> jog,
     modal |-> IF jog THEN [gc.modal EXCEPT !.motion = "Linear", !.feed_rate = "UnitsPerMin"]
                      ELSE gc.modal,
     non_modal |-> "NoAction", axis_command |-> "None", coolant |-> "None",
     io_control |-> "None", program_flow |-> "Running", tool |-> gc.tool,
     command_words |-> {}, value_words |-> {}, values |-> [l \in Letters |-> 0],
     xyz |-> Zero, f |-> 0, s |-> 0, coord_system |-> Zero, coord_data |-> Zero]

Refused(b) == [b EXCEPT !.legal = FALSE]

\* A command: one of its group in a line.
Command(b, word) ==
    IF word.group \in b.command_words THEN Refused(b)
    ELSE LET counted == [b EXCEPT !.command_words = @ \cup {word.group}]
         IN  CASE word.field \in DOMAIN b.modal -> [counted EXCEPT !.modal[word.field] = word.value]
               [] word.field \in DOMAIN b -> [counted EXCEPT ![word.field] = word.value]
               [] OTHER -> counted

\* G10, G28, G30, G92, G38, G43.1 and G49 exclude each other, and G0 to G3 before
\* them; but G0 to G3 may follow, and take over the axis words.
AxisConflict(b, word) == word.axis \notin {"none", "motion"} /\ b.axis_command # "None"

GWord(b, code) ==
    IF \/ code \notin DOMAIN GWords
       \/ code \in 3820 .. 3850 /\ "probe" \notin Features
       \/ AxisConflict(b, GWords[code])
    THEN Refused(b)
    ELSE LET word == GWords[code]
             axis == CASE word.axis = "none" -> b.axis_command
                       [] word.axis = "motion" -> "MotionMode"
                       [] OTHER -> word.axis
         IN  Command([b EXCEPT !.axis_command = axis], word)

MWord(b, code) == IF code \in DOMAIN MWords THEN Command(b, MWords[code]) ELSE Refused(b)

\* Values.  The tool is selected at once.
ValueWord(b, letter, value) ==
    IF letter \notin Letters \/ (letter = "T" /\ value > MaxToolNumber) THEN Refused(b)
    ELSE LET known == IF letter = "T" THEN [b EXCEPT !.tool = value] ELSE b
         IN  IF letter \in b.value_words \/ (letter \in NotNegative /\ value < 0)
             THEN Refused(known)
             ELSE [known EXCEPT !.values[letter] = value, !.value_words = @ \cup {letter}]

Import(b, word) ==
    IF ~b.legal THEN b
    ELSE CASE word[1] = "G" -> GWord(b, word[2])
           [] word[1] = "M" -> MWord(b, word[2])
           [] OTHER -> ValueWord(b, word[1], word[2])

Parse(gc, line) == FoldLeft(Import, NewBlock(gc, line.jog), line.words)

-----------------------------------------------------------------------------
(* Step 3.  gc is the parser's state, coords the stored coordinate data, b   *)
(* the parsed block.                                                        *)

Named(b) == b.value_words \cap Axes
Mm(b, value) == IF b.modal.units = "Inches" THEN value * MM_PER_INCH ELSE value

\* Axis words without an axis command belong to the motion mode.
Asked(b) == IF b.axis_command = "None" /\ Named(b) # {} THEN "MotionMode" ELSE b.axis_command

GoHome == {"GoHome0", "GoHome1"}
Feeding(b) == b.modal.motion \notin {"None", "Seek"}

\* G28 and G30 without axis words, and then G0 and G1, do nothing with them.
MotionMode(b) ==
    Asked(b) = "MotionMode" /\ ~(Named(b) = {} /\ b.non_modal \in GoHome)

AxisCommand(b) ==
    IF /\ Named(b) = {}
       /\ \/ b.non_modal \in GoHome
          \/ MotionMode(b) /\ b.modal.motion \in {"Seek", "Linear"}
    THEN "None" ELSE Asked(b)

\* The feed rate: that of G94 is modal unless G93 was in force, and is not
\* converted then.
FeedRate(gc, b) ==
    IF b.jog \/ {b.modal.feed_rate, gc.modal.feed_rate} = {"UnitsPerMin"}
    THEN IF b.jog \/ "F" \in b.value_words THEN Mm(b, b.values["F"]) ELSE gc.feed_rate
    ELSE b.values["F"]

FeedGiven(gc, b) ==
    /\ b.jog \/ (b.modal.feed_rate = "InverseTime" /\ Asked(b) = "MotionMode")
       => "F" \in b.value_words
    /\ MotionMode(b) /\ Feeding(b) => FeedRate(gc, b) # 0

\* P is taken by M56 if it is there, by G4 and by M62 to M65: once.
Digital(b) == b.io_control \in {"DigitalOnSync", "DigitalOffSync",
                                "DigitalOnImmediate", "DigitalOffImmediate"}
Analog(b) == b.io_control \in {"SetAnalogSync", "SetAnalogImmediate"}

OverrideTakesP(b) ==
    "parking" \in Features /\ "MM9" \in b.command_words /\ "P" \in b.value_words

ParametersGiven(b) ==
    /\ b.non_modal = "Dwell" \/ Digital(b) => "P" \in b.value_words /\ ~OverrideTakesP(b)
    /\ ~(b.non_modal = "Dwell" /\ Digital(b))
    /\ Analog(b) => {"E", "Q"} \subseteq b.value_words

ToolOffsetAxis(b) ==
    b.axis_command = "ToolLengthOffset" /\ b.modal.tool_length = "EnableDynamic"
    => Named(b) = {TOOL_LENGTH_OFFSET_AXIS}

CoordSystem(gc, coords, b) ==
    IF b.modal.coord_select # gc.modal.coord_select THEN coords[b.modal.coord_select]
    ELSE gc.coord_system

\* G10: the system that P names, 0 the one in force, and its new data.
CoordIndex(b) == IF b.values["P"] = 0 THEN b.modal.coord_select ELSE Systems[b.values["P"]]

G10Legal(b) ==
    b.non_modal = "SetCoordinateData" =>
        /\ Named(b) # {}
        /\ b.values["L"] \in {2, 20}
        /\ b.values["L"] = 2 => "R" \notin b.value_words
        /\ b.values["P"] <= Len(Systems)

ToolLength(gc, a) == IF a = TOOL_LENGTH_OFFSET_AXIS THEN gc.tool_length_offset ELSE 0

\* Mutant: the tool's length is forgotten.
OriginOfMachine(gc, b, a) == gc.position[a] - Mm(b, b.values[a])

\* The origin for which the position reads the number of the line.
Origin(gc, b, a) == gc.position[a] - Mm(b, b.values[a]) - ToolLength(gc, a)

CoordData(gc, coords, b) ==
    CASE b.non_modal = "SetCoordinateData" ->
             [a \in Axes |->
                 IF a \notin Named(b) THEN coords[CoordIndex(b)][a]
                 ELSE IF b.values["L"] = 20 THEN Origin(gc, b, a) - gc.coord_offset[a]
                 ELSE Mm(b, b.values[a])]
      [] b.non_modal \in GoHome ->
             LET stored == coords[IF b.non_modal = "GoHome0" THEN "G28" ELSE "G30"]
             IN  [a \in Axes |-> IF Named(b) # {} /\ a \notin Named(b) THEN gc.position[a]
                                 ELSE stored[a]]
      [] OTHER -> Zero

\* values.xyz: a target, or the offsets of G92; the numbers themselves for G10,
\* G43.1 and where there is none.
Xyz(gc, coords, b) ==
    [a \in Axes |->
        LET value == Mm(b, b.values[a])
            system == CoordSystem(gc, coords, b)[a]
            moved == IF a \notin Named(b) THEN gc.position[a]
                     ELSE IF b.non_modal = "AbsoluteOverride" THEN value
                     ELSE IF b.modal.distance = "Absolute"
                     THEN value + system + gc.coord_offset[a] + ToolLength(gc, a)
                     ELSE value + gc.position[a]
        IN  CASE b.non_modal = "SetCoordinateData" -> IF a \in Named(b) THEN value ELSE 0
              [] b.non_modal = "SetCoordinateOffset" ->
                     IF a \in Named(b) THEN Origin(gc, b, a) - system ELSE gc.coord_offset[a]
              [] OTHER ->
                     IF Named(b) = {} THEN 0
                     ELSE IF Asked(b) = "ToolLengthOffset" THEN IF a \in Named(b) THEN value ELSE 0
                     ELSE moved]

G92Legal(b) == b.non_modal = "SetCoordinateOffset" => Named(b) # {}
G53Legal(b) == b.non_modal = "AbsoluteOverride" => b.modal.motion \in {"Seek", "Linear"}

\* Arcs.  The centre, relative to the position, is given by its offsets or by the
\* radius; a radius is given squared.
Arc(b) == AxisCommand(b) = "MotionMode" /\ b.modal.motion \in {"CwArc", "CcwArc"}
Probe(b) == /\ AxisCommand(b) = "MotionMode"
            /\ b.modal.motion \in {"ProbeToward", "ProbeTowardNoError", "ProbeAway"}

InPlane(b, i) == Plane[b.modal.plane_select][i]
Centre(b, i) == Mm(b, b.values[Offset[InPlane(b, i)]])
Square(n) == n * n

ArcLegal(gc, b, xyz) ==
    LET delta(i) == xyz[InPlane(b, i)] - gc.position[InPlane(b, i)]
    IN  Arc(b) =>
            /\ \E i \in 1 .. 2 : InPlane(b, i) \in Named(b)
            /\ IF "R" \in b.value_words
               THEN /\ xyz # gc.position
                    /\ 4 * Square(Mm(b, b.values["R"])) >= Square(delta(1)) + Square(delta(2))
               ELSE /\ \E i \in 1 .. 2 : Offset[InPlane(b, i)] \in b.value_words
                    /\ Square(delta(1) - Centre(b, 1)) + Square(delta(2) - Centre(b, 2))
                       = Square(Centre(b, 1)) + Square(Centre(b, 2))

ProbeLegal(gc, b, xyz) == Probe(b) => Named(b) # {} /\ xyz # gc.position

\* Words that mean nothing in their line are refused.
UsedWords(b) ==
    Named(b) \cup {"F", "N"} \cup (IF b.jog THEN {} ELSE {"S", "T"})
    \cup (IF \/ b.non_modal \in {"Dwell", "SetCoordinateData"}
             \/ OverrideTakesP(b) \/ Digital(b) THEN {"P"} ELSE {})
    \cup (IF b.non_modal = "SetCoordinateData" THEN {"L"} ELSE {})
    \cup (IF Analog(b) THEN {"E", "Q"} ELSE {})
    \cup (IF ~Arc(b) THEN {} ELSE IF "R" \in b.value_words THEN {"R"} ELSE {"I", "J", "K"})

JogLegal(b) ==
    b.jog => /\ b.command_words \subseteq {"MG0", "MG3", "MG6"}
             /\ b.non_modal \in {"AbsoluteOverride", "NoAction"}

\* The block of a line, ready to execute or refused.
Block(gc, coords, line) ==
    LET b == Parse(gc, line)
        xyz == Xyz(gc, coords, b)
    IN  IF /\ b.legal /\ FeedGiven(gc, b) /\ ParametersGiven(b) /\ ToolOffsetAxis(b)
           /\ G10Legal(b) /\ G92Legal(b) /\ G53Legal(b)
           /\ b.modal.motion = "None" => Named(b) = {}
           /\ ArcLegal(gc, b, xyz) /\ ProbeLegal(gc, b, xyz)
           /\ b.value_words \subseteq UsedWords(b) /\ JogLegal(b)
        THEN [b EXCEPT !.axis_command = AxisCommand(b),
                       !.modal.override = IF OverrideTakesP(b) /\ b.values["P"] = 0
                                          THEN "Disabled" ELSE @,
                       !.xyz = xyz, !.f = FeedRate(gc, b),
                       !.s = IF "S" \in b.value_words THEN b.values["S"] ELSE gc.spindle_speed,
                       !.coord_system = CoordSystem(gc, coords, b),
                       !.coord_data = CoordData(gc, coords, b)]
        ELSE Refused(b)
=============================================================================
