--------------------------- MODULE MCConfiguration ---------------------------
EXTENDS ConfigurationProperties

\* Longest plain file; a motor has up to one line more.
MaxLines == 3

\* Files whose lines are of the root and of its plain sections.
PlainLines ==
    {Line(0, "start", ""), Line(2, "must_home", "ok"),
     Line(0, "coolant", ""), Line(0, "i2si", ""), Line(0, "garbled", "")}
    \cup {Line(2, "flood_pin", v) : v \in {"ok", "fails", "input", "i2si"}}
    \cup {Line(0, "arc_tolerance_mm", v) : v \in {"ok", "bad"}}
    \cup {Line(1, "arc_tolerance_mm", "ok"), Line(4, "flood_pin", "ok")}

\* Lines that follow a motor's section.
MotorLines ==
    {Line(3, "standard_stepper", ""), Line(3, "stepstick", ""), Line(3, "pulloff_mm", "ok"),
     Line(4, "step_pin", "ok"), Line(4, "step_pin", "input"), Line(5, "step_pin", "bad"),
     Line(2, "max_rate", "ok"), Line(2, "max_rate", "fast"), Line(0, "arc_tolerance_mm", "ok")}

ToMotor == <<Line(0, "axes", ""), Line(1, "x", ""), Line(2, "motor0", "")>>

MCUploads ==
    {<<Line(0, "start", ""), Line(2, "must_home", "ok")>>,
     <<Line(0, "start", ""), Line(0, "garbled", "")>>}

MCFiles ==
    {<<>>} \cup MCUploads
    \cup UNION {[1 .. n -> PlainLines] : n \in 1 .. MaxLines}
    \cup {ToMotor \o tail : tail \in UNION {[1 .. n -> MotorLines] : n \in 0 .. MaxLines + 1}}
=============================================================================
