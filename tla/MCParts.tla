------------------------------ MODULE MCParts ------------------------------
(* Small instances of the parts: machines, lines, settings, files.          *)
EXTENDS Parts

(* Spindles *)

S(kind, tool, map, dir, s0) ==
    [kind |-> kind, tool |-> tool, map |-> map, dir |-> dir, disableWithS0 |-> s0, zeroWithDisable |-> TRUE]
Point(speed, percent) == [speed |-> speed, percent |-> percent]

MCSpindleMachines == {<<S("Laser", 0, <<>>, FALSE, FALSE), S("PWM", 1, <<Point(50, 10), Point(200, 100)>>, TRUE, TRUE)>>,
             <<S("10V", 0, <<>>, FALSE, TRUE), S("Null", 2, <<>>, FALSE, FALSE)>>,
             <<S("BESC", 0, <<>>, FALSE, FALSE), S("OnOff", 1, <<>>, TRUE, FALSE)>>,
             <<S("DAC", 3, <<>>, TRUE, FALSE)>>}

Word(kind, linear, axis, s, mode, m6) ==
    [kind |-> kind, linear |-> linear, axis |-> axis, s |-> s, mode |-> mode,
     tool |-> IF m6 THEN 1 ELSE -1, m6 |-> m6, stage |-> "none"]

MCSpindleLines == {Word("keep", FALSE, FALSE, 200, "Cw", FALSE),
                 Word("keep", FALSE, FALSE, 150, "Ccw", FALSE),
                 Word("keep", FALSE, FALSE, -1, "Disable", FALSE),
                 Word("keep", FALSE, FALSE, -1, "Cw", TRUE),
                 Word("motion", TRUE, TRUE, -1, "Keep", FALSE),
                 Word("motion", TRUE, TRUE, 0, "Keep", FALSE),
                 Word("motion", FALSE, TRUE, -1, "Keep", FALSE),
                 Word("jog", FALSE, TRUE, -1, "Keep", FALSE),
                 Word("end", FALSE, FALSE, -1, "Keep", FALSE)}

(* Coolant and the outputs of the user *)

Ask(item, prefix, index, options) ==
    [item |-> item, text |-> [prefix |-> prefix, index |-> index, options |-> options]]
Code(word) == [word |-> word, value |-> 0, sync |-> FALSE]
Put(word, value, sync) == [word |-> word, value |-> value, sync |-> sync]
Rig(parks, delay, events, pins, program) ==
    [parks |-> parks, delay |-> delay, events |-> events, hz |-> 5000, pins |-> pins, program |-> program]

MCRigs == {Rig(FALSE, TRUE, 3, <<Ask("flood", "gpio", 2, {}), Ask("flood", "gpio", 4, {"low"}), Ask("mist", "gpio", 2, {"pu"})>>,
                                  <<Code("flood"), Code("move"), Code("mist")>>),
         Rig(TRUE, FALSE, 2, <<Ask("flood", "i2so", 3, {"low"})>>,
                                  <<Code("flood"), Code("move"), Code("move"), Code("M2")>>),
         Rig(FALSE, FALSE, 2, <<Ask("digital", "gpio", 5, {"low"}), Ask("analog", "gpio", 12, {})>>,
                                  <<Put("digital", 1, TRUE), Put("analog", 50, FALSE), Code("M9")>>),
         Rig(FALSE, FALSE, 2, <<Ask("digital", "gpio", 5, {}), Ask("mist", "gpio", 5, {})>>, <<>>),
         Rig(FALSE, FALSE, 2, <<Ask("mist", "i2si", 1, {})>>, <<>>)}

(* Settings *)

MCNames == {"mode", "ssid", "ip", "mask", "report", "G54"}
MCKind == [s \in MCNames |-> CASE s = "mode" -> "enum" [] s = "ssid" -> "string" [] s = "G54" -> "coordinates"
                            [] s = "report" -> "int" [] OTHER -> "ip"]
MCDefault == [s \in MCNames |-> CASE s = "mode" -> "STA>AP" [] s = "ssid" -> "" [] OTHER -> "0"]
MCAccepted == [s \in MCNames |-> CASE s = "mode" -> {"STA>AP", "STA", "AP"} [] s = "ssid" -> {"", "shop"}
                                [] OTHER -> {"0", "1"}]

MCGroup == <<"ip", "mask">>

(* Files and firmware *)

MCTexts == {<<"a", "b">>, <<"c">>}
MCImages == {<<"x", "y">>, <<"z">>}

(* Clients *)

In(uart, macro, web, telnet) == [uart |-> uart, macro |-> macro, web |-> web, telnet |-> telnet]

MCInputs == {In(<<<<"x", "RT", "BS", "x">>, <<"x", "x", "x">>, <<"RESET">>>>, <<<<"x">>>>, <<>>, <<>>),
           In(<<>>, <<<<"x">>, <<"x">>>>, <<<<"x">>, <<"RT">>, <<"x", "CR">>>>, <<<<"x", "x">>, <<"x">>>>),
           In(<<<<"x", "x", "x", "x">>, <<"RESET">>>>, <<>>, <<<<"x">>, <<"x", "CR">>>>, <<>>)}

MCRoom == [uart |-> 2, macro |-> 3, web |-> 3, telnet |-> 1]

(* Motors *)

Motor(kind, axis, run, homing, flag) ==
    [kind |-> kind, axis |-> axis, run |-> run, homing |-> homing, useEnable |-> flag, half |-> flag, invert |-> flag]
Built(shared, stayEnabled, motors) == [motors |-> motors, shared |-> shared, stayEnabled |-> stayEnabled]

MCMotorMachines ==
    {Built(FALSE, FALSE, <<Motor("spi", "X", "StealthChop", "StallGuard", TRUE), Motor("unipolar", "Y", "", "", FALSE)>>),
     Built(FALSE, FALSE, <<Motor("tmc_2209", "X", "CoolStep", "StallGuard", FALSE),
                           Motor("spi", "X", "CoolStep", "CoolStep", FALSE)>>),
     Built(TRUE, FALSE, <<Motor("servo", "X", "", "", FALSE), Motor("standard", "X", "", "", FALSE)>>),
     Built(FALSE, TRUE, <<Motor("tmc_2208", "X", "StealthChop", "StallGuard", FALSE), Motor("unipolar", "Y", "", "", TRUE)>>),
     Built(FALSE, FALSE, <<Motor("dynamixel", "X", "", "", FALSE)>>)}
=============================================================================
