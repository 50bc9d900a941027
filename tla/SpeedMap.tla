------------------------------ MODULE SpeedMap ------------------------------
(***************************************************************************)
(* The map from programmed speeds to those of the device (Spindle.cpp): a  *)
(* sequence of points, percentages of the device's range over RPM, which   *)
(* setupSpeeds turns into offsets and slopes in fixed-point arithmetic.    *)
(***************************************************************************)
EXTENDS Integers, Sequences, FiniteSetsExt

Entry(speed, percent) == [speed |-> speed, percent |-> percent]

linearSpeeds(max, percent) == <<Entry(0, 0), Entry(max, percent)>>

shelfSpeeds(min, max) ==
    LET percent == (100 * min) \div max
    IN  <<Entry(0, 0), Entry(0, percent)>>
        \o (IF min # 0 THEN <<Entry(min, percent)>> ELSE <<>>) \o <<Entry(max, 100)>>

\* Offset and slope of each part of the map, the slope with 16 binary places.
setupSpeeds(map, max) ==
    [i \in DOMAIN map |->
        [speed |-> map[i].speed,
         offset |-> (map[i].percent * max) \div 100,
         scale |-> IF i = Len(map) \/ map[i + 1].speed = map[i].speed THEN 0
                   ELSE ((map[i + 1].percent - map[i].percent) * max * 65536)
                        \div (100 * (map[i + 1].speed - map[i].speed))]]

Map(entries, speed) ==
    LET above == {i \in 2 .. Len(entries) : speed < entries[i].speed}
        i == IF above = {} THEN Len(entries) ELSE Min(above) - 1
    IN  IF speed = 0 \/ speed < entries[1].speed THEN entries[1].offset
        ELSE entries[i].offset + ((speed - entries[i].speed) * entries[i].scale) \div 65536
=============================================================================
