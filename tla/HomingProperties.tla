-------------------------- MODULE HomingProperties --------------------------
(* What a homed machine is, and what a failed homing must not do.          *)
EXTENDS Homing

(* A machine that was homed is where it thinks it is: each axis's counter   *)
(* is motor 0's distance from the switch, and the second motor of a pair is *)
(* at its own pull-off distance, so that the gantry is square.              *)
HomedAtSwitch ==
    pc = "Idle" /\ ~failed =>
        \A a \in homed : \A m \in MotorsOf(a) :
            fault[a] = "none" =>
                /\ pos[m] = machine.pulloff[m]
                /\ m[2] = 0 => steps[a] = pos[m]

(* The command leaves the machine Idle, which unlocks it, only if every     *)
(* axis that was asked for has been homed by its switch, or an alarm is     *)
(* pending.                                                                 *)
IdleMeansHomed ==
    pc = "Idle" /\ state = "Idle" =>
        \/ rtAlarm # "None"
        \/ homed = asked /\ ~failed /\ \A a \in asked : fault[a] # "off"

(* The two together: what homing has done is what it says it has done.      *)
HomedAsAsked == HomedAtSwitch /\ IdleMeansHomed

(* Every homing command comes to its end, homed or not.                     *)
HomingEnds == pc = "Cycle" ~> pc \in {"Idle", "Aborted"}

=============================================================================
