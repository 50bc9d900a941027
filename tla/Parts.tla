------------------------------- MODULE Parts -------------------------------
(***************************************************************************)
(* Seven parts that share no state, each on its own: spindles on pins, the *)
(* coolant and the outputs of the user, the input bus, settings, files and *)
(* firmware of the web server, clients, and the drivers of motors.  A      *)
(* behaviour is about one part, and v1 to v19 are the variables of that    *)
(* part; the ones it has no use for stay as they are.                      *)
(***************************************************************************)
EXTENDS Integers, Sequences

CONSTANTS
    SpindleMachines, SpindleLines, Overrides, Rates, RingSize, MaxLines, MaxEvents,  \* spindles
    Rigs, PlannerBlocks,                                                   \* coolant, outputs
    LimitPins, ControlPins, GpioPins, MaxChanges, MaxUnlocks,              \* input bus
    SettingNames, SettingKinds, Described, Default, Accepted, Group, MaxCommands, MaxBoots,  \* settings
    FileNames, FileTexts, Images, Space, MaxForms, MaxRequests, WebTroubles,   \* files
    ClientInputs, Room, MaxLine, ClientTroubles,                           \* clients
    MotorMachines, MaxPos, MaxCalls                                        \* motors

VARIABLES part, v1, v2, v3, v4, v5, v6, v7, v8, v9, v10, v11, v12, v13, v14, v15, v16, v17, v18, v19

Output == INSTANCE PinSpindles WITH
            Machines <- SpindleMachines, Lines <- SpindleLines,
            spindles <- v1, spindle <- v2, out <- v3, sys <- v4, gc <- v5, hold <- v6,
            sovr <- v7, restore <- v8, rtCycleStart <- v9, plan <- v10, prep <- v11,
            ring <- v12, isr <- v13, main <- v14, call <- v15, disturbed <- v16, budget <- v17

Extra == INSTANCE Accessories WITH
            Machines <- Rigs,
            machine <- v1, pin <- v2, claimed <- v3, raw <- v4, analog <- v5, gc <- v6,
            sys <- v7, plan <- v8, todo <- v9, door <- v10, history <- v11, left <- v12

Input == INSTANCE InputBus WITH
            setup <- v1, level <- v2, s_value <- v3, s_started <- v4, s_mask <- v5,
            s_pins <- v6, handler <- v7, limits <- v8, held <- v9, events <- v10,
            rtReset <- v11, rtAlarm <- v12, state <- v13, boot <- v14, unseen <- v15,
            torn <- v16, risk <- v17, changes <- v18, unlocks <- v19

Kept == INSTANCE Settings WITH
            Names <- SettingNames, Kind <- SettingKinds,
            nvs <- v1, stored <- v2, current <- v3, state <- v4, todo <- v5, net <- v6,
            asked <- v7, erased <- v8, failed <- v9, outcome <- v10, commands <- v11,
            boots <- v12

Web == INSTANCE WebFiles WITH
            Texts <- FileTexts, MaxTroubles <- WebTroubles,
            files <- v1, mounted <- v2, handler <- v3, status <- v4, request <- v5, flash <- v6,
            restart <- v7, broken <- v8, told <- v9, stale <- v10, left <- v11

Talk == INSTANCE Clients WITH
            Inputs <- ClientInputs, MaxTroubles <- ClientTroubles,
            lines <- v1, ring <- v2, sent <- v3, line <- v4, returned <- v5, main <- v6,
            busy <- v7, alarm <- v8, reset <- v9, executed <- v10, lost <- v11, left <- v12

Drive == INSTANCE Motors WITH
            Machines <- MotorMachines,
            machine <- v1, drivers <- v2, out <- v3, rotor <- v4, pos <- v5, plan <- v6,
            sys <- v7, isr <- v8, todo <- v9, alive <- v10, buf <- v11, rx <- v12,
            history <- v13, calls <- v14

ASSUME PartsAssumption ==
    /\ Output!PinSpindlesAssumption /\ Extra!AccessoriesAssumption /\ Input!InputsAssumption
    /\ Kept!SettingsAssumption /\ Web!WebFilesAssumption /\ Talk!ClientsAssumption /\ Drive!MotorsAssumption

-----------------------------------------------------------------------------
(* The variables that the parts with fewer have no use for. *)

Unused18 == v18 = 0 /\ v19 = 0
Unused15 == v15 = 0 /\ v16 = 0 /\ v17 = 0 /\ Unused18
Unused13 == v13 = 0 /\ v14 = 0 /\ Unused15
Unused12 == v12 = 0 /\ Unused13

Same18 == UNCHANGED <<v18, v19>>
Same15 == UNCHANGED <<v15, v16, v17>> /\ Same18
Same13 == UNCHANGED <<v13, v14>> /\ Same15
Same12 == UNCHANGED v12 /\ Same13

PartsInit == \/ part = "outputs" /\ Output!Init /\ Unused18
             \/ part = "accessories" /\ Extra!Init /\ Unused13
             \/ part = "inputs" /\ Input!Init
             \/ part = "settings" /\ Kept!Init /\ Unused13
             \/ part = "files" /\ Web!Init /\ Unused12
             \/ part = "clients" /\ Talk!Init /\ Unused13
             \/ part = "motors" /\ Drive!Init /\ Unused15

PartsNext == /\ \/ part = "outputs" /\ Output!Next /\ Same18
                \/ part = "accessories" /\ Extra!Next /\ Same13
                \/ part = "inputs" /\ Input!Next
                \/ part = "settings" /\ Kept!Next /\ Same13
                \/ part = "files" /\ Web!Next /\ Same12
                \/ part = "clients" /\ Talk!Next /\ Same13
                \/ part = "motors" /\ Drive!Next /\ Same15
             /\ UNCHANGED part

PartsSpec ==
    PartsInit /\ [][PartsNext]_<<part, v1, v2, v3, v4, v5, v6, v7, v8, v9, v10, v11, v12, v13, v14, v15, v16, v17, v18, v19>>

-----------------------------------------------------------------------------

\* At rest the outputs of spindles are as the program said, and only the spindle
\* in use is on (but for the direction pins of a 10V spindle, which M5 leaves on); so
\* are coolant and the outputs of the user, each on a pin of its own, and coolant is
\* off at an open door.
OutputsAsSaid ==
    /\ part = "outputs" => Output!OutputsAsSaid
    /\ part = "accessories" => Extra!AccessoriesAsSaid

\* What the program goes by agrees with the pins, and a limit switch that closes
\* stops the machine.
SwitchesHeeded == part = "inputs" => Input!SwitchesHeeded

\* What was last set with success is stored, and the next boot puts it in force, but
\* for coordinates whose loading leaves what was in memory.
SettingsKept == [][part = "settings" => Kept!KeptByStep]_<<part, v1, v2, v3, v4, v5, v6, v7, v8, v9, v10, v11, v12>>

\* The network runs as it was told, or does its best; a scan without a network turns
\* the station on and nothing else.
NetworkAsSet == part = "settings" => Kept!NetworkAsSet

\* Uploaded files and firmware are whole, an answer of success is true, and a restart
\* for an update has an image to run; not whole are files whose connection or power
\* failed in a form, and those a failed update of the file system has torn.
UploadsWhole == part = "files" => Web!LocalFilesTrue /\ Web!WholeImageBoots

\* Lines are executed as they were sent, in order, each once.
LinesIntact == part = "clients" => Talk!LinesIntact

\* Motors are on, off and in the mode that was asked for last, and steps, servos and
\* the planner agree.
MotorsAsAsked == part = "motors" => Drive!MotorsAsAsked
=============================================================================
