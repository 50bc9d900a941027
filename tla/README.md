# Verification of FluidNC

FluidNC is firmware for CNC machines on the ESP32: it reads lines of G-code, plans motions ahead, and turns
them into step pulses in a timer interrupt, while a realtime executor reacts to holds, resets, doors, limits and
alarms. This directory holds TLA+ modules of it, model-checked with TLC on small instances, and proofs checked by
TLAPS. All source references are relative to `src/src/`.

## 1. The system

One main program (`main_init`, then `run_once` for ever) polls its clients, executes one line at a time, and calls
`protocol_execute_realtime` wherever it waits. Interrupts run beside it: the stepper timer, control pins and limit
switches; a few tasks too: the Modbus task of a VFD
spindle, the filling of I2S buffers, the sampling of input shift registers, the updates of servos. They communicate through
`rtXxx` flags, `rtAlarm`, the segment ring, queues and `motor_steps`; only the executor (in the main program) changes
`sys.state`, except that a jog, homing and some commands set it themselves.

| Component | State | Operations | Interacts with | What is hard | What makes it correct |
|---|---|---|---|---|---|
| Planner (`Planner.cpp`) | ring of blocks, tail, head, next head, planned pointer, previous nominal speed | buffer a line or a system motion, discard, recalculate, change limits, reinitialise, reset | generator reads and discards the tail block, is told of new plans | replanning under the generator's feet; incremental passes; full and wrapped ring; overrides | a bounded FIFO; plans that are feasible and optimal; speed without jumps |
| Generator (`Stepper::prep_buffer`) | block in preparation, profile, partial block, ring of segments and of Bresenham data | load a block or a new plan, make a segment, end a hold, parking set-up and restore | planner, executor (`step_control`), stepper interrupt | holds and overrides in the middle of blocks, parking in between, single producer and consumer ring | no step lost or doubled, no jump in speed, stop where the hold says |
| Stepper interrupt (`pulse_func`) | executed segment, counters, outputs | load a segment, step, probe, shut down | generator's ring, `rtCycleStop`, `rtMotionCancel`, `motor_steps` | concurrency with everything | executes each segment once, on the right block |
| Executor (`Protocol.cpp`) | `sys.state`, `sys.suspend`, `sys.step_control`, flags, spindle stop override, `idleEndTime` | alarm, reset, motion cancel, hold, door, sleep, cycle start, cycle stop, overrides, suspension loop | everything | order of flags, requests on top of each other, waits, aborts | stops stay stopped, holds end, position loss is an alarm |
| Motion control (`MotionControl.cpp`) | line in flight, `probeState` | line, arc, dwell, probe, parking, homing, reset | planner, executor | waits in the middle of a line, reset from an interrupt | canceled lines never move, abrupt stops alarm |
| G-code (`GCode.cpp`) | `gc_state`: modal groups, position, offsets, feed, spindle, coolant; coordinate data | parse, check and convert a line, execute it in stages, end a program | motion control, spindle, coolant, user outputs | a line that is aborted halfway, probes and jogs that move the position, errors after words took effect | parser and machine agree on position, offsets and outputs |
| Clients (`Serial.cpp`), SD card and its jobs (`SDCard.cpp`), web server (`WebServer.cpp`) | line buffers, the card's state, the open file, the upload | poll, realtime characters, lines of a file, upload, download, list, delete | executor, commands, reports (a job is driven by its answers) | one card for all of them; faults, swaps and resets halfway | each line once, in order; no line of an aborted job; an upload said to be good is on the card |
| Commands (`ProcessSettings.cpp`), jogs (`Jog.cpp`) | settings | execute a line, `$` commands | executor, motion control | locks by state, synchronisation | no motion in alarm |
| Pins and limits (`ControlPin.cpp`, `Control.cpp`, `LimitPin.cpp`, `GLimits.cpp`) | pin values, `soft_limit` | interrupts, soft limit check | flags, `mc_reset` | interrupt at any point | a limit stops and alarms |
| Homing (`Homing.cpp`) | phase, masks of axes and switches | run the configured cycles | planner, generator, limit switches, executor | reset, door and missing switches in each phase | homed only if every switch was found; alarm otherwise |
| Spindles on pins (`Spindles/`) | pins with cached duty and mode, speed map | set state, stop, speed from the interrupt, switch of spindles | executor, G-code, generator, interrupt | an interrupt in the middle of `setState`; overrides in motion | at rest the outputs are what the program said |
| Coolant, user outputs and pins (`CoolantControl.cpp`, `UserOutput.cpp`, `Pin.cpp`, `Pins/`) | pins and who owns them, levels, cached duty | claim and release pins, switch, toggle, stop all | G-code, executor (toggles, door, sleep), `mc_reset` | toggles and resets between a line and its writes, what a door restores | at rest each pin is what was said last; dry when open |
| VFD spindles (`VFDSpindle.cpp`) | command queue, retries, last speed reported | set state, Modbus task, initialisation | executor, G-code, stepper interrupt, speed map | a queue between a task and two producers, lost answers | last command wins, a stop is lost only where the queue is full |
| Motor drivers (`Motors/`) | disabled, mode, errors; chips, pulses, positions | init, disable, homing mode, step, update by a task | executor, homing, interrupt | two tasks share drivers and a message buffer | on and off as asked last, servos where the counters say |
| Input bus (`Machine/I2SIBus.cpp`, `I2SIn.cpp`) | sample, masks, callbacks | sample, attach pins, handle changes | limits, control pins, `mc_reset` | started before its pins; task and interrupts | what the program goes by agrees with the pins |
| Settings (`Settings.cpp`), network (`WebUI/WifiConfig.cpp`) | three copies of each setting; mode of the radio | set, restore, erase, load; start, scan, services | commands, non-volatile storage | writes that fail, power that fails between two settings | the next boot puts in force what was last set with success |
| Local files and firmware (`WebServer.cpp`, `WifiServices.cpp`) | upload under way, `_upload_status`, `Update` | upload, delete, update, restart | the library's callbacks | broken connections, several forms, shared status | an answer of success is true; the image that boots is whole |
| I2S output (`I2SOut.cpp`) | pulser mode, DMA buffers | change of mode, fill, interrupt | stepping | mode change against DMA | every step once, in order |
| XModem (`xmodem.cpp`) | packet number, held packet | receive, transmit | files | losses, repetition, wrap, what a transfer leaves to the next | file received equals file sent |
| Configuration (`Configuration/`, `Machine/MachineConfig.cpp`, `FluidNC.cpp`) | tokens, the tree of objects, the state at the start | read a file, make objects, validate, initialise, restart | everything, once | files of users, assertions, crashes while starting | a bad file doesn't run the machine as long as `ConfigAlarm` stands (section 5 has the ways out of it), nor locks the user out |
| Reports, UART, the rest of the network | registers and texts | | | not protocols; see section 7 | |

## 2. Plan

| Order | Modules | Content | State |
|---|---|---|---|
| 1 | `Planner`, abstract `PlannerQueue`, `PlannerProofs` | planner and generator as its consumer | done |
| 2 | `Protocol` | executor, main program, interrupts, door, probing | done |
| 3 | `Stepper` | the rings between generator and interrupt, holds and parking | done |
| 4 | `XModem` | receiver and transmitter over a lossy line | done |
| 5 | `VFDSpindle` | command queue, retries, critical failures | done |
| 6 | `I2SOut` | pulser modes, fill task, DMA interrupt | done |
| 7 | `Homing` | cycles, phases, switches, failures, with `mc_reset` | done |
| 8 | `GCodeBlock`, `GCode`, `GCodeProofs` | the meaning of a line and its execution | done |
| 9 | `SDJobs`, `SDJobsProofs` | the card, jobs, uploads and downloads | done |
| 10 | `ConfigParser`, `Configuration`, `ConfigurationProofs` | the configuration file, boot, crashes and restarts | done |
| 11 | `SpeedMap`, `PinSpindles` | spindles on pins, with the interrupt that sets their speed | done |
| 12 | `InputBus` | input shift registers, limit and control pins on them | done |
| 13 | `Settings` | settings in non-volatile storage, the start of the network | done |
| 14 | `WebFiles` | uploads to the local file system, firmware updates | done |
| 15 | `Clients` | from the characters of the clients to lines | done |
| 16 | `Motors` | drivers of motors, with the task of the servos | done |
| 17 | `Accessories` | coolant, user outputs and their pins, with the executor | done |

Theorems were written in the order of what they say about the machine: the ring and its refinement, outputs and
position of G-code, the executor, the files on the card and the local ones, settings and network, spindles behind a
drive. Section 6 says what they rest on and what is left to TLC.

## 3. Modules

Definitions have the names of the code where they can. `map` in `PROJECT.json` has the lines of state and of each operation; a small
helper is among the lines of the operations that use it.

**Planner** models `Planner.cpp` with the part of `Stepper.cpp` that consumes it. `block_buffer`, its indices,
`block_buffer_planned` and `previous_nominal` (`pl.previous_nominal_speed`) are the code's variables; `prep` is what
the generator keeps about the block it works on (`pl_block` as `loaded`, the `recalculate` and `decelOverride` flags,
current and exit speed, `mm_complete`). Lengths and speeds are naturals: a block's `reach` is the change of squared
speed its remaining length allows (`2 * acceleration * millimeters`), and speeds that the code keeps squared are
squared. With them every `min`, comparison and sum of the passes is the code's. The geometry of a corner is a choice
of a junction speed. One action per operation: `BufferLine` (`plan_buffer_line` with `planner_recalculate`),
`BufferSystemMotion`, `ExecuteOverrides`, `StartHolding`, `HoldComplete`, `InitiateCycle`, `Reset`, and for the
generator `LoadBlock` (a profile is computed), `AdvanceBlock` (segments from part of a block) and `FinishBlock` (its
rest, and `plan_discard_current_block`). What speeds a profile passes through is the set `ProfileSpeeds`.
**PlannerQueue** is the abstract specification: a bounded FIFO of motions, and a speed; `QueueSpec` states that
`Planner` implements it.

**Protocol** models the main program as one process with a program counter (`main.pc`), interrupts and the outside
world as actions that may happen between any two of its steps. `main.pc` runs through one pass of
`protocol_exec_rt_system`: `exec` (realtime characters), `alarm`, `critical`, `reset`, `handle` (one step per flag,
in the code's order), then `suspend` (the loop of `protocol_exec_rt_suspend`), `parked` (a parking motion is over) or
`return` to the `caller`, the place in the main program that polled. Each handler (`protocol_do_feedhold` ...) is an
action, and an operator on `sys` holds its switch over the states (`FeedHeld` ...). Planner and segment ring shrink
to a queue of motions (`plan`), "segments waiting" and "first motion under way"; `prep_buffer` is the set of outcomes
the generator may have in a pass. The client sends one realtime character or line at a time. Lines are kinds: a move,
one out of the soft limits, a jog, a spindle change, a dwell, `M0`, a probe, `$X`, `$SLP`, `$C`, `$SD/Run`, and lines
of a running job. Homing is in `Homing`, so the state `Homing` is not reached here; its cases in the handlers are
translated all the same. The variable `history` is not in the code: it records whether the user asked for a start
since the machine was last told to stop, and whether motion was cut off. Only the sections of a handler between two
reads of shared flags are atomic; setting the state and starting the timer in `protocol_do_initiate_cycle` is one
step. A character read by a wait is executed in that poll.

**Stepper** models the generator and the interrupt of `Stepper.cpp` as two processes that meet in two rings:
`segment_buffer` with its tail, head and next head, and `st_block_buffer`, the Bresenham data the segments refer to.
`prep` is the generator's data (`loaded` stands for `pl_block != NULL`, `flags` for `recalculate_flag`, the fields
`last_...` are what parking saves), `st` the interrupt's. Each pass of `prep_buffer` is a series of steps between which
the interrupt may run: `LoadBlock`, `MakeSegment`, `BailOut`, `EndPass`; each call of `pulse_func` is one `Pulse` or
`ShutDown`. The executor appears as far as it drives these two. Distances are counted in steps. How many steps a
segment has (up to `MaxSegment`), its AMASS level and where a hold ends are choices: the code computes them from speeds, which `Planner`
has. A segment's events fit the 16 bits of `n_step` (`Stepper.cpp:41`) because the rate is limited (`Axis::afterParse`, `Axis.cpp:28-32`) and a
segment lasts 10 ms; the module assumes it: `MaxSegment * Power2[MaxAmassLevel] < StepCounts`. Lines move X and Y, parking motions Z. The counters, the shifts by the AMASS level and the 16 bits of
`step_count` are the code's. `interrupted` is a history variable: it records whether parking motions came between the
parts of a line that was held, of one that was merely begun, or before segments that were still pending.

**XModem** puts `xmodemReceive` and `xmodemTransmit` at the two ends of a line that loses, damages and delays. Every
wait of the code is one with a time limit, so a state of an end is its place, what it does next and what is left of its
wait; time passes (`Tick`, half a second) only when both ends wait. `held` is the packet the receiver holds back to
trim the padding of the last one; it outlives the call, as the `static` variables of the code do, and is the first packet
that the next reception writes. `inherited` (history) is what a reception found there.

**VFDSpindle** has four parties: the main program in `setState` with its waits, the stepper interrupt, which calls
`setSpeedfromISR` for every segment it loads (`LoadSegment`), the task `vfd_cmd_task` with its
retries, its polls and the initialisation sequence, and the drive, which answers or does not. The main program and the
interrupt put commands into the same queue; `programmed` is the speed that blocks of motion carry. At the end of motion
the interrupt sets the speed 0 only for spindles that adjust it to the rate (`Stepper.cpp:215`), which a VFD isn't. `vfd_cmd_queue` is the
code's queue of limited length, with its reset by a stop. `mc_reset` comes from a realtime character at any point and
from the task itself. The histories `asked`, `lost` and `failed` say what was last asked for, whether the code has
dropped it, and whether a critical command was given up. `Drives` are the three drives whose protocols differ: Huanyang
asks for its limits first, H2A for one value, YL620 reads speeds in tenths. `asked.settled` is whether the last call
found the drive as `setState` took it to be, which compares with `_current_state`. The map is `SpeedMap`'s, in fixed-point
arithmetic as the code's, and so is the tolerance for "at speed"; both are garbage until the drive has answered.

**I2SOut** has the ring of DMA buffers (`bufs`, the links `next`), the DMA's position, the queue of transferred
descriptors from the interrupt to the task, and the pulser's `status`. What is sent are samples with the number of the
step they make and the value of one more pin. The main program starts motions (`goal`), goes to direct output, resets
and cancels, and writes the pin with `i2s_out_push_sample` or without. The step counter `made` is what `pulse_func`
has counted; `sent` is what has come out at the motors. `Stepping.cpp`'s engines `I2S_STREAM` and `I2S_STATIC` are both there.

**Homing** follows `$H` through `mc_homing_cycle`, `run_cycles`, `run_one_cycle` and `run` phase by phase. A motor's
position is its distance from its switch, the interrupt steps each axis at its rate, and switches are looked at in
any interleaving with the steps (`unpolled`). Motors are locked by the masks of `Axes.cpp`; the configuration (single
motors, a pair behind one switch, a pair with two, cycles, pull-off distances) is one of `Machines`.

**GCodeBlock** is `gc_execute_line` up to its third step, as functions: the words of a line are folded into a block
with its modal groups, the checks refuse it, and its numbers are converted to millimetres and machine coordinates.
**GCode** executes a block: the accepted line leaves a sequence of stages (`todo`), in the order of the code's step 4,
and each stage is an action, with the waits of synchronisation, probing, dwells and pauses between them where a reset,
a soft limit or a probe's contact may come. The planner is a queue of targets, the machine stands at `mpos`, and a
motion that is stopped stops at its start, in the middle or at its end. Jogs and check mode are lines with other
stages.

**SDJobs** is the main task with everything that touches the card: `pollClients` and the job that is read line by
line, character by character with its retries, the answers that drive it, the commands that show, list, delete, store
and run files, and the web server's uploads, downloads, lists and commands. A request is served between two lines, in
the steps of the code between which a fault may come: reads and writes that fail, a card that is pulled out or
swapped, a broken connection, a reset, a restart. `sd` is the `SDCard` object (its state, its open file with the
position, `_readyNext`), `files` what is on the card, `job` a history of the job's lines and its outcome.

**ConfigParser** reads a configuration file: `tok` is the tokenizer's current token with its states `Held`, `Matching`
and `Matched`, `stack` the sections `ParserHandler` is in, with the indent of the section's key and of its first line.
A line is its indent, its key and what its value is worth (see the module's head); of the tree, the sections that show
each way of nesting and failing are kept. **Configuration** is the life of a start: the load with the default
configuration as its fallback, `afterParse`, the initialisation in `main_init`'s order with what fails in it, the main
loop with its `catch` and its static `tries`, changed settings, uploads of another file, restarts and crashes; and, of the
executor, what may follow a `ConfigAlarm` or replace it: a motion and its end, sleep, an alarm, `$X`, a reset. `lifted`
is history: one of these has put another state in the place of `ConfigAlarm`.

**SpeedMap** is `Spindle.cpp`'s table of speeds with its offsets and scales. **PinSpindles** has the spindles on pins
(`kind`), their pins as last written (`out`, with the cached duty), and the callers: lines of G-code, overrides, holds
with the spindle stop, tool changes, resets. `call` is the `setState` under way, pin by pin, `isr` the interrupt, which
sets the speed of the segment it loads; `ring` and `prep` carry the speeds the generator chose. `disturbed` is history:
overrides and tool changes that met a motion.

**InputBus** follows the bus from its start through the attachment of its pins to their callbacks. `s_value`,
`s_mask`, `s_pins` are the variables of the file; `handler` is where `handleValueChange` is in the task that shifts in
(preempted anywhere) or in the peripheral's interrupt (one step). `limits` and `held` are what the program goes by. A
limit that closes while pins are attached calls `mc_reset` before spindle and coolant were set up: that goes through where they
have no pins, and the alarm is the first thing the main loop sees, and is a failed assertion in the interrupt where they have
(`setup.outputs`).
`unseen`, `torn` and `risk` are history: pins whose interrupt came too early, read-modify-writes that lost a bit, and
switches that closed in motion.

**Settings** holds each setting three times, as the code does: its key (`nvs`), the value believed to be stored
(`stored`) and the one in force (`current`). Its actions are the commands that set one or several of them, restore or
erase them, a write that fails, a restart; `net` is the network with its station, its access point as the fallback and
the scan. `asked` is history: what was last set with success; `outcome.scanned` that a scan turned the station on.

**WebFiles** has a `request` as the library delivers it to the handlers: its forms, cut into chunks, a start and an
end for each, or an abort. `status` is `_upload_status`, which all handlers share; `flash` the library's `Update` with
the image that runs and the one that boots next. Updates come as an upload or over the air, of the file system or of
the firmware; one of the file system overwrites the partition in place (`OverwritePart` if it breaks off); one that was left running refuses the next; the commands that restart (`$Bye`, `[ESP444]RESTART`)
run between the calls. Passwords and directories are left out.

**Clients** takes characters from buffers of four kinds to complete lines (`line`), one of each in turn as `clientq`
does. A character is the k-th of the n-th line of its client, so that a line that is executed can be compared with the
one that was sent. The main task's places are the poll, the line it executes, and the waits that take realtime
characters only.

**Motors** has the members of each driver object (`drivers`: the Trinamic chips on SPI, on the UART and with StallGuard,
the standard driver, the unipolar one, servos on pins and Dynamixels), what the hardware was last told (`out`) and the
`rotor`, which turns the way its direction was set. Two threads, `todo.main` and `todo.task`, hold calls that were begun; a call of a stepper's driver is one step, those of servos are cut
at each access to what the main program and the servos' task share (`_disabled`, the pulse, Dynamixel's message buffer `buf` and answer
`rx`). Positions are mapped to pulses and counts by `Count`. Of homing there is its entry and its end for the drivers; the runs are
in `Homing`. History names what the code itself spoils: `raced` a servo that was turned off while the task updated it,
`disturbed` a position that a servo's reading wrote beside the planner, `dropped` a motion that lost its drivers to $MD or, in a jog, to
the idle time.

**Accessories** starts with the pins (`pin` is the `PinDetail` each item has, `claimed` what the constructors and
destructors of `Pins/` keep), as a configuration names them one after the other. `raw` is the level at each pin,
`analog` the duty put out and `_current_value`. The main program is a stack (`todo`) of what it has left to do, since
its waits nest: a line waits for the planner, the wait polls, the poll enters a suspension, whose restoration switches
the coolant and waits again, and a toggle may come on top of each. The executor is `Protocol`'s, less what does not
touch coolant; a pass of it is one step here. `history` records what user outputs were told last (`said`), and what the
code itself spoils: `late`, `stale`, `written` (section 5).

**Parts** puts the last seven side by side: a behaviour is about one part, chosen at the start, and `v1` to `v19` are
that part's variables. The parts share no state and so need not be multiplied with each other. What the theorems are
about (settings, texts of files, images) are its constants; the machines and bounds of the other parts are given where
they are instantiated. `MCParts` has the values of the run.

Modules with `Properties` in their names state the properties, those with `Proofs` the theorems, and those that begin
with `MC` are the roots of the runs.

## 4. Runs

The first column gives the configuration file in brackets; its root is the module of that name, or the module with
`Properties` in its name where there is none (`planner`, `hold`, `stops`, `xmodem`, `i2s`).

| Run | Instance | What it shows |
|---|---|---|
| `planner` (`MCPlanner`) | ring of four slots, reaches 1 and 3, speeds 4 and 9 squared, overrides 50 and 100 %, feeds and rapids | the ring stays a queue (`RingConsistent`, the refinement `QueueSpec`), the incremental plan is feasible and as fast as the full one (`PlanOptimal`), speed never jumps (`SpeedContinuous`) |
| `hold` (`MCProtocolHold`) | planner of one block, two lines, three events: holds, starts, jog cancels, spindle stops | no motion at rest, none with the spindle off, none resumed unasked (`NoMotionAtRest`, `SpindleRunning`, `NoUnaskedResume`); holds and cancels end, queued motion runs (`StopCompletes`, `QueuedMotionRuns`) |
| `stops` (`MCProtocolStops`) | planner of two blocks, two lines, three events: door, reset, limits, probing, jobs, sleep, from three initial states, with parking | lost position is an alarm and ends the program (`AlarmWhenLost`), no start with an open door (`ClosedDoorAtStart`), an open door stops the spindle (`DoorRetracts`) |
| `stepper` (`MCStepper`) | ring of four segments of up to two steps each, three lines, two holds, two parking motions, underruns | the path stays on the lines and ends at their end (`LineFollowed`), data of pending segments are not overwritten (`DataInUseKept`) |
| `xmodem` (`MCXModem`) | six packets, numbers modulo five, two faults, two transfers | each reception writes what was sent, in order and whole, the second behind the packet inherited from the first; results are true of that (`FileAsSaid`); both calls return (`TransferEnds`) |
| `vfd` (`MCVFDSpindle`) | three drives, queue of three, two attempts, up to two calls, a motion and a reset | the drive does what was asked last unless that was dropped, as it is when segments have filled the queue (`DriveObeys`), an unanswered critical command ends in an alarm (`CriticalFailureAlarms`) |
| `i2s` (`MCI2SOut`) | two buffers of two samples, two steps, one reset | every counted step reaches the motors, once and in order (`StepsArrive`), the stream ends (`StreamEnds`) |
| `homing` (`MCHoming`) | two axes, single motors and pairs, stuck switches, reset and door | homed axes are where they say, an idle machine is homed (`HomedAsAsked`), the command ends (`HomingEnds`) |
| `gcode` (`MCGCode`) | three lines out of nineteen, one reset, contact, soft limit or jog cancel | parser, work coordinates and outputs stay true (`PositionAgrees`, `WorkCoordinates`, `OutputsFollowProgram`), a line ends (`LineEnds`) |
| `jobs` (`MCSDJobs`) | three requests, two troubles | a job's lines once and in order, success is complete (`JobTrue`), it ends (`JobEnds`), an upload said to be good is on the card (`UploadTrue`) |
| `config` (`MCConfiguration`) | all files of three lines, motors with four further lines, two replaced files | objects get the values under them (`ParsedAsWritten`), a bad file never runs unless `ConfigAlarm` was replaced (`BadFileNeverRuns`), no crash follows a crash (`PanicRecovers`), starts end (`BootEnds`) |
| `parts` (`MCParts`) | seven parts, each with its bounds (below) | `OutputsAsSaid`, `SwitchesHeeded`, `SettingsKept`, `NetworkAsSet`, `UploadsWhole`, `LinesIntact`, `MotorsAsAsked` |

**Why the bounds are enough.** The planner's arithmetic over the ring is uniform in its size; four slots give queues
of three blocks (first, middle and last block differ in the passes), every wrap position, and the full ring. Lengths
1 and 3 against speeds 4 and 9 (squared) give blocks that can't reach their limit, that can just reach it, and that
hold across several blocks. In `Protocol` two lines and three events let every handler meet every other one
twice: a hold, a start and a hold again, or a door that opens during the restore of its first opening. A planner of
one block makes lines wait in `mc_line`, one of two lets a stop fall between two motions. Limits on lines and events
(`MaxLines`, `MaxEvents`) bound what the environment does, never what the program does.

In `Stepper` a ring of four segments has three slots of data, as many as a line that is executed, the next one and a
parking motion need; both wrap several times. Lines of two steps are cut at every step; a flat and a steep
line make the minor axis step in the middle of a segment, and three lines let a hold meet the end of one of them. One AMASS level above zero shows whether a change of level
loses part of a step. `Underruns` lets the interrupt run out of segments in the middle of a line; in a parking motion
it never does (the model follows the comment at `Stepper.cpp:353-354` that the ring is long enough).

`XModem` counts packets modulo 5, so that six packets wrap around as 256 do; two faults meet in one packet (a lost
acknowledgement of a repetition). In `VFDSpindle` a queue of three entries is filled by one `setState` with mode and
speed and a segment, or by segments alone; two attempts are one retry; the motion may come before, between or after two calls (a start and a
stop, or two starts whose waits end at once), and the interrupt may load any number of segments in it. In `I2SOut` two buffers of two samples wrap
at once, and a motion has steps in both. In `Homing` two axes are in one cycle or in two, and every kind of motor pair
is there; a motor starts on its switch or two steps off, from where a travel of two steps may or may not reach it.
`GCode` has nineteen lines with every stage of the execution, and three lines are what it takes for one to set a mode, one to be
interrupted and one to see it. `SDJobs` has files with an empty line, a refused line, a line too long and a last line
without an end; three requests let one meet another in the middle of a third, and two troubles a fault while
recovering from a fault. `Configuration` has every file of three plain lines and every motor section with four further lines, which
is what it takes to leave sections in every way and to name two drivers; two more files can be stored later.

In `parts`: `PinSpindles` has four machines with every kind of spindle, three lines, two events, a planner of one
block and a ring of two segments, so that a line waits while a segment's speed is on its way. `Accessories` has five
machines: coolant with a delay, whose pins are configured twice; one that parks, with a pin of the I2S bus; digital and
analog outputs; a pin that is used twice; an input as an output. Up to three lines and an end, and two or three events
let a toggle or a reset fall into the restoration after a door, or a hold, a toggle and a reset into one line; a planner
of one block makes lines wait. `InputBus` has one pin
of each kind, two changes of an input (a switch that closes and opens) and one unlock. `Settings` has three commands,
which is what it takes to set a value, its default and the value again, and a restart. `WebFiles` has two requests of two forms
of up to two chunks, and two faults: one request that leaves something behind and one that meets it. `Clients` has
three scenarios of lines with backspaces, realtime characters, resets, a line too long and buffers that are smaller
than a line. `Motors` has five machines with each driver, in pairs that share an axis, a pin or nothing; three calls
are a motion, its end in the idle time and one that comes between.

`CHECK_DEADLOCK FALSE` is set where the system really may stop: `MCPlanner` (a queue that is full in a hold has no
operation of its own until resumed), `MCStepper` (all lines done and all holds spent), `MCProtocolStops` (after a hard
or soft limit the machine waits for a reset, which the budget of events may not leave), and `MCXModem`, `MCVFDSpindle`,
`MCHoming`, `MCGCode` and `MCParts` (all transfers, calls, commands, lines or events are spent). The others check it.

**Fairness.** `Protocol`: the main program always goes on (weak fairness of its steps, reading a line excepted:
nobody has to send one) and so does the interrupt, because both are driven by a processor and a timer. `EndMotion` has
strong fairness: each pass with room prepares more segments of the current motion, a motion has finitely many, and so
a motion that gets passes again and again ends. `XModem`: both ends go on and time passes; the line may lose everything.
`VFDSpindle`: the main program's waits and the task go on; no answer is ever due. `I2SOut`: the DMA, the task, the
timer and the main program's waits go on. `Homing`: the program and the interrupt. `GCode`: the stages of a line, the
motion, and the restart after an abort. `SDJobs`: the main task, and motion that ends. `Configuration`: the start goes
on until the main loop. `Parts` states safety only. No fairness is assumed anywhere of
the user, of pins, of the door, of commands or of faults.

## 5. Known divergences

What the code does differently from what its comments, documents or its own other parts suggest, met while
modelling. The models follow the code; where a property would be violated, it names the case it leaves out.

*Executor and stepper.*

* After an override is lowered the reverse pass may skip a block. `PlanOptimal` and `SpeedContinuous` leave queues whose override was
  lowered to `lowered`, until they are empty: of the two decelerations that go through a whole block, a hold and a reduction of
  an override (`Stepper.cpp:409`), the runs cover the hold only. `soft_limit` is never reset, so that later holds end by themselves in Idle
  (`Protocol.cpp:630`); `NoUnaskedResume` and `NoMotionAtRest` leave it out.
* A machine restored after a door isn't resumed: the state becomes Idle, the suspension stays (`Protocol.cpp:517`).
  The reset pin sets `rtReset` beside `mc_reset` (`ControlPin.cpp:12`): position loss without an alarm. A jog doesn't
  cancel the scheduled disabling of drivers (`Jog.cpp:33`).
* `protocol_buffer_synchronize` requests a start once: an underrun leaves it waiting, and it ends in a hold that still
  decelerates (`Protocol.cpp:232`). A feed hold during the door's restore is swallowed.
* The first parking motion wakes the interrupt and executes lines that were queued when the door opened in Idle
  (`Protocol.cpp:815`). Two parking motions behind a held line share a slot of Bresenham data (`Stepper.cpp:195`), a
  short one after a long one then makes steps too many; a flag survives parking (`Stepper.cpp:329`). `StepsExact`
  holds of lines no parking motion came between: the counters of a line that was held are set anew
  (`Stepper.cpp:195-202`, in spite of the comment at `Protocol.cpp:627-628`).
* A feed hold that begins while the last segment drains: the interrupt shuts down as `prep_buffer` refills the ring, and
  `protocol_do_cycle_stop` takes that shutdown for the end of the hold (`Protocol.cpp:634`), with segments pending. A parking motion that
  follows drops `recalculate` (`Stepper.cpp:316`), advances past a block that has no segment yet, and the ring of data may come
  around to one in use, which the comment at `Stepper.cpp:22-24` rules out. `DataInUseKept` leaves out parking motions that begin with
  segments pending (`interrupted = "pending"`); with a ring of three segments TLC finds it violated without that in 20 steps.
* Without AMASS (`maxAmassLevel` 0, the code has 3) lines don't end where they should: `StepsExact` needs `MotionAssumption`'s level above 0.
* A probe that trips (or is held) with a cycle start pending: the end of `mc_probe_cycle` resets the steppers while the
  state is Cycle, with no cycle stop to come, and a door that opens then never retracts: `DoorRetracts` leaves out machines that probed
  since their last reset (`history.probed`).

* A feed hold that falls between the end of the door's restore, which asks for a cycle start, and the handling of that
  request removes it (`Protocol.cpp:944-994`, `354-390`): the motion back from parking is begun a second time, a cycle start
  in the middle of it makes the state Idle while it runs, and `mc_parking_motion` then waits for a reset. An alarm that is
  raised without a reset while a hold decelerates (`ProbeFailInitial`) leaves Alarm, and later Idle, with motion. `Regular`
  names these; `NoMotionAtRest` leaves them out.
* What a probe or a soft limit leaves of a motion is cut off without an alarm, so `AlarmWhenLost` counts motions that were
  lost while `Regular` held.

*Homing.* A failed cycle leaves the next one's seek running, since `mc_reset` does nothing while a reset is pending
(`Machine/Homing.cpp:328`, `361`). Ctrl-X is never read during homing (the comments at 244 and 340 say it is); the
alarm "no homing cycles defined" is overwritten by Idle; ambiguous limit switches leave Idle with a reset pending; a
negative custom pull-off makes no nudge, and a nudge moves the second motor of all axes of the cycle; the rates of
approach differ from the axis's (107 against 24-33).

*G-code.*

* `$J=F1` moves all axes to machine zero: the comment at `GCode.cpp:1302` says step 3 has checked for axis words, but
  772-775 checks only the feed, 1097-1100 accepts the line and 1004 doesn't compute a target. The words `G92 X1 G1` and
  `G10 ... G1` likewise move to raw values; `G92.1 X1` moves with the old offset; G38.5 probes away with an error.
* `M2` and `M30` change only `gc_state.modal.override`, not `sys.override_ctrl`: after `M56 P0` and `M2`, an `M56` does
  nothing and parking stays disabled (1470, 1623, `Protocol.cpp:90`).
* A line in error has still changed the tool, and `M62`-`M68` with too large a number fail after the feed, spindle
  and coolant were set, in spite of the comment at 725-726. In check mode G10 and `M62`-`M68` act. After an abort in a
  wait a line is executed to its end; `M62` then switches its output on after `mc_reset` has turned all off.
* A synchronisation in check mode with motions queued before waits for ever; `LineEnds` leaves it out.

*Files.*

* A failed open leaves the card's state busy: lines of clients are then discarded as "SD card job running"
  (`Serial.cpp:294-296`) until a restart, Ctrl-X does not help. An upload that is refused because the card is busy
  deletes the file of that name and ends the card (`WebUI/WebServer.cpp:1450-1455`, `1741-1754`); the running job ends
  silently. `JobTrue` speaks of jobs that keep the card.
* A write of an upload that is repeated reopens the file, which empties it; the upload then fails, but the first part
  stays. A line that is too long, from any client, ends the running job (`Serial.cpp:274`).
* XModem: an acknowledgement lost at the wrap of packet numbers fails the transfer (`xmodem.cpp:215`); the loss of the
  first byte of packet 4, whose number is EOT, ends a reception as complete; `xmodemTransmit` waits one second for an
  answer that the receiver's flush delays by one and a half; a sender that starts late takes stale requests to begin for
  acknowledgements. `FileAsSaid` names the loss of that first byte and the late sender as `header` and `late`.
* The packet that `write_packet` holds back is static and nothing clears it (`xmodem.cpp:126`, `141-144`): from the second
  reception after a start of the program on, every file begins with the last packet of the one received before, padding included, and
  is reported as complete. `FileAsSaid` says this of later receptions (`Arriving == inherited \o Source`): they write the
  whole of the file that was sent, behind that packet.

*Spindles on pins.*

* A new override in motion is torn between two writes of the duty (`Spindles/PWMSpindle.cpp:140-142`), and one that
  comes after the last segments were prepared leaves the old speed; after M6 in motion or with the spindle on, the new
  spindle is off while the mode says on. `disturbed` names these.
* `10vSpindle.h:13` says M5 turns the direction pins off, but `set_enable` isn't virtual. Pins that `disable_with_s0`
  turned off in the interrupt don't come back, and the test takes the prepared segment's speed. A jog in M4 starves the ring in `spindleDelay`, whose
  switch lacks a `break`; a laser that is held in Idle stays off after the resume. `BESCSpindle` compares with an
  uninitialised duty. An undefined output pin returns from `init` before the map is set up.

*Coolant, user outputs and pins.*

* A machine with parking never turns the coolant off at an open door, if homing is configured: only the branch without
  parking does (`Protocol.cpp:889-913`, against the comment at 398). `DryWhenOpen` leaves it out.
* What a restoration turns on was noted when the suspension began, from the block then first (`Protocol.cpp:847-851`): a coolant
  toggled in a hold, which the comment at 706-707 provides for, is switched back to what it was at an opened door's
  restoration, and the parser disagrees (`stale`).
* A line that a reset has overtaken goes on to its end: outputs are written behind `mc_reset` and stay so (`late`).
  If the reset falls between the two writes of `AnalogOutput::set_level` (`UserOutput.cpp:83-90`), the cached value differs from the duty.
* `_current_value` of an analog output is not initialised, so its first M67 or M68 may be taken for done (`written`). The test
  `_pwm_channel == -1` (`UserOutput.cpp:77`) of an unsigned byte is never true. A digital output without a pin reports success.
* A key with an empty value (`flood_pin:`) makes a pin that counts as defined (`Pin.cpp:34`); an unknown prefix
  only logs. `setAttr` of the pins of both I2S buses overwrites the option `low` in `_attributes` (the level is right, it is kept apart).
  Pins of the input bus stay claimed when they are deleted. `CoolantControl::stop` waits for the I2S bus in
  an interrupt, since pins there are written synchronously (`Pins/I2SOPinDetail.cpp:45`).

*VFD spindles.* In motion the stepper interrupt queues the speed of every segment, changed or not (`Stepper.cpp:209`,
`Spindles/VFDSpindle.cpp:403-411`). The queue has 10 slots, and the task spends at least a poll of 250 ms per command, while
segments last 10 ms: so it is full as long as motion lasts and for seconds after it. A mode that comes then is dropped, and the only sign is the
message "VFD Queue Full" (397-399). So `M5` behind a motion may be lost: `setState` has synchronised with the motion, not with the queue,
and its wait for the speed to be reached may end at once as S is retained; `_current_state` says `Disable` while the drive runs on, and the next `M5` is taken
for done. `DriveObeys` exempts what was dropped (`lost`).
A stop and a start at once lose the stop's commands to `xQueueReset`; unanswered polls never raise an
alarm (`Spindles/HuanyangSpindle.cpp:20-24` says they do); when the initialisation gets no answer the queue is never
served; `mapSpeed` reads an empty vector before it. `Spindles/H2ASpindle.md:146-149` describes a wait for the speed
that ends at the last speed reported. `lost` names the commands the code drops. Mode goes before speed, so that M3 S0
after M5 returns at once; M3 to M4 at the same speed doesn't wait; a speed command that was given up isn't sent again. Two VFD spindles
  share a static queue and task. `Spindles/H2ASpindle.cpp:68` speaks of a minimum that `setupSpeeds(1)` leaves out.
Both the program, at the end of its wait, and the task, when it prepares a command, write `_current_state`
(`Spindles/VFDSpindle.cpp:373`, `387`). When M3, M5 and M3 come while the task is behind (a wait that ends at once needs a drive whose
tolerance covers the speeds, as the H2A's does), the last M3 finds `_current_state` at `Cw` and sends no mode, the task then stops
the drive, and the wait's end sets `Cw` again: until the next M5 every M3 is taken for done while the spindle stands. So
`DriveObeys` speaks of starts that find `_current_state` in agreement with the drive (`Settled`); of stops it speaks without condition.

*Input pins.*

* A switch that is closed at power-up isn't known: the first sample is handled before the pins are attached, in spite
  of the comment at `Machine/LimitPin.cpp:78-101` (`unseen`). The mask is set before the pin's detail
  (`Machine/I2SIBus.h:59-60`), which is a panic. A limit that closes between its attachment and the set-up of the outputs
  calls `mc_reset` from the interrupt: with the spindle of `MachineConfig.cpp:114-116` and coolant without pins that goes through and the machine
  starts in the alarm; with pins, it writes to one that isn't an output yet, and the failed assertion in the interrupt is a panic. A
  control pin with `:low` that is read before the first sample is "active at startup". Task and
  interrupts update one mask by read-modify-write (`torn`). Pin 31 is refused, though the bus has "32 inputs".

*Motors.*

* The idle time of the cycle before runs on in a jog (`Jog.cpp:36` against `Protocol.cpp:491-494`), so drivers may go off in
  the middle of it; `$MD` turns them off in any motion (`dropped`).
* `RcServo`: the task tests `_disabled`, the main program disables and writes 0, the task writes the pulse afterwards:
  the servo stays on, and later calls find the duty unchanged. The Dynamixel's task and the main program share
  `_dxl_tx_message`: a torque command may go out as a read (`raced`). A disabled Dynamixel's reading writes
  `motor_steps` and the planner's position from the task, lines planned or not (`disturbed`).
* The Trinamic drivers begin with `_disabled = false`, so the first enabling writes nothing; Dynamixel with `true`, so that
  "turn off torque so we can set EEPROM registers" (`Motors/Dynamixel2.cpp:62`) does nothing. On SPI `toff` is written
  only when enabling; on UART a local `_mode` shadows the member (`Motors/TrinamicUartDriver.cpp:185`); CoolStep after
  StallGuard leaves `diag1_stall` on. `Dynamixel2::set_homing_mode` enables and moves also at the end of homing and after a failed one.
  The inverted direction of a Dynamixel is ignored when reading. The servos' task is started by the servo made last, or not at all
  if that one has errors. A driver with errors ignores every call, and the machine moves without it.

*I2S output.* The interrupt fills a buffer that underran as bytes, not words (`I2SOut.cpp:405`); `beginLowLatency` does not
wait for the direct mode (`Stepping.cpp:41-46`); a reset while the stream waits for its end drops unsent steps
without an alarm. `forfeit` names these.

*Configuration.*

* After a parse error or a failed assertion the defaults are not made, and `gc_init` uses `config->_start`
  (`GCode.cpp:48`): the controller crashes at once, in spite of the comment in `FluidNC.cpp` that crashes must be
  avoided at this point and the state `ConfigAlarm` in which the user is to fix the file. The next start skips the file
  and comes up Idle with the built-in configuration (`PanicRecovers`, `BootEnds`).
* In `ConfigAlarm` after an assertion, Ctrl-X with a coolant pin fails another one, and the second stalls the
  controller for ever (static `tries`, `FluidNC.cpp:195-198`). Lines further out than the first one end the reading silently.
  Lines under a motor's further keys are given to its driver, a second driver's too (`Configuration/GenericFactory.h:61-63`).
* `ParserHandler.h:66` sets `ConfigAlarm` "so users can't run time machine". The state is left by three ways that do not look at
  it. `$SLP` is accepted in it (`notIdleOrAlarm`, `Settings.cpp:24-26`), Ctrl-X makes the sleep an Alarm
  (`Protocol.cpp:156-158`), and `$X` makes that Idle. Any alarm but those of limits replaces it (`Protocol.cpp:300-301`), one raised
  by a control pin that is active at the start (`ControlPin.cpp:30-32`) included; again `$X` follows. And when a value is rejected by `$/...` in a
  motion, the cycle stop at its end makes the state Idle (`Protocol.cpp:642-664`). With a file refused at the start, a motion
  then fails: the stepping timer was never made (`Stepping.cpp:139-141`), or the pins are no outputs. `BadFileNeverRuns` exempts these by `lifted`.
* `$/...` accepts values out of range, and keeps a value whose validation fails; each `$/` resets `spindle` to the first one.
* Items set by `$axes/...=` may be set in any state and are kept nowhere (`saveYamlOverride` is a weak stub).

*Settings and network.*

* A value set back to its default erases the key but keeps `_storedValue`, so that the old value, set again, isn't
  written and is lost at the next start (`Settings.cpp`); likewise all settings after `$RST` and `$NVX` (`erased`). A
  write that fails leaves the new value in force, and `Coordinates::set` doesn't look (`failed`). `Coordinates::load` passes a
  length that wasn't initialised (`Settings.cpp:412-430`): a boot may leave in force what was in memory, G54 included, while the key is
  right. `SettingsKept`, which is about what each boot puts in force, names this (`Garbage`).
* `[ESP410]` with the radio off starts a scan, and that turns the station on, without services (`WebUI/WebSettings.cpp:609-643`;
  `NetworkAsSet` names it: `outcome.scanned`).
* `$RST=$` restores the settings without a description, `$RST=@` (WiFi) all those with one, the name of the
  configuration file included. `Sta/Setup` and `Notification/Setup` set some and fail at the next.
  `cycleOrHold` (`&&` for `||`) is never true. The number of an enumeration is taken modulo 256.

*Local files and firmware.*

* An upload that is aborted leaves the truncated file, and the old one is gone (`broken`). An aborted update returns
  without `Update.end()`, so that the next one is refused; an update over the air that fails leaves the file system
  unmounted (`WebUI/WifiServices.cpp:41-47`), and the partition partly overwritten, since the update writes in place and `onError` (52-76) undoes
  nothing: at the next start any file may be as it was, torn or gone, the configuration included. `UploadsWhole` exempts the torn ones by `broken`. A later form forgets the failure of an earlier one; a request dropped
  after its upload leaves `SUCCESSFUL` for the next one to answer with, `GET /updatefw` then restarts (`stale`). A restart doesn't look at
  `sys.state`. `WebClient::write` repeats its beginning when it crosses its buffer's end.

*Clients.*

* Characters are discarded one by one in a job, so the rest of a line is executed after it; likewise after `Overflow`. A line
  of exactly 254 characters is lost at its end. Partial lines survive a reset, and a telnet client that takes the
  place of another goes on with that one's. A client whose every character ends a line starves the clients
  after it. A macro that finds no room is dropped without a word (`Machine/Macros.h:37`).

## 6. Proofs

Each proof is for all values of the constants that the module assumes, and goes by an inductive invariant `I`:
`Init => I`, `I /\ [Next]_vars => I'`, and that it implies the property. TLC has checked each of these invariants on the
bounds of its run, or wider ones, before it was proved. The assumptions are those stated in the modules (`RingAssumption`, `VFDAssumption`, ...):
sizes that are positive, sets of which the configuration takes its values, texts that are not empty. A bound of
the environment (lines, events, requests) is any natural number.

* `PlannerProofs.RingAlwaysConsistent`: `Spec => []RingConsistent`. `RingConsistent` does not bound the indices (so the
  ring arithmetic says nothing), and `prep.loaded => ~Empty` isn't preserved by a discard without knowing that a
  discard unloads the block and that only a non-empty queue is loaded. `RingInv` adds that the indices are slots and
  that `next_buffer_head` follows the head.
* `PlannerProofs.ImplementsQueue`: `Spec => QueueSpec`. The contents of the abstract queue are the motions between tail and
  head. Planning changes speeds only (`Replanned`: every pass of `planner_recalculate` leaves motions, reaches and
  limits of all slots alone), a buffered motion is appended, a discard takes the first. The passes are recursive
  functions on the ring; that they are defined for every queue, with values that are speeds, is proved by induction on how far a slot is
  from the end. The library's induction theorems cannot be used here (section end), so the module first derives
  induction and recursion over initial segments of the naturals from the order being well-founded.
* `PlannerProofs.PlanAlwaysOptimal`: `Spec => []PlanOptimal`, and `PlannerProofs.SpeedAlwaysContinuous`: `Spec => SpeedContinuous`.
  Neither is inductive: the passes stop at the planned pointer, so that they are right only if nothing before it could be
  raised by what comes after. `PlanInv` (`PlanAlwaysHolds`) looks at the ring from the tail, as a *view* of which the first `c` blocks are
  queued. Every block is long enough to slow down in (`Braked`) and to speed up in (`Driven`); every entry speed is
  bound by its limit or a neighbour, and that at the planned pointer by its limit or the block before, whose bounds lie before it
  in turn (`Tight`); limits are those of the present override (`Limited`); the stepper's profile ends with the speed at
  which the next block begins, or where the hold wants it (`Prepared`); and the machine can stop within the
  queue whatever was overridden (`Stops`), which the profile of a lowered override needs. `ReverseView` and `ForwardView` say what the passes make
  of a view (`Planned`), `PlannedKeeps` that this is a plan again, and one lemma for each action that
  `PlanInv` is kept. `PressedRises` and `ReleasedFalls` then follow each bound, upwards or downwards, to the limit, the machine or the
  final stop that it comes from. In a hold speeds need not be the highest (`Fast` is
  suspended), and from a lowered override until the queue is empty `Slow` doesn't hold either: the exceptions of the two properties.
* `ProtocolProofs.Invariant`: `Spec => []Inv`, for any lines, characters, pins, parking and planner. `Inv` says where `sys.state`,
  `sys.suspend`, `sys.step_control`, the requests, the stepper and the program counter may be together, part by part: which suspend bits exist together
  (`SuspendInv`), where parking motions are made (`ParkInv`), which states have no motion (`RestInv`), which requests are still to be seen
  (`RequestInv`), and so on; `Sound` holds while `Regular` does. Five properties follow, none of which is inductive:
  `NeverMovesAtRest`, `SpindleRuns`, `LostMeansAlarm`, and the action properties `ResumesWhenAsked` and `StartsWithClosedDoor`.
* `StepperProofs.DataAlwaysKept`: `Spec => DataInUseKept`. A block is left only after a segment of it was made, so that the data of a
  pending segment are no more slots behind the generator's than the segment is behind the head (`EachHasSegment`, one more while
  a block is begun), and a ring of data one shorter than the ring of segments is enough.
  Parking breaks that by design, and is safe since the ring is empty when it begins and, by `ParkingEnds`, when it is over.
* `StepperProofs.LineAlwaysFollowed`: `Spec => []LineFollowed`, whose invariant `LineInv` adds two parts to that of the ring.
  `ControlPlaced` says which places of the program, bits of `step_control` and states of `prep` and `st` exist together. `PathKept`
  cuts each line into pieces (`PieceOfLine`: the line, the steps made before it, its own): the segment under the interrupt is a piece, and each
  piece is followed in the ring by the next one, with the same data, or by the first of the next line, with data of its own, up to where the
  generator stands (`CutInto`, `GeneratorAt`). A line that a parking motion will continue is remembered (`Parked`). Each Bresenham counter tells
  exactly how many steps its axis has made (`Bresenham`, in events of the highest AMASS level, whatever the level of the segment), so that at the end of a line
  every axis has made all of its own (`BresenhamEnds`), and on the way none is a step off the line (`BresenhamNear`). Lines,
  segments and levels may be as many as one likes: `Power2` and the steps made are again recursive functions over the naturals.
* `GCodeProofs.OutputsAlwaysFollow`: `Spec => []OutputsFollowProgram`, which speaks of the time between lines. Its
  strengthening says what holds at every stage: outside check mode the parser's state and the outputs agree, since each
  stage sets both together; after an abort everything is off until the restart, which resets the parser. `Shape` says
  that the records have their fields.
* `GCodeProofs.PositionAlwaysAgrees`: `Spec => []PositionAgrees`. The invariant compares two ends of a pipe at every stage:
  `Final`, where the machine will stand when the planner's queue, the motion under way and the line in `mc_line` are done, and `Goal`, where the stages
  that the line has left believe it will; they agree unless the program is aborting or checks only.
* `GCodeProofs.WorkCoordinatesTrue`: `Spec => WorkCoordinates`. The invariant `WorkInv` adds to that of the position: all coordinates are
  numbers (`Numbers`, `PlacesKnown`), and what the block says is true of the parser's state for the stages that are left (`Kept`: the coordinate system and
  the offsets it was computed with are in force when the stage that uses them comes). That rests on the order of execution: each stage has a `Place`,
  what is left is `Rising`, and what a stage changes no later one of the same line has used. A line may have any number of words: that a block is `Sound` after each of
  them unfolds `FoldLeft` over the words, by induction over the naturals. The constants: `Systems` is a sequence of names that starts with G54, words are a letter and a number.
* `SDJobsProofs.UploadsAreTrue`: `Spec => []UploadTrue`. The upload's status is `successful` only between the
  verification, which compares what is on the card, and the answer; nothing else runs in the main task in between, and
  what changes the card from outside does not touch an upload that is about to be answered.
* `SDJobsProofs.JobsAlwaysTrue`: `Spec => JobTrue`. `JobTrue` compares what was executed with the file the job began with;
  the invariant `JobInv` says where in that file the job is at every place of the main task (`InPlace`): the lines
  executed, then the characters or the line at hand, then what is not read yet, are the file, but for an end of line that
  the file's last line lacks. `FileKept` says that the file stays as it was while the card is the job's, since whatever
  changes files first takes the card, and `OpenKept` that a file that is open is one that is there. After the card was
  taken and given back the position may lie behind the end of a file of the same name that has been uploaded since;
  `FileKept` is therefore said of jobs that keep the card only. `LineMore` is the lemma about `FlattenSeq` it rests on.
* `ConfigurationProofs.NoCrashLoop`: `Spec => []PanicRecovers`. After a crash the built-in configuration is read, whose
  lines are all items of the root: the reading never leaves the root, nothing is rejected, the defaults are made, the
  pins are set up, and so nothing that the main loop uses is missing, whatever the user changes later.
* `VFDSpindleProofs.AlwaysObeys`: `Spec => []DriveObeys`. A command is on its way as long as the queue has it, the task sends it, or
  the drive has obeyed it; a stop in the queue survives whatever is queued behind it. `StopKept` says that whoever takes the spindle for stopped
  (the program at rest with `_current_state` at `Disable`, a call of M5 that waits) has such a stop on its way, or on record as lost. `StartKept` says the same of the
  mode and the speed of a start that found the spindle settled. `SpeedKept` says that `_current_dev_speed` is the drive's, unless an attempt was given up. The interrupt may add a segment's speed at any point:
  `SegmentsInv` says that it is the programmed one, which is what the last start asked for, so that a speed behind that start changes nothing, and one dropped is repeated by the next.
* `PartsProofs` has the parts of `Parts`, whose other parts are a stutter to each: `SettingsAlwaysKept` and `NetworkAlwaysAsSet` (what the
  program knows of each key, and where the history says it may not; the first is an action property, and `BootLoads` and `LoadRestores` say that
  a boot puts in force what its keys hold), and `UploadsAlwaysWhole` (`UploadsInv`: the
  file being written is a prefix of what was sent, forms that are done are whole or in trouble, an image that is complete is the one uploaded).
  `SwitchesAlwaysHeeded` follows each pin from its attachment: it is known as it was sampled, or its change waits in the handler
  (`PinsKnown`), and a switch that closed in motion has an alarm, or its change is still on its way (`RiskAnswered`).
  `LinesAlwaysIntact` follows the characters (`ClientsInv`): what a buffer has, up to what comes next, is what was sent, in order, with gaps
  only in lines on record as lost (`InOrder`, `Follows`); the line so far is what the characters read are meant to be (`Continued`); every line before the
  next one is executed, lost or at hand (`InTurn`), and the one at hand is whole (`LineAtHand`). The texts
  are as long as one likes: `MeantTo` and `Several`, recursive on the number of characters and of lines, are unfolded
  by recursion and induction over the naturals, derived from the order being well-founded as in `PlannerProofs`.

Three things are beyond the provers and stay with TLC. Liveness and fairness: `StopCompletes`, `QueuedMotionRuns`, `DoorRetracts`, `TransferEnds`,
`CriticalFailureAlarms`, `StreamEnds`, `HomingEnds`, `LineEnds`, `JobEnds`, `BootEnds`. What a recursive definition computes for every input: the
theorems with an operator as a parameter cannot be instantiated, so a proof has to go through sets (as `ImplementsQueue`, `PlanAlwaysOptimal`,
`LineAlwaysFollowed`, `LinesAlwaysIntact` and `WorkCoordinatesTrue` do), which serves functions of one number but makes the meaning of a file (`ParsedAsWritten`,
`BadFileNeverRuns`) a development of its own. Proofs not attempted: the invariants of `I2SOut`, `XModem` and `Homing`, whose models bind data and
control most tightly, and those of the remaining parts (`OutputsAsSaid`, `MotorsAsAsked`).

## 7. Not modelled

* *Vendored libraries*, the UART's wrapper and hooks of custom machines (empty here) hold no logic of the project.
  Kinematics of custom machines are not in the build.
* *Reports and logging* format what other components hold, except the answer to a line, which drives a job (`SDJobs`).
* *Network*: pages, the captive portal, SSDP, websocket output, e-mail and other notifications (a dialog with a server
  whose failure is reported and has no effect), and Bluetooth, which delivers characters as telnet does. Logins are
  compiled out (`ENABLE_AUTHENTICATION`).
* *Commands*: listings; items of the configuration changed at runtime (`$axes/...=`) beyond their parsing; `$LocalFS/Run`
  and the directories of the local file system.
* *Motors*: currents, StallGuard's reports, timing of pulses, RMT's registers, solenoids.
* In `Accessories`: the text of a pin's options, M56 (whether the machine parks is the configuration's), jogs, probing
  and homing, and the level a failed start leaves.
* In `Protocol`: lasers, coolant (which `Accessories` has), macros, positions, speed and rapid overrides (they follow the feed override), status
  reports. In `Stepper`: the float arithmetic of segments. In `GCode`: lasers (which `PinSpindles` has), the tool change
  of M6, line numbers, values that overflow 8 bits, inverse-time feed of arcs; an arc has one or two segments. In `XModem`: the two
  kinds of checks are one. In `VFDSpindle`: the bytes of messages, a map that isn't configured, and speed overrides other than 100 %: under these `setState` is also called in
  motion, and segments prepared before a change carry the old speed behind the new one.
* In `Configuration`: homing, jogs and check mode, limits that are looked at when the program starts; listings, and most sections of the tree, which are of the kinds that are there.
