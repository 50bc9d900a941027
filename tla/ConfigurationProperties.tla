----------------------- MODULE ConfigurationProperties -----------------------
(* What reading the configuration file should mean, said by the indents alone   *)
(* and without a token or a stack, and what a bad file may lead to.             *)
EXTENDS Configuration

\* The line a line is under: the last one before it that is further out.
Parent(i) ==
    LET outer == {j \in 1 .. i - 1 : lines[j].indent < lines[i].indent}
    IN  IF outer = {} THEN 0 ELSE CHOOSE j \in outer : \A k \in outer : k <= j

\* Whom a line speaks to, and which object it opens.  The lines of a section are
\* those as far in as the first one under it; a section counts once.
Place[i \in 1 .. Len(lines)] ==
    LET p     == Parent(i)
        key   == lines[i].key
        owner == IF lines[i].indent # lines[p + 1].indent THEN "none"
                 ELSE IF p = 0 THEN "machine" ELSE Place[p].opens
        obj   == IF owner = "motor0" /\ key \in Drivers THEN "driver" ELSE key
        opens == /\ owner # "none"
                 /\ obj = "driver" \/ obj \in Sections[owner]
                 /\ \A j \in 1 .. i - 1 : Place[j].opens # obj
    IN  [owner |-> owner, opens |-> IF opens THEN obj ELSE "none"]

Written ==
    {<<Place[i].owner, i>> : i \in {j \in 1 .. Len(lines) :
        Place[j].owner # "none" /\ lines[j].key \in Items[Place[j].owner]}}

\* Reading stops at a line that is further out than the first one.
Reached(i) == \A j \in 1 .. i - 1 : lines[j].indent >= lines[1].indent

\* A file that is read to its end gives every object the values written under it,
\* and no others; only a motor that has a driver hands the lines under its further
\* keys to that driver (ParserHandler::enterSection, GenericFactory::factory).
ParsedAsWritten ==
    phase = "parse" /\ parse = "done" =>
        /\ {entry \in Written : lines[entry[2]].val # "fails"} \subseteq applied
        /\ \A entry \in applied \ Written :
             /\ entry[1] = "driver"
             /\ Place[Parent(entry[2])].owner = "motor0"

\* A line that cannot be split or whose value is rejected, a rate that is too high,
\* a pin on a bus that is not configured, an output on a pin that is none.
Faulty ==
    \/ \E i \in 1 .. Len(lines) : Reached(i) /\ lines[i].key = "garbled"
    \/ \E entry \in Written :
         LET line  == lines[entry[2]]
             final == \A other \in Written :
                        other[1] = entry[1] /\ lines[other[2]].key = line.key
                            => other[2] <= entry[2]
         IN  \/ line.val \in {"bad", "fails"}
             \/ line.val = "i2si" /\ \A i \in 1 .. Len(lines) : Place[i].opens # "i2si"
             \/ final /\ line.val = "fast"
             \/ final /\ line.key = "flood_pin" /\ line.val # "ok"

\* Motion is only possible with a configuration without a fault: that of the file,
\* or the one that is built in (MachineConfig::load, main_init, run_once).  Left out,
\* by `lifted`, are the three ways in which the program itself puts another state in
\* the place of the ConfigAlarm: a sleep, after whose reset $X makes it Idle, an alarm
\* with $X after it, and a motion that ends after a setting was rejected.
BadFileNeverRuns ==
    phase = "run" /\ state \in {"Idle", "Cycle"} => lines = defaultConfig \/ ~Faulty \/ lifted

\* A crash is not followed by another one: after the first the built-in
\* configuration is in force, whatever is in the flash and whatever the user does.
PanicRecovers == phase = "panic" => reset # "panic"

\* Every start ends in the main loop, with at most one crash on the way, so that
\* a better file can be stored; only a repeated assertion stalls the machine.
BootEnds ==
    phase \notin {"run", "sleep", "stalled"} ~> phase \in {"run", "sleep", "stalled"}
=============================================================================
