------------------------------ MODULE Settings ------------------------------
(***************************************************************************)
(* The settings kept in non-volatile storage (Settings.cpp), the commands  *)
(* that change, restore and erase them (ProcessSettings.cpp,               *)
(* WebUI/WebSettings.cpp), the stored coordinates, and the network that is *)
(* started from settings (WebUI/WifiConfig.cpp, WifiServices.cpp).         *)
(*                                                                         *)
(* A setting is held three times: its key in storage, the value the        *)
(* program believes to be stored (_storedValue) and the value in force     *)
(* (_currentValue).  A command is one step, except that one that sets      *)
(* several settings is one step for each.  Power may fail between steps.   *)
(***************************************************************************)
EXTENDS Naturals, Sequences, FiniteSets

CONSTANTS Names,       \* settings, and coordinate systems
          Kind,        \* Names -> "int", "string", "enum", "ip" or "coordinates"
          Described,   \* settings that have a description
          Default,     \* Names -> default value
          Accepted,    \* Names -> values its setter accepts
          Group,       \* the settings Sta/Setup sets, in its order
          MaxCommands, \* bound: commands
          MaxBoots     \* bound: restarts

Absent == "absent"     \* no key; also the marker of numbers that are not stored
Garbage == "garbage"   \* what was in memory
Refused == "refused"   \* a value no setter accepts

Coordinates == {s \in Names : Kind[s] = "coordinates"}
Settings == Names \ Coordinates
Texts == {s \in Names : Kind[s] = "string"}
Modes == {"Off", "STA", "AP", "STA>AP"}

\* What the constants are: assumed where the module is instantiated.
SettingsAssumption ==
    /\ {"mode", "ssid"} \subseteq Settings
    /\ Default \in [Names -> UNION {Accepted[s] : s \in Names}]
    /\ \A s \in Names : Default[s] \in Accepted[s] /\ Absent \notin Accepted[s]
    /\ Accepted["mode"] \subseteq Modes
    /\ Described \subseteq Settings
    /\ Group \in Seq(Settings)
    /\ MaxCommands \in Nat /\ MaxBoots \in Nat

VARIABLES
    nvs,      \* the keys in storage
    stored,   \* _storedValue
    current,  \* _currentValue
    state,    \* sys.state
    todo,     \* what Sta/Setup has left to set
    net,      \* WiFi mode, services running, scan for networks
    asked,    \* history: what each setting was last set to with success
    erased,   \* history: settings believed to be stored whose key was erased since
    failed,   \* history: coordinates whose write failed
    outcome,  \* history: the last start of the network, and whether a scan turned the
              \* station on since
    commands, \* bound
    boots     \* bound

memory == <<nvs, stored, current>>
history == <<asked, erased, failed>>
vars == <<memory, state, todo, net, history, outcome, commands, boots>>

\* notIdleOrAlarm, the check of every setter and of most commands.
Ready == state \in {"Idle", "Alarm", "ConfigAlarm"}

\* The console, when no command that sets several settings is under way.
Console == todo = <<>> /\ commands < MaxCommands /\ commands' = commands + 1

-----------------------------------------------------------------------------
(* Loading                                                                  *)

\* What load makes of a key; _storedValue of a text is its default then.
Loaded(s) == IF nvs[s] # Absent THEN nvs[s] ELSE Default[s]
LoadedStored(s) == IF s \in Texts THEN Loaded(s) ELSE nvs[s]

\* make_settings, load_settings.  The length Coordinates::load passes is not
\* initialized: the value may be left as it was in memory.  Coordinates without
\* a key are written.
Load ==
    \E torn \in SUBSET {s \in Coordinates : nvs[s] # Absent}, lost \in SUBSET Coordinates :
        /\ current' = [s \in Names |-> IF s \in torn THEN Garbage ELSE Loaded(s)]
        /\ stored' = [s \in Names |-> LoadedStored(s)]
        /\ nvs' = [s \in Names |-> IF s \in Coordinates \ lost THEN Loaded(s) ELSE nvs[s]]
        /\ asked' = [s \in Names |-> IF s \in erased \cup failed THEN Loaded(s) ELSE asked[s]]
        /\ erased' = {} /\ failed' = {}

-----------------------------------------------------------------------------
(* The network                                                              *)

Off == [mode |-> "off", services |-> FALSE, scan |-> "none"]

\* WiFiServices::begin ends with a scan, for which an access point is made a
\* station too.
Scanning(mode) == [mode |-> IF mode = "ap" THEN "ap+sta" ELSE mode, services |-> TRUE, scan |-> "running"]

\* Mutant: the access point is not tried in the place of a station.
WithoutFallback(mode, ssid, joins, serves) ==
    CASE mode = "Off" -> Off
      [] mode \in {"STA", "STA>AP"} /\ ssid # "" /\ joins -> Scanning("sta")
      [] mode = "AP" /\ serves -> Scanning("ap")
      [] OTHER -> Off

\* WiFiConfig::begin, StartSTA, ConnectSTA2AP, StartAP: from no network, with
\* the mode and the name of the network that are set.
Network(mode, ssid, joins, serves) ==
    CASE mode = "Off" -> Off
      [] mode \in {"STA", "STA>AP"} /\ ssid # "" /\ joins -> Scanning("sta")
      [] mode \in {"AP", "STA>AP"} /\ serves -> Scanning("ap")
      [] OTHER -> Off

\* joins: the station finds its network; serves: the access point starts.
StartNetwork(mode, ssid) ==
    \E joins, serves \in BOOLEAN :
        /\ net' = Network(mode, ssid, joins, serves)
        /\ outcome' = [mode |-> mode, ssid |-> ssid, joins |-> joins, serves |-> serves,
                       scanned |-> FALSE]

\* The library: a scan ends.
ScanDone == /\ net.scan = "running"
            /\ net' = [net EXCEPT !.scan = "done"]
            /\ UNCHANGED <<memory, state, todo, history, outcome, commands, boots>>

\* WiFiServices::handle leaves the mixed mode after a scan.
Handle == /\ todo = <<>>
          /\ net.mode = "ap+sta" /\ net.scan = "done"
          /\ net' = [net EXCEPT !.mode = "ap"]
          /\ UNCHANGED <<memory, state, todo, history, outcome, commands, boots>>

\* listAPs: lists what was found, and scans again.  A scan turns the station on, also
\* when there is no network; the services are left alone.
ListAPs ==
    /\ Console /\ Ready
    /\ \/ net.scan = "running" /\ UNCHANGED <<net, outcome>>
       \/ /\ net.scan # "running"
          /\ net' = [net EXCEPT !.scan = "running",
                                !.mode = CASE @ = "off" -> "sta" [] @ = "ap" -> "ap+sta" [] OTHER -> @]
          /\ outcome' = [outcome EXCEPT !.scanned = @ \/ net.mode = "off"]
    /\ UNCHANGED <<memory, state, todo, history, boots>>

\* setRadioState OFF.
RadioOff == /\ Console /\ Ready
            /\ net' = Off
            /\ outcome' = [outcome EXCEPT !.mode = "Off", !.scanned = FALSE]
            /\ UNCHANGED <<memory, state, todo, history, boots>>

\* setRadioState ON: stops everything and begins again.
RadioOn == /\ Console /\ Ready
           /\ StartNetwork(current["mode"], current["ssid"])
           /\ UNCHANGED <<memory, state, todo, history, boots>>

-----------------------------------------------------------------------------
(* Setting, restoring, erasing                                              *)

\* Mutant: what is stored is noted before it is written.
NotedFirst(s, v, works) ==
    IF v = stored[s] THEN <<nvs[s], stored[s]>>
    ELSE IF v = Default[s] THEN <<Absent, IF s \in Texts THEN v ELSE stored[s]>>
    ELSE <<IF works THEN v ELSE nvs[s], v>>

\* The end of setStringValue: the key and _storedValue of s afterwards.  The
\* default is not stored, and only a text notes that; works: the write succeeds.
Written(s, v, works) ==
    IF v = stored[s] THEN <<nvs[s], stored[s]>>
    ELSE IF v = Default[s] THEN <<Absent, IF s \in Texts THEN v ELSE stored[s]>>
    ELSE IF works THEN <<v, v>>
    ELSE <<nvs[s], stored[s]>>

\* History: the settings with a value the program goes on believing to be stored.
Believed(S) == {s \in S : stored[s] \notin {Absent, Default[s]}}

\* NvsSetFailed.
WriteFails(s, v, works) == v # stored[s] /\ v # Default[s] /\ ~works

\* setStringValue with a value the setter accepts.
SetStringValue(s, v, works) ==
    LET written == Written(s, v, works)
    IN
    /\ current' = [current EXCEPT ![s] = v]
    /\ nvs' = [nvs EXCEPT ![s] = written[1]]
    /\ stored' = [stored EXCEPT ![s] = written[2]]
    /\ asked' = IF WriteFails(s, v, works) THEN asked ELSE [asked EXCEPT ![s] = v]
    /\ erased' = IF v = stored[s] \/ WriteFails(s, v, works) THEN erased
                 ELSE IF v # Default[s] \/ s \in Texts THEN erased \ {s}
                 ELSE erased \cup Believed({s})
    /\ UNCHANGED failed

\* $name=value, by any of its names, or ESP401.
SetOne == /\ Console /\ Ready
          /\ \E s \in Settings : \E v \in Accepted[s], works \in BOOLEAN : SetStringValue(s, v, works)
          /\ UNCHANGED <<state, todo, net, outcome, boots>>

\* showSetStaParams: the settings of the group one after the other, until one fails.
SetSeveral == /\ Console /\ Ready
              /\ \E vs \in [DOMAIN Group -> (UNION {Accepted[Group[i]] : i \in DOMAIN Group}) \cup {Refused}] :
                    todo' = [i \in DOMAIN Group |-> <<Group[i], vs[i]>>]
              /\ UNCHANGED <<memory, state, net, history, outcome, boots>>

SetNext ==
    /\ todo # <<>>
    /\ LET s == todo[1][1]
           v == todo[1][2]
       IN IF Ready /\ v \in Accepted[s]
          THEN \E works \in BOOLEAN :
                  /\ SetStringValue(s, v, works)
                  /\ todo' = IF WriteFails(s, v, works) THEN <<>> ELSE Tail(todo)
          ELSE todo' = <<>> /\ UNCHANGED <<memory, history>>
    /\ UNCHANGED <<state, net, outcome, commands, boots>>

\* setDefault of all settings in S, and of the coordinates if zero; lost: writes that fail.
Restore(S, zero, lost) ==
    LET back == {s \in S : stored[s] # Default[s]}
        written == IF zero THEN Coordinates ELSE {}
    IN
    /\ current' = [s \in Names |-> IF s \in S \cup written THEN Default[s] ELSE current[s]]
    /\ nvs' = [s \in Names |-> IF s \in back THEN Absent
                               ELSE IF s \in written \ lost THEN Default[s] ELSE nvs[s]]
    /\ asked' = [s \in Names |-> IF s \in S \cup written THEN Default[s] ELSE asked[s]]
    /\ erased' = erased \cup Believed(back)
    /\ failed' = (failed \ written) \cup (written \cap lost)
    /\ UNCHANGED stored

\* settings_restore: $RST=$ takes the settings without a description, $RST=@
\* those with one (WiFiConfig::reset_settings), $RST=# the coordinates.
RestoreSettings ==
    /\ Console /\ Ready
    /\ \E lost \in SUBSET Coordinates :
          \/ Restore(Settings \ Described, FALSE, lost)
          \/ Restore(Described, FALSE, lost)
          \/ Restore({}, TRUE, lost)
          \/ Restore(Settings, TRUE, lost)
    /\ UNCHANGED <<state, todo, net, outcome, boots>>

\* $NVX.
EraseNVS == /\ Console /\ Ready
            /\ nvs' = [s \in Names |-> Absent]
            /\ asked' = Default
            /\ erased' = Believed(Settings)
            /\ failed' = {}
            /\ UNCHANGED <<stored, current, state, todo, net, outcome, boots>>

\* Coordinates::set, from a line of G-code.  Whether it was stored is not known.
SetCoordinates ==
    /\ Console /\ state = "Idle"
    /\ \E s \in Coordinates : \E v \in Accepted[s], works \in BOOLEAN :
          /\ current' = [current EXCEPT ![s] = v]
          /\ nvs' = IF works THEN [nvs EXCEPT ![s] = v] ELSE nvs
          /\ asked' = [asked EXCEPT ![s] = v]
          /\ failed' = IF works THEN failed \ {s} ELSE failed \cup {s}
    /\ UNCHANGED <<stored, erased, state, todo, net, outcome, boots>>

-----------------------------------------------------------------------------
(* Restarts, and the rest of the machine                                    *)

\* main_init, after a fault of the power, which may come at any point, or a
\* restart that was asked for.  The network starts with the settings just loaded.
Boot == /\ boots < MaxBoots /\ boots' = boots + 1
        /\ Load
        /\ StartNetwork(current'["mode"], current'["ssid"])
        /\ state' \in {"Idle", "ConfigAlarm"}
        /\ todo' = <<>>
        /\ UNCHANGED commands

\* Jobs, homing, holds: what state a command finds.  The checks treat an alarm
\* as Idle.
OtherState == /\ state' \in {"Idle", "Cycle"} \ {state}
              /\ state # "ConfigAlarm"
              /\ UNCHANGED <<memory, todo, net, history, outcome, commands, boots>>

\* From the factory: nothing is stored.
Init == /\ nvs = [s \in Names |-> IF s \in Coordinates THEN Default[s] ELSE Absent]
        /\ stored = [s \in Names |-> IF s \in Texts THEN Default[s] ELSE Absent]
        /\ current = Default
        /\ state = "Idle"
        /\ todo = <<>>
        /\ net = Off
        /\ asked = Default
        /\ erased = {} /\ failed = {}
        /\ outcome = [mode |-> "Off", ssid |-> "", joins |-> FALSE, serves |-> FALSE,
                      scanned |-> FALSE]
        /\ commands = 0
        /\ boots = 0

Next == \/ SetOne \/ SetSeveral \/ SetNext \/ RestoreSettings \/ EraseNVS \/ SetCoordinates
        \/ ListAPs \/ RadioOff \/ RadioOn \/ ScanDone \/ Handle
        \/ Boot \/ OtherState

Spec == Init /\ [][Next]_vars

-----------------------------------------------------------------------------
(* Properties                                                               *)

\* Not so for settings that were erased or set to their default while _storedValue
\* kept the old value (a command with that value stores nothing), and for coordinates
\* whose write failed (nobody looks).
Dependable == Names \ (erased \cup failed)

\* What is stored for a setting or coordinate system is what it was last set to with
\* success, by a command of its own, one of several settings that fails halfway, a
\* restoration or an erasure, whatever writes failed in between; and a boot puts it
\* in force.  The exception are coordinates: Coordinates::load passes a length that is
\* not initialized, and may leave in force what was in memory; their key stays.
KeptByStep ==
    \A s \in Dependable :
        /\ Loaded(s) = asked[s]
        /\ boots' # boots =>
              /\ Loaded(s)' = asked[s]
              /\ current'[s] = asked[s] \/ (s \in Coordinates /\ current'[s] = Garbage)

\* What a boot loads is what was last set, for the coordinates unless Garbage.
SettingsKept == [][KeptByStep]_vars

\* The services run only on a network, and the machine is off the air only if the last
\* start of the network was told so or could do no better: no station, and no access
\* point where one was to take its place.  A network without services is a station
\* that a scan turned on.
NetworkAsSet ==
    /\ net.services => net.mode # "off"
    /\ ~net.services =>
          /\ net.mode = "off" \/ (net.mode = "sta" /\ outcome.scanned)
          /\ \/ outcome.mode = "Off"
             \/ outcome.mode \in {"STA", "STA>AP"} /\ (outcome.ssid = "" \/ ~outcome.joins)
                /\ (outcome.mode = "STA>AP" => ~outcome.serves)
             \/ outcome.mode = "AP" /\ ~outcome.serves

-----------------------------------------------------------------------------
(* The invariant that the two properties rest on                            *)

Values == (UNION {Accepted[s] : s \in Names}) \cup {Absent, Garbage}

MemoryTyped == /\ {nvs, stored, current, asked} \subseteq [Names -> Values]
               /\ erased \subseteq Settings

TodoTyped == todo \in Seq(Settings \X (Values \cup {Refused}))

\* The program knows what is stored; or there is no key, and it does not think that
\* there is a value other than the default.
Agrees(s) == \/ nvs[s] # Absent /\ stored[s] = nvs[s] /\ asked[s] = nvs[s]
             \/ nvs[s] = Absent /\ stored[s] \in {Absent, Default[s]} /\ asked[s] = Default[s]

KnownAsStored == /\ \A s \in Settings \ erased : Agrees(s)
                 /\ \A s \in Coordinates \ failed : Loaded(s) = asked[s]

\* The network is started in one of its modes.
ModeKnown == current["mode"] \in Modes /\ nvs["mode"] \in Modes \cup {Absent}

NetTyped ==
    /\ net \in [mode : {"off", "sta", "ap", "ap+sta"}, services : BOOLEAN, scan : {"none", "running", "done"}]
    /\ DOMAIN outcome = {"mode", "ssid", "joins", "serves", "scanned"}
    /\ outcome.joins \in BOOLEAN /\ outcome.serves \in BOOLEAN /\ outcome.scanned \in BOOLEAN

SettingsInv == MemoryTyped /\ TodoTyped /\ KnownAsStored /\ ModeKnown /\ NetTyped /\ NetworkAsSet
=============================================================================
