----------------------------- MODULE PartsProofs -----------------------------
(***************************************************************************)
(* What Parts promises of settings, the network, uploads, updates, the     *)
(* input bus and the lines of clients, for all settings, files, images,    *)
(* pins, lines and sizes of buffers.  The variables of                     *)
(* Settings are v1 nvs, v2 stored, v3 current, v4 state, v5 todo, v6 net,  *)
(* v7 asked, v8 erased, v9 failed, v10 outcome; those of WebFiles are v1   *)
(* files, v2 mounted, v3 handler, v4 status, v5 request, v6 flash, v7      *)
(* restart, v8 broken, v9 told, v10 stale; those of InputBus are v1 setup, *)
(* v2 level, v3 s_value, v4 s_started, v5 s_mask, v6 s_pins, v7 handler,   *)
(* v8 limits, v9 held, v10 events, v11 rtReset, v12 rtAlarm, v13 state,    *)
(* v14 boot, v15 unseen, v16 torn, v17 risk, v18 changes, v19 unlocks;     *)
(* those of Clients are v1 lines, v2 ring, v3 sent, v4 line, v5 returned,  *)
(* v6 main, v7 busy, v8 alarm, v9 reset, v10 executed, v11 lost, v12 left. *)
(* Their invariants are in Settings, WebFiles, InputBus and Clients.       *)
(***************************************************************************)
EXTENDS WellFoundedInduction, Parts, TLAPS

-----------------------------------------------------------------------------
(* Settings and the network                                                 *)

\* From the factory nothing is stored, and everything has its default.
LEMMA SettingsBegin == ASSUME Kept!SettingsAssumption, Kept!Init PROVE Kept!SettingsInv
<1> USE DEF Kept!SettingsAssumption, Kept!Init, Kept!Settings, Kept!Coordinates
<1>1. Kept!MemoryTyped
  <2>1. /\ \A s \in SettingNames : Default[s] \in Kept!Values /\ Kept!Absent \in Kept!Values
        /\ Default \in [SettingNames -> Kept!Values]
    BY DEF Kept!Values
  <2> QED
    BY <2>1 DEF Kept!MemoryTyped
<1>5. Kept!TodoTyped
  <2>1. v5 = <<>>
    OBVIOUS
  <2> QED
    BY ONLY <2>1 DEF Kept!TodoTyped
<1>2. Kept!KnownAsStored
  BY DEF Kept!KnownAsStored, Kept!Agrees, Kept!Loaded, Kept!Texts, Kept!Absent
<1>3. Kept!ModeKnown
  BY DEF Kept!ModeKnown, Kept!Absent
<1>4. Kept!NetTyped /\ Kept!NetworkAsSet
  BY DEF Kept!NetTyped, Kept!NetworkAsSet, Kept!Off
<1> QED
  BY <1>1, <1>2, <1>3, <1>4, <1>5 DEF Kept!SettingsInv

\* One setting is set.
LEMMA SetKeeps ==
    ASSUME Kept!SettingsAssumption, Kept!MemoryTyped, Kept!KnownAsStored, Kept!ModeKnown,
           NEW s \in Kept!Settings, NEW v \in Accepted[s], NEW works \in BOOLEAN,
           Kept!SetStringValue(s, v, works)
    PROVE  Kept!MemoryTyped' /\ Kept!KnownAsStored' /\ Kept!ModeKnown'
<1> USE DEF Kept!SettingsAssumption, Kept!MemoryTyped
<1>1. v \in Kept!Values /\ v # Kept!Absent /\ s \in SettingNames
  BY DEF Kept!Values, Kept!Settings
<1>2. Kept!Written(s, v, works)[1] \in Kept!Values /\ Kept!Written(s, v, works)[2] \in Kept!Values
  <2>1. Kept!Absent \in Kept!Values /\ v1[s] \in Kept!Values /\ v2[s] \in Kept!Values
    BY <1>1 DEF Kept!Values
  <2> QED
    BY <1>1, <2>1 DEF Kept!Written
<1>3. Kept!MemoryTyped'
  <2>1. Kept!Believed({s}) \subseteq {s}
    BY DEF Kept!Believed
  <2>2. v8' \subseteq Kept!Settings
    BY <2>1 DEF Kept!SetStringValue
  <2> DEFINE key == Kept!Written(s, v, works)[1]
             known == Kept!Written(s, v, works)[2]
  <2>3. /\ v1' = [v1 EXCEPT ![s] = key] /\ v2' = [v2 EXCEPT ![s] = known] /\ v3' = [v3 EXCEPT ![s] = v]
        /\ v7' \in {v7, [v7 EXCEPT ![s] = v]}
    BY DEF Kept!SetStringValue
  <2>4. key \in Kept!Values /\ known \in Kept!Values
    BY <1>2
  <2> HIDE DEF key, known
  <2>5. {v1', v2', v3', v7'} \subseteq [SettingNames -> Kept!Values]
    BY <1>1, <2>3, <2>4
  <2> QED
    BY <2>2, <2>5
<1>4. Kept!KnownAsStored'
  <2>1. ASSUME NEW x \in Kept!Settings, x \notin v8'
        PROVE  Kept!Agrees(x)'
    BY <1>1, <2>1 DEF Kept!SetStringValue, Kept!Written, Kept!WriteFails, Kept!Believed,
                 Kept!KnownAsStored, Kept!Agrees, Kept!Texts
  <2>2. ASSUME NEW x \in Kept!Coordinates, x \notin v9'
        PROVE  Kept!Loaded(x)' = v7'[x]
    BY <1>1, <2>2 DEF Kept!SetStringValue, Kept!KnownAsStored, Kept!Loaded, Kept!Settings, Kept!Coordinates
  <2> QED
    BY <2>1, <2>2 DEF Kept!KnownAsStored
<1>5. Kept!ModeKnown'
  BY <1>1 DEF Kept!SetStringValue, Kept!Written, Kept!ModeKnown, Kept!Settings
<1> QED
  BY <1>3, <1>4, <1>5

\* The rest of Sta/Setup's settings, one by one.
LEMMA RestTyped == ASSUME Kept!TodoTyped, v5 # <<>>
                   PROVE  /\ v5[1] \in Kept!Settings \X (Kept!Values \cup {Kept!Refused})
                          /\ Tail(v5) \in Seq(Kept!Settings \X (Kept!Values \cup {Kept!Refused}))
<1> DEFINE S == Kept!Settings \X (Kept!Values \cup {Kept!Refused})
<1>1. v5 \in Seq(S) /\ v5 # <<>>
  BY DEF Kept!TodoTyped
<1> HIDE DEF S
<1>2. v5[1] \in S /\ Tail(v5) \in Seq(S)
  BY <1>1
<1> QED
  BY <1>2 DEF S

\* All that Sta/Setup has to set.
LEMMA SeveralTyped == ASSUME Kept!SettingsAssumption, Kept!SetSeveral PROVE Kept!TodoTyped'
<1>1. PICK vs \in [DOMAIN Group -> (UNION {Accepted[Group[i]] : i \in DOMAIN Group}) \cup {Kept!Refused}] :
          v5' = [i \in DOMAIN Group |-> <<Group[i], vs[i]>>]
  BY DEF Kept!SetSeveral
<1> DEFINE S == Kept!Settings \X (Kept!Values \cup {Kept!Refused})
<1>2. /\ DOMAIN Group = 1 .. Len(Group) /\ Len(Group) \in Nat
      /\ \A i \in DOMAIN Group : Group[i] \in Kept!Settings
  BY DEF Kept!SettingsAssumption
<1>3. ASSUME NEW i \in DOMAIN Group PROVE <<Group[i], vs[i]>> \in S
  <2>1. vs[i] \in Kept!Values \cup {Kept!Refused}
    BY <1>2 DEF Kept!Values, Kept!Settings
  <2> QED
    BY <1>2, <2>1
<1>4. v5' \in Seq(S)
  <2> HIDE DEF S
  <2>1. v5' \in [1 .. Len(Group) -> S]
    BY <1>1, <1>2, <1>3
  <2> QED
    BY <1>2, <2>1
<1> QED
  BY <1>4 DEF Kept!TodoTyped

\* Restoring: what is set to its default has no key afterwards, or is known to have one.
LEMMA RestoreKeeps ==
    ASSUME Kept!SettingsAssumption, Kept!MemoryTyped, Kept!KnownAsStored, Kept!ModeKnown,
           NEW S \in SUBSET Kept!Settings, NEW zero \in BOOLEAN, NEW lost \in SUBSET Kept!Coordinates,
           Kept!Restore(S, zero, lost)
    PROVE  Kept!MemoryTyped' /\ Kept!KnownAsStored' /\ Kept!ModeKnown'
<1> USE DEF Kept!SettingsAssumption, Kept!MemoryTyped
<1>1. /\ \A s \in SettingNames : Default[s] \in Kept!Values
      /\ Kept!Absent \in Kept!Values /\ Kept!Settings \subseteq SettingNames
  BY DEF Kept!Values, Kept!Settings
<1>3. Kept!MemoryTyped'
  BY <1>1 DEF Kept!Restore, Kept!Believed
<1>4. Kept!KnownAsStored'
  <2>1. ASSUME NEW x \in Kept!Settings, x \notin v8'
        PROVE  Kept!Agrees(x)'
    BY <1>1, <2>1 DEF Kept!Restore, Kept!Believed, Kept!KnownAsStored, Kept!Agrees, Kept!Settings
  <2>2. ASSUME NEW x \in Kept!Coordinates, x \notin v9'
        PROVE  Kept!Loaded(x)' = v7'[x]
    BY <1>1, <2>2 DEF Kept!Restore, Kept!KnownAsStored, Kept!Loaded, Kept!Settings, Kept!Coordinates
  <2> QED
    BY <2>1, <2>2 DEF Kept!KnownAsStored
<1>5. Kept!ModeKnown'
  BY <1>1 DEF Kept!Restore, Kept!ModeKnown, Kept!Settings
<1> QED
  BY <1>3, <1>4, <1>5

\* A boot loads what is stored.
LEMMA LoadKeeps ==
    ASSUME Kept!SettingsAssumption, Kept!MemoryTyped, Kept!KnownAsStored, Kept!ModeKnown, Kept!Load
    PROVE  Kept!MemoryTyped' /\ Kept!KnownAsStored' /\ Kept!ModeKnown'
<1> USE DEF Kept!SettingsAssumption, Kept!MemoryTyped
<1>1. PICK torn \in SUBSET {s \in Kept!Coordinates : v1[s] # Kept!Absent}, lost \in SUBSET Kept!Coordinates :
        /\ v3' = [s \in SettingNames |-> IF s \in torn THEN Kept!Garbage ELSE Kept!Loaded(s)]
        /\ v2' = [s \in SettingNames |-> Kept!LoadedStored(s)]
        /\ v1' = [s \in SettingNames |-> IF s \in Kept!Coordinates \ lost THEN Kept!Loaded(s) ELSE v1[s]]
        /\ v7' = [s \in SettingNames |-> IF s \in v8 \cup v9 THEN Kept!Loaded(s) ELSE v7[s]]
        /\ v8' = {} /\ v9' = {}
  BY DEF Kept!Load
<1>2. ASSUME NEW s \in SettingNames
      PROVE  /\ Kept!Loaded(s) = IF v1[s] # Kept!Absent THEN v1[s] ELSE Default[s]
             /\ Kept!LoadedStored(s) = IF s \in Kept!Texts THEN Kept!Loaded(s) ELSE v1[s]
             /\ {Kept!Loaded(s), Kept!LoadedStored(s), Kept!Garbage} \subseteq Kept!Values
  BY DEF Kept!Loaded, Kept!LoadedStored, Kept!Values
<1>3. ASSUME NEW s \in SettingNames
      PROVE  v7'[s] = Kept!Loaded(s)
  BY <1>1, <1>2 DEF Kept!KnownAsStored, Kept!Agrees, Kept!Settings
<1>4. Kept!MemoryTyped'
  BY <1>1, <1>2
<1>5. Kept!KnownAsStored'
  <2>1. ASSUME NEW x \in Kept!Settings
        PROVE  Kept!Agrees(x)'
    BY <1>1, <1>2, <1>3 DEF Kept!Agrees, Kept!Settings, Kept!Texts
  <2>2. ASSUME NEW x \in Kept!Coordinates
        PROVE  Kept!Loaded(x)' = v7'[x]
    BY <1>1, <1>2, <1>3 DEF Kept!Loaded, Kept!Coordinates
  <2> QED
    BY <2>1, <2>2 DEF Kept!KnownAsStored
<1>6. Kept!ModeKnown'
  BY <1>1, <1>2 DEF Kept!ModeKnown, Kept!Settings
<1> QED
  BY <1>4, <1>5, <1>6

\* What runs after a start.
LEMMA NetworkStarts ==
    ASSUME NEW mode \in Kept!Modes, NEW ssid, NEW joins \in BOOLEAN, NEW serves \in BOOLEAN,
           NEW n, n = Kept!Network(mode, ssid, joins, serves)
    PROVE  /\ n \in [mode : {"off", "sta", "ap", "ap+sta"}, services : BOOLEAN, scan : {"none", "running", "done"}]
           /\ n.services <=> n.mode # "off"
           /\ n.mode = "off" =>
                      \/ mode = "Off"
                      \/ mode \in {"STA", "STA>AP"} /\ (ssid = "" \/ ~joins)
                         /\ (mode = "STA>AP" => ~serves)
                      \/ mode = "AP" /\ ~serves
<1>1. CASE mode = "Off"
  BY <1>1 DEF Kept!Network, Kept!Off
<1>2. CASE mode \in {"STA", "STA>AP"} /\ ssid # "" /\ joins
  BY <1>2 DEF Kept!Network, Kept!Scanning
<1>3. CASE mode \in {"AP", "STA>AP"} /\ ~(mode \in {"STA", "STA>AP"} /\ ssid # "" /\ joins) /\ serves
  BY <1>3 DEF Kept!Network, Kept!Scanning
<1>4. CASE /\ mode # "Off" /\ ~(mode \in {"STA", "STA>AP"} /\ ssid # "" /\ joins)
           /\ ~(mode \in {"AP", "STA>AP"} /\ serves)
  BY <1>4 DEF Kept!Network, Kept!Off, Kept!Modes
<1> QED
  BY <1>1, <1>2, <1>3, <1>4

\* A network that is started in one of its modes runs, or could not.
LEMMA StartKeeps ==
    ASSUME NEW mode \in Kept!Modes, NEW ssid, Kept!StartNetwork(mode, ssid)
    PROVE  Kept!NetTyped' /\ Kept!NetworkAsSet'
<1>1. PICK joins, serves \in BOOLEAN :
        /\ v6' = Kept!Network(mode, ssid, joins, serves)
        /\ v10' = [mode |-> mode, ssid |-> ssid, joins |-> joins, serves |-> serves,
                   scanned |-> FALSE]
  BY DEF Kept!StartNetwork
<1>2. /\ v6' \in [mode : {"off", "sta", "ap", "ap+sta"}, services : BOOLEAN, scan : {"none", "running", "done"}]
      /\ v6'.services <=> v6'.mode # "off"
      /\ v6'.mode = "off" =>
                      \/ mode = "Off"
                      \/ mode \in {"STA", "STA>AP"} /\ (ssid = "" \/ ~joins)
                         /\ (mode = "STA>AP" => ~serves)
                      \/ mode = "AP" /\ ~serves
  BY <1>1, NetworkStarts
<1>3. Kept!NetTyped'
  BY <1>1, <1>2 DEF Kept!NetTyped
<1>4. Kept!NetworkAsSet'
  BY <1>1, <1>2 DEF Kept!NetworkAsSet
<1> QED
  BY <1>3, <1>4

\* What else happens to the network.
LEMMA NetworkKeeps ==
    ASSUME Kept!NetTyped, Kept!NetworkAsSet,
           Kept!ScanDone \/ Kept!Handle \/ Kept!ListAPs \/ Kept!RadioOff
    PROVE  Kept!NetTyped' /\ Kept!NetworkAsSet'
<1> USE DEF Kept!NetTyped, Kept!NetworkAsSet
<1>1. CASE Kept!ScanDone
  BY <1>1 DEF Kept!ScanDone
<1>2. CASE Kept!Handle
  BY <1>2 DEF Kept!Handle
<1>3. CASE Kept!ListAPs
  <2>1. CASE UNCHANGED <<v6, v10>>
    BY <2>1
  <2>2. CASE v6.scan # "running"
    <3>1. /\ v6' = [v6 EXCEPT !.scan = "running",
                              !.mode = CASE @ = "off" -> "sta" [] @ = "ap" -> "ap+sta" [] OTHER -> @]
          /\ v10' = [v10 EXCEPT !.scanned = @ \/ v6.mode = "off"]
      BY <1>3, <2>2 DEF Kept!ListAPs
    <3>2. /\ v6'.mode = CASE v6.mode = "off" -> "sta" [] v6.mode = "ap" -> "ap+sta" [] OTHER -> v6.mode
          /\ v6'.services = v6.services /\ v6'.scan = "running"
          /\ DOMAIN v6' = DOMAIN v6
      BY <3>1
    <3>3. v6'.mode \in {"sta", "ap", "ap+sta"} /\ (v6.mode = "off" => v6'.mode = "sta")
          /\ (v6.mode = "sta" => v6'.mode = "sta")
      BY <3>2
    <3>4. /\ DOMAIN v10' = DOMAIN v10
          /\ v10'.mode = v10.mode /\ v10'.ssid = v10.ssid
          /\ v10'.joins = v10.joins /\ v10'.serves = v10.serves
          /\ v10'.scanned = (v10.scanned \/ v6.mode = "off")
      BY <3>1
    <3>5. v6' \in [mode : {"off", "sta", "ap", "ap+sta"}, services : BOOLEAN, scan : {"none", "running", "done"}]
      BY <3>1, <3>3
    <3> QED
      BY <3>2, <3>3, <3>4, <3>5
  <2> QED
    BY <1>3, <2>1, <2>2 DEF Kept!ListAPs
<1>4. CASE Kept!RadioOff
  BY <1>4 DEF Kept!RadioOff, Kept!Off
<1> QED
  BY <1>1, <1>2, <1>3, <1>4

LEMMA EraseKeeps ==
    ASSUME Kept!SettingsAssumption, Kept!SettingsInv, Kept!EraseNVS
    PROVE  Kept!MemoryTyped' /\ Kept!KnownAsStored' /\ Kept!ModeKnown'
<1> USE DEF Kept!SettingsAssumption, Kept!SettingsInv, Kept!EraseNVS
<1>1. /\ Kept!Absent \in Kept!Values /\ Kept!Settings \subseteq SettingNames
      /\ Default \in [SettingNames -> Kept!Values]
  BY DEF Kept!Values, Kept!Settings
<1>2. Kept!MemoryTyped'
  BY <1>1 DEF Kept!MemoryTyped, Kept!Believed
<1>3. Kept!KnownAsStored'
  BY <1>1 DEF Kept!KnownAsStored, Kept!Agrees, Kept!Believed, Kept!Loaded, Kept!Coordinates
<1>4. Kept!ModeKnown'
  BY <1>1 DEF Kept!ModeKnown, Kept!Settings
<1> QED
  BY <1>2, <1>3, <1>4

\* A coordinate system is set: its key is written, or known not to be.
LEMMA CoordinatesKeep ==
    ASSUME Kept!SettingsAssumption, Kept!SettingsInv, Kept!SetCoordinates
    PROVE  Kept!MemoryTyped' /\ Kept!KnownAsStored' /\ Kept!ModeKnown'
<1> USE DEF Kept!SettingsAssumption, Kept!SettingsInv
<1>1. PICK s \in Kept!Coordinates : \E v \in Accepted[s], works \in BOOLEAN :
          /\ v3' = [v3 EXCEPT ![s] = v]
          /\ v1' = IF works THEN [v1 EXCEPT ![s] = v] ELSE v1
          /\ v7' = [v7 EXCEPT ![s] = v]
          /\ v9' = IF works THEN v9 \ {s} ELSE v9 \cup {s}
  BY DEF Kept!SetCoordinates
<1>2. PICK v \in Accepted[s], works \in BOOLEAN :
          /\ v3' = [v3 EXCEPT ![s] = v]
          /\ v1' = IF works THEN [v1 EXCEPT ![s] = v] ELSE v1
          /\ v7' = [v7 EXCEPT ![s] = v]
          /\ v9' = IF works THEN v9 \ {s} ELSE v9 \cup {s}
  BY <1>1
<1>3. v2' = v2 /\ v8' = v8
  BY DEF Kept!SetCoordinates
<1>4. v \in Kept!Values /\ v # Kept!Absent /\ s \in SettingNames /\ s \notin Kept!Settings
  BY DEF Kept!Values, Kept!Settings, Kept!Coordinates
<1>5. Kept!MemoryTyped'
  BY <1>2, <1>3, <1>4 DEF Kept!MemoryTyped
<1>6. Kept!KnownAsStored'
  BY <1>2, <1>3, <1>4
     DEF Kept!MemoryTyped, Kept!KnownAsStored, Kept!Agrees, Kept!Loaded, Kept!Coordinates, Kept!Settings
<1>7. Kept!ModeKnown'
  BY <1>2, <1>4 DEF Kept!MemoryTyped, Kept!ModeKnown
<1> QED
  BY <1>5, <1>6, <1>7

\* The next one of several settings is set, unless a value before was refused.
LEMMA NextSettingKeeps ==
    ASSUME Kept!SettingsAssumption, Kept!SettingsInv, Kept!SetNext
    PROVE  Kept!MemoryTyped' /\ Kept!TodoTyped' /\ Kept!KnownAsStored' /\ Kept!ModeKnown'
<1> USE DEF Kept!SettingsInv
<1>1. /\ v5 # <<>> /\ v5[1] \in Kept!Settings \X (Kept!Values \cup {Kept!Refused})
      /\ Tail(v5) \in Seq(Kept!Settings \X (Kept!Values \cup {Kept!Refused}))
  BY RestTyped DEF Kept!SetNext
<1>2. v5' \in {<<>>, Tail(v5)}
  BY DEF Kept!SetNext
<1>3. Kept!TodoTyped'
  <2> DEFINE S == Kept!Settings \X (Kept!Values \cup {Kept!Refused})
  <2> HIDE DEF S
  <2>1. Tail(v5) \in Seq(S)
    BY <1>1 DEF S
  <2>2. <<>> \in Seq(S)
    OBVIOUS
  <2>3. v5' \in Seq(S)
    BY ONLY <1>2, <2>1, <2>2
  <2> QED
    BY <2>3 DEF S, Kept!TodoTyped
<1>4. v5[1][1] \in Kept!Settings
  BY <1>1
<1>5. \/ /\ v5[1][2] \in Accepted[v5[1][1]]
         /\ \E works \in BOOLEAN : Kept!SetStringValue(v5[1][1], v5[1][2], works)
      \/ UNCHANGED <<v1, v2, v3, v7, v8, v9>>
  BY DEF Kept!SetNext, Kept!memory, Kept!history
<1>6. CASE UNCHANGED <<v1, v2, v3, v7, v8, v9>>
  BY <1>3, <1>6 DEF Kept!MemoryTyped, Kept!KnownAsStored, Kept!Agrees, Kept!Loaded, Kept!ModeKnown
<1>7. CASE /\ v5[1][2] \in Accepted[v5[1][1]]
           /\ \E works \in BOOLEAN : Kept!SetStringValue(v5[1][1], v5[1][2], works)
  BY <1>3, <1>4, <1>7, SetKeeps
<1> QED
  BY <1>5, <1>6, <1>7

\* Every step of the settings keeps their invariant.
LEMMA SettingsStep ==
    ASSUME Kept!SettingsAssumption, Kept!SettingsInv, Kept!Next
    PROVE  Kept!SettingsInv'
<1> USE DEF Kept!SettingsInv
<1>1. CASE Kept!SetOne
  <2>1. Kept!MemoryTyped' /\ Kept!KnownAsStored' /\ Kept!ModeKnown'
    BY <1>1, SetKeeps DEF Kept!SetOne
  <2> QED
    BY <1>1, <2>1 DEF Kept!SetOne, Kept!TodoTyped, Kept!NetTyped, Kept!NetworkAsSet
<1>2. CASE Kept!SetSeveral
  <2>1. Kept!TodoTyped'
    BY <1>2, SeveralTyped
  <2> QED
    BY <1>2, <2>1 DEF Kept!SetSeveral, Kept!memory, Kept!history, Kept!MemoryTyped, Kept!KnownAsStored,
                      Kept!Agrees, Kept!Loaded, Kept!ModeKnown, Kept!NetTyped, Kept!NetworkAsSet
<1>3. CASE Kept!SetNext
  <2>1. v6' = v6 /\ v10' = v10
    BY <1>3 DEF Kept!SetNext
  <2> QED
    BY <1>3, <2>1, NextSettingKeeps DEF Kept!NetTyped, Kept!NetworkAsSet
<1>4. CASE Kept!RestoreSettings
  <2>1. PICK lost \in SUBSET Kept!Coordinates :
          \/ Kept!Restore(Kept!Settings \ Described, FALSE, lost)
          \/ Kept!Restore(Described, FALSE, lost)
          \/ Kept!Restore({}, TRUE, lost)
          \/ Kept!Restore(Kept!Settings, TRUE, lost)
    BY <1>4 DEF Kept!RestoreSettings
  <2>2. Described \subseteq Kept!Settings
    BY DEF Kept!SettingsAssumption
  <2>3. Kept!MemoryTyped' /\ Kept!KnownAsStored' /\ Kept!ModeKnown'
    BY <2>1, <2>2, RestoreKeeps
  <2> QED
    BY <1>4, <2>3 DEF Kept!RestoreSettings, Kept!TodoTyped, Kept!NetTyped, Kept!NetworkAsSet
<1>5. CASE Kept!EraseNVS
  BY <1>5, EraseKeeps DEF Kept!EraseNVS, Kept!TodoTyped, Kept!NetTyped, Kept!NetworkAsSet
<1>6. CASE Kept!SetCoordinates
  BY <1>6, CoordinatesKeep DEF Kept!SetCoordinates, Kept!TodoTyped, Kept!NetTyped, Kept!NetworkAsSet
<1>7. CASE Kept!ListAPs \/ Kept!RadioOff \/ Kept!ScanDone \/ Kept!Handle
  <2>1. Kept!NetTyped' /\ Kept!NetworkAsSet'
    BY <1>7, NetworkKeeps
  <2>2. UNCHANGED <<v1, v2, v3, v5, v7, v8, v9>>
    BY <1>7 DEF Kept!ListAPs, Kept!RadioOff, Kept!ScanDone, Kept!Handle, Kept!memory, Kept!history
  <2> QED
    BY <2>1, <2>2 DEF Kept!MemoryTyped, Kept!KnownAsStored, Kept!Agrees, Kept!Loaded, Kept!ModeKnown,
                      Kept!TodoTyped
<1>8. CASE Kept!RadioOn
  <2>1. Kept!NetTyped' /\ Kept!NetworkAsSet'
    BY <1>8, StartKeeps DEF Kept!RadioOn, Kept!ModeKnown
  <2>2. UNCHANGED <<v1, v2, v3, v5, v7, v8, v9>>
    BY <1>8 DEF Kept!RadioOn, Kept!memory, Kept!history
  <2> QED
    BY <2>1, <2>2 DEF Kept!MemoryTyped, Kept!KnownAsStored, Kept!Agrees, Kept!Loaded, Kept!ModeKnown,
                      Kept!TodoTyped
<1>9. CASE Kept!Boot
  <2>1. Kept!MemoryTyped' /\ Kept!KnownAsStored' /\ Kept!ModeKnown'
    BY <1>9, LoadKeeps DEF Kept!Boot
  <2>2. Kept!StartNetwork(v3'["mode"], v3'["ssid"]) /\ v3'["mode"] \in Kept!Modes
    BY <1>9, <2>1 DEF Kept!Boot, Kept!ModeKnown
  <2>3. Kept!NetTyped' /\ Kept!NetworkAsSet'
    BY <2>2, StartKeeps
  <2>4. v5' = <<>>
    BY <1>9 DEF Kept!Boot
  <2>5. Kept!TodoTyped'
    BY ONLY <2>4 DEF Kept!TodoTyped
  <2> QED
    BY <2>1, <2>3, <2>5
<1>10. CASE Kept!OtherState
  BY <1>10 DEF Kept!OtherState, Kept!memory, Kept!history, Kept!MemoryTyped, Kept!KnownAsStored,
               Kept!Agrees, Kept!Loaded, Kept!ModeKnown, Kept!TodoTyped, Kept!NetTyped, Kept!NetworkAsSet
<1> QED
  BY <1>1, <1>2, <1>3, <1>4, <1>5, <1>6, <1>7, <1>8, <1>9, <1>10 DEF Kept!Next

\* The settings, their keys and the network, whatever else is done.
LEMMA SettingsInvariant == PartsSpec => [](part = "settings" => Kept!SettingsInv)
<1> DEFINE Inv == part = "settings" => Kept!SettingsInv
<1>1. PartsInit => Inv
  BY SettingsBegin, PartsAssumption DEF PartsInit
<1>2. Inv /\ [PartsNext]_<<part, v1, v2, v3, v4, v5, v6, v7, v8, v9, v10, v11, v12, v13,
                               v14, v15, v16, v17, v18, v19>>
        => Inv'
  <2> SUFFICES ASSUME Inv, part' = "settings",
                      \/ PartsNext
                      \/ UNCHANGED <<part, v1, v2, v3, v4, v5, v6, v7, v8, v9, v10, v11, v12, v13, v14, v15, v16, v17,
                                     v18, v19>>
               PROVE  Kept!SettingsInv'
    OBVIOUS
  <2>1. CASE PartsNext
    BY <2>1, SettingsStep, PartsAssumption DEF PartsNext
  <2>2. CASE UNCHANGED <<part, v1, v2, v3, v4, v5, v6, v7, v8, v9, v10, v11, v12, v13, v14, v15, v16, v17, v18, v19>>
    BY <2>2 DEF Kept!SettingsInv, Kept!MemoryTyped, Kept!KnownAsStored,
                Kept!Agrees, Kept!Loaded, Kept!ModeKnown, Kept!TodoTyped, Kept!NetTyped, Kept!NetworkAsSet
  <2> QED
    BY <2>1, <2>2
<1> HIDE DEF Inv
<1>3. PartsSpec => []Inv
  BY <1>1, <1>2, PTL DEF PartsSpec
<1> QED
  BY <1>3 DEF Inv

\* Only a boot counts as one.
LEMMA BootLoads ==
    ASSUME Kept!Next, v12' # v12
    PROVE  Kept!Load
  BY DEF Kept!Next, Kept!SetOne, Kept!SetSeveral, Kept!SetNext, Kept!RestoreSettings, Kept!EraseNVS,
         Kept!SetCoordinates, Kept!ListAPs, Kept!RadioOff, Kept!RadioOn, Kept!ScanDone, Kept!Handle,
         Kept!Boot, Kept!OtherState

\* What a boot does to a setting that can be depended on.
LEMMA LoadRestores ==
    ASSUME Kept!SettingsAssumption, Kept!SettingsInv, Kept!Load, NEW s \in Kept!Dependable
    PROVE  /\ Kept!Loaded(s)' = v7[s]
           /\ v3'[s] = v7[s] \/ (s \in Kept!Coordinates /\ v3'[s] = Kept!Garbage)
<1>1. PICK torn \in SUBSET {x \in Kept!Coordinates : v1[x] # Kept!Absent}, lost \in SUBSET Kept!Coordinates :
        /\ v3' = [x \in SettingNames |-> IF x \in torn THEN Kept!Garbage ELSE Kept!Loaded(x)]
        /\ v1' = [x \in SettingNames |-> IF x \in Kept!Coordinates \ lost THEN Kept!Loaded(x) ELSE v1[x]]
  BY DEF Kept!Load
<1>2. s \in SettingNames /\ Kept!Loaded(s) = v7[s]
  BY DEF Kept!SettingsInv, Kept!KnownAsStored, Kept!Agrees, Kept!Loaded, Kept!Dependable, Kept!Settings
<1>3. v1'[s] = Kept!Loaded(s) \/ v1'[s] = v1[s]
  BY <1>1, <1>2
<1>4. Kept!Loaded(s)' = v7[s]
  BY <1>2, <1>3 DEF Kept!Loaded
<1> QED
  BY <1>1, <1>2, <1>4

\* What was last set with success is stored, and the next boot puts it in force, but
\* for coordinates whose loading leaves what was in memory.
THEOREM SettingsAlwaysKept == PartsSpec => SettingsKept
<1> DEFINE Inv == part = "settings" => Kept!SettingsInv
           Step == part = "settings" => Kept!KeptByStep
<1>1. Inv /\ [PartsNext]_<<part, v1, v2, v3, v4, v5, v6, v7, v8, v9, v10, v11, v12, v13,
                               v14, v15, v16, v17, v18, v19>>
        => [Step]_<<part, v1, v2, v3, v4, v5, v6, v7, v8, v9, v10, v11, v12>>
  <2> SUFFICES ASSUME Inv, PartsNext, part = "settings"
               PROVE  Kept!KeptByStep
    OBVIOUS
  <2>1. Kept!SettingsInv /\ Kept!Next
    BY DEF PartsNext
  <2> SUFFICES ASSUME NEW s \in Kept!Dependable
               PROVE  /\ Kept!Loaded(s) = v7[s]
                      /\ v12' # v12 =>
                            /\ Kept!Loaded(s)' = v7[s]
                            /\ v3'[s] = v7[s] \/ (s \in Kept!Coordinates /\ v3'[s] = Kept!Garbage)
    BY DEF Kept!KeptByStep
  <2>2. Kept!Loaded(s) = v7[s]
    BY <2>1 DEF Kept!SettingsInv, Kept!KnownAsStored, Kept!Agrees, Kept!Loaded, Kept!Dependable, Kept!Settings
  <2> QED
    BY <2>1, <2>2, BootLoads, LoadRestores, PartsAssumption
<1>2. PartsSpec => []Inv
  BY SettingsInvariant
<1> HIDE DEF Inv
<1>3. PartsSpec => [][Step]_<<part, v1, v2, v3, v4, v5, v6, v7, v8, v9, v10, v11, v12>>
  BY <1>1, <1>2, PTL DEF PartsSpec
<1> QED
  BY <1>3 DEF SettingsKept

\* The network runs as it was told, or does its best; a scan without a network turns
\* the station on and nothing else.
THEOREM NetworkAlwaysAsSet == PartsSpec => []NetworkAsSet
<1>1. (part = "settings" => Kept!SettingsInv) => NetworkAsSet
  BY DEF NetworkAsSet, Kept!SettingsInv
<1> QED
  BY <1>1, SettingsInvariant, PTL

-----------------------------------------------------------------------------
(* Uploads and updates                                                      *)

\* What is to come of a form.
LEMMA FormOf ==
    ASSUME Web!WebFilesAssumption, Web!RequestTyped, v5.form \in DOMAIN v5.forms
    PROVE  /\ v5.kind = "files" => Web!Form \in Web!Uploads
           /\ v5.kind = "update" => Web!Form \in Web!Updates
           /\ v5.kind \in {"files", "update"}
           /\ Len(Web!Form.text) \in Nat \ {0}
           /\ DOMAIN Web!Form.text = 1 .. Len(Web!Form.text)
           /\ Web!Form.text \in FileTexts \cup Images
<1>1. v5.kind \in {"none", "files", "update"}
  BY DEF Web!RequestTyped
<1>2. v5.kind # "none"
  BY DEF Web!RequestTyped, Web!NoRequest, Web!NewRequest
<1>3. /\ v5.kind = "files" => Web!Form \in Web!Uploads
      /\ v5.kind = "update" => Web!Form \in Web!Updates
  BY DEF Web!RequestTyped, Web!Form
<1>4. Web!Form.text \in FileTexts \cup Images
  BY <1>1, <1>2, <1>3 DEF Web!Uploads, Web!Updates
<1>5. ASSUME NEW t \in FileTexts \cup Images PROVE Len(t) \in Nat \ {0} /\ DOMAIN t = 1 .. Len(t)
  <2> DEFINE S == {t[i] : i \in DOMAIN t}
  <2>1. t \in Seq(S) /\ t # <<>>
    BY <1>5 DEF Web!WebFilesAssumption
  <2> HIDE DEF S
  <2> QED
    BY <2>1
<1> QED
  BY <1>1, <1>2, <1>3, <1>4, <1>5

\* The request goes on: into a form, to its next chunk, to the next form, or no further.
LEMMA IntoForm ==
    ASSUME Web!WebFilesAssumption, Web!RequestTyped, v5.phase = "start", v5.form \in DOMAIN v5.forms,
           v5' = Web!GoOn("write"), v4' \in {"ONGOING", "FAILED"}
    PROVE  /\ Web!RequestTyped' /\ Web!Inside' /\ Web!Form' = Web!Form
           /\ v5'.kind = v5.kind /\ v5'.forms = v5.forms /\ v5'.form = v5.form /\ v5'.at = 0
           /\ v5'.failed <=> v5.failed \/ (v5.form > 1 /\ v4 = "FAILED")
<1>1. /\ v5 \in [kind : {"none", "files", "update"}, forms : Seq(Web!Uploads \cup Web!Updates), form : Nat \ {0},
                    at : Nat, phase : {"start", "write", "end"}, failed : BOOLEAN]
      /\ v5.at = 0 /\ v5.kind # "none"
  BY FormOf DEF Web!RequestTyped
<1>2. v5' = [v5 EXCEPT !.phase = "write", !.failed = v5.failed \/ (v5.form > 1 /\ v4 = "FAILED")]
  BY DEF Web!GoOn
<1>3. /\ v5' \in [kind : {"none", "files", "update"}, forms : Seq(Web!Uploads \cup Web!Updates), form : Nat \ {0},
                    at : Nat, phase : {"start", "write", "end"}, failed : BOOLEAN]
      /\ v5'.kind = v5.kind /\ v5'.forms = v5.forms /\ v5'.form = v5.form /\ v5'.at = 0 /\ v5'.phase = "write"
      /\ v5'.failed <=> v5.failed \/ (v5.form > 1 /\ v4 = "FAILED")
  BY <1>1, <1>2
<1>4. Web!Form' = Web!Form
  BY <1>3 DEF Web!Form
<1> QED
  BY <1>1, <1>3, <1>4, FormOf DEF Web!RequestTyped, Web!Inside

\* A chunk of a form has been handled.
LEMMA ToNextChunk ==
    ASSUME Web!WebFilesAssumption, Web!RequestTyped, v5.phase = "write", v5' = Web!NextChunk,
           v4' \in {"ONGOING", "FAILED"}
    PROVE  /\ Web!RequestTyped' /\ Web!Inside' /\ Web!Form' = Web!Form
           /\ v5'.kind = v5.kind /\ v5'.forms = v5.forms /\ v5'.form = v5.form /\ v5'.at = v5.at + 1
           /\ v5'.failed <=> v5.failed
<1>0. v5.form \in DOMAIN v5.forms
  BY DEF Web!RequestTyped
<1>1. /\ v5 \in [kind : {"none", "files", "update"}, forms : Seq(Web!Uploads \cup Web!Updates), form : Nat \ {0},
                    at : Nat, phase : {"start", "write", "end"}, failed : BOOLEAN]
      /\ v5.at < Len(Web!Form.text) /\ v5.kind # "none"
  BY <1>0, FormOf DEF Web!RequestTyped
<1>2. v5' = [v5 EXCEPT !.at = v5.at + 1,
                       !.phase = IF v5.at + 1 = Len(Web!Form.text) THEN "end" ELSE "write"]
  BY DEF Web!NextChunk
<1>3. /\ v5' \in [kind : {"none", "files", "update"}, forms : Seq(Web!Uploads \cup Web!Updates), form : Nat \ {0},
                    at : Nat, phase : {"start", "write", "end"}, failed : BOOLEAN]
      /\ v5'.kind = v5.kind /\ v5'.forms = v5.forms /\ v5'.form = v5.form /\ v5'.at = v5.at + 1
      /\ v5'.phase = IF v5.at + 1 = Len(Web!Form.text) THEN "end" ELSE "write"
      /\ v5'.failed <=> v5.failed
  <2>1. v5.at + 1 \in Nat
    BY <1>1
  <2> DEFINE next == v5.at + 1
             phase == IF v5.at + 1 = Len(Web!Form.text) THEN "end" ELSE "write"
  <2>2. v5' = [v5 EXCEPT !.at = next, !.phase = phase] /\ next \in Nat /\ phase \in {"start", "write", "end"}
    BY <1>2, <2>1
  <2> HIDE DEF next, phase
  <2>3. /\ v5' \in [kind : {"none", "files", "update"}, forms : Seq(Web!Uploads \cup Web!Updates), form : Nat \ {0},
                     at : Nat, phase : {"start", "write", "end"}, failed : BOOLEAN]
        /\ v5'.kind = v5.kind /\ v5'.forms = v5.forms /\ v5'.form = v5.form /\ v5'.at = next
        /\ v5'.phase = phase
        /\ v5'.failed <=> v5.failed
    BY <1>1, <2>2
  <2> QED
    BY <2>3 DEF next, phase
<1>4. Web!Form' = Web!Form
  BY <1>3 DEF Web!Form
<1>5. /\ v5.form <= Len(v5.forms)
      /\ v5.kind = "files" => \A i \in DOMAIN v5.forms : v5.forms[i] \in Web!Uploads
      /\ v5.kind = "update" => \A i \in DOMAIN v5.forms : v5.forms[i] \in Web!Updates
  BY DEF Web!RequestTyped
<1>6. Len(Web!Form.text) \in Nat
  BY <1>0, FormOf
<1>7. Web!RequestTyped'
  BY <1>1, <1>3, <1>4, <1>5, <1>6 DEF Web!RequestTyped, Web!Inside
<1> QED
  BY <1>3, <1>4, <1>7 DEF Web!Inside

\* A form has come to its end.
LEMMA ToNextForm ==
    ASSUME Web!RequestTyped, v5.form <= Len(v5.forms), v5' = Web!NextForm
    PROVE  /\ Web!RequestTyped' /\ ~Web!Inside'
           /\ v5'.kind = v5.kind /\ v5'.forms = v5.forms /\ v5'.form = v5.form + 1
           /\ v5'.failed <=> v5.failed
<1>1. v5 \in [kind : {"none", "files", "update"}, forms : Seq(Web!Uploads \cup Web!Updates), form : Nat \ {0},
                    at : Nat, phase : {"start", "write", "end"}, failed : BOOLEAN]
  BY DEF Web!RequestTyped
<1>2. v5' = [v5 EXCEPT !.phase = "start", !.form = v5.form + 1, !.at = 0]
  BY DEF Web!NextForm
<1>3. /\ v5' \in [kind : {"none", "files", "update"}, forms : Seq(Web!Uploads \cup Web!Updates), form : Nat \ {0},
                    at : Nat, phase : {"start", "write", "end"}, failed : BOOLEAN]
      /\ v5'.kind = v5.kind /\ v5'.forms = v5.forms /\ v5'.form = v5.form + 1 /\ v5'.at = 0 /\ v5'.phase = "start"
      /\ v5'.failed <=> v5.failed
  <2> DEFINE next == v5.form + 1
  <2>1. v5' = [v5 EXCEPT !.phase = "start", !.form = next, !.at = 0] /\ next \in Nat \ {0}
    BY <1>1, <1>2
  <2> HIDE DEF next
  <2>2. v5' = [kind |-> v5.kind, forms |-> v5.forms, form |-> next, at |-> 0, phase |-> "start", failed |-> v5.failed]
    BY <1>1, <2>1
  <2>3. v5' \in [kind : {"none", "files", "update"}, forms : Seq(Web!Uploads \cup Web!Updates), form : Nat \ {0},
                 at : Nat, phase : {"start", "write", "end"}, failed : BOOLEAN]
    BY <1>1, <2>1, <2>2
  <2> QED
    BY <2>2, <2>3 DEF next
<1>4. v5.kind # "none"
  BY DEF Web!RequestTyped, Web!NoRequest, Web!NewRequest
<1>5. /\ Len(v5.forms) \in Nat
      /\ v5.kind = "files" => \A i \in DOMAIN v5.forms : v5.forms[i] \in Web!Uploads
      /\ v5.kind = "update" => \A i \in DOMAIN v5.forms : v5.forms[i] \in Web!Updates
  BY <1>1 DEF Web!RequestTyped
<1>6. Web!RequestTyped'
  BY <1>1, <1>3, <1>4, <1>5 DEF Web!RequestTyped, Web!Inside
<1> QED
  BY <1>3, <1>6 DEF Web!Inside

\* The request is over.
LEMMA NoMore ==
    ASSUME v5' = Web!NoRequest
    PROVE  Web!RequestTyped' /\ ~Web!Inside' /\ v5'.kind = "none"
<1>1. <<>> \in Seq(Web!Uploads \cup Web!Updates)
  OBVIOUS
<1> HIDE DEF Web!Uploads, Web!Updates
<1> QED
  BY <1>1 DEF Web!NoRequest, Web!NewRequest, Web!RequestTyped, Web!Inside

\* What has been written of a form: nothing, one chunk more, all.
LEMMA SoFarGrows ==
    ASSUME Web!WebFilesAssumption, Web!RequestTyped, v5.form \in DOMAIN v5.forms
    PROVE  /\ v5'.at = 0 => Web!SoFar' = <<>>
           /\ v5.phase = "write" /\ v5'.at = v5.at + 1 /\ Web!Form' = Web!Form =>
                 Append(Web!SoFar, Web!Form.text[v5.at + 1]) = Web!SoFar'
           /\ v5.phase = "end" => Web!SoFar = Web!Form.text
<1>1. v5'.at = 0 => Web!SoFar' = <<>>
  BY DEF Web!SoFar
<1>2. ASSUME v5.phase = "write", v5'.at = v5.at + 1, Web!Form' = Web!Form
      PROVE  Append(Web!SoFar, Web!Form.text[v5.at + 1]) = Web!SoFar'
  <2>1. v5.at \in Nat
    BY DEF Web!RequestTyped
  <2>2. ASSUME NEW t, NEW n \in Nat
        PROVE  Append([i \in 1 .. n |-> t[i]], t[n + 1]) = [i \in 1 .. (n + 1) |-> t[i]]
    <3>1. Len([i \in 1 .. n |-> t[i]]) = n
      OBVIOUS
    <3> QED
      BY <3>1
  <2> QED
    BY <1>2, <2>1, <2>2 DEF Web!SoFar
<1>3. ASSUME v5.phase = "end" PROVE Web!SoFar = Web!Form.text
  <2> DEFINE t == Web!Form.text
  <2>1. t \in Seq({t[i] : i \in DOMAIN t}) /\ v5.at = Len(t)
    BY <1>3, FormOf DEF Web!RequestTyped, Web!WebFilesAssumption
  <2> DEFINE S == {t[i] : i \in DOMAIN t}
  <2>2. t \in Seq(S)
    BY <2>1
  <2> HIDE DEF S, t
  <2>3. t = [i \in 1 .. Len(t) |-> t[i]]
    BY <2>2
  <2> QED
    BY <2>1, <2>3 DEF t, Web!SoFar
<1> QED
  BY <1>1, <1>2, <1>3

\* An upload that fails takes its file with it.
LEMMA FailureKeeps ==
    ASSUME Web!WebFilesAssumption, Web!UploadsInv, v5.kind = "files", v5.form \in DOMAIN v5.forms,
           NEW next, Web!Failed(next), v5' = next => Web!RequestTyped' /\ v5'.kind = "files",
           v5' = next /\ Web!Inside' => Web!Form' = Web!Form,
           v3'.name = Web!Form.name, v8' \in {v8, v8 \ {Web!Form.name}},
           v10' \in {v10, FALSE}, UNCHANGED <<v6, v7, v9>>
    PROVE  Web!UploadsInv'
<1> USE DEF Web!UploadsInv
<1>1. /\ v4' = "FAILED" /\ v1' = [n \in DOMAIN v1 \ {Web!Form.name} |-> v1[n]]
      /\ v5' = Web!NoRequest \/ v5' = next
  BY DEF Web!Failed, Web!cancelUpload, Web!Without, Web!Restrict
<1>2. /\ Web!RequestTyped' /\ v5'.kind \in {"none", "files"}
      /\ Web!Inside' => v5' = next /\ v5'.kind = "files"
  BY <1>1, NoMore
<1>3. ~v7 /\ v9 = Web!NotTold
  BY DEF Web!SuccessTrue, Web!FormsDone
<1>4. \A n \in DOMAIN v1' \ v8' : v1'[n] \in FileTexts
  BY <1>1 DEF Web!FilesWhole
<1>5. Web!FilesWhole'
  BY <1>1, <1>2, <1>4 DEF Web!FilesWhole
<1>6. Web!FormsDone'
  BY <1>1, <1>3 DEF Web!FormsDone
<1>7. Web!ImageWhole'
  BY <1>1, <1>2 DEF Web!ImageWhole
<1>8. Web!SuccessTrue'
  BY <1>1, <1>3 DEF Web!SuccessTrue
<1>9. Web!LocalFilesTrue' /\ Web!WholeImageBoots'
  BY <1>3, <1>4 DEF Web!LocalFilesTrue, Web!WholeImageBoots, Web!NotTold
<1> QED
  BY <1>2, <1>5, <1>6, <1>7, <1>8, <1>9

\* An upload starts: with an empty file, or without.
LEMMA FileStartKeeps == ASSUME Web!WebFilesAssumption, Web!UploadsInv, Web!FileStart PROVE Web!UploadsInv'
<1> USE DEF Web!UploadsInv
<1>1. v5.kind = "files" /\ v5.phase = "start" /\ v5.form \in DOMAIN v5.forms
  BY DEF Web!FileStart, Web!Phase
<1>2. /\ v3'.name = Web!Form.name /\ v8' = v8 \ {Web!Form.name} /\ v10' = FALSE
      /\ UNCHANGED <<v6, v7, v9>>
  BY DEF Web!FileStart, Web!FilesWhole
<1>3. \/ v4' = "ONGOING" /\ v1' = Web!With(Web!Form.name, <<>>) /\ v5' = Web!GoOn("write")
      \/ Web!Failed(Web!GoOn("write"))
  BY DEF Web!FileStart
<1>4. ASSUME v5' = Web!GoOn("write"), v4' \in {"ONGOING", "FAILED"}
      PROVE  /\ Web!RequestTyped' /\ Web!Inside' /\ Web!Form' = Web!Form
             /\ v5'.kind = v5.kind /\ v5'.forms = v5.forms /\ v5'.form = v5.form /\ v5'.at = 0
             /\ v5'.failed <=> v5.failed \/ (v5.form > 1 /\ v4 = "FAILED")
  BY <1>1, <1>4, IntoForm
<1>5. CASE Web!Failed(Web!GoOn("write"))
  <2>1. v4' = "FAILED"
    BY <1>5 DEF Web!Failed
  <2> QED
    BY <1>1, <1>2, <1>4, <1>5, <2>1, FailureKeeps
<1>6. CASE v4' = "ONGOING" /\ v1' = Web!With(Web!Form.name, <<>>) /\ v5' = Web!GoOn("write")
  <2>1. /\ Web!RequestTyped' /\ Web!Inside' /\ Web!Form' = Web!Form
        /\ v5'.kind = "files" /\ v5'.forms = v5.forms /\ v5'.form = v5.form /\ v5'.at = 0
        /\ v5'.failed <=> v5.failed \/ (v5.form > 1 /\ v4 = "FAILED")
    BY <1>1, <1>4, <1>6
  <2>2. v1' = [n \in DOMAIN v1 \cup {Web!Form.name} |-> IF n = Web!Form.name THEN <<>> ELSE v1[n]]
    BY <1>6 DEF Web!With
  <2>3. Web!SoFar' = <<>>
    BY <1>1, <2>1, SoFarGrows
  <2>4. ~v7 /\ v9 = Web!NotTold /\ ~Web!Inside
    BY <1>1 DEF Web!SuccessTrue, Web!FormsDone, Web!Inside
  <2>5. Web!FilesWhole'
    BY <1>2, <1>6, <2>1, <2>2, <2>3, <2>4 DEF Web!FilesWhole
  <2>6. Web!FormsDone'
    <3>1. SUFFICES ASSUME ~v5'.failed, NEW i \in 1 .. (v5.form - 1),
                          \A j \in (i + 1) .. (v5.form - 1) : v5.forms[j].name # v5.forms[i].name,
                          Web!Form.name # v5.forms[i].name
                   PROVE  v5.forms[i].name \in DOMAIN v1' /\ v1'[v5.forms[i].name] = v5.forms[i].text
      BY <1>2, <2>1, <2>4 DEF Web!FormsDone
    <3>2. v5.form \in Nat /\ v5.form > 1 /\ ~v5.failed /\ v4 # "FAILED"
      BY <2>1, <3>1 DEF Web!RequestTyped
    <3>3. v5.forms[i].name \in DOMAIN v1 /\ v1[v5.forms[i].name] = v5.forms[i].text
      BY <1>1, <2>4, <3>1, <3>2 DEF Web!FormsDone
    <3> QED
      BY <2>2, <3>1, <3>3
  <2>7. Web!ImageWhole'
    BY <1>2, <2>1 DEF Web!ImageWhole
  <2>8. Web!SuccessTrue'
    BY <1>2, <1>6, <2>4 DEF Web!SuccessTrue
  <2>9. Web!LocalFilesTrue' /\ Web!WholeImageBoots'
    BY <1>2, <2>1, <2>4 DEF Web!LocalFilesTrue, Web!WholeImageBoots
  <2> QED
    BY <2>1, <2>5, <2>6, <2>7, <2>8, <2>9
<1> QED
  BY <1>3, <1>5, <1>6

\* A chunk goes to the end of the file, or with the file.
LEMMA FileWriteKeeps == ASSUME Web!WebFilesAssumption, Web!UploadsInv, Web!FileWrite PROVE Web!UploadsInv'
<1> USE DEF Web!UploadsInv
<1>1. /\ v5.kind = "files" /\ v5.phase = "write" /\ v5.form \in DOMAIN v5.forms /\ Web!Inside
      /\ UNCHANGED <<v2, v3, v6, v7, v8, v9, v10>>
  BY DEF Web!FileWrite, Web!Phase, Web!Inside
<1>2. v3.name = Web!Form.name
  BY <1>1 DEF Web!FilesWhole
<1>3. ASSUME v5' = Web!NextChunk, v4' \in {"ONGOING", "FAILED"}
      PROVE  /\ Web!RequestTyped' /\ Web!Inside' /\ Web!Form' = Web!Form
             /\ v5'.kind = v5.kind /\ v5'.forms = v5.forms /\ v5'.form = v5.form /\ v5'.at = v5.at + 1
             /\ v5'.failed <=> v5.failed
  BY <1>1, <1>3, ToNextChunk
<1>4. CASE Web!Failed(Web!NextChunk)
  <2>1. v4' = "FAILED"
    BY <1>4 DEF Web!Failed
  <2> QED
    BY <1>1, <1>2, <1>3, <1>4, <2>1, FailureKeeps
<1>5. CASE /\ v4 # "FAILED" /\ v4' = v4 /\ v5' = Web!NextChunk
           /\ v1' = [v1 EXCEPT ![Web!Form.name] = Append(v1[Web!Form.name], Web!Form.text[v5.at + 1])]
  <2>1. v4 = "ONGOING" /\ v4' = "ONGOING"
    BY <1>1, <1>5 DEF Web!RequestTyped
  <2>2. /\ Web!RequestTyped' /\ Web!Inside' /\ Web!Form' = Web!Form
        /\ v5'.kind = "files" /\ v5'.forms = v5.forms /\ v5'.form = v5.form /\ v5'.at = v5.at + 1
        /\ v5'.failed <=> v5.failed
    BY <1>1, <1>3, <1>5, <2>1
  <2>3. Append(Web!SoFar, Web!Form.text[v5.at + 1]) = Web!SoFar'
    BY <1>1, <2>2, SoFarGrows
  <2>4. Web!Form.name \in DOMAIN v1 /\ v1[Web!Form.name] = Web!SoFar
    BY <1>1, <2>1 DEF Web!FilesWhole
  <2>5. v1' = [v1 EXCEPT ![Web!Form.name] = Web!SoFar']
    BY <1>5, <2>3, <2>4
  <2>6. /\ DOMAIN v1' = DOMAIN v1 /\ v1' = [n \in DOMAIN v1' |-> v1'[n]] /\ v1'[Web!Form.name] = Web!SoFar'
        /\ \A n \in DOMAIN v1 \ {Web!Form.name} : v1'[n] = v1[n]
    BY <2>4, <2>5
  <2>7. Web!FilesWhole'
    BY <1>1, <1>2, <2>1, <2>2, <2>4, <2>6 DEF Web!FilesWhole
  <2>8. ~v7 /\ v9 = Web!NotTold
    BY <1>1 DEF Web!SuccessTrue, Web!FormsDone
  <2>9. Web!FormsDone'
    <3>1. SUFFICES ASSUME ~v5'.failed, NEW i \in 1 .. (v5.form - 1),
                          \A j \in (i + 1) .. (v5.form - 1) : v5.forms[j].name # v5.forms[i].name,
                          Web!Form.name # v5.forms[i].name
                   PROVE  v5.forms[i].name \in DOMAIN v1' /\ v1'[v5.forms[i].name] = v5.forms[i].text
      BY <1>1, <2>2, <2>8 DEF Web!FormsDone
    <3>2. v5.forms[i].name \in DOMAIN v1 /\ v1[v5.forms[i].name] = v5.forms[i].text
      BY <1>1, <2>1, <2>2, <3>1 DEF Web!FormsDone
    <3> QED
      BY <2>6, <3>1, <3>2
  <2>10. Web!ImageWhole' /\ Web!SuccessTrue'
    BY <1>1, <2>1, <2>2, <2>8 DEF Web!ImageWhole, Web!SuccessTrue
  <2>11. Web!LocalFilesTrue' /\ Web!WholeImageBoots'
    BY <1>1, <2>2, <2>8 DEF Web!LocalFilesTrue, Web!WholeImageBoots
  <2> QED
    BY <2>2, <2>7, <2>9, <2>10, <2>11
<1> QED
  BY <1>4, <1>5 DEF Web!FileWrite

\* A form that came whole has its file.
LEMMA FileEndKeeps == ASSUME Web!WebFilesAssumption, Web!UploadsInv, Web!FileEnd PROVE Web!UploadsInv'
<1> USE DEF Web!UploadsInv
<1>1. /\ v5.kind = "files" /\ v5.phase = "end" /\ v5.form \in DOMAIN v5.forms /\ Web!Inside
      /\ UNCHANGED <<v2, v6, v7, v8, v9, v10>>
  BY DEF Web!FileEnd, Web!Phase, Web!Inside
<1>2. v3'.name = Web!Form.name
  BY <1>1 DEF Web!FileEnd, Web!FilesWhole
<1>3. v5.form <= Len(v5.forms) /\ v5.form \in Nat \ {0}
  BY <1>1 DEF Web!RequestTyped
<1>4. v5' = Web!NextForm =>
         /\ Web!RequestTyped' /\ ~Web!Inside'
         /\ v5'.kind = v5.kind /\ v5'.forms = v5.forms /\ v5'.form = v5.form + 1
         /\ v5'.failed <=> v5.failed
  BY <1>3, ToNextForm
<1>5. CASE Web!Failed(Web!NextForm)
  BY <1>1, <1>2, <1>4, <1>5, FailureKeeps
<1>6. CASE v4 # "FAILED" /\ v4' = "SUCCESSFUL" /\ v5' = Web!NextForm /\ v1' = v1
  <2>1. v4 = "ONGOING"
    BY <1>1, <1>6 DEF Web!RequestTyped
  <2>2. /\ Web!RequestTyped' /\ ~Web!Inside'
        /\ v5'.kind = "files" /\ v5'.forms = v5.forms /\ v5'.form = v5.form + 1
        /\ v5'.failed <=> v5.failed
    BY <1>1, <1>4, <1>6
  <2>3. Web!SoFar = Web!Form.text /\ Web!Form.text \in FileTexts
    BY <1>1, SoFarGrows, FormOf DEF Web!Uploads
  <2>4. Web!Form.name \in DOMAIN v1 /\ v1[Web!Form.name] = Web!Form.text
    BY <1>1, <2>1, <2>3 DEF Web!FilesWhole
  <2>5. Web!FilesWhole'
    BY <1>1, <1>6, <2>2, <2>3, <2>4 DEF Web!FilesWhole
  <2>6. ~v7 /\ v9 = Web!NotTold
    BY <1>1 DEF Web!SuccessTrue, Web!FormsDone
  <2>7. Web!FormsDone'
    <3>1. SUFFICES ASSUME ~v5'.failed, NEW i \in 1 .. v5.form,
                          \A j \in (i + 1) .. v5.form : v5.forms[j].name # v5.forms[i].name
                   PROVE  v5.forms[i].name \in DOMAIN v1 /\ v1[v5.forms[i].name] = v5.forms[i].text
      BY <1>1, <1>3, <1>6, <2>2, <2>6 DEF Web!FormsDone
    <3>2. CASE i = v5.form
      BY <2>4, <3>2 DEF Web!Form
    <3>3. CASE i # v5.form
      <4>1. i \in 1 .. (v5.form - 1) /\ v5.form \in (i + 1) .. v5.form
        BY <1>3, <3>3
      <4>2. \A j \in (i + 1) .. (v5.form - 1) : v5.forms[j].name # v5.forms[i].name
        BY <1>3, <3>1
      <4>3. Web!Form.name # v5.forms[i].name
        BY <3>1, <4>1 DEF Web!Form
      <4> QED
        BY <1>1, <2>1, <2>2, <3>1, <4>1, <4>2, <4>3 DEF Web!FormsDone
    <3> QED
      BY <3>2, <3>3
  <2>8. Web!ImageWhole' /\ Web!SuccessTrue'
    BY <1>1, <1>6, <2>2, <2>6 DEF Web!ImageWhole, Web!SuccessTrue
  <2>9. Web!LocalFilesTrue' /\ Web!WholeImageBoots'
    BY <1>1, <2>2, <2>6 DEF Web!LocalFilesTrue, Web!WholeImageBoots
  <2> QED
    BY <2>2, <2>5, <2>7, <2>8, <2>9
<1> QED
  BY <1>5, <1>6 DEF Web!FileEnd

\* A connection that breaks leaves the file of a form that went on.
LEMMA FileAbortedKeeps == ASSUME Web!UploadsInv, Web!FileAborted PROVE Web!UploadsInv'
<1> USE DEF Web!UploadsInv
<1>1. /\ v5.kind = "files" /\ Web!Inside /\ v4' = "FAILED" /\ v5' = Web!NoRequest
      /\ UNCHANGED <<v2, v3, v6, v7, v9, v10>>
  BY DEF Web!FileAborted, Web!Inside
<1>2. v3.name = Web!Form.name /\ v4 \in {"ONGOING", "FAILED"}
  BY <1>1 DEF Web!FilesWhole, Web!RequestTyped
<1>3. \/ v1' = [n \in DOMAIN v1 \ {Web!Form.name} |-> v1[n]] /\ v8' = v8
      \/ v1' = v1 /\ v8' = v8 \cup {Web!Form.name}
  BY <1>2 DEF Web!FileAborted, Web!Without, Web!Restrict
<1>4. v1' = [n \in DOMAIN v1' |-> v1'[n]] /\ \A n \in DOMAIN v1' \ v8' : v1'[n] \in FileTexts
  BY <1>3 DEF Web!FilesWhole
<1>5. Web!RequestTyped' /\ ~Web!Inside' /\ v5'.kind = "none"
  BY <1>1, NoMore
<1>6. ~v7 /\ v9 = Web!NotTold
  BY <1>1 DEF Web!SuccessTrue, Web!FormsDone
<1>7. Web!FilesWhole' /\ Web!FormsDone'
  BY <1>4, <1>5 DEF Web!FilesWhole, Web!FormsDone
<1>8. Web!ImageWhole' /\ Web!SuccessTrue'
  BY <1>1, <1>5, <1>6 DEF Web!ImageWhole, Web!SuccessTrue
<1>9. Web!LocalFilesTrue' /\ Web!WholeImageBoots'
  BY <1>1, <1>4, <1>6 DEF Web!LocalFilesTrue, Web!WholeImageBoots, Web!NotTold
<1> QED
  BY <1>5, <1>7, <1>8, <1>9

\* A request that breaks between forms has answered nothing.
LEMMA DroppedKeeps == ASSUME Web!UploadsInv, Web!Dropped PROVE Web!UploadsInv'
<1> USE DEF Web!UploadsInv
<1>1. /\ v5.kind # "none" /\ ~Web!Inside /\ v5' = Web!NoRequest /\ v10' = (v4 = "SUCCESSFUL")
      /\ UNCHANGED <<v1, v2, v3, v4, v6, v7, v8, v9>>
  BY DEF Web!Dropped, Web!Inside
<1>5. Web!RequestTyped' /\ ~Web!Inside' /\ v5'.kind = "none"
  BY <1>1, NoMore
<1>6. ~v7 /\ v9 = Web!NotTold
  BY <1>1 DEF Web!SuccessTrue, Web!FormsDone
<1>7. Web!FilesWhole' /\ Web!FormsDone'
  BY <1>1, <1>5 DEF Web!FilesWhole, Web!FormsDone
<1>8. Web!ImageWhole' /\ Web!SuccessTrue'
  BY <1>1, <1>5, <1>6 DEF Web!ImageWhole, Web!SuccessTrue
<1>9. Web!LocalFilesTrue' /\ Web!WholeImageBoots'
  BY <1>1, <1>6 DEF Web!LocalFilesTrue, Web!WholeImageBoots, Web!NotTold, Web!FilesWhole
<1> QED
  BY <1>5, <1>7, <1>8, <1>9

\* The answer Ok is true.
LEMMA FileListKeeps == ASSUME Web!UploadsInv, Web!handleFileList PROVE Web!UploadsInv'
<1> USE DEF Web!UploadsInv
<1>1. /\ v5.kind = "files" /\ v5.form > Len(v5.forms) /\ v5' = Web!NoRequest /\ v4' = "NONE" /\ ~v10'
      /\ v9' = [answer |-> Web!Answer(v4), forms |-> v5.forms, failed |-> v5.failed]
      /\ UNCHANGED <<v2, v3, v6, v7>>
  BY DEF Web!handleFileList, Web!Final
<1>2. PICK names \in SUBSET DOMAIN v1 :
        /\ v1' = [n \in DOMAIN v1 \ names |-> v1[n]] /\ v8' = v8 \ names
        /\ names = {} \/ v5.forms = <<>>
  BY DEF Web!handleFileList, Web!Without, Web!Restrict
<1>3. ~Web!Inside /\ v5.forms \in Seq(Web!Uploads \cup Web!Updates) /\ v5.form = Len(v5.forms) + 1
  BY <1>1 DEF Web!RequestTyped, Web!Inside
<1>4. v1' = [n \in DOMAIN v1' |-> v1'[n]] /\ \A n \in DOMAIN v1' \ v8' : v1'[n] \in FileTexts
  BY <1>2, <1>3 DEF Web!FilesWhole
<1>5. Web!RequestTyped' /\ ~Web!Inside' /\ v5'.kind = "none"
  BY <1>1, NoMore
<1>6. ~v7
  BY <1>1 DEF Web!SuccessTrue
<1>7. Web!FilesWhole' /\ Web!FormsDone'
  BY <1>4, <1>5 DEF Web!FilesWhole, Web!FormsDone
<1>8. Web!ImageWhole' /\ Web!SuccessTrue'
  BY <1>1, <1>5, <1>6 DEF Web!ImageWhole, Web!SuccessTrue
<1>9. ASSUME v9'.answer = "Ok", ~v9'.failed, NEW i \in DOMAIN v5.forms,
             \A j \in DOMAIN v5.forms : j > i => v5.forms[j].name # v5.forms[i].name
      PROVE  v5.forms[i].name \in DOMAIN v1' /\ v1'[v5.forms[i].name] = v5.forms[i].text
  <2>0. Web!Answer(v4) = "Ok" /\ ~v5.failed
    BY <1>1, <1>9
  <2>1. v4 # "FAILED"
    BY <2>0, Zenon DEF Web!Answer
  <2>2. DOMAIN v5.forms = 1 .. (v5.form - 1) /\ v5.form - 1 \in Nat
    BY <1>3
  <2>3. i \in 1 .. (v5.form - 1) /\ \A j \in (i + 1) .. (v5.form - 1) : v5.forms[j].name # v5.forms[i].name
    BY <1>9, <2>2
  <2>4. v5.forms[i].name \in DOMAIN v1 /\ v1[v5.forms[i].name] = v5.forms[i].text
    BY <1>1, <1>3, <2>0, <2>1, <2>3 DEF Web!FormsDone
  <2>5. names = {}
    BY <1>2, <2>3, <1>9
  <2> QED
    BY <1>2, <2>4, <2>5
<1>10. Web!LocalFilesTrue' /\ Web!WholeImageBoots'
  <2>1. v9'.forms = v5.forms
    BY <1>1
  <2> QED
    BY <1>1, <1>4, <1>6, <1>9, <2>1 DEF Web!LocalFilesTrue, Web!WholeImageBoots
<1> QED
  BY <1>5, <1>7, <1>8, <1>10

\* No file is touched, and none is being uploaded.
LEMMA FilesStay ==
    ASSUME Web!UploadsInv, UNCHANGED <<v1, v8>>, v5.kind # "files" \/ ~Web!Inside,
           v5'.kind # "files" \/ (~Web!Inside' /\ v5'.form = 1),
           v5'.kind # "none" => v9' = Web!NotTold
    PROVE  Web!FilesWhole' /\ Web!FormsDone'
<1> QED
  BY DEF Web!UploadsInv, Web!FilesWhole, Web!FormsDone

\* An update that fails is given up.
LEMMA UpdateFailureKeeps ==
    ASSUME Web!WebFilesAssumption, Web!UploadsInv, v5.kind = "update", v5.form \in DOMAIN v5.forms,
           NEW next, Web!UpdateFailed(next), v5' = next => Web!RequestTyped' /\ v5'.kind = "update",
           v10' \in {v10, FALSE}, UNCHANGED <<v1, v7, v8, v9>>
    PROVE  Web!UploadsInv'
<1> USE DEF Web!UploadsInv
<1>1. /\ v4' = "FAILED" /\ v6' = [v6 EXCEPT !.update = Web!NoUpdate]
      /\ v5' = Web!NoRequest \/ v5' = next
  BY DEF Web!UpdateFailed, Web!cancelUpload
<1>2. Web!RequestTyped' /\ v5'.kind \in {"none", "update"}
  BY <1>1, NoMore
<1>3. ~v7 /\ v9 = Web!NotTold
  BY DEF Web!SuccessTrue, Web!FormsDone
<1>4. Web!FilesWhole' /\ Web!FormsDone'
  BY <1>2, <1>3, FilesStay
<1>5. v6'.runs = v6.runs /\ v6'.next = v6.next /\ Web!ImageWhole'
  BY <1>1 DEF Web!ImageWhole, Web!NoUpdate
<1>6. Web!SuccessTrue'
  BY <1>1, <1>3 DEF Web!SuccessTrue
<1>7. Web!LocalFilesTrue' /\ Web!WholeImageBoots'
  BY <1>3, <1>4, <1>5 DEF Web!LocalFilesTrue, Web!WholeImageBoots, Web!NotTold, Web!FilesWhole, Web!ImageWhole
<1> QED
  BY <1>2, <1>4, <1>5, <1>6, <1>7

\* An update starts from nothing written.
LEMMA UpdateStartKeeps == ASSUME Web!WebFilesAssumption, Web!UploadsInv, Web!UpdateStart PROVE Web!UploadsInv'
<1> USE DEF Web!UploadsInv
<1>1. /\ v5.kind = "update" /\ v5.phase = "start" /\ v5.form \in DOMAIN v5.forms /\ v10' = FALSE
      /\ UNCHANGED <<v1, v2, v7, v8, v9>>
  BY DEF Web!UpdateStart, Web!Phase
<1>2. ASSUME v5' = Web!GoOn("write"), v4' \in {"ONGOING", "FAILED"}
      PROVE  /\ Web!RequestTyped' /\ Web!Form' = Web!Form
             /\ v5'.kind = v5.kind /\ v5'.forms = v5.forms /\ v5'.form = v5.form /\ v5'.at = 0
  BY <1>1, <1>2, IntoForm
<1>3. CASE Web!UpdateFailed(Web!GoOn("write"))
  <2>1. v4' = "FAILED"
    BY <1>3 DEF Web!UpdateFailed
  <2> QED
    BY <1>1, <1>2, <1>3, <2>1, UpdateFailureKeeps
<1>4. CASE /\ ~v6.update.running
           /\ v4' = "ONGOING" /\ v6' = [v6 EXCEPT !.update.running = TRUE] /\ v5' = Web!GoOn("write")
  <2>1. Web!RequestTyped' /\ v5'.kind = "update" /\ v5'.at = 0
    BY <1>1, <1>2, <1>4
  <2>2. ~v7 /\ v9 = Web!NotTold
    BY <1>1 DEF Web!SuccessTrue, Web!FormsDone
  <2>3. Web!FilesWhole' /\ Web!FormsDone'
    BY <1>1, <2>1, <2>2, FilesStay
  <2>4. Web!SoFar' = <<>>
    BY <1>1, <2>1, SoFarGrows
  <2>5. v6'.runs = v6.runs /\ v6'.next = v6.next /\ Web!ImageWhole'
    BY <1>4, <2>4 DEF Web!ImageWhole
  <2>6. Web!SuccessTrue'
    BY <1>1, <1>4, <2>2 DEF Web!SuccessTrue
  <2>7. Web!LocalFilesTrue' /\ Web!WholeImageBoots'
    BY <1>1, <2>1, <2>2, <2>5 DEF Web!LocalFilesTrue, Web!WholeImageBoots, Web!ImageWhole
  <2> QED
    BY <2>1, <2>3, <2>5, <2>6, <2>7
<1> QED
  BY <1>3, <1>4 DEF Web!UpdateStart

\* A chunk goes to the end of the image, or the update is given up.
LEMMA UpdateWriteKeeps == ASSUME Web!WebFilesAssumption, Web!UploadsInv, Web!UpdateWrite PROVE Web!UploadsInv'
<1> USE DEF Web!UploadsInv
<1>1. /\ v5.kind = "update" /\ v5.phase = "write" /\ v5.form \in DOMAIN v5.forms /\ Web!Inside
      /\ UNCHANGED <<v1, v2, v3, v7, v8, v9, v10>>
  BY DEF Web!UpdateWrite, Web!Phase, Web!Inside
<1>2. ASSUME v5' = Web!NextChunk, v4' \in {"ONGOING", "FAILED"}
      PROVE  /\ Web!RequestTyped' /\ Web!Form' = Web!Form
             /\ v5'.kind = v5.kind /\ v5'.forms = v5.forms /\ v5'.form = v5.form /\ v5'.at = v5.at + 1
  BY <1>1, <1>2, ToNextChunk
<1>3. CASE Web!UpdateFailed(Web!NextChunk)
  <2>1. v4' = "FAILED"
    BY <1>3 DEF Web!UpdateFailed
  <2> QED
    BY <1>1, <1>2, <1>3, <2>1, UpdateFailureKeeps
<1>4. CASE /\ v4 # "FAILED" /\ v4' = v4 /\ v5' = Web!NextChunk
           /\ v6' = [v6 EXCEPT !.update = Web!WrittenOn]
  <2>1. v4 = "ONGOING" /\ v4' = "ONGOING"
    BY <1>1, <1>4 DEF Web!RequestTyped
  <2>2. /\ Web!RequestTyped' /\ v5'.kind = "update" /\ v5'.at = v5.at + 1 /\ Web!Form' = Web!Form
    BY <1>1, <1>2, <1>4, <2>1
  <2>3. ~v7 /\ v9 = Web!NotTold
    BY <1>1 DEF Web!SuccessTrue, Web!FormsDone
  <2>4. Web!FilesWhole' /\ Web!FormsDone'
    BY <1>1, <2>2, <2>3, FilesStay
  <2>5. v6.update.written = Web!SoFar /\ Append(Web!SoFar, Web!Form.text[v5.at + 1]) = Web!SoFar'
    BY <1>1, <2>1, <2>2, SoFarGrows DEF Web!ImageWhole
  <2>7. v6'.runs = v6.runs /\ v6'.next = v6.next /\ Web!ImageWhole'
    <3>1. /\ v6.update.running
          /\ v6.update = [running |-> v6.update.running, written |-> v6.update.written]
          /\ v6 = [update |-> v6.update, runs |-> v6.runs, next |-> v6.next]
      BY <1>1, <2>1 DEF Web!ImageWhole
    <3>2. Web!WrittenOn = [v6.update EXCEPT !.written = Web!SoFar']
      BY <2>5 DEF Web!WrittenOn
    <3>3. /\ Web!WrittenOn.running <=> v6.update.running
          /\ Web!WrittenOn.written = Web!SoFar'
          /\ Web!WrittenOn = [running |-> Web!WrittenOn.running, written |-> Web!WrittenOn.written]
      BY <3>1, <3>2
    <3>4. /\ v6'.update = Web!WrittenOn /\ v6'.runs = v6.runs /\ v6'.next = v6.next
          /\ v6' = [update |-> v6'.update, runs |-> v6'.runs, next |-> v6'.next]
      BY <1>4, <3>1
    <3> QED
      BY <3>1, <3>3, <3>4 DEF Web!ImageWhole
  <2>8. Web!SuccessTrue'
    BY <1>1, <2>1, <2>3 DEF Web!SuccessTrue
  <2>9. Web!LocalFilesTrue' /\ Web!WholeImageBoots'
    BY <1>1, <2>2, <2>3, <2>7 DEF Web!LocalFilesTrue, Web!WholeImageBoots, Web!ImageWhole
  <2> QED
    BY <2>2, <2>4, <2>7, <2>8, <2>9
<1> QED
  BY <1>3, <1>4 DEF Web!UpdateWrite, Web!WriteResult, Web!UpdateFailed

\* The image that is complete boots next.
LEMMA UpdateEndKeeps == ASSUME Web!WebFilesAssumption, Web!UploadsInv, Web!UpdateEnd PROVE Web!UploadsInv'
<1> USE DEF Web!UploadsInv
<1>1. /\ v5.kind = "update" /\ v5.phase = "end" /\ v5.form \in DOMAIN v5.forms /\ Web!Inside
      /\ UNCHANGED <<v1, v2, v3, v7, v8, v9, v10>>
  BY DEF Web!UpdateEnd, Web!Phase, Web!Inside
<1>2. v5.form <= Len(v5.forms) /\ v5.form \in Nat \ {0}
  BY <1>1 DEF Web!RequestTyped
<1>3. v5' = Web!NextForm =>
         /\ Web!RequestTyped' /\ ~Web!Inside'
         /\ v5'.kind = v5.kind /\ v5'.forms = v5.forms /\ v5'.form = v5.form + 1
  BY <1>2, ToNextForm
<1>4. CASE Web!UpdateFailed(Web!NextForm)
  BY <1>1, <1>3, <1>4, UpdateFailureKeeps
<1>5. CASE /\ v4 # "FAILED" /\ v4' = "SUCCESSFUL" /\ v5' = Web!NextForm
           /\ v6' = [v6 EXCEPT !.update = Web!NoUpdate, !.next = v6.update.written]
  <2>1. v4 = "ONGOING"
    BY <1>1, <1>5 DEF Web!RequestTyped
  <2>2. /\ Web!RequestTyped' /\ ~Web!Inside'
        /\ v5'.kind = "update" /\ v5'.forms = v5.forms /\ v5'.form = v5.form + 1
    BY <1>1, <1>3, <1>5
  <2>3. ~v7 /\ v9 = Web!NotTold
    BY <1>1 DEF Web!SuccessTrue, Web!FormsDone
  <2>4. Web!FilesWhole' /\ Web!FormsDone'
    BY <1>1, <2>2, <2>3, FilesStay
  <2>5. v6.update.written = Web!Form.text /\ Web!Form.text \in Images
    BY <1>1, <2>1, SoFarGrows, FormOf DEF Web!ImageWhole, Web!Updates
  <2>6. /\ v6'.update = Web!NoUpdate /\ v6'.runs = v6.runs /\ v6'.next = Web!Form.text
        /\ v6' = [update |-> v6'.update, runs |-> v6'.runs, next |-> v6'.next]
    BY <1>5, <2>5 DEF Web!ImageWhole
  <2>7. Web!ImageWhole'
    BY <2>2, <2>6 DEF Web!ImageWhole, Web!NoUpdate
  <2>8. Web!SuccessTrue'
    BY <1>1, <1>2, <1>5, <2>2, <2>3, <2>6 DEF Web!SuccessTrue, Web!Form
  <2>9. Web!LocalFilesTrue' /\ Web!WholeImageBoots'
    BY <1>1, <2>2, <2>3, <2>5, <2>6 DEF Web!LocalFilesTrue, Web!WholeImageBoots
  <2> QED
    BY <2>2, <2>4, <2>7, <2>8, <2>9
<1> QED
  BY <1>4, <1>5 DEF Web!UpdateEnd

\* A connection that breaks leaves the image that boots.
LEMMA UpdateAbortedKeeps == ASSUME Web!UploadsInv, Web!UpdateAborted PROVE Web!UploadsInv'
<1> USE DEF Web!UploadsInv
<1>1. /\ v5.kind = "update" /\ Web!Inside /\ v4' = "FAILED" /\ v5' = Web!NoRequest
      /\ v6' \in {v6, [v6 EXCEPT !.update = Web!NoUpdate]}
      /\ UNCHANGED <<v1, v2, v3, v7, v8, v9, v10>>
  BY DEF Web!UpdateAborted, Web!Inside
<1>2. Web!RequestTyped' /\ ~Web!Inside' /\ v5'.kind = "none"
  BY <1>1, NoMore
<1>3. ~v7 /\ v9 = Web!NotTold
  BY <1>1 DEF Web!SuccessTrue, Web!FormsDone
<1>4. Web!FilesWhole' /\ Web!FormsDone'
  BY <1>1, <1>2, <1>3, FilesStay
<1>5. v6'.runs = v6.runs /\ v6'.next = v6.next /\ Web!ImageWhole'
  BY <1>1, <1>2 DEF Web!ImageWhole, Web!NoUpdate
<1>6. Web!SuccessTrue'
  BY <1>1, <1>3 DEF Web!SuccessTrue
<1>7. Web!LocalFilesTrue' /\ Web!WholeImageBoots'
  BY <1>1, <1>3, <1>4, <1>5 DEF Web!LocalFilesTrue, Web!WholeImageBoots, Web!NotTold, Web!FilesWhole, Web!ImageWhole
<1> QED
  BY <1>2, <1>4, <1>5, <1>6, <1>7

\* The restart after success is for the image of the last form.
LEMMA UpdateAnswerKeeps == ASSUME Web!UploadsInv, Web!handleUpdate PROVE Web!UploadsInv'
<1> USE DEF Web!UploadsInv
<1>1. /\ v5.kind = "update" /\ v5.form > Len(v5.forms) /\ v5' = Web!NoRequest
      /\ v7' = (v4 = "SUCCESSFUL") /\ v4' = (IF v4 = "SUCCESSFUL" THEN v4 ELSE "NONE")
      /\ v9' = [answer |-> v4, forms |-> v5.forms, failed |-> v5.failed]
      /\ UNCHANGED <<v1, v2, v3, v6, v8, v10>>
  BY DEF Web!handleUpdate, Web!Final
<1>2. ~Web!Inside /\ v5.forms \in Seq(Web!Uploads \cup Web!Updates) /\ v5.form = Len(v5.forms) + 1
  BY <1>1 DEF Web!RequestTyped, Web!Inside
<1>3. Web!RequestTyped' /\ ~Web!Inside' /\ v5'.kind = "none"
  BY <1>1, NoMore
<1>4. Web!FilesWhole' /\ Web!FormsDone'
  BY <1>1, <1>2, <1>3, FilesStay
<1>5. Web!ImageWhole'
  BY <1>1, <1>3 DEF Web!ImageWhole
<1>6. Web!SuccessTrue'
  BY <1>1, <1>3 DEF Web!SuccessTrue
<1>7. Web!LocalFilesTrue'
  <2>1. \A n \in DOMAIN v1 \ v8 : v1[n] \in FileTexts
    BY <1>1 DEF Web!FilesWhole
  <2>2. v9'.answer # "Ok"
    BY <1>1 DEF Web!SuccessTrue
  <2> QED
    BY <1>1, <2>1, <2>2 DEF Web!LocalFilesTrue
<1>8. Web!WholeImageBoots'
  <2>1. ASSUME v7', v9'.answer = "SUCCESSFUL", ~v10
        PROVE  v5.forms # <<>> /\ \E i \in DOMAIN v5.forms : v6.next = v5.forms[i].text
    <3>1. v5.form > 1 /\ v6.next = v5.forms[v5.form - 1].text
      BY <1>1, <2>1 DEF Web!SuccessTrue
    <3> QED
      BY <1>2, <3>1
  <2> QED
    BY <1>1, <2>1 DEF Web!WholeImageBoots
<1> QED
  BY <1>3, <1>4, <1>5, <1>6, <1>7, <1>8

\* A request begins.
LEMMA RequestKeeps == ASSUME Web!WebFilesAssumption, Web!UploadsInv, Web!Request PROVE Web!UploadsInv'
<1> USE DEF Web!UploadsInv
<1>1. /\ v5.kind = "none" /\ ~v7 /\ v9' = Web!NotTold
      /\ UNCHANGED <<v1, v2, v3, v4, v6, v7, v8, v10>>
  BY DEF Web!Request, Web!Command, Web!Served
<1>2. \/ \E n \in 0 .. MaxForms : \E forms \in [1 .. n -> Web!Uploads] : v5' = Web!NewRequest("files", forms)
      \/ \E n \in 0 .. 1 : \E forms \in [1 .. n -> Web!Updates] : v5' = Web!NewRequest("update", forms)
  BY DEF Web!Request
<1>3. /\ v5' = Web!NewRequest(v5'.kind, v5'.forms)
      /\ v5'.kind \in {"files", "update"}
      /\ v5'.kind = "files" => \E n \in Nat : v5'.forms \in [1 .. n -> Web!Uploads]
      /\ v5'.kind = "update" => \E n \in Nat : v5'.forms \in [1 .. n -> Web!Updates]
  <2>1. 0 .. MaxForms \subseteq Nat /\ 0 .. 1 \subseteq Nat
    BY DEF Web!WebFilesAssumption
  <2>2. ASSUME NEW k, NEW f, v5' = Web!NewRequest(k, f)
        PROVE  v5'.kind = k /\ v5'.forms = f
    BY <2>2 DEF Web!NewRequest
  <2>3. CASE \E n \in 0 .. MaxForms : \E forms \in [1 .. n -> Web!Uploads] : v5' = Web!NewRequest("files", forms)
    BY <2>1, <2>2, <2>3
  <2>4. CASE \E n \in 0 .. 1 : \E forms \in [1 .. n -> Web!Updates] : v5' = Web!NewRequest("update", forms)
    BY <2>1, <2>2, <2>4
  <2> QED
    BY <1>2, <2>3, <2>4
<1>4. v5'.form = 1 /\ v5'.kind # "none" /\ ~Web!Inside'
  BY <1>3 DEF Web!Inside, Web!NewRequest
<1>5. v5'.forms \in Seq(Web!Uploads \cup Web!Updates)
  <2> DEFINE S == Web!Uploads \cup Web!Updates
  <2>1. PICK n \in Nat : v5'.forms \in [1 .. n -> S]
    BY <1>3
  <2> HIDE DEF S
  <2>2. v5'.forms \in Seq(S)
    BY <2>1
  <2> QED
    BY <2>2 DEF S
<1>6. Web!RequestTyped'
  <2>1. /\ v5'.kind = "files" => \A i \in DOMAIN v5'.forms : v5'.forms[i] \in Web!Uploads
        /\ v5'.kind = "update" => \A i \in DOMAIN v5'.forms : v5'.forms[i] \in Web!Updates
        /\ Len(v5'.forms) \in Nat
    BY <1>3, <1>5
  <2>2. v5' \in [kind : {"none", "files", "update"}, forms : Seq(Web!Uploads \cup Web!Updates), form : Nat \ {0},
                 at : Nat, phase : {"start", "write", "end"}, failed : BOOLEAN]
    <3> DEFINE k == v5'.kind
               f == v5'.forms
               F == Seq(Web!Uploads \cup Web!Updates)
    <3>1. /\ v5' = [kind |-> k, forms |-> f, form |-> 1, at |-> 0, phase |-> "start", failed |-> FALSE]
          /\ k \in {"none", "files", "update"} /\ f \in F
      BY <1>3, <1>5 DEF Web!NewRequest
    <3> HIDE DEF k, f, F
    <3>2. v5' \in [kind : {"none", "files", "update"}, forms : F, form : Nat \ {0},
                   at : Nat, phase : {"start", "write", "end"}, failed : BOOLEAN]
      BY ONLY <3>1
    <3> QED
      BY <3>2 DEF F
  <2>3. v5'.form = 1 /\ v5'.at = 0 /\ v5'.phase = "start"
    BY <1>3 DEF Web!NewRequest
  <2> QED
    BY <1>3, <1>4, <2>1, <2>2, <2>3 DEF Web!RequestTyped
<1>7. Web!FilesWhole' /\ Web!FormsDone'
  BY <1>1, <1>4, FilesStay
<1>8. Web!ImageWhole' /\ Web!SuccessTrue'
  BY <1>1, <1>4 DEF Web!ImageWhole, Web!SuccessTrue
<1>9. Web!LocalFilesTrue' /\ Web!WholeImageBoots'
  BY <1>1, <1>4 DEF Web!LocalFilesTrue, Web!WholeImageBoots
<1> QED
  BY <1>6, <1>7, <1>8, <1>9

\* Between requests files go, come whole, or stay; and so does the image.
LEMMA CommandKeeps ==
    ASSUME Web!WebFilesAssumption, Web!UploadsInv, Web!Delete \/ Web!OverTheAir \/ Web!restart_ESP
    PROVE  Web!UploadsInv'
<1> USE DEF Web!UploadsInv
<1>1. v5.kind = "none" /\ v5 = Web!NoRequest /\ v5' = v5 /\ ~v7 /\ v9' = Web!NotTold /\ v4' = v4 /\ v10' = v10
  BY DEF Web!Delete, Web!OverTheAir, Web!restart_ESP, Web!Command, Web!Served, Web!RequestTyped
<1>2. Web!RequestTyped' /\ ~Web!Inside' /\ v5'.kind = "none"
  BY <1>1, NoMore
<1>3. v1' = [n \in DOMAIN v1' |-> v1'[n]] /\ \A n \in DOMAIN v1' \ v8' : v1'[n] \in FileTexts
  <2>1. v1 = [n \in DOMAIN v1 |-> v1[n]] /\ \A n \in DOMAIN v1 \ v8 : v1[n] \in FileTexts
    BY <1>1 DEF Web!FilesWhole
  <2>2. CASE Web!Delete
    BY <2>1, <2>2 DEF Web!Delete, Web!Without, Web!Restrict
  <2>3. CASE Web!OverTheAir
    <3>1. CASE Web!OverwritePart
      <4>1. PICK whole \in SUBSET DOMAIN v1, torn \in SUBSET FileNames :
               /\ v1' = [n \in whole \cup torn |-> IF n \in torn THEN <<>> ELSE v1[n]]
               /\ v8' = (v8 \cap whole) \cup torn
        BY <3>1 DEF Web!OverwritePart
      <4>2. DOMAIN v1' = whole \cup torn /\ v1' = [n \in DOMAIN v1' |-> v1'[n]]
        BY ONLY <4>1
      <4>3. ASSUME NEW n \in DOMAIN v1' \ v8'  PROVE v1'[n] = v1[n] /\ n \in DOMAIN v1 \ v8
        BY ONLY <4>1, <4>2, <4>3
      <4> QED
        BY <2>1, <4>2, <4>3
    <3>2. CASE \E n \in FileNames, t \in FileTexts : v1' = [m \in {n} |-> t]
      BY <3>2
    <3>3. CASE UNCHANGED <<v1, v8>>
      BY <2>1, <3>3
    <3> QED
      BY <2>3, <3>1, <3>2, <3>3 DEF Web!OverTheAir
  <2>4. CASE Web!restart_ESP
    BY <2>1, <2>4 DEF Web!restart_ESP
  <2> QED
    BY <2>2, <2>3, <2>4
<1>4. Web!FilesWhole' /\ Web!FormsDone'
  BY <1>2, <1>3 DEF Web!FilesWhole, Web!FormsDone
<1>5. /\ {v6'.runs, v6'.next} \subseteq Images
      /\ v6' = [update |-> v6'.update, runs |-> v6'.runs, next |-> v6'.next]
      /\ v6'.update = [running |-> v6'.update.running, written |-> v6'.update.written]
      /\ ~v6'.update.running => v6'.update.written = <<>>
  <2>1. CASE v6' = v6
    BY <2>1 DEF Web!ImageWhole, Web!WholeImageBoots
  <2>2. CASE ~v6.update.running /\ Web!LeftRunning
    BY <2>2 DEF Web!LeftRunning, Web!ImageWhole, Web!WholeImageBoots
  <2>3. CASE \E i \in Images : v6' = [v6 EXCEPT !.next = i]
    BY <2>3 DEF Web!ImageWhole, Web!WholeImageBoots
  <2> QED
    BY <2>1, <2>2, <2>3 DEF Web!Delete, Web!OverTheAir, Web!restart_ESP
<1>6. Web!ImageWhole'
  BY <1>2, <1>5 DEF Web!ImageWhole
<1>7. Web!SuccessTrue'
  BY <1>1, <1>2 DEF Web!SuccessTrue
<1>8. Web!LocalFilesTrue' /\ Web!WholeImageBoots'
  BY <1>1, <1>3, <1>5 DEF Web!LocalFilesTrue, Web!WholeImageBoots, Web!NotTold
<1> QED
  BY <1>2, <1>4, <1>6, <1>7, <1>8

\* The program starts again, and the file of an upload that went on stays as it is.
LEMMA AgainKeeps == ASSUME Web!UploadsInv, Web!Again PROVE Web!UploadsInv'
<1> USE DEF Web!UploadsInv
<1>1. /\ v4' = "NONE" /\ v5' = Web!NoRequest /\ ~v7' /\ v9' = Web!NotTold /\ ~v10' /\ v1' = v1
      /\ v6' = [v6 EXCEPT !.update = Web!NoUpdate, !.runs = v6.next]
      /\ v8' = IF v5.kind = "files" /\ v4 = "ONGOING" THEN v8 \cup {v3.name} ELSE v8
  BY DEF Web!Again
<1>2. Web!RequestTyped' /\ ~Web!Inside' /\ v5'.kind = "none"
  BY <1>1, NoMore
<1>3. v1' = [n \in DOMAIN v1' |-> v1'[n]] /\ \A n \in DOMAIN v1' \ v8' : v1'[n] \in FileTexts
  BY <1>1 DEF Web!FilesWhole, Web!RequestTyped
<1>4. Web!FilesWhole' /\ Web!FormsDone'
  BY <1>2, <1>3 DEF Web!FilesWhole, Web!FormsDone
<1>5. /\ {v6'.runs, v6'.next} \subseteq Images /\ v6'.update = Web!NoUpdate
      /\ v6' = [update |-> v6'.update, runs |-> v6'.runs, next |-> v6'.next]
  BY <1>1 DEF Web!ImageWhole, Web!WholeImageBoots
<1>6. Web!ImageWhole' /\ Web!SuccessTrue'
  BY <1>1, <1>2, <1>5 DEF Web!ImageWhole, Web!SuccessTrue, Web!NoUpdate
<1>7. Web!LocalFilesTrue' /\ Web!WholeImageBoots'
  BY <1>1, <1>3, <1>5 DEF Web!LocalFilesTrue, Web!WholeImageBoots, Web!NotTold
<1> QED
  BY <1>2, <1>4, <1>6, <1>7

\* Every step of uploads and updates keeps their invariant.
LEMMA UploadsStep == ASSUME Web!WebFilesAssumption, Web!UploadsInv, Web!Next PROVE Web!UploadsInv'
<1>1. CASE Web!Request
  BY <1>1, RequestKeeps
<1>2. CASE Web!FileStart \/ Web!FileWrite \/ Web!FileEnd \/ Web!FileAborted \/ Web!handleFileList
  BY <1>2, FileStartKeeps, FileWriteKeeps, FileEndKeeps, FileAbortedKeeps, FileListKeeps
<1>3. CASE Web!UpdateStart \/ Web!UpdateWrite \/ Web!UpdateEnd \/ Web!UpdateAborted \/ Web!handleUpdate
  BY <1>3, UpdateStartKeeps, UpdateWriteKeeps, UpdateEndKeeps, UpdateAbortedKeeps, UpdateAnswerKeeps
<1>4. CASE Web!Dropped
  BY <1>4, DroppedKeeps
<1>5. CASE Web!Delete \/ Web!OverTheAir \/ Web!restart_ESP
  BY <1>5, CommandKeeps
<1>6. CASE Web!Restart \/ Web!PowerLost \/ Web!Panic
  BY <1>6, AgainKeeps DEF Web!Restart, Web!PowerLost, Web!Panic
<1> QED
  BY <1>1, <1>2, <1>3, <1>4, <1>5, <1>6 DEF Web!Next

\* At first there are whole files and one image.
LEMMA UploadsBegin == ASSUME Web!Init PROVE Web!UploadsInv
<1> USE DEF Web!UploadsInv
<1>1. v5 = Web!NoRequest /\ v4 = "NONE" /\ ~v7 /\ v9 = Web!NotTold /\ v8 = {}
  BY DEF Web!Init
<1>2. Web!RequestTyped /\ ~Web!Inside /\ v5.kind = "none"
  <2>1. <<>> \in Seq(Web!Uploads \cup Web!Updates)
    OBVIOUS
  <2> HIDE DEF Web!Uploads, Web!Updates
  <2> QED
    BY <1>1, <2>1 DEF Web!NoRequest, Web!NewRequest, Web!RequestTyped, Web!Inside
<1>3. v1 = [n \in DOMAIN v1 |-> v1[n]] /\ \A n \in DOMAIN v1 : v1[n] \in FileTexts
  BY DEF Web!Init
<1>4. PICK i \in Images : v6 = [update |-> Web!NoUpdate, runs |-> i, next |-> i]
  BY DEF Web!Init
<1>5. Web!FilesWhole /\ Web!FormsDone /\ Web!SuccessTrue
  BY <1>1, <1>2, <1>3 DEF Web!FilesWhole, Web!FormsDone, Web!SuccessTrue
<1>6. Web!ImageWhole
  BY <1>2, <1>4 DEF Web!ImageWhole, Web!NoUpdate
<1>7. Web!LocalFilesTrue /\ Web!WholeImageBoots
  BY <1>1, <1>3, <1>4 DEF Web!LocalFilesTrue, Web!WholeImageBoots, Web!NotTold
<1> QED
  BY <1>2, <1>5, <1>6, <1>7

\* Uploads and updates, whatever fails.
LEMMA UploadsInvariant == PartsSpec => [](part = "files" => Web!UploadsInv)
<1> DEFINE Inv == part = "files" => Web!UploadsInv
<1>1. PartsInit => Inv
  BY UploadsBegin DEF PartsInit
<1>2. Inv /\ [PartsNext]_<<part, v1, v2, v3, v4, v5, v6, v7, v8, v9, v10, v11, v12, v13,
                               v14, v15, v16, v17, v18, v19>>
        => Inv'
  <2> SUFFICES ASSUME Inv, part' = "files",
                      \/ PartsNext
                      \/ UNCHANGED <<part, v1, v2, v3, v4, v5, v6, v7, v8, v9, v10, v11, v12, v13, v14, v15, v16, v17,
                                     v18, v19>>
               PROVE  Web!UploadsInv'
    OBVIOUS
  <2>1. CASE PartsNext
    BY <2>1, UploadsStep, PartsAssumption DEF PartsNext
  <2>2. CASE UNCHANGED <<part, v1, v2, v3, v4, v5, v6, v7, v8, v9, v10, v11, v12, v13, v14, v15, v16, v17, v18, v19>>
    <3>1. Web!Form' = Web!Form /\ Web!Inside' = Web!Inside
      BY <2>2 DEF Web!Form, Web!Inside
    <3>2. Web!SoFar' = Web!SoFar
      BY <2>2, <3>1 DEF Web!SoFar
    <3> QED
      BY <2>2, <3>1, <3>2 DEF Web!UploadsInv, Web!RequestTyped, Web!FilesWhole, Web!FormsDone, Web!ImageWhole,
                              Web!SuccessTrue, Web!LocalFilesTrue, Web!WholeImageBoots
  <2> QED
    BY <2>1, <2>2
<1> HIDE DEF Inv
<1>3. PartsSpec => []Inv
  BY <1>1, <1>2, PTL DEF PartsSpec
<1> QED
  BY <1>3 DEF Inv

\* Uploaded files and firmware are whole, an answer of success is true, and a restart
\* for an update has an image to run.
THEOREM UploadsAlwaysWhole == PartsSpec => []UploadsWhole
<1>1. (part = "files" => Web!UploadsInv) => UploadsWhole
  BY DEF UploadsWhole, Web!UploadsInv
<1> QED
  BY <1>1, UploadsInvariant, PTL

-----------------------------------------------------------------------------
(* The input bus: pins known and switches heeded, for all pins, samples and *)
(* interleavings.  A pin that is not exempt is known as it was sampled or   *)
(* is among those the task has still to call.                               *)

\* At the start no pin is attached and none was sampled.
LEMMA InputBusBegins == ASSUME Input!InputsAssumption, Input!Init PROVE Input!InputBusInv
<1> USE DEF Input!Init, Input!Inputs, Input!BusPins, Input!Limits
<1>1. Input!InputTyped
  BY DEF Input!InputTyped, Input!Idler, Input!NoPin, Input!Handlers, Input!Programs
<1>2. Input!AttachedInOrder /\ Input!HandlerPlaced
  BY DEF Input!AttachedInOrder, Input!HandlerPlaced, Input!Idler
<1>3. Input!PinsKnown /\ Input!RiskAnswered
  BY DEF Input!PinsKnown, Input!RiskAnswered, Input!Told
<1> QED
  BY <1>1, <1>2, <1>3 DEF Input!InputBusInv

\* What is at a pin and what was sampled of it, after a step.
LEMMA PinsRead ==
    ASSUME Input!InputTyped, v1' = v1, v2' = v2
    PROVE  /\ \A p \in Input!Inputs : Input!Active(p)' <=> Input!Active(p)
           /\ v3' = v3 => \A p \in Input!Inputs : Input!Read(p)' <=> Input!Read(p)
<1> QED
  BY DEF Input!InputTyped, Input!Active, Input!Read, Input!Low

\* A sample is what is at the pins; the rest has not changed.
LEMMA Sampled ==
    ASSUME Input!InputTyped, v1' = v1, v2' = v2, Input!ReadBus
    PROVE  /\ Input!Running /\ v4'
           /\ v3' \in [Input!BusPins -> BOOLEAN]
           /\ \A p \in Input!BusPins : (Input!Read(p)' <=> Input!Active(p)) /\ v3'[p] = v2[p]
           /\ \A p \in Input!BusPins \ Input!Changed : v4 /\ (Input!Read(p)' <=> Input!Read(p))
           /\ \A p \in GpioPins \ Input!BusPins : Input!Read(p)' <=> Input!Read(p)
<1> USE DEF Input!InputTyped, Input!Active, Input!Read, Input!Low, Input!ReadBus, Input!Frame, Input!Changed,
         Input!Inputs, Input!BusPins
<1>1. Input!Running /\ v4' /\ v3' = [p \in Input!BusPins |-> v2[p]]
  OBVIOUS
<1>2. v3' \in [Input!BusPins -> BOOLEAN]
  BY <1>1
<1>3. \A p \in Input!BusPins : (Input!Read(p)' <=> Input!Active(p)) /\ v3'[p] = v2[p]
  BY <1>1
<1>4. \A p \in Input!BusPins \ Input!Changed : v4 /\ (Input!Read(p)' <=> Input!Read(p))
  BY <1>1
<1>5. \A p \in GpioPins \ Input!BusPins : Input!Read(p)' <=> Input!Read(p)
  BY <1>1
<1> QED
  BY <1>1, <1>2, <1>3, <1>4, <1>5

\* An input that changes: only that one is read differently, a bus pin not before
\* the next sample.
LEMMA Flipped ==
    ASSUME Input!InputTyped, NEW q \in Input!Inputs, Input!Change(q)
    PROVE  /\ Input!Running /\ v2' \in [Input!Inputs -> BOOLEAN]
           /\ Input!Active(q)' <=> ~Input!Active(q)
           /\ \A p \in Input!Inputs \ {q} : v2'[p] = v2[p] /\ (Input!Active(p)' <=> Input!Active(p))
           /\ \A p \in Input!BusPins : Input!Read(p)' <=> Input!Read(p)
           /\ \A p \in Input!Inputs \ Input!BusPins : Input!Read(p)' <=> Input!Active(p)'
<1> USE DEF Input!InputTyped, Input!Active, Input!Read, Input!Low, Input!Change, Input!Inputs, Input!BusPins,
         Input!bus
<1>1. Input!Running /\ v2' = [v2 EXCEPT ![q] = ~v2[q]] /\ v1' = v1 /\ v3' = v3
  OBVIOUS
<1>2. v2' \in [Input!Inputs -> BOOLEAN] /\ \A p \in Input!Inputs \ {q} : v2'[p] = v2[p]
  BY <1>1
<1>3. v2'[q] = ~v2[q]
  BY <1>1
<1>4. Input!Active(q)' <=> ~Input!Active(q)
  BY <1>1, <1>3
<1> QED
  BY <1>1, <1>2, <1>4

\* Whether the last sample of a pin is what is at it.
LEMMA AsSampled ==
    ASSUME Input!InputTyped, NEW p \in Input!BusPins
    PROVE  v3[p] = v2[p] <=> (Input!Read(p) <=> Input!Active(p))
<1> QED
  BY DEF Input!InputTyped, Input!Active, Input!Read, Input!Inputs, Input!BusPins

\* The task goes on to the next pin, or is done.
LEMMA NextPlaced == ASSUME Input!InputTyped, Input!NextPin PROVE v7' \in Input!Handlers /\ Input!HandlerPlaced'
<1> DEFINE later == v7.todo \ {Input!Now}
<1>1. v7' = IF later = {} THEN Input!Idler ELSE [Input!Idler EXCEPT !.at = "pins", !.todo = later]
  BY DEF Input!NextPin, Input!Later
<1>2. later \subseteq Input!BusPins
  BY DEF Input!InputTyped, Input!Handlers
<1> HIDE DEF later
<1> QED
  BY ONLY <1>1, <1>2 DEF Input!Idler, Input!Handlers, Input!HandlerPlaced

\* Types and places are kept by every step.
LEMMA BusTyped == ASSUME Input!InputsAssumption, Input!InputTyped, Input!AttachedInOrder, Input!HandlerPlaced,
   Input!Next
                   PROVE  Input!InputTyped' /\ Input!AttachedInOrder' /\ Input!HandlerPlaced'
<1> USE DEF Input!InputTyped, Input!AttachedInOrder, Input!HandlerPlaced, Input!Handlers, Input!Programs,
         Input!Now, Input!Later, Input!Idler, Input!NextPin, Input!AtPin, Input!Running, Input!Panic, Input!Go,
         Input!Waiting, Input!Attached, Input!Interrupt, Input!bus, Input!pins, Input!machine, Input!Inputs,
         Input!BusPins, Input!Limits
<1>1. CASE Input!i2s_in_intr_handler
  BY <1>1 DEF Input!i2s_in_intr_handler, Input!ReadBus, Input!Frame, Input!Called, Input!Changed
<1>2. CASE Input!shiftInTask
  <2> DEFINE todo == IF v5 \cap Input!BusPins = {} THEN {} ELSE Input!Changed
  <2>1. v7' = IF todo = {} THEN Input!Idler ELSE [Input!Idler EXCEPT !.at = "pins", !.todo = todo]
    BY <1>2 DEF Input!shiftInTask
  <2>2. todo \subseteq Input!BusPins
    BY DEF Input!Changed
  <2>3. UNCHANGED <<v2, v5, v6, Input!pins, Input!machine, v14>>
    BY <1>2 DEF Input!shiftInTask
  <2>4. v3' \in [Input!BusPins -> BOOLEAN] /\ v4' \in BOOLEAN
    BY <1>2 DEF Input!shiftInTask, Input!ReadBus, Input!Frame
  <2> HIDE DEF todo
  <2>5. v7' \in Input!Handlers /\ Input!HandlerPlaced'
    BY ONLY <2>1, <2>2 DEF Input!Idler, Input!Handlers, Input!HandlerPlaced
  <2> QED
    BY <2>3, <2>4, <2>5
<1>3. CASE Input!SkipPin
  BY <1>3 DEF Input!SkipPin
<1>4. CASE Input!CallNull
  BY <1>4 DEF Input!CallNull
<1>5. CASE Input!CallControl
  BY <1>5 DEF Input!CallControl
<1>6. CASE Input!CallLimit
  <2>1. /\ v7' = [v7 EXCEPT !.at = "write", !.copy = v8]
        /\ Input!Min(v7.todo) \in v6 \cap Input!Limits
    BY <1>6 DEF Input!CallLimit
  <2>2. /\ v7'.at = "write" /\ v7'.todo = v7.todo
        /\ v7' \in Input!Handlers
    BY ONLY <2>1, Input!InputTyped
  <2>3. Input!Now' = Input!Now
    BY ONLY <2>2 DEF Input!Now
  <2>4. Input!HandlerPlaced'
    BY <1>6, <2>1, <2>2, <2>3 DEF Input!CallLimit
  <2> QED
    BY <1>6, <2>2, <2>4 DEF Input!CallLimit
<1>7. CASE Input!WriteLimit
  <2>1. CASE Input!Read(Input!Now)
    <3>1. v7' = [v7 EXCEPT !.at = "test"] /\ Input!Min(v7.todo) \in v6 \cap Input!Limits
      BY <1>7, <2>1 DEF Input!WriteLimit
    <3>2. /\ v7'.at = "test" /\ v7'.todo = v7.todo
          /\ v7' \in Input!Handlers
      BY ONLY <3>1, Input!InputTyped
    <3>3. Input!Now' = Input!Now
      BY ONLY <3>2 DEF Input!Now
    <3>4. v8' \subseteq Input!Limits
      BY <1>7, <2>1, <3>1 DEF Input!WriteLimit
    <3> QED
      BY ONLY <1>7, <3>1, <3>2, <3>3, <3>4, Input!InputTyped, Input!AttachedInOrder
         DEF Input!WriteLimit, Input!InputTyped, Input!AttachedInOrder, Input!HandlerPlaced, Input!machine
  <2>2. CASE ~Input!Read(Input!Now)
    <3>1. v8' \subseteq Input!Limits
      BY <1>7, <2>2 DEF Input!WriteLimit
    <3> QED
      BY ONLY <1>7, <2>2, <3>1, NextPlaced, Input!InputTyped, Input!AttachedInOrder
         DEF Input!WriteLimit, Input!InputTyped, Input!AttachedInOrder, Input!machine
  <2> QED
    BY <2>1, <2>2
<1>8. CASE Input!TestLimit
  <2>1. CASE ~Input!Unalarmed
    BY ONLY <1>8, <2>1, NextPlaced, Input!InputTyped, Input!AttachedInOrder
       DEF Input!TestLimit, Input!InputTyped, Input!AttachedInOrder, Input!machine, Input!pins
  <2>2. CASE Input!Unalarmed
    <3>1. v7' = [v7 EXCEPT !.at = "alarm"] /\ Input!Min(v7.todo) \in v6 \cap Input!Limits
      BY <1>8, <2>2 DEF Input!TestLimit
    <3>2. /\ v7'.at = "alarm" /\ v7'.todo = v7.todo
          /\ v7' \in Input!Handlers
      BY ONLY <3>1, Input!InputTyped
    <3>3. Input!Now' = Input!Now
      BY ONLY <3>2 DEF Input!Now
    <3> QED
      BY <1>8, <2>2, <3>1, <3>2, <3>3 DEF Input!TestLimit
  <2> QED
    BY <2>1, <2>2
<1>9. CASE Input!RaiseAlarm
  BY <1>9 DEF Input!RaiseAlarm
<1>10. CASE Input!SetPin
  BY <1>10 DEF Input!SetPin
<1>11. CASE Input!ClearEvent
  BY <1>11 DEF Input!ClearEvent
<1>12. CASE Input!ReadPin
  <2>1. v14.pin \in Input!BusPins
    BY <1>12 DEF Input!ReadPin
  <2>2. Input!Read(v14.pin) \in BOOLEAN
    BY <2>1 DEF Input!Read
  <2> QED
    BY <1>12, <2>2 DEF Input!ReadPin
<1>13. CASE Input!StorePin
  BY <1>13 DEF Input!StorePin
<1>14. CASE Input!InitControl
  BY <1>14 DEF Input!InitControl
<1>15. CASE Input!InitState
  BY <1>15 DEF Input!InitState
<1>16. CASE Input!InitSpindle
  BY <1>16 DEF Input!InitSpindle
<1>17. CASE Input!run_once
  BY <1>17 DEF Input!run_once
<1>18. CASE Input!CheckLimits
  BY <1>18 DEF Input!CheckLimits
<1>19. CASE Input!protocol_do_alarm
  BY <1>19 DEF Input!protocol_do_alarm
<1>20. CASE Input!EndAlarm
  BY <1>20 DEF Input!EndAlarm
<1>21. CASE Input!HandleReset
  BY <1>21 DEF Input!HandleReset
<1>22. CASE Input!Unlock
  BY <1>22 DEF Input!Unlock
<1>23. CASE Input!UserReset
  BY <1>23 DEF Input!UserReset
<1>24. CASE Input!Move
  BY <1>24 DEF Input!Move
<1>25. CASE Input!Rest
  BY <1>25 DEF Input!Rest
<1>26. ASSUME NEW p \in Input!Inputs,
   Input!Attach(p) PROVE Input!InputTyped' /\ Input!AttachedInOrder' /\ Input!HandlerPlaced'
  <2>1. CASE p \in GpioPins
    BY <1>26, <2>1 DEF Input!Attach
  <2>2. CASE p \notin GpioPins
    <3>1. /\ v14' = [v14 EXCEPT !.at = "pin", !.pin = p] /\ p \in Input!BusPins /\ v5' = v5 \cup {p}
          /\ (v14.at = "axes" /\ p \in Input!Limits) \/ (v14.at = "control" /\ p \in ControlPins)
      BY <1>26, <2>2 DEF Input!Attach
    <3>2. v14'.at = "pin" /\ v14'.pin = p /\ v14'.value \in BOOLEAN
      BY <3>1
    <3>3. v14' \in Input!Programs
      BY <3>1
    <3> QED
      BY <1>26, <3>1, <3>2, <3>3 DEF Input!Attach, Input!InputsAssumption
  <2> QED
    BY <2>1, <2>2
<1>27. ASSUME NEW p \in Input!BusPins,
   Input!ChangeBusPin(p) PROVE Input!InputTyped' /\ Input!AttachedInOrder' /\ Input!HandlerPlaced'
  BY <1>27, Flipped DEF Input!ChangeBusPin, Input!Change
<1>28. ASSUME NEW p \in GpioPins,
   Input!ChangeGpioPin(p) PROVE Input!InputTyped' /\ Input!AttachedInOrder' /\ Input!HandlerPlaced'
  BY <1>28, Flipped DEF Input!ChangeGpioPin, Input!Change
<1> QED
  BY <1>1, <1>2, <1>3, <1>4, <1>5, <1>6, <1>7, <1>8, <1>9, <1>10, <1>11, <1>12, <1>13, <1>14, <1>15, <1>16, <1>17,
     <1>18, <1>19, <1>20, <1>21, <1>22, <1>23, <1>24, <1>25, <1>26, <1>27, <1>28 DEF Input!Next, Input!ShiftIn,
        Input!Boot, Input!Loop, Input!Outside

\* Steps that leave the masks, the samples and what is exempt alone.
LEMMA KnownKept ==
    ASSUME Input!InputTyped, Input!PinsKnown, UNCHANGED <<v1, v2, v3, v4, v8, v9>>,
           v5 \subseteq v5', v15 \subseteq v15', v16 \subseteq v16', Input!Pending \subseteq Input!Pending'
    PROVE  Input!PinsKnown'
<1>1. \A p \in Input!Inputs : Input!Read(p)' <=> Input!Read(p)
  BY PinsRead
<1> QED
  BY ONLY <1>1, Input!PinsKnown, UNCHANGED <<v4, v8, v9>>, v5 \subseteq v5', v15 \subseteq v15',
          v16 \subseteq v16', Input!Pending \subseteq Input!Pending' DEF Input!PinsKnown, Input!Told

\* A callback of the task or of the processor leaves a pin known.
LEMMA KnownByCall ==
    ASSUME Input!InputTyped, Input!PinsKnown, UNCHANGED <<v1, v3, v4>>, v5 \subseteq v5',
           NEW q \in v5, Input!Read(q)' <=> q \in (v8 \cup v9)', 
           \A p \in Input!Inputs \ {q} :
               /\ Input!Read(p)' <=> Input!Read(p)
               /\ p \in Input!Pending => p \in Input!Pending'
               /\ p \in v15 => p \in v15'
               /\ p \in v16 => p \in v16'
               /\ p \in v16' \/ (p \in v8 \cup v9 <=> p \in (v8 \cup v9)')
    PROVE  Input!PinsKnown'
<1> SUFFICES ASSUME NEW p \in Input!Told'
             PROVE  \/ p \in Input!Pending'
                    \/ p \in Input!BusPins /\ ~v4'
                    \/ p \in v5' /\ (Input!Read(p)' <=> p \in (v8 \cup v9)')
  BY DEF Input!PinsKnown
<1>1. CASE p = q
  BY <1>1
<1>2. CASE p # q
  <2>1. /\ p \in Input!Inputs \ {q} /\ p \notin v15' /\ p \notin v16' /\ p \notin v15 /\ p \notin v16
        /\ Input!Read(p)' <=> Input!Read(p)
        /\ p \in v8 \cup v9 <=> p \in (v8 \cup v9)'
        /\ p \in Input!Pending => p \in Input!Pending'
    BY <1>2 DEF Input!Told
  <2>2. \/ p \in Input!Pending
        \/ p \in Input!BusPins /\ ~v4
        \/ p \in v5 /\ (Input!Read(p) <=> p \in v8 \cup v9)
    BY <2>1 DEF Input!PinsKnown, Input!Told
  <2> QED
    BY ONLY <2>1, <2>2, v4' = v4, v5 \subseteq v5'
<1> QED
  BY <1>1, <1>2


\* Nothing happens after a panic.
LEMMA NextRuns == ASSUME Input!Next PROVE Input!Running
<1> USE DEF Input!Running, Input!AtPin, Input!Waiting
<1>1. CASE Input!i2s_in_intr_handler \/ Input!ShiftIn
  BY <1>1 DEF Input!i2s_in_intr_handler, Input!ShiftIn, Input!ReadBus, Input!shiftInTask, Input!SkipPin,
     Input!CallNull, Input!CallControl, Input!CallLimit,
              Input!WriteLimit, Input!TestLimit, Input!RaiseAlarm
<1>2. CASE Input!Boot
  <2>1. \/ v14.at = "axes" \/ v14.at = "control" \/ v14.at = "pin" \/ v14.at = "clear" \/ v14.at = "read"
        \/ v14.at = "store" \/ v14.at = "state"
    <3>1. ASSUME NEW p \in Input!Inputs, Input!Attach(p)
          PROVE  v14.at = "axes" \/ v14.at = "control"
      BY <3>1 DEF Input!Attach
    <3> QED
      BY <1>2, <3>1 DEF Input!Boot, Input!SetPin, Input!ClearEvent, Input!ReadPin, Input!StorePin,
         Input!InitControl, Input!InitState, Input!InitSpindle
  <2> QED
    BY <2>1
<1>4. CASE Input!Loop
  BY <1>4 DEF Input!Loop, Input!run_once, Input!CheckLimits, Input!protocol_do_alarm, Input!EndAlarm,
     Input!HandleReset
<1>3. CASE Input!Outside
  BY <1>3 DEF Input!Outside, Input!Unlock, Input!UserReset, Input!Move, Input!Rest, Input!ChangeBusPin,
     Input!ChangeGpioPin, Input!Change
<1> QED
  BY <1>1, <1>2, <1>3, <1>4 DEF Input!Next

\* What is known stays known: only the exempt pins may differ.
LEMMA PinsStayKnown ==
    ASSUME Input!InputsAssumption, Input!InputTyped, Input!AttachedInOrder, Input!HandlerPlaced, Input!PinsKnown,
       Input!Next, Input!Running'
    PROVE  Input!PinsKnown'
<1>0. Input!Running
  BY NextRuns
<1> USE DEF Input!pins, Input!machine, Input!bus
<1>1. CASE Input!i2s_in_intr_handler
  <2> USE <1>1 DEF Input!i2s_in_intr_handler
  <2>1. Input!ReadBus /\ UNCHANGED <<v1, v2, v5, v6, v7>>
    OBVIOUS
  <2>2. Input!Interrupt(Input!Called,
     {p \in Input!Called : Input!Active(p)}) /\ v15' = (v15 \cup Input!Changed) \ Input!Called
    BY Input!Running' DEF Input!Panic, Input!Running, Input!InputTyped, Input!Programs
  <2>3. \A p \in Input!BusPins : Input!Read(p)' <=> Input!Active(p)
    BY <2>1, Sampled
  <2>4. \A p \in Input!BusPins \ Input!Changed : v4 /\ (Input!Read(p)' <=> Input!Read(p))
    BY <2>1, Sampled
  <2>5. \A p \in GpioPins \ Input!BusPins : Input!Read(p)' <=> Input!Read(p)
    BY <2>1, Sampled
  <2>6. Input!Pending' = Input!Pending /\ v4'
    BY <2>1, Sampled DEF Input!Pending, Input!Later, Input!Now
  <2>7. /\ v8' = (v8 \ Input!Called) \cup ({p \in Input!Called : Input!Active(p)} \cap Input!Limits)
        /\ v9' = (v9 \ Input!Called) \cup ({p \in Input!Called : Input!Active(p)} \cap ControlPins)
        /\ v16' = v16 \ Input!Called
    BY <2>2 DEF Input!Interrupt
  <2>8. SUFFICES ASSUME NEW p \in Input!Told'
                 PROVE  p \in Input!Pending' \/ (p \in v5' /\ (Input!Read(p)' <=> p \in (v8 \cup v9)'))
    BY DEF Input!PinsKnown
  <2>9. p \in Input!Inputs /\ p \notin v15' /\ p \notin v16'
    BY <2>8 DEF Input!Told
  <2>10. CASE p \in Input!Called
    <3>1. p \in Input!BusPins /\ p \in v5
      BY <2>10 DEF Input!Called, Input!Changed
    <3>2. p \in (v8 \cup v9)' <=> Input!Active(p)
      BY <2>7, <2>10, <3>1 DEF Input!Limits, Input!BusPins
    <3> QED
      BY <2>1, <2>3, <3>1, <3>2
  <2>11. CASE p \notin Input!Called
    <3>1. p \notin Input!Changed /\ p \in Input!Told
      BY <2>2, <2>7, <2>9, <2>11 DEF Input!Told
    <3>2. Input!Read(p)' <=> Input!Read(p)
      BY <2>4, <2>5, <2>9, <3>1 DEF Input!Inputs
    <3>3. p \in (v8 \cup v9)' <=> p \in v8 \cup v9
      BY <2>7, <2>11
    <3>4. ~(p \in Input!BusPins /\ ~v4)
      BY <2>4, <3>1
    <3> QED
      BY <2>1, <2>6, <3>1, <3>2, <3>3, <3>4 DEF Input!PinsKnown
  <2> QED
    BY <2>10, <2>11
<1>2. CASE Input!shiftInTask
  <2> USE <1>2 DEF Input!shiftInTask
  <2> DEFINE todo == IF v5 \cap Input!BusPins = {} THEN {} ELSE Input!Changed
  <2>1. Input!ReadBus /\ UNCHANGED <<v1, v2, v5, v6, v8, v9, v16>> /\ v7.at = "idle"
    OBVIOUS
  <2>2. v7' = (IF todo = {} THEN Input!Idler ELSE [Input!Idler EXCEPT !.at = "pins", !.todo = todo])
    OBVIOUS
  <2>3. v15' = (v15 \cup Input!Changed) \ todo
    OBVIOUS
  <2> HIDE <1>2 DEF todo
  <2>4. Input!Pending' = todo
    BY <2>2 DEF Input!Pending, Input!Idler
  <2>5. \A p \in Input!BusPins \ Input!Changed : v4 /\ (Input!Read(p)' <=> Input!Read(p))
    BY <2>1, Sampled
  <2>6. \A p \in GpioPins \ Input!BusPins : Input!Read(p)' <=> Input!Read(p)
    BY <2>1, Sampled
  <2>7. Input!Pending = {}
    BY <2>1 DEF Input!HandlerPlaced, Input!Pending
  <2>8. SUFFICES ASSUME NEW p \in Input!Told', p \notin Input!Pending'
                 PROVE  p \in v5' /\ (Input!Read(p)' <=> p \in (v8 \cup v9)')
    BY DEF Input!PinsKnown
  <2>9. p \in Input!Told /\ p \notin Input!Changed
    BY <2>1, <2>3, <2>4, <2>8 DEF Input!Told
  <2>10. Input!Read(p)' <=> Input!Read(p)
    BY <2>5, <2>6, <2>9 DEF Input!Told, Input!Inputs
  <2>11. ~(p \in Input!BusPins /\ ~v4)
    BY <2>5, <2>9
  <2> QED
    BY <2>1, <2>7, <2>9, <2>10, <2>11 DEF Input!PinsKnown
<1>3. CASE Input!SkipPin
  <2>1. /\ UNCHANGED <<v1, v2, v3, v4, v5, v8, v9, v16>> /\ Input!NextPin
        /\ v15' = v15 \cup {Input!Now} /\ v7.at = "pins"
    BY <1>3 DEF Input!SkipPin, Input!AtPin
  <2>2. Input!Pending = v7.todo /\ Input!Pending' = Input!Later
    BY <2>1 DEF Input!NextPin, Input!Pending, Input!Idler
  <2>3. SUFFICES ASSUME NEW p \in Input!Told'
                 PROVE  \/ p \in Input!Pending'
                        \/ p \in Input!BusPins /\ ~v4
                        \/ p \in v5 /\ (Input!Read(p)' <=> p \in v8 \cup v9)
    BY <2>1 DEF Input!PinsKnown
  <2>4. p \in Input!Told /\ p # Input!Now
    BY <2>1, <2>3 DEF Input!Told
  <2>5. Input!Read(p)' <=> Input!Read(p)
    BY <2>1, <2>4, PinsRead DEF Input!Told
  <2> QED
    BY <2>2, <2>4, <2>5 DEF Input!PinsKnown, Input!Later
<1>4. CASE Input!CallNull
  BY <1>4, Input!Running' DEF Input!CallNull, Input!Panic, Input!Running, Input!InputTyped, Input!Programs
<1>5. CASE Input!CallControl
  <2>1. /\ UNCHANGED <<v1, v2, v3, v4, v5, v8>> /\ Input!NextPin
        /\ v9' = (IF Input!Read(Input!Now) THEN v9 \cup {Input!Now} ELSE v9 \ {Input!Now})
        /\ Input!Now \in v6 \cap ControlPins /\ v7.at = "pins"
        /\ v15' = v15 \ {Input!Now} /\ v16' = v16 \ {Input!Now}
    BY <1>5 DEF Input!CallControl, Input!AtPin
  <2>2. Input!Pending = v7.todo /\ Input!Pending' = Input!Later
    BY <2>1 DEF Input!NextPin, Input!Pending, Input!Idler
  <2>3. \A p \in Input!Inputs : Input!Read(p)' <=> Input!Read(p)
    BY <2>1, PinsRead
  <2>4. Input!Now \in v5 /\ Input!Now \in Input!Inputs /\ Input!Now \notin v8
    BY <2>1 DEF Input!InputTyped, Input!Inputs, Input!Limits, Input!BusPins, Input!InputsAssumption
  <2>50. PICK q \in Input!Inputs : q = Input!Now
    BY <2>4
  <2>5. Input!Read(q)' <=> q \in (v8 \cup v9)'
    <3>1. Input!Read(q)' <=> Input!Read(Input!Now)
      BY <2>50, <2>3
    <3>2. CASE Input!Read(Input!Now)
      BY <2>1, <2>4, <2>50, <3>1, <3>2
    <3>3. CASE ~Input!Read(Input!Now)
      BY <2>1, <2>4, <2>50, <3>1, <3>3
    <3> QED
      BY <3>2, <3>3
  <2> QED
    BY <2>1, <2>2, <2>3, <2>4, <2>50, <2>5, KnownByCall DEF Input!Later
<1>6. CASE Input!CallLimit
  <2>1. /\ UNCHANGED <<v1, v2, v3, v4, v5, v8, v9, v15, v16>>
        /\ v7' = [v7 EXCEPT !.at = "write", !.copy = v8] /\ v7.at = "pins"
    BY <1>6 DEF Input!CallLimit, Input!AtPin
  <2>2. Input!Pending' = Input!Pending
    BY <2>1 DEF Input!Pending, Input!InputTyped, Input!Handlers
  <2> QED
    BY <2>1, <2>2, KnownKept
<1>7. CASE Input!WriteLimit
  <2>1. /\ UNCHANGED <<v1, v2, v3, v4, v5, v9>>
        /\ v8' = (IF Input!Read(Input!Now) THEN v7.copy \cup {Input!Now} ELSE v7.copy \ {Input!Now})
        /\ v16' = (v16 \cup Input!SymDiff(v8, v7.copy)) \ {Input!Now}
        /\ v15' = v15 \ {Input!Now} /\ v7.at = "write"
        /\ (Input!Read(Input!Now) /\ v7' = [v7 EXCEPT !.at = "test"]) \/ Input!NextPin
    BY <1>7 DEF Input!WriteLimit, Input!AtPin
  <2>2. Input!Pending = v7.todo
    BY <2>1 DEF Input!Pending
  <2>3. Input!Pending' = Input!Later
    <3>1. CASE Input!Read(Input!Now) /\ v7' = [v7 EXCEPT !.at = "test"]
      <4>1. v7'.at = "test" /\ v7'.todo = v7.todo
        BY <3>1 DEF Input!InputTyped, Input!Handlers
      <4> QED
        BY <4>1 DEF Input!Pending, Input!Later, Input!Now
    <3>2. CASE Input!NextPin
      BY <3>2 DEF Input!NextPin, Input!Pending, Input!Idler
    <3> QED
      BY <2>1, <3>1, <3>2
  <2>4. \A p \in Input!Inputs : Input!Read(p)' <=> Input!Read(p)
    BY <2>1, PinsRead
  <2>5. Input!Now \in v5 /\ Input!Now \in Input!Inputs /\ Input!Now \notin v9
    BY <2>1 DEF Input!InputTyped, Input!Inputs, Input!Limits, Input!BusPins, Input!InputsAssumption,
       Input!HandlerPlaced
  <2>60. PICK q \in Input!Inputs : q = Input!Now
    BY <2>5
  <2>6. Input!Read(q)' <=> q \in (v8 \cup v9)'
    <3>1. Input!Read(q)' <=> Input!Read(Input!Now)
      BY <2>60, <2>4
    <3>2. CASE Input!Read(Input!Now)
      BY <2>1, <2>5, <2>60, <3>1, <3>2
    <3>3. CASE ~Input!Read(Input!Now)
      BY <2>1, <2>5, <2>60, <3>1, <3>3
    <3> QED
      BY <3>2, <3>3
  <2>7. \A p \in Input!Inputs \ {Input!Now} : p \in v16' \/ (p \in v8 \cup v9 <=> p \in (v8 \cup v9)')
    BY <2>1 DEF Input!SymDiff
  <2>8. \A p \in Input!Inputs \ {Input!Now} : (p \in v16 => p \in v16') /\ (p \in v15 => p \in v15')
    BY <2>1
  <2> QED
    BY <2>1, <2>2, <2>3, <2>4, <2>5, <2>60, <2>6, <2>7, <2>8, KnownByCall DEF Input!Later
<1>8. CASE Input!TestLimit \/ Input!RaiseAlarm
  <2>1. UNCHANGED <<v1, v2, v3, v4, v5, v8, v9, v15, v16>>
    BY <1>8 DEF Input!TestLimit, Input!RaiseAlarm
  <2>2. v7.at \in {"test", "alarm"} /\ (v7' = [v7 EXCEPT !.at = "alarm"] \/ Input!NextPin)
    BY <1>8 DEF Input!TestLimit, Input!RaiseAlarm, Input!AtPin
  <2>3. Input!Pending = Input!Later
    BY <2>2 DEF Input!Pending
  <2>4. Input!Pending' = Input!Later
    <3>1. CASE v7' = [v7 EXCEPT !.at = "alarm"]
      <4>1. v7'.at = "alarm" /\ v7'.todo = v7.todo
        BY <3>1 DEF Input!InputTyped, Input!Handlers
      <4> QED
        BY <4>1 DEF Input!Pending, Input!Later, Input!Now
    <3>2. CASE Input!NextPin
      BY <3>2 DEF Input!NextPin, Input!Pending, Input!Idler
    <3> QED
      BY <2>2, <3>1, <3>2
  <2> QED
    BY <2>1, <2>3, <2>4, KnownKept
<1>9. CASE Input!StorePin
  <2>1. /\ UNCHANGED <<v1, v2, v3, v4, v5, v8, v7>>
        /\ v9' = (IF v14.value THEN v9 \cup {v14.pin} ELSE v9 \ {v14.pin})
        /\ v16' = (IF v4 /\ v14.value # Input!Read(v14.pin) THEN v16 \cup {v14.pin} ELSE v16)
        /\ v15' = (IF v4 THEN v15 \ {v14.pin} ELSE v15)
        /\ v14.at = "store"
    BY <1>9 DEF Input!StorePin
  <2>2. Input!Pending' = Input!Pending /\ v14.pin \in v5 \cap Input!BusPins \cap ControlPins /\ v14.pin \notin v8
    BY <2>1 DEF Input!Pending, Input!Later, Input!Now, Input!AttachedInOrder, Input!InputTyped, Input!Limits,
       Input!BusPins, Input!InputsAssumption
  <2>3. \A p \in Input!Inputs : Input!Read(p)' <=> Input!Read(p)
    BY <2>1, PinsRead
  <2>4. SUFFICES ASSUME NEW p \in Input!Told'
                 PROVE  \/ p \in Input!Pending'
                        \/ p \in Input!BusPins /\ ~v4
                        \/ p \in v5 /\ (Input!Read(p)' <=> p \in (v8 \cup v9)')
    BY <2>1 DEF Input!PinsKnown
  <2>5. p \in Input!Inputs /\ p \notin v15' /\ p \notin v16'
    BY <2>4 DEF Input!Told
  <2>6. CASE p = v14.pin
    <3>1. CASE ~v4
      BY <2>2, <2>6, <3>1
    <3>2. CASE v4
      <4>1. v14.value = Input!Read(v14.pin)
        BY <2>1, <2>5, <2>6, <3>2
      <4>2. Input!Read(p)' <=> v14.value
        BY <2>3, <2>5, <2>6, <4>1
      <4>3. p \in (v8 \cup v9)' <=> v14.value
        BY <2>1, <2>2, <2>6
      <4> QED
        BY <2>2, <2>6, <4>2, <4>3
    <3> QED
      BY <3>1, <3>2
  <2>7. CASE p # v14.pin
    <3>1. p \in Input!Told /\ (p \in (v8 \cup v9)' <=> p \in v8 \cup v9)
      BY <2>1, <2>5, <2>7 DEF Input!Told
    <3> QED
      BY <2>2, <2>3, <2>5, <3>1 DEF Input!PinsKnown
  <2> QED
    BY <2>6, <2>7
<1>10. ASSUME NEW q \in Input!Inputs, Input!Attach(q)
       PROVE  Input!PinsKnown'
  <2>1. /\ UNCHANGED <<v1, v2, v3, v4, v8, v9, v7, v15, v16>>
        /\ v5' = v5 \cup {q}
    BY <1>10 DEF Input!Attach
  <2>2. Input!Pending' = Input!Pending
    BY <2>1 DEF Input!Pending, Input!Later, Input!Now
  <2> QED
    BY <2>1, <2>2, KnownKept
<1>11. CASE \/ Input!SetPin \/ Input!ClearEvent \/ Input!ReadPin \/ Input!InitControl
            \/ Input!InitState \/ Input!InitSpindle \/ Input!Loop
            \/ Input!Unlock \/ Input!UserReset \/ Input!Move \/ Input!Rest
  <2>1. UNCHANGED <<v1, v2, v3, v4, v5, v8, v9, v7, v15, v16>>
    BY <1>11 DEF Input!SetPin, Input!ClearEvent, Input!ReadPin, Input!InitControl, Input!InitState,
       Input!InitSpindle, Input!Loop, Input!run_once, Input!CheckLimits,
                 Input!protocol_do_alarm, Input!EndAlarm, Input!HandleReset, Input!Unlock, Input!UserReset,
                 Input!Move, Input!Rest
  <2>2. Input!Pending' = Input!Pending
    BY <2>1 DEF Input!Pending, Input!Later, Input!Now
  <2> QED
    BY <2>1, <2>2, KnownKept
<1>12. ASSUME NEW q \in Input!BusPins, Input!ChangeBusPin(q)
       PROVE  Input!PinsKnown'
  <2>1. /\ UNCHANGED <<v1, v3, v4, v5, v8, v9, v7, v15, v16>> /\ Input!Change(q)
    BY <1>12 DEF Input!ChangeBusPin, Input!Change
  <2>2. Input!Pending' = Input!Pending /\ q \in Input!Inputs
    BY <2>1 DEF Input!Pending, Input!Later, Input!Now, Input!Inputs
  <2>3. \A p \in Input!BusPins : Input!Read(p)' <=> Input!Read(p)
    BY <2>1, <2>2, Flipped
  <2>4. \A p \in Input!Inputs \ Input!BusPins : Input!Read(p)' <=> Input!Read(p)
    <3>1. ASSUME NEW p \in Input!Inputs \ Input!BusPins
          PROVE  Input!Read(p)' <=> Input!Read(p)
      <4>1. (Input!Read(p)' <=> Input!Active(p)') /\ (Input!Active(p)' <=> Input!Active(p))
        BY <2>1, <2>2, Flipped
      <4>2. Input!Read(p) <=> Input!Active(p)
        BY DEF Input!Read
      <4> QED
        BY <4>1, <4>2
    <3> QED
      BY <3>1
  <2>5. \A p \in Input!Inputs : Input!Read(p)' <=> Input!Read(p)
    BY <2>3, <2>4
  <2> QED
    BY <2>1, <2>2, <2>5 DEF Input!PinsKnown, Input!Told
<1>13. ASSUME NEW q \in GpioPins, Input!ChangeGpioPin(q)
       PROVE  Input!PinsKnown'
  <2>1. UNCHANGED <<v1, v3, v4, v5, v7>> /\ Input!Change(q) /\ q \in Input!Inputs /\ q \notin Input!BusPins
    BY <1>13 DEF Input!ChangeGpioPin, Input!Change, Input!Inputs, Input!InputsAssumption
  <2>2. Input!Pending' = Input!Pending
    BY <2>1 DEF Input!Pending, Input!Later, Input!Now
  <2>3. \A p \in Input!BusPins : Input!Read(p)' <=> Input!Read(p)
    BY <2>1, Flipped
  <2>4. ASSUME NEW p \in Input!Inputs \ {q}
        PROVE  Input!Read(p)' <=> Input!Read(p)
    <3>1. CASE p \in Input!BusPins
      BY <2>3, <3>1
    <3>2. CASE p \notin Input!BusPins
      <4>1. (Input!Read(p)' <=> Input!Active(p)') /\ (Input!Active(p)' <=> Input!Active(p))
        BY <2>1, <3>2, Flipped
      <4>2. Input!Read(p) <=> Input!Active(p)
        BY <3>2 DEF Input!Read
      <4> QED
        BY <4>1, <4>2
    <3> QED
      BY <3>1, <3>2
  <2>5. Input!Read(q)' <=> ~Input!Active(q)
    <3>1. (Input!Read(q)' <=> Input!Active(q)') /\ (Input!Active(q)' <=> ~Input!Active(q))
      BY <2>1, Flipped
    <3> QED
      BY <3>1
  <2>6. CASE q \in v5
    <3>1. Input!Interrupt({q}, IF Input!Active(q) THEN {} ELSE {q}) /\ v15' = v15 \ {q}
      BY <1>13, <2>6 DEF Input!ChangeGpioPin
    <3>2. /\ v8' = (v8 \ {q}) \cup ((IF Input!Active(q) THEN {} ELSE {q}) \cap Input!Limits)
          /\ v9' = (v9 \ {q}) \cup ((IF Input!Active(q) THEN {} ELSE {q}) \cap ControlPins)
          /\ v16' = v16 \ {q}
      BY <3>1 DEF Input!Interrupt
    <3>3. q \in Input!Limits
      BY DEF Input!Limits
    <3>4. q \in (v8 \cup v9)' <=> ~Input!Active(q)
      BY <3>2, <3>3
    <3>5. Input!Read(q)' <=> q \in (v8 \cup v9)'
      BY <2>5, <3>4
    <3> QED
      BY <2>1, <2>2, <2>4, <2>6, <3>1, <3>2, <3>5, KnownByCall
  <2>7. CASE q \notin v5
    <3>1. UNCHANGED <<v8, v9, v15, v16>>
      BY <1>13, <2>7 DEF Input!ChangeGpioPin
    <3>2. q \in Input!Told => q \in Input!Pending
      BY <2>1, <2>7 DEF Input!PinsKnown
    <3>3. SUFFICES ASSUME NEW p \in Input!Told
                   PROVE  \/ p \in Input!Pending'
                          \/ p \in Input!BusPins /\ ~v4
                          \/ p \in v5 /\ (Input!Read(p)' <=> p \in v8 \cup v9)
      BY <2>1, <3>1 DEF Input!PinsKnown, Input!Told
    <3> QED
      BY <2>2, <2>4, <3>2, <3>3 DEF Input!PinsKnown, Input!Told
  <2> QED
    BY <2>6, <2>7
<1> QED
  BY <1>1, <1>2, <1>3, <1>4, <1>5, <1>6, <1>7, <1>8, <1>9, <1>10, <1>11, <1>12, <1>13 DEF Input!Next,
     Input!ShiftIn, Input!Boot, Input!Outside

\* A critical alarm is left by a reset only, in the state of alarm.
LEMMA CriticalUntilReset ==
    ASSUME Input!InputTyped, Input!RiskAnswered, Input!Next, v14'.at = "critical"
    PROVE  v13' = "Alarm"
<1> USE DEF Input!RiskAnswered, Input!InputTyped, Input!Programs, Input!machine, Input!Go
<1>1. CASE Input!i2s_in_intr_handler \/ Input!ShiftIn
  <2>1. v13' = v13
    BY <1>1 DEF Input!i2s_in_intr_handler, Input!Interrupt, Input!ShiftIn, Input!shiftInTask, Input!SkipPin,
       Input!CallNull, Input!CallControl, Input!CallLimit,
                Input!WriteLimit, Input!TestLimit, Input!RaiseAlarm
  <2>2. v14' = v14 \/ Input!Panic
    BY <1>1 DEF Input!i2s_in_intr_handler, Input!Interrupt, Input!ShiftIn, Input!shiftInTask, Input!SkipPin,
       Input!CallNull, Input!CallControl, Input!CallLimit,
                Input!WriteLimit, Input!TestLimit, Input!RaiseAlarm
  <2> QED
    BY <2>1, <2>2 DEF Input!Panic
<1>2. CASE Input!Boot
  <2>1. ASSUME NEW p \in Input!Inputs, Input!Attach(p)
        PROVE  v14'.at # "critical"
    BY <2>1 DEF Input!Attach
  <2> QED
    BY <1>2, <2>1 DEF Input!Boot, Input!SetPin, Input!ClearEvent, Input!ReadPin, Input!StorePin, Input!InitControl,
       Input!InitState, Input!InitSpindle
<1>3. CASE Input!Loop
  BY <1>3 DEF Input!Loop, Input!run_once, Input!CheckLimits, Input!protocol_do_alarm, Input!EndAlarm,
     Input!HandleReset
<1>4. CASE Input!Unlock \/ Input!UserReset \/ Input!Move \/ Input!Rest
  BY <1>4 DEF Input!Unlock, Input!UserReset, Input!Move, Input!Rest, Input!Waiting
<1>5. ASSUME NEW q \in Input!Inputs, Input!ChangeBusPin(q) \/ Input!ChangeGpioPin(q)
      PROVE  v13' = "Alarm"
  <2>1. v13' = v13 /\ (v14' = v14 \/ Input!Panic)
    BY <1>5 DEF Input!ChangeBusPin, Input!ChangeGpioPin, Input!Interrupt
  <2> QED
    BY <2>1 DEF Input!Panic
<1> QED
  BY <1>1, <1>2, <1>3, <1>4, <1>5 DEF Input!Next, Input!Outside, Input!Inputs

\* Why a closed switch need not have raised an alarm, or will yet.
Answered(p) ==
    \/ v12 # "None"
    \/ p \notin Input!Told
    \/ Input!OnItsWay(p)
    \/ p \in Input!BusPins /\ (~v4 \/ v3[p] # v2[p])

\* A switch that closed is answered, after every step.
LEMMA RiskIsAnswered ==
    ASSUME Input!InputsAssumption, Input!InputTyped, Input!AttachedInOrder, Input!HandlerPlaced, Input!PinsKnown,
       Input!RiskAnswered,
           Input!Next, Input!Remember, Input!Running', NEW p \in v17'
    PROVE  Answered(p)'
<1>1. /\ p \in Input!Limits /\ p \in Input!Inputs /\ p \notin ControlPins /\ Input!Active(p)' /\ v13' # "Alarm"
      /\ p \in v17 \/ (~Input!Active(p) /\ p \notin v8 /\ v14.at = "loop")
  <2>1. p \in Input!Limits
    BY DEF Input!Remember
  <2> QED
    BY <2>1 DEF Input!Remember, Input!Limits, Input!Inputs, Input!BusPins, Input!InputsAssumption
<1>2. p \in v17 => Answered(p) /\ Input!Active(p) /\ v13 # "Alarm"
  BY DEF Input!RiskAnswered, Answered
<1>3. ASSUME UNCHANGED <<v1, v2>>
      PROVE  p \in v17 /\ Answered(p) /\ Input!Active(p) /\ v13 # "Alarm"
  <2>1. Input!Active(p)
    BY <1>1, <1>3, PinsRead
  <2> QED
    BY <1>1, <1>2, <2>1
<1>0. Input!Running
  BY NextRuns
<1> USE DEF Input!pins, Input!machine, Input!bus
<1>4. ASSUME UNCHANGED <<v1, v2, v3, v4, v7>>, p \notin Input!Told => p \notin Input!Told',
             v12 # "None" => v12' # "None"
      PROVE  Answered(p)'
  BY <1>3, <1>4 DEF Answered, Input!OnItsWay, Input!Now
<1>5. CASE Input!i2s_in_intr_handler
  <2>1. Input!ReadBus /\ UNCHANGED <<v1, v2, v7>>
    BY <1>5 DEF Input!i2s_in_intr_handler
  <2>2. Input!Interrupt(Input!Called,
     {q \in Input!Called : Input!Active(q)}) /\ v15' = (v15 \cup Input!Changed) \ Input!Called
    BY <1>5, Input!Running' DEF Input!i2s_in_intr_handler, Input!Panic, Input!Running, Input!InputTyped,
       Input!Programs
  <2>3. p \in v17 /\ Answered(p) /\ Input!Active(p) /\ v13 # "Alarm"
    BY <1>3, <2>1
  <2>4. v12 # "None" => v12' # "None"
    BY <2>2 DEF Input!Interrupt
  <2>5. CASE p \in Input!Called
    <3>1. p \in {q \in Input!Called : Input!Active(q)} \cap Input!Limits
      BY <1>1, <2>3, <2>5
    <3>2. v12' # "None"
      BY <2>2, <2>3, <3>1 DEF Input!Interrupt, Input!Unalarmed
    <3> QED
      BY <3>2 DEF Answered
  <2>6. CASE p \in Input!Changed \ Input!Called
    <3>1. p \in v15'
      BY <2>2, <2>6
    <3> QED
      BY <3>1 DEF Answered, Input!Told
  <2>7. CASE p \notin Input!Changed
    <3>1. p \notin Input!Called
      BY <2>7 DEF Input!Called
    <3>2. p \notin Input!Told => p \notin Input!Told'
      BY <2>2, <3>1 DEF Input!Told, Input!Interrupt
    <3>3. p \in Input!BusPins => v4 /\ v3[p] = v2[p]
      BY <2>7 DEF Input!Changed
    <3> QED
      BY <2>1, <2>3, <2>4, <3>2, <3>3 DEF Answered, Input!OnItsWay, Input!Now
  <2> QED
    BY <2>5, <2>6, <2>7
<1>6. CASE Input!shiftInTask
  <2> DEFINE todo == IF v5 \cap Input!BusPins = {} THEN {} ELSE Input!Changed
  <2>1. Input!ReadBus /\ UNCHANGED <<v1, v2, v12, v16>> /\ v7.at = "idle"
    BY <1>6 DEF Input!shiftInTask
  <2>2. v7' = (IF todo = {} THEN Input!Idler ELSE [Input!Idler EXCEPT !.at = "pins", !.todo = todo])
    BY <1>6 DEF Input!shiftInTask
  <2>3. v15' = (v15 \cup Input!Changed) \ todo
    BY <1>6 DEF Input!shiftInTask
  <2> HIDE DEF todo
  <2>4. v7'.todo = todo /\ ~Input!OnItsWay(p)
    BY <2>1, <2>2 DEF Input!Idler, Input!HandlerPlaced, Input!OnItsWay
  <2>5. p \in v17 /\ Answered(p)
    BY <1>3, <2>1
  <2>6. CASE p \in Input!Changed
    BY <2>3, <2>4, <2>6 DEF Answered, Input!Told, Input!OnItsWay
  <2>7. CASE p \notin Input!Changed
    <3>1. p \in Input!BusPins => v4 /\ v3[p] = v2[p]
      BY <2>7 DEF Input!Changed
    <3>2. CASE p \in todo
      BY <2>4, <3>2 DEF Answered, Input!OnItsWay
    <3>3. CASE p \notin todo
      <4>1. p \notin Input!Told => p \notin Input!Told'
        BY <2>1, <2>3, <3>3 DEF Input!Told
      <4> QED
        BY <2>1, <2>4, <2>5, <3>1, <4>1 DEF Answered
    <3> QED
      BY <3>2, <3>3
  <2> QED
    BY <2>6, <2>7
<1>7. CASE Input!SkipPin
  <2>1. UNCHANGED <<v1, v2, v3, v4, v12, v16>> /\ Input!NextPin /\ v15' = v15 \cup {Input!Now}
    BY <1>7 DEF Input!SkipPin
  <2>2. v7'.todo = Input!Later
    BY <2>1 DEF Input!NextPin, Input!Idler
  <2>3. Answered(p)
    BY <1>3, <2>1
  <2>4. p = Input!Now => p \notin Input!Told'
    BY <2>1 DEF Input!Told
  <2> QED
    BY <1>7, <2>1, <2>2, <2>3, <2>4 DEF Input!SkipPin, Input!AtPin, Answered, Input!OnItsWay, Input!Later, Input!Told
<1>8. CASE Input!CallNull
  BY <1>8, Input!Running' DEF Input!CallNull, Input!Panic, Input!Running, Input!InputTyped, Input!Programs
<1>9. CASE Input!CallControl
  <2>1. /\ UNCHANGED <<v1, v2, v3, v4, v12>> /\ Input!NextPin /\ v15' = v15 \ {Input!Now}
        /\ v16' = v16 \ {Input!Now} /\ Input!Now \in ControlPins
    BY <1>9 DEF Input!CallControl
  <2>2. v7'.todo = Input!Later /\ p # Input!Now
    BY <1>1, <2>1 DEF Input!NextPin, Input!Idler
  <2>3. Answered(p)
    BY <1>3, <2>1
  <2> QED
    BY <1>9, <2>1, <2>2, <2>3 DEF Input!CallControl, Input!AtPin, Answered, Input!OnItsWay, Input!Later, Input!Told
<1>10. CASE Input!CallLimit
  <2>1. /\ UNCHANGED <<v1, v2, v3, v4, v12, v15, v16>>
        /\ v7' = [v7 EXCEPT !.at = "write", !.copy = v8]
    BY <1>10 DEF Input!CallLimit
  <2>2. v7'.todo = v7.todo
    BY <2>1 DEF Input!InputTyped, Input!Handlers
  <2>3. Answered(p)
    BY <1>3, <2>1
  <2> QED
    BY <1>10, <2>1, <2>2, <2>3 DEF Input!CallLimit, Input!AtPin, Answered, Input!OnItsWay, Input!Told
<1>11. CASE Input!WriteLimit
  <2>1. /\ UNCHANGED <<v1, v2, v3, v4, v12>> /\ v15' = v15 \ {Input!Now}
        /\ v16' = (v16 \cup Input!SymDiff(v8, v7.copy)) \ {Input!Now}
        /\ (Input!Read(Input!Now) /\ v7' = [v7 EXCEPT !.at = "test"]) \/ (~Input!Read(Input!Now) /\ Input!NextPin)
    BY <1>11 DEF Input!WriteLimit
  <2>2. Answered(p) /\ Input!Active(p)
    BY <1>3, <2>1
  <2>3. Input!Now \in Input!BusPins
    BY <1>11 DEF Input!WriteLimit, Input!AtPin, Input!HandlerPlaced, Input!InputTyped
  <2>4. CASE Input!Read(Input!Now) /\ v7' = [v7 EXCEPT !.at = "test"]
    <3>1. v7'.todo = v7.todo /\ v7'.at = "test"
      BY <2>4 DEF Input!InputTyped, Input!Handlers
    <3>2. Input!Now' = Input!Now
      BY <3>1 DEF Input!Now
    <3>3. CASE p # Input!Now
      <4>1. p \notin Input!Told => p \notin Input!Told'
        BY <2>1, <3>3 DEF Input!Told
      <4> QED
        BY <2>1, <2>2, <3>1, <3>3, <4>1 DEF Answered, Input!OnItsWay
    <3>4. CASE p = Input!Now
      BY <3>1, <3>2, <3>4 DEF Answered, Input!OnItsWay
    <3> QED
      BY <3>3, <3>4
  <2>5. CASE ~Input!Read(Input!Now) /\ Input!NextPin
    <3>1. v7'.todo = Input!Later
      BY <2>5 DEF Input!NextPin, Input!Idler
    <3>2. CASE p = Input!Now
      <4>1. v3[p] # v2[p]
        BY <2>2, <2>3, <2>5, <3>2, AsSampled
      <4> QED
        BY <2>1, <2>3, <3>2, <4>1 DEF Answered
    <3>3. CASE p # Input!Now
      <4>1. p \notin Input!Told => p \notin Input!Told'
        BY <2>1, <3>3 DEF Input!Told
      <4> QED
        BY <1>11, <2>1, <2>2, <3>1, <3>3, <4>1 DEF Input!WriteLimit, Input!AtPin, Answered, Input!OnItsWay,
           Input!Later
    <3> QED
      BY <3>2, <3>3
  <2> QED
    BY <2>1, <2>4, <2>5
<1>12. CASE Input!TestLimit
  <2>1. UNCHANGED <<v1, v2, v3, v4, v15, v16>>
    BY <1>12 DEF Input!TestLimit
  <2>2. Answered(p) /\ v13 # "Alarm"
    BY <1>3, <2>1
  <2>3. CASE v12 # "None"
    <3>1. v12' # "None"
      BY <1>12, <2>3 DEF Input!TestLimit
    <3> QED
      BY <3>1 DEF Answered
  <2>4. CASE v12 = "None"
    <3>1. v7' = [v7 EXCEPT !.at = "alarm"]
      BY <1>12, <2>2, <2>4 DEF Input!TestLimit, Input!Unalarmed
    <3>2. v7'.todo = v7.todo /\ v7'.at = "alarm" /\ v7.at = "test"
      BY <1>12, <3>1 DEF Input!TestLimit, Input!AtPin, Input!InputTyped, Input!Handlers
    <3>3. Input!Now' = Input!Now
      BY <3>2 DEF Input!Now
    <3> QED
      BY <2>1, <2>2, <2>4, <3>2, <3>3 DEF Answered, Input!OnItsWay, Input!Told
  <2> QED
    BY <2>3, <2>4
<1>13. CASE Input!RaiseAlarm
  BY <1>13 DEF Input!RaiseAlarm, Answered
<1>14. ASSUME NEW q \in Input!Inputs, Input!Attach(q)
       PROVE  Answered(p)'
  BY <1>4, <1>14 DEF Input!Attach, Input!Told
<1>15. CASE Input!StorePin
  <2>1. /\ UNCHANGED <<v1, v2, v3, v4, v7>> /\ v12' \in {v12, "ControlPin"}
        /\ v16 \subseteq v16' /\ v15 \ {v14.pin} \subseteq v15' /\ v14.at = "store"
    BY <1>15 DEF Input!StorePin
  <2>2. p # v14.pin
    BY <1>1, <2>1 DEF Input!AttachedInOrder
  <2>3. p \notin Input!Told => p \notin Input!Told'
    BY <2>1, <2>2 DEF Input!Told
  <2> QED
    BY <1>4, <2>1, <2>3
<1>16. CASE \/ Input!SetPin \/ Input!ClearEvent \/ Input!ReadPin \/ Input!InitControl
            \/ Input!InitState \/ Input!InitSpindle
  BY <1>4, <1>16 DEF Input!SetPin, Input!ClearEvent, Input!ReadPin, Input!InitControl, Input!InitState,
     Input!InitSpindle, Input!Told
<1>17. CASE \/ Input!run_once \/ Input!CheckLimits \/ Input!HandleReset
            \/ Input!Unlock \/ Input!UserReset \/ Input!Move \/ Input!Rest
  BY <1>4, <1>17 DEF Input!run_once, Input!CheckLimits, Input!HandleReset, Input!Unlock, Input!UserReset,
     Input!Move, Input!Rest, Input!Told
<1>18. CASE Input!protocol_do_alarm \/ Input!EndAlarm
  BY <1>1, <1>18 DEF Input!protocol_do_alarm, Input!EndAlarm, Input!RiskAnswered
<1>19. ASSUME NEW q \in Input!BusPins, Input!ChangeBusPin(q)
       PROVE  Answered(p)'
  <2>1. UNCHANGED <<v1, v3, v4, v7, v15, v16, v12>> /\ Input!Change(q) /\ q \in Input!Inputs
    BY <1>19 DEF Input!ChangeBusPin, Input!Change, Input!Inputs
  <2>2. CASE p # q
    <3>1. Input!Active(p) /\ v2'[p] = v2[p]
      BY <1>1, <2>1, <2>2, Flipped
    <3>2. Answered(p)
      BY <1>1, <1>2, <3>1
    <3> QED
      BY <2>1, <3>1, <3>2 DEF Answered, Input!OnItsWay, Input!Now, Input!Told
  <2>3. CASE p = q
    <3>1. ~Input!Active(p) /\ p \notin v8 /\ v14.at = "loop"
      <4>1. Input!Active(q)' <=> ~Input!Active(q)
        BY <2>1, Flipped
      <4> QED
        BY <1>1, <1>2, <2>3, <4>1
    <3>2. p \notin v8 \cup v9 /\ p \in v5
      BY <1>1, <3>1 DEF Input!InputTyped, Input!AttachedInOrder
    <3>3. CASE p \notin Input!Told \/ Input!OnItsWay(p) \/ ~v4
      BY <1>19, <2>1, <2>3, <3>3 DEF Answered, Input!OnItsWay, Input!Now, Input!Told
    <3>4. CASE p \in Input!Told /\ ~Input!OnItsWay(p) /\ v4
      <4>1. p \notin Input!Pending
        BY <3>4 DEF Input!Pending, Input!Later, Input!OnItsWay
      <4>2. ~Input!Read(p)
        BY <3>2, <3>4, <4>1 DEF Input!PinsKnown
      <4>3. v3[p] = v2[p]
        BY <1>19, <2>3, <3>1, <4>2, AsSampled
      <4>4. v2'[p] # v2[p]
        BY <2>1, <2>3 DEF Input!Change, Input!InputTyped
      <4> QED
        BY <1>19, <2>1, <2>3, <4>3, <4>4 DEF Answered
    <3> QED
      BY <3>3, <3>4
  <2> QED
    BY <2>2, <2>3
<1>20. ASSUME NEW q \in GpioPins, Input!ChangeGpioPin(q)
       PROVE  Answered(p)'
  <2>1. UNCHANGED <<v1, v3, v4, v7>> /\ Input!Change(q) /\ q \in Input!Inputs /\ q \notin Input!BusPins /\ v13' = v13
    BY <1>20 DEF Input!ChangeGpioPin, Input!Change, Input!Inputs, Input!InputsAssumption, Input!Interrupt
  <2>2. v12 # "None" => v12' # "None"
    BY <1>20 DEF Input!ChangeGpioPin, Input!Interrupt
  <2>3. CASE p # q
    <3>1. Input!Active(p) /\ v2'[p] = v2[p]
      BY <1>1, <2>1, <2>3, Flipped
    <3>2. Answered(p)
      BY <1>1, <1>2, <3>1
    <3>3. p \notin Input!Told => p \notin Input!Told'
      BY <1>20, <2>3 DEF Input!ChangeGpioPin, Input!Interrupt, Input!Told
    <3> QED
      BY <2>1, <2>2, <3>1, <3>2, <3>3 DEF Answered, Input!OnItsWay, Input!Now
  <2>4. CASE p = q
    <3>1. ~Input!Active(q)
      <4>1. Input!Active(q)' <=> ~Input!Active(q)
        BY <2>1, Flipped
      <4> QED
        BY <1>1, <2>4, <4>1
    <3>2. v14.at = "loop"
      BY <1>1, <1>2, <2>4, <3>1
    <3>3. q \in v5
      BY <2>1, <3>2 DEF Input!AttachedInOrder
    <3>4. Input!Interrupt({q}, {q})
      BY <1>20, <3>1, <3>3 DEF Input!ChangeGpioPin
    <3>5. v12' # "None"
      BY <1>1, <2>1, <2>4, <3>4 DEF Input!Interrupt, Input!Unalarmed
    <3> QED
      BY <3>5 DEF Answered
  <2> QED
    BY <2>3, <2>4
<1> QED
  BY <1>5, <1>6, <1>7, <1>8, <1>9, <1>10, <1>11, <1>12, <1>13, <1>14, <1>15, <1>16, <1>17, <1>18, <1>19, <1>20
     DEF Input!Next, Input!ShiftIn, Input!Boot, Input!Loop, Input!Outside

\* Every step of the bus keeps the invariant.
LEMMA InputBusKeeps == ASSUME Input!InputsAssumption, Input!InputBusInv,
   Input!Next /\ Input!Remember PROVE Input!InputBusInv'
<1>1. Input!InputTyped /\ Input!AttachedInOrder /\ Input!HandlerPlaced /\ Input!PinsKnown /\ Input!RiskAnswered
  BY NextRuns DEF Input!InputBusInv
<1>2. Input!InputTyped' /\ Input!AttachedInOrder' /\ Input!HandlerPlaced'
  BY <1>1, BusTyped
<1>3. ASSUME Input!Running' PROVE Input!PinsKnown'
  BY <1>1, <1>3, PinsStayKnown
<1>4. ASSUME Input!Running' PROVE Input!RiskAnswered'
  <2>1. v14'.at = "critical" => v13' = "Alarm"
    BY <1>1, CriticalUntilReset
  <2>2. ASSUME NEW p \in v17'
        PROVE  Answered(p)' /\ p \in Input!Limits /\ Input!Active(p)' /\ v13' # "Alarm"
    <3>1. p \in Input!Limits /\ Input!Active(p)' /\ v13' # "Alarm"
      BY DEF Input!Remember
    <3> QED
      BY <1>1, <1>4, <3>1, RiskIsAnswered
  <2> QED
    BY <2>1, <2>2 DEF Input!RiskAnswered, Answered
<1> QED
  BY <1>2, <1>3, <1>4 DEF Input!InputBusInv

\* What the invariant says when a sample was handled.
LEMMA HeedsSwitches == ASSUME Input!InputsAssumption, Input!InputBusInv PROVE Input!SwitchesHeeded
<1>1. Input!InputsKnown
  <2>1. SUFFICES ASSUME Input!Delivered, NEW p \in Input!Told \cap v5
                 PROVE  Input!Active(p) <=> p \in v8 \cup v9
    BY DEF Input!InputsKnown
  <2>2. p \notin Input!Pending /\ ~(p \in Input!BusPins /\ ~v4)
    BY <2>1 DEF Input!Delivered, Input!InputBusInv, Input!HandlerPlaced, Input!Pending
  <2>3. Input!Read(p) <=> p \in v8 \cup v9
    BY <2>1, <2>2 DEF Input!Delivered, Input!InputBusInv, Input!PinsKnown
  <2>4. CASE p \in Input!BusPins
    BY <2>1, <2>3, <2>4, AsSampled DEF Input!Delivered, Input!InputBusInv
  <2>5. CASE p \notin Input!BusPins
    <3>1. Input!Read(p) <=> Input!Active(p)
      BY <2>5 DEF Input!Read
    <3> QED
      BY <2>3, <3>1
  <2> QED
    BY <2>4, <2>5
<1>2. Input!ClosedSwitchStops
  BY DEF Input!ClosedSwitchStops, Input!Delivered, Input!InputBusInv, Input!HandlerPlaced, Input!RiskAnswered,
     Input!OnItsWay
<1> QED
  BY <1>1, <1>2 DEF Input!SwitchesHeeded

\* The input bus, whatever closes, opens or bounces when.
LEMMA InputBusInvariant == PartsSpec => [](part = "inputs" => Input!InputBusInv)
<1> DEFINE Inv == part = "inputs" => Input!InputBusInv
<1>1. PartsInit => Inv
  BY InputBusBegins, PartsAssumption DEF PartsInit
<1>2. Inv /\ [PartsNext]_<<part, v1, v2, v3, v4, v5, v6, v7, v8, v9, v10, v11, v12, v13,
                               v14, v15, v16, v17, v18, v19>>
        => Inv'
  <2> SUFFICES ASSUME Inv, part' = "inputs",
                      \/ PartsNext
                      \/ UNCHANGED <<part, v1, v2, v3, v4, v5, v6, v7, v8, v9, v10, v11, v12, v13,
                                     v14, v15, v16, v17, v18, v19>>
               PROVE  Input!InputBusInv'
    OBVIOUS
  <2>1. CASE PartsNext
    <3>1. part = "inputs" /\ Input!Next
      BY <2>1 DEF PartsNext
    <3>2. (Input!i2s_in_intr_handler \/ Input!ShiftIn \/ Input!Boot \/ Input!Loop \/ Input!Outside) /\ Input!Remember
      BY <3>1 DEF Input!Next
    <3> QED
      BY <3>1, <3>2, InputBusKeeps, PartsAssumption
  <2>2. CASE UNCHANGED <<part, v1, v2, v3, v4, v5, v6, v7, v8, v9, v10, v11, v12, v13, v14, v15, v16, v17, v18, v19>>
    BY <2>2 DEF Input!InputBusInv, Input!InputTyped, Input!AttachedInOrder, Input!HandlerPlaced, Input!PinsKnown,
                Input!RiskAnswered, Input!Running, Input!Told, Input!Pending, Input!OnItsWay, Input!Now, Input!Later,
                Input!Read, Input!Active, Input!Low
  <2> QED
    BY <2>1, <2>2
<1> HIDE DEF Inv
<1>3. PartsSpec => []Inv
  BY <1>1, <1>2, PTL DEF PartsSpec
<1> QED
  BY <1>3 DEF Inv

\* What the program goes by agrees with the pins, and a limit switch that closes
\* stops the machine.
THEOREM SwitchesAlwaysHeeded == PartsSpec => []SwitchesHeeded
<1>1. (part = "inputs" => Input!InputBusInv) => SwitchesHeeded
  BY HeedsSwitches, PartsAssumption DEF SwitchesHeeded
<1> QED
  BY <1>1, InputBusInvariant, PTL

-----------------------------------------------------------------------------
(* What induction gives: least numbers, functions by recursion              *)

\* Every set of naturals that is not empty has a least element.
LEMMA LeastNumber == ASSUME NEW T \in SUBSET Nat, T # {}
                     PROVE  \E n \in T : \A k \in T : n <= k
<1> DEFINE R == OpToRel(<, Nat)
<1>1. IsWellFoundedOn(R, Nat)
  BY ONLY NatLessThanWellFounded, Zenon
<1>2. \A m, n \in Nat : m < n => <<m, n>> \in R
  BY DEF OpToRel
<1> HIDE DEF R
<1>3. \E x \in T : \A y \in T : ~(<<y, x>> \in R)
  BY <1>1, WFMin
<1>4. PICK x \in T : \A y \in T : ~(<<y, x>> \in R)
  BY <1>3
<1>5. \A k \in T : k \in Nat /\ ~(k < x)
  BY <1>2, <1>4
<1> QED
  BY <1>5

\* Induction: a set that has 0, and with every number the next one, has them all.
LEMMA InductionOverSets ==
  ASSUME NEW T, 0 \in T, \A n \in Nat : n \in T => n + 1 \in T
  PROVE  Nat \subseteq T
<1> DEFINE U == {n \in Nat : n \notin T}
<1> SUFFICES ASSUME U # {} PROVE FALSE
  OBVIOUS
<1>1. PICK n \in U : \A k \in U : n <= k
  <2> HIDE DEF U
  <2>1. U \in SUBSET Nat
    BY DEF U
  <2> QED
    BY <2>1, LeastNumber
<1>2. n # 0 /\ n - 1 \in Nat
  OBVIOUS
<1>3. n - 1 \in T
  BY <1>1, <1>2
<1> QED
  BY <1>2, <1>3

\* f is given by its value at 0, and by each value from the one before.
GivenBy(f, a, F) == f[0] = a /\ \A n \in Nat \ {0} : f[n] = F[<<n, f[n - 1]>>]

\* A function that is given by its value at 0 and by each value from the one before
\* exists, so that what CHOOSE names is that function.
LEMMA FunctionByRecursion ==
  ASSUME NEW T, NEW a \in T, NEW F \in [Nat \X T -> T]
  PROVE  \E f \in [Nat -> T] : GivenBy(f, a, F)
<1> DEFINE Part(g, m) == /\ g \in [0 .. m -> T]
                         /\ \A i \in 0 .. m : g[i] = IF i = 0 THEN a ELSE F[<<i, g[i - 1]>>]
           Have == {m \in Nat : \E g : Part(g, m)}
<1>1. Nat \subseteq Have
  <2>1. 0 \in Have
    <3>1. Part([i \in 0 .. 0 |-> a], 0)
      OBVIOUS
    <3> QED
      BY <3>1
  <2>2. ASSUME NEW m \in Nat, m \in Have PROVE m + 1 \in Have
    <3>1. PICK g : Part(g, m)
      BY <2>2
    <3> DEFINE h == [i \in 0 .. m + 1 |-> IF i = m + 1 THEN F[<<m + 1, g[m]>>] ELSE g[i]]
    <3>2. h \in [0 .. m + 1 -> T]
      BY <3>1
    <3>3. ASSUME NEW i \in 0 .. m + 1 PROVE h[i] = IF i = 0 THEN a ELSE F[<<i, h[i - 1]>>]
      <4>1. CASE i = m + 1
        <5>1. i # 0 /\ i - 1 = m /\ m # m + 1 /\ m \in 0 .. m + 1
          BY <4>1
        <5>2. h[i] = F[<<m + 1, g[m]>>] /\ h[i - 1] = g[m]
          BY <4>1, <5>1
        <5> QED
          BY <4>1, <5>1, <5>2
      <4>2. CASE i # m + 1 /\ i # 0
        <5>1. i \in 0 .. m /\ i - 1 \in 0 .. m
          BY <4>2
        <5>2. h[i] = g[i] /\ h[i - 1] = g[i - 1]
          BY <5>1
        <5> QED
          BY <5>1, <5>2, <3>1, <4>2
      <4>3. CASE i = 0
        <5>1. h[0] = g[0] /\ 0 \in 0 .. m
          OBVIOUS
        <5> QED
          BY <4>3, <3>1, <5>1
      <4> QED
        BY <4>1, <4>2, <4>3
    <3> HIDE DEF h
    <3>4. Part(h, m + 1)
      BY <3>2, <3>3
    <3> QED
      BY <3>4
  <2> HIDE DEF Have
  <2> QED
    BY <2>1, <2>2, InductionOverSets
<1>2. ASSUME NEW m \in Nat, NEW g, NEW n \in Nat, NEW h, Part(g, m), Part(h, n)
      PROVE  \A i \in Nat : i <= m /\ i <= n => g[i] = h[i]
  <2> DEFINE Same == {i \in Nat : i <= m /\ i <= n => g[i] = h[i]}
  <2>1. 0 \in Same
    <3>1. 0 \in 0 .. m /\ 0 \in 0 .. n
      OBVIOUS
    <3>2. g[0] = a /\ h[0] = a
      BY <3>1, <1>2
    <3> QED
      BY <3>2
  <2>2. ASSUME NEW i \in Nat, i \in Same PROVE i + 1 \in Same
    <3> SUFFICES ASSUME i + 1 <= m, i + 1 <= n PROVE g[i + 1] = h[i + 1]
      OBVIOUS
    <3>1. g[i] = h[i] /\ i + 1 \in 0 .. m /\ i + 1 \in 0 .. n /\ (i + 1) - 1 = i /\ i + 1 # 0
      BY <2>2
    <3> QED
      BY <3>1, <1>2
  <2> HIDE DEF Same
  <2>3. Nat \subseteq Same
    BY <2>1, <2>2, InductionOverSets
  <2> QED
    BY <2>3 DEF Same
<1> DEFINE P(m) == CHOOSE g : Part(g, m)
           f == [n \in Nat |-> P(n)[n]]
<1>3. \A m \in Nat : Part(P(m), m)
  BY <1>1
<1> HIDE DEF P, Part, Have
<1>4. f \in [Nat -> T]
  BY <1>3 DEF Part
<1>5. ASSUME NEW n \in Nat PROVE f[n] = IF n = 0 THEN a ELSE F[<<n, f[n - 1]>>]
  <2>1. CASE n = 0
    <3>1. Part(P(0), 0) /\ 0 \in 0 .. 0
      BY <1>3
    <3>2. P(0)[0] = a
      BY <3>1 DEF Part
    <3> QED
      BY <2>1, <3>2
  <2>2. CASE n # 0
    <3>1. n - 1 \in Nat /\ n - 1 <= n /\ n \in 0 .. n
      BY <2>2
    <3>2. P(n)[n - 1] = P(n - 1)[n - 1]
      BY <1>2, <1>3, <3>1
    <3>3. P(n)[n] = F[<<n, P(n)[n - 1]>>]
      BY <1>3, <2>2, <3>1 DEF Part
    <3> QED
      BY <2>2, <3>1, <3>2, <3>3
  <2> QED
    BY <2>1, <2>2
<1> HIDE DEF f
<1>6. f[0] = a /\ \A n \in Nat \ {0} : f[n] = F[<<n, f[n - 1]>>]
  BY <1>5
<1> QED
  BY <1>4, <1>6 DEF GivenBy

\* Where position a of a ring is.
LEMMA AroundTheRing ==
  ASSUME NEW room \in Nat \ {0}, NEW a \in Nat, a < room + room
  PROVE  a % room = IF a < room THEN a ELSE a - room
  OBVIOUS

-----------------------------------------------------------------------------
(* Clients                                                                  *)

LEMMA FourClients ==
  /\ Talk!Names = {"uart", "macro", "web", "telnet"}
  /\ DOMAIN Talk!clientq = 1 .. 4 /\ Len(Talk!clientq) = 4
  /\ \A i \in 1 .. 4 : Talk!clientq[i] \in Talk!Names
  BY DEF Talk!Names, Talk!clientq, Talk!Range

\* Each text is that before it with what character k of line n adds.
MeantFrom(c, n, text) ==
    /\ text \in [Nat -> Seq(Talk!Places)]
    /\ text[0] = <<>>
    /\ \A k \in Nat \ {0} :
          LET kind == Talk!Kind(c, <<n, k>>) IN
          /\ kind \in Talk!Realtime \cup {"CR"} => text[k] = text[k - 1]
          /\ kind = "BS" => text[k] = IF text[k - 1] = <<>> THEN <<>> ELSE Talk!Front(text[k - 1])
          /\ kind \notin Talk!Realtime \cup {"CR", "BS"} => text[k] = Append(text[k - 1], <<n, k>>)

\* What the first k characters of a line are meant to be, from what the first k - 1 are.
LEMMA MeantByCharacter ==
  ASSUME NEW c, NEW n \in Nat
  PROVE  MeantFrom(c, n, Talk!MeantTo(c, n)) /\ Talk!MeantTo(c, n)[0] = <<>>
<1> DEFINE Step(k, text) == CASE Talk!Kind(c, <<n, k>>) \in Talk!Realtime \cup {"CR"} -> text
                              [] Talk!Kind(c, <<n, k>>) = "BS" -> IF text = <<>> THEN <<>> ELSE Talk!Front(text)
                              [] OTHER -> Append(text, <<n, k>>)
           T == Seq(Talk!Places)
           F == [p \in Nat \X T |-> Step(p[1], p[2])]
           Is(f) == f = [k \in Nat |-> IF k = 0 THEN <<>> ELSE Step(k, f[k - 1])]
<1>1. ASSUME NEW k \in Nat, NEW text \in T PROVE Step(k, text) \in T
  <2>1. <<n, k>> \in Talk!Places
    BY DEF Talk!Places
  <2>2. Append(text, <<n, k>>) \in T
    BY <2>1
  <2>3. text # <<>> => Talk!Front(text) \in T
    BY DEF Talk!Front
  <2>4. \/ Step(k, text) = text \/ Step(k, text) = <<>>
        \/ text # <<>> /\ Step(k, text) = Talk!Front(text)
        \/ Step(k, text) = Append(text, <<n, k>>)
    OBVIOUS
  <2>5. <<>> \in T
    OBVIOUS
  <2> QED
    BY <2>2, <2>3, <2>4, <2>5
<1> HIDE DEF Step
<1>2. F \in [Nat \X T -> T]
  BY <1>1
<1>3. <<>> \in T
  OBVIOUS
<1>4. PICK f \in [Nat -> T] : GivenBy(f, <<>>, F)
  <2> HIDE DEF F, T
  <2> QED
    BY ONLY <1>2, <1>3, FunctionByRecursion, Zenon
<1>5. Is(f)
  <2>1. ASSUME NEW k \in Nat \ {0} PROVE f[k] = Step(k, f[k - 1])
    <3>1. k - 1 \in Nat /\ f[k - 1] \in T
      BY <1>4
    <3>2. F[<<k, f[k - 1]>>] = Step(k, f[k - 1])
      BY <3>1
    <3> QED
      BY <3>2, <1>4 DEF GivenBy
  <2>2. f = [k \in Nat |-> f[k]]
    BY <1>4
  <2> HIDE DEF F
  <2> QED
    BY <2>1, <2>2, <1>4 DEF GivenBy
<1> DEFINE g == Talk!MeantTo(c, n)
<1>6. g = CHOOSE h : Is(h)
  BY DEF Talk!MeantTo, Step
<1> HIDE DEF g, Is
<1>7. Is(g)
  BY <1>5, <1>6
<1>8. g \in [Nat -> T]
  <2> DEFINE Good == {k \in Nat : g[k] \in T}
  <2>1. 0 \in Good
    BY <1>7, <1>3 DEF Is
  <2>2. ASSUME NEW k \in Nat, k \in Good PROVE k + 1 \in Good
    <3>1. k + 1 \in Nat /\ k + 1 # 0 /\ (k + 1) - 1 = k /\ g[k] \in T
      BY <2>2
    <3>2. g[k + 1] = Step(k + 1, g[k])
      BY <1>7, <3>1 DEF Is
    <3> QED
      BY <1>1, <3>1, <3>2
  <2> HIDE DEF Good
  <2>3. Nat \subseteq Good
    BY <2>1, <2>2, InductionOverSets
  <2>4. \A k \in Nat : g[k] \in T
    BY <2>3 DEF Good
  <2>5. g = [k \in Nat |-> g[k]]
    BY <1>7 DEF Is
  <2> QED
    BY <2>4, <2>5
<1>9. g[0] = <<>> /\ \A k \in Nat \ {0} : g[k] = Step(k, g[k - 1])
  BY <1>7 DEF Is
<1>10. ASSUME NEW k, NEW text
       PROVE  LET kind == Talk!Kind(c, <<n, k>>) IN
              /\ kind \in Talk!Realtime \cup {"CR"} => Step(k, text) = text
              /\ kind = "BS" => Step(k, text) = IF text = <<>> THEN <<>> ELSE Talk!Front(text)
              /\ kind \notin Talk!Realtime \cup {"CR", "BS"} => Step(k, text) = Append(text, <<n, k>>)
  BY DEF Step, Talk!Realtime
<1> QED
  BY <1>8, <1>9, <1>10 DEF g, MeantFrom

\* What is put into a buffer that has room for it stands behind what is in it.
LEMMA PushedBehind ==
  ASSUME Talk!ClientsAssumption, Talk!ClientsTyped, NEW c \in Talk!Names,
         NEW data \in Seq(Talk!Places), Len(data) <= Talk!Free(c)
  PROVE  LET r == Talk!Pushed(c, data)
             slot(i) == (v2[c].pos + i) % Room[c]
         IN /\ r \in [cells : [0 .. Room[c] - 1 -> Talk!Places], pos : 0 .. Room[c] - 1, size : 0 .. Room[c]]
            /\ r.pos = v2[c].pos /\ r.size = v2[c].size + Len(data)
            /\ \A i \in 0 .. v2[c].size - 1 : r.cells[slot(i)] = v2[c].cells[slot(i)]
            /\ \A i \in 1 .. Len(data) : r.cells[slot(v2[c].size + i - 1)] = data[i]
<1> DEFINE R == Room[c]
           pos == v2[c].pos
           size == v2[c].size
           old == v2[c].cells
           start == pos + size
           first == IF start > R THEN start - R ELSE start
           cell(i) == (first + i - 1) % R
           Cells == [0 .. R - 1 -> Talk!Places]
           new == [j \in 0 .. R - 1 |-> IF \E i \in DOMAIN data : cell(i) = j
                                        THEN data[CHOOSE i \in DOMAIN data : cell(i) = j] ELSE old[j]]
           slot(i) == (pos + i) % R
<1>1. R \in Nat \ {0} /\ pos \in 0 .. R - 1 /\ size \in 0 .. R /\ old \in Cells
  BY DEF Talk!ClientsAssumption, Talk!ClientsTyped
<1>2. size + Len(data) <= R /\ Len(data) \in Nat /\ DOMAIN data = 1 .. Len(data)
  BY <1>1 DEF Talk!Free
<1>3. v2[c] \in [cells : Cells, pos : 0 .. R - 1, size : 0 .. R]
  BY DEF Talk!ClientsTyped
<1>4. Talk!Pushed(c, data) = [v2[c] EXCEPT !.size = @ + Len(data), !.cells = new]
  BY DEF Talk!Pushed
<1> HIDE DEF R, pos, size, old
<1>6. ASSUME NEW i \in 1 .. Len(data)
      PROVE  cell(i) = slot(size + i - 1) /\ cell(i) \in 0 .. R - 1
             /\ cell(i) = IF pos + size + i - 1 < R THEN pos + size + i - 1 ELSE pos + size + i - 1 - R
  <2>1. slot(size + i - 1) = IF pos + size + i - 1 < R THEN pos + size + i - 1 ELSE pos + size + i - 1 - R
    <3> DEFINE a == pos + (size + i - 1)
    <3>1. a \in Nat /\ a < R + R /\ a = pos + size + i - 1
      BY <1>1, <1>2
    <3>2. a % R = IF a < R THEN a ELSE a - R
      <4> HIDE DEF a
      <4> QED
        BY <1>1, <3>1, AroundTheRing
    <3> QED
      BY <1>1, <3>1, <3>2
  <2>2. cell(i) = IF pos + size + i - 1 < R THEN pos + size + i - 1 ELSE pos + size + i - 1 - R
    <3> DEFINE a == first + i - 1
    <3>1. /\ a \in Nat /\ a < R + R
          /\ (IF a < R THEN a ELSE a - R) = IF pos + size + i - 1 < R THEN pos + size + i - 1 ELSE pos + size + i - 1 - R
      BY <1>1, <1>2
    <3>2. cell(i) = a % R
      OBVIOUS
    <3> HIDE DEF a, cell
    <3>3. a % R = IF a < R THEN a ELSE a - R
      BY <1>1, <3>1, AroundTheRing
    <3> QED
      BY <3>1, <3>2, <3>3
  <2> QED
    BY <2>1, <2>2, <1>1, <1>2
<1>7. ASSUME NEW i \in 0 .. size - 1
      PROVE  slot(i) \in 0 .. R - 1 /\ slot(i) = IF pos + i < R THEN pos + i ELSE pos + i - R
  <2> DEFINE a == pos + i
  <2>1. a \in Nat /\ a < R + R /\ a = pos + i
    BY <1>1
  <2>2. slot(i) = a % R
    OBVIOUS
  <2> HIDE DEF a, slot
  <2>3. a % R = IF a < R THEN a ELSE a - R
    BY <1>1, <2>1, AroundTheRing
  <2> QED
    BY <1>1, <2>1, <2>2, <2>3
<1> HIDE DEF cell, slot
<1>8. new \in Cells
  <2>1. ASSUME NEW j \in 0 .. R - 1 PROVE new[j] \in Talk!Places
    <3>1. CASE \E i \in DOMAIN data : cell(i) = j
      <4> DEFINE k == CHOOSE i \in DOMAIN data : cell(i) = j
      <4>1. k \in DOMAIN data
        BY <3>1
      <4> QED
        BY <4>1, <3>1
    <3>2. CASE ~ \E i \in DOMAIN data : cell(i) = j
      BY <3>2, <1>1
    <3> QED
      BY <3>1, <3>2
  <2> QED
    BY <2>1
<1>9. ASSUME NEW i \in 0 .. size - 1 PROVE new[slot(i)] = old[slot(i)]
  <2>1. ASSUME NEW k \in DOMAIN data PROVE cell(k) # slot(i)
    <3>1. k \in 1 .. Len(data)
      BY <1>2
    <3>2. cell(k) = IF pos + size + k - 1 < R THEN pos + size + k - 1 ELSE pos + size + k - 1 - R
      BY <3>1, <1>6
    <3>3. slot(i) = IF pos + i < R THEN pos + i ELSE pos + i - R
      BY <1>7
    <3> QED
      BY <1>1, <1>2, <3>1, <3>2, <3>3
  <2> QED
    BY <2>1, <1>7
<1>10. ASSUME NEW i \in 1 .. Len(data) PROVE new[slot(size + i - 1)] = data[i]
  <2> DEFINE j == slot(size + i - 1)
             k == CHOOSE n \in DOMAIN data : cell(n) = j
  <2>1. j \in 0 .. R - 1 /\ cell(i) = j /\ i \in DOMAIN data
    BY <1>6, <1>2
  <2>2. k \in DOMAIN data /\ cell(k) = j
    BY <2>1
  <2>3. k = i
    <3>1. k \in 1 .. Len(data) /\ cell(k) = cell(i)
      BY <2>1, <2>2, <1>2
    <3> HIDE DEF k, j
    <3> QED
      BY <3>1, <1>6, <1>1, <1>2
  <2>4. new[j] = data[k]
    <3> HIDE DEF j
    <3> QED
      BY <2>1
  <2> QED
    BY <2>3, <2>4
<1>11. size + Len(data) \in 0 .. R
  BY <1>1, <1>2
<1>12. LET r == Talk!Pushed(c, data) IN
       /\ r \in [cells : Cells, pos : 0 .. R - 1, size : 0 .. R]
       /\ r.pos = pos /\ r.size = size + Len(data) /\ r.cells = new
  <2>1. size = v2[c].size /\ pos = v2[c].pos
    BY DEF size, pos
  <2> HIDE DEF new, Cells
  <2> QED
    BY ONLY <1>3, <1>4, <1>8, <1>11, <2>1
<1> HIDE DEF new
<1> QED
  BY <1>9, <1>10, <1>12 DEF R, pos, size, old, slot

\* What is read is the first character, and the others move up.
LEMMA ReadOff ==
  ASSUME Talk!ClientsAssumption, Talk!ClientsTyped, NEW c \in Talk!Names, v2[c].size > 0
  PROVE  LET r == Talk!Read(v2[c], Room[c])
         IN /\ r \in [cells : [0 .. Room[c] - 1 -> Talk!Places], pos : 0 .. Room[c] - 1, size : 0 .. Room[c]]
            /\ r.size = v2[c].size - 1 /\ r.cells = v2[c].cells
            /\ \A i \in 0 .. v2[c].size - 2 : (r.pos + i) % Room[c] = (v2[c].pos + (i + 1)) % Room[c]
            /\ Talk!Character(c) = Talk!Coming(c, 0)
<1> DEFINE R == Room[c]
           pos == v2[c].pos
           size == v2[c].size
           Cells == [0 .. R - 1 -> Talk!Places]
           new == IF pos + 1 > R - 1 THEN 0 ELSE pos + 1
           r == Talk!Read(v2[c], Room[c])
<1>1. R \in Nat \ {0} /\ pos \in 0 .. R - 1 /\ size \in 1 .. R
  BY DEF Talk!ClientsAssumption, Talk!ClientsTyped
<1>2. v2[c] \in [cells : Cells, pos : 0 .. R - 1, size : 0 .. R]
  BY DEF Talk!ClientsTyped
<1>3. r = [v2[c] EXCEPT !.pos = new, !.size = size - 1]
  BY DEF Talk!Read
<1>4. new \in 0 .. R - 1 /\ size - 1 \in 0 .. R
  BY <1>1
<1>5. /\ r \in [cells : Cells, pos : 0 .. R - 1, size : 0 .. R]
      /\ r.size = size - 1 /\ r.cells = v2[c].cells /\ r.pos = new
  <2> HIDE DEF new, Cells, r
  <2> QED
    BY ONLY <1>2, <1>3, <1>4
<1> HIDE DEF r, R, pos, size
<1>6. ASSUME NEW i \in 0 .. size - 2 PROVE (new + i) % R = (pos + (i + 1)) % R
  <2> DEFINE a == new + i
             b == pos + (i + 1)
  <2>1. /\ a \in Nat /\ a < R + R /\ b \in Nat /\ b < R + R
        /\ (IF a < R THEN a ELSE a - R) = (IF b < R THEN b ELSE b - R)
    BY <1>1
  <2> HIDE DEF a, b
  <2>2. a % R = IF a < R THEN a ELSE a - R
    BY <1>1, <2>1, AroundTheRing
  <2>3. b % R = IF b < R THEN b ELSE b - R
    BY <1>1, <2>1, AroundTheRing
  <2>4. a % R = b % R
    BY <2>1, <2>2, <2>3
  <2> QED
    BY <2>4 DEF a, b
<1>7. Talk!Character(c) = Talk!Coming(c, 0)
  <2>1. pos + 0 = pos /\ pos % R = pos
    BY <1>1
  <2>2. 0 < v2[c].size
    BY <1>1 DEF size
  <2> QED
    BY <2>1, <2>2 DEF Talk!Character, Talk!Coming, pos, R
<1> QED
  BY <1>5, <1>6, <1>7 DEF r, R, pos, size

\* What kinds of characters there are; a line's end comes behind its last character.
LEMMA KindsOfCharacters ==
  ASSUME Talk!ClientsAssumption, Talk!ClientsTyped, NEW c \in Talk!Names, NEW ch, Talk!Place(c, ch)
  PROVE  /\ v1[c] \in Seq(Seq({"x", "BS", "CR", "RT", "RESET"}))
         /\ ch[1] \in Nat \ {0} /\ ch[2] \in Nat \ {0} /\ Len(v1[c][ch[1]]) \in Nat
         /\ Talk!Kind(c, ch) \in {"x", "BS", "CR", "RT", "RESET", "NL"}
         /\ Talk!Kind(c, ch) = "NL" <=> ch[2] = Len(v1[c][ch[1]]) + 1
<1>1. v1[c] \in Seq(Seq({"x", "BS", "CR", "RT", "RESET"}))
  BY DEF Talk!ClientsAssumption, Talk!ClientsTyped
<1>2. ch[1] \in 1 .. Len(v1[c]) /\ v1[c][ch[1]] \in Seq({"x", "BS", "CR", "RT", "RESET"})
  BY <1>1 DEF Talk!Place
<1>3. ch[2] \in 1 .. Len(v1[c][ch[1]]) + 1 /\ Len(v1[c][ch[1]]) \in Nat
  BY <1>2 DEF Talk!Place
<1>4. ch[2] <= Len(v1[c][ch[1]]) => v1[c][ch[1]][ch[2]] \in {"x", "BS", "CR", "RT", "RESET"}
  BY <1>2, <1>3
<1>5. CASE ch[2] <= Len(v1[c][ch[1]])
  <2>1. Talk!Kind(c, ch) = v1[c][ch[1]][ch[2]]
    BY <1>5 DEF Talk!Kind
  <2>2. Talk!Kind(c, ch) \in {"x", "BS", "CR", "RT", "RESET"} /\ ch[2] # Len(v1[c][ch[1]]) + 1
    BY <2>1, <1>3, <1>4, <1>5
  <2> QED
    BY <1>1, <1>2, <1>3, <2>2
<1>6. CASE ~(ch[2] <= Len(v1[c][ch[1]]))
  <2>1. Talk!Kind(c, ch) = "NL"
    BY <1>6 DEF Talk!Kind
  <2>2. ch[2] = Len(v1[c][ch[1]]) + 1
    BY <1>3, <1>6
  <2> QED
    <3>1. ch[1] \in Nat \ {0} /\ ch[2] \in Nat \ {0}
      BY <1>2, <1>3
    <3> QED
      BY ONLY <1>1, <1>3, <2>1, <2>2, <3>1
<1> QED
  BY <1>5, <1>6

\* b stands right behind a in what c sends.
Succeeds(c, a, b) == \/ Talk!Kind(c, a) # "NL" /\ b = <<a[1], a[2] + 1>>
                     \/ Talk!Kind(c, a) = "NL" /\ b = <<a[1] + 1, 1>>

\* data are all characters of the lines from first up to next.
Chain(c, data, first, next) ==
    /\ data \in Seq(Talk!Places) /\ Len(data) > 0 /\ data[1] = <<first, 1>>
    /\ \A i \in 1 .. Len(data) : Talk!Place(c, data[i])
    /\ \A i \in 1 .. Len(data) - 1 : Succeeds(c, data[i], data[i + 1])
    /\ Talk!Kind(c, data[Len(data)]) = "NL" /\ data[Len(data)][1] + 1 = next

LEMMA WholeIsChain ==
  ASSUME Talk!ClientsAssumption, Talk!ClientsTyped, NEW c \in Talk!Names, NEW n \in DOMAIN v1[c]
  PROVE  Chain(c, Talk!Whole(c, n), n, n + 1)
<1> DEFINE data == Talk!Whole(c, n)
           len == Len(v1[c][n])
<1>1. n \in Nat /\ len \in Nat
  <2>1. v1[c] \in Seq(Seq({"x", "BS", "CR", "RT", "RESET"}))
    BY DEF Talk!ClientsAssumption, Talk!ClientsTyped
  <2> QED
    BY <2>1
<1>2. data = [k \in 1 .. len + 1 |-> <<n, k>>]
  BY DEF Talk!Whole
<1>3. ASSUME NEW k \in 1 .. len + 1
      PROVE  Talk!Place(c, <<n, k>>) /\ (Talk!Kind(c, <<n, k>>) = "NL" <=> k = len + 1) /\ <<n, k>> \in Talk!Places
  <2>1. Talk!Place(c, <<n, k>>)
    BY DEF Talk!Place
  <2> QED
    BY <1>1, <2>1, KindsOfCharacters DEF Talk!Places
<1> HIDE DEF data, len
<1>4. data \in Seq(Talk!Places) /\ Len(data) = len + 1 /\ \A k \in 1 .. len + 1 : data[k] = <<n, k>>
  <2>1. data \in [1 .. len + 1 -> Talk!Places]
    BY <1>2, <1>3
  <2> QED
    BY <1>1, <1>2, <2>1
<1>5. ASSUME NEW i \in 1 .. Len(data) - 1 PROVE Succeeds(c, data[i], data[i + 1])
  <2>1. i \in 1 .. len + 1 /\ i + 1 \in 1 .. len + 1 /\ i # len + 1
    BY <1>1, <1>4
  <2>2. data[i] = <<n, i>> /\ data[i + 1] = <<n, i + 1>>
    BY <2>1, <1>4
  <2>3. Talk!Kind(c, <<n, i>>) # "NL"
    BY <2>1, <1>3
  <2> QED
    BY <2>2, <2>3 DEF Succeeds
<1>6. Talk!Kind(c, data[Len(data)]) = "NL" /\ data[Len(data)][1] + 1 = n + 1 /\ data[1] = <<n, 1>> /\ Len(data) > 0
  <2>1. len + 1 \in 1 .. len + 1 /\ 1 \in 1 .. len + 1
    BY <1>1
  <2>2. data[1] = <<n, 1>> /\ data[len + 1] = <<n, len + 1>> /\ Len(data) = len + 1
    BY <2>1, <1>4
  <2>3. Talk!Kind(c, <<n, len + 1>>) = "NL"
    BY <2>1, <1>3
  <2>4. data[len + 1][1] = n
    BY <2>2
  <2> QED
    BY <2>2, <2>3, <2>4, <1>1
<1>7. \A i \in 1 .. Len(data) : Talk!Place(c, data[i])
  BY <1>3, <1>4
<1> QED
  BY <1>4, <1>5, <1>6, <1>7 DEF Chain, data

LEMMA ChainsJoin ==
  ASSUME NEW c, NEW d, NEW e, NEW first, NEW next \in Int, NEW after, Chain(c, d, first, next), Chain(c, e, next, after)
  PROVE  Chain(c, d \o e, first, after)
<1> DEFINE j == d \o e
           m == Len(d)
           n == Len(e)
<1>1. d \in Seq(Talk!Places) /\ e \in Seq(Talk!Places) /\ m \in Nat \ {0} /\ n \in Nat \ {0}
  BY DEF Chain
<1>2. /\ j \in Seq(Talk!Places) /\ Len(j) = m + n
      /\ \A i \in 1 .. m : j[i] = d[i]
      /\ \A i \in 1 .. n : j[m + i] = e[i]
  BY <1>1
<1>3. \A i \in m + 1 .. m + n : i - m \in 1 .. n /\ j[i] = e[i - m]
  BY <1>1, <1>2
<1> HIDE DEF j, m, n
<1>4. d[1] = <<first, 1>> /\ e[1] = <<next, 1>> /\ Talk!Kind(c, d[m]) = "NL" /\ d[m][1] + 1 = next
  BY DEF Chain, m
<1>5. \A i \in 1 .. m + n : Talk!Place(c, j[i])
  <2>1. \A i \in 1 .. m : Talk!Place(c, d[i])
    BY DEF Chain, m
  <2>2. \A i \in 1 .. n : Talk!Place(c, e[i])
    BY DEF Chain, n
  <2>3. \A i \in 1 .. m + n : i \in 1 .. m \/ i \in m + 1 .. m + n
    BY <1>1
  <2> QED
    BY <1>2, <1>3, <2>1, <2>2, <2>3
<1>6. ASSUME NEW i \in 1 .. m + n - 1 PROVE Succeeds(c, j[i], j[i + 1])
  <2>1. CASE i < m
    <3>1. i \in 1 .. m /\ i + 1 \in 1 .. m /\ i \in 1 .. m - 1
      BY <2>1, <1>1
    <3> QED
      BY <3>1, <1>2 DEF Chain, m
  <2>2. CASE i = m
    <3>1. j[i] = d[m] /\ j[i + 1] = e[1]
      BY <2>2, <1>1, <1>2
    <3> QED
      BY <3>1, <1>4 DEF Succeeds
  <2>3. CASE i > m
    <3> DEFINE k == i - m
    <3>1. k \in 1 .. n - 1 /\ i \in m + 1 .. m + n /\ i + 1 \in m + 1 .. m + n /\ (i + 1) - m = k + 1
      BY <2>3, <1>1
    <3>2. j[i] = e[k] /\ j[i + 1] = e[k + 1]
      BY <3>1, <1>3
    <3>3. \A l \in 1 .. n - 1 : Succeeds(c, e[l], e[l + 1])
      BY DEF Chain, n
    <3> HIDE DEF k
    <3> QED
      BY <3>1, <3>2, <3>3
  <2> QED
    BY <2>1, <2>2, <2>3, <1>1
<1>7. Talk!Kind(c, j[m + n]) = "NL" /\ j[m + n][1] + 1 = after
  <2>1. j[m + n] = e[n]
    BY <1>1, <1>2
  <2> QED
    BY <2>1 DEF Chain, n
<1>8. j[1] = d[1] /\ m + n > 0
  BY <1>1, <1>2
<1>9. Chain(c, j, first, after)
  <2>1. Len(j) = m + n
    BY <1>2
  <2>2. j \in Seq(Talk!Places) /\ Len(j) > 0 /\ j[1] = <<first, 1>>
    BY <2>1, <1>2, <1>4, <1>8
  <2>3. \A i \in 1 .. Len(j) : Talk!Place(c, j[i])
    BY <2>1, <1>5
  <2>4. \A i \in 1 .. Len(j) - 1 : Succeeds(c, j[i], j[i + 1])
    BY <1>1, <2>1, <1>6
  <2>5. Talk!Kind(c, j[Len(j)]) = "NL" /\ j[Len(j)][1] + 1 = after
    BY <2>1, <1>7
  <2> QED
    BY ONLY <2>2, <2>3, <2>4, <2>5 DEF Chain
<1> QED
  BY <1>9 DEF j

\* Several whole lines are a chain.
LEMMA SeveralAreChain ==
  ASSUME Talk!ClientsAssumption, Talk!ClientsTyped, NEW c \in Talk!Names,
         NEW first \in 1 .. Len(v1[c]), NEW last \in first .. Len(v1[c])
  PROVE  Chain(c, Talk!Several(c, first)[last - first + 1], first, last + 1)
<1> DEFINE N == Len(v1[c]) + 1 - first
           Step(m, s) == s \o Talk!Whole(c, first + m - 1)
           T == Seq(Talk!Places)
           F == [p \in Nat \X T |-> IF p[1] \in 1 .. N THEN Step(p[1], p[2]) ELSE <<>>]
           Is(f) == f = [m \in 0 .. N |-> IF m = 0 THEN <<>> ELSE Step(m, f[m - 1])]
           g == Talk!Several(c, first)
<1>1. Len(v1[c]) \in Nat /\ DOMAIN v1[c] = 1 .. Len(v1[c]) /\ N \in Nat /\ first \in Nat /\ last \in Nat
  <2>1. v1[c] \in Seq(Seq({"x", "BS", "CR", "RT", "RESET"}))
    BY DEF Talk!ClientsAssumption, Talk!ClientsTyped
  <2>2. Len(v1[c]) \in Nat /\ DOMAIN v1[c] = 1 .. Len(v1[c])
    BY <2>1
  <2> QED
    BY <2>2
<1>2. ASSUME NEW m \in 1 .. N
      PROVE  /\ first + m - 1 \in DOMAIN v1[c]
             /\ Chain(c, Talk!Whole(c, first + m - 1), first + m - 1, first + m)
             /\ Talk!Whole(c, first + m - 1) \in T
  <2> DEFINE n == first + m - 1
  <2>1. n \in DOMAIN v1[c] /\ n + 1 = first + m
    BY <1>1
  <2> HIDE DEF n
  <2>2. Chain(c, Talk!Whole(c, n), n, n + 1)
    BY <2>1, WholeIsChain
  <2>3. Talk!Whole(c, n) \in T
    BY <2>2 DEF Chain
  <2> QED
    BY <2>1, <2>2, <2>3 DEF n
<1> HIDE DEF N
<1>3. F \in [Nat \X T -> T]
  <2>1. ASSUME NEW m \in Nat, NEW s \in T PROVE (IF m \in 1 .. N THEN Step(m, s) ELSE <<>>) \in T
    <3>1. m \in 1 .. N => Step(m, s) \in T
      <4> HIDE DEF T
      <4>1. m \in 1 .. N => Talk!Whole(c, first + m - 1) \in T
        BY <1>2
      <4> QED
        BY <4>1 DEF T
    <3> QED
      BY <3>1
  <2> HIDE DEF Step, T
  <2> QED
    BY <2>1
<1>4. PICK f \in [Nat -> T] : GivenBy(f, <<>>, F)
  <2>1. <<>> \in T
    OBVIOUS
  <2> HIDE DEF F, T
  <2> QED
    BY <2>1, <1>3, FunctionByRecursion
<1> DEFINE h == [m \in 0 .. N |-> f[m]]
<1>5. Is(h)
  <2>1. ASSUME NEW m \in 0 .. N PROVE h[m] = IF m = 0 THEN <<>> ELSE Step(m, h[m - 1])
    <3>1. CASE m = 0
      BY <3>1, <1>4 DEF GivenBy
    <3>2. CASE m # 0
      <4>1. m \in Nat \ {0} /\ m \in 1 .. N /\ m - 1 \in 0 .. N /\ m - 1 \in Nat
        <5>1. N \in Nat
          BY <1>1
        <5> QED
          BY <3>2, <5>1
      <4>2. f[m - 1] \in T /\ f[m] = F[<<m, f[m - 1]>>]
        BY <4>1, <1>4 DEF GivenBy
      <4>3. F[<<m, f[m - 1]>>] = Step(m, f[m - 1])
        <5> HIDE DEF Step, T
        <5> QED
          BY <4>1, <4>2
      <4> HIDE DEF F, Step
      <4> QED
        BY <4>1, <4>2, <4>3, <3>2
    <3> QED
      BY <3>1, <3>2
  <2> HIDE DEF Step
  <2> QED
    BY <2>1
<1>6. g = CHOOSE e : Is(e)
  BY DEF Talk!Several, N
<1> HIDE DEF g, Is, h, F
<1>7. Is(g)
  BY <1>5, <1>6
<1> HIDE DEF Step
<1>8. g[0] = <<>> /\ \A m \in 0 .. N : m # 0 => g[m] = Step(m, g[m - 1])
  <2>1. 0 \in 0 .. N
    BY <1>1
  <2> QED
    BY <1>7, <2>1 DEF Is
<1> DEFINE Good == {k \in Nat : k + 1 \in 1 .. N => Chain(c, g[k + 1], first, first + (k + 1))}
<1>9. 0 \in Good
  <2> SUFFICES ASSUME 1 \in 1 .. N PROVE Chain(c, g[1], first, first + 1)
    OBVIOUS
  <2>1. g[1] = <<>> \o Talk!Whole(c, first + 1 - 1) /\ first + 1 - 1 = first
    <3>1. 1 \in 0 .. N /\ 1 # 0 /\ 1 - 1 = 0
      OBVIOUS
    <3>2. g[1] = Step(1, g[0])
      BY <3>1, <1>8
    <3> QED
      BY <3>2, <1>8, <1>1 DEF Step
  <2>2. Chain(c, Talk!Whole(c, first), first, first + 1) /\ Talk!Whole(c, first) \in T
    BY <2>1, <1>2
  <2>3. g[1] = Talk!Whole(c, first)
    BY <2>1, <2>2
  <2> QED
    BY <2>2, <2>3
<1>10. ASSUME NEW k \in Nat, k \in Good PROVE k + 1 \in Good
  <2> SUFFICES (k + 1) + 1 \in 1 .. N => Chain(c, g[(k + 1) + 1], first, first + ((k + 1) + 1))
    <3>1. k + 1 \in Nat
      OBVIOUS
    <3> QED
      BY <3>1
  <2> SUFFICES ASSUME (k + 1) + 1 \in 1 .. N PROVE Chain(c, g[(k + 1) + 1], first, first + ((k + 1) + 1))
    OBVIOUS
  <2> DEFINE m == k + 2
  <2>1. /\ m = (k + 1) + 1 /\ m \in 1 .. N /\ m # 0 /\ m - 1 = k + 1 /\ m - 1 \in 1 .. N /\ m \in 0 .. N
        /\ first + m - 1 = first + (k + 1) /\ first + m = first + ((k + 1) + 1)
    BY <1>1
  <2>2. Chain(c, g[k + 1], first, first + (k + 1))
    BY <1>10, <2>1
  <2> HIDE DEF m
  <2>3. g[m] = g[m - 1] \o Talk!Whole(c, first + m - 1)
    BY <1>8, <2>1 DEF Step
  <2>4. Chain(c, Talk!Whole(c, first + m - 1), first + m - 1, first + m)
    BY <1>2, <2>1
  <2>5. first + (k + 1) \in Int
    BY <1>1
  <2>6. Chain(c, g[k + 1] \o Talk!Whole(c, first + (k + 1)), first, first + ((k + 1) + 1))
    BY <2>1, <2>2, <2>4, <2>5, ChainsJoin
  <2> QED
    BY <2>1, <2>3, <2>6
<1>11. last - first \in Nat /\ last - first \in Good
  <2> HIDE DEF Good
  <2>1. Nat \subseteq Good
    BY <1>9, <1>10, InductionOverSets
  <2> QED
    BY <2>1, <1>1
<1>12. (last - first) + 1 \in 1 .. N /\ (last - first) + 1 = last - first + 1 /\ first + ((last - first) + 1) = last + 1
  BY <1>1 DEF N
<1> QED
  BY <1>11, <1>12 DEF g

\* What a line is meant to be does not change.
LEMMA MeantStays ==
  ASSUME NEW c, NEW n, v1' = v1
  PROVE  Talk!MeantTo(c, n)' = Talk!MeantTo(c, n) /\ Talk!Meant(c, n)' = Talk!Meant(c, n)
  BY DEF Talk!MeantTo, Talk!Meant, Talk!Kind

\* While lines arrive, what the clients have read stays as it is.
Arrives == UNCHANGED <<v1, v4, v5, v6, v7, v9, v10>> /\ v11' \in [Talk!Names -> SUBSET Nat]
           /\ \A c \in Talk!Names : v11[c] \subseteq v11'[c]

\* Of client d nothing is to be read yet, and lines that it sends next are lost.
Skips(d) ==
    /\ Talk!Coming(d, 0)'[1] > Talk!Coming(d, 0)[1]
    /\ Talk!Coming(d, 0)[1] .. Talk!Coming(d, 0)'[1] - 1 \subseteq v11'[d]
    /\ Talk!Coming(d, 0)'[1] \notin v11'[d] => Talk!Coming(d, 0)'[2] = 1 /\ Talk!Begun(d) = <<>>
    /\ d \notin Talk!Lossy /\ Talk!Coming(d, 0)'[2] = 1 => Talk!Begun(d) = <<>>

\* What is read next stays, or skips lines that are lost.
LEMMA ArrivalKeeps ==
  ASSUME Talk!ClientsAssumption, Talk!ClientsInv, Arrives,
         Talk!ClientsTyped', Talk!PlacesTrue', Talk!InOrder',
         \A d \in Talk!Names : Talk!Coming(d, 0) \in Talk!Places /\ Talk!Coming(d, 0)' \in Talk!Places,
         \A d \in Talk!Names : Talk!Coming(d, 0)' = Talk!Coming(d, 0) \/ Skips(d)
  PROVE  Talk!ClientsInv'
<1> USE DEF Talk!ClientsInv
<1>1. ASSUME NEW d \in Talk!Names
      PROVE  /\ Talk!Begun(d)' = Talk!Begun(d) /\ Talk!AtHand(d)' = Talk!AtHand(d)
             /\ Talk!Coming(d, 0)'[1] \in Nat /\ Talk!Coming(d, 0)[1] \in Nat
             /\ Talk!Coming(d, 0)'[1] >= Talk!Coming(d, 0)[1]
  <2>1. Talk!Begun(d)' = Talk!Begun(d) /\ Talk!AtHand(d)' = Talk!AtHand(d)
    BY DEF Arrives, Talk!Begun, Talk!AtHand
  <2>3. Talk!Coming(d, 0)'[1] \in Nat /\ Talk!Coming(d, 0)[1] \in Nat
    BY DEF Talk!Places
  <2>4. Talk!Coming(d, 0)'[1] >= Talk!Coming(d, 0)[1]
    BY <2>3 DEF Skips
  <2> QED
    BY <2>1, <2>3, <2>4
<1>2. Talk!Continued'
  <2>1. ASSUME NEW d \in Talk!Names, NEW n \in DOMAIN v1[d], n \notin v11'[d], NEW k \in 1 .. Len(v1[d][n]) + 1,
               Talk!Coming(d, 0)' = <<n, k>>
        PROVE  Talk!Begun(d)' = Talk!MeantTo(d, n)'[k - 1]
    <3>1. Talk!MeantTo(d, n)' = Talk!MeantTo(d, n)
      BY MeantStays DEF Arrives
    <3>2. n \notin v11[d]
      BY <2>1 DEF Arrives
    <3>3. CASE Talk!Coming(d, 0)' = Talk!Coming(d, 0)
      BY <3>1, <3>2, <3>3, <1>1, <2>1 DEF Talk!Continued
    <3>4. CASE Skips(d)
      <4>1. n \in Nat
        BY <2>1, <1>1
      <4>2. Talk!MeantTo(d, n)[0] = <<>>
        BY <4>1, MeantByCharacter
      <4>3. k = 1 /\ Talk!Begun(d) = <<>>
        BY <3>4, <2>1 DEF Skips
      <4> QED
        BY <3>1, <4>2, <4>3, <1>1
    <3> QED
      BY <3>3, <3>4
  <2>2. ASSUME NEW d \in Talk!Names, d \notin Talk!Lossy, Talk!Coming(d, 0)'[2] = 1
        PROVE  Talk!Begun(d)' = <<>>
    BY <2>2, <1>1 DEF Skips, Talk!Continued
  <2>3. v1' = v1 /\ Talk!Lossy' = Talk!Lossy
    BY DEF Arrives, Talk!Lossy
  <2> QED
    BY <2>1, <2>2, <2>3 DEF Talk!Continued
<1>3. Talk!InTurn'
  <2> SUFFICES ASSUME NEW d \in Talk!Names
      PROVE  /\ \A i \in DOMAIN v10'[d] : /\ v10'[d][i] < Talk!Coming(d, 0)'[1]
                                          /\ \A n \in Talk!AtHand(d)' : v10'[d][i] < n
             /\ \A i \in 1 .. Len(v10'[d]) - 1 : v10'[d][i] < v10'[d][i + 1]
             /\ 1 .. Talk!Coming(d, 0)'[1] - 1 \subseteq Talk!Range(v10'[d]) \cup v11'[d] \cup Talk!AtHand(d)'
    BY DEF Talk!InTurn
  <2>1. v10' = v10 /\ v11[d] \subseteq v11'[d] /\ v10[d] \in Seq(Nat)
    BY DEF Arrives, Talk!ClientsTyped
  <2>2. /\ \A i \in DOMAIN v10[d] : /\ v10[d][i] < Talk!Coming(d, 0)[1]
                                    /\ \A n \in Talk!AtHand(d) : v10[d][i] < n
        /\ \A i \in 1 .. Len(v10[d]) - 1 : v10[d][i] < v10[d][i + 1]
        /\ 1 .. Talk!Coming(d, 0)[1] - 1 \subseteq Talk!Range(v10[d]) \cup v11[d] \cup Talk!AtHand(d)
    BY DEF Talk!InTurn
  <2>3. \A i \in DOMAIN v10[d] : v10[d][i] < Talk!Coming(d, 0)'[1]
    BY <1>1, <2>1, <2>2
  <2>4. 1 .. Talk!Coming(d, 0)'[1] - 1 \subseteq Talk!Range(v10[d]) \cup v11'[d] \cup Talk!AtHand(d)
    <3>1. CASE Talk!Coming(d, 0)' = Talk!Coming(d, 0)
      BY <3>1, <2>1, <2>2
    <3>2. CASE Skips(d)
      <4> SUFFICES ASSUME NEW n \in 1 .. Talk!Coming(d, 0)'[1] - 1
                   PROVE  n \in Talk!Range(v10[d]) \cup v11'[d] \cup Talk!AtHand(d)
        OBVIOUS
      <4>1. n \in 1 .. Talk!Coming(d, 0)[1] - 1 \/ n \in Talk!Coming(d, 0)[1] .. Talk!Coming(d, 0)'[1] - 1
        BY <1>1
      <4> QED
        BY <4>1, <3>2, <2>1, <2>2 DEF Skips
    <3> QED
      BY <3>1, <3>2
  <2> QED
    BY <1>1, <2>1, <2>2, <2>3, <2>4
<1>4. Talk!LineAtHand'
  <2> SUFFICES ASSUME v6.at \in {"got", "run"}, NEW c, c = Talk!clientq[v6.client], NEW n, n = v6.number
      PROVE  /\ v6.client \in DOMAIN Talk!clientq
             /\ n < Talk!Coming(c, 0)'[1]
             /\ n \notin v11'[c] => v6.line = Talk!Meant(c, n)'
    BY DEF Talk!LineAtHand, Arrives, Talk!clientq
  <2>1. v6.client \in DOMAIN Talk!clientq /\ n < Talk!Coming(c, 0)[1]
        /\ (n \notin v11[c] => v6.line = Talk!Meant(c, n))
    BY DEF Talk!LineAtHand
  <2>2. c \in Talk!Names /\ n \in Nat
    BY <2>1, FourClients DEF Talk!ClientsTyped
  <2>3. n < Talk!Coming(c, 0)'[1] /\ v11[c] \subseteq v11'[c]
    BY <2>1, <2>2, <1>1 DEF Arrives
  <2>4. Talk!Meant(c, n)' = Talk!Meant(c, n)
    BY MeantStays DEF Arrives
  <2> QED
    BY <2>1, <2>3, <2>4
<1> QED
  BY <1>2, <1>3, <1>4

LEMMA FollowsStays ==
  ASSUME Talk!ClientsTyped, Arrives, NEW c \in Talk!Names, NEW a, NEW b, Talk!Follows(c, a, b)
  PROVE  Talk!Follows(c, a, b)'
<1>1. v1' = v1 /\ v11[c] \subseteq v11'[c]
  BY DEF Arrives
<1>2. Talk!Kind(c, a)' = Talk!Kind(c, a)
  BY <1>1 DEF Talk!Kind
<1> QED
  BY <1>1, <1>2 DEF Talk!Follows, Talk!Lossy, Talk!Realtime

LEMMA SucceedsFollows ==
  ASSUME Talk!ClientsAssumption, Talk!ClientsTyped, Arrives, NEW c \in Talk!Names, NEW a, NEW b,
         Talk!Place(c, a), Succeeds(c, a, b)
  PROVE  Talk!Follows(c, a, b)'
<1>1. v1' = v1
  BY DEF Arrives
<1>2. Talk!Kind(c, a)' = Talk!Kind(c, a)
  BY <1>1 DEF Talk!Kind
<1>3. a[1] \in Nat
  BY KindsOfCharacters
<1>4. b = <<a[1] + 1, 1>> => b[1] > a[1] /\ a[1] + 1 .. b[1] - 1 = {} /\ b[2] = 1
  BY <1>3
<1> QED
  BY <1>2, <1>4 DEF Talk!Follows, Succeeds

\* What comes is a place, the first of what comes included.
LEMMA ComingTyped ==
  ASSUME Talk!ClientsAssumption, Talk!ClientsTyped, NEW d \in Talk!Names, NEW i \in 0 .. v2[d].size
  PROVE  Talk!Coming(d, i) \in Talk!Places
<1>1. /\ v2[d].pos \in Nat /\ v2[d].size \in Nat /\ Room[d] \in Nat \ {0} /\ v3[d] \in Talk!Places
      /\ v2[d].cells \in [0 .. Room[d] - 1 -> Talk!Places]
  BY DEF Talk!ClientsTyped, Talk!ClientsAssumption
<1>2. (v2[d].pos + i) % Room[d] \in 0 .. Room[d] - 1
  BY <1>1
<1> QED
  BY <1>1, <1>2 DEF Talk!Coming

\* The place the client sends next.
Sensible(c, next) == /\ next \in Talk!Places /\ next[1] > 0 /\ next[2] > 0
                     /\ next[1] \in DOMAIN v1[c] => Talk!Place(c, next)
                     /\ c \in {"macro", "web"} => next[2] = 1

\* A client sends something for which there is room.
LEMMA SendingKeeps ==
  ASSUME Talk!ClientsAssumption, Talk!ClientsInv, Arrives, NEW c \in Talk!Names,
         NEW data \in Seq(Talk!Places), Len(data) > 0, Len(data) <= Talk!Free(c), data[1] = v3[c],
         \A i \in 1 .. Len(data) : Talk!Place(c, data[i]),
         \A i \in 1 .. Len(data) - 1 : Succeeds(c, data[i], data[i + 1]),
         NEW last, last = data[Len(data)], NEW next, Sensible(c, next), Talk!Follows(c, last, next)',
         v2' = [v2 EXCEPT ![c] = Talk!Pushed(c, data)], v3' = [v3 EXCEPT ![c] = next]
  PROVE  Talk!ClientsInv'
<1> DEFINE size == v2[c].size
           L == Len(data)
           pos == v2[c].pos
           slot(i) == (pos + i) % Room[c]
<1>1. Talk!ClientsTyped /\ Talk!PlacesTrue /\ Talk!InOrder /\ c \in Talk!Names
  BY DEF Talk!ClientsInv
<1>2. LET r == Talk!Pushed(c, data)
      IN /\ r \in [cells : [0 .. Room[c] - 1 -> Talk!Places], pos : 0 .. Room[c] - 1, size : 0 .. Room[c]]
         /\ r.pos = pos /\ r.size = size + L
         /\ \A i \in 0 .. size - 1 : r.cells[slot(i)] = v2[c].cells[slot(i)]
         /\ \A i \in 1 .. L : r.cells[slot(size + i - 1)] = data[i]
  BY <1>1, PushedBehind
<1>3. /\ v2'[c] = Talk!Pushed(c, data) /\ v3'[c] = next /\ v2' = [d \in Talk!Names |-> v2'[d]]
      /\ v3' \in [Talk!Names -> Talk!Places]
      /\ \A d \in Talk!Names : d # c => v2'[d] = v2[d] /\ v3'[d] = v3[d]
  <2>1. v2 = [d \in Talk!Names |-> v2[d]] /\ v3 \in [Talk!Names -> Talk!Places]
    BY <1>1 DEF Talk!ClientsTyped
  <2>2. next \in Talk!Places
    BY DEF Sensible
  <2> QED
    BY <2>1, <2>2
<1>4. Talk!ClientsTyped'
  <2>1. \A d \in Talk!Names :
           v2'[d] \in [cells : [0 .. Room[d] - 1 -> Talk!Places], pos : 0 .. Room[d] - 1, size : 0 .. Room[d]]
    BY <1>1, <1>2, <1>3 DEF Talk!ClientsTyped
  <2> QED
    BY <1>1, <1>3, <2>1 DEF Talk!ClientsTyped, Arrives, Talk!Places, Talk!Names, Talk!clientq
<1>5. size \in Nat /\ L \in Nat \ {0} /\ pos \in Nat /\ v2'[c].size = size + L /\ v2'[c].pos = pos
  BY <1>1, <1>2, <1>3 DEF Talk!ClientsTyped, Talk!ClientsAssumption
<1>6. ASSUME NEW d \in Talk!Names, d # c, NEW i PROVE Talk!Coming(d, i)' = Talk!Coming(d, i)
  BY <1>3, <1>6 DEF Talk!Coming
<1>7. ASSUME NEW i \in 0 .. size - 1 PROVE Talk!Coming(c, i)' = Talk!Coming(c, i)
  <2>1. i < size /\ i < size + L
    BY <1>5
  <2> QED
    BY <1>2, <1>3, <1>5, <2>1 DEF Talk!Coming
<1>8. ASSUME NEW i \in 1 .. L, NEW j, j = size + i - 1 PROVE Talk!Coming(c, j)' = data[i]
  <2>1. j < size + L
    BY <1>5, <1>8
  <2> QED
    BY <1>2, <1>3, <1>5, <1>8, <2>1 DEF Talk!Coming
<1>9. ASSUME NEW j, j = size + L PROVE Talk!Coming(c, j)' = next
  <2>1. ~(j < size + L)
    BY <1>5, <1>9
  <2> QED
    BY <1>3, <1>5, <2>1 DEF Talk!Coming
<1> HIDE DEF size, L, pos, slot
<1>10. Talk!PlacesTrue'
  <2> SUFFICES ASSUME NEW d \in Talk!Names
      PROVE  /\ \A i \in 0 .. v2'[d].size - 1 : Talk!Place(d, Talk!Coming(d, i))'
             /\ v3'[d][1] > 0 /\ v3'[d][2] > 0
             /\ v3'[d][1] \in DOMAIN v1'[d] => Talk!Place(d, v3[d])'
             /\ d \in {"macro", "web"} => v3'[d][2] = 1
    BY DEF Talk!PlacesTrue
  <2>1. v1' = v1
    BY DEF Arrives
  <2>2. \A i \in 0 .. v2[d].size - 1 : Talk!Place(d, Talk!Coming(d, i))
    BY <1>1 DEF Talk!PlacesTrue
  <2>3. ASSUME NEW i \in 0 .. v2'[d].size - 1 PROVE Talk!Place(d, Talk!Coming(d, i))'
    <3>1. CASE d # c
      <4>1. Talk!Coming(d, i)' = Talk!Coming(d, i) /\ i \in 0 .. v2[d].size - 1
        BY <1>3, <1>6, <3>1
      <4> QED
        BY <2>1, <2>2, <4>1 DEF Talk!Place
    <3>2. CASE d = c /\ i < size
      <4>1. i \in 0 .. size - 1
        BY <1>5, <3>2
      <4>2. Talk!Coming(d, i)' = Talk!Coming(d, i)
        BY <1>7, <3>2, <4>1
      <4> QED
        BY <2>1, <2>2, <3>2, <4>1, <4>2 DEF Talk!Place, size
    <3>3. CASE d = c /\ ~(i < size)
      <4> DEFINE k == i - size + 1
      <4>1. k \in 1 .. L /\ i = size + k - 1
        BY <1>5, <3>3
      <4> HIDE DEF k
      <4>2. Talk!Coming(d, i)' = data[k]
        BY <1>8, <3>3, <4>1
      <4> QED
        BY <2>1, <3>3, <4>1, <4>2 DEF Talk!Place, L
    <3> QED
      BY <3>1, <3>2, <3>3
  <2>4. CASE d = c
    BY <1>3, <2>1, <2>3, <2>4 DEF Sensible, Talk!Place
  <2>5. CASE d # c
    BY <1>1, <1>3, <2>1, <2>3, <2>5 DEF Talk!PlacesTrue, Talk!Place
  <2> QED
    BY <2>4, <2>5
<1>11. Talk!InOrder'
  <2> SUFFICES ASSUME NEW d \in Talk!Names, NEW i \in 0 .. v2'[d].size - 1
      PROVE  Talk!Follows(d, Talk!Coming(d, i), Talk!Coming(d, i + 1))'
    BY Zenon DEF Talk!InOrder, Talk!Names, Talk!clientq
  <2> SUFFICES ASSUME NEW a, NEW b, a = Talk!Coming(d, i)', b = Talk!Coming(d, i + 1)'
      PROVE  Talk!Follows(d, a, b)'
    BY DEF Talk!Follows, Talk!Kind
  <2>1. CASE d # c
    <3>1. a = Talk!Coming(d, i) /\ b = Talk!Coming(d, i + 1) /\ i \in 0 .. v2[d].size - 1
      BY <1>3, <1>6, <2>1
    <3>2. Talk!Follows(d, a, b)
      BY <1>1, <3>1 DEF Talk!InOrder
    <3> QED
      BY <1>1, <3>2, FollowsStays
  <2>2. CASE d = c /\ i < size
    <3>1. i \in 0 .. size - 1 /\ i + 1 \in 0 .. size
      BY <1>5, <2>2
    <3>2. a = Talk!Coming(c, i)
      BY <1>7, <2>2, <3>1
    <3>3. b = Talk!Coming(c, i + 1)
      <4>1. CASE i + 1 < size
        BY <1>7, <1>5, <2>2, <3>1, <4>1
      <4>2. CASE ~(i + 1 < size)
        <5>1. i + 1 = size + 1 - 1 /\ 1 \in 1 .. L /\ ~(i + 1 < v2[c].size)
          BY <1>5, <3>1, <4>2 DEF size
        <5>2. b = data[1]
          BY <1>8, <2>2, <5>1
        <5> QED
          BY <5>1, <5>2 DEF Talk!Coming
      <4> QED
        BY <4>1, <4>2
    <3>4. Talk!Follows(c, a, b)
      BY <1>1, <3>1, <3>2, <3>3 DEF Talk!InOrder, size
    <3> QED
      BY <1>1, <2>2, <3>4, FollowsStays
  <2>3. CASE d = c /\ ~(i < size)
    <3> DEFINE k == i - size + 1
    <3>1. k \in 1 .. L /\ i = size + k - 1 /\ i + 1 = size + (k + 1) - 1
      BY <1>5, <2>3
    <3> HIDE DEF k
    <3>2. a = data[k] /\ Talk!Place(c, a)
      BY <1>8, <2>3, <3>1 DEF L
    <3>3. CASE k < L
      <4>1. k + 1 \in 1 .. L /\ k \in 1 .. L - 1
        BY <1>5, <3>1, <3>3
      <4>2. b = data[k + 1]
        BY <1>8, <2>3, <3>1, <4>1
      <4>3. Succeeds(c, a, b)
        BY <3>2, <4>1, <4>2 DEF L
      <4> QED
        BY <1>1, <2>3, <3>2, <4>3, SucceedsFollows
    <3>4. CASE k = L
      <4>1. i + 1 = size + L
        BY <1>5, <3>1, <3>4
      <4>2. b = next
        BY <1>9, <2>3, <4>1
      <4> QED
        BY <2>3, <3>2, <3>4, <4>2 DEF L
    <3> QED
      BY <1>5, <3>1, <3>3, <3>4
  <2> QED
    BY <2>1, <2>2, <2>3
<1>12. \A d \in Talk!Names : Talk!Coming(d, 0)' = Talk!Coming(d, 0)
  <2>1. CASE size > 0
    BY <1>5, <1>6, <1>7, <2>1
  <2>2. CASE size = 0
    <3>1. 0 = size + 1 - 1 /\ 1 \in 1 .. L /\ ~(0 < v2[c].size)
      BY <1>5, <2>2 DEF size
    <3>2. Talk!Coming(c, 0)' = data[1] /\ Talk!Coming(c, 0) = v3[c]
      BY <1>8, <3>1 DEF Talk!Coming
    <3> QED
      BY <1>6, <3>2
  <2> QED
    BY <1>5, <2>1, <2>2
<1>13. \A d \in Talk!Names : Talk!Coming(d, 0) \in Talk!Places
  <2>1. \A d \in Talk!Names : 0 \in 0 .. v2[d].size
    BY <1>1 DEF Talk!ClientsTyped, Talk!ClientsAssumption
  <2> QED
    BY <1>1, <2>1, ComingTyped
<1> QED
  BY <1>4, <1>10, <1>11, <1>12, <1>13, ArrivalKeeps

\* What a client sends is not taken, and it goes on at next.
LEMMA LosingKeeps ==
  ASSUME Talk!ClientsAssumption, Talk!ClientsInv, Arrives, NEW c \in Talk!Names,
         NEW last, last = Talk!Coming(c, v2[c].size - 1), NEW next, Sensible(c, next),
         v2[c].size > 0 => Talk!Follows(c, last, next)',
         v2[c].size = 0 => /\ next[1] > v3[c][1] /\ v3[c][1] .. next[1] - 1 \subseteq v11'[c]
                           /\ next[1] \notin v11'[c] => next[2] = 1 /\ Talk!Begun(c) = <<>>
                           /\ c \notin Talk!Lossy /\ next[2] = 1 => Talk!Begun(c) = <<>>,
         v2' = v2, v3' = [v3 EXCEPT ![c] = next]
  PROVE  Talk!ClientsInv'
<1>1. Talk!ClientsTyped /\ Talk!PlacesTrue /\ Talk!InOrder /\ c \in Talk!Names
  BY DEF Talk!ClientsInv
<1>2. v3'[c] = next /\ v3' \in [Talk!Names -> Talk!Places] /\ \A d \in Talk!Names : d # c => v3'[d] = v3[d]
  BY <1>1 DEF Talk!ClientsTyped, Sensible
<1>3. Talk!ClientsTyped'
  BY <1>1, <1>2 DEF Talk!ClientsTyped, Arrives, Talk!Places, Talk!Names, Talk!clientq
<1>4. \A d \in Talk!Names : v2[d].size \in Nat
  BY <1>1 DEF Talk!ClientsTyped, Talk!ClientsAssumption
<1>5. ASSUME NEW d \in Talk!Names, NEW i, d # c \/ i < v2[c].size PROVE Talk!Coming(d, i)' = Talk!Coming(d, i)
  BY <1>2, <1>5 DEF Talk!Coming
<1>6. ASSUME NEW j, ~(j < v2[c].size) PROVE Talk!Coming(c, j)' = next /\ Talk!Coming(c, j) = v3[c]
  BY <1>2, <1>6 DEF Talk!Coming
<1>7. Talk!PlacesTrue'
  <2> SUFFICES ASSUME NEW d \in Talk!Names
      PROVE  /\ \A i \in 0 .. v2[d].size - 1 : Talk!Place(d, Talk!Coming(d, i))'
             /\ v3'[d][1] > 0 /\ v3'[d][2] > 0
             /\ v3'[d][1] \in DOMAIN v1'[d] => Talk!Place(d, v3[d])'
             /\ d \in {"macro", "web"} => v3'[d][2] = 1
    BY DEF Talk!PlacesTrue
  <2>1. v1' = v1
    BY DEF Arrives
  <2>2. \A i \in 0 .. v2[d].size - 1 : Talk!Place(d, Talk!Coming(d, i)) /\ i < v2[d].size
    BY <1>1, <1>4 DEF Talk!PlacesTrue
  <2>3. \A i \in 0 .. v2[d].size - 1 : Talk!Place(d, Talk!Coming(d, i))'
    BY <1>5, <2>1, <2>2 DEF Talk!Place
  <2>4. CASE d = c
    BY <1>2, <2>1, <2>3, <2>4 DEF Sensible, Talk!Place
  <2>5. CASE d # c
    BY <1>1, <1>2, <2>1, <2>3, <2>5 DEF Talk!PlacesTrue, Talk!Place
  <2> QED
    BY <2>4, <2>5
<1>8. Talk!InOrder'
  <2> SUFFICES ASSUME NEW d \in Talk!Names, NEW i \in 0 .. v2[d].size - 1
      PROVE  Talk!Follows(d, Talk!Coming(d, i), Talk!Coming(d, i + 1))'
    BY Zenon DEF Talk!InOrder, Talk!Names, Talk!clientq
  <2> SUFFICES ASSUME NEW a, NEW b, a = Talk!Coming(d, i)', b = Talk!Coming(d, i + 1)'
      PROVE  Talk!Follows(d, a, b)'
    BY DEF Talk!Follows, Talk!Kind
  <2>1. i < v2[d].size /\ a = Talk!Coming(d, i)
    BY <1>4, <1>5
  <2>2. CASE d # c \/ i + 1 < v2[c].size
    <3>1. b = Talk!Coming(d, i + 1)
      BY <1>5, <2>2
    <3>2. Talk!Follows(d, a, b)
      BY <1>1, <2>1, <3>1 DEF Talk!InOrder
    <3> QED
      BY <1>1, <3>2, FollowsStays
  <2>3. CASE d = c /\ ~(i + 1 < v2[c].size)
    <3>1. i = v2[c].size - 1 /\ v2[c].size > 0
      BY <1>4, <2>1, <2>3
    <3>2. a = last /\ b = next
      BY <1>6, <2>1, <2>3, <3>1
    <3> QED
      BY <2>3, <3>1, <3>2
  <2> QED
    BY <2>2, <2>3
<1>9. \A d \in Talk!Names : Talk!Coming(d, 0) \in Talk!Places
  <2>1. \A d \in Talk!Names : 0 \in 0 .. v2[d].size
    BY <1>4
  <2> QED
    BY <1>1, <2>1, ComingTyped
<1>10. \A d \in Talk!Names : Talk!Coming(d, 0)' = Talk!Coming(d, 0) \/ Skips(d)
  <2>1. CASE v2[c].size > 0
    BY <1>5, <2>1
  <2>2. CASE v2[c].size = 0
    <3>1. Talk!Coming(c, 0)' = next /\ Talk!Coming(c, 0) = v3[c]
      BY <1>6, <2>2
    <3>2. Skips(c)
      BY <2>2, <3>1 DEF Skips
    <3> QED
      BY <1>5, <3>2
  <2> QED
    BY <1>4, <2>1, <2>2
<1>11. \A d \in Talk!Names : Talk!Coming(d, 0)' \in Talk!Places
  BY <1>9, <1>10, <1>5, <1>6, <1>4 DEF Sensible
<1> QED
  BY <1>3, <1>7, <1>8, <1>9, <1>10, <1>11, ArrivalKeeps

\* What one character comes next to another.
LEMMA NextIsNext ==
  ASSUME Talk!ClientsAssumption, Talk!ClientsTyped, NEW c \in Talk!Names, c \notin {"macro", "web"}, Talk!Place(c, v3[c])
  PROVE  /\ Succeeds(c, v3[c], Talk!Next1(c)) /\ Sensible(c, Talk!Next1(c))
         /\ Talk!NextLine(c) = <<v3[c][1] + 1, 1>> /\ Sensible(c, Talk!NextLine(c))
<1> DEFINE n == v3[c][1]
           k == v3[c][2]
           len == Len(v1[c][n])
<1>1. /\ n \in Nat \ {0} /\ k \in Nat \ {0} /\ len \in Nat /\ (Talk!Kind(c, v3[c]) = "NL" <=> k = len + 1)
      /\ k \in 1 .. len + 1 /\ n \in DOMAIN v1[c] /\ v1[c] \in Seq(Seq({"x", "BS", "CR", "RT", "RESET"}))
  BY KindsOfCharacters DEF Talk!Place
<1>2. Sensible(c, <<n + 1, 1>>)
  <2>1. n + 1 \in DOMAIN v1[c] => v1[c][n + 1] \in Seq({"x", "BS", "CR", "RT", "RESET"})
    BY <1>1
  <2>2. n + 1 \in DOMAIN v1[c] => 1 \in 1 .. Len(v1[c][n + 1]) + 1
    BY <2>1
  <2> QED
    BY <1>1, <2>2 DEF Sensible, Talk!Place, Talk!Places
<1>3. Talk!NextLine(c) = <<n + 1, 1>>
  BY DEF Talk!NextLine
<1>4. CASE k > len
  <2>1. Talk!Next1(c) = <<n + 1, 1>>
    BY <1>3, <1>4 DEF Talk!Next1
  <2>2. k = len + 1
    <3> HIDE DEF k, len
    <3> QED
      BY <1>1, <1>4
  <2> QED
    BY <1>1, <1>2, <1>3, <2>1, <2>2 DEF Succeeds
<1>5. CASE ~(k > len)
  <2>1. Talk!Next1(c) = <<n, k + 1>> /\ Talk!Kind(c, v3[c]) # "NL"
    BY <1>1, <1>5 DEF Talk!Next1
  <2>2. Sensible(c, <<n, k + 1>>)
    <3>1. k + 1 \in 1 .. len + 1 /\ k + 1 \in Nat /\ k + 1 > 0 /\ n \in Nat /\ n > 0 /\ n \in DOMAIN v1[c]
      <4> HIDE DEF k, len, n
      <4> QED
        BY <1>1, <1>5
    <3>2. Talk!Place(c, <<n, k + 1>>) /\ <<n, k + 1>> \in Talk!Places
      BY <3>1 DEF Talk!Place, Talk!Places
    <3> QED
      BY <3>1, <3>2 DEF Sensible
  <2> QED
    BY <1>2, <1>3, <2>1, <2>2 DEF Succeeds
<1> QED
  BY <1>1, <1>4, <1>5

\* What follows where the characters of c are not taken any more.
LEMMA LostFollows ==
  ASSUME Talk!ClientsAssumption, Talk!ClientsInv, Arrives, NEW c \in Talk!Lossy, Talk!Place(c, v3[c]),
         NEW last, last = Talk!Coming(c, v2[c].size - 1), v2[c].size > 0, NEW next,
         \/ Talk!Kind(c, v3[c]) # "NL" /\ next = <<v3[c][1], v3[c][2] + 1>> /\ v3[c][1] \in v11'[c]
         \/ next = <<v3[c][1] + 1, 1>> /\ {v3[c][1], v3[c][1] + 1} \subseteq v11'[c]
  PROVE  Talk!Follows(c, last, next)'
<1> PICK s : s = v3[c]
  OBVIOUS
<1>1. c \in Talk!Names
  BY FourClients DEF Talk!Lossy
<1>2. Talk!ClientsTyped /\ Talk!PlacesTrue /\ Talk!InOrder
  BY DEF Talk!ClientsInv
<1>3. v2[c].size - 1 \in 0 .. v2[c].size - 1 /\ v2[c].size - 1 + 1 = v2[c].size /\ ~(v2[c].size < v2[c].size)
  BY <1>1, <1>2 DEF Talk!ClientsTyped, Talk!ClientsAssumption
<1>4. Talk!Follows(c, last, s) /\ Talk!Place(c, last)
  <2>1. Talk!Coming(c, v2[c].size - 1 + 1) = s
    BY <1>3 DEF Talk!Coming
  <2> QED
    BY <1>1, <1>2, <1>3, <2>1 DEF Talk!InOrder, Talk!PlacesTrue
<1>5. last[1] \in Nat /\ last[2] \in Nat /\ s[1] \in Nat /\ s[2] \in Nat
  <2>1. last[1] \in Nat /\ last[2] \in Nat
    BY <1>1, <1>2, <1>4, KindsOfCharacters
  <2>2. s[1] \in Nat /\ s[2] \in Nat
    BY <1>1, <1>2, KindsOfCharacters
  <2> QED
    BY <2>1, <2>2
<1>6. Talk!Follows(c, last, s)'
  BY <1>1, <1>2, <1>4, FollowsStays
<1>7. Talk!Lossy' = Talk!Lossy /\ c # "web"
  BY DEF Talk!Lossy
<1>8. /\ s[1] >= last[1] /\ last[1] + 1 .. s[1] - 1 \subseteq v11'[c]
      /\ s[1] = last[1] => s[2] > last[2]
      /\ s[1] > last[1] => Talk!Kind(c, last)' = "NL" \/ last[1] \in v11'[c]
  BY <1>5, <1>6, <1>7 DEF Talk!Follows
<1>9. CASE next = <<s[1], s[2] + 1>> /\ s[1] \in v11'[c]
  <2>1. next[1] = s[1] /\ next[2] = s[2] + 1
    BY <1>9
  <2>2. next[1] = last[1] => next[2] > last[2]
    BY <1>5, <1>8, <2>1
  <2> QED
    BY <1>5, <1>7, <1>8, <1>9, <2>1, <2>2 DEF Talk!Follows
<1>10. CASE next = <<s[1] + 1, 1>> /\ {s[1], s[1] + 1} \subseteq v11'[c]
  <2>1. next[1] = s[1] + 1 /\ next[2] = 1 /\ next[1] \in v11'[c] /\ s[1] \in v11'[c]
    BY <1>10
  <2>2. next[1] > last[1] /\ last[1] + 1 .. next[1] - 1 \subseteq v11'[c]
    <3>1. \A n \in last[1] + 1 .. next[1] - 1 : n \in last[1] + 1 .. s[1] - 1 \/ n = s[1]
      BY <1>5, <1>8, <2>1
    <3>2. next[1] > last[1]
      BY <1>5, <1>8, <2>1
    <3> QED
      BY <1>8, <2>1, <3>1, <3>2
  <2>3. Talk!Kind(c, last)' = "NL" \/ last[1] \in v11'[c]
    BY <1>5, <1>8, <2>1
  <2> QED
    BY <1>7, <2>1, <2>2, <2>3 DEF Talk!Follows
<1> QED
  BY <1>9, <1>10

LEMMA LosesNumbers ==
  ASSUME Talk!ClientsTyped, NEW c \in Talk!Names, NEW numbers \in SUBSET Nat, Talk!Lose(c, numbers)
  PROVE  /\ v11' \in [Talk!Names -> SUBSET Nat] /\ v11'[c] = v11[c] \cup numbers
         /\ \A d \in Talk!Names : v11[d] \subseteq v11'[d] /\ (d # c => v11'[d] = v11[d])
  BY DEF Talk!ClientsTyped, Talk!Lose

\* One character arrives, and there is room for it.
LEMMA CharacterArrives ==
  ASSUME Talk!ClientsAssumption, Talk!ClientsInv, Arrives, NEW c \in Talk!Lossy, Talk!More(c), Talk!Free(c) > 0,
         v2' = [v2 EXCEPT ![c] = Talk!Pushed(c, <<v3[c]>>)], v3' = [v3 EXCEPT ![c] = Talk!Next1(c)]
  PROVE  Talk!ClientsInv'
<1>1. c \in Talk!Names /\ c \notin {"macro", "web"}
  BY FourClients DEF Talk!Lossy
<1>2. Talk!ClientsTyped /\ Talk!PlacesTrue /\ v3[c] \in Talk!Places /\ Talk!Free(c) \in Int
  BY <1>1 DEF Talk!ClientsInv, Talk!ClientsTyped, Talk!ClientsAssumption, Talk!Free
<1>3. Talk!Place(c, v3[c])
  BY <1>1, <1>2 DEF Talk!PlacesTrue, Talk!More
<1>4. Succeeds(c, v3[c], Talk!Next1(c)) /\ Sensible(c, Talk!Next1(c))
  BY <1>1, <1>2, <1>3, NextIsNext
<1>5. SUFFICES ASSUME NEW char, char = v3[c], NEW next, next = Talk!Next1(c), NEW data, data = <<char>>
      PROVE  Talk!ClientsInv'
  OBVIOUS
<1>6. Talk!Follows(c, char, next)'
  BY <1>1, <1>2, <1>3, <1>4, <1>5, SucceedsFollows
<1>7. /\ data \in Seq(Talk!Places) /\ Len(data) = 1 /\ data[1] = char
      /\ \A i \in 1 .. Len(data) : i = 1
      /\ 1 .. Len(data) - 1 = {}
  BY <1>2, <1>5
<1>8. Len(data) > 0 /\ Len(data) <= Talk!Free(c)
  BY <1>2, <1>7
<1>9. /\ \A i \in 1 .. Len(data) : Talk!Place(c, data[i])
      /\ \A i \in 1 .. Len(data) - 1 : Succeeds(c, data[i], data[i + 1])
  BY <1>3, <1>5, <1>7
<1> QED
  BY <1>1, <1>4, <1>5, <1>6, <1>7, <1>8, <1>9, SendingKeeps

LEMMA LineBegins ==
  ASSUME Talk!ClientsAssumption, Talk!ClientsTyped, NEW c \in Talk!Names, NEW n \in Nat
  PROVE  Sensible(c, <<n + 1, 1>>)
<1>1. v1[c] \in Seq(Seq({"x", "BS", "CR", "RT", "RESET"}))
  BY DEF Talk!ClientsTyped, Talk!ClientsAssumption
<1>2. n + 1 \in DOMAIN v1[c] => v1[c][n + 1] \in Seq({"x", "BS", "CR", "RT", "RESET"})
  BY <1>1
<1>3. n + 1 \in DOMAIN v1[c] => 1 \in 1 .. Len(v1[c][n + 1]) + 1
  BY <1>2
<1> QED
  BY <1>3 DEF Sensible, Talk!Place, Talk!Places

LEMMA ReceiveKeeps ==
  ASSUME Talk!ClientsAssumption, Talk!ClientsInv, Talk!Receive
  PROVE  Talk!ClientsInv'
<1>1. "uart" \in Talk!Names /\ "uart" \in Talk!Lossy /\ "uart" \notin {"macro", "web"}
  BY FourClients DEF Talk!Lossy
<1>2. Talk!ClientsTyped /\ Talk!PlacesTrue /\ Talk!More("uart") /\ v3' = [v3 EXCEPT !["uart"] = Talk!Next1("uart")]
  BY DEF Talk!ClientsInv, Talk!Receive
<1>3. CASE Talk!Free("uart") > 0
  <2>1. v2' = [v2 EXCEPT !["uart"] = Talk!Pushed("uart", <<v3["uart"]>>)] /\ v11' = v11
    BY <1>3 DEF Talk!Receive
  <2>2. Arrives
    BY <1>2, <2>1 DEF Talk!Receive, Arrives, Talk!ClientsTyped
  <2> QED
    BY <1>1, <1>2, <1>3, <2>1, <2>2, CharacterArrives
<1>4. CASE ~(Talk!Free("uart") > 0)
  <2> SUFFICES ASSUME NEW c, c = "uart", NEW s, s = v3[c], NEW next, next = Talk!Next1(c),
                      NEW last, last = Talk!Coming(c, v2[c].size - 1)
               PROVE  Talk!ClientsInv'
    OBVIOUS
  <2>1. Talk!Lose(c, Talk!Spoilt(c, s)) /\ v2' = v2
    BY <1>4 DEF Talk!Receive
  <2>2. s \in Talk!Places /\ Talk!Place(c, s) /\ v2[c].size > 0
    <3>1. s \in Talk!Places /\ Talk!Place(c, s)
      BY <1>1, <1>2 DEF Talk!ClientsTyped, Talk!PlacesTrue, Talk!More
    <3>2. v2[c].size \in Nat /\ Room[c] \in Nat \ {0} /\ ~(Room[c] - v2[c].size > 0)
      BY <1>1, <1>2, <1>4 DEF Talk!ClientsTyped, Talk!ClientsAssumption, Talk!Free
    <3> QED
      BY ONLY <3>1, <3>2
  <2>3. Talk!Spoilt(c, s) \in SUBSET Nat
    BY <2>2 DEF Talk!Spoilt, Talk!Places
  <2>4. /\ v11' \in [Talk!Names -> SUBSET Nat] /\ v11'[c] = v11[c] \cup Talk!Spoilt(c, s)
        /\ \A d \in Talk!Names : v11[d] \subseteq v11'[d]
    BY <1>1, <1>2, <2>1, <2>3, LosesNumbers
  <2>5. Arrives
    BY <1>2, <2>4 DEF Talk!Receive, Arrives
  <2>6. Succeeds(c, s, next) /\ Sensible(c, next)
    BY <1>1, <1>2, <2>2, NextIsNext
  <2>7. \/ Talk!Kind(c, s) # "NL" /\ next = <<s[1], s[2] + 1>> /\ s[1] \in v11'[c]
        \/ next = <<s[1] + 1, 1>> /\ {s[1], s[1] + 1} \subseteq v11'[c]
    BY <2>4, <2>6 DEF Succeeds, Talk!Spoilt
  <2>8. Talk!Follows(c, last, next)'
    BY <1>1, <2>2, <2>5, <2>7, LostFollows
  <2>9. ~(v2[c].size = 0) /\ v3' = [v3 EXCEPT ![c] = next]
    BY <1>2, <2>2
  <2> QED
    BY <1>1, <2>1, <2>5, <2>6, <2>8, <2>9, LosingKeeps
<1> QED
  BY <1>3, <1>4

LEMMA TelnetKeeps ==
  ASSUME Talk!ClientsAssumption, Talk!ClientsInv, Talk!Telnet
  PROVE  Talk!ClientsInv'
<1>1. "telnet" \in Talk!Lossy
  BY DEF Talk!Lossy
<1>2. Arrives
  BY DEF Talk!Telnet, Arrives, Talk!ClientsInv, Talk!ClientsTyped
<1> QED
  BY <1>1, <1>2, CharacterArrives DEF Talk!Telnet

LEMMA ReconnectKeeps ==
  ASSUME Talk!ClientsAssumption, Talk!ClientsInv, Talk!Reconnect
  PROVE  Talk!ClientsInv'
<1> SUFFICES ASSUME NEW c, c = "telnet", NEW s, s = v3[c], NEW next, next = Talk!NextLine(c),
                    NEW last, last = Talk!Coming(c, v2[c].size - 1)
             PROVE  Talk!ClientsInv'
  OBVIOUS
<1>1. c \in Talk!Names /\ c \in Talk!Lossy /\ c \notin {"macro", "web"}
  BY FourClients DEF Talk!Lossy
<1>2. Talk!ClientsTyped /\ Talk!PlacesTrue /\ Talk!More(c) /\ v2' = v2 /\ v3' = [v3 EXCEPT ![c] = next]
      /\ Talk!Lose(c, {s[1], s[1] + 1})
  BY DEF Talk!ClientsInv, Talk!Reconnect
<1>3. s \in Talk!Places /\ Talk!Place(c, s) /\ v2[c].size \in Nat
  <2>1. s \in Talk!Places
    BY <1>1, <1>2 DEF Talk!ClientsTyped
  <2>2. Talk!Place(c, s)
    BY <1>1, <1>2 DEF Talk!PlacesTrue, Talk!More
  <2>3. Room[c] \in Nat /\ v2[c].size \in 0 .. Room[c]
    BY <1>1, <1>2 DEF Talk!ClientsTyped, Talk!ClientsAssumption
  <2> QED
    BY <2>1, <2>2, <2>3
<1>4. {s[1], s[1] + 1} \in SUBSET Nat
  BY <1>3 DEF Talk!Places
<1>5. /\ v11' \in [Talk!Names -> SUBSET Nat] /\ v11'[c] = v11[c] \cup {s[1], s[1] + 1}
      /\ \A d \in Talk!Names : v11[d] \subseteq v11'[d]
  BY <1>1, <1>2, <1>4, LosesNumbers
<1>6. Arrives
  BY <1>5 DEF Talk!Reconnect, Arrives
<1>7. next = <<s[1] + 1, 1>> /\ Sensible(c, next)
  BY <1>1, <1>2, <1>3, NextIsNext
<1>8. v2[c].size > 0 => Talk!Follows(c, last, next)'
  BY <1>1, <1>3, <1>5, <1>6, <1>7, LostFollows
<1>9. /\ next[1] > v3[c][1] /\ v3[c][1] .. next[1] - 1 \subseteq v11'[c] /\ next[1] \in v11'[c]
  <2>1. s[1] \in Nat /\ next[1] = s[1] + 1
    BY <1>3, <1>7 DEF Talk!Places
  <2>2. \A n \in s[1] .. next[1] - 1 : n = s[1]
    BY <2>1
  <2> QED
    BY <1>5, <2>1, <2>2
<1> QED
  BY <1>1, <1>2, <1>6, <1>7, <1>8, <1>9, LosingKeeps

\* The lines from first to last, whole ones, have no room.
LEMMA RefusedKeeps ==
  ASSUME Talk!ClientsAssumption, Talk!ClientsInv, NEW c \in {"macro", "web"}, Talk!More(c),
         UNCHANGED <<v1, v2, v4, v5, v6, v7, v9, v10>>,
         NEW first, first = v3[c][1], NEW last \in first .. Len(v1[c]),
         v3' = [v3 EXCEPT ![c] = <<last + 1, 1>>], Talk!Lose(c, first .. last)
  PROVE  Talk!ClientsInv'
<1>1. c \in Talk!Names /\ c \notin Talk!Lossy
  BY FourClients DEF Talk!Lossy
<1>2. Talk!ClientsTyped /\ Talk!PlacesTrue /\ Talk!InOrder /\ Talk!Continued
  BY DEF Talk!ClientsInv
<1>3. v3[c] = <<first, 1>> /\ first \in Nat \ {0} /\ last \in Nat /\ v2[c].size \in Nat /\ last >= first
  <2>1. v1[c] \in Seq(Seq({"x", "BS", "CR", "RT", "RESET"})) /\ v3[c] \in Talk!Places /\ v2[c].size \in Nat
        /\ v3[c][1] > 0 /\ v3[c][2] = 1
    BY <1>1, <1>2 DEF Talk!ClientsTyped, Talk!ClientsAssumption, Talk!PlacesTrue
  <2>2. Len(v1[c]) \in Nat /\ first \in Nat
    BY <2>1 DEF Talk!Places
  <2>3. v3[c] = <<v3[c][1], v3[c][2]>>
    BY <2>1 DEF Talk!Places
  <2>4. last \in Nat /\ last >= first
    BY ONLY <2>2, last \in first .. Len(v1[c])
  <2> QED
    BY <2>1, <2>2, <2>3, <2>4
<1>4. first .. last \in SUBSET Nat
  BY <1>3
<1>5. /\ v11' \in [Talk!Names -> SUBSET Nat] /\ v11'[c] = v11[c] \cup (first .. last)
      /\ \A d \in Talk!Names : v11[d] \subseteq v11'[d]
  BY <1>1, <1>2, <1>4, LosesNumbers
<1>6. Arrives
  BY <1>5 DEF Arrives
<1>7. SUFFICES ASSUME NEW next, next = <<last + 1, 1>>, NEW tail, tail = Talk!Coming(c, v2[c].size - 1),
                      NEW s, s = <<first, 1>>
               PROVE  Talk!ClientsInv'
  OBVIOUS
<1>8. Sensible(c, next)
  BY <1>1, <1>2, <1>3, <1>7, LineBegins
<1>9. ASSUME v2[c].size > 0 PROVE Talk!Follows(c, tail, next)'
  <2>1. v2[c].size - 1 \in 0 .. v2[c].size - 1 /\ v2[c].size - 1 + 1 = v2[c].size /\ ~(v2[c].size < v2[c].size)
    BY ONLY <1>3, <1>9
  <2>2. Talk!Follows(c, tail, s) /\ Talk!Place(c, tail)
    <3>1. Talk!Coming(c, v2[c].size - 1 + 1) = s
      BY <1>3, <1>7, <2>1 DEF Talk!Coming
    <3> QED
      BY <1>1, <1>2, <1>7, <2>1, <3>1 DEF Talk!InOrder, Talk!PlacesTrue
  <2>3. tail[1] \in Nat /\ tail[2] \in Nat \ {0}
    BY <1>1, <1>2, <2>2, KindsOfCharacters
  <2>4. Talk!Follows(c, tail, s)'
    BY <1>1, <1>2, <1>6, <2>2, FollowsStays
  <2>5. s # <<tail[1], tail[2] + 1>> /\ s[1] = first /\ Talk!Lossy' = Talk!Lossy /\ Talk!Realtime' = Talk!Realtime
    BY <1>7, <2>3 DEF Talk!Lossy, Talk!Realtime
  <2>6. /\ first > tail[1] /\ tail[1] + 1 .. first - 1 \subseteq v11'[c]
        /\ \/ Talk!Kind(c, tail)' = "NL"
           \/ c = "web" /\ tail[2] = 1 /\ Talk!Kind(c, tail)' \in Talk!Realtime /\ tail[1] \in v11'[c]
    BY ONLY <1>1, <2>4, <2>5 DEF Talk!Follows
  <2>7. next[1] = last + 1 /\ next[2] = 1
    BY <1>7
  <2>8. next[1] > tail[1] /\ tail[1] + 1 .. next[1] - 1 \subseteq v11'[c]
    <3>1. \A n \in tail[1] + 1 .. next[1] - 1 : n \in tail[1] + 1 .. first - 1 \/ n \in first .. last
      BY <1>3, <2>3, <2>7
    <3>2. next[1] > tail[1]
      BY <1>3, <2>3, <2>6, <2>7
    <3> QED
      BY <1>5, <2>6, <3>1, <3>2
  <2> QED
    BY <2>5, <2>6, <2>7, <2>8 DEF Talk!Follows
<1>10. ASSUME v2[c].size = 0
       PROVE  /\ next[1] > v3[c][1] /\ v3[c][1] .. next[1] - 1 \subseteq v11'[c]
              /\ next[2] = 1 /\ Talk!Begun(c) = <<>>
  <2>1. next[1] = last + 1 /\ next[2] = 1 /\ v3[c][1] = first
    BY <1>3, <1>7
  <2>2. next[1] > first /\ first .. next[1] - 1 \subseteq first .. last
    BY <1>3, <2>1
  <2>3. Talk!Coming(c, 0) = v3[c]
    BY <1>10 DEF Talk!Coming
  <2>4. Talk!Begun(c) = <<>>
    BY <1>1, <1>2, <1>3, <2>3 DEF Talk!Continued
  <2> QED
    BY <1>5, <2>1, <2>2, <2>4
<1> QED
  BY <1>1, <1>6, <1>7, <1>8, <1>9, <1>10, LosingKeeps

\* A client sends whole lines, for which there is room.
LEMMA LinesArrive ==
  ASSUME Talk!ClientsAssumption, Talk!ClientsInv, Arrives, NEW c \in {"macro", "web"},
         NEW first, first = v3[c][1], NEW last \in Nat, NEW data, Chain(c, data, first, last + 1),
         Len(data) <= Talk!Free(c),
         v2' = [v2 EXCEPT ![c] = Talk!Pushed(c, data)], v3' = [v3 EXCEPT ![c] = <<last + 1, 1>>]
  PROVE  Talk!ClientsInv'
<1>1. c \in Talk!Names
  BY FourClients
<1>2. Talk!ClientsTyped /\ v3[c] \in Talk!Places /\ v3[c][2] = 1
  BY <1>1 DEF Talk!ClientsInv, Talk!ClientsTyped, Talk!PlacesTrue
<1>3. v3[c] = <<first, 1>>
  BY <1>2 DEF Talk!Places
<1> SUFFICES ASSUME NEW end, end = data[Len(data)], NEW next, next = <<last + 1, 1>> PROVE Talk!ClientsInv'
  OBVIOUS
<1>4. data \in Seq(Talk!Places) /\ Len(data) > 0 /\ data[1] = v3[c]
  BY <1>3 DEF Chain
<1>5. /\ \A i \in 1 .. Len(data) : Talk!Place(c, data[i])
      /\ \A i \in 1 .. Len(data) - 1 : Succeeds(c, data[i], data[i + 1])
  BY DEF Chain
<1>6. Talk!Kind(c, end) = "NL" /\ end[1] + 1 = last + 1 /\ Talk!Place(c, end)
  <2>1. Len(data) \in 1 .. Len(data)
    BY <1>4
  <2> QED
    BY <1>5, <2>1 DEF Chain
<1>7. Talk!Follows(c, end, next)'
  <2>1. Succeeds(c, end, next)
    BY <1>6 DEF Succeeds
  <2> QED
    BY <1>1, <1>2, <1>6, <2>1, SucceedsFollows
<1>8. Sensible(c, next)
  BY <1>1, <1>2, LineBegins
<1> QED
  BY <1>1, <1>4, <1>5, <1>7, <1>8, SendingKeeps

LEMMA WebCommandKeeps ==
  ASSUME Talk!ClientsAssumption, Talk!ClientsInv, Talk!_handle_web_command
  PROVE  Talk!ClientsInv'
<1> SUFFICES ASSUME NEW c, c = "web", NEW n, n = v3[c][1] PROVE Talk!ClientsInv'
  OBVIOUS
<1> DEFINE alone == Len(v1[c][n]) = 1 /\ v1[c][n][1] \in Talk!Realtime
           data == IF alone THEN <<<<n, 1>>>> ELSE Talk!Whole(c, n)
           fits == Len(data) <= Talk!Free(c)
<1>1. /\ v2' = IF fits THEN [v2 EXCEPT ![c] = Talk!Pushed(c, data)] ELSE v2
      /\ Talk!Lose(c, IF alone \/ ~fits THEN {n} ELSE {})
      /\ v3' = [v3 EXCEPT ![c] = <<n + 1, 1>>] /\ Talk!More(c) /\ UNCHANGED <<v1, v4, v5, v6, v7, v9, v10>>
  BY DEF Talk!_handle_web_command, Talk!NextLine
<1>2. c \in Talk!Names /\ c \in {"macro", "web"} /\ Talk!ClientsTyped /\ Talk!PlacesTrue
  BY FourClients DEF Talk!ClientsInv
<1>3. n \in DOMAIN v1[c] /\ n \in Nat /\ v3[c] = <<n, 1>> /\ v1[c][n] \in Seq({"x", "BS", "CR", "RT", "RESET"})
      /\ Len(v1[c]) \in Nat /\ n \in n .. Len(v1[c])
  <2>1. v1[c] \in Seq(Seq({"x", "BS", "CR", "RT", "RESET"})) /\ v3[c] \in Talk!Places /\ v3[c][2] = 1
        /\ n \in DOMAIN v1[c]
    BY <1>1, <1>2 DEF Talk!ClientsTyped, Talk!ClientsAssumption, Talk!PlacesTrue, Talk!More
  <2>2. v3[c] = <<n, 1>>
    BY <2>1 DEF Talk!Places
  <2>3. n \in 1 .. Len(v1[c]) /\ Len(v1[c]) \in Nat /\ v1[c][n] \in Seq({"x", "BS", "CR", "RT", "RESET"})
    BY <2>1
  <2> QED
    BY <2>1, <2>2, <2>3
<1> HIDE DEF fits
<1>4. Arrives
  <2>1. (IF alone \/ ~fits THEN {n} ELSE {}) \in SUBSET Nat
    BY <1>3
  <2>2. v11' \in [Talk!Names -> SUBSET Nat] /\ \A d \in Talk!Names : v11[d] \subseteq v11'[d]
    BY <1>1, <1>2, <2>1, LosesNumbers
  <2> QED
    BY <1>1, <2>2 DEF Arrives
<1>5. CASE ~fits
  <2>1. Talk!Lose(c, n .. n) /\ v2' = v2
    <3>1. n .. n = {n}
      BY <1>3
    <3> QED
      BY <1>1, <1>5, <3>1
  <2> QED
    BY <1>1, <1>2, <1>3, <2>1, RefusedKeeps
<1>6. CASE fits /\ ~alone
  <2>1. Chain(c, Talk!Whole(c, n), n, n + 1)
    BY <1>2, <1>3, WholeIsChain
  <2>2. v2' = [v2 EXCEPT ![c] = Talk!Pushed(c, Talk!Whole(c, n))] /\ Len(Talk!Whole(c, n)) <= Talk!Free(c)
    BY <1>1, <1>6 DEF fits
  <2> QED
    BY <1>1, <1>2, <1>3, <1>4, <2>1, <2>2, LinesArrive
<1>7. CASE fits /\ alone
  <2> SUFFICES ASSUME NEW char, char = <<n, 1>>, NEW next, next = <<n + 1, 1>>, NEW one, one = <<char>>
               PROVE  Talk!ClientsInv'
    OBVIOUS
  <2>1. v2' = [v2 EXCEPT ![c] = Talk!Pushed(c, one)] /\ Len(one) <= Talk!Free(c)
    BY <1>1, <1>7 DEF fits
  <2>2. Talk!Place(c, char) /\ char \in Talk!Places
    BY <1>3 DEF Talk!Place, Talk!Places
  <2>3. n \in v11'[c]
    <3>1. Talk!Lose(c, {n})
      BY <1>1, <1>7
    <3>2. {n} \in SUBSET Nat
      BY <1>3
    <3> QED
      BY <1>2, <3>1, <3>2, LosesNumbers
  <2>4. Talk!Follows(c, char, next)'
    <3>1. Talk!Kind(c, char)' \in Talk!Realtime /\ Talk!Realtime' = Talk!Realtime
      BY <1>1, <1>7 DEF Talk!Kind, Talk!Realtime
    <3>2. char[1] \in v11'[c] /\ char[2] = 1 /\ next[1] > char[1] /\ next[2] = 1 /\ char[1] + 1 .. next[1] - 1 = {}
      <4>1. char[1] = n /\ char[2] = 1 /\ next[1] = n + 1 /\ next[2] = 1
        OBVIOUS
      <4>2. n + 1 > n /\ n + 1 .. n + 1 - 1 = {}
        BY <1>3
      <4>3. next[1] > char[1] /\ char[1] + 1 .. next[1] - 1 = {}
        BY ONLY <4>1, <4>2, <1>3
      <4> QED
        BY <2>3, <4>1, <4>3
    <3> QED
      BY <2>3, <3>1, <3>2 DEF Talk!Follows
  <2>5. /\ one \in Seq(Talk!Places) /\ Len(one) = 1 /\ one[1] = char
        /\ \A i \in 1 .. Len(one) : i = 1
        /\ 1 .. Len(one) - 1 = {}
    BY <2>2
  <2>6. /\ Len(one) > 0 /\ \A i \in 1 .. Len(one) : Talk!Place(c, one[i])
        /\ \A i \in 1 .. Len(one) - 1 : Succeeds(c, one[i], one[i + 1])
    BY <2>2, <2>5
  <2>7. Sensible(c, next) /\ one[1] = v3[c] /\ char = one[Len(one)] /\ v3' = [v3 EXCEPT ![c] = next]
    BY <1>1, <1>2, <1>3, <2>5, LineBegins
  <2> HIDE DEF alone, data
  <2> QED
    BY <1>2, <1>4, <2>1, <2>4, <2>5, <2>6, <2>7, SendingKeeps
<1> QED
  BY <1>5, <1>6, <1>7

LEMMA MacroKeeps ==
  ASSUME Talk!ClientsAssumption, Talk!ClientsInv, Talk!run_macro
  PROVE  Talk!ClientsInv'
<1> SUFFICES ASSUME NEW c, c = "macro", NEW first, first = v3[c][1] PROVE Talk!ClientsInv'
  OBVIOUS
<1> DEFINE Data(last) == Talk!Several(c, first)[last - first + 1]
           Fits(last) == Len(Data(last)) <= Talk!Free(c)
<1>0. PICK last \in first .. Len(v1[c]) :
         /\ v2' = IF Fits(last) THEN [v2 EXCEPT ![c] = Talk!Pushed(c, Data(last))] ELSE v2
         /\ Talk!Lose(c, IF Fits(last) THEN {} ELSE first .. last)
         /\ v3' = [v3 EXCEPT ![c] = <<last + 1, 1>>]
  BY DEF Talk!run_macro
<1> HIDE DEF Fits
<1>1. Talk!More(c) /\ UNCHANGED <<v1, v4, v5, v6, v7, v9, v10>>
  BY DEF Talk!run_macro
<1>2. c \in Talk!Names /\ c \in {"macro", "web"} /\ Talk!ClientsTyped
  BY FourClients DEF Talk!ClientsInv
<1>3. first \in 1 .. Len(v1[c]) /\ last \in Nat /\ first \in Nat
  <2>1. v1[c] \in Seq(Seq({"x", "BS", "CR", "RT", "RESET"}))
    BY <1>2 DEF Talk!ClientsTyped, Talk!ClientsAssumption
  <2>2. first \in DOMAIN v1[c]
    BY <1>1 DEF Talk!More
  <2>3. first \in 1 .. Len(v1[c]) /\ Len(v1[c]) \in Nat
    BY <2>1, <2>2
  <2> QED
    BY <2>3
<1>4. CASE Fits(last)
  <2>1. Talk!Lose(c, {}) /\ {} \in SUBSET Nat
    BY <1>0, <1>4
  <2>2. Arrives
    BY <1>1, <1>2, <2>1, LosesNumbers DEF Arrives
  <2> SUFFICES ASSUME NEW data, data = Data(last) PROVE Talk!ClientsInv'
    OBVIOUS
  <2>3. Chain(c, data, first, last + 1)
    BY <1>2, <1>3, SeveralAreChain
  <2>4. Len(data) <= Talk!Free(c) /\ v2' = [v2 EXCEPT ![c] = Talk!Pushed(c, data)]
    BY <1>0, <1>4 DEF Fits
  <2> QED
    BY <1>0, <1>2, <1>3, <2>2, <2>3, <2>4, LinesArrive
<1>5. CASE ~Fits(last)
  <2>1. Talk!Lose(c, first .. last) /\ v2' = v2
    BY <1>0, <1>5
  <2> QED
    BY <1>0, <1>1, <1>2, <2>1, RefusedKeeps
<1> QED
  BY <1>4, <1>5

\* What stays while a character ch of client c is taken, and what may change.
Takes(c, ch) ==
    /\ UNCHANGED <<v1, v3, v7, v10>> /\ v2[c].size > 0 /\ ch = Talk!Coming(c, 0)
    /\ v2' = [v2 EXCEPT ![c] = Talk!Read(v2[c], Room[c])]
    /\ v4' \in [Talk!Names -> Seq(Talk!Places)] /\ v5' \in [Talk!Names -> BOOLEAN] /\ v9' \in BOOLEAN
    /\ \A d \in Talk!Names : d # c => v4'[d] = v4[d] /\ v5'[d] = v5[d]
    /\ v11' \in [Talk!Names -> SUBSET Nat] /\ \A d \in Talk!Names : v11[d] \subseteq v11'[d]
    /\ v6' \in [at : {"poll", "services", "got", "run"}, client : 1 .. Len(Talk!clientq) + 1,
                line : Seq(Talk!Places), number : Nat]

\* The buffers go on in order, and so does what is read of them.
LEMMA TakingGoesOn ==
  ASSUME Talk!ClientsAssumption, Talk!ClientsInv, NEW c \in Talk!Names, NEW ch, Takes(c, ch),
         NEW next, next = Talk!Coming(c, 0)'
  PROVE  /\ Talk!ClientsTyped' /\ Talk!PlacesTrue' /\ Talk!InOrder'
         /\ Talk!Place(c, ch) /\ next \in Talk!Places /\ Talk!Follows(c, ch, next)'
         /\ \A d \in Talk!Names : d # c => Talk!Coming(d, 0)' = Talk!Coming(d, 0)
<1>1. Talk!ClientsTyped /\ Talk!PlacesTrue /\ Talk!InOrder
  BY DEF Talk!ClientsInv
<1>2. LET r == Talk!Read(v2[c], Room[c])
      IN /\ r \in [cells : [0 .. Room[c] - 1 -> Talk!Places], pos : 0 .. Room[c] - 1, size : 0 .. Room[c]]
         /\ r.size = v2[c].size - 1 /\ r.cells = v2[c].cells
         /\ \A i \in 0 .. v2[c].size - 2 : (r.pos + i) % Room[c] = (v2[c].pos + (i + 1)) % Room[c]
  BY <1>1, ReadOff DEF Takes
<1>3. /\ v2'[c] = Talk!Read(v2[c], Room[c]) /\ v2' = [d \in Talk!Names |-> v2'[d]]
      /\ \A d \in Talk!Names : d # c => v2'[d] = v2[d]
  BY <1>1 DEF Takes, Talk!ClientsTyped
<1>4. Talk!ClientsTyped'
  <2>1. \A d \in Talk!Names :
           v2'[d] \in [cells : [0 .. Room[d] - 1 -> Talk!Places], pos : 0 .. Room[d] - 1, size : 0 .. Room[d]]
    BY <1>1, <1>2, <1>3 DEF Talk!ClientsTyped
  <2> QED
    BY <1>1, <1>3, <2>1 DEF Talk!ClientsTyped, Takes, Talk!Places, Talk!Names, Talk!clientq
<1>5. \A d \in Talk!Names : v2[d].size \in Nat
  BY <1>1 DEF Talk!ClientsTyped, Talk!ClientsAssumption
<1>6. ASSUME NEW d \in Talk!Names, d # c, NEW i PROVE Talk!Coming(d, i)' = Talk!Coming(d, i)
  BY <1>3, <1>6 DEF Talk!Coming, Takes
<1>7. ASSUME NEW i \in 0 .. v2[c].size - 1, NEW j, j = i + 1 PROVE Talk!Coming(c, i)' = Talk!Coming(c, j)
  <2>1. CASE i < v2[c].size - 1
    <3>1. i \in 0 .. v2[c].size - 2 /\ j < v2[c].size
      BY <1>5, <1>7, <2>1
    <3> QED
      BY <1>2, <1>3, <1>7, <2>1, <3>1 DEF Talk!Coming
  <2>2. CASE ~(i < v2[c].size - 1)
    <3>1. ~(j < v2[c].size)
      BY <1>5, <1>7, <2>2
    <3> QED
      BY <1>2, <1>3, <2>2, <3>1 DEF Talk!Coming, Takes
  <2> QED
    BY <2>1, <2>2
<1>8. ASSUME NEW d \in Talk!Names, NEW a, NEW b, Talk!Follows(d, a, b) PROVE Talk!Follows(d, a, b)'
  <2>1. v1' = v1 /\ v11[d] \subseteq v11'[d]
    BY DEF Takes
  <2>2. Talk!Kind(d, a)' = Talk!Kind(d, a)
    BY <2>1 DEF Talk!Kind
  <2> QED
    BY <1>8, <2>1, <2>2 DEF Talk!Follows, Talk!Lossy, Talk!Realtime
<1>9. Talk!PlacesTrue'
  <2> SUFFICES ASSUME NEW d \in Talk!Names
      PROVE  /\ \A i \in 0 .. v2'[d].size - 1 : Talk!Place(d, Talk!Coming(d, i))'
             /\ v3'[d][1] > 0 /\ v3'[d][2] > 0
             /\ v3'[d][1] \in DOMAIN v1'[d] => Talk!Place(d, v3[d])'
             /\ d \in {"macro", "web"} => v3'[d][2] = 1
    BY DEF Talk!PlacesTrue
  <2>1. v1' = v1 /\ v3' = v3
    BY DEF Takes
  <2>2. \A i \in 0 .. v2[d].size - 1 : Talk!Place(d, Talk!Coming(d, i))
    BY <1>1 DEF Talk!PlacesTrue
  <2>3. ASSUME NEW i \in 0 .. v2'[d].size - 1 PROVE Talk!Place(d, Talk!Coming(d, i))'
    <3>1. CASE d # c
      BY <1>3, <1>6, <2>1, <2>2, <3>1 DEF Talk!Place
    <3>2. CASE d = c
      <4>1. v2'[c].size = v2[c].size - 1
        BY <1>2, <1>3
      <4>2. i \in 0 .. v2[c].size - 1 /\ i + 1 \in 0 .. v2[c].size - 1
        BY <1>5, <3>2, <4>1
      <4>3. Talk!Coming(d, i)' = Talk!Coming(d, i + 1)
        BY <1>7, <3>2, <4>2
      <4> QED
        BY <2>1, <2>2, <3>2, <4>2, <4>3 DEF Talk!Place
    <3> QED
      BY <3>1, <3>2
  <2> QED
    BY <1>1, <2>1, <2>3 DEF Talk!PlacesTrue, Talk!Place
<1>10. Talk!InOrder'
  <2> SUFFICES ASSUME NEW d \in Talk!Names, NEW i \in 0 .. v2'[d].size - 1
      PROVE  Talk!Follows(d, Talk!Coming(d, i), Talk!Coming(d, i + 1))'
    BY Zenon DEF Talk!InOrder, Talk!Names, Talk!clientq
  <2> SUFFICES ASSUME NEW a, NEW b, a = Talk!Coming(d, i)', b = Talk!Coming(d, i + 1)'
      PROVE  Talk!Follows(d, a, b)'
    BY DEF Talk!Follows, Talk!Kind
  <2>1. CASE d # c
    <3>1. a = Talk!Coming(d, i) /\ b = Talk!Coming(d, i + 1) /\ i \in 0 .. v2[d].size - 1
      BY <1>3, <1>6, <2>1
    <3> QED
      BY <1>1, <1>8, <3>1 DEF Talk!InOrder
  <2>2. CASE d = c
    <3>1. v2'[c].size = v2[c].size - 1
      BY <1>2, <1>3
    <3>2. i \in 0 .. v2[c].size - 1 /\ i + 1 \in 0 .. v2[c].size - 1
      BY <1>5, <2>2, <3>1
    <3>3. a = Talk!Coming(c, i + 1)
      BY <1>7, <2>2, <3>2
    <3>4. b = Talk!Coming(c, i + 1 + 1)
      BY <1>7, <2>2, <3>2
    <3> QED
      BY <1>1, <1>8, <2>2, <3>2, <3>3, <3>4 DEF Talk!InOrder
  <2> QED
    BY <2>1, <2>2
<1>11. Talk!Place(c, ch) /\ Talk!Follows(c, ch, next)'
  <2>1. 0 \in 0 .. v2[c].size - 1 /\ 0 + 1 = 1
    BY <1>5 DEF Takes
  <2>2. next = Talk!Coming(c, 1)
    BY <1>7, <2>1
  <2> QED
    BY <1>1, <1>8, <2>1, <2>2 DEF Talk!InOrder, Talk!PlacesTrue, Takes
<1>12. next \in Talk!Places
  <2>1. 0 \in 0 .. v2[c].size /\ 1 \in 0 .. v2[c].size /\ 0 \in 0 .. v2[c].size - 1 /\ 0 + 1 = 1
    BY <1>5 DEF Takes
  <2>2. next = Talk!Coming(c, 1)
    BY <1>7, <2>1
  <2> QED
    BY <1>1, <2>1, <2>2, ComingTyped
<1>13. \A d \in Talk!Names : d # c => Talk!Coming(d, 0)' = Talk!Coming(d, 0)
  BY <1>6
<1> QED
  BY <1>4, <1>9, <1>10, <1>11, <1>12, <1>13

\* Where reading a character ch of client c goes on, in numbers of lines.
LEMMA TakingTurns ==
  ASSUME Talk!ClientsAssumption, Talk!ClientsInv, NEW c \in Talk!Names, NEW ch, Takes(c, ch),
         NEW next, next = Talk!Coming(c, 0)'
  PROVE  /\ ch \in Talk!Places /\ ch[1] \in Nat /\ ch[2] \in Nat \ {0} /\ next[1] \in Nat /\ next[2] \in Nat
         /\ next[1] >= ch[1] /\ ch[1] + 1 .. next[1] - 1 \subseteq v11'[c]
         /\ next[1] > ch[1] => Talk!Kind(c, ch) = "NL" \/ ch[1] \in v11'[c]
         /\ Talk!Kind(c, ch) = "NL" => next[1] > ch[1]
<1>1. Talk!ClientsTyped /\ Talk!PlacesTrue
  BY DEF Talk!ClientsInv
<1>2. /\ Talk!ClientsTyped' /\ Talk!PlacesTrue' /\ Talk!Place(c, ch) /\ next \in Talk!Places
      /\ Talk!Follows(c, ch, next)'
  BY TakingGoesOn
<1>3. ch[1] \in Nat \ {0} /\ ch[2] \in Nat \ {0} /\ (Talk!Kind(c, ch) = "NL" <=> ch[2] = Len(v1[c][ch[1]]) + 1)
      /\ Len(v1[c][ch[1]]) \in Nat
  BY <1>1, <1>2, KindsOfCharacters
<1>4. next[1] \in Nat /\ next[2] \in Nat
  BY <1>2 DEF Talk!Places
<1>5. ch \in Talk!Places
  <2>1. 0 \in 0 .. v2[c].size
    BY <1>1 DEF Talk!ClientsTyped, Talk!ClientsAssumption
  <2> QED
    BY <1>1, <2>1, ComingTyped DEF Takes
<1>6. v1' = v1
  BY DEF Takes
<1>7. Talk!Kind(c, ch)' = Talk!Kind(c, ch)
  BY <1>6 DEF Talk!Kind
<1>8. next[1] = ch[1] => ch[2] < next[2]
  <2>1. next = <<ch[1], ch[2] + 1>> => next[2] = ch[2] + 1
    OBVIOUS
  <2> QED
    BY <1>2, <1>3, <1>4, <2>1 DEF Talk!Follows
<1>9. next[1] \in DOMAIN v1[c] => next[2] \in 1 .. Len(v1[c][next[1]]) + 1
  <2>1. v2'[c].size \in Nat
    BY <1>2 DEF Talk!ClientsTyped, Talk!ClientsAssumption
  <2>2. CASE 0 < v2'[c].size
    <3>1. 0 \in 0 .. v2'[c].size - 1
      BY <2>1, <2>2
    <3>2. Talk!Place(c, Talk!Coming(c, 0))'
      BY <1>2, <3>1 DEF Talk!PlacesTrue
    <3> QED
      BY <1>6, <3>2 DEF Talk!Place
  <2>3. CASE ~(0 < v2'[c].size)
    <3>1. next = v3'[c]
      BY <2>3 DEF Talk!Coming
    <3>2. v3'[c][1] \in DOMAIN v1'[c] => Talk!Place(c, v3[c])'
      BY <1>2 DEF Talk!PlacesTrue
    <3> QED
      BY <1>6, <3>1, <3>2 DEF Talk!Place
  <2> QED
    BY <2>2, <2>3
<1>10. next[1] >= ch[1] /\ ch[1] + 1 .. next[1] - 1 \subseteq v11'[c]
       /\ (next[1] > ch[1] => Talk!Kind(c, ch) = "NL" \/ ch[1] \in v11'[c])
  <2>1. next = <<ch[1], ch[2] + 1>> => next[1] = ch[1]
    OBVIOUS
  <2>2. next[1] = ch[1] => ch[1] + 1 .. next[1] - 1 = {}
    BY <1>3
  <2> QED
    BY <1>2, <1>3, <1>4, <1>7, <2>1, <2>2 DEF Talk!Follows
<1>11. Talk!Kind(c, ch) = "NL" => next[1] > ch[1]
  <2> SUFFICES ASSUME Talk!Kind(c, ch) = "NL", next[1] = ch[1] PROVE FALSE
    BY <1>3, <1>4, <1>10
  <2>1. ch[1] \in DOMAIN v1[c]
    BY <1>2 DEF Talk!Place
  <2> QED
    BY <1>3, <1>4, <1>8, <1>9, <2>1
<1> QED
  BY <1>3, <1>4, <1>5, <1>10, <1>11

\* A character ch of client c is taken: what is begun goes on to be meant, and a
\* line that ends is at hand or lost.
LEMMA TakingKeeps ==
  ASSUME Talk!ClientsAssumption, Talk!ClientsInv, NEW c \in Talk!Names, NEW ch, Takes(c, ch),
         NEW now, now = Talk!Begun(c)',
         Talk!Kind(c, ch) = "NL" => now = <<>>,
         Talk!Kind(c, ch) # "NL" /\ ch[1] \notin v11'[c] /\ Talk!Begun(c) = Talk!MeantTo(c, ch[1])[ch[2] - 1]
            => now = Talk!MeantTo(c, ch[1])[ch[2]],
         Talk!Kind(c, ch) \in Talk!Realtime => now = Talk!Begun(c),
         \/ /\ v6.at = "poll" /\ v6'.at = "got" /\ v6'.client \in DOMAIN Talk!clientq
            /\ Talk!clientq[v6'.client] = c /\ v6'.number = ch[1] /\ Talk!Kind(c, ch) = "NL"
            /\ ch[1] \notin v11'[c] => v6'.line = Talk!Begun(c)
         \/ /\ v6' = v6 \/ (v6.at = "poll" /\ v6'.at = "poll")
            /\ Talk!Kind(c, ch) = "NL" => ch[1] \in v11'[c]
  PROVE  Talk!ClientsInv'
<1> PICK next : next = Talk!Coming(c, 0)'
  OBVIOUS
<1> DEFINE Got == /\ v6.at = "poll" /\ v6'.at = "got" /\ v6'.client \in DOMAIN Talk!clientq
                  /\ Talk!clientq[v6'.client] = c /\ v6'.number = ch[1] /\ Talk!Kind(c, ch) = "NL"
                  /\ ch[1] \notin v11'[c] => v6'.line = Talk!Begun(c)
           Goes == /\ v6' = v6 \/ (v6.at = "poll" /\ v6'.at = "poll")
                   /\ Talk!Kind(c, ch) = "NL" => ch[1] \in v11'[c]
<1>1. Got \/ Goes
  OBVIOUS
<1> HIDE DEF Got, Goes
<1>2. /\ Talk!ClientsTyped' /\ Talk!PlacesTrue' /\ Talk!InOrder' /\ Talk!Place(c, ch) /\ next \in Talk!Places
      /\ Talk!Follows(c, ch, next)' /\ \A d \in Talk!Names : d # c => Talk!Coming(d, 0)' = Talk!Coming(d, 0)
  BY TakingGoesOn
<1>3. /\ ch \in Talk!Places /\ ch[1] \in Nat /\ ch[2] \in Nat \ {0} /\ next[1] \in Nat /\ next[2] \in Nat
      /\ next[1] >= ch[1] /\ ch[1] + 1 .. next[1] - 1 \subseteq v11'[c]
      /\ next[1] > ch[1] => Talk!Kind(c, ch) = "NL" \/ ch[1] \in v11'[c]
      /\ Talk!Kind(c, ch) = "NL" => next[1] > ch[1]
  BY TakingTurns
<1>4. Talk!ClientsTyped /\ Talk!Continued /\ Talk!InTurn /\ Talk!LineAtHand
  BY DEF Talk!ClientsInv
<1>5. v1' = v1 /\ v10' = v10 /\ ch = Talk!Coming(c, 0) /\ \A d \in Talk!Names : v11[d] \subseteq v11'[d]
  BY DEF Takes
<1>6. \A d \in Talk!Names : d # c => Talk!Begun(d)' = Talk!Begun(d)
  BY DEF Takes, Talk!Begun
<1>7. Talk!Kind(c, ch)' = Talk!Kind(c, ch)
  BY <1>5 DEF Talk!Kind
<1>8. ch = <<ch[1], ch[2]>> /\ ch[1] \in DOMAIN v1[c] /\ ch[2] \in 1 .. Len(v1[c][ch[1]]) + 1
  BY <1>2, <1>3 DEF Talk!Place, Talk!Places
<1>9. ch[1] \notin v11'[c] => Talk!Begun(c) = Talk!MeantTo(c, ch[1])[ch[2] - 1]
  <2> SUFFICES ASSUME NEW n, n = ch[1], NEW k, k = ch[2], n \notin v11'[c]
               PROVE  Talk!Begun(c) = Talk!MeantTo(c, n)[k - 1]
    OBVIOUS
  <2>1. n \in DOMAIN v1[c] \ v11[c] /\ k \in 1 .. Len(v1[c][n]) + 1 /\ Talk!Coming(c, 0) = <<n, k>>
    BY <1>5, <1>8
  <2> QED
    BY <1>4, <2>1 DEF Talk!Continued
<1>10. \A d \in Talk!Names : d # c => Talk!AtHand(d)' = Talk!AtHand(d)
  <2>1. Talk!clientq' = Talk!clientq
    BY DEF Talk!clientq
  <2>2. CASE Got
    BY <2>1, <2>2 DEF Got, Talk!AtHand
  <2>3. CASE Goes
    BY <2>1, <2>3 DEF Goes, Talk!AtHand
  <2> QED
    BY <1>1, <2>2, <2>3
<1>11. /\ Got => Talk!AtHand(c) = {} /\ Talk!AtHand(c)' = {ch[1]}
       /\ Goes => Talk!AtHand(c)' = Talk!AtHand(c)
  BY DEF Got, Goes, Talk!AtHand, Talk!clientq
<1>12. Talk!Continued'
  <2>1. ASSUME NEW d \in Talk!Names, NEW n \in DOMAIN v1[d], n \notin v11'[d], NEW k \in 1 .. Len(v1[d][n]) + 1,
               Talk!Coming(d, 0)' = <<n, k>>
        PROVE  Talk!Begun(d)' = Talk!MeantTo(d, n)'[k - 1]
    <3>1. Talk!MeantTo(d, n)' = Talk!MeantTo(d, n)
      BY <1>5, MeantStays
    <3>2. CASE d # c
      <4>1. n \notin v11[d] /\ Talk!Coming(d, 0) = <<n, k>> /\ Talk!Begun(d)' = Talk!Begun(d)
        BY <1>2, <1>5, <1>6, <2>1, <3>2
      <4> QED
        BY <1>4, <2>1, <3>1, <4>1 DEF Talk!Continued
    <3>3. CASE d = c
      <4>1. next = <<n, k>> /\ next[1] = n /\ next[2] = k
        BY <2>1, <3>3
      <4>2. n \in Nat /\ n \notin v11'[c]
        BY <1>3, <2>1, <3>3, <4>1
      <4>3. CASE Talk!Kind(c, ch) # "NL" /\ next = <<ch[1], ch[2] + 1>>
        <5>1. n = ch[1] /\ k - 1 = ch[2]
          BY <1>3, <4>1, <4>3
        <5>2. now = Talk!MeantTo(c, ch[1])[ch[2]]
          BY <1>9, <4>2, <4>3, <5>1
        <5> QED
          BY <3>1, <3>3, <5>1, <5>2
      <4>4. CASE next[1] > ch[1] /\ next[2] = 1 /\ now = <<>>
        <5>1. k - 1 = 0 /\ Talk!MeantTo(c, n)[0] = <<>>
          BY <4>1, <4>2, <4>4, MeantByCharacter
        <5> QED
          BY <3>1, <3>3, <4>4, <5>1
      <4>5. Talk!Kind(c, ch) \in Talk!Realtime /\ c = "web" /\ ch[2] = 1 => now = <<>>
        <5>1. "web" \notin Talk!Lossy
          BY DEF Talk!Lossy
        <5> QED
          BY <1>4, <1>5, <5>1 DEF Talk!Continued
      <4>6. Talk!Realtime' = Talk!Realtime
        BY DEF Talk!Realtime
      <4>7. \/ Talk!Kind(c, ch) # "NL" /\ next = <<ch[1], ch[2] + 1>>
            \/ next[1] > ch[1] /\ next[2] = 1 /\ now = <<>>
        BY <1>2, <1>7, <4>1, <4>2, <4>5, <4>6 DEF Talk!Follows
      <4> QED
        BY <4>3, <4>4, <4>7
    <3> QED
      BY <3>2, <3>3
  <2>2. ASSUME NEW d \in Talk!Names, d \notin Talk!Lossy, Talk!Coming(d, 0)'[2] = 1
        PROVE  Talk!Begun(d)' = <<>>
    <3>1. CASE d # c
      BY <1>2, <1>4, <1>6, <2>2, <3>1 DEF Talk!Continued
    <3>2. CASE d = c
      <4>1. next = <<ch[1], ch[2] + 1>> => next[2] # 1
        BY <1>3
      <4>2. Talk!Realtime' = Talk!Realtime /\ Talk!Lossy' = Talk!Lossy
        BY DEF Talk!Realtime, Talk!Lossy
      <4>3. Talk!Kind(c, ch) = "NL" \/ (Talk!Kind(c, ch) \in Talk!Realtime /\ ch[2] = 1)
        BY <1>2, <1>7, <2>2, <3>2, <4>1, <4>2 DEF Talk!Follows
      <4>4. ch[2] = 1 => Talk!Begun(c) = <<>>
        BY <1>4, <1>5, <2>2, <3>2 DEF Talk!Continued
      <4> QED
        BY <3>2, <4>3, <4>4
    <3> QED
      BY <3>1, <3>2
  <2>3. Talk!Lossy' = Talk!Lossy
    BY DEF Talk!Lossy
  <2> QED
    BY <1>5, <2>1, <2>2, <2>3 DEF Talk!Continued
<1>13. Talk!InTurn'
  <2> SUFFICES ASSUME NEW d \in Talk!Names
      PROVE  /\ \A i \in DOMAIN v10'[d] : /\ v10'[d][i] < Talk!Coming(d, 0)'[1]
                                          /\ \A n \in Talk!AtHand(d)' : v10'[d][i] < n
             /\ \A i \in 1 .. Len(v10'[d]) - 1 : v10'[d][i] < v10'[d][i + 1]
             /\ 1 .. Talk!Coming(d, 0)'[1] - 1 \subseteq Talk!Range(v10'[d]) \cup v11'[d] \cup Talk!AtHand(d)'
    BY DEF Talk!InTurn
  <2>1. v10' = v10 /\ v11[d] \subseteq v11'[d] /\ v10[d] \in Seq(Nat)
    BY <1>4, <1>5 DEF Talk!ClientsTyped
  <2>2. /\ \A i \in DOMAIN v10[d] : /\ v10[d][i] < Talk!Coming(d, 0)[1]
                                    /\ \A n \in Talk!AtHand(d) : v10[d][i] < n
        /\ \A i \in 1 .. Len(v10[d]) - 1 : v10[d][i] < v10[d][i + 1]
        /\ 1 .. Talk!Coming(d, 0)[1] - 1 \subseteq Talk!Range(v10[d]) \cup v11[d] \cup Talk!AtHand(d)
    BY <1>4 DEF Talk!InTurn
  <2>3. CASE d # c
    <3>1. Talk!Coming(d, 0)' = Talk!Coming(d, 0) /\ Talk!AtHand(d)' = Talk!AtHand(d)
      BY <1>2, <1>10, <2>3
    <3> QED
      BY <2>1, <2>2, <3>1
  <2>4. CASE d = c
    <3>1. \A i \in DOMAIN v10[c] : v10[c][i] \in Nat /\ v10[c][i] < ch[1]
      BY <1>5, <2>1, <2>2, <2>4
    <3>2. \A i \in DOMAIN v10[c] : v10[c][i] < next[1]
      BY <1>3, <3>1
    <3>3. \A i \in DOMAIN v10[c] : \A n \in Talk!AtHand(c)' : v10[c][i] < n
      BY <1>1, <1>11, <2>2, <2>4, <3>1
    <3>4. ASSUME NEW m \in 1 .. next[1] - 1 PROVE m \in Talk!Range(v10[c]) \cup v11'[c] \cup Talk!AtHand(c)'
      <4>1. m \in 1 .. ch[1] - 1 \/ m = ch[1] \/ m \in ch[1] + 1 .. next[1] - 1
        BY <1>3
      <4>2. CASE m \in 1 .. ch[1] - 1
        BY <1>1, <1>5, <1>11, <2>1, <2>2, <2>4, <4>2
      <4>3. CASE m = ch[1]
        <5>1. Talk!Kind(c, ch) = "NL" \/ ch[1] \in v11'[c]
          BY <1>3, <4>3
        <5>2. Goes => ch[1] \in v11'[c]
          BY <5>1 DEF Goes
        <5> QED
          BY <1>1, <1>11, <4>3, <5>2
      <4> QED
        BY <1>3, <4>1, <4>2, <4>3
    <3>5. Talk!Coming(d, 0)' = next
      BY <2>4
    <3> QED
      BY <2>1, <2>2, <2>4, <3>2, <3>3, <3>4, <3>5
  <2> QED
    BY <2>3, <2>4
<1>14. Talk!LineAtHand'
  <2> SUFFICES ASSUME v6'.at \in {"got", "run"}, NEW e, e = Talk!clientq[v6'.client], NEW n, n = v6'.number
      PROVE  /\ v6'.client \in DOMAIN Talk!clientq
             /\ n < Talk!Coming(e, 0)'[1]
             /\ n \notin v11'[e] => v6'.line = Talk!Meant(e, n)'
    BY DEF Talk!LineAtHand, Talk!clientq
  <2>1. Talk!Meant(e, n)' = Talk!Meant(e, n)
    BY <1>5, MeantStays
  <2>2. CASE Got
    <3>1. v6'.client \in DOMAIN Talk!clientq /\ e = c /\ n = ch[1] /\ Talk!Kind(c, ch) = "NL"
          /\ (n \notin v11'[c] => v6'.line = Talk!Begun(c))
      BY <2>2 DEF Got
    <3>2. Len(v1[c][ch[1]]) \in Nat /\ ch[2] = Len(v1[c][ch[1]]) + 1
      BY <1>2, <1>4, <3>1, KindsOfCharacters
    <3>3. ch[2] - 1 = Len(v1[c][n])
      BY <3>1, <3>2
    <3>4. n \notin v11'[c] => v6'.line = Talk!Meant(c, n)
      BY <1>9, <3>1, <3>3 DEF Talk!Meant
    <3> QED
      BY <1>3, <2>1, <3>1, <3>4
  <2>3. CASE Goes
    <3>1. v6' = v6
      BY <2>3 DEF Goes
    <3>2. /\ v6.client \in DOMAIN Talk!clientq /\ n < Talk!Coming(e, 0)[1]
          /\ (n \notin v11[e] => v6.line = Talk!Meant(e, n))
      BY <1>4, <3>1 DEF Talk!LineAtHand
    <3>3. e \in Talk!Names /\ n \in Nat
      BY <1>4, <3>1, <3>2, FourClients DEF Talk!ClientsTyped
    <3>4. n < Talk!Coming(e, 0)'[1]
      BY <1>2, <1>3, <1>5, <3>2, <3>3
    <3> QED
      BY <1>5, <2>1, <3>1, <3>2, <3>3, <3>4
  <2> QED
    BY <1>1, <2>2, <2>3
<1> QED
  BY <1>2, <1>12, <1>13, <1>14 DEF Talk!ClientsInv

\* What is taken is a line, too.
LEMMA TakenTyped ==
  ASSUME NEW c, NEW ch \in Talk!Places, NEW text \in Seq(Talk!Places)
  PROVE  /\ Talk!Taken(c, ch, text) \in Seq(Talk!Places)
         /\ Talk!Overflows(c, ch, text) => Talk!Taken(c, ch, text) = <<>>
         /\ Talk!Kind(c, ch) \in Talk!Realtime => Talk!Taken(c, ch, text) = text
         /\ ~Talk!Overflows(c, ch, text) =>
               /\ Talk!Kind(c, ch) \in Talk!Realtime \cup {"CR", "NL"} => Talk!Taken(c, ch, text) = text
               /\ Talk!Kind(c, ch) = "BS" =>
                     Talk!Taken(c, ch, text) = IF text = <<>> THEN <<>> ELSE Talk!Front(text)
               /\ Talk!Kind(c, ch) \notin Talk!Realtime \cup {"CR", "NL", "BS"} =>
                     Talk!Taken(c, ch, text) = Append(text, ch)
<1> PICK kind : kind = Talk!Kind(c, ch)
  OBVIOUS
<1>1. Append(text, ch) \in Seq(Talk!Places)
  OBVIOUS
<1>2. text # <<>> => Talk!Front(text) \in Seq(Talk!Places)
  BY DEF Talk!Front
<1>3. <<>> \in Seq(Talk!Places)
  OBVIOUS
<1>4. CASE kind \in Talk!Realtime
  <2>1. Talk!Taken(c, ch, text) = text /\ ~Talk!Overflows(c, ch, text) /\ kind \notin {"BS", "CR", "NL"}
    BY <1>4 DEF Talk!Taken, Talk!Overflows, Talk!Realtime
  <2> QED
    BY <1>4, <2>1
<1>5. CASE kind = "BS"
  <2>1. /\ Talk!Taken(c, ch, text) = IF text = <<>> THEN <<>> ELSE Talk!Front(text)
        /\ ~Talk!Overflows(c, ch, text) /\ kind \notin Talk!Realtime \cup {"CR", "NL"}
    BY <1>5 DEF Talk!Taken, Talk!Overflows, Talk!Realtime
  <2> QED
    BY <1>2, <1>3, <1>5, <2>1
<1>6. CASE kind \notin Talk!Realtime \cup {"BS"} /\ Len(text) + 1 = MaxLine
  <2>1. Talk!Taken(c, ch, text) = <<>> /\ Talk!Overflows(c, ch, text)
    BY <1>6 DEF Talk!Taken, Talk!Overflows, Talk!Realtime
  <2> QED
    BY <1>3, <1>6, <2>1
<1>7. CASE kind \in {"CR", "NL"} /\ Len(text) + 1 # MaxLine
  <2>1. /\ Talk!Taken(c, ch, text) = text /\ kind # "BS" /\ kind \notin Talk!Realtime
        /\ ~Talk!Overflows(c, ch, text)
    BY <1>7 DEF Talk!Taken, Talk!Overflows, Talk!Realtime
  <2> QED
    BY <1>7, <2>1
<1>8. CASE kind \notin Talk!Realtime \cup {"BS", "CR", "NL"} /\ Len(text) + 1 # MaxLine
  <2>1. Talk!Taken(c, ch, text) = Append(text, ch)
    BY <1>8 DEF Talk!Taken, Talk!Overflows, Talk!Realtime
  <2> QED
    BY <1>1, <1>8, <2>1 DEF Talk!Overflows
<1> QED
  BY <1>4, <1>5, <1>6, <1>7, <1>8

\* Lines begun are made of places.
LEMMA LinesBegun ==
  ASSUME Talk!ClientsTyped, NEW c \in Talk!Names
  PROVE  /\ Talk!Begun(c) \in Seq(Talk!Places)
         /\ {t[1] : t \in Talk!Range(Talk!Begun(c))} \in SUBSET Nat
<1> PICK text : text = Talk!Begun(c)
  OBVIOUS
<1>1. text \in Seq(Talk!Places)
  BY DEF Talk!ClientsTyped, Talk!Begun
<1>2. \A t \in Talk!Range(text) : t[1] \in Nat
  BY <1>1 DEF Talk!Range, Talk!Places
<1> QED
  BY <1>1, <1>2

\* What is in the buffers stays, and what is begun.
LEMMA BuffersStay ==
  ASSUME Talk!ClientsAssumption, Talk!ClientsInv, UNCHANGED <<v1, v2, v3, v4, v5>>,
         v11' \in [Talk!Names -> SUBSET Nat], \A d \in Talk!Names : v11[d] \subseteq v11'[d]
  PROVE  /\ Talk!PlacesTrue' /\ Talk!InOrder' /\ Talk!Continued'
         /\ \A d : Talk!Coming(d, 0)' = Talk!Coming(d, 0)
<1>2. \A d, i : Talk!Coming(d, i)' = Talk!Coming(d, i)
  BY DEF Talk!Coming
<1>3. \A d : Talk!Begun(d)' = Talk!Begun(d)
  BY DEF Talk!Begun
<1>4. Talk!PlacesTrue'
  <2> SUFFICES ASSUME NEW d \in Talk!Names
      PROVE  /\ \A i \in 0 .. v2'[d].size - 1 : Talk!Place(d, Talk!Coming(d, i))'
             /\ v3'[d][1] > 0 /\ v3'[d][2] > 0
             /\ v3'[d][1] \in DOMAIN v1'[d] => Talk!Place(d, v3[d])'
             /\ d \in {"macro", "web"} => v3'[d][2] = 1
    BY DEF Talk!PlacesTrue
  <2>1. Talk!PlacesTrue
    BY DEF Talk!ClientsInv
  <2>2. \A i \in 0 .. v2'[d].size - 1 : Talk!Place(d, Talk!Coming(d, i))'
    BY <1>2, <2>1 DEF Talk!PlacesTrue, Talk!Place
  <2> QED
    BY <2>1, <2>2 DEF Talk!PlacesTrue, Talk!Place
<1>5. Talk!InOrder'
  <2> SUFFICES ASSUME NEW d \in Talk!Names, NEW i \in 0 .. v2'[d].size - 1
      PROVE  Talk!Follows(d, Talk!Coming(d, i), Talk!Coming(d, i + 1))'
    BY Zenon DEF Talk!InOrder, Talk!Names, Talk!clientq
  <2> SUFFICES ASSUME NEW a, NEW b, a = Talk!Coming(d, i)', b = Talk!Coming(d, i + 1)'
      PROVE  Talk!Follows(d, a, b)'
    BY DEF Talk!Follows, Talk!Kind
  <2>1. Talk!Follows(d, a, b)
    BY <1>2 DEF Talk!ClientsInv, Talk!InOrder
  <2>2. Talk!Kind(d, a)' = Talk!Kind(d, a)
    BY DEF Talk!Kind
  <2> QED
    BY <2>1, <2>2 DEF Talk!Follows, Talk!Lossy, Talk!Realtime
<1>6. Talk!Continued'
  <2>1. ASSUME NEW d \in Talk!Names, NEW n \in DOMAIN v1[d], n \notin v11'[d], NEW k \in 1 .. Len(v1[d][n]) + 1,
               Talk!Coming(d, 0)' = <<n, k>>
        PROVE  Talk!Begun(d)' = Talk!MeantTo(d, n)'[k - 1]
    <3>1. Talk!MeantTo(d, n)' = Talk!MeantTo(d, n)
      BY MeantStays
    <3>2. n \notin v11[d]
      BY <2>1
    <3> QED
      BY <1>2, <1>3, <2>1, <3>1, <3>2 DEF Talk!ClientsInv, Talk!Continued
  <2>2. ASSUME NEW d \in Talk!Names, d \notin Talk!Lossy, Talk!Coming(d, 0)'[2] = 1
        PROVE  Talk!Begun(d)' = <<>>
    BY <1>2, <1>3, <2>2 DEF Talk!ClientsInv, Talk!Continued
  <2>3. Talk!Lossy' = Talk!Lossy
    BY DEF Talk!Lossy
  <2> QED
    BY <2>1, <2>2, <2>3 DEF Talk!Continued
<1> QED
  BY <1>2, <1>4, <1>5, <1>6

\* Only the main task goes on: the line it has is kept, or lost.
LEMMA MainGoesOn ==
  ASSUME Talk!ClientsAssumption, Talk!ClientsInv, UNCHANGED <<v1, v2, v3, v4, v5, v10>>,
         v7' \in BOOLEAN, v9' \in BOOLEAN, v11' \in [Talk!Names -> SUBSET Nat],
         \A d \in Talk!Names : v11[d] \subseteq v11'[d],
         v6' \in [at : {"poll", "services", "got", "run"}, client : 1 .. Len(Talk!clientq) + 1,
                  line : Seq(Talk!Places), number : Nat],
         \/ v6' = v6
         \/ v6'.at \in {"poll", "services"} /\ \A d \in Talk!Names : Talk!AtHand(d) \subseteq v11'[d]
  PROVE  Talk!ClientsInv'
<1>1. Talk!ClientsTyped'
  BY DEF Talk!ClientsInv, Talk!ClientsTyped, Talk!Places, Talk!Names, Talk!clientq
<1>2. /\ Talk!PlacesTrue' /\ Talk!InOrder' /\ Talk!Continued'
      /\ \A d : Talk!Coming(d, 0)' = Talk!Coming(d, 0)
  BY BuffersStay
<1>7. ASSUME NEW d \in Talk!Names
      PROVE  /\ Talk!AtHand(d)' \subseteq Talk!AtHand(d)
             /\ Talk!AtHand(d) \subseteq Talk!AtHand(d)' \cup v11'[d]
  BY DEF Talk!AtHand, Talk!clientq
<1>8. Talk!InTurn'
  <2> SUFFICES ASSUME NEW d \in Talk!Names
      PROVE  /\ \A i \in DOMAIN v10'[d] : /\ v10'[d][i] < Talk!Coming(d, 0)'[1]
                                          /\ \A n \in Talk!AtHand(d)' : v10'[d][i] < n
             /\ \A i \in 1 .. Len(v10'[d]) - 1 : v10'[d][i] < v10'[d][i + 1]
             /\ 1 .. Talk!Coming(d, 0)'[1] - 1 \subseteq Talk!Range(v10'[d]) \cup v11'[d] \cup Talk!AtHand(d)'
    BY DEF Talk!InTurn
  <2>1. /\ \A i \in DOMAIN v10[d] : /\ v10[d][i] < Talk!Coming(d, 0)[1]
                                    /\ \A n \in Talk!AtHand(d) : v10[d][i] < n
        /\ \A i \in 1 .. Len(v10[d]) - 1 : v10[d][i] < v10[d][i + 1]
        /\ 1 .. Talk!Coming(d, 0)[1] - 1 \subseteq Talk!Range(v10[d]) \cup v11[d] \cup Talk!AtHand(d)
    BY DEF Talk!ClientsInv, Talk!InTurn
  <2>2. 1 .. Talk!Coming(d, 0)[1] - 1 \subseteq Talk!Range(v10[d]) \cup v11'[d] \cup Talk!AtHand(d)'
    BY <1>7, <2>1
  <2>3. \A i \in DOMAIN v10[d] : \A n \in Talk!AtHand(d)' : v10[d][i] < n
    BY <1>7, <2>1
  <2> QED
    BY <1>2, <2>1, <2>2, <2>3
<1>9. Talk!LineAtHand'
  <2> SUFFICES ASSUME v6'.at \in {"got", "run"}, NEW e, e = Talk!clientq[v6'.client], NEW n, n = v6'.number
      PROVE  /\ v6'.client \in DOMAIN Talk!clientq
             /\ n < Talk!Coming(e, 0)'[1]
             /\ n \notin v11'[e] => v6'.line = Talk!Meant(e, n)'
    BY DEF Talk!LineAtHand, Talk!clientq
  <2>1. v6' = v6
    OBVIOUS
  <2>2. /\ v6.client \in DOMAIN Talk!clientq /\ n < Talk!Coming(e, 0)[1]
        /\ (n \notin v11[e] => v6.line = Talk!Meant(e, n))
    BY <2>1 DEF Talk!ClientsInv, Talk!LineAtHand
  <2>3. e \in Talk!Names
    BY <2>1, <2>2, FourClients
  <2>4. Talk!Meant(e, n)' = Talk!Meant(e, n)
    BY MeantStays
  <2> QED
    BY <1>2, <2>1, <2>2, <2>3, <2>4
<1> QED
  BY <1>1, <1>2, <1>8, <1>9 DEF Talk!ClientsInv

\* What a character adds to what its line is meant to be.
LEMMA MeantNext ==
  ASSUME NEW c, NEW ch \in Talk!Places, ch[2] \in Nat \ {0}, NEW text, text = Talk!MeantTo(c, ch[1])[ch[2] - 1]
  PROVE  /\ Talk!Kind(c, ch) \in Talk!Realtime \cup {"CR"} => Talk!MeantTo(c, ch[1])[ch[2]] = text
         /\ Talk!Kind(c, ch) = "BS" =>
               Talk!MeantTo(c, ch[1])[ch[2]] = IF text = <<>> THEN <<>> ELSE Talk!Front(text)
         /\ Talk!Kind(c, ch) \notin Talk!Realtime \cup {"CR", "BS"} =>
               Talk!MeantTo(c, ch[1])[ch[2]] = Append(text, ch)
<1>1. PICK n, k : n \in Nat /\ k \in Nat \ {0} /\ ch = <<n, k>> /\ ch[1] = n /\ ch[2] = k
  BY DEF Talk!Places
<1> DEFINE f == Talk!MeantTo(c, n)
           kind == Talk!Kind(c, <<n, k>>)
<1>2. MeantFrom(c, n, f)
  BY <1>1, MeantByCharacter
<1>3. text = f[k - 1] /\ f[k] = Talk!MeantTo(c, ch[1])[ch[2]] /\ kind = Talk!Kind(c, ch)
  BY <1>1
<1> HIDE DEF f, kind
<1> QED
  BY <1>1, <1>2, <1>3 DEF MeantFrom, kind

\* A client's turn: a character less, and the end of a line is at hand unless
\* the card is busy or the line too long.
LEMMA PollKeeps ==
  ASSUME Talk!ClientsAssumption, Talk!ClientsInv, Talk!Poll
  PROVE  Talk!ClientsInv'
<1>1. PICK c : c = Talk!clientq[v6.client]
  OBVIOUS
<1>2. Talk!ClientsTyped /\ v6.at = "poll" /\ v6.client \in 1 .. 4 /\ c \in Talk!Names
  BY <1>1, FourClients DEF Talk!ClientsInv, Talk!Poll
<1>3. UNCHANGED <<v1, v3, v7, v8, v10, v12>> /\ v7 \in BOOLEAN /\ v9 \in BOOLEAN /\ v11 \in [Talk!Names -> SUBSET Nat]
  BY <1>2 DEF Talk!Poll, Talk!ClientsTyped
<1>4. /\ v6 \in [at : {"poll", "services", "got", "run"}, client : 1 .. Len(Talk!clientq) + 1,
                 line : Seq(Talk!Places), number : Nat]
      /\ v6.client + 1 \in 1 .. Len(Talk!clientq) + 1
  <2>1. Len(Talk!clientq) = 4
    BY FourClients
  <2>2. v6.client + 1 \in 1 .. Len(Talk!clientq) + 1
    BY <1>2, <2>1
  <2> QED
    BY <1>2, <2>2 DEF Talk!ClientsTyped
<1>5. /\ [v6 EXCEPT !.client = @ + 1] \in [at : {"poll", "services", "got", "run"},
                                           client : 1 .. Len(Talk!clientq) + 1, line : Seq(Talk!Places), number : Nat]
      /\ [v6 EXCEPT !.client = @ + 1].at = "poll"
  BY <1>2, <1>4
<1>6. CASE v2[c].size = 0
  <2>1. v6' = [v6 EXCEPT !.client = @ + 1] /\ UNCHANGED <<v2, v4, v5, v9, v11>>
    BY <1>1, <1>6 DEF Talk!Poll
  <2>2. \A d \in Talk!Names : Talk!AtHand(d) = {} /\ v11'[d] = v11[d]
    BY <1>2, <2>1 DEF Talk!AtHand
  <2> QED
    BY <1>3, <1>5, <2>1, <2>2, MainGoesOn
<1>7. CASE v2[c].size # 0
  <2> DEFINE char == Talk!Character(c)
             read == Talk!Begun(c)
             over == Talk!Overflows(c, char, read)
             ends == Talk!Kind(c, char) = "NL" /\ ~over
             losing == IF over THEN Talk!Spoilt(c, char) \cup {t[1] : t \in Talk!Range(read)}
                       ELSE IF ends /\ v7 THEN {char[1]} ELSE {}
             got == [at |-> "got", client |-> v6.client, line |-> read, number |-> char[1]]
  <2>1. /\ Talk!TakeCharacter(c)
        /\ v4' = [v4 EXCEPT ![c] = IF ends /\ v7 THEN <<>> ELSE Talk!Taken(c, char, read)]
        /\ v5' = [v5 EXCEPT ![c] = ends /\ ~v7]
        /\ Talk!Lose(c, losing)
        /\ v6' = IF ends /\ ~v7 THEN got ELSE [v6 EXCEPT !.client = @ + 1]
    BY <1>1, <1>7 DEF Talk!Poll
  <2> SUFFICES ASSUME NEW ch, ch = char, NEW text, text = read, NEW numbers, numbers = losing
               PROVE  Talk!ClientsInv'
    OBVIOUS
  <2>2. v2[c].size > 0 /\ 0 \in 0 .. v2[c].size
    BY <1>2, <1>7 DEF Talk!ClientsTyped, Talk!ClientsAssumption
  <2>3. ch = Talk!Coming(c, 0) /\ ch \in Talk!Places
    BY <1>2, <2>2, ReadOff, ComingTyped
  <2>4. text \in Seq(Talk!Places) /\ {t[1] : t \in Talk!Range(text)} \in SUBSET Nat /\ ch[1] \in Nat /\ ch[2] \in Nat
        /\ ch = <<ch[1], ch[2]>>
    BY <1>2, <2>3, LinesBegun DEF Talk!Places
  <2>5. PICK kind, long : kind = Talk!Kind(c, ch) /\ long = Talk!Overflows(c, ch, text) /\ long \in BOOLEAN
    <3>1. Talk!Overflows(c, ch, text) \in BOOLEAN
      BY DEF Talk!Overflows
    <3> QED
      BY <3>1
  <2>6. PICK taken \in Seq(Talk!Places) : taken = Talk!Taken(c, ch, text)
    BY <2>3, <2>4, TakenTyped
  <2>7. /\ v4'[c] = IF kind = "NL" /\ ~long /\ v7 THEN <<>> ELSE taken
        /\ v5'[c] = (kind = "NL" /\ ~long /\ ~v7)
        /\ v4' \in [Talk!Names -> Seq(Talk!Places)] /\ v5' \in [Talk!Names -> BOOLEAN]
        /\ \A d \in Talk!Names : d # c => v4'[d] = v4[d] /\ v5'[d] = v5[d]
    <3>1. v4 \in [Talk!Names -> Seq(Talk!Places)] /\ v5 \in [Talk!Names -> BOOLEAN]
      BY <1>2 DEF Talk!ClientsTyped
    <3>2. v4' = [v4 EXCEPT ![c] = IF kind = "NL" /\ ~long /\ v7 THEN <<>> ELSE taken]
          /\ v5' = [v5 EXCEPT ![c] = (kind = "NL" /\ ~long) /\ ~v7]
      BY <2>1, <2>5, <2>6
    <3>3. <<>> \in Seq(Talk!Places)
      OBVIOUS
    <3> HIDE DEF char, read, over, ends, losing, got
    <3> QED
      BY ONLY <1>2, <1>3, <2>5, <2>6, <3>1, <3>2, <3>3
  <2>8. /\ numbers \in SUBSET Nat
        /\ long => ch[1] \in numbers
        /\ ~long /\ kind = "NL" /\ v7 => ch[1] \in numbers
    <3>1. Talk!Spoilt(c, ch) \in SUBSET Nat /\ ch[1] \in Talk!Spoilt(c, ch)
      BY <2>4 DEF Talk!Spoilt
    <3>2. numbers = IF long THEN Talk!Spoilt(c, ch) \cup {t[1] : t \in Talk!Range(text)}
                    ELSE IF (kind = "NL" /\ ~long) /\ v7 THEN {ch[1]} ELSE {}
      BY <2>5
    <3> HIDE DEF char, read, over, ends, losing, got
    <3> QED
      BY <2>4, <3>1, <3>2
  <2>9. /\ v11' \in [Talk!Names -> SUBSET Nat] /\ v11'[c] = v11[c] \cup numbers
        /\ \A d \in Talk!Names : v11[d] \subseteq v11'[d]
    BY <1>2, <2>1, <2>8, LosesNumbers
  <2>10. v6' = IF kind = "NL" /\ ~long /\ ~v7
               THEN [at |-> "got", client |-> v6.client, line |-> text, number |-> ch[1]]
               ELSE [v6 EXCEPT !.client = @ + 1]
    BY <2>1, <2>5
  <2>11. /\ v2' = [v2 EXCEPT ![c] = Talk!Read(v2[c], Room[c])]
         /\ v9' = (v9 \/ kind = "RESET")
    BY <2>1, <2>5 DEF Talk!TakeCharacter
  <2> HIDE DEF char, read, over, ends, losing, got
  <2>12. v6' \in [at : {"poll", "services", "got", "run"}, client : 1 .. Len(Talk!clientq) + 1,
                  line : Seq(Talk!Places), number : Nat]
    <3>1. v6.client \in 1 .. Len(Talk!clientq) + 1
      BY <1>4
    <3>2. [at |-> "got", client |-> v6.client, line |-> text, number |-> ch[1]]
             \in [at : {"poll", "services", "got", "run"}, client : 1 .. Len(Talk!clientq) + 1,
                  line : Seq(Talk!Places), number : Nat]
      BY <2>4, <3>1
    <3> QED
      BY <1>5, <2>10, <3>2
  <2>13. Takes(c, ch)
    <3>1. v9' \in BOOLEAN
      BY <1>3, <2>11
    <3> QED
      BY <1>3, <2>2, <2>3, <2>7, <2>9, <2>11, <2>12, <3>1 DEF Takes
  <2>14. PICK now : now = Talk!Begun(c)'
    OBVIOUS
  <2>15. now = IF kind = "NL" /\ ~long THEN <<>> ELSE taken
    <3>1. now = IF v5'[c] THEN <<>> ELSE v4'[c]
      BY <2>14 DEF Talk!Begun
    <3> QED
      BY <1>3, <2>7, <3>1
  <2>16. /\ long => taken = <<>>
         /\ kind \in Talk!Realtime => taken = text
         /\ ~long =>
               /\ kind \in Talk!Realtime \cup {"CR", "NL"} => taken = text
               /\ kind = "BS" => taken = IF text = <<>> THEN <<>> ELSE Talk!Front(text)
               /\ kind \notin Talk!Realtime \cup {"CR", "NL", "BS"} => taken = Append(text, ch)
    BY <2>3, <2>4, <2>5, <2>6, TakenTyped
  <2>17. kind = "NL" => now = <<>>
    BY <2>5, <2>15, <2>16
  <2>18. kind \in Talk!Realtime => now = text
    BY <2>15, <2>16 DEF Talk!Realtime
  <2>19. ASSUME kind # "NL", ch[1] \notin v11'[c], text = Talk!MeantTo(c, ch[1])[ch[2] - 1]
         PROVE  now = Talk!MeantTo(c, ch[1])[ch[2]]
    <3>1. ~long /\ now = taken
      BY <2>5, <2>8, <2>9, <2>15, <2>19
    <3>2. ch[2] \in Nat \ {0}
      <4> PICK next : next = Talk!Coming(c, 0)'
        OBVIOUS
      <4> QED
        BY <1>2, <2>13, TakingTurns
    <3>3. /\ kind \in Talk!Realtime \cup {"CR"} => Talk!MeantTo(c, ch[1])[ch[2]] = text
          /\ kind = "BS" => Talk!MeantTo(c, ch[1])[ch[2]] = IF text = <<>> THEN <<>> ELSE Talk!Front(text)
          /\ kind \notin Talk!Realtime \cup {"CR", "BS"} => Talk!MeantTo(c, ch[1])[ch[2]] = Append(text, ch)
      <4>1. /\ Talk!Kind(c, ch) \in Talk!Realtime \cup {"CR"} => Talk!MeantTo(c, ch[1])[ch[2]] = text
            /\ Talk!Kind(c, ch) = "BS" =>
                  Talk!MeantTo(c, ch[1])[ch[2]] = IF text = <<>> THEN <<>> ELSE Talk!Front(text)
            /\ Talk!Kind(c, ch) \notin Talk!Realtime \cup {"CR", "BS"} =>
                  Talk!MeantTo(c, ch[1])[ch[2]] = Append(text, ch)
        BY <2>3, <2>19, <3>2, MeantNext, ZenonT(30)
      <4> QED
        BY <2>5, <4>1
    <3> QED
      BY <2>16, <2>19, <3>1, <3>3
  <2>20. CASE kind = "NL" /\ ~long /\ ~v7
    <3>1. /\ v6'.at = "got" /\ v6'.client \in DOMAIN Talk!clientq /\ Talk!clientq[v6'.client] = c
          /\ v6'.number = ch[1] /\ v6'.line = text
      BY <1>1, <1>2, <2>10, <2>20, FourClients
    <3>2. read = Talk!Begun(c)
      BY DEF read
    <3> QED
      BY <1>2, <2>5, <2>13, <2>14, <2>17, <2>18, <2>19, <2>20, <3>1, <3>2, TakingKeeps
  <2>21. CASE ~(kind = "NL" /\ ~long /\ ~v7)
    <3>1. v6'.at = "poll"
      BY <1>5, <2>10, <2>21
    <3>2. kind = "NL" => ch[1] \in v11'[c]
      BY <1>3, <2>5, <2>8, <2>9, <2>21
    <3>3. read = Talk!Begun(c)
      BY DEF read
    <3> QED
      BY <1>2, <2>5, <2>13, <2>14, <2>17, <2>18, <2>19, <3>1, <3>2, <3>3, TakingKeeps
  <2> QED
    BY <2>20, <2>21
<1> QED
  BY <1>6, <1>7

\* A character taken by the realtime system: what is no realtime command is lost.
LEMMA PollRealtimeKeeps ==
  ASSUME Talk!ClientsAssumption, Talk!ClientsInv, Talk!PollRealtime
  PROVE  Talk!ClientsInv'
<1> DEFINE Char(c) == Talk!Character(c)
<1>1. PICK c \in Talk!Names :
         /\ Talk!TakeCharacter(c)
         /\ v5' = [v5 EXCEPT ![c] = FALSE]
         /\ IF Talk!Kind(c, Char(c)) \in Talk!Realtime
            THEN v4' = [v4 EXCEPT ![c] = Talk!Begun(c)] /\ UNCHANGED v11
            ELSE /\ v4' = [v4 EXCEPT ![c] = <<>>]
                 /\ Talk!Lose(c, {Char(c)[1]} \cup {t[1] : t \in Talk!Range(Talk!Begun(c))})
  BY DEF Talk!PollRealtime
<1>2. Talk!ClientsTyped /\ UNCHANGED <<v1, v3, v6, v7, v10>>
  BY DEF Talk!ClientsInv, Talk!PollRealtime
<1>3. PICK ch, text : ch = Char(c) /\ text = Talk!Begun(c)
  OBVIOUS
<1>4. v2[c].size > 0 /\ 0 \in 0 .. v2[c].size
  BY <1>1, <1>2 DEF Talk!ClientsTyped, Talk!ClientsAssumption, Talk!TakeCharacter
<1>5. ch = Talk!Coming(c, 0) /\ ch \in Talk!Places
  BY <1>2, <1>3, <1>4, ReadOff, ComingTyped
<1>6. text \in Seq(Talk!Places) /\ {t[1] : t \in Talk!Range(text)} \in SUBSET Nat /\ ch[1] \in Nat /\ ch[2] \in Nat
      /\ ch = <<ch[1], ch[2]>>
  BY <1>2, <1>3, <1>5, LinesBegun DEF Talk!Places
<1>7. PICK kind, numbers : kind = Talk!Kind(c, ch) /\ numbers = {ch[1]} \cup {t[1] : t \in Talk!Range(text)}
  OBVIOUS
<1>8. /\ v4'[c] = IF kind \in Talk!Realtime THEN text ELSE <<>>
      /\ v5'[c] = FALSE
      /\ v4' \in [Talk!Names -> Seq(Talk!Places)] /\ v5' \in [Talk!Names -> BOOLEAN]
      /\ \A d \in Talk!Names : d # c => v4'[d] = v4[d] /\ v5'[d] = v5[d]
  <2>1. v4 \in [Talk!Names -> Seq(Talk!Places)] /\ v5 \in [Talk!Names -> BOOLEAN]
    BY <1>2 DEF Talk!ClientsTyped
  <2>2. v4' = [v4 EXCEPT ![c] = IF kind \in Talk!Realtime THEN text ELSE <<>>] /\ v5' = [v5 EXCEPT ![c] = FALSE]
    BY <1>1, <1>3, <1>7
  <2>3. <<>> \in Seq(Talk!Places)
    OBVIOUS
  <2> QED
    BY ONLY <1>1, <1>6, <2>1, <2>2, <2>3
<1>9. /\ v11' \in [Talk!Names -> SUBSET Nat] /\ (kind \notin Talk!Realtime => ch[1] \in v11'[c])
      /\ \A d \in Talk!Names : v11[d] \subseteq v11'[d]
  <2>1. CASE kind \in Talk!Realtime
    <3>1. v11' = v11
      BY <1>1, <1>3, <1>7, <2>1
    <3> QED
      BY <1>2, <2>1, <3>1 DEF Talk!ClientsTyped
  <2>2. CASE kind \notin Talk!Realtime
    <3>1. Talk!Lose(c, numbers) /\ numbers \in SUBSET Nat /\ ch[1] \in numbers
      BY <1>1, <1>3, <1>6, <1>7, <2>2
    <3> QED
      BY <1>2, <3>1, LosesNumbers
  <2> QED
    BY <2>1, <2>2
<1>10. Takes(c, ch)
  <2>1. v2' = [v2 EXCEPT ![c] = Talk!Read(v2[c], Room[c])]
    BY <1>1 DEF Talk!TakeCharacter
  <2>2. v9' \in BOOLEAN
    BY <1>1, <1>2 DEF Talk!TakeCharacter, Talk!ClientsTyped
  <2>3. v6 \in [at : {"poll", "services", "got", "run"}, client : 1 .. Len(Talk!clientq) + 1,
                line : Seq(Talk!Places), number : Nat]
    BY <1>2 DEF Talk!ClientsTyped
  <2> QED
    BY <1>2, <1>4, <1>5, <1>8, <1>9, <2>1, <2>2, <2>3 DEF Takes
<1>11. PICK now : now = Talk!Begun(c)'
  OBVIOUS
<1>12. now = IF kind \in Talk!Realtime THEN text ELSE <<>>
  <2>1. now = IF v5'[c] THEN <<>> ELSE v4'[c]
    BY <1>11 DEF Talk!Begun
  <2> QED
    BY <1>8, <2>1
<1>13. "NL" \notin Talk!Realtime
  BY DEF Talk!Realtime
<1>14. ASSUME kind # "NL", ch[1] \notin v11'[c], text = Talk!MeantTo(c, ch[1])[ch[2] - 1]
       PROVE  now = Talk!MeantTo(c, ch[1])[ch[2]]
  <2>1. kind \in Talk!Realtime /\ ch[2] \in Nat \ {0}
    <3> PICK next : next = Talk!Coming(c, 0)'
      OBVIOUS
    <3> QED
      BY <1>9, <1>10, <1>14, TakingTurns
  <2>2. Talk!MeantTo(c, ch[1])[ch[2]] = text
    BY <1>5, <1>7, <1>14, <2>1, MeantNext
  <2> QED
    BY <1>12, <2>1, <2>2
<1> QED
  BY <1>2, <1>3, <1>7, <1>9, <1>10, <1>11, <1>12, <1>13, <1>14, TakingKeeps

\* What is at hand is executed now.
LEMMA ExecuteKeeps ==
  ASSUME Talk!ClientsAssumption, Talk!ClientsInv, Talk!Execute
  PROVE  Talk!ClientsInv'
<1>1. PICK c, n : c = Talk!clientq[v6.client] /\ n = v6.number
  OBVIOUS
<1>2. Talk!ClientsTyped /\ Talk!InTurn /\ Talk!LineAtHand /\ v6.at = "got"
  BY DEF Talk!ClientsInv, Talk!Execute
<1>3. /\ UNCHANGED <<v1, v2, v3, v4, v5, v7, v9, v11>> /\ v6' = [v6 EXCEPT !.at = "run"]
      /\ v10' = [v10 EXCEPT ![c] = Append(@, n)]
  BY <1>1 DEF Talk!Execute
<1>4. /\ v6.client \in DOMAIN Talk!clientq /\ c \in Talk!Names /\ n \in Nat /\ n < Talk!Coming(c, 0)[1]
      /\ n \notin v11[c] => v6.line = Talk!Meant(c, n)
  BY <1>1, <1>2, FourClients DEF Talk!LineAtHand, Talk!ClientsTyped
<1>5. v6' \in [at : {"poll", "services", "got", "run"}, client : 1 .. Len(Talk!clientq) + 1,
               line : Seq(Talk!Places), number : Nat]
      /\ v6'.at = "run" /\ v6'.client = v6.client /\ v6'.number = n /\ v6'.line = v6.line
  <2>1. v6 \in [at : {"poll", "services", "got", "run"}, client : 1 .. Len(Talk!clientq) + 1,
                line : Seq(Talk!Places), number : Nat]
    BY <1>2 DEF Talk!ClientsTyped
  <2> QED
    BY <1>1, <1>3, <2>1
<1>6. /\ v10 \in [Talk!Names -> Seq(Nat)] /\ v10' \in [Talk!Names -> Seq(Nat)] /\ v10'[c] = Append(v10[c], n)
      /\ \A d \in Talk!Names : d # c => v10'[d] = v10[d]
  BY <1>2, <1>3, <1>4 DEF Talk!ClientsTyped
<1>7. Talk!ClientsTyped'
  BY <1>2, <1>3, <1>5, <1>6 DEF Talk!ClientsTyped, Talk!Places, Talk!Names, Talk!clientq
<1>8. /\ Talk!PlacesTrue' /\ Talk!InOrder' /\ Talk!Continued'
      /\ \A d : Talk!Coming(d, 0)' = Talk!Coming(d, 0)
  <2>1. v11' \in [Talk!Names -> SUBSET Nat] /\ \A d \in Talk!Names : v11[d] \subseteq v11'[d]
    BY <1>2, <1>3 DEF Talk!ClientsTyped
  <2> QED
    BY <1>3, <2>1, BuffersStay
<1>9. /\ Talk!AtHand(c) = {n} /\ \A d \in Talk!Names : Talk!AtHand(d)' = {} /\ (d # c => Talk!AtHand(d) = {})
  BY <1>1, <1>2, <1>5 DEF Talk!AtHand
<1>10. Talk!InTurn'
  <2> SUFFICES ASSUME NEW d \in Talk!Names
      PROVE  /\ \A i \in DOMAIN v10'[d] : /\ v10'[d][i] < Talk!Coming(d, 0)'[1]
                                          /\ \A m \in Talk!AtHand(d)' : v10'[d][i] < m
             /\ \A i \in 1 .. Len(v10'[d]) - 1 : v10'[d][i] < v10'[d][i + 1]
             /\ 1 .. Talk!Coming(d, 0)'[1] - 1 \subseteq Talk!Range(v10'[d]) \cup v11'[d] \cup Talk!AtHand(d)'
    BY DEF Talk!InTurn
  <2>1. /\ \A i \in DOMAIN v10[d] : /\ v10[d][i] < Talk!Coming(d, 0)[1]
                                    /\ \A m \in Talk!AtHand(d) : v10[d][i] < m
        /\ \A i \in 1 .. Len(v10[d]) - 1 : v10[d][i] < v10[d][i + 1]
        /\ 1 .. Talk!Coming(d, 0)[1] - 1 \subseteq Talk!Range(v10[d]) \cup v11[d] \cup Talk!AtHand(d)
    BY <1>2 DEF Talk!InTurn
  <2>2. CASE d # c
    BY <1>3, <1>6, <1>8, <1>9, <2>1, <2>2
  <2>3. CASE d = c
    <3> DEFINE len == Len(v10[c])
    <3>1. /\ len \in Nat /\ Len(v10'[c]) = len + 1 /\ v10'[c][len + 1] = n
          /\ \A i \in 1 .. len : v10'[c][i] = v10[c][i]
          /\ DOMAIN v10[c] = 1 .. len /\ DOMAIN v10'[c] = 1 .. len + 1
      BY <1>4, <1>6
    <3> HIDE DEF len
    <3>2. \A i \in DOMAIN v10'[c] : v10'[c][i] < Talk!Coming(c, 0)[1]
      BY <1>4, <2>1, <2>3, <3>1
    <3>3. ASSUME NEW i \in 1 .. len PROVE v10'[c][i] < v10'[c][i + 1]
      <4>1. CASE i = len
        <5>1. i \in DOMAIN v10[c] /\ i \in 1 .. len /\ v10'[c][i] = v10[c][i] /\ v10'[c][i + 1] = n
          BY <3>1, <4>1
        <5>2. v10[c][i] < n
          BY <1>9, <2>1, <2>3, <5>1
        <5> QED
          BY <5>1, <5>2
      <4>2. CASE i # len
        <5>1. i \in 1 .. Len(v10[c]) - 1 /\ i \in 1 .. len /\ i + 1 \in 1 .. len
          BY <3>1, <4>2 DEF len
        <5> QED
          BY <2>1, <2>3, <3>1, <5>1
      <4> QED
        BY <4>1, <4>2
    <3>4. Talk!Range(v10[c]) \cup {n} \subseteq Talk!Range(v10'[c])
      <4>1. ASSUME NEW m \in Talk!Range(v10[c]) PROVE m \in Talk!Range(v10'[c])
        <5>1. PICK i \in 1 .. len : m = v10[c][i]
          BY <3>1 DEF Talk!Range
        <5>2. i \in 1 .. len + 1 /\ m = v10'[c][i]
          BY <3>1, <5>1
        <5> QED
          BY <3>1, <5>2 DEF Talk!Range
      <4>2. len + 1 \in DOMAIN v10'[c]
        BY <3>1
      <4> QED
        BY <3>1, <4>1, <4>2 DEF Talk!Range
    <3>5. Len(v10'[c]) - 1 = len
      BY <3>1
    <3> QED
      BY <1>3, <1>8, <1>9, <2>1, <2>3, <3>2, <3>3, <3>4, <3>5
  <2> QED
    BY <2>2, <2>3
<1>11. Talk!LineAtHand'
  <2> SUFFICES ASSUME NEW e, e = Talk!clientq[v6'.client], NEW m, m = v6'.number
      PROVE  /\ v6'.client \in DOMAIN Talk!clientq
             /\ m < Talk!Coming(e, 0)'[1]
             /\ m \notin v11'[e] => v6'.line = Talk!Meant(e, m)'
    BY DEF Talk!LineAtHand, Talk!clientq
  <2>1. e = c /\ m = n /\ v11' = v11
    BY <1>1, <1>3, <1>5
  <2>2. Talk!Meant(c, n)' = Talk!Meant(c, n)
    BY <1>3, MeantStays
  <2> QED
    BY <1>4, <1>5, <1>8, <2>1, <2>2
<1> QED
  BY <1>7, <1>8, <1>10, <1>11 DEF Talk!ClientsInv

\* The rest of the main loop, limit switches and the card.
LEMMA LoopKeeps ==
  ASSUME Talk!ClientsAssumption, Talk!ClientsInv,
         Talk!PassEnds \/ Talk!Executed \/ Talk!Abort \/ Talk!Limit \/ Talk!Card
  PROVE  Talk!ClientsInv'
<1> DEFINE Mains == [at : {"poll", "services", "got", "run"}, client : 1 .. Len(Talk!clientq) + 1,
                     line : Seq(Talk!Places), number : Nat]
<1>1. Talk!ClientsTyped
  BY DEF Talk!ClientsInv
<1>2. /\ v6 \in Mains /\ v7 \in BOOLEAN /\ v9 \in BOOLEAN /\ v11 \in [Talk!Names -> SUBSET Nat]
      /\ \A d \in Talk!Names : v11[d] \subseteq v11[d]
  BY <1>1 DEF Talk!ClientsTyped
<1>3. /\ Talk!Idle \in Mains /\ Talk!Idle.at = "poll"
      /\ [Talk!Idle EXCEPT !.at = "services"] \in Mains /\ [Talk!Idle EXCEPT !.at = "services"].at = "services"
  <2>1. <<>> \in Seq(Talk!Places) /\ 1 \in 1 .. Len(Talk!clientq) + 1
    BY FourClients
  <2>2. Talk!Idle \in Mains /\ Talk!Idle.at = "poll"
    BY <2>1 DEF Talk!Idle
  <2>3. PICK idle \in Mains : idle = Talk!Idle
    BY <2>2
  <2>4. [idle EXCEPT !.at = "services"] \in Mains /\ [idle EXCEPT !.at = "services"].at = "services"
    BY <2>3
  <2> QED
    BY <2>2, <2>3, <2>4
<1>4. CASE Talk!PassEnds
  <2>1. /\ UNCHANGED <<v1, v2, v3, v4, v5, v7, v9, v10, v11>> /\ v6.at # "got"
        /\ v6' \in {Talk!Idle, [Talk!Idle EXCEPT !.at = "services"]}
    BY <1>4 DEF Talk!PassEnds, Talk!Services
  <2>2. \A d \in Talk!Names : Talk!AtHand(d) \subseteq v11'[d]
    BY <2>1 DEF Talk!AtHand
  <2> QED
    BY <1>2, <1>3, <2>1, <2>2, MainGoesOn
<1>5. CASE Talk!Executed
  <2>1. UNCHANGED <<v1, v2, v3, v4, v5, v7, v9, v10, v11>> /\ v6.at # "got" /\ v6' = Talk!Idle
    BY <1>5 DEF Talk!Executed
  <2>2. \A d \in Talk!Names : Talk!AtHand(d) \subseteq v11'[d]
    BY <2>1 DEF Talk!AtHand
  <2> QED
    BY <1>2, <1>3, <2>1, <2>2, MainGoesOn
<1>6. CASE Talk!Abort
  <2>1. UNCHANGED <<v1, v2, v3, v4, v5, v7, v10>> /\ v6' = Talk!Idle /\ v9' = FALSE
    BY <1>6 DEF Talk!Abort
  <2>2. /\ v11' \in [Talk!Names -> SUBSET Nat]
        /\ \A d \in Talk!Names : v11[d] \subseteq v11'[d] /\ Talk!AtHand(d) \subseteq v11'[d]
    <3>1. CASE v6.at = "got"
      <4> SUFFICES ASSUME NEW c, c = Talk!clientq[v6.client], NEW n, n = v6.number
                   PROVE  /\ v11' \in [Talk!Names -> SUBSET Nat]
                          /\ \A d \in Talk!Names : v11[d] \subseteq v11'[d] /\ Talk!AtHand(d) \subseteq v11'[d]
        OBVIOUS
      <4>1. c \in Talk!Names /\ {n} \in SUBSET Nat /\ Talk!Lose(c, {n})
        BY <1>2, <1>6, <3>1, FourClients DEF Talk!ClientsInv, Talk!LineAtHand, Talk!Abort
      <4>2. /\ v11' \in [Talk!Names -> SUBSET Nat] /\ n \in v11'[c]
            /\ \A d \in Talk!Names : v11[d] \subseteq v11'[d]
        BY <1>1, <4>1, LosesNumbers
      <4> QED
        BY <4>2 DEF Talk!AtHand
    <3>2. CASE v6.at # "got"
      BY <1>2, <1>6, <3>2 DEF Talk!Abort, Talk!AtHand
    <3> QED
      BY <3>1, <3>2
  <2> QED
    BY <1>2, <1>3, <2>1, <2>2, MainGoesOn
<1>7. CASE Talk!Limit
  BY <1>2, <1>7, MainGoesOn DEF Talk!Limit
<1>8. CASE Talk!Card
  <2>1. UNCHANGED <<v1, v2, v3, v4, v5, v6, v9, v10, v11>> /\ v7' = ~v7
    BY <1>8 DEF Talk!Card
  <2>2. v7' \in BOOLEAN
    BY <2>1
  <2> QED
    BY <1>2, <2>1, <2>2, MainGoesOn
<1> QED
  BY <1>4, <1>5, <1>6, <1>7, <1>8

\* Nothing is sent yet.
LEMMA ClientsBegin ==
  ASSUME Talk!ClientsAssumption, Talk!Init
  PROVE  Talk!ClientsInv
<1>1. \A c \in Talk!Names : Room[c] \in Nat \ {0}
  BY DEF Talk!ClientsAssumption
<1>2. ASSUME NEW c \in Talk!Names
      PROVE  /\ v2[c] = [cells |-> [i \in 0 .. Room[c] - 1 |-> <<0, 0>>], pos |-> 0, size |-> 0]
             /\ v3[c] = <<1, 1>> /\ v4[c] = <<>> /\ v5[c] = FALSE /\ v10[c] = <<>> /\ v11[c] = {}
  BY DEF Talk!Init, Talk!EmptyRing
<1>3. ASSUME NEW c \in Talk!Names
      PROVE  /\ v2[c] \in [cells : [0 .. Room[c] - 1 -> Talk!Places], pos : 0 .. Room[c] - 1, size : 0 .. Room[c]]
             /\ v2[c].size = 0
  <2>1. [i \in 0 .. Room[c] - 1 |-> <<0, 0>>] \in [0 .. Room[c] - 1 -> Talk!Places]
    BY DEF Talk!Places
  <2>2. 0 \in 0 .. Room[c] - 1 /\ 0 \in 0 .. Room[c]
    BY <1>1
  <2> DEFINE cells == [i \in 0 .. Room[c] - 1 |-> <<0, 0>>]
  <2>3. v2[c] = [cells |-> cells, pos |-> 0, size |-> 0]
    BY <1>2
  <2> HIDE DEF cells
  <2> QED
    BY <2>1, <2>2, <2>3 DEF cells
<1>4. Talk!ClientsTyped
  <2>1. v2 = [c \in Talk!Names |-> v2[c]]
    BY DEF Talk!Init
  <2>2. v3 \in [Talk!Names -> Talk!Places] /\ v4 \in [Talk!Names -> Seq(Talk!Places)] /\ v5 \in [Talk!Names -> BOOLEAN]
    BY DEF Talk!Init, Talk!Places
  <2>5. <<>> \in Seq(Nat) /\ {} \in SUBSET Nat
    OBVIOUS
  <2>3. v10 \in [Talk!Names -> Seq(Nat)] /\ v11 \in [Talk!Names -> SUBSET Nat] /\ v1 \in ClientInputs
        /\ v7 \in BOOLEAN /\ v9 \in BOOLEAN
    BY <2>5 DEF Talk!Init
  <2>4. v6 \in [at : {"poll", "services", "got", "run"}, client : 1 .. Len(Talk!clientq) + 1,
                line : Seq(Talk!Places), number : Nat]
    BY FourClients DEF Talk!Init, Talk!Idle
  <2> QED
    BY <1>3, <2>1, <2>2, <2>3, <2>4 DEF Talk!ClientsTyped
<1>5. \A c \in Talk!Names : Talk!Coming(c, 0) = <<1, 1>> /\ Talk!Begun(c) = <<>>
  <2> SUFFICES ASSUME NEW c \in Talk!Names PROVE Talk!Coming(c, 0) = <<1, 1>> /\ Talk!Begun(c) = <<>>
    OBVIOUS
  <2>1. v3[c] = <<1, 1>> /\ v4[c] = <<>> /\ v5[c] = FALSE
    BY <1>2
  <2>2. v2[c].size = 0
    BY <1>3
  <2>3. ~(0 < v2[c].size)
    BY <2>2
  <2> QED
    BY <2>1, <2>3 DEF Talk!Coming, Talk!Begun
<1>6. Talk!PlacesTrue
  <2> SUFFICES ASSUME NEW c \in Talk!Names
               PROVE  /\ \A i \in 0 .. v2[c].size - 1 : Talk!Place(c, Talk!Coming(c, i))
                      /\ v3[c][1] > 0 /\ v3[c][2] > 0
                      /\ v3[c][1] \in DOMAIN v1[c] => Talk!Place(c, v3[c])
                      /\ c \in {"macro", "web"} => v3[c][2] = 1
    BY DEF Talk!PlacesTrue
  <2>2. v3[c][1] = 1 /\ v3[c][2] = 1 /\ 0 .. v2[c].size - 1 = {}
    <3>1. v3[c] = <<1, 1>> /\ v2[c].size = 0
      BY <1>2, <1>3
    <3> QED
      BY <3>1
  <2>1. v1[c] \in Seq(Seq({"x", "BS", "CR", "RT", "RESET"}))
    BY <1>4 DEF Talk!ClientsAssumption, Talk!ClientsTyped
  <2>3. 1 \in DOMAIN v1[c] => 1 \in 1 .. Len(v1[c][1]) + 1
    BY <2>1
  <2> QED
    BY <2>2, <2>3 DEF Talk!Place
<1>7. Talk!InOrder
  BY <1>3 DEF Talk!InOrder
<1>8. Talk!Continued
  <2> SUFFICES ASSUME NEW c \in Talk!Names, NEW n, NEW k, <<1, 1>> = <<n, k>>
               PROVE  <<>> = Talk!MeantTo(c, n)[k - 1]
    BY <1>5 DEF Talk!Continued
  <2>1. n \in Nat /\ k - 1 = 0
    OBVIOUS
  <2> QED
    BY <2>1, MeantByCharacter
<1>9. Talk!InTurn
  <2> SUFFICES ASSUME NEW c \in Talk!Names
               PROVE  /\ \A i \in DOMAIN v10[c] : /\ v10[c][i] < Talk!Coming(c, 0)[1]
                                                  /\ \A n \in Talk!AtHand(c) : v10[c][i] < n
                      /\ \A i \in 1 .. Len(v10[c]) - 1 : v10[c][i] < v10[c][i + 1]
                      /\ 1 .. Talk!Coming(c, 0)[1] - 1 \subseteq Talk!Range(v10[c]) \cup v11[c] \cup Talk!AtHand(c)
    BY DEF Talk!InTurn
  <2>1. v10[c] = <<>> /\ Talk!Coming(c, 0) = <<1, 1>>
    BY <1>2, <1>5
  <2>2. DOMAIN v10[c] = {} /\ 1 .. Len(v10[c]) - 1 = {} /\ 1 .. Talk!Coming(c, 0)[1] - 1 = {}
    BY <2>1
  <2> QED
    BY <2>2
<1>10. Talk!LineAtHand
  BY DEF Talk!Init, Talk!Idle, Talk!LineAtHand
<1> QED
  BY <1>4, <1>6, <1>7, <1>8, <1>9, <1>10 DEF Talk!ClientsInv

\* The clients, whatever they send and when.
LEMMA ClientsInvariant == PartsSpec => [](part = "clients" => Talk!ClientsInv)
<1> DEFINE Inv == part = "clients" => Talk!ClientsInv
<1>1. PartsInit => Inv
  BY ClientsBegin, PartsAssumption DEF PartsInit
<1>2. Inv /\ [PartsNext]_<<part, v1, v2, v3, v4, v5, v6, v7, v8, v9, v10, v11, v12, v13,
                               v14, v15, v16, v17, v18, v19>>
        => Inv'
  <2> SUFFICES ASSUME Inv, part' = "clients",
                      \/ PartsNext
                      \/ UNCHANGED <<part, v1, v2, v3, v4, v5, v6, v7, v8, v9, v10, v11, v12, v13,
                                     v14, v15, v16, v17, v18, v19>>
               PROVE  Talk!ClientsInv'
    OBVIOUS
  <2>1. CASE PartsNext
    <3>1. part = "clients" /\ Talk!Next
      BY <2>1 DEF PartsNext
    <3>2. Talk!ClientsInv /\ Talk!ClientsAssumption
      BY <3>1, PartsAssumption
    <3>3. Talk!Receive \/ Talk!_handle_web_command \/ Talk!Telnet \/ Talk!Reconnect \/ Talk!run_macro
            => Talk!ClientsInv'
      BY <3>2, ReceiveKeeps, WebCommandKeeps, TelnetKeeps, ReconnectKeeps, MacroKeeps
    <3>4. Talk!Poll \/ Talk!PollRealtime \/ Talk!Execute => Talk!ClientsInv'
      BY <3>2, PollKeeps, PollRealtimeKeeps, ExecuteKeeps
    <3>5. Talk!PassEnds \/ Talk!Executed \/ Talk!Abort \/ Talk!Limit \/ Talk!Card => Talk!ClientsInv'
      BY <3>2, LoopKeeps
    <3> QED
      BY <3>1, <3>3, <3>4, <3>5 DEF Talk!Next
  <2>2. CASE UNCHANGED <<part, v1, v2, v3, v4, v5, v6, v7, v8, v9, v10, v11, v12, v13, v14, v15, v16, v17, v18, v19>>
    <3>1. Talk!ClientsInv /\ Talk!ClientsAssumption
      BY <2>2, PartsAssumption
    <3>2. /\ v6 \in [at : {"poll", "services", "got", "run"}, client : 1 .. Len(Talk!clientq) + 1,
                     line : Seq(Talk!Places), number : Nat]
          /\ v7 \in BOOLEAN /\ v9 \in BOOLEAN /\ v11 \in [Talk!Names -> SUBSET Nat]
      BY <3>1 DEF Talk!ClientsInv, Talk!ClientsTyped
    <3> QED
      BY <2>2, <3>1, <3>2, MainGoesOn
  <2> QED
    BY <2>1, <2>2
<1> HIDE DEF Inv
<1>3. PartsSpec => []Inv
  BY <1>1, <1>2, PTL DEF PartsSpec
<1> QED
  BY <1>3 DEF Inv

\* Lines are executed as they were sent, in order, each once.
THEOREM LinesAlwaysIntact == PartsSpec => []LinesIntact
<1>1. (part = "clients" => Talk!ClientsInv) => LinesIntact
  <2> SUFFICES ASSUME Talk!ClientsInv, v6.at = "run", NEW c, c = Talk!clientq[v6.client], NEW n, n = v6.number
               PROVE  /\ n \notin v11[c] => v6.line = Talk!Meant(c, n)
                      /\ \A i \in 1 .. Len(v10[c]) - 1 : v10[c][i] < v10[c][i + 1]
                      /\ 1 .. n \subseteq Talk!Range(v10[c]) \cup v11[c]
    BY DEF LinesIntact, Talk!LinesIntact
  <2>1. Talk!ClientsTyped /\ Talk!InTurn /\ Talk!LineAtHand /\ Talk!ClientsAssumption
    BY PartsAssumption DEF Talk!ClientsInv
  <2>2. v6.client \in DOMAIN Talk!clientq /\ n < Talk!Coming(c, 0)[1] /\ (n \notin v11[c] => v6.line = Talk!Meant(c, n))
    BY <2>1 DEF Talk!LineAtHand
  <2>3. c \in Talk!Names /\ n \in Nat
    BY <2>1, <2>2, FourClients DEF Talk!ClientsTyped
  <2>4. Talk!Coming(c, 0)[1] \in Nat
    <3>1. 0 \in 0 .. v2[c].size
      BY <2>1, <2>3 DEF Talk!ClientsTyped, Talk!ClientsAssumption
    <3> QED
      BY <2>1, <2>3, <3>1, ComingTyped DEF Talk!Places
  <2>5. /\ \A i \in 1 .. Len(v10[c]) - 1 : v10[c][i] < v10[c][i + 1]
        /\ 1 .. Talk!Coming(c, 0)[1] - 1 \subseteq Talk!Range(v10[c]) \cup v11[c] \cup Talk!AtHand(c)
        /\ Talk!AtHand(c) = {}
    BY <2>1, <2>3 DEF Talk!InTurn, Talk!AtHand
  <2> QED
    BY <2>2, <2>3, <2>4, <2>5
<1> QED
  BY <1>1, ClientsInvariant, PTL
=============================================================================
