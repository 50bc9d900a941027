------------------------------ MODULE Clients -------------------------------
(***************************************************************************)
(* Where lines come from (Serial.cpp): the serial line, whose driver has a *)
(* buffer; macros (WebUI/InputBuffer.cpp); commands of the web interface   *)
(* (WebUI/WebServer.cpp, WebUI/Serial2Socket.cpp); a telnet client         *)
(* (WebUI/TelnetServer.cpp).  pollClients takes one character of each in   *)
(* turn and returns at the end of a line, which the main loop executes;    *)
(* meanwhile characters arrive, and realtime commands are picked out of    *)
(* them whenever the realtime system runs and somebody might stop it.      *)
(*                                                                         *)
(* A character is <<n, k>>, the k-th of the n-th line a client sends; what *)
(* it is, is in lines.  A line ends with NL.                               *)
(***************************************************************************)
EXTENDS Integers, Sequences, SequencesExt

CONSTANTS Inputs,      \* what may be sent: for each client lines, sequences of
                       \* "x", "BS" (backspace), "CR", "RT" (realtime) and "RESET"
          Room,        \* for each client the characters its buffer has room for
          MaxLine,     \* InputClient::maxLine
          MaxTroubles  \* bound: limit switches, jobs, connections that break

clientq == <<"uart", "macro", "web", "telnet">>
Names == Range(clientq)

\* What the constants are: assumed where the module is instantiated.
ClientsAssumption ==
    /\ \A c \in Names : Room[c] \in Nat \ {0}
    /\ \A input \in Inputs, c \in Names : input[c] \in Seq(Seq({"x", "BS", "CR", "RT", "RESET"}))
    /\ MaxLine \in Nat \ {0} /\ MaxTroubles \in Nat

VARIABLES
    lines,    \* what is sent
    ring,     \* the buffer of each client
    sent,     \* the character each client sends next
    line,     \* _line up to _linelen
    returned, \* _line_returned
    main,     \* where the main task is, and the line it has
    busy,     \* the SD card runs a job or is used otherwise
    alarm,    \* rtAlarm is that of a limit
    reset,    \* rtReset
    executed, \* history: the lines executed, by number
    lost,     \* history: lines of which a character was not taken
    left      \* bound

vars == <<lines, ring, sent, line, returned, main, busy, alarm, reset, executed, lost, left>>

Realtime == {"RT", "RESET"}
Kind(c, ch) == IF ch[2] <= Len(lines[c][ch[1]]) THEN lines[c][ch[1]][ch[2]] ELSE "NL"

Trouble == left > 0 /\ left' = left - 1

Idle == [at |-> "poll", client |-> 1, line |-> <<>>, number |-> 0]

-----------------------------------------------------------------------------
(* The buffers: a ring each.                                                *)

EmptyRing(c) == [cells |-> [i \in 0 .. Room[c] - 1 |-> <<0, 0>>], pos |-> 0, size |-> 0]

Free(c) == Room[c] - ring[c].size

\* push: all of the data, for which there is room.
Pushed(c, data) ==
    LET start == ring[c].pos + ring[c].size
        first == IF start > Room[c] THEN start - Room[c] ELSE start
        cell(i) == (first + i - 1) % Room[c]
    IN [ring[c] EXCEPT !.size = @ + Len(data),
                       !.cells = [j \in 0 .. Room[c] - 1 |->
                                     IF \E i \in DOMAIN data : cell(i) = j
                                     THEN data[CHOOSE i \in DOMAIN data : cell(i) = j] ELSE @[j]]]

\* read: without its first character.
Read(r, room) == [r EXCEPT !.pos = IF @ + 1 > room - 1 THEN 0 ELSE @ + 1, !.size = @ - 1]

-----------------------------------------------------------------------------
(* What arrives                                                             *)

More(c) == sent[c][1] \in DOMAIN lines[c]
NextLine(c) == <<sent[c][1] + 1, 1>>
Next1(c) == IF sent[c][2] > Len(lines[c][sent[c][1]]) THEN NextLine(c) ELSE <<sent[c][1], sent[c][2] + 1>>

Whole(c, n) == [k \in 1 .. Len(lines[c][n]) + 1 |-> <<n, k>>]

\* The first m of the lines from line first on.
Several(c, first) ==
    LET whole[m \in 0 .. Len(lines[c]) + 1 - first] ==
            IF m = 0 THEN <<>> ELSE whole[m - 1] \o Whole(c, first + m - 1)
    IN whole

\* Line n, and the next one if its end is the character that is missing.
Spoilt(c, ch) == {ch[1]} \cup (IF Kind(c, ch) = "NL" THEN {ch[1] + 1} ELSE {})
Lose(c, numbers) == lost' = [lost EXCEPT ![c] = @ \cup numbers]

\* A character on the serial line, at any time.  One too many is not taken.
Receive ==
    /\ More("uart")
    /\ sent' = [sent EXCEPT !["uart"] = Next1("uart")]
    /\ IF Free("uart") > 0
       THEN ring' = [ring EXCEPT !["uart"] = Pushed("uart", <<sent["uart"]>>)] /\ UNCHANGED lost
       ELSE Lose("uart", Spoilt("uart", sent["uart"])) /\ UNCHANGED ring
    /\ UNCHANGED <<lines, line, returned, main, busy, alarm, reset, executed, left>>

Services == main.at = "services"

\* A command of the web interface: its lines one by one, each with an end,
\* unless it is a realtime command alone; one that has no room is refused.
_handle_web_command ==
    /\ Services /\ More("web")
    /\ LET n == sent["web"][1]
           alone == Len(lines["web"][n]) = 1 /\ lines["web"][n][1] \in Realtime
           data == IF alone THEN <<<<n, 1>>>> ELSE Whole("web", n)
           fits == Len(data) <= Free("web")
       IN /\ ring' = IF fits THEN [ring EXCEPT !["web"] = Pushed("web", data)] ELSE ring
          /\ Lose("web", IF alone \/ ~fits THEN {n} ELSE {})
    /\ sent' = [sent EXCEPT !["web"] = NextLine("web")]
    /\ UNCHANGED <<lines, line, returned, main, busy, alarm, reset, executed, left>>

\* The telnet server: as much of what the client has sent as there is room for.
Telnet ==
    /\ Services /\ More("telnet") /\ Free("telnet") > 0
    /\ ring' = [ring EXCEPT !["telnet"] = Pushed("telnet", <<sent["telnet"]>>)]
    /\ sent' = [sent EXCEPT !["telnet"] = Next1("telnet")]
    /\ UNCHANGED <<lines, line, returned, main, busy, alarm, reset, executed, lost, left>>

\* The client's connection breaks within a line.  Another one takes its place,
\* and continues the line.
Reconnect ==
    /\ More("telnet") /\ sent["telnet"][2] > 1
    /\ Trouble
    /\ sent' = [sent EXCEPT !["telnet"] = NextLine("telnet")]
    /\ Lose("telnet", {sent["telnet"][1], sent["telnet"][1] + 1})
    /\ UNCHANGED <<lines, ring, line, returned, main, busy, alarm, reset, executed>>

\* A macro: all its lines, or none.  Its button is looked at by the realtime
\* system, which the end of a pass stands for.
run_macro ==
    /\ Services /\ ~busy /\ More("macro")
    /\ \E last \in sent["macro"][1] .. Len(lines["macro"]) :
          LET first == sent["macro"][1]
              data == Several("macro", first)[last - first + 1]
              fits == Len(data) <= Free("macro")
          IN /\ ring' = IF fits THEN [ring EXCEPT !["macro"] = Pushed("macro", data)] ELSE ring
             /\ Lose("macro", IF fits THEN {} ELSE first .. last)
             /\ sent' = [sent EXCEPT !["macro"] = <<last + 1, 1>>]
    /\ UNCHANGED <<lines, line, returned, main, busy, alarm, reset, executed, left>>

-----------------------------------------------------------------------------
(* pollClients                                                              *)

\* Mutant: a line that was returned is continued.
KeepReturned(c) == line[c]

\* _line as the next character finds it.
Begun(c) == IF returned[c] THEN <<>> ELSE line[c]

\* The line with one character more, in the order of the tests.
Taken(c, ch, text) ==
    LET kind == Kind(c, ch) IN
    CASE kind \in Realtime -> text
      [] kind = "BS" -> IF text = <<>> THEN text ELSE Front(text)
      [] kind # "BS" /\ kind \notin Realtime /\ Len(text) + 1 = MaxLine -> <<>>
      [] kind \in {"CR", "NL"} /\ Len(text) + 1 # MaxLine -> text
      [] OTHER -> Append(text, ch)

Overflows(c, ch, text) == Kind(c, ch) \notin Realtime \cup {"BS"} /\ Len(text) + 1 = MaxLine

Character(c) == ring[c].cells[ring[c].pos]

\* The next character of c is read, and a realtime command acted upon.
TakeCharacter(c) ==
    /\ ring[c].size > 0
    /\ ring' = [ring EXCEPT ![c] = Read(@, Room[c])]
    /\ reset' = (reset \/ Kind(c, Character(c)) = "RESET")

\* One client's turn.  The end of a line returns from pollClients, unless the
\* card is busy.
Poll ==
    /\ main.at = "poll" /\ main.client \in DOMAIN clientq
    /\ LET c == clientq[main.client]
           ch == Character(c)
           text == Begun(c)
           over == Overflows(c, ch, text)
           ends == Kind(c, ch) = "NL" /\ ~over
       IN IF ring[c].size = 0
          THEN main' = [main EXCEPT !.client = @ + 1] /\ UNCHANGED <<ring, line, returned, reset, lost>>
          ELSE /\ TakeCharacter(c)
               /\ line' = [line EXCEPT ![c] = IF ends /\ busy THEN <<>> ELSE Taken(c, ch, text)]
               /\ returned' = [returned EXCEPT ![c] = ends /\ ~busy]
               /\ Lose(c, IF over THEN Spoilt(c, ch) \cup {t[1] : t \in Range(text)}
                          ELSE IF ends /\ busy THEN {ch[1]} ELSE {})
               /\ main' = IF ends /\ ~busy
                          THEN [at |-> "got", client |-> main.client, line |-> text, number |-> ch[1]]
                          ELSE [main EXCEPT !.client = @ + 1]
    /\ UNCHANGED <<lines, sent, busy, alarm, executed, left>>

\* All had their turn: the card's line is SDJobs' matter, and nothing is left to do.
PassEnds ==
    /\ \/ main.at = "poll" /\ main.client \notin DOMAIN clientq /\ main' = [Idle EXCEPT !.at = "services"]
       \/ Services /\ main' = Idle
    /\ UNCHANGED <<lines, ring, sent, line, returned, busy, alarm, reset, executed, lost, left>>

\* pollClients(true), from the realtime system: only with a limit's alarm or a
\* busy card.  What is no realtime command is thrown away, a line begun with it.
PollRealtime ==
    /\ main.at \in {"got", "run", "services"}
    /\ alarm \/ busy
    /\ \E c \in Names :
          /\ TakeCharacter(c)
          /\ returned' = [returned EXCEPT ![c] = FALSE]
          /\ IF Kind(c, Character(c)) \in Realtime
             THEN line' = [line EXCEPT ![c] = Begun(c)] /\ UNCHANGED lost
             ELSE /\ line' = [line EXCEPT ![c] = <<>>]
                  /\ Lose(c, {Character(c)[1]} \cup {t[1] : t \in Range(Begun(c))})
    /\ UNCHANGED <<lines, sent, main, busy, alarm, executed, left>>

-----------------------------------------------------------------------------
(* The main loop                                                            *)

\* The line is executed, if there has been no reset until now.
Execute ==
    /\ main.at = "got" /\ ~reset /\ ~alarm
    /\ main' = [main EXCEPT !.at = "run"]
    /\ executed' = [executed EXCEPT ![clientq[main.client]] = Append(@, main.number)]
    /\ UNCHANGED <<lines, ring, sent, line, returned, busy, alarm, reset, lost, left>>

\* With a limit's alarm only when it is reset.
Executed ==
    /\ main.at = "run" /\ (alarm => reset)
    /\ main' = Idle
    /\ UNCHANGED <<lines, ring, sent, line, returned, busy, alarm, reset, executed, lost, left>>

\* protocol_main_loop returns, and run_once begins again: a line at hand is
\* gone, what is in the buffers stays.
Abort ==
    /\ main.at \in {"got", "services"} /\ reset
    /\ main' = Idle
    /\ reset' = FALSE /\ alarm' = FALSE
    /\ IF main.at = "got" THEN Lose(clientq[main.client], {main.number}) ELSE UNCHANGED lost
    /\ UNCHANGED <<lines, ring, sent, line, returned, busy, executed, left>>

\* A limit switch, at any time; jobs and other uses of the card.
Limit == /\ ~alarm /\ Trouble /\ alarm' = TRUE
         /\ UNCHANGED <<lines, ring, sent, line, returned, main, busy, reset, executed, lost>>

Card == /\ main.at \in {"run", "services"} /\ Trouble /\ busy' = ~busy
        /\ UNCHANGED <<lines, ring, sent, line, returned, main, alarm, reset, executed, lost>>

Init == /\ lines \in Inputs
        /\ ring = [c \in Names |-> EmptyRing(c)]
        /\ sent = [c \in Names |-> <<1, 1>>]
        /\ line = [c \in Names |-> <<>>]
        /\ returned = [c \in Names |-> FALSE]
        /\ main = Idle
        /\ busy = FALSE /\ alarm = FALSE /\ reset = FALSE
        /\ executed = [c \in Names |-> <<>>]
        /\ lost = [c \in Names |-> {}]
        /\ left = MaxTroubles

Next == \/ Receive \/ _handle_web_command \/ Telnet \/ Reconnect \/ run_macro
        \/ Poll \/ PassEnds \/ PollRealtime
        \/ Execute \/ Executed \/ Abort
        \/ Limit \/ Card

Spec == Init /\ [][Next]_vars

-----------------------------------------------------------------------------
(* Properties                                                               *)

\* What the first k characters of line n of c are meant to be: without realtime
\* commands and returns, backspaces applied.
MeantTo(c, n) ==
    LET text[k \in Nat] ==
            IF k = 0 THEN <<>>
            ELSE LET kind == Kind(c, <<n, k>>) IN
                 CASE kind \in Realtime \cup {"CR"} -> text[k - 1]
                   [] kind = "BS" -> IF text[k - 1] = <<>> THEN <<>> ELSE Front(text[k - 1])
                   [] OTHER -> Append(text[k - 1], <<n, k>>)
    IN text

Meant(c, n) == MeantTo(c, n)[Len(lines[c][n])]

\* The line that is executed is the very line its client sent, all of it and
\* nothing else, however the characters of the clients, realtime commands,
\* buffers that are full, jobs, alarms and resets fall between them; a client's
\* lines are executed in order, each once, and none is left out.  Only lines of
\* which a character was not taken are not: too long ones, those that arrived
\* while the card was busy or in a limit's alarm, those refused, those at hand in
\* a reset, and those of connections that broke.
LinesIntact ==
    main.at = "run" =>
        LET c == clientq[main.client]
            n == main.number
        IN  /\ n \notin lost[c] => main.line = Meant(c, n)
            /\ \A i \in 1 .. Len(executed[c]) - 1 : executed[c][i] < executed[c][i + 1]
            /\ 1 .. n \subseteq Range(executed[c]) \cup lost[c]

-----------------------------------------------------------------------------
(* The inductive invariant behind LinesIntact                               *)

Places == Nat \X Nat

ClientsTyped ==
    /\ lines \in Inputs
    /\ ring = [c \in Names |-> ring[c]]
    /\ \A c \in Names :
          ring[c] \in [cells : [0 .. Room[c] - 1 -> Places], pos : 0 .. Room[c] - 1, size : 0 .. Room[c]]
    /\ sent \in [Names -> Places]
    /\ line \in [Names -> Seq(Places)]
    /\ returned \in [Names -> BOOLEAN]
    /\ main \in [at : {"poll", "services", "got", "run"}, client : 1 .. Len(clientq) + 1,
                 line : Seq(Places), number : Nat]
    /\ executed \in [Names -> Seq(Nat)]
    /\ lost \in [Names -> SUBSET Nat]
    /\ busy \in BOOLEAN /\ reset \in BOOLEAN

\* Character i of those in c's buffer, from 0; behind the last, the one c sends next.
Coming(c, i) == IF i < ring[c].size THEN ring[c].cells[(ring[c].pos + i) % Room[c]] ELSE sent[c]

\* A character of one of c's lines.
Place(c, ch) == ch[1] \in DOMAIN lines[c] /\ ch[2] \in 1 .. Len(lines[c][ch[1]]) + 1

PlacesTrue ==
    \A c \in Names :
        /\ \A i \in 0 .. ring[c].size - 1 : Place(c, Coming(c, i))
        /\ sent[c][1] > 0 /\ sent[c][2] > 0
        /\ sent[c][1] \in DOMAIN lines[c] => Place(c, sent[c])
        /\ c \in {"macro", "web"} => sent[c][2] = 1

\* The clients of which single characters may be lost.
Lossy == {"uart", "telnet"}

\* What may come behind a: the next character of its line, the first one of a
\* line after its end, and what is left where something was lost.
Follows(c, a, b) ==
    \/ Kind(c, a) # "NL" /\ b = <<a[1], a[2] + 1>>
    \/ c \in Lossy /\ a[1] \in lost[c] /\ b[1] = a[1] /\ b[2] > a[2]
    \/ /\ b[1] > a[1] /\ a[1] + 1 .. b[1] - 1 \subseteq lost[c]
       /\ \/ Kind(c, a) = "NL" /\ (b[2] = 1 \/ (c \in Lossy /\ b[1] \in lost[c]))
          \/ c = "web" /\ a[2] = 1 /\ Kind(c, a) \in Realtime /\ a[1] \in lost[c] /\ b[2] = 1
          \/ c \in Lossy /\ a[1] \in lost[c] /\ b[1] \in lost[c]

InOrder == \A c \in Names : \A i \in 0 .. ring[c].size - 1 : Follows(c, Coming(c, i), Coming(c, i + 1))

\* The line so far is what the next character continues.
Continued ==
    \A c \in Names :
        /\ \A n \in DOMAIN lines[c] \ lost[c] : \A k \in 1 .. Len(lines[c][n]) + 1 :
              Coming(c, 0) = <<n, k>> => Begun(c) = MeantTo(c, n)[k - 1]
        /\ c \notin Lossy /\ Coming(c, 0)[2] = 1 => Begun(c) = <<>>

AtHand(c) == IF main.at = "got" /\ clientq[main.client] = c THEN {main.number} ELSE {}

\* Every line before the one that comes next is executed, lost or at hand.
InTurn ==
    \A c \in Names :
        /\ \A i \in DOMAIN executed[c] : /\ executed[c][i] < Coming(c, 0)[1]
                                         /\ \A n \in AtHand(c) : executed[c][i] < n
        /\ \A i \in 1 .. Len(executed[c]) - 1 : executed[c][i] < executed[c][i + 1]
        /\ 1 .. Coming(c, 0)[1] - 1 \subseteq Range(executed[c]) \cup lost[c] \cup AtHand(c)

LineAtHand ==
    main.at \in {"got", "run"} =>
        /\ main.client \in DOMAIN clientq
        /\ LET c == clientq[main.client]
               n == main.number
           IN  n < Coming(c, 0)[1] /\ (n \notin lost[c] => main.line = Meant(c, n))

ClientsInv == ClientsTyped /\ PlacesTrue /\ InOrder /\ Continued /\ InTurn /\ LineAtHand
=============================================================================
