------------------------------- MODULE XModem -------------------------------
(***************************************************************************)
(* File transfer over the serial line (xmodem.cpp): xmodemReceive writes a *)
(* file from the packets it is sent, xmodemTransmit sends the packets of a *)
(* file.  The two are joined by a line that loses and damages; the other   *)
(* end of a real line is a host's program of the same protocol, which the  *)
(* code's other half stands for.                                           *)
(*                                                                         *)
(* Time is counted in half seconds.  A byte takes no time on the line, and *)
(* time passes only when both ends wait for a byte or for the file, so     *)
(* that a wait times out exactly when nothing came in time.                *)
(***************************************************************************)
EXTENDS Integers, Sequences

CONSTANTS
    Packets,      \* packets of the file that is sent
    NumberRange,  \* packet numbers are counted modulo this (uint8_t: 256)
    AckWaits,     \* half seconds a sender may wait for an answer to a packet:
                  \* 2 in xmodemTransmit, 20 in the usual host programs
    SyncTries,    \* attempts to begin (16)
    MAXRETRANS,   \* (25)
    EotTries,     \* (10)
    LateStarts,   \* half seconds after which the sender may begin
    Faults,       \* subset of {"lost", "damaged", "header", "slow"}
    MaxFaults,    \* bound on the faults of a transfer
    Transfers     \* bound on the transfers

ASSUME XModemAssumption ==
    /\ Packets \in Nat \ {0}
    /\ NumberRange \in Nat /\ NumberRange > 2
    /\ AckWaits \subseteq Nat \ {0}
    /\ SyncTries \in Nat \ {0} /\ MAXRETRANS \in Nat \ {0} /\ EotTries \in Nat \ {0}
    /\ LateStarts \subseteq Nat
    /\ MaxFaults \in Nat /\ Transfers \in Nat

VARIABLES
    rx,        \* xmodemReceive: its place, its locals, what is left of its wait
    held,      \* held_packet, empty while "held" is false; outlives the call
    inherited, \* history: what was held back when this reception began
    file,      \* what has been written to the file
    tx,        \* xmodemTransmit, likewise
    toRx, toTx,  \* bytes on the line, a packet being one item
    seen,      \* history: the faults of this transfer
    faults,    \* how many there were
    transfer   \* which transfer this is

vars == <<rx, held, inherited, file, tx, toRx, toTx, seen, faults, transfer>>

Second == 2
FlushTime == 3
WriteTime == 3    \* a write the file system takes long for
CANs == <<"CAN", "CAN", "CAN">>

\* The program's data in the i-th packet; the last one is filled up with Ctrl-Z.
PacketData(i) == [part |-> i, padded |-> i = Packets]
Stripped(d) == [d EXCEPT !.padded = FALSE]
Source == [i \in 1 .. Packets |-> Stripped(PacketData(i))]

NextNumber(n) == (n + 1) % NumberRange

-----------------------------------------------------------------------------
(* The line. *)

Packet(no, data, crc) == [char |-> "packet", no |-> no, data |-> data, crc |-> crc, state |-> "whole"]
Characters(cs) == [i \in 1 .. Len(cs) |-> [char |-> cs[i]]]
IsPacket(m) == m.char = "packet"

\* A packet that comes while the receiver is in a write is longer than the 256
\* bytes of the UART's buffer.
Arrived(m) == IF rx.at = "writing" THEN [m EXCEPT !.state = "damaged"] ELSE m

Fault(kind) ==
    /\ kind \in Faults /\ faults < MaxFaults
    /\ seen' = seen \cup {kind}
    /\ faults' = faults + 1
NoFault == UNCHANGED <<seen, faults>>

\* A packet reaches the receiver, or not, or not all of it does: some of its
\* bytes ("damaged"), or the very first ("header").
SendPacket(p) ==
    \/ toRx' = Append(toRx, Arrived(p)) /\ NoFault
    \/ Fault("lost") /\ UNCHANGED toRx
    \/ Fault("damaged") /\ toRx' = Append(toRx, [p EXCEPT !.state = "damaged"])
    \/ Fault("header") /\ toRx' = Append(toRx, Arrived([p EXCEPT !.state = "header"]))

SendToRx(bytes) ==
    \/ toRx' = toRx \o Characters(bytes) /\ NoFault
    \/ Fault("lost") /\ UNCHANGED toRx
SendToTx(bytes) ==
    \/ toTx' = toTx \o bytes /\ NoFault
    \/ bytes # <<>> /\ Fault("lost") /\ UNCHANGED toTx

-----------------------------------------------------------------------------
(* xmodemReceive. *)

Receiver == [at |-> "delay", wait |-> Second, trychar |-> <<"C">>, packetno |-> 1,
             retry |-> 0, retrans |-> MAXRETRANS, crc |-> FALSE, then |-> "none"]

SameTransfer == UNCHANGED <<inherited, transfer>>

AwaitPacket(r) == rx' = [r EXCEPT !.at = "sync", !.wait = 2 * Second]

\* flushinput: reads until nothing has come for a while, then the rest is done.
FlushReceiver(r, then) == rx' = [r EXCEPT !.at = "flush", !.wait = FlushTime, !.then = then]

\* Top of the loop of attempts, and what follows the loop.
Attempt(r) ==
    IF r.retry < SyncTries
    THEN AwaitPacket(r) /\ SendToTx(r.trychar)
    ELSE IF r.trychar = <<"C">>
    THEN AwaitPacket([r EXCEPT !.trychar = <<"NAK">>, !.retry = 0]) /\ SendToTx(<<"NAK">>)
    ELSE FlushReceiver(r, "syncError") /\ NoFault /\ UNCHANGED toTx

ReceiveStart ==
    /\ rx.at = "delay" /\ rx.wait = 0
    /\ Attempt(rx)
    /\ UNCHANGED <<held, file, tx, toRx>> /\ SameTransfer

\* A repetition has a number one less than the next one's, as an int: after the
\* wrap to 0 no packet is one.
Repeated(p) == p.no = rx.packetno - 1

\* Mutant: the number of the packet is not compared.
NumberIgnored(p) == TRUE
IsNext(p) == p.no = rx.packetno

\* check: the sum or CRC the receiver computes is the one the sender sent.
Check(p, crc) == p.state = "whole" /\ p.crc = crc

\* write_packet: the packet held back is written, this one is held back.
WritePacket(p) == file' = file \o held /\ held' = <<p.data>>

\* A packet is read to its end, then written, acknowledged again, or refused.
ReceivePacket ==
    /\ rx.at = "sync" /\ toRx # <<>> /\ IsPacket(Head(toRx)) /\ Head(toRx).state # "header"
    /\ LET p == Head(toRx)
           r == [rx EXCEPT !.crc = @ \/ rx.trychar = <<"C">>, !.trychar = <<>>, !.retry = 0]
           good == Check(p, r.crc)
       IN  \/ /\ good /\ IsNext(p)
              /\ WritePacket(p)
              /\ LET n == [r EXCEPT !.packetno = NextNumber(@), !.retrans = MAXRETRANS]
                 IN  \/ AwaitPacket(n) /\ SendToTx(<<"ACK">>)
                     \/ /\ held # <<>> /\ Fault("slow")
                        /\ rx' = [n EXCEPT !.at = "writing", !.wait = WriteTime]
                        /\ UNCHANGED toTx
           \/ /\ good /\ ~IsNext(p) /\ Repeated(p)
              /\ IF r.retrans > 1
                 THEN AwaitPacket([r EXCEPT !.retrans = @ - 1]) /\ SendToTx(<<"ACK">>)
                 ELSE FlushReceiver([r EXCEPT !.retrans = 0], "retransError") /\ NoFault /\ UNCHANGED toTx
              /\ UNCHANGED <<held, file>>
           \/ /\ ~(good /\ (IsNext(p) \/ Repeated(p)))
              /\ FlushReceiver(r, "nak") /\ NoFault
              /\ UNCHANGED <<held, file, toTx>>
    /\ toRx' = Tail(toRx)
    /\ UNCHANGED tx /\ SameTransfer

WriteEnd ==
    /\ rx.at = "writing" /\ rx.wait = 0
    /\ AwaitPacket(rx) /\ SendToTx(<<"ACK">>)
    /\ UNCHANGED <<held, file, tx, toRx>> /\ SameTransfer

\* What a packet without its first byte begins with, its number and its bytes
\* being read as characters: numbers that are SOH or STX begin a packet that
\* fails its check, the number that is EOT ends the file, and the bytes of any
\* other packet use up all attempts.
FirstByte(m) ==
    IF ~IsPacket(m) THEN m.char
    ELSE IF m.no \in {1, 2} THEN "broken" ELSE IF m.no = 4 THEN "EOT" ELSE "text"

\* Mutant: the packet held back is left unwritten at the end.
FlushNothing == UNCHANGED file

\* flush_packet: the last packet loses its padding.  "held" stays set; a call
\* that has met no packet (bufsz is 0) writes none of what it found held.
FlushPacket ==
    file' = IF held = <<>> \/ rx.trychar # <<>> THEN file ELSE Append(file, Stripped(held[1]))

\* A character that begins no packet.
ReceiveCharacter ==
    /\ rx.at = "sync" /\ toRx # <<>>
    /\ IsPacket(Head(toRx)) => Head(toRx).state = "header"
    /\ LET c == FirstByte(Head(toRx))
       IN  \/ /\ c = "EOT"
              /\ FlushPacket /\ FlushReceiver(rx, "ok") /\ NoFault /\ UNCHANGED toTx
           \/ /\ c = "CAN"
              /\ rx' = [rx EXCEPT !.at = "cancel", !.wait = Second]
              /\ NoFault /\ UNCHANGED <<file, toTx>>
           \/ /\ c = "broken"
              /\ FlushReceiver([rx EXCEPT !.crc = @ \/ rx.trychar = <<"C">>, !.trychar = <<>>, !.retry = 0], "nak")
              /\ NoFault /\ UNCHANGED <<file, toTx>>
           \/ /\ c = "text"
              /\ Attempt([rx EXCEPT !.retry = SyncTries]) /\ UNCHANGED file
           \/ /\ c \notin {"EOT", "CAN", "broken", "text"}
              /\ Attempt([rx EXCEPT !.retry = @ + 1]) /\ UNCHANGED file
    /\ toRx' = Tail(toRx)
    /\ UNCHANGED <<held, tx>> /\ SameTransfer

ReceiveTimeout ==
    /\ rx.at \in {"sync", "cancel"} /\ rx.wait = 0 /\ toRx = <<>>
    /\ Attempt([rx EXCEPT !.retry = @ + 1])
    /\ UNCHANGED <<held, file, tx, toRx>> /\ SameTransfer

\* The character after a CAN.
ReceiveCancel ==
    /\ rx.at = "cancel" /\ toRx # <<>>
    /\ IF Head(toRx).char = "CAN"
       THEN FlushReceiver(rx, "cancelled") /\ NoFault /\ UNCHANGED toTx
       ELSE Attempt([rx EXCEPT !.retry = @ + 1])
    /\ toRx' = Tail(toRx)
    /\ UNCHANGED <<held, file, tx>> /\ SameTransfer

ReceiveFlush ==
    /\ rx.at = "flush" /\ toRx # <<>>
    /\ toRx' = Tail(toRx)
    /\ rx' = [rx EXCEPT !.wait = FlushTime]
    /\ UNCHANGED <<held, file, tx, toTx, seen, faults>> /\ SameTransfer

\* After flushinput: the next packet is asked for, or the call returns.
ReceiveFlushed ==
    /\ rx.at = "flush" /\ rx.wait = 0 /\ toRx = <<>>
    /\ IF rx.then = "nak"
       THEN AwaitPacket([rx EXCEPT !.retry = 0]) /\ SendToTx(<<"NAK">>)
       ELSE /\ rx' = [rx EXCEPT !.at = "done"]
            /\ SendToTx(IF rx.then \in {"ok", "cancelled"} THEN <<"ACK">> ELSE CANs)
    /\ UNCHANGED <<held, file, tx, toRx>> /\ SameTransfer

-----------------------------------------------------------------------------
(* xmodemTransmit. *)

Sender(start, ackWait) ==
    [at |-> "off", wait |-> start, ackWait |-> ackWait, packetno |-> 1, part |-> 1,
     retry |-> 0, crc |-> FALSE, then |-> "none"]

\* Mutant: the attempts are not counted.
AgainUncounted(t) == t

Again(t) == [t EXCEPT !.retry = @ + 1]

SenderKeeps == UNCHANGED <<rx, held, file>> /\ SameTransfer

FlushSender(t, then) == tx' = [t EXCEPT !.at = "flush", !.wait = FlushTime, !.then = then]

\* The sender gives up.
Abandon(t, then) == FlushSender(t, then) /\ SendToRx(CANs)

\* Waits to be asked to begin.
AwaitSync(t) ==
    IF t.retry < SyncTries
    THEN tx' = [t EXCEPT !.at = "sync", !.wait = 2 * Second] /\ NoFault /\ UNCHANGED toRx
    ELSE Abandon(t, "syncError")

SendStart ==
    /\ tx.at = "off" /\ tx.wait = 0
    /\ tx' = [tx EXCEPT !.at = "sync", !.wait = 2 * Second]
    /\ seen' = IF Len(toTx) > 1 THEN seen \cup {"late"} ELSE seen
    /\ UNCHANGED <<toRx, toTx, faults>> /\ SenderKeeps

\* Top of the loop of retransmissions of the packet at hand.
Transmit(t) ==
    IF t.retry < MAXRETRANS
    THEN /\ tx' = [t EXCEPT !.at = "answer", !.wait = t.ackWait]
         /\ SendPacket(Packet(t.packetno, PacketData(t.part), t.crc))
    ELSE Abandon(t, "sendError")

SendEot(t) ==
    IF t.retry < EotTries
    THEN tx' = [t EXCEPT !.at = "eot", !.wait = 2 * Second] /\ SendToRx(<<"EOT">>)
    ELSE FlushSender(t, "eotError") /\ NoFault /\ UNCHANGED toRx

\* start_trans: the next part of the file is read.
StartTrans(t) ==
    IF t.part <= Packets THEN Transmit([t EXCEPT !.retry = 0]) ELSE SendEot([t EXCEPT !.retry = 0])

\* The answer to a first byte that is not CAN.
SendSync ==
    /\ tx.at = "sync" /\ toTx # <<>> /\ Head(toTx) # "CAN"
    /\ IF Head(toTx) \in {"C", "NAK"}
       THEN StartTrans([tx EXCEPT !.crc = Head(toTx) = "C"])
       ELSE AwaitSync(Again(tx))
    /\ toTx' = Tail(toTx) /\ SenderKeeps

IsAck(c) == c = "ACK"

\* Any answer other than ACK and CAN makes the packet go out again at once.
SendAnswered ==
    /\ tx.at = "answer" /\ toTx # <<>> /\ Head(toTx) # "CAN"
    /\ IF IsAck(Head(toTx))
       THEN StartTrans([tx EXCEPT !.packetno = NextNumber(@), !.part = @ + 1])
       ELSE Transmit(Again(tx))
    /\ toTx' = Tail(toTx) /\ SenderKeeps

SendEotAnswered ==
    /\ tx.at = "eot" /\ toTx # <<>>
    /\ IF IsAck(Head(toTx))
       THEN FlushSender(tx, "ok") /\ NoFault /\ UNCHANGED toRx
       ELSE SendEot(Again(tx))
    /\ toTx' = Tail(toTx) /\ SenderKeeps

\* The next attempt at what the sender was at.
SendAgain(t, at) ==
    CASE at = "sync" -> AwaitSync(Again(t))
      [] at = "answer" -> Transmit(Again(t))
      [] at = "eot" -> SendEot(Again(t))

SendTimeout ==
    /\ tx.at \in {"sync", "answer", "eot"} /\ tx.wait = 0 /\ toTx = <<>>
    /\ SendAgain(tx, tx.at)
    /\ UNCHANGED toTx /\ SenderKeeps

SendCan ==
    /\ tx.at \in {"sync", "answer"} /\ toTx # <<>> /\ Head(toTx) = "CAN"
    /\ tx' = [tx EXCEPT !.at = "cancel", !.wait = Second, !.then = tx.at]
    /\ toTx' = Tail(toTx)
    /\ UNCHANGED toRx /\ NoFault /\ SenderKeeps

\* The character after a CAN, or none in time.
SendCancel ==
    /\ tx.at = "cancel"
    /\ \/ /\ toTx # <<>> /\ Head(toTx) = "CAN"
          /\ FlushSender(tx, "cancelled") /\ SendToRx(<<"ACK">>)
          /\ toTx' = Tail(toTx)
       \/ /\ toTx # <<>> /\ Head(toTx) # "CAN"
          /\ SendAgain(tx, tx.then)
          /\ toTx' = Tail(toTx)
       \/ /\ toTx = <<>> /\ tx.wait = 0
          /\ SendAgain(tx, tx.then)
          /\ UNCHANGED toTx
    /\ SenderKeeps

SendFlush ==
    /\ tx.at = "flush"
    /\ \/ /\ toTx # <<>> /\ toTx' = Tail(toTx)
          /\ tx' = [tx EXCEPT !.wait = FlushTime]
       \/ /\ toTx = <<>> /\ tx.wait = 0
          /\ tx' = [tx EXCEPT !.at = "done"]
          /\ UNCHANGED toTx
    /\ UNCHANGED toRx /\ NoFault /\ SenderKeeps

-----------------------------------------------------------------------------
(* Time, transfers, the specification. *)

\* An end has nothing to do before time passes.
Waits(end, line) ==
    end.at = "done" \/ (end.wait > 0 /\ (line = <<>> \/ end.at \in {"delay", "writing", "off"}))
Later(end) == IF end.at = "done" THEN end ELSE [end EXCEPT !.wait = @ - 1]

Tick ==
    /\ Waits(rx, toRx) /\ Waits(tx, toTx)
    /\ ~(rx.at = "done" /\ tx.at = "done")
    /\ rx' = Later(rx) /\ tx' = Later(tx)
    /\ UNCHANGED <<held, file, toRx, toTx, seen, faults>> /\ SameTransfer

Begin(start, ackWait) ==
    /\ rx' = Receiver /\ tx' = Sender(start, ackWait)
    /\ file' = <<>>
    /\ toRx' = <<>> /\ toTx' = <<>>
    /\ seen' = {} /\ faults' = 0

\* The next $Xmodem/Receive command; the bytes left on the line are not its.
NextTransfer ==
    /\ rx.at = "done" /\ tx.at = "done" /\ transfer < Transfers
    /\ transfer' = transfer + 1
    /\ \E start \in LateStarts, ackWait \in AckWaits : Begin(start, ackWait)
    /\ inherited' = held
    /\ UNCHANGED held

Init ==
    /\ \E start \in LateStarts, ackWait \in AckWaits :
          rx = Receiver /\ tx = Sender(start, ackWait)
    /\ held = <<>> /\ inherited = <<>> /\ file = <<>>
    /\ toRx = <<>> /\ toTx = <<>>
    /\ seen = {} /\ faults = 0
    /\ transfer = 1

Receive == \/ ReceiveStart \/ ReceivePacket \/ WriteEnd \/ ReceiveCharacter \/ ReceiveTimeout
           \/ ReceiveCancel \/ ReceiveFlush \/ ReceiveFlushed
Send == \/ SendStart \/ SendSync \/ SendAnswered \/ SendEotAnswered \/ SendTimeout \/ SendCan
        \/ SendCancel \/ SendFlush

Next == Receive \/ Send \/ Tick \/ NextTransfer

\* Both programs run and time passes.
Spec == Init /\ [][Next]_vars /\ WF_vars(Receive) /\ WF_vars(Send) /\ WF_vars(Tick)
=============================================================================
