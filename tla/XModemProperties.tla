-------------------------- MODULE XModemProperties --------------------------
(***************************************************************************)
(* What file transfer promises: every file arrives, or the ends say that   *)
(* it did not; and what the code puts before it from the second file on.   *)
(***************************************************************************)
EXTENDS XModem, SequencesExt

\* What a reception makes of the file that is sent: all of it, after the packet
\* that the last reception held back and nobody cleared ("held" is static in
\* xmodem.cpp, and only write_packet ever sets it).  That packet is none for the
\* first reception after a start of the program, and the last packet of the other
\* file, padding included, for every later one.
Arriving == inherited \o Source

\* Safety, under all faults, repetitions and late answers: what a reception has
\* written is a beginning of what arrives, nothing twice, nothing left out and, in
\* the packets sent in this reception, no padding (xmodemReceive's numbers, check,
\* write_packet, flush_packet).
FileInOrder == IsPrefix(file, Arriving)

Ended(end, result) == end.at = "done" /\ end.then = result

\* Safety: a reception that ends as complete has written all of what arrives, and a
\* sender that reports success has been heard by such a reception; unless the
\* first byte of a packet was lost, or the sender began so late that several
\* requests to begin were waiting for it (the results of both functions).
SuccessIsTrue ==
    seen \cap {"header", "late"} = {} =>
        /\ Ended(rx, "ok") => file = Arriving
        /\ Ended(tx, "ok") => Ended(rx, "ok")

\* The two together, for every reception, not only the first: what is there, and
\* what is said of it.  From the second reception on a "complete" file is not the
\* file that was sent: it begins with the packet inherited from the one before.
FileAsSaid == FileInOrder /\ SuccessIsTrue

\* Liveness: both calls return, whatever the line does: neither waits for the
\* other for ever, and no repetition goes on without end.
TransferEnds == []<>(rx.at = "done") /\ []<>(tx.at = "done")
=============================================================================
