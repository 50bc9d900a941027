-------------------------- MODULE SDJobsProperties --------------------------
(***************************************************************************)
(* What jobs from the SD card and transfers to it promise.                 *)
(***************************************************************************)
EXTENDS SDJobs

\* The lines that were executed, as they stand in a file.
AsFile(lines) == FlattenSeq([i \in DOMAIN lines |-> lines[i] \o <<"NL">>])

\* While the card is the job's, the lines that are executed are those of the
\* file as it was when the job began, each once and whole, in order, with none
\* left out, however often a read failed and the card was mounted again
\* (readFileLine, prhReOpenSDFile); and none is executed after one that was
\* refused (report_status_message).
InOrder ==
    /\ IsPrefix(AsFile(job.ran), job.source \o <<"NL">>)
    /\ \A i \in 1 .. Len(job.ran) - 1 : job.ran[i] \notin RefusedLines
JobInOrder == [][sd.state = "BusyPrinting" => InOrder']_vars

\* The lines are those of the whole file: its last one may lack its end, and an
\* empty last one is not executed.
Complete ==
    LET lines == AsFile(job.ran) IN
    lines = job.source \/ lines = job.source \o <<"NL">> \/ lines \o <<"NL">> = job.source

\* A job is said to have succeeded when every line of its file was executed and
\* the machine has come to rest, not when the file's end was read
\* (pollClients, "a bug: file ends ...").
SuccessIsComplete ==
    [][job.outcome = "running" /\ job'.outcome = "succeeded" => Complete /\ machine # "Cycle"]_vars

\* The two together: what a job executes, and when it is said to be done.
JobTrue == JobInOrder /\ SuccessIsComplete

\* An upload is answered as successful only if the card holds what the client
\* promised, though writes failed, and were repeated on a file that the
\* repetition had emptied (SDFile_direct_upload).
UploadTrue == upload.status = "successful" => files[upload.name] = upload.promised

\* A job does not hold the card for ever: while it has it, the next line is
\* asked for after each answer, failed reads are given up, and the end is found.
JobEnds == sd.state = "BusyPrinting" ~> sd.state # "BusyPrinting"
=============================================================================
