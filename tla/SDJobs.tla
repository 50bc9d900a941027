------------------------------- MODULE SDJobs -------------------------------
(***************************************************************************)
(* The SD card and what uses it (SDCard.cpp): the job whose lines the main *)
(* loop executes (Serial.cpp, Protocol.cpp, Report.cpp), the commands that *)
(* show, store, delete and list files (WebSettings.cpp, FileStream.cpp),   *)
(* and the uploads and downloads of the web server (WebServer.cpp).  All   *)
(* of it runs in the main task: a request is served between two lines.     *)
(*                                                                         *)
(* A file is a sequence of characters; what matters of them is where lines *)
(* end and which lines the parser refuses.  The card is pulled out and put *)
(* back, reads and writes fail, connections break and power is lost.       *)
(***************************************************************************)
EXTENDS Integers, Sequences, SequencesExt

CONSTANTS
    Names,         \* names of files
    Characters,    \* the characters in them
    InitialFiles,  \* set of the contents a card may have: functions from names
    Uploads,       \* contents that are uploaded
    RefusedLines,  \* lines the parser answers with an error
    Unsupported,   \* lines it answers with GcodeUnsupportedCommand
    MaxLine,       \* characters a line may have (256)
    MaxRetries,    \* failed reads of a line, and failed writes of an upload's
                   \* chunk, that are tried again (5)
    Requests,      \* the kinds of command and request that come
    MaxRequests,   \* bound on the commands and requests
    MaxTroubles    \* bound on faults, swaps of the card, resets and restarts

ASSUME SDJobsAssumption ==
    /\ \A f \in InitialFiles : DOMAIN f \subseteq Names /\ \A n \in DOMAIN f : f[n] \in Seq(Characters)
    /\ Uploads \subseteq Seq(Characters) /\ "NL" \in Characters
    /\ MaxLine \in Nat \ {0} /\ MaxRetries \in Nat
    /\ MaxRequests \in Nat /\ MaxTroubles \in Nat

VARIABLES
    card,     \* the card in the slot, and whether the slot has a detect pin
    files,    \* what is on the card
    sd,       \* SDCard: its state, its open file, _readyNext
    main,     \* where the main task is, and what it has at hand
    upload,   \* the upload: _upload_status and the handler's static variables
    machine,  \* sys.state
    reset,    \* rtReset
    job,      \* history: the job last begun
    left      \* requests and troubles that may still come

vars == <<card, files, sd, main, upload, machine, reset, job, left>>

Busy == {"BusyPrinting", "BusyUploading", "BusyParsing", "BusyWriting", "BusyReading"}

Request == left.requests > 0 /\ left' = [left EXCEPT !.requests = @ - 1]
Trouble == left.troubles > 0 /\ left' = [left EXCEPT !.troubles = @ - 1]

-----------------------------------------------------------------------------
(* The main task, and SDCard, whose operations are functions on the object. *)

Main0 == [at |-> "clients", caller |-> "none", command |-> [kind |-> "none", name |-> "none"],
          text |-> <<>>, tries |-> 0]

\* The main task goes on somewhere else, with nothing left at hand.
Go(at) == main' = [Main0 EXCEPT !.at = at]


SDCard0 == [state |-> "Idle", mounted |-> FALSE, file |-> "closed", name |-> "none",
            size |-> 0, at |-> 0, ready |-> FALSE]

Undetected == card.detect /\ ~card.present

\* Without refresh: what the state is, or that the card is gone.
get_state(s) == IF Undetected THEN [s EXCEPT !.state = "NotPresent"] ELSE s
Printing(s) == get_state(s).state = "BusyPrinting"

\* SD.end(): a file that is open cannot be read any more.
Unmount(s) == [s EXCEPT !.mounted = FALSE, !.file = IF @ = "good" THEN "stale" ELSE @]
Mount(s) == [Unmount(s) EXCEPT !.mounted = card.present]

end(s) == [Unmount(s) EXCEPT !.state = "Idle"]

\* The new object, and the state that is returned: Idle when the card is taken.
begin(s, state) ==
    IF Undetected THEN [sd |-> get_state(s), was |-> "NotPresent"]
    ELSE IF s.state \in Busy THEN [sd |-> s, was |-> s.state]
    ELSE IF card.present THEN [sd |-> [Mount(s) EXCEPT !.state = state], was |-> "Idle"]
    ELSE [sd |-> [Mount(s) EXCEPT !.state = "NotPresent"], was |-> "NotPresent"]

Exists(s, name) == s.mounted /\ card.present /\ name \in DOMAIN files

openFile(s, name) ==
    IF Exists(s, name)
    THEN [s EXCEPT !.file = "good", !.name = name, !.size = Len(files[name]), !.at = 0,
                   !.state = "BusyPrinting", !.ready = FALSE]
    ELSE [s EXCEPT !.file = "closed"]

closeFile(s) ==
    LET idle == [s EXCEPT !.state = "Idle", !.ready = FALSE] IN
    IF s.file = "closed" THEN idle ELSE end([idle EXCEPT !.file = "closed"])

\* Mutant: the file is read from its beginning again.
NoSeek(s) ==
    LET m == Mount([s EXCEPT !.file = "closed"]) IN
    IF Exists(m, s.name)
    THEN [m EXCEPT !.file = "good", !.size = Len(files[s.name]), !.at = 0]
    ELSE m

\* After a failed read: at the character that could not be read.
prhReOpenSDFile(s) ==
    LET m == Mount([s EXCEPT !.file = "closed"]) IN
    IF Exists(m, s.name)
    THEN [m EXCEPT !.file = "good", !.size = Len(files[s.name]), !.at = s.at]
    ELSE m

available(s) == s.file # "closed" /\ s.at < s.size

-----------------------------------------------------------------------------
(* The answer to a line (report_status_message).  While a job runs, every  *)
(* answer is taken for one to the job.                                     *)

\* Mutant: only "ok" asks for the next line.
ReportSupported(s, answer) ==
    LET t == get_state(s) IN
    CASE t.state # "BusyPrinting" -> t
      [] t.state = "BusyPrinting" /\ answer = "ok" -> [t EXCEPT !.ready = TRUE]
      [] t.state = "BusyPrinting" /\ answer = "unsupported" -> t
      [] OTHER -> closeFile(t)

Report(s, answer) ==
    LET t == get_state(s) IN
    CASE t.state # "BusyPrinting" -> t
      [] t.state = "BusyPrinting" /\ answer \in {"ok", "unsupported"} -> [t EXCEPT !.ready = TRUE]
      [] OTHER -> closeFile(t)

\* What the job's client is told.
Told(s, answer) ==
    IF ~Printing(s) \/ answer \in {"ok", "unsupported"} THEN job
    ELSE [job EXCEPT !.outcome = IF answer = "eof" THEN "succeeded" ELSE "failed"]

Answer(s, answer) == sd' = Report(s, answer) /\ job' = Told(s, answer)

\* A command is done: a client's line is answered, a request goes on to the job.
Return(s, answer) ==
    IF main.caller = "client"
    THEN Answer(s, answer) /\ Go("clients")
    ELSE sd' = s /\ Go("job") /\ UNCHANGED job

-----------------------------------------------------------------------------
(* The main loop: pollClients looks at the clients, at the network, and at *)
(* the job; the line it returns is executed.                               *)



\* The commands of a client or of a web request.
Commands == [kind : Requests \cap {"run", "show", "delete", "store"}, name : Names]
            \cup [kind : Requests \cap {"list", "move", "unlock"}, name : {"none"}]

NoClient ==
    /\ main.at = "clients"
    /\ Go("web")
    /\ UNCHANGED <<card, files, sd, upload, machine, reset, job, left>>

\* A line has come in.  It is returned, unless the card is busy: then it is lost.
ClientLine ==
    /\ main.at = "clients"
    /\ Request
    /\ sd' = get_state(sd)
    /\ IF sd'.state \in Busy
       THEN Go("web")
       ELSE \E c \in Commands : main' = [main EXCEPT !.at = "line", !.caller = "client", !.command = c]
    /\ UNCHANGED <<card, files, upload, machine, reset, job>>

\* A line that is too long is answered as soon as it is.
Overflow ==
    /\ main.at = "clients" /\ "overflow" \in Requests
    /\ Request
    /\ Answer(sd, "error")
    /\ Go("web")
    /\ UNCHANGED <<card, files, upload, machine, reset>>

NoRequest ==
    /\ main.at = "web"
    /\ Go("job")
    /\ UNCHANGED <<card, files, sd, upload, machine, reset, job, left>>

WebCommand ==
    /\ main.at = "web"
    /\ Request
    /\ \E c \in Commands : main' = [main EXCEPT !.at = "run", !.caller = "web", !.command = c]
    /\ UNCHANGED <<card, files, sd, upload, machine, reset, job>>

Reading(caller) == [Main0 EXCEPT !.at = "read", !.caller = caller]

PollJob ==
    /\ main.at = "job"
    /\ IF sd.ready THEN main' = Reading("job") ELSE Go("loop")
    /\ UNCHANGED <<card, files, sd, upload, machine, reset, job, left>>

\* protocol_abort, and the main loop's return: the machine starts again.
protocol_abort(s) == IF Printing(s) THEN closeFile(s) ELSE get_state(s)
Canceled(s) == IF Printing(s) THEN [job EXCEPT !.outcome = "canceled"] ELSE job

Bail ==
    /\ main.at \in {"line", "loop"} /\ reset
    /\ sd' = protocol_abort(sd)
    /\ job' = Canceled(sd)
    /\ machine' = IF machine = "Idle" THEN "Idle" ELSE "Alarm"
    /\ reset' = FALSE
    /\ Go("clients")
    /\ UNCHANGED <<card, files, upload, left>>

GoOn ==
    /\ main.at \in {"line", "loop"} /\ ~reset
    /\ IF main.at = "line" THEN main' = [main EXCEPT !.at = "run"] ELSE Go("clients")
    /\ UNCHANGED <<card, files, sd, upload, machine, reset, job, left>>

-----------------------------------------------------------------------------
(* A line is read from the file (readFileLine). *)

\* What becomes of it: the main loop's next line, or the first one of a job.
LineRead(s, result) ==
    IF result = "ok"
    THEN /\ sd' = IF main.caller = "job" THEN [s EXCEPT !.ready = FALSE] ELSE s
         /\ main' = [main EXCEPT !.at = IF main.caller = "job" THEN "line" ELSE "run",
                                 !.command = [kind |-> "line", name |-> s.name]]
         /\ UNCHANGED job
    ELSE IF main.caller # "job"
    THEN /\ job' = Told(s, result)
         /\ sd' = IF main.caller = "client" THEN Report(Report(s, result), "ok") ELSE Report(s, result)
         /\ Go(IF main.caller = "client" THEN "clients" ELSE "job")
    ELSE IF result = "eof"
    THEN sd' = s /\ Go("eof") /\ UNCHANGED job
    ELSE Answer(s, result) /\ Go("loop")

Readable == sd.file = "good" /\ card.present

ReadChar ==
    /\ main.at = "read" /\ available(sd) /\ Len(main.text) < MaxLine
    /\ Readable
    /\ LET c == files[sd.name][sd.at + 1]
           s == [sd EXCEPT !.at = @ + 1]
       IN  IF c # "NL"
           THEN /\ sd' = s
                /\ main' = [main EXCEPT !.text = Append(@, c)]
                /\ UNCHANGED job
           ELSE LineRead(s, IF main.text # <<>> \/ available(s) THEN "ok" ELSE "eof")
    /\ UNCHANGED <<card, files, upload, machine, reset, left>>

\* A read fails: the card is mounted and the file opened again, a few times.
ReadFails ==
    /\ main.at = "read" /\ available(sd) /\ Len(main.text) < MaxLine
    /\ IF Readable THEN Trouble ELSE UNCHANGED left
    /\ LET again == prhReOpenSDFile(sd) IN
       IF main.tries = MaxRetries THEN LineRead(sd, "error")
       ELSE IF again.file = "good"
       THEN /\ sd' = again
            /\ main' = [main EXCEPT !.tries = @ + 1]
            /\ UNCHANGED job
       ELSE LineRead(again, "error")
    /\ UNCHANGED <<card, files, upload, machine, reset>>

\* The file ends, the line is too long, or no file is open.
ReadEnds ==
    /\ main.at = "read"
    /\ ~available(sd) \/ Len(main.text) = MaxLine
    /\ LineRead(sd, IF sd.file = "closed" \/ available(sd) THEN "error"
                    ELSE IF main.text # <<>> THEN "ok" ELSE "eof")
    /\ UNCHANGED <<card, files, upload, machine, reset, left>>

\* Mutant: the end is reported at once.
EndAtOnce ==
    /\ main.at = "eof"
    /\ Answer(IF reset THEN protocol_abort(sd) ELSE sd, "eof")
    /\ Go("loop")
    /\ UNCHANGED <<card, files, upload, machine, reset, left>>

\* The job has ended: its last motions are waited for, then it is reported.
EndOfJob ==
    /\ main.at = "eof"
    /\ IF reset
       THEN sd' = protocol_abort(sd) /\ job' = Canceled(sd)
       ELSE machine # "Cycle" /\ Answer(sd, "eof")
    /\ Go("loop")
    /\ UNCHANGED <<card, files, upload, machine, reset, left>>

-----------------------------------------------------------------------------
(* A line is executed. *)

Running(kind) == main.at = "run" /\ main.command.kind = kind

Result(text) ==
    IF text \in RefusedLines \/ (machine = "Alarm" /\ text # <<>>) THEN "error"
    ELSE IF text \in Unsupported THEN "unsupported"
    ELSE "ok"

\* A line of a job.  It may begin a motion; a reset may cut it short, which
\* ends the job before the line is answered.
ExecuteLine ==
    /\ Running("line")
    /\ LET result == Result(main.text)
           s == IF reset THEN protocol_abort(sd) ELSE sd
           ran == [job EXCEPT !.ran = Append(@, main.text)]
           after == IF reset /\ Printing(sd) THEN [ran EXCEPT !.outcome = "canceled"]
                    ELSE [ran EXCEPT !.outcome = Told(sd, result).outcome]
           answered == Report(s, result)
       IN  /\ job' = after
           /\ sd' = IF main.caller = "client" THEN Report(answered, "ok") ELSE answered
           /\ \/ UNCHANGED machine
              \/ result = "ok" /\ main.text # <<>> /\ ~reset /\ machine' = "Cycle"
    /\ Go(IF main.caller = "web" THEN "job" ELSE "clients")
    /\ UNCHANGED <<card, files, upload, reset, left>>

\* Other lines: a motion, $X.
Move ==
    /\ Running("move")
    /\ machine' = IF machine = "Alarm" THEN "Alarm" ELSE "Cycle"
    /\ Return(sd, "ok")
    /\ UNCHANGED <<card, files, upload, reset, left>>

Unlock ==
    /\ Running("unlock")
    /\ machine' = IF machine = "Alarm" THEN "Idle" ELSE machine
    /\ Return(sd, "ok")
    /\ UNCHANGED <<card, files, upload, reset, left>>

Unchanged == UNCHANGED <<card, upload, machine, reset, left>>

\* openSDFile.  A file that is not there leaves the card busy.
openSDFile(name) ==
    LET b == begin(sd, "BusyReading") IN
    IF b.was # "Idle" THEN [sd |-> b.sd, ok |-> FALSE]
    ELSE LET o == openFile(b.sd, name) IN [sd |-> o, ok |-> o.file = "good"]

runSDFile ==
    /\ Running("run")
    /\ LET o == openSDFile(main.command.name) IN
       IF machine # "Idle" THEN Return(sd, "error")
       ELSE IF ~o.ok THEN Return(o.sd, "error")
       ELSE /\ sd' = o.sd
            /\ main' = Reading(main.caller)
            /\ job' = [source |-> files[main.command.name], ran |-> <<>>, outcome |-> "running"]
    /\ Unchanged /\ UNCHANGED files

showSDFile ==
    /\ Running("show")
    /\ LET o == openSDFile(main.command.name) IN
       IF machine = "Cycle" THEN Return(sd, "error")
       ELSE IF ~o.ok THEN Return(o.sd, "error")
       ELSE Return(closeFile(o.sd), "ok")
    /\ Unchanged /\ UNCHANGED files

Without(f, names) == [n \in DOMAIN f \ names |-> f[n]]
With(f, name, content) == [n \in DOMAIN f \cup {name} |-> IF n = name THEN content ELSE f[n]]

deleteSDObject ==
    /\ Running("delete")
    /\ LET b == begin(sd, "BusyWriting") IN
       IF b.was # "Idle" THEN Return(b.sd, "ok") /\ UNCHANGED files
       ELSE /\ Return(end(b.sd), IF Exists(b.sd, main.command.name) THEN "ok" ELSE "error")
            /\ files' = IF Exists(b.sd, main.command.name) THEN Without(files, {main.command.name}) ELSE files
    /\ Unchanged

\* $SD/List and $SD/Status.
listSDFiles ==
    /\ Running("list")
    /\ LET b == begin(sd, "BusyReading") IN
       IF b.was # "Idle" THEN Return(b.sd, "error") ELSE Return(end(b.sd), "ok")
    /\ Unchanged /\ UNCHANGED files

\* A FileStream on the card: XModem's and $Config/Dump's.  It is opened for
\* writing; a file that cannot be opened leaves the card busy.
FileStream ==
    /\ Running("store")
    /\ LET b == begin(sd, "BusyWriting") IN
       IF b.was # "Idle" THEN Return(b.sd, "error") /\ UNCHANGED files
       ELSE \/ Return(b.sd, "error") /\ UNCHANGED files
            \/ /\ Return(end(b.sd), "ok")
               /\ \E c \in Uploads : files' = With(files, main.command.name, c)
    /\ Unchanged

-----------------------------------------------------------------------------
(* The web server's own requests. *)

NoUpload == [status |-> "none", name |-> "none", promised |-> <<>>, sent |-> <<>>, at |-> 0, tries |-> 0]

\* A failed upload's file is removed, whatever the reason, and the card is let go.
UploadFailed(s) ==
    /\ files' = IF Exists(s, upload'.name) THEN Without(files, {upload'.name}) ELSE files
    /\ sd' = end(s)
    /\ Go("answer")

\* Something is missing in the request; there is no room, or no file can be made.
UploadStart ==
    /\ main.at = "web" /\ "upload" \in Requests
    /\ Request
    /\ \E n \in Names, p \in Uploads, c \in Uploads, ok \in BOOLEAN :
       LET b == begin(sd, "BusyUploading")
           taken == b.was = "Idle" /\ ok
       IN  /\ upload' = [NoUpload EXCEPT !.status = IF taken THEN "ongoing" ELSE "failed",
                                         !.name = n, !.promised = p, !.sent = c]
           /\ IF taken
              THEN sd' = b.sd /\ files' = With(files, n, <<>>) /\ Go("upload")
              ELSE UploadFailed(b.sd)
    /\ UNCHANGED <<card, machine, reset, job>>

Uploading == main.at = "upload" /\ upload.at < Len(upload.sent)
Writable == sd.mounted /\ card.present

UploadWrite ==
    /\ Uploading /\ Writable
    /\ files' = [files EXCEPT ![upload.name] = Append(@, upload.sent[upload.at + 1])]
    /\ upload' = [upload EXCEPT !.at = @ + 1, !.tries = 0]
    /\ UNCHANGED <<card, sd, main, machine, reset, job, left>>

\* The file is opened for writing again, which empties it; what is before the
\* place to which it is set is whatever the card holds there.
UploadWriteFails ==
    /\ Uploading
    /\ IF Writable THEN Trouble ELSE UNCHANGED left
    /\ IF upload.tries < MaxRetries /\ Writable
       THEN /\ files' = [files EXCEPT ![upload.name] = [i \in 1 .. upload.at |-> "junk"]]
            /\ upload' = [upload EXCEPT !.tries = @ + 1]
            /\ UNCHANGED <<sd, main>>
       ELSE upload' = [upload EXCEPT !.status = "failed"] /\ UploadFailed(sd)
    /\ UNCHANGED <<card, machine, reset, job>>

\* Mutant: the file is not read back.
VerifiedUnread(f) == Len(f) = Len(upload.promised) /\ upload.sent = upload.promised

\* The size, the checksum of what was sent, and that of what is read back.
Verified(f) ==
    /\ Len(f) = Len(upload.promised)
    /\ upload.sent = upload.promised
    /\ f = upload.promised

UploadEnd ==
    /\ main.at = "upload" /\ upload.at = Len(upload.sent)
    /\ \/ /\ Writable /\ Verified(files[upload.name])
          /\ upload' = [upload EXCEPT !.status = "successful"]
          /\ sd' = end(sd)
          /\ Go("answer")
          /\ UNCHANGED <<files, left>>
       \/ /\ IF Writable /\ Verified(files[upload.name]) THEN Trouble ELSE UNCHANGED left
          /\ upload' = [upload EXCEPT !.status = "failed"]
          /\ UploadFailed(sd)
    /\ UNCHANGED <<card, machine, reset, job>>

\* The connection breaks: what has been written stays.
UploadAborted ==
    /\ main.at = "upload"
    /\ Trouble
    /\ upload' = [NoUpload EXCEPT !.status = "failed"]
    /\ sd' = end(sd)
    /\ Go("job")
    /\ UNCHANGED <<card, files, machine, reset, job>>

\* A download.  That the card is busy is said, and the file looked for all the
\* same; a file that is not there leaves the card busy.
Download ==
    /\ main.at = "web" /\ "download" \in Requests
    /\ Request
    /\ \E n \in Names :
       LET s == begin(sd, "BusyUploading").sd IN sd' = IF Exists(s, n) THEN end(s) ELSE s
    /\ Go("job")
    /\ UNCHANGED <<card, files, upload, machine, reset, job>>

\* The list of files, with which a file may be deleted.  An upload is answered
\* with it, too.
handle_direct_SDFileList ==
    /\ \/ main.at = "web" /\ "files" \in Requests /\ Request
       \/ main.at = "answer" /\ UNCHANGED left
    /\ LET b == begin(sd, "BusyParsing") IN
       IF b.was # "Idle" THEN sd' = b.sd /\ UNCHANGED files
       ELSE /\ sd' = end(b.sd)
            /\ \E names \in {{}} \cup IF main.at = "web" THEN {{n} : n \in DOMAIN files} ELSE {} :
                  files' = Without(files, names)
    /\ upload' = NoUpload
    /\ Go("job")
    /\ UNCHANGED <<card, machine, reset, job>>

-----------------------------------------------------------------------------
(* What happens outside the main task. *)

SwapCard ==
    /\ Trouble
    /\ card' = [card EXCEPT !.present = ~@]
    /\ UNCHANGED <<files, sd, main, upload, machine, reset, job>>

MotionEnds ==
    /\ machine = "Cycle" /\ machine' = "Idle"
    /\ UNCHANGED <<card, files, sd, main, upload, reset, job, left>>

\* mc_reset: Ctrl-X, the reset pin, a limit.
Reset ==
    /\ ~reset /\ Trouble
    /\ reset' = TRUE
    /\ machine' = IF machine = "Cycle" THEN "Alarm" ELSE machine
    /\ UNCHANGED <<card, files, sd, main, upload, job>>

NoJob == [source |-> <<>>, ran |-> <<>>, outcome |-> "none"]

\* Power is lost, or a restart was asked for: what is on the card stays.
Restart ==
    /\ Trouble
    /\ sd' = SDCard0 /\ main' = Main0 /\ upload' = NoUpload
    /\ machine' = "Idle" /\ reset' = FALSE /\ job' = NoJob
    /\ UNCHANGED <<card, files>>

-----------------------------------------------------------------------------

Init ==
    /\ card \in [present : {TRUE}, detect : BOOLEAN]
    /\ files \in InitialFiles
    /\ sd = SDCard0 /\ main = Main0 /\ upload = NoUpload
    /\ machine = "Idle" /\ reset = FALSE /\ job = NoJob
    /\ left = [requests |-> MaxRequests, troubles |-> MaxTroubles]

MainTask ==
    \/ NoClient \/ ClientLine \/ Overflow \/ NoRequest \/ WebCommand \/ PollJob \/ Bail \/ GoOn
    \/ ReadChar \/ ReadFails \/ ReadEnds \/ EndOfJob
    \/ ExecuteLine \/ Move \/ Unlock
    \/ runSDFile \/ showSDFile \/ deleteSDObject \/ listSDFiles \/ FileStream
    \/ UploadStart \/ UploadWrite \/ UploadWriteFails \/ UploadEnd \/ UploadAborted
    \/ Download \/ handle_direct_SDFileList

Next == MainTask \/ SwapCard \/ MotionEnds \/ Reset \/ Restart

Spec == Init /\ [][Next]_vars

\* The main task runs and motions end; nobody need ask for anything.
FairSpec == Spec /\ WF_vars(MainTask) /\ WF_vars(MotionEnds)
=============================================================================
