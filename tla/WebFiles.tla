------------------------------ MODULE WebFiles ------------------------------
(***************************************************************************)
(* The local file system and the firmware as the web server changes them   *)
(* (WebUI/WebServer.cpp): uploads to "/files", the list of files with its  *)
(* deletions, updates by "/updatefw", and beside them the commands of      *)
(* WebUI/WebSettings.cpp and updates over the air (WebUI/WifiServices.cpp).*)
(*                                                                         *)
(* A request carries forms: files that the library cuts into chunks.  It   *)
(* calls the upload handler at the start, for each chunk and at the end of *)
(* a form, or when the connection breaks; the final handler answers a      *)
(* request that came whole.  All handlers share _upload_status.  Passwords *)
(* (off in the default build) and directories are left out.                *)
(***************************************************************************)
EXTENDS Naturals, Sequences, FiniteSets, Functions

CONSTANTS FileNames,   \* names of files
          Texts,       \* what is uploaded: sequences of chunks
          Images,      \* firmware, likewise
          Space,       \* chunks the file system has room for
          MaxForms,    \* bound: files in a request
          MaxRequests, \* bound: requests and commands
          MaxTroubles  \* bound: faults, broken connections, losses of power

\* What the constants are: assumed where the module is instantiated.
WebFilesAssumption ==
    /\ \A t \in Texts \cup Images : t # <<>> /\ t \in Seq({t[i] : i \in DOMAIN t})
    /\ Space \in Nat /\ MaxForms \in Nat /\ MaxRequests \in Nat /\ MaxTroubles \in Nat

VARIABLES
    files,    \* the local file system
    mounted,  \* it can be accessed
    handler,  \* statics of SPIFFSFileupload: file name, is the file open; of
              \* WebUpdateUpload: maxSketchSpace
    status,   \* _upload_status
    request,  \* the request under way and how far it has come
    flash,    \* the library's Update; the image that runs and the one that boots next
    restart,  \* COMMANDS::restart_ESP_module
    broken,   \* history: files an upload left when its connection or the power failed,
              \* and torn by an update of the file system
    told,     \* history: the last answer to an upload
    stale,    \* history: SUCCESSFUL is about a request that was dropped
    left      \* bound

vars == <<files, mounted, handler, status, request, flash, restart, broken, told, stale, left>>

NewRequest(kind, forms) == [kind |-> kind, forms |-> forms, form |-> 1, at |-> 0, phase |-> "start", failed |-> FALSE]
NoRequest == NewRequest("none", <<>>)
NotTold == [answer |-> "none", forms |-> <<>>, failed |-> FALSE]

Trouble == left.troubles > 0 /\ left' = [left EXCEPT !.troubles = @ - 1]
Served == request.kind = "none" /\ ~restart
Command == Served /\ left.requests > 0 /\ left' = [left EXCEPT !.requests = @ - 1] /\ told' = NotTold

Form == request.forms[request.form]
Phase(kind, phase) == request.kind = kind /\ request.phase = phase /\ request.form \in DOMAIN request.forms

\* Chunks in the files of f.
Used(f) == FoldFunction(LAMBDA text, sum : Len(text) + sum, 0, f)

Without(names) == Restrict(files, DOMAIN files \ names)
With(name, text) == [n \in DOMAIN files \cup {name} |-> IF n = name THEN text ELSE files[n]]

-----------------------------------------------------------------------------
(* Requests                                                                 *)

Sizes == {"none", "right", "wrong"}
Uploads == [name : FileNames, text : Texts, size : Sizes]
Updates == [name : {"firmware"}, text : Images, size : Sizes]

\* What is to come: up to MaxForms files or one image, each with its name and
\* perhaps its size.
Request == /\ Command
           /\ \/ \E n \in 0 .. MaxForms : \E forms \in [1 .. n -> Uploads] :
                    request' = NewRequest("files", forms)
              \/ \E n \in 0 .. 1 : \E forms \in [1 .. n -> Updates] :
                    request' = NewRequest("update", forms)
           /\ UNCHANGED <<files, mounted, handler, status, flash, restart, broken, stale>>

Size(form) == IF form.size = "right" THEN Len(form.text) ELSE 0

\* cancelUpload: what is still to come of the request is not read when some of
\* it has arrived already.  The library then calls the handler once more, which
\* finds the upload failed and does again what it has just done.
cancelUpload(next) ==
    \/ request' = NoRequest
    \/ request' = next

\* Into a form; failed: that a form before it failed is forgotten now.
GoOn(phase) == [request EXCEPT !.phase = phase, !.failed = @ \/ (request.form > 1 /\ status = "FAILED")]
NextForm == [request EXCEPT !.phase = "start", !.form = @ + 1, !.at = 0]
NextChunk == [request EXCEPT !.at = @ + 1, !.phase = IF @ = "write" /\ request.at + 1 = Len(Form.text) THEN "end" ELSE @]

-----------------------------------------------------------------------------
(* Uploads of files: SPIFFSFileupload                                       *)

\* Mutant: a file that was written in part is kept.
KeepPart(next) == /\ status' = "FAILED"
                  /\ cancelUpload(next)
                  /\ UNCHANGED files

\* The upload has failed: what there is of the file is removed.
Failed(next) == /\ status' = "FAILED"
                /\ cancelUpload(next)
                /\ files' = Without({Form.name})

\* An old file of that name goes first, and an earlier one is closed.
FileStart ==
    /\ Phase("files", "start")
    /\ LET others == Without({Form.name})
           possible == mounted /\ (Form.size = "none" \/ Size(Form) <= Space - Used(others))
       IN \E created \in IF possible THEN BOOLEAN ELSE {FALSE} :
          /\ IF possible /\ ~created THEN Trouble ELSE UNCHANGED left
          /\ handler' = [handler EXCEPT !.name = Form.name, !.open = created]
          /\ IF created
             THEN status' = "ONGOING" /\ files' = With(Form.name, <<>>) /\ request' = GoOn("write")
             ELSE Failed(GoOn("write"))
    /\ broken' = broken \ {Form.name}
    /\ stale' = FALSE
    /\ UNCHANGED <<mounted, flash, restart, told>>

\* A write that fails may have written.
FileWrite ==
    /\ Phase("files", "write")
    /\ IF status = "FAILED" THEN Failed(NextChunk) /\ UNCHANGED left
       ELSE \/ /\ Used(files) < Space
               /\ files' = [files EXCEPT ![Form.name] = Append(@, Form.text[request.at + 1])]
               /\ request' = NextChunk
               /\ UNCHANGED <<status, left>>
            \/ /\ IF Used(files) < Space THEN Trouble ELSE UNCHANGED left
               /\ Failed(NextChunk)
    /\ UNCHANGED <<mounted, handler, flash, restart, broken, told, stale>>

\* The size that was announced, if any, is compared with that of the file.
FileEnd ==
    /\ Phase("files", "end")
    /\ handler' = [handler EXCEPT !.open = IF status = "FAILED" THEN @ ELSE FALSE]
    /\ IF status = "FAILED" \/ (Form.size # "none" /\ Size(Form) # Len(files[Form.name]))
       THEN Failed(NextForm)
       ELSE status' = "SUCCESSFUL" /\ request' = NextForm /\ UNCHANGED files
    /\ UNCHANGED <<mounted, flash, restart, broken, told, stale, left>>

\* The connection breaks in a form: if the upload has not failed before, what
\* was written stays, and the file is open.
FileAborted ==
    /\ request.kind = "files" /\ request.phase \in {"write", "end"}
    /\ Trouble
    /\ request' = NoRequest
    /\ status' = "FAILED"
    /\ IF status = "FAILED" THEN files' = Without({handler.name}) /\ UNCHANGED broken
       ELSE broken' = broken \cup {handler.name} /\ UNCHANGED files
    /\ UNCHANGED <<mounted, handler, flash, restart, told, stale>>

\* The connection breaks between forms, or before the end of the request: the
\* library calls no handler.
Dropped ==
    /\ request.kind # "none" /\ request.phase = "start"
    /\ Trouble
    /\ request' = NoRequest
    /\ stale' = (status = "SUCCESSFUL")
    /\ UNCHANGED <<files, mounted, handler, status, flash, restart, broken, told>>

\* Mutant: only an upload that is still going on has failed.
AnswerOngoing(s) == IF s = "ONGOING" THEN "Upload failed" ELSE "Ok"

Answer(s) == IF s = "FAILED" THEN "Upload failed" ELSE "Ok"

Final(kind) == request.kind = kind /\ request.form > Len(request.forms)

\* handleFileList: the answer to uploads and the list of files, with which a
\* file or the files of a directory may be deleted.
handleFileList ==
    /\ Final("files")
    /\ status' = "NONE"
    /\ request' = NoRequest
    /\ told' = [answer |-> Answer(status), forms |-> request.forms, failed |-> request.failed]
    /\ \E names \in IF request.forms = <<>> /\ mounted THEN SUBSET DOMAIN files ELSE {{}} :
          files' = Without(names) /\ broken' = broken \ names
    /\ stale' = FALSE
    /\ UNCHANGED <<mounted, handler, flash, restart, left>>

-----------------------------------------------------------------------------
(* Updates of the firmware: WebUpdateUpload and the library's Update        *)

NoUpdate == [running |-> FALSE, written |-> <<>>]

\* Update.end(): not complete, and given up.
UpdateFailed(next) == /\ status' = "FAILED"
                      /\ cancelUpload(next)
                      /\ flash' = [flash EXCEPT !.update = NoUpdate]

\* The size announced is kept for the percentage, and for the next update.  The
\* library refuses to begin when an update was left running.
UpdateStart ==
    /\ Phase("update", "start")
    /\ handler' = [handler EXCEPT !.max = IF Form.size = "none" THEN @ ELSE Size(Form)]
    /\ IF flash.update.running THEN UpdateFailed(GoOn("write"))
       ELSE \/ /\ status' = "ONGOING"
               /\ flash' = [flash EXCEPT !.update.running = TRUE]
               /\ request' = GoOn("write")
            \/ UpdateFailed(GoOn("write"))
    /\ stale' = FALSE
    /\ UNCHANGED <<files, mounted, restart, broken, told, left>>

\* Mutant: how much was written is not looked at.
UnheededWrite(ok) == status' = status /\ request' = NextChunk

\* How a chunk went.
WriteResult(ok) == IF ok THEN status' = status /\ request' = NextChunk
                   ELSE status' = "FAILED" /\ cancelUpload(NextChunk)

WrittenOn == [flash.update EXCEPT !.written = Append(@, Form.text[request.at + 1])]

\* With no size announced, now or before, the percentage is a division by zero.
UpdateWrite ==
    /\ Phase("update", "write")
    /\ IF status = "FAILED" THEN UpdateFailed(NextChunk) /\ UNCHANGED left
       ELSE /\ handler.max > 0
            /\ \E ok \in BOOLEAN :
                  /\ IF ok THEN UNCHANGED left ELSE Trouble
                  /\ WriteResult(ok)
                  /\ flash' = [flash EXCEPT !.update = IF status' = "FAILED" THEN NoUpdate ELSE IF ok THEN WrittenOn ELSE @]
    /\ UNCHANGED <<files, mounted, handler, restart, broken, told, stale>>

\* Update.end(true): what was written is the image, whatever was announced; the
\* library looks at it and may refuse.
UpdateEnd ==
    /\ Phase("update", "end")
    /\ IF status = "FAILED" THEN UpdateFailed(NextForm)
       ELSE \/ /\ status' = "SUCCESSFUL" /\ request' = NextForm
               /\ flash' = [flash EXCEPT !.update = NoUpdate, !.next = flash.update.written]
            \/ UpdateFailed(NextForm)
    /\ UNCHANGED <<files, mounted, handler, restart, broken, told, stale, left>>

\* The connection breaks: the library's update is not given up.
UpdateAborted ==
    /\ request.kind = "update" /\ request.phase \in {"write", "end"}
    /\ Trouble
    /\ request' = NoRequest
    /\ status' = "FAILED"
    /\ flash' = IF status = "FAILED" THEN [flash EXCEPT !.update = NoUpdate] ELSE flash
    /\ UNCHANGED <<files, mounted, handler, restart, broken, told, stale>>

\* The answer, and the restart.
handleUpdate ==
    /\ Final("update")
    /\ request' = NoRequest
    /\ restart' = (status = "SUCCESSFUL")
    /\ status' = IF status = "SUCCESSFUL" THEN status ELSE "NONE"
    /\ told' = [answer |-> status, forms |-> request.forms, failed |-> request.failed]
    /\ UNCHANGED <<files, mounted, handler, flash, broken, stale, left>>

-----------------------------------------------------------------------------
(* Beside requests                                                          *)

\* formatSpiffs, deleteLocalFile.
Delete == /\ Command /\ mounted
          /\ \E names \in {{n} : n \in DOMAIN files} \cup {DOMAIN files} :
                files' = Without(names) /\ broken' = broken \ names
          /\ UNCHANGED <<mounted, handler, status, request, flash, restart, stale>>

\* The partition is overwritten in place and the update breaks off: a file is as it
\* was, what there is at its place is no text, or it is gone.
OverwritePart ==
    \E whole \in SUBSET DOMAIN files, torn \in SUBSET FileNames :
        /\ files' = [n \in whole \cup torn |-> IF n \in torn THEN <<>> ELSE files[n]]
        /\ broken' = (broken \cap whole) \cup torn

LeftRunning == \E running \in BOOLEAN : flash' = [flash EXCEPT !.update.running = running]

\* An update over the air, which the library refuses when an update was left
\* running.  One of the file system ends the access to it, and has it not back
\* when it fails.  One that succeeds restarts.
OverTheAir ==
    /\ Command
    /\ ~flash.update.running
    /\ \/ mounted' = FALSE /\ OverwritePart /\ LeftRunning /\ UNCHANGED restart
       \/ /\ \E n \in FileNames, t \in Texts : files' = [m \in {n} |-> t]
          /\ mounted' = FALSE /\ broken' = {} /\ restart' = TRUE
          /\ UNCHANGED flash
       \/ /\ \/ LeftRunning /\ UNCHANGED restart
             \/ \E i \in Images : flash' = [flash EXCEPT !.next = i] /\ restart' = TRUE
          /\ UNCHANGED <<files, mounted, broken>>
    /\ UNCHANGED <<handler, status, request, stale>>

\* $Bye, [ESP444]RESTART.
restart_ESP ==
    /\ Command
    /\ restart' = TRUE
    /\ UNCHANGED <<files, mounted, handler, status, request, flash, broken, stale>>

Handler0 == [name |-> "none", open |-> FALSE, max |-> 0]

\* The program starts again: what was being written is what it is.
Again == /\ mounted' = TRUE
         /\ handler' = Handler0
         /\ status' = "NONE"
         /\ request' = NoRequest
         /\ flash' = [flash EXCEPT !.update = NoUpdate, !.runs = flash.next]
         /\ restart' = FALSE
         /\ broken' = IF request.kind = "files" /\ status = "ONGOING" THEN broken \cup {handler.name} ELSE broken
         /\ told' = NotTold
         /\ stale' = FALSE
         /\ UNCHANGED files

\* COMMANDS::handle.
Restart == restart /\ request.kind = "none" /\ Again /\ UNCHANGED left

PowerLost == Trouble /\ Again

\* The division by zero.
Panic == /\ Phase("update", "write") /\ status # "FAILED" /\ handler.max = 0
         /\ Again /\ UNCHANGED left

Init == /\ \E n \in FileNames, t \in Texts : files = [m \in {n} |-> t]
        /\ mounted = TRUE
        /\ handler = Handler0
        /\ status = "NONE"
        /\ request = NoRequest
        /\ \E i \in Images : flash = [update |-> NoUpdate, runs |-> i, next |-> i]
        /\ restart = FALSE
        /\ broken = {} /\ told = NotTold /\ stale = FALSE
        /\ left = [requests |-> MaxRequests, troubles |-> MaxTroubles]

Next == \/ Request
        \/ FileStart \/ FileWrite \/ FileEnd \/ FileAborted \/ handleFileList
        \/ UpdateStart \/ UpdateWrite \/ UpdateEnd \/ UpdateAborted \/ handleUpdate
        \/ Dropped
        \/ Delete \/ OverTheAir \/ restart_ESP
        \/ Restart \/ PowerLost \/ Panic

Spec == Init /\ [][Next]_vars

-----------------------------------------------------------------------------
(* Properties                                                               *)

\* Between requests every file is whole: a write that failed, a size that does
\* not agree and a request that was cut short leave nothing behind, except that
\* a connection or the power that fails in a form leaves what was written, and an
\* update of the file system over the air that fails leaves what it did not get to
\* overwrite (nothing that is told Ok outlives it).  And
\* a client that is told Ok finds the last text it sent for each name, unless
\* one of several forms failed, whose failure the next one made forgotten.
LocalFilesTrue ==
    request.kind = "none" =>
        /\ \A n \in DOMAIN files \ broken : files[n] \in Texts
        /\ told.answer = "Ok" /\ ~told.failed =>
              \A i \in DOMAIN told.forms :
                 (\A j \in DOMAIN told.forms : j > i => told.forms[j].name # told.forms[i].name)
                 => /\ told.forms[i].name \in DOMAIN files
                    /\ files[told.forms[i].name] = told.forms[i].text

\* The image that runs, or will run, is whole, whatever broke in the updates
\* before; and a restart after an update has a new image to run, unless the
\* success was that of an upload whose request was dropped before its answer.
WholeImageBoots == /\ {flash.runs, flash.next} \subseteq Images
                   /\ restart /\ told.answer = "SUCCESSFUL" /\ ~stale =>
                         told.forms # <<>> /\ \E i \in DOMAIN told.forms : flash.next = told.forms[i].text

-----------------------------------------------------------------------------
(* Invariant: what the properties rest on                                   *)

Inside == request.phase # "start"

\* The form and the chunk of it that come next.
RequestTyped ==
    /\ request \in [kind : {"none", "files", "update"}, forms : Seq(Uploads \cup Updates), form : Nat \ {0},
                    at : Nat, phase : {"start", "write", "end"}, failed : BOOLEAN]
    /\ request.kind = "none" => request = NoRequest
    /\ request.kind = "files" => \A i \in DOMAIN request.forms : request.forms[i] \in Uploads
    /\ request.kind = "update" => \A i \in DOMAIN request.forms : request.forms[i] \in Updates
    /\ request.form <= Len(request.forms) + 1
    /\ request.phase = "start" => request.at = 0
    /\ request.phase = "write" => request.form <= Len(request.forms) /\ request.at < Len(Form.text)
    /\ request.phase = "end" => request.form <= Len(request.forms) /\ request.at = Len(Form.text)
    /\ Inside => status \in {"ONGOING", "FAILED"}

\* What has been written of the form under way.
SoFar == [i \in 1 .. request.at |-> Form.text[i]]

\* Whole are the files that are not being written and were not left by trouble;
\* an upload that goes on has its file as far as it came, a failed one has none.
FilesWhole ==
    /\ files = [n \in DOMAIN files |-> files[n]]
    /\ \A n \in DOMAIN files \ broken :
          files[n] \in Texts \/ (request.kind = "files" /\ Inside /\ n = Form.name)
    /\ request.kind = "files" /\ Inside =>
          /\ handler.name = Form.name
          /\ IF status = "ONGOING" THEN Form.name \in DOMAIN files /\ files[Form.name] = SoFar
             ELSE Form.name \notin DOMAIN files

\* The forms before are written, except one of the name that is written now.
FormsDone ==
    /\ request.kind = "files" /\ ~request.failed /\ status # "FAILED" =>
          \A i \in 1 .. (request.form - 1) :
             /\ \A j \in (i + 1) .. (request.form - 1) : request.forms[j].name # request.forms[i].name
             /\ Inside => Form.name # request.forms[i].name
             => /\ request.forms[i].name \in DOMAIN files
                /\ files[request.forms[i].name] = request.forms[i].text
    /\ request.kind # "none" => told = NotTold

\* An update that goes on has written the image as far as it came.
ImageWhole ==
    /\ flash = [update |-> flash.update, runs |-> flash.runs, next |-> flash.next]
    /\ flash.update = [running |-> flash.update.running, written |-> flash.update.written]
    /\ ~flash.update.running => flash.update.written = <<>>
    /\ request.kind = "update" /\ Inside /\ status = "ONGOING" =>
          flash.update.running /\ flash.update.written = SoFar

\* Success is that of the form before.
SuccessTrue ==
    /\ status \in {"NONE", "ONGOING", "FAILED", "SUCCESSFUL"}
    /\ restart => request.kind = "none"
    /\ status = "SUCCESSFUL" /\ ~stale =>
          /\ request.kind = "none" => restart
          /\ request.kind = "update" => request.form > 1 /\ flash.next = request.forms[request.form - 1].text

UploadsInv == /\ RequestTyped /\ FilesWhole /\ FormsDone /\ ImageWhole /\ SuccessTrue
              /\ LocalFilesTrue /\ WholeImageBoots
=============================================================================
