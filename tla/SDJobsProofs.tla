---------------------------- MODULE SDJobsProofs ----------------------------
(***************************************************************************)
(* An upload that is answered as successful is on the card, whatever the   *)
(* files, however many requests come and however often writes fail.        *)
(* A job that keeps the card executes the lines of its file, in order, and *)
(* all of them when it is said to have succeeded.                          *)
(***************************************************************************)
EXTENDS SDJobsProperties, WellFoundedInduction, SequenceTheorems, TLAPS

(***************************************************************************)
(* UploadTrue is not inductive: the file could change after the upload has *)
(* been verified.  Nothing can come between, since the answer is given by  *)
(* the same task.                                                          *)
(***************************************************************************)
IInv ==
    /\ {"status", "name", "promised"} \subseteq DOMAIN upload
    /\ upload.status = "successful"
       => main.at = "answer" /\ files[upload.name] = upload.promised

\* Every action of the main task begins at its own place.
NotAnswering ==
    NoClient \/ ClientLine \/ Overflow \/ NoRequest \/ WebCommand \/ PollJob \/ Bail \/ GoOn
    \/ ReadChar \/ ReadFails \/ ReadEnds \/ EndOfJob
    \/ ExecuteLine \/ Move \/ Unlock
    \/ runSDFile \/ showSDFile \/ deleteSDObject \/ listSDFiles \/ FileStream

\* No command and no line of a job touches the upload: there is none that
\* succeeded while they run.
LEMMA CommandsKeep ==
    ASSUME IInv, NotAnswering
    PROVE  IInv'
<1>1. main.at # "answer" /\ upload' = upload
  BY DEF NotAnswering, NoClient, ClientLine, Overflow, NoRequest, WebCommand, PollJob, Bail, GoOn,
         ReadChar, ReadFails, ReadEnds, EndOfJob, ExecuteLine, Move, Unlock, Running, Unchanged,
         runSDFile, showSDFile, deleteSDObject, listSDFiles, FileStream
<1> QED
  BY <1>1 DEF IInv

\* An upload succeeds by its verification alone.
LEMMA UploadKeeps ==
    ASSUME IInv, UploadStart \/ UploadWrite \/ UploadWriteFails \/ UploadEnd \/ UploadAborted
    PROVE  IInv'
<1>1. main.at # "answer"
  BY DEF UploadStart, UploadWrite, UploadWriteFails, UploadEnd, UploadAborted, Uploading
<1>2. upload.status # "successful"
  BY <1>1 DEF IInv
<1>3. CASE UploadStart
  <2>1. upload'.status \in {"ongoing", "failed"} /\ {"status", "name", "promised"} \subseteq DOMAIN upload'
    BY <1>3 DEF UploadStart, NoUpload
  <2> QED
    BY <2>1 DEF IInv
<1>4. CASE UploadWrite
  BY <1>2, <1>4 DEF UploadWrite, IInv
<1>5. CASE UploadWriteFails
  BY <1>2, <1>5 DEF UploadWriteFails, IInv
<1>6. CASE UploadEnd
  BY <1>2, <1>6 DEF UploadEnd, Verified, Go, Main0, IInv
<1>7. CASE UploadAborted
  BY <1>7 DEF UploadAborted, NoUpload, IInv
<1> QED
  BY <1>3, <1>4, <1>5, <1>6, <1>7

LEMMA NextKeeps ==
    ASSUME IInv, [Next]_vars
    PROVE  IInv'
<1>1. CASE NotAnswering
  BY <1>1, CommandsKeep
<1>2. CASE UploadStart \/ UploadWrite \/ UploadWriteFails \/ UploadEnd \/ UploadAborted
  BY <1>2, UploadKeeps
<1>3. CASE Download
  <2>1. main.at # "answer" /\ upload' = upload
    BY <1>3 DEF Download
  <2> QED
    BY <2>1 DEF IInv
<1>4. CASE handle_direct_SDFileList \/ Restart
  <2>1. upload' = NoUpload
    BY <1>4 DEF handle_direct_SDFileList, Restart
  <2> QED
    BY <2>1 DEF IInv, NoUpload
<1>5. CASE SwapCard \/ MotionEnds \/ Reset \/ UNCHANGED vars
  <2>1. UNCHANGED <<files, main, upload>>
    BY <1>5 DEF SwapCard, MotionEnds, Reset, vars
  <2> QED
    BY <2>1 DEF IInv
<1> QED
  BY <1>1, <1>2, <1>3, <1>4, <1>5 DEF Next, MainTask, NotAnswering

\* Whatever the bounds: an upload that has succeeded, by SDFile_direct_upload's
\* account, is what the client promised.
THEOREM UploadsAreTrue == Spec => []UploadTrue
<1>1. Init => IInv
  BY DEF Init, IInv, NoUpload
<1>2. IInv /\ [Next]_vars => IInv'
  BY NextKeeps
<1>3. IInv => UploadTrue
  BY DEF IInv, UploadTrue
<1> QED
  BY <1>1, <1>2, <1>3, PTL DEF Spec

-----------------------------------------------------------------------------
(* Jobs.  JobTrue needs to know where in the file the job is at every place *)
(* of the main task, and that its file stays as it was.                     *)

Chars == Seq(Characters \cup {"junk"})
Places == {"clients", "web", "job", "loop", "line", "read", "eof", "run", "upload", "answer"}
SDObjects == [state : Busy \cup {"Idle", "NotPresent"}, mounted : BOOLEAN,
              file : {"closed", "good", "stale"}, name : Names \cup {"none"},
              size : Nat, at : Nat, ready : BOOLEAN]
Mains == [at : Places, caller : {"none", "client", "web", "job"},
          command : [kind : Requests \cup {"none", "line"}, name : Names \cup {"none"}],
          text : Chars, tries : Nat]
TheUploads == [status : {"none", "ongoing", "failed", "successful"}, name : Names \cup {"none"},
               promised : Chars, sent : Chars, at : Nat, tries : Nat]
TheJobs == [source : Chars, ran : Seq(Chars),
            outcome : {"none", "running", "succeeded", "failed", "canceled"}]

JobsTyped ==
    /\ card \in [present : BOOLEAN, detect : BOOLEAN]
    /\ sd \in SDObjects /\ main \in Mains /\ upload \in TheUploads /\ job \in TheJobs
    /\ \A n \in DOMAIN files : files[n] \in Chars

\* What is open is on the card, and as it was when it was opened.
OpenKept ==
    sd.file = "good"
    => sd.name \in DOMAIN files /\ sd.size = Len(files[sd.name])

\* The file is the one that the job began with, and open.
FileKept == sd.file = "good" /\ files[sd.name] = job.source /\ sd.at <= sd.size

\* A line that was read is at hand, and not executed yet.
AtHand == main.at \in {"line", "run"} /\ main.command.kind = "line"

Done == AsFile(job.ran)
ReadSoFar == SubSeq(job.source, 1, sd.at)
AllRead == sd.at = sd.size

\* The lines executed, what is at hand, and what is still in the file are the file.
InPlace ==
    /\ main.at = "read" => \/ Done \o main.text = ReadSoFar
                           \/ main.text = <<>> /\ AllRead /\ Done = job.source \o <<"NL">>
    /\ AtHand => \/ (Done \o main.text) \o <<"NL">> = ReadSoFar
                 \/ AllRead /\ Done \o main.text = job.source
    /\ main.at = "eof" => Complete
    /\ main.at # "read" /\ ~AtHand /\ main.at # "eof"
       => Done = ReadSoFar \/ (AllRead /\ Done = job.source \o <<"NL">>)

JobInv ==
    /\ JobsTyped /\ OpenKept
    /\ main.at = "upload" => sd.state = "BusyUploading" /\ sd.file # "good"
    /\ main.at = "read" /\ main.caller # "job" => machine # "Cycle"
    /\ sd.state = "BusyPrinting"
       => FileKept /\ InPlace /\ \A i \in DOMAIN job.ran : job.ran[i] \notin RefusedLines

-----------------------------------------------------------------------------
(* What AsFile does to a line more.                                         *)

\* Every set of naturals that is not empty has a least element.
LEMMA LeastNumber == ASSUME NEW T \in SUBSET Nat, T # {}
                     PROVE  \E n \in T : \A k \in T : n <= k
<1> DEFINE R == OpToRel(<, Nat)
<1>1. IsWellFoundedOn(R, Nat)
  BY ONLY NatLessThanWellFounded, Zenon
<1>2. \A m, n \in Nat : m < n => <<m, n>> \in R
  BY DEF OpToRel
<1> HIDE DEF R
<1>3. \E x \in T : \A y \in T : ~(<<y, x>> \in R)
  BY <1>1, WFMin
<1>4. PICK x \in T : \A y \in T : ~(<<y, x>> \in R)
  BY <1>3
<1>5. \A k \in T : k \in Nat /\ ~(k < x)
  BY <1>2, <1>4
<1> QED
  BY <1>5

\* Induction: a set that has 0, and with every number the next one, has them all.
LEMMA InductionOverSets ==
  ASSUME NEW T, 0 \in T, \A n \in Nat : n \in T => n + 1 \in T
  PROVE  Nat \subseteq T
<1> DEFINE U == {n \in Nat : n \notin T}
<1> SUFFICES ASSUME U # {} PROVE FALSE
  OBVIOUS
<1>1. PICK n \in U : \A k \in U : n <= k
  <2> HIDE DEF U
  <2>1. U \in SUBSET Nat
    BY DEF U
  <2> QED
    BY <2>1, LeastNumber
<1> QED
  BY <1>1

Ended(lines) == [i \in DOMAIN lines |-> lines[i] \o <<"NL">>]

\* The function that AsFile computes with: what the first i lines are in a file.
FilesUpTo(f, q) == f = [i \in 1 .. Len(q) |-> IF i = 1 THEN q[i] ELSE f[i - 1] \o q[i]]

LEMMA FilesExist == \A q \in Seq(Chars) : \E f : FilesUpTo(f, q)
<1> DEFINE T == {n \in Nat : \A q \in Seq(Chars) : Len(q) = n => \E f : FilesUpTo(f, q)}
<1>1. 0 \in T
  <2> SUFFICES ASSUME NEW q \in Seq(Chars), Len(q) = 0 PROVE \E f : FilesUpTo(f, q)
    OBVIOUS
  <2>1. FilesUpTo([i \in {} |-> <<>>], q)
    BY DEF FilesUpTo
  <2> QED
    BY <2>1
<1>2. ASSUME NEW n \in Nat, n \in T PROVE n + 1 \in T
  <2> SUFFICES ASSUME NEW q \in Seq(Chars), Len(q) = n + 1 PROVE \E f : FilesUpTo(f, q)
    OBVIOUS
  <2> DEFINE r == SubSeq(q, 1, n)
  <2>1. r \in Seq(Chars) /\ Len(r) = n /\ \A i \in 1 .. n : r[i] = q[i]
    BY DEF Chars
  <2>2. PICK g : FilesUpTo(g, r)
    BY <1>2, <2>1
  <2> HIDE DEF r
  <2> DEFINE f == [i \in 1 .. n + 1 |-> IF i = 1 THEN q[i] ELSE g[i - 1] \o q[i]]
  <2>3. \A i \in 1 .. n : f[i] = g[i]
    <3>1. \A i \in 1 .. n : g[i] = IF i = 1 THEN r[i] ELSE g[i - 1] \o r[i]
      BY <2>1, <2>2 DEF FilesUpTo
    <3> QED
      BY <2>1, <3>1
  <2>4. \A i \in 1 .. n + 1 : f[i] = IF i = 1 THEN q[i] ELSE f[i - 1] \o q[i]
    <3> SUFFICES ASSUME NEW i \in 1 .. n + 1, i # 1 PROVE f[i] = f[i - 1] \o q[i]
      OBVIOUS
    <3>1. i - 1 \in 1 .. n
      OBVIOUS
    <3>2. f[i] = g[i - 1] \o q[i]
      OBVIOUS
    <3> HIDE DEF f
    <3> QED
      BY <2>3, <3>1, <3>2
  <2>5. f = [i \in DOMAIN f |-> f[i]] /\ DOMAIN f = 1 .. Len(q)
    OBVIOUS
  <2> HIDE DEF f
  <2>6. FilesUpTo(f, q)
    BY <2>4, <2>5 DEF FilesUpTo
  <2> QED
    BY <2>6
<1> HIDE DEF T
<1>3. Nat \subseteq T
  BY <1>1, <1>2, InductionOverSets
<1> QED
  BY <1>3 DEF T

\* With a line more, the files of the lines before it are the same.
LEMMA FilesAgree ==
  ASSUME NEW q \in Seq(Chars), NEW t \in Chars,
         NEW f, FilesUpTo(f, q), NEW g, FilesUpTo(g, Append(q, t))
  PROVE  \A i \in 1 .. Len(q) : f[i] \in Chars /\ g[i] = f[i]
<1> DEFINE T == {n \in Nat : n \in 1 .. Len(q) => f[n] \in Chars /\ g[n] = f[n]}
           p == Append(q, t)
<1>1. p \in Seq(Chars) /\ Len(p) = Len(q) + 1 /\ \A i \in 1 .. Len(q) : p[i] = q[i]
  OBVIOUS
<1>2. 0 \in T
  OBVIOUS
<1>3. ASSUME NEW n \in Nat, n \in T PROVE n + 1 \in T
  <2> SUFFICES ASSUME n + 1 \in 1 .. Len(q) PROVE f[n + 1] \in Chars /\ g[n + 1] = f[n + 1]
    OBVIOUS
  <2>1. f[n + 1] = IF n + 1 = 1 THEN q[n + 1] ELSE f[(n + 1) - 1] \o q[n + 1]
    BY DEF FilesUpTo
  <2>2. n + 1 \in 1 .. Len(p) /\ p[n + 1] = q[n + 1]
    BY <1>1
  <2> HIDE DEF p
  <2>3. g[n + 1] = IF n + 1 = 1 THEN p[n + 1] ELSE g[(n + 1) - 1] \o p[n + 1]
    BY <2>2 DEF FilesUpTo, p
  <2>4. q[n + 1] \in Chars /\ (n + 1) - 1 = n
    OBVIOUS
  <2>5. CASE n = 0
    BY <2>1, <2>2, <2>3, <2>4, <2>5
  <2>6. CASE n # 0
    <3>1. n \in 1 .. Len(q) /\ f[n] \in Chars /\ g[n] = f[n]
      BY <1>3, <2>6
    <3>2. f[n] \o q[n + 1] \in Chars
      BY <3>1, <2>4 DEF Chars
    <3> QED
      BY <2>1, <2>2, <2>3, <2>4, <2>6, <3>1, <3>2
  <2> QED
    BY <2>5, <2>6
<1> HIDE DEF T, p
<1>4. Nat \subseteq T
  BY <1>2, <1>3, InductionOverSets
<1> QED
  BY <1>4 DEF T

LEMMA FileUpTo ==
  ASSUME NEW q, NEW f, FilesUpTo(f, q), NEW i \in 1 .. Len(q)
  PROVE  f[i] = IF i = 1 THEN q[i] ELSE f[i - 1] \o q[i]
BY DEF FilesUpTo

LEMMA LineMore ==
  ASSUME NEW lines \in Seq(Chars), NEW line \in Chars
  PROVE  /\ AsFile(lines) \in Chars
         /\ AsFile(Append(lines, line)) = (AsFile(lines) \o line) \o <<"NL">>
<1> DEFINE q == Ended(lines)
           t == line \o <<"NL">>
           p == Ended(Append(lines, line))
           F(s) == CHOOSE f : FilesUpTo(f, s)
<1>1. t \in Chars /\ \A s \in Chars : s \o <<"NL">> \in Chars /\ s \o t = (s \o line) \o <<"NL">>
  <2>1. <<"NL">> \in Chars
    BY SDJobsAssumption DEF Chars, SDJobsAssumption
  <2> QED
    BY <2>1, ConcatAssociative, ConcatProperties DEF Chars
<1>2. q \in Seq(Chars) /\ Len(q) = Len(lines)
  <2>1. \A i \in 1 .. Len(lines) : lines[i] \o <<"NL">> \in Chars
    BY <1>1
  <2>2. q \in [1 .. Len(lines) -> Chars]
    BY <2>1 DEF Ended
  <2> HIDE DEF q
  <2> QED
    BY <2>2
<1>3. p = Append(q, t)
  <2> DEFINE l == Append(lines, line)
  <2>1. l \in Seq(Chars) /\ DOMAIN l = 1 .. Len(lines) + 1 /\ Len(l) = Len(lines) + 1
    OBVIOUS
  <2>2. \A i \in 1 .. Len(lines) + 1 : l[i] = IF i = Len(lines) + 1 THEN line ELSE lines[i]
    OBVIOUS
  <2> HIDE DEF l
  <2>3. p = [i \in 1 .. Len(lines) + 1 |-> l[i] \o <<"NL">>]
    BY <2>1 DEF Ended, l
  <2> DEFINE e == Append(q, t)
  <2>4. /\ e = [i \in DOMAIN e |-> e[i]] /\ DOMAIN e = 1 .. Len(lines) + 1
        /\ \A i \in 1 .. Len(lines) : e[i] = q[i] /\ q[i] = lines[i] \o <<"NL">>
        /\ e[Len(lines) + 1] = t
    <3>1. e \in Seq(Chars) /\ Len(e) = Len(lines) + 1 /\ DOMAIN e = 1 .. Len(lines) + 1 /\ e[Len(lines) + 1] = t
          /\ \A i \in 1 .. Len(lines) : e[i] = q[i]
      <4> HIDE DEF q, t
      <4> QED
        BY <1>1, <1>2
    <3>2. \A i \in 1 .. Len(lines) : q[i] = lines[i] \o <<"NL">>
      BY DEF Ended
    <3>3. e \in [1 .. Len(lines) + 1 -> Chars]
      <4> HIDE DEF e
      <4> QED
        BY <3>1
    <3> HIDE DEF e
    <3> QED
      BY <3>1, <3>2, <3>3
  <2>5. \A i \in 1 .. Len(lines) + 1 : e[i] = l[i] \o <<"NL">>
    <3> SUFFICES ASSUME NEW i \in 1 .. Len(lines) + 1 PROVE e[i] = l[i] \o <<"NL">>
      OBVIOUS
    <3> HIDE DEF e
    <3>1. CASE i = Len(lines) + 1
      BY <2>2, <2>4, <3>1
    <3>2. CASE i # Len(lines) + 1
      <4>1. i \in 1 .. Len(lines)
        BY <3>2
      <4>2. e[i] = lines[i] \o <<"NL">> /\ l[i] = lines[i]
        BY <2>2, <2>4, <3>2, <4>1
      <4> QED
        BY <4>2
    <3> QED
      BY <3>1, <3>2
  <2> HIDE DEF e, p
  <2> QED
    BY <2>3, <2>4, <2>5 DEF e
<1> HIDE DEF q, t, p
<1>4. FilesUpTo(F(q), q) /\ FilesUpTo(F(p), p) /\ p \in Seq(Chars) /\ Len(p) = Len(q) + 1
  <2>1. p \in Seq(Chars) /\ Len(p) = Len(q) + 1
    BY <1>1, <1>2, <1>3
  <2> QED
    BY <1>2, <2>1, FilesExist
<1>5. AsFile(lines) = IF Len(q) = 0 THEN q ELSE F(q)[Len(q)]
  BY DEF AsFile, FlattenSeq, Ended, q, FilesUpTo
<1>6. AsFile(Append(lines, line)) = IF Len(p) = 0 THEN p ELSE F(p)[Len(p)]
  BY DEF AsFile, FlattenSeq, Ended, p, FilesUpTo
<1> HIDE DEF F
<1>7. Len(p) # 0 /\ F(p)[Len(p)] = IF Len(p) = 1 THEN p[Len(p)] ELSE F(p)[Len(p) - 1] \o p[Len(p)]
  <2>1. Len(p) # 0 /\ Len(p) \in 1 .. Len(p)
    BY <1>2, <1>4
  <2> QED
    BY <1>4, <2>1, FileUpTo
<1>8. p[Len(p)] = t /\ Len(p) - 1 = Len(q)
  BY <1>1, <1>2, <1>3, <1>4
<1>9. \A i \in 1 .. Len(q) : F(q)[i] \in Chars /\ F(p)[i] = F(q)[i]
  BY <1>1, <1>2, <1>3, <1>4, FilesAgree
<1>10. CASE Len(q) = 0
  <2>1. q = <<>> /\ q \in Chars /\ <<>> \o t = t
    BY <1>1, <1>2, <1>10 DEF Chars
  <2>2. AsFile(Append(lines, line)) = t
    BY <1>4, <1>6, <1>7, <1>8, <1>10
  <2> QED
    BY <1>1, <1>5, <1>10, <2>1, <2>2
<1>11. CASE Len(q) # 0
  <2>1. Len(q) \in 1 .. Len(q)
    BY <1>2, <1>11
  <2>2. AsFile(lines) = F(q)[Len(q)] /\ AsFile(lines) \in Chars
    BY <1>5, <1>9, <1>11, <2>1
  <2>3. AsFile(Append(lines, line)) = AsFile(lines) \o t
    <3>1. Len(p) # 0 /\ Len(p) # 1
      BY <1>2, <1>4, <1>11
    <3>2. AsFile(Append(lines, line)) = F(p)[Len(p) - 1] \o p[Len(p)]
      BY <1>6, <1>7, <3>1
    <3>3. F(p)[Len(q)] = F(q)[Len(q)]
      BY <1>9, <2>1
    <3> QED
      BY <1>8, <2>2, <3>2, <3>3
  <2> QED
    BY <1>1, <2>2, <2>3
<1> QED
  BY <1>10, <1>11

LEMMA NoLines == AsFile(<<>>) = <<>>
  BY DEF AsFile, FlattenSeq

-----------------------------------------------------------------------------
(* The operations of SDCard.                                                *)

CardTyped == card \in [present : BOOLEAN, detect : BOOLEAN]
FilesTyped == \A n \in DOMAIN files : files[n] \in Chars

\* If the job still has the card, it had it before; if a file is still open, it was
\* open before, at the same place.
Same(s, t) ==
    /\ t.state = "BusyPrinting" => s.state = "BusyPrinting" /\ t.file = s.file
    /\ t.file = "good" => s.file = "good" /\ t.name = s.name /\ t.size = s.size /\ t.at = s.at

LEMMA Unmounts ==
  ASSUME CardTyped, NEW s \in SDObjects
  PROVE  /\ Unmount(s) \in SDObjects /\ Mount(s) \in SDObjects
         /\ end(s) \in SDObjects /\ end(s).state = "Idle" /\ end(s).file # "good"
         /\ Mount(s).file # "good" /\ Mount(s).state = s.state /\ Mount(s).name = s.name /\ Mount(s).size = s.size /\ Mount(s).at = s.at
<1>1. card.present \in BOOLEAN
  BY DEF CardTyped
<1>2. /\ Unmount(s) \in SDObjects /\ Unmount(s).state = s.state /\ Unmount(s).name = s.name
      /\ Unmount(s).size = s.size /\ Unmount(s).at = s.at /\ Unmount(s).file # "good"
  BY DEF Unmount, SDObjects
<1>3. /\ Mount(s) \in SDObjects /\ Mount(s).state = Unmount(s).state /\ Mount(s).name = Unmount(s).name
      /\ Mount(s).size = Unmount(s).size /\ Mount(s).at = Unmount(s).at /\ Mount(s).file # "good"
  BY <1>1, <1>2 DEF Mount, SDObjects
<1>4. end(s) \in SDObjects /\ end(s).state = "Idle" /\ end(s).file # "good"
  BY <1>2 DEF end, SDObjects
<1> QED
  BY <1>2, <1>3, <1>4

LEMMA GetsState ==
  ASSUME NEW s \in SDObjects
  PROVE  /\ get_state(s) \in SDObjects
         /\ Same(s, get_state(s))
         /\ get_state(s).state = "BusyPrinting" => get_state(s) = s
  BY DEF get_state, SDObjects, Same

LEMMA Closes ==
  ASSUME CardTyped, NEW s \in SDObjects
  PROVE  closeFile(s) \in SDObjects /\ closeFile(s).state = "Idle" /\ closeFile(s).file # "good"
<1> DEFINE idle == [s EXCEPT !.state = "Idle", !.ready = FALSE]
           closed == [idle EXCEPT !.file = "closed"]
<1>1. idle \in SDObjects /\ idle.state = "Idle" /\ idle.file = s.file
  BY DEF SDObjects
<1>2. closed \in SDObjects
  BY <1>1 DEF SDObjects
<1>3. end(closed) \in SDObjects /\ end(closed).state = "Idle" /\ end(closed).file # "good"
  <2> HIDE DEF closed
  <2> QED
    BY <1>2, Unmounts
<1>4. closeFile(s) = IF s.file = "closed" THEN idle ELSE end(closed)
  BY DEF closeFile
<1> QED
  BY <1>1, <1>3, <1>4

LEMMA Begins ==
  ASSUME CardTyped, NEW s \in SDObjects,
         NEW state \in {"BusyUploading", "BusyParsing", "BusyWriting", "BusyReading"}
  PROVE  /\ begin(s, state).sd \in SDObjects
         /\ Same(s, begin(s, state).sd)
         /\ begin(s, state).was = "Idle" => /\ begin(s, state).sd.state = state /\ s.state # "BusyPrinting"
                                             /\ begin(s, state).sd.file # "good"
<1> DEFINE taken == [Mount(s) EXCEPT !.state = state]
           gone == [Mount(s) EXCEPT !.state = "NotPresent"]
<1>1. Mount(s) \in SDObjects /\ Mount(s).file # "good"
  BY Unmounts
<1>2. taken \in SDObjects /\ taken.state = state /\ gone \in SDObjects /\ gone.state = "NotPresent"
      /\ taken.file # "good" /\ gone.file # "good"
  BY <1>1 DEF SDObjects, Busy
<1>3. get_state(s) \in SDObjects /\ Same(s, get_state(s)) /\ Same(s, s)
  BY GetsState DEF Same
<1> HIDE DEF taken, gone
<1>4. Same(s, taken) /\ Same(s, gone)
  BY <1>2 DEF Same
<1>5. CASE Undetected
  BY <1>3, <1>5 DEF begin
<1>6. CASE ~Undetected /\ s.state \in Busy
  BY <1>3, <1>6 DEF begin, Busy
<1>7. CASE ~Undetected /\ s.state \notin Busy /\ card.present
  <2>1. begin(s, state) = [sd |-> taken, was |-> "Idle"]
    BY <1>7 DEF begin, taken
  <2>2. s.state # "BusyPrinting"
    BY <1>7 DEF Busy
  <2> QED
    BY <1>2, <1>4, <2>1, <2>2
<1>8. CASE ~Undetected /\ s.state \notin Busy /\ ~card.present
  <2>1. begin(s, state) = [sd |-> gone, was |-> "NotPresent"]
    BY <1>8 DEF begin, gone
  <2> QED
    BY <1>2, <1>4, <2>1
<1> QED
  BY <1>5, <1>6, <1>7, <1>8

\* Every answer but these ends the job.
LEMMA Reports ==
  ASSUME CardTyped, NEW s \in SDObjects, NEW answer
  PROVE  /\ Report(s, answer) \in SDObjects
         /\ Same(s, Report(s, answer))
         /\ answer \notin {"ok", "unsupported"} => Report(s, answer).state # "BusyPrinting"
<1> DEFINE t == get_state(s)
           next == [t EXCEPT !.ready = TRUE]
<1>1. t \in SDObjects /\ Same(s, t)
  BY GetsState
<1> HIDE DEF t
<1>2. next \in SDObjects /\ Same(t, next)
  BY <1>1 DEF SDObjects, Same
<1>3. closeFile(t) \in SDObjects /\ closeFile(t).state = "Idle" /\ closeFile(t).file # "good"
  BY <1>1, Closes
<1> HIDE DEF next
<1>4. Same(s, next) /\ Same(s, closeFile(t))
  BY <1>1, <1>2, <1>3 DEF Same
<1>5. Report(s, answer) = IF t.state # "BusyPrinting" THEN t
                          ELSE IF answer \in {"ok", "unsupported"} THEN next ELSE closeFile(t)
  <2>1. CASE t.state # "BusyPrinting"
    BY <2>1 DEF Report, t
  <2>2. CASE t.state = "BusyPrinting" /\ answer \in {"ok", "unsupported"}
    BY <2>2 DEF Report, t, next
  <2>3. CASE t.state = "BusyPrinting" /\ answer \notin {"ok", "unsupported"}
    BY <2>3 DEF Report, t
  <2> QED
    BY <2>1, <2>2, <2>3
<1> QED
  BY <1>1, <1>2, <1>3, <1>4, <1>5

LEMMA Aborts ==
  ASSUME CardTyped, NEW s \in SDObjects
  PROVE  /\ protocol_abort(s) \in SDObjects /\ protocol_abort(s).state # "BusyPrinting"
         /\ Same(s, protocol_abort(s))
<1>1. CASE Printing(s)
  BY <1>1, Closes DEF protocol_abort, Same
<1>2. CASE ~Printing(s)
  BY <1>2, GetsState DEF protocol_abort, Printing
<1> QED
  BY <1>1, <1>2

\* Only a file that is there is opened, and then from its beginning.
LEMMA Opens ==
  ASSUME CardTyped, FilesTyped, sd \in SDObjects, NEW name \in Names \cup {"none"}
  PROVE  LET o == openSDFile(name) IN
         /\ o.sd \in SDObjects
         /\ ~o.ok => Same(sd, o.sd)
         /\ o.ok => /\ sd.state # "BusyPrinting" /\ o.sd.file = "good" /\ name \in DOMAIN files
                    /\ o.sd.name = name /\ o.sd.size = Len(files[name]) /\ o.sd.at = 0
<1> DEFINE b == begin(sd, "BusyReading")
           o == openFile(b.sd, name)
           open == [b.sd EXCEPT !.file = "good", !.name = name, !.size = Len(files[name]), !.at = 0,
                                !.state = "BusyPrinting", !.ready = FALSE]
           closed == [b.sd EXCEPT !.file = "closed"]
<1>1. b.sd \in SDObjects /\ Same(sd, b.sd)
      /\ (b.was = "Idle" => b.sd.state = "BusyReading" /\ sd.state # "BusyPrinting")
  BY Begins
<1>2. openSDFile(name) = IF b.was # "Idle" THEN [sd |-> b.sd, ok |-> FALSE]
                         ELSE [sd |-> o, ok |-> o.file = "good"]
  BY DEF openSDFile
<1>3. o = IF Exists(b.sd, name) THEN open ELSE closed
  BY DEF openFile
<1> HIDE DEF b
<1>4. closed \in SDObjects /\ closed.state = b.sd.state /\ closed.file = "closed"
  BY <1>1 DEF SDObjects
<1>5. ASSUME Exists(b.sd, name)
      PROVE  /\ open \in SDObjects /\ name \in DOMAIN files
             /\ open.file = "good" /\ open.name = name /\ open.size = Len(files[name]) /\ open.at = 0
  <2>1. name \in DOMAIN files /\ Len(files[name]) \in Nat
    BY <1>5 DEF Exists, FilesTyped, Chars
  <2> QED
    BY <1>1, <2>1 DEF SDObjects, Busy
<1> HIDE DEF o, open, closed
<1>6. CASE b.was # "Idle"
  BY <1>1, <1>2, <1>6
<1>7. CASE b.was = "Idle" /\ ~Exists(b.sd, name)
  <2>1. openSDFile(name) = [sd |-> closed, ok |-> FALSE]
    BY <1>2, <1>3, <1>4, <1>7
  <2> QED
    BY <1>1, <1>4, <1>7, <2>1 DEF Same
<1>8. CASE b.was = "Idle" /\ Exists(b.sd, name)
  <2>1. openSDFile(name) = [sd |-> open, ok |-> TRUE]
    BY <1>2, <1>3, <1>5, <1>8
  <2> QED
    BY <1>1, <1>5, <1>8, <2>1
<1> QED
  BY <1>6, <1>7, <1>8

LEMMA Reopens ==
  ASSUME CardTyped, FilesTyped, NEW s \in SDObjects
  PROVE  LET again == prhReOpenSDFile(s) IN
         /\ again \in SDObjects /\ again.state = s.state /\ again.name = s.name /\ again.at = s.at
         /\ again.file = "good" => again.name \in DOMAIN files /\ again.size = Len(files[again.name])
<1> DEFINE c == [s EXCEPT !.file = "closed"]
           m == Mount(c)
           open == [m EXCEPT !.file = "good", !.size = Len(files[s.name]), !.at = s.at]
<1>1. c \in SDObjects /\ c.state = s.state /\ c.name = s.name /\ c.at = s.at /\ c.file = "closed"
  BY DEF SDObjects
<1> HIDE DEF c
<1>2. m \in SDObjects /\ m.state = s.state /\ m.name = s.name /\ m.at = s.at
  BY <1>1, Unmounts
<1>3. m.file = "closed"
  <2>1. Unmount(c) \in SDObjects
    BY <1>1, Unmounts
  <2>2. Unmount(c).file = "closed"
    BY <1>1 DEF Unmount, SDObjects
  <2> QED
    BY <2>1, <2>2 DEF Mount, SDObjects
<1>4. prhReOpenSDFile(s) = IF Exists(m, s.name) THEN open ELSE m
  BY DEF prhReOpenSDFile, c
<1> HIDE DEF m
<1>5. ASSUME Exists(m, s.name)
      PROVE  /\ open \in SDObjects /\ open.state = s.state /\ open.name = s.name /\ open.at = s.at
             /\ open.name \in DOMAIN files /\ open.size = Len(files[open.name])
  <2>1. s.name \in DOMAIN files /\ Len(files[s.name]) \in Nat
    BY <1>5 DEF Exists, FilesTyped, Chars
  <2> QED
    BY <1>2, <2>1 DEF SDObjects
<1> HIDE DEF open
<1> QED
  BY <1>2, <1>3, <1>4, <1>5

-----------------------------------------------------------------------------
(* Steps.                                                                   *)

\* What a step does, by which both JobInv and JobTrue are kept.
JobStep ==
    /\ JobInv'
    /\ sd.state = "BusyPrinting" => InOrder'
    /\ job.outcome = "running" /\ job'.outcome = "succeeded" => Complete /\ machine # "Cycle"

\* The lines of the job stay, and no success is told.
QuietJob ==
    /\ job' \in TheJobs /\ job'.source = job.source /\ job'.ran = job.ran
    /\ job'.outcome = "succeeded" => job.outcome = "succeeded"

LEMMA NLTyped == <<"NL">> \in Chars /\ <<>> \in Chars
  BY SDJobsAssumption DEF Chars, SDJobsAssumption

LEMMA IsItsPrefix ==
  ASSUME NEW s \in Chars, NEW t \in Chars
  PROVE  IsPrefix(s, s \o t) /\ IsPrefix(s, s)
<1>1. s \o t \in Chars /\ Len(s \o t) = Len(s) + Len(t) /\ \A i \in 1 .. Len(s) : (s \o t)[i] = s[i]
  BY DEF Chars
<1>2. SubSeq(s \o t, 1, Len(s)) \in Chars /\ Len(SubSeq(s \o t, 1, Len(s))) = Len(s)
      /\ \A i \in 1 .. Len(s) : SubSeq(s \o t, 1, Len(s))[i] = (s \o t)[i]
  BY <1>1 DEF Chars
<1>3. SubSeq(s \o t, 1, Len(s)) = s
  BY <1>1, <1>2, SeqEqual DEF Chars
<1>4. SubSeq(s, 1, Len(s)) = s
  BY SubSeqFull DEF Chars
<1> QED
  BY <1>1, <1>3, <1>4 DEF IsPrefix, Chars

LEMMA PrefixOfPrefix ==
  ASSUME NEW s \in Chars, NEW t \in Chars, NEW n \in 0 .. Len(s)
  PROVE  IsPrefix(SubSeq(s, 1, n), s \o t) /\ SubSeq(s, 1, n) \in Chars
<1>1. SubSeq(s, 1, n) \in Chars /\ Len(SubSeq(s, 1, n)) = n /\ n <= Len(s \o t)
      /\ \A i \in 1 .. n : SubSeq(s, 1, n)[i] = s[i] /\ (s \o t)[i] = s[i]
  BY DEF Chars
<1>2. SubSeq(s \o t, 1, n) \in Chars /\ Len(SubSeq(s \o t, 1, n)) = n
      /\ \A i \in 1 .. n : SubSeq(s \o t, 1, n)[i] = (s \o t)[i]
  BY DEF Chars
<1>3. SubSeq(SubSeq(s, 1, n), 1, n) = SubSeq(s, 1, n)
  BY <1>1 DEF Chars
<1>4. SubSeq(s, 1, n) = SubSeq(s \o t, 1, n)
  BY <1>1, <1>2, SeqEqual DEF Chars
<1> QED
  BY <1>1, <1>3, <1>4 DEF IsPrefix

LEMMA PrefixThrough ==
  ASSUME NEW s \in Chars, NEW t \in Chars, NEW u \in Chars, IsPrefix(s \o t, u)
  PROVE  IsPrefix(s, u)
<1>1. /\ s \o t \in Chars /\ Len(s \o t) = Len(s) + Len(t) /\ Len(s) + Len(t) <= Len(u)
      /\ \A i \in 1 .. Len(s) : (s \o t)[i] = s[i]
  BY DEF IsPrefix, Chars
<1>2. SubSeq(s \o t, 1, Len(s) + Len(t)) = SubSeq(u, 1, Len(s) + Len(t))
  BY <1>1 DEF IsPrefix
<1>3. \A i \in 1 .. Len(s) + Len(t) : SubSeq(s \o t, 1, Len(s) + Len(t))[i] = (s \o t)[i]
                                      /\ SubSeq(u, 1, Len(s) + Len(t))[i] = u[i]
  BY <1>1 DEF Chars
<1>4. \A i \in 1 .. Len(s) : s[i] = u[i]
  <2> SUFFICES ASSUME NEW i \in 1 .. Len(s) PROVE s[i] = u[i]
    OBVIOUS
  <2>1. i \in 1 .. Len(s) + Len(t)
    BY DEF Chars
  <2> QED
    BY <1>1, <1>2, <1>3, <2>1
<1>5. SubSeq(u, 1, Len(s)) \in Chars /\ Len(SubSeq(u, 1, Len(s))) = Len(s)
      /\ \A i \in 1 .. Len(s) : SubSeq(u, 1, Len(s))[i] = u[i]
  BY <1>1 DEF Chars
<1>6. SubSeq(u, 1, Len(s)) = s /\ SubSeq(s, 1, Len(s)) = s
  BY <1>4, <1>5, SeqEqual DEF Chars
<1> QED
  BY <1>1, <1>6 DEF IsPrefix, Chars

LEMMA DoneTyped == ASSUME job \in TheJobs PROVE Done \in Chars
<1>1. <<>> \in Chars /\ job.ran \in Seq(Chars)
  BY NLTyped DEF TheJobs
<1> QED
  BY <1>1, LineMore DEF Done

\* Wherever the job is, what it has executed is a beginning of its file.
LEMMA PlacedInOrder == ASSUME JobInv, sd.state = "BusyPrinting" PROVE InOrder
<1> DEFINE whole == job.source \o <<"NL">>
<1>1. /\ Done \in Chars /\ job.source \in Chars /\ whole \in Chars /\ main.text \in Chars
      /\ sd.at \in 0 .. Len(job.source) /\ sd.size = Len(job.source)
      /\ ReadSoFar \in Chars /\ IsPrefix(ReadSoFar, whole)
  <2>1. Done \in Chars /\ job.source \in Chars /\ main.text \in Chars /\ <<"NL">> \in Chars
    BY NLTyped, DoneTyped DEF JobInv, JobsTyped, TheJobs, Mains
  <2>2. sd.at \in 0 .. Len(job.source) /\ sd.size = Len(job.source)
    BY DEF JobInv, JobsTyped, SDObjects, FileKept, OpenKept
  <2>3. whole \in Chars
    BY <2>1 DEF Chars
  <2> QED
    BY <2>1, <2>2, <2>3, PrefixOfPrefix DEF ReadSoFar
<1>2. IsPrefix(whole, whole) /\ IsPrefix(job.source, whole)
  BY <1>1, IsItsPrefix, NLTyped
<1>3. IsPrefix(Done, whole)
  <2>1. CASE Done = ReadSoFar \/ Done = whole \/ Done = job.source
    BY <1>1, <1>2, <2>1
  <2>2. CASE Done \o main.text = ReadSoFar \/ Done \o main.text = job.source
    <3>1. \A u \in Chars : IsPrefix(Done \o main.text, u) => IsPrefix(Done, u)
      BY <1>1, PrefixThrough
    <3>2. IsPrefix(ReadSoFar, whole) /\ IsPrefix(job.source, whole)
      BY <1>1, <1>2
    <3> HIDE DEF whole
    <3> QED
      BY <1>1, <2>2, <3>1, <3>2
  <2>3. CASE (Done \o main.text) \o <<"NL">> = ReadSoFar
    <3>1. Done \o main.text \in Chars
      BY <1>1 DEF Chars
    <3>2. IsPrefix(Done \o main.text, whole)
      BY <1>1, <2>3, <3>1, PrefixThrough, NLTyped
    <3> QED
      BY <1>1, <3>2, PrefixThrough
  <2>4. CASE Done \o <<"NL">> = job.source
    BY <1>1, <1>2, <2>4, PrefixThrough, NLTyped
  <2> QED
    BY <2>1, <2>2, <2>3, <2>4 DEF JobInv, InPlace, Complete, Done
<1> QED
  BY <1>3 DEF JobInv, JobsTyped, TheJobs, InOrder, Done

\* A step that neither reads nor executes a line of the job.
LEMMA Quietly ==
  ASSUME JobInv, JobsTyped', Same(sd, sd'), QuietJob,
         main.at \notin {"read", "eof"}, ~AtHand, main'.at \notin {"read", "eof"}, ~AtHand',
         sd'.file = "good" => files' = files,
         main'.at # "upload"
  PROVE  JobStep
<1>1. sd.state = "BusyPrinting" => InOrder'
  BY PlacedInOrder DEF QuietJob, InOrder
<1>2. JobInv'
  <2>1. ASSUME sd'.state = "BusyPrinting"
        PROVE  FileKept' /\ InPlace' /\ \A i \in DOMAIN job'.ran : job'.ran[i] \notin RefusedLines
    <3>1. FileKept /\ InPlace /\ \A i \in DOMAIN job.ran : job.ran[i] \notin RefusedLines
      BY <2>1 DEF Same, JobInv
    <3>2. FileKept'
      BY <2>1, <3>1 DEF Same, FileKept, QuietJob
    <3>3. InPlace'
      <4>1. Done = ReadSoFar \/ (AllRead /\ Done = job.source \o <<"NL">>)
        BY <3>1 DEF InPlace
      <4>2. Done' = Done /\ ReadSoFar' = ReadSoFar /\ (AllRead => AllRead') /\ job'.source = job.source
        BY <2>1, <3>2 DEF FileKept, Same, Done, ReadSoFar, AllRead, QuietJob
      <4> QED
        BY <4>1, <4>2 DEF InPlace
    <3> QED
      BY <3>1, <3>2, <3>3 DEF QuietJob
  <2>2. OpenKept'
    BY DEF JobInv, OpenKept, Same
  <2> QED
    BY <2>1, <2>2 DEF JobInv
<1> QED
  BY <1>1, <1>2 DEF JobStep, QuietJob

\* A step with which the job loses the card, or that none has.
LEMMA Over ==
  ASSUME JobInv, JobsTyped', Same(sd, sd'), sd'.state # "BusyPrinting", QuietJob,
         sd'.file = "good" => files' = files,
         main'.at # "read", main'.at = "upload" => sd'.state = "BusyUploading" /\ sd'.file # "good"
  PROVE  JobStep
<1>1. sd.state = "BusyPrinting" => InOrder'
  BY PlacedInOrder DEF QuietJob, InOrder
<1>2. OpenKept'
  BY DEF JobInv, OpenKept, Same
<1> QED
  BY <1>1, <1>2 DEF JobStep, QuietJob, JobInv

LEMMA Goes ==
  ASSUME NEW at \in Places, Go(at)
  PROVE  /\ main' \in Mains /\ main'.at = at /\ main'.text = <<>> /\ ~AtHand'
         /\ main'.caller = "none" /\ main'.command.kind = "none"
<1>1. main' = [at |-> at, caller |-> "none", command |-> [kind |-> "none", name |-> "none"],
               text |-> <<>>, tries |-> 0]
  BY DEF Go, Main0
<1>2. <<>> \in Chars
  BY NLTyped
<1> QED
  BY <1>1, <1>2 DEF Mains, AtHand

LEMMA Tells ==
  ASSUME job \in TheJobs, NEW s, NEW answer
  PROVE  LET told == Told(s, answer) IN
         /\ told \in TheJobs /\ told.source = job.source /\ told.ran = job.ran
         /\ told.outcome = "succeeded" => job.outcome = "succeeded" \/ (answer = "eof" /\ Printing(s))
  BY DEF Told, TheJobs

LEMMA Cancels ==
  ASSUME job \in TheJobs, NEW s
  PROVE  LET canceled == Canceled(s) IN
         /\ canceled \in TheJobs /\ canceled.source = job.source /\ canceled.ran = job.ran
         /\ canceled.outcome = "succeeded" => job.outcome = "succeeded"
  BY DEF Canceled, TheJobs

LEMMA SameThrough ==
  ASSUME NEW s, NEW t, NEW u, Same(s, t), Same(t, u)
  PROVE  Same(s, u)
  BY DEF Same

LEMMA Answers ==
  ASSUME CardTyped, job \in TheJobs, NEW s \in SDObjects, NEW answer, answer # "eof", Answer(s, answer)
  PROVE  sd' \in SDObjects /\ Same(s, sd') /\ QuietJob
<1>1. sd' \in SDObjects /\ Same(s, sd')
  BY Reports DEF Answer
<1>2. job' = Told(s, answer)
  BY DEF Answer
<1> QED
  BY <1>1, <1>2, Tells DEF QuietJob

\* No line of the job is at hand, and none is read.
Restful == main.at \notin {"read", "eof"} /\ ~AtHand

LEMMA Typed == ASSUME JobInv
               PROVE  /\ CardTyped /\ FilesTyped /\ sd \in SDObjects /\ main \in Mains
                      /\ upload \in TheUploads /\ job \in TheJobs
  BY DEF JobInv, JobsTyped, CardTyped, FilesTyped

LEMMA CommandReturns ==
  ASSUME JobInv, Restful, NEW s \in SDObjects, Same(sd, s), NEW answer \in {"ok", "error"},
         Return(s, answer), UNCHANGED <<card, upload>>, FilesTyped',
         s.file = "good" => files' = files
  PROVE  JobStep
<1> USE Typed
<1>1. sd' \in SDObjects /\ Same(s, sd') /\ QuietJob
  <2>1. CASE main.caller = "client"
    BY <2>1, Answers DEF Return
  <2>2. CASE main.caller # "client"
    BY <2>2 DEF Return, Same, QuietJob
  <2> QED
    BY <2>1, <2>2
<1>2. main' \in Mains /\ main'.at \in {"clients", "job"} /\ ~AtHand'
  BY Goes DEF Return, Places
<1>3. JobsTyped'
  BY <1>1, <1>2 DEF JobsTyped, CardTyped, FilesTyped, QuietJob
<1>4. Same(sd, sd') /\ (sd'.file = "good" => files' = files)
  BY <1>1, SameThrough DEF Same
<1> QED
  BY <1>1, <1>2, <1>3, <1>4, Quietly DEF Restful

LEMMA CommandsKeepJob ==
  ASSUME JobInv, Move \/ Unlock \/ showSDFile \/ deleteSDObject \/ listSDFiles \/ FileStream
  PROVE  JobStep
<1> USE Typed
<1>1. Restful /\ UNCHANGED <<card, upload>> /\ main.command.name \in Names \cup {"none"}
  BY DEF Move, Unlock, showSDFile, deleteSDObject, listSDFiles, FileStream, Running, Unchanged,
         Restful, AtHand, Mains
<1>2. Same(sd, sd)
  BY DEF Same
<1>3. CASE Move \/ Unlock
  <2>1. Return(sd, "ok") /\ files' = files
    BY <1>3 DEF Move, Unlock
  <2> QED
    BY <1>1, <1>2, <2>1, CommandReturns DEF FilesTyped
<1>4. CASE showSDFile
  <2> DEFINE o == openSDFile(main.command.name)
  <2>1. files' = files /\ FilesTyped'
    BY <1>4 DEF showSDFile, FilesTyped
  <2>2. o.sd \in SDObjects /\ (~o.ok => Same(sd, o.sd))
    BY <1>1, Opens
  <2>3. closeFile(o.sd) \in SDObjects /\ Same(sd, closeFile(o.sd))
    <3> HIDE DEF o
    <3> QED
      BY <2>2, Closes DEF Same
  <2>4. Return(sd, "error") \/ (~o.ok /\ Return(o.sd, "error")) \/ Return(closeFile(o.sd), "ok")
    BY <1>4 DEF showSDFile
  <2> HIDE DEF o
  <2> QED
    BY <1>1, <1>2, <2>1, <2>2, <2>3, <2>4, CommandReturns
<1>5. CASE deleteSDObject
  <2> DEFINE b == begin(sd, "BusyWriting")
  <2>1. b.sd \in SDObjects /\ Same(sd, b.sd)
    BY Begins
  <2>2. end(b.sd) \in SDObjects /\ end(b.sd).file # "good" /\ Same(sd, end(b.sd))
    <3> HIDE DEF b
    <3> QED
      BY <2>1, Unmounts DEF Same
  <2>3. \/ Return(b.sd, "ok") /\ files' = files
        \/ /\ Return(end(b.sd), "ok") \/ Return(end(b.sd), "error")
           /\ files' = files \/ files' = Without(files, {main.command.name})
    BY <1>5 DEF deleteSDObject
  <2>4. FilesTyped'
    BY <2>3 DEF FilesTyped, Without
  <2> HIDE DEF b
  <2> QED
    BY <1>1, <2>1, <2>2, <2>3, <2>4, CommandReturns
<1>6. CASE listSDFiles
  <2> DEFINE b == begin(sd, "BusyReading")
  <2>1. b.sd \in SDObjects /\ Same(sd, b.sd)
    BY Begins
  <2>2. end(b.sd) \in SDObjects /\ end(b.sd).file # "good" /\ Same(sd, end(b.sd))
    <3> HIDE DEF b
    <3> QED
      BY <2>1, Unmounts DEF Same
  <2>3. files' = files /\ (Return(b.sd, "error") \/ Return(end(b.sd), "ok"))
    BY <1>6 DEF listSDFiles
  <2>4. FilesTyped'
    BY <2>3 DEF FilesTyped
  <2> HIDE DEF b
  <2> QED
    BY <1>1, <2>1, <2>2, <2>3, <2>4, CommandReturns
<1>7. CASE FileStream
  <2> DEFINE b == begin(sd, "BusyWriting")
  <2>1. b.sd \in SDObjects /\ Same(sd, b.sd)
    BY Begins
  <2>2. end(b.sd) \in SDObjects /\ end(b.sd).file # "good" /\ Same(sd, end(b.sd))
    <3> HIDE DEF b
    <3> QED
      BY <2>1, Unmounts DEF Same
  <2>3. \/ Return(b.sd, "error") /\ files' = files
        \/ Return(end(b.sd), "ok") /\ \E c \in Uploads : files' = With(files, main.command.name, c)
    BY <1>7 DEF FileStream
  <2>4. FilesTyped'
    <3>1. CASE files' = files
      BY <3>1 DEF FilesTyped
    <3>2. ASSUME NEW c \in Uploads, files' = With(files, main.command.name, c)
          PROVE  FilesTyped'
      <4>1. c \in Chars
        BY SDJobsAssumption DEF SDJobsAssumption, Chars
      <4> QED
        BY <3>2, <4>1 DEF With, FilesTyped
    <3> QED
      BY <2>3, <3>1, <3>2
  <2> HIDE DEF b
  <2> QED
    BY <1>1, <2>1, <2>2, <2>3, <2>4, CommandReturns
<1> QED
  BY <1>3, <1>4, <1>5, <1>6, <1>7

LEMMA QuietTyped ==
  ASSUME JobInv, sd' \in SDObjects, main' \in Mains, QuietJob, upload' \in TheUploads, FilesTyped',
         card' = card
  PROVE  JobsTyped'
  BY Typed DEF JobsTyped, CardTyped, FilesTyped, QuietJob

LEMMA LoopKeepsJob ==
  ASSUME JobInv,
         NoClient \/ ClientLine \/ Overflow \/ NoRequest \/ WebCommand
         \/ (PollJob /\ ~sd.ready) \/ Bail \/ (GoOn /\ ~AtHand)
  PROVE  JobStep
<1> USE Typed
<1>1. UNCHANGED <<card, files, upload>> /\ FilesTyped' /\ upload' \in TheUploads
  BY DEF NoClient, ClientLine, Overflow, NoRequest, WebCommand, PollJob, Bail, GoOn, FilesTyped
<1>2. CASE Bail
  <2>1. sd' = protocol_abort(sd) /\ job' = Canceled(sd) /\ Go("clients")
    BY <1>2 DEF Bail
  <2>2. /\ sd' \in SDObjects /\ sd'.state # "BusyPrinting" /\ Same(sd, sd') /\ QuietJob
        /\ main' \in Mains /\ main'.at = "clients"
    BY <2>1, Aborts, Cancels, Goes DEF QuietJob, Places
  <2> QED
    BY <1>1, <2>2, QuietTyped, Over
<1>3. CASE ~Bail
  <2>1. Restful
    BY <1>3 DEF NoClient, ClientLine, Overflow, NoRequest, WebCommand, PollJob, GoOn, Restful, AtHand
  <2>2. sd' \in SDObjects /\ Same(sd, sd') /\ QuietJob
    <3>1. CASE Overflow
      <4>1. Answer(sd, "error")
        BY <3>1 DEF Overflow
      <4> QED
        BY <4>1, Answers
    <3>2. CASE ClientLine
      BY <3>2, GetsState DEF ClientLine, QuietJob
    <3>3. CASE ~Overflow /\ ~ClientLine
      <4>1. UNCHANGED <<sd, job>>
        BY <1>3, <3>3 DEF NoClient, NoRequest, WebCommand, PollJob, GoOn
      <4> QED
        BY <4>1 DEF Same, QuietJob
    <3> QED
      BY <3>1, <3>2, <3>3
  <2>3. main' \in Mains /\ main'.at \notin {"read", "eof", "upload"} /\ ~AtHand'
    <3>1. ASSUME NEW at \in {"web", "job", "loop", "clients"}, Go(at)
          PROVE  main' \in Mains /\ main'.at \notin {"read", "eof", "upload"} /\ ~AtHand'
      <4>1. at \in Places
        BY DEF Places
      <4> QED
        BY <3>1, <4>1, Goes
    <3>2. ASSUME NEW c \in Commands, NEW at \in {"line", "run"}, NEW caller \in {"client", "web"},
                 main' = [main EXCEPT !.at = at, !.caller = caller, !.command = c]
          PROVE  main' \in Mains /\ main'.at \notin {"read", "eof", "upload"} /\ ~AtHand'
      <4>1. /\ c \in [kind : Requests \cup {"none", "line"}, name : Names \cup {"none"}]
            /\ c.kind # "line"
        BY DEF Commands
      <4> QED
        BY <3>2, <4>1 DEF Mains, Places, AtHand
    <3>3. CASE NoClient \/ Overflow \/ NoRequest \/ (PollJob /\ ~sd.ready)
      BY <3>1, <3>3 DEF NoClient, Overflow, NoRequest, PollJob
    <3>4. CASE ClientLine
      BY <3>1, <3>2, <3>4 DEF ClientLine
    <3>5. CASE WebCommand
      BY <3>2, <3>5 DEF WebCommand
    <3>6. CASE GoOn /\ ~AtHand
      <4>1. CASE main.at = "line"
        <5>1. main' = [main EXCEPT !.at = "run"]
          BY <3>6, <4>1 DEF GoOn
        <5> QED
          BY <3>6, <4>1, <5>1 DEF Mains, Places, AtHand
      <4>2. CASE main.at # "line"
        BY <3>1, <3>6, <4>2 DEF GoOn
      <4> QED
        BY <4>1, <4>2
    <3> QED
      BY <1>3, <3>3, <3>4, <3>5, <3>6
  <2>4. JobsTyped'
    BY <1>1, <2>2, <2>3, QuietTyped
  <2> QED
    BY <1>1, <2>1, <2>2, <2>3, <2>4, Quietly DEF Restful
<1> QED
  BY <1>2, <1>3

LEMMA WebFails ==
  ASSUME JobInv, NEW s \in SDObjects, UploadFailed(s)
  PROVE  /\ sd' \in SDObjects /\ sd'.state = "Idle" /\ sd'.file # "good" /\ FilesTyped'
         /\ main' \in Mains /\ main'.at = "answer"
<1> USE Typed
<1>1. sd' = end(s) /\ Go("answer")
  BY DEF UploadFailed
<1>2. sd' \in SDObjects /\ sd'.state = "Idle" /\ sd'.file # "good" /\ main' \in Mains /\ main'.at = "answer"
  BY <1>1, Unmounts, Goes DEF Places
<1>3. FilesTyped'
  BY DEF UploadFailed, FilesTyped, Without
<1> QED
  BY <1>2, <1>3

LEMMA UploadsKeepJob ==
  ASSUME JobInv, UploadStart \/ UploadWrite \/ UploadWriteFails \/ UploadEnd \/ UploadAborted
  PROVE  JobStep
<1> USE Typed
<1>1. card' = card /\ job' = job
  BY DEF UploadStart, UploadWrite, UploadWriteFails, UploadEnd, UploadAborted
<1>2. QuietJob
  BY <1>1 DEF QuietJob
<1> SUFFICES /\ sd' \in SDObjects /\ main' \in Mains /\ upload' \in TheUploads /\ FilesTyped'
             /\ main'.at # "read" /\ sd'.file # "good"
             /\ (sd'.state = "Idle" /\ main'.at # "upload") \/ sd'.state = "BusyUploading"
  BY <1>1, <1>2, QuietTyped, Over DEF Same
<1>3. CASE UploadStart
  <2>1. PICK n \in Names, p \in Uploads, c \in Uploads, ok \in BOOLEAN :
          LET b == begin(sd, "BusyUploading")
              taken == b.was = "Idle" /\ ok
          IN  /\ upload' = [NoUpload EXCEPT !.status = IF taken THEN "ongoing" ELSE "failed",
                                            !.name = n, !.promised = p, !.sent = c]
              /\ IF taken
                 THEN sd' = b.sd /\ files' = With(files, n, <<>>) /\ Go("upload")
                 ELSE UploadFailed(b.sd)
    BY <1>3 DEF UploadStart
  <2> DEFINE b == begin(sd, "BusyUploading")
             taken == b.was = "Idle" /\ ok
  <2>2. b.sd \in SDObjects /\ (b.was = "Idle" => b.sd.state = "BusyUploading" /\ b.sd.file # "good")
    BY Begins
  <2>3. upload' = [status |-> IF taken THEN "ongoing" ELSE "failed", name |-> n, promised |-> p, sent |-> c,
                   at |-> 0, tries |-> 0]
    BY <2>1 DEF NoUpload
  <2>4. p \in Chars /\ c \in Chars /\ <<>> \in Chars
    BY SDJobsAssumption, NLTyped DEF SDJobsAssumption, Chars
  <2>5. upload' \in TheUploads
    BY <2>3, <2>4 DEF TheUploads
  <2>6. CASE taken
    <3>1. sd' = b.sd /\ files' = With(files, n, <<>>) /\ Go("upload")
      BY <2>1, <2>6
    <3>2. FilesTyped'
      BY <2>4, <3>1 DEF With, FilesTyped
    <3>3. main' \in Mains /\ main'.at = "upload"
      BY <3>1, Goes DEF Places
    <3>4. sd' \in SDObjects /\ sd'.state = "BusyUploading" /\ sd'.file # "good"
      BY <2>2, <2>6, <3>1
    <3> QED
      BY <2>5, <3>2, <3>3, <3>4
  <2>7. CASE ~taken
    <3>1. UploadFailed(b.sd)
      BY <2>1, <2>7
    <3> HIDE DEF b
    <3> QED
      BY <2>2, <2>5, <3>1, WebFails
  <2> QED
    BY <2>6, <2>7
<1>4. CASE UploadWrite
  <2>1. UNCHANGED <<sd, main>> /\ main.at = "upload" /\ upload.at < Len(upload.sent)
    BY <1>4 DEF UploadWrite, Uploading
  <2>2. upload.sent \in Chars /\ upload.at \in Nat /\ upload.sent[upload.at + 1] \in Characters \cup {"junk"}
    BY <2>1 DEF TheUploads, Chars
  <2>3. upload' \in TheUploads
    <3>1. upload' = [upload EXCEPT !.at = upload.at + 1, !.tries = 0]
      BY <1>4 DEF UploadWrite
    <3>2. upload.at + 1 \in Nat
      BY <2>2
    <3>3. upload \in TheUploads
      OBVIOUS
    <3> QED
      BY ONLY <3>1, <3>2, <3>3 DEF TheUploads
  <2>4. \A f \in Chars : Append(f, upload.sent[upload.at + 1]) \in Chars
    BY <2>2 DEF Chars
  <2>5. FilesTyped'
    BY <1>4, <2>4 DEF UploadWrite, FilesTyped
  <2> QED
    BY <2>1, <2>3, <2>5 DEF JobInv
<1>5. CASE UploadWriteFails
  <2>1. main.at = "upload"
    BY <1>5 DEF UploadWriteFails, Uploading
  <2>2. CASE upload.tries < MaxRetries /\ Writable
    <3>1. /\ files' = [files EXCEPT ![upload.name] = [i \in 1 .. upload.at |-> "junk"]]
          /\ upload' = [upload EXCEPT !.tries = @ + 1]
          /\ UNCHANGED <<sd, main>>
      BY <1>5, <2>2 DEF UploadWriteFails
    <3>2. [i \in 1 .. upload.at |-> "junk"] \in [1 .. upload.at -> Characters \cup {"junk"}] /\ upload.at \in Nat
      BY DEF TheUploads
    <3>3. [i \in 1 .. upload.at |-> "junk"] \in Chars
      BY <3>2 DEF Chars
    <3>4. upload' \in TheUploads /\ FilesTyped'
      BY <3>1, <3>3 DEF TheUploads, FilesTyped
    <3> QED
      BY <2>1, <3>1, <3>4 DEF JobInv
  <2>3. CASE ~(upload.tries < MaxRetries /\ Writable)
    <3>1. upload' = [upload EXCEPT !.status = "failed"] /\ UploadFailed(sd)
      BY <1>5, <2>3 DEF UploadWriteFails
    <3>2. upload' \in TheUploads
      BY <3>1 DEF TheUploads
    <3> QED
      BY <3>1, <3>2, WebFails
  <2> QED
    BY <2>2, <2>3
<1>6. CASE UploadEnd
  <2>1. CASE upload' = [upload EXCEPT !.status = "successful"] /\ sd' = end(sd) /\ Go("answer") /\ files' = files
    <3>1. upload' \in TheUploads /\ FilesTyped'
      BY <2>1 DEF TheUploads, FilesTyped
    <3>2. sd' \in SDObjects /\ sd'.state = "Idle" /\ sd'.file # "good" /\ main' \in Mains /\ main'.at = "answer"
      BY <2>1, Unmounts, Goes DEF Places
    <3> QED
      BY <3>1, <3>2
  <2>2. CASE upload' = [upload EXCEPT !.status = "failed"] /\ UploadFailed(sd)
    <3>1. upload' \in TheUploads
      BY <2>2 DEF TheUploads
    <3> QED
      BY <2>2, <3>1, WebFails
  <2> QED
    BY <1>6, <2>1, <2>2 DEF UploadEnd
<1>7. CASE UploadAborted
  <2>1. upload' = [NoUpload EXCEPT !.status = "failed"] /\ sd' = end(sd) /\ Go("job") /\ files' = files
    BY <1>7 DEF UploadAborted
  <2>2. sd' \in SDObjects /\ sd'.state = "Idle" /\ sd'.file # "good" /\ main' \in Mains /\ main'.at = "job"
    BY <2>1, Unmounts, Goes DEF Places
  <2>3. upload' \in TheUploads /\ FilesTyped'
    BY <2>1, NLTyped DEF TheUploads, FilesTyped, NoUpload
  <2> QED
    BY <2>2, <2>3
<1> QED
  BY <1>3, <1>4, <1>5, <1>6, <1>7

LEMMA RequestsKeepJob ==
  ASSUME JobInv, Download \/ handle_direct_SDFileList
  PROVE  JobStep
<1> USE Typed
<1>1. card' = card /\ QuietJob /\ Restful /\ Go("job")
  BY DEF Download, handle_direct_SDFileList, QuietJob, Restful, AtHand
<1>2. main' \in Mains /\ main'.at = "job" /\ ~AtHand'
  BY <1>1, Goes DEF Places
<1>3. /\ sd' \in SDObjects /\ Same(sd, sd') /\ upload' \in TheUploads /\ FilesTyped'
      /\ sd'.file = "good" => files' = files
  <2>1. CASE Download
    <3> DEFINE s == begin(sd, "BusyUploading").sd
    <3>1. s \in SDObjects /\ Same(sd, s)
      BY Begins
    <3>2. end(s) \in SDObjects /\ end(s).file # "good" /\ Same(sd, end(s))
      <4> HIDE DEF s
      <4> QED
        BY <3>1, Unmounts DEF Same
    <3>3. (sd' = end(s) \/ sd' = s) /\ UNCHANGED <<files, upload>>
      BY <2>1 DEF Download
    <3> HIDE DEF s
    <3> QED
      BY <3>1, <3>2, <3>3 DEF FilesTyped
  <2>2. CASE handle_direct_SDFileList
    <3> DEFINE b == begin(sd, "BusyParsing")
    <3>1. b.sd \in SDObjects /\ Same(sd, b.sd)
      BY Begins
    <3>2. end(b.sd) \in SDObjects /\ end(b.sd).file # "good" /\ Same(sd, end(b.sd))
      <4> HIDE DEF b
      <4> QED
        BY <3>1, Unmounts DEF Same
    <3>3. upload' = NoUpload /\ (\/ sd' = b.sd /\ files' = files
                                 \/ sd' = end(b.sd) /\ \E names : files' = Without(files, names))
      BY <2>2 DEF handle_direct_SDFileList
    <3>4. upload' \in TheUploads
      BY <3>3, NLTyped DEF NoUpload, TheUploads
    <3>5. FilesTyped'
      BY <3>3 DEF FilesTyped, Without
    <3> HIDE DEF b
    <3> QED
      BY <3>1, <3>2, <3>3, <3>4, <3>5
  <2> QED
    BY <2>1, <2>2
<1> QED
  BY <1>1, <1>2, <1>3, QuietTyped, Quietly DEF Restful

-----------------------------------------------------------------------------
(* Lines of a job are read.                                                 *)

\* What the job's object is while a line is read.
HasFile(s) ==
    s \in SDObjects /\ (s.file = "good" => s.name \in DOMAIN files /\ s.size = Len(files[s.name]))

Reads(s) ==
    /\ HasFile(s)
    /\ s.state = "BusyPrinting"
       => /\ sd.state = "BusyPrinting" /\ s.file = "good" /\ files[s.name] = job.source
          /\ s.at <= s.size

LEMMA ReadsNow == ASSUME JobInv PROVE Reads(sd) /\ HasFile(sd)
  BY Typed DEF Reads, HasFile, JobInv, OpenKept, FileKept

LEMMA ReadTyped ==
  ASSUME JobInv, sd' \in SDObjects, main' \in Mains, job' \in TheJobs, UNCHANGED <<card, files, upload>>
  PROVE  JobsTyped'
  BY Typed DEF JobsTyped, CardTyped, FilesTyped

LEMMA ReadOpen ==
  ASSUME NEW s, HasFile(s), Same(s, sd'), UNCHANGED files
  PROVE  OpenKept'
  BY DEF Same, HasFile, OpenKept

LEMMA PollsJob ==
  ASSUME JobInv, (PollJob /\ sd.ready) \/ (GoOn /\ AtHand)
  PROVE  JobStep
<1> USE Typed
<1>1. UNCHANGED <<card, files, sd, upload, machine, job>> /\ QuietJob /\ FilesTyped'
  BY DEF PollJob, GoOn, QuietJob, FilesTyped
<1>2. sd.state = "BusyPrinting" => InOrder'
  BY <1>1, PlacedInOrder DEF InOrder
<1>3. CASE PollJob /\ sd.ready
  <2>1. main' = Reading("job") /\ main.at = "job"
    BY <1>3 DEF PollJob
  <2>2. main' = [at |-> "read", caller |-> "job", command |-> [kind |-> "none", name |-> "none"],
                 text |-> <<>>, tries |-> 0]
    BY <2>1 DEF Reading, Main0
  <2>3. main' \in Mains /\ main'.at = "read" /\ main'.caller = "job" /\ main'.text = <<>> /\ ~AtHand'
    BY <2>2, NLTyped DEF Mains, Places, AtHand
  <2>4. JobsTyped'
    BY <1>1, <2>3, QuietTyped
  <2>5. sd.state = "BusyPrinting" => InPlace'
    <3> HAVE sd.state = "BusyPrinting"
    <3>1. Done = ReadSoFar \/ (AllRead /\ Done = job.source \o <<"NL">>)
      BY <2>1 DEF JobInv, InPlace, AtHand
    <3>2. Done \o <<>> = Done
      BY DoneTyped, ConcatEmptySeq DEF Chars
    <3>3. Done' = Done /\ ReadSoFar' = ReadSoFar /\ AllRead' = AllRead
      BY <1>1 DEF Done, ReadSoFar, AllRead
    <3>4. main'.text = <<>> /\ job'.source = job.source /\ Done' \o <<>> = Done'
      BY <1>1, <2>3, <3>2, <3>3
    <3>5. \/ Done' \o main'.text = ReadSoFar'
          \/ main'.text = <<>> /\ AllRead' /\ Done' = job'.source \o <<"NL">>
      BY <3>1, <3>3, <3>4
    <3> QED
      BY <2>3, <3>5 DEF InPlace
  <2>6. JobInv'
    BY <1>1, <2>3, <2>4, <2>5 DEF JobInv, OpenKept, FileKept
  <2> QED
    BY <1>1, <1>2, <2>6 DEF JobStep
<1>4. CASE GoOn /\ AtHand
  <2>1. CASE main.at = "line"
    <3>1. main' = [main EXCEPT !.at = "run"]
      BY <1>4, <2>1 DEF GoOn
    <3>2. main' \in Mains /\ main'.at = "run" /\ main'.command = main.command /\ main'.text = main.text
      BY <3>1 DEF Mains, Places
    <3>3. JobsTyped' /\ AtHand'
      BY <1>1, <1>4, <3>2, QuietTyped DEF AtHand
    <3>4. sd.state = "BusyPrinting" => InPlace'
      <4>1. Done' = Done /\ ReadSoFar' = ReadSoFar /\ AllRead' = AllRead
        BY <1>1 DEF Done, ReadSoFar, AllRead
      <4> QED
        BY <1>1, <1>4, <3>2, <3>3, <4>1 DEF JobInv, InPlace
    <3>5. JobInv'
      BY <1>1, <3>2, <3>3, <3>4 DEF JobInv, OpenKept, FileKept
    <3> QED
      BY <1>1, <1>2, <3>5 DEF JobStep
  <2>2. CASE main.at # "line"
    BY <1>4, <2>2 DEF GoOn, AtHand
  <2> QED
    BY <2>1, <2>2
<1> QED
  BY <1>3, <1>4

LEMMA FailsToRead ==
  ASSUME JobInv, NEW s, HasFile(s), LineRead(s, "error"), UNCHANGED <<card, files, upload>>
  PROVE  JobStep
<1> USE Typed
<1>1. s \in SDObjects /\ HasFile(s)
  BY DEF Reads, HasFile
<1>2. /\ sd' \in SDObjects /\ Same(s, sd') /\ sd'.state # "BusyPrinting" /\ QuietJob
      /\ main' \in Mains /\ main'.at \in {"clients", "job", "loop"}
  <2>1. CASE main.caller # "job"
    <3>1. /\ job' = Told(s, "error")
          /\ sd' = IF main.caller = "client" THEN Report(Report(s, "error"), "ok") ELSE Report(s, "error")
          /\ Go(IF main.caller = "client" THEN "clients" ELSE "job")
      BY <2>1 DEF LineRead
    <3>2. QuietJob
      BY <3>1, Tells DEF QuietJob
    <3> DEFINE t == Report(s, "error")
               u == Report(t, "ok")
    <3>3. t \in SDObjects /\ Same(s, t) /\ t.state # "BusyPrinting"
      BY <1>1, Reports
    <3> HIDE DEF t
    <3>4. u \in SDObjects /\ Same(t, u)
      BY <3>3, Reports
    <3> HIDE DEF u
    <3>5. Same(s, u) /\ u.state # "BusyPrinting"
      BY <3>3, <3>4 DEF Same
    <3>6. sd' = t \/ sd' = u
      BY <3>1 DEF t, u
    <3>7. main' \in Mains /\ main'.at \in {"clients", "job"}
      BY <3>1, Goes DEF Places
    <3> QED
      BY <3>2, <3>3, <3>4, <3>5, <3>6, <3>7
  <2>2. CASE main.caller = "job"
    <3>1. Answer(s, "error") /\ Go("loop")
      BY <2>2 DEF LineRead
    <3>2. QuietJob /\ main' \in Mains /\ main'.at = "loop"
      BY <1>1, <3>1, Answers, Goes DEF Places
    <3> QED
      BY <1>1, <3>1, <3>2, Reports DEF Answer
  <2> QED
    BY <2>1, <2>2
<1>3. FilesTyped' /\ JobsTyped'
  BY <1>2, QuietTyped DEF FilesTyped
<1>4. OpenKept'
  BY <1>2, ReadOpen
<1>5. JobInv'
  BY <1>2, <1>3, <1>4 DEF JobInv
<1>6. sd.state = "BusyPrinting" => InOrder'
  BY <1>2, PlacedInOrder DEF QuietJob, InOrder
<1> QED
  BY <1>2, <1>5, <1>6 DEF JobStep, QuietJob

\* The end of the file is read: by the job, which then waits, or by the command that
\* began it, which found no line.
LEMMA EndIsRead ==
  ASSUME JobInv, main.at = "read", NEW s, Reads(s), s.state = "BusyPrinting" => Complete,
         LineRead(s, "eof"), UNCHANGED <<card, files, upload, machine>>
  PROVE  JobStep
<1> USE Typed
<1>1. s \in SDObjects /\ HasFile(s)
  BY DEF Reads, HasFile
<1>2. CASE main.caller # "job"
  <2>1. /\ job' = Told(s, "eof")
        /\ sd' = IF main.caller = "client" THEN Report(Report(s, "eof"), "ok") ELSE Report(s, "eof")
        /\ Go(IF main.caller = "client" THEN "clients" ELSE "job")
    BY <1>2 DEF LineRead
  <2>2. /\ job' \in TheJobs /\ job'.source = job.source /\ job'.ran = job.ran
        /\ job'.outcome = "succeeded" => job.outcome = "succeeded" \/ Printing(s)
    BY <2>1, Tells
  <2> DEFINE t == Report(s, "eof")
             u == Report(t, "ok")
  <2>3. t \in SDObjects /\ Same(s, t) /\ t.state # "BusyPrinting"
    BY <1>1, Reports
  <2> HIDE DEF t
  <2>4. u \in SDObjects /\ Same(t, u)
    BY <2>3, Reports
  <2> HIDE DEF u
  <2>5. Same(s, u) /\ u.state # "BusyPrinting"
    BY <2>3, <2>4 DEF Same
  <2>6. sd' \in SDObjects /\ Same(s, sd') /\ sd'.state # "BusyPrinting"
    BY <2>1, <2>3, <2>4, <2>5 DEF t, u
  <2>7. main' \in Mains /\ main'.at \in {"clients", "job"}
    BY <2>1, Goes DEF Places
  <2>8. JobsTyped' /\ OpenKept'
    <3>1. JobsTyped'
      BY <2>2, <2>6, <2>7, ReadTyped
    <3>2. OpenKept'
      BY <1>1, <2>6, ReadOpen
    <3> QED
      BY <3>1, <3>2
  <2>9. JobInv'
    BY <2>6, <2>7, <2>8 DEF JobInv
  <2>10. sd.state = "BusyPrinting" => InOrder'
    BY <2>2, PlacedInOrder DEF InOrder
  <2>11. Printing(s) => Complete /\ machine # "Cycle"
    BY <1>1, <1>2, GetsState DEF Printing, JobInv
  <2> QED
    BY <2>2, <2>9, <2>10, <2>11 DEF JobStep
<1>3. CASE main.caller = "job"
  <2>1. sd' = s /\ Go("eof") /\ job' = job
    BY <1>3 DEF LineRead
  <2>2. main' \in Mains /\ main'.at = "eof" /\ ~AtHand' /\ QuietJob
    BY <2>1, Goes DEF Places, QuietJob
  <2>3. JobsTyped' /\ OpenKept'
    <3>1. Same(s, sd')
      BY <2>1 DEF Same
    <3> QED
      BY <1>1, <2>1, <2>2, <3>1, ReadTyped, ReadOpen
  <2>4. sd'.state = "BusyPrinting" => FileKept' /\ InPlace' /\ sd.state = "BusyPrinting"
    <3>1. Complete' <=> Complete
      BY <2>1 DEF Complete
    <3> QED
      BY <2>1, <2>2, <3>1 DEF Reads, FileKept, InPlace
  <2>5. JobInv'
    BY <2>1, <2>2, <2>3, <2>4 DEF JobInv
  <2>6. sd.state = "BusyPrinting" => InOrder'
    BY <2>1, PlacedInOrder DEF InOrder
  <2> QED
    BY <2>1, <2>5, <2>6 DEF JobStep
<1> QED
  BY <1>2, <1>3

\* A line has been read.
LEMMA LineIsRead ==
  ASSUME JobInv, main.at = "read", NEW s, Reads(s),
         s.state = "BusyPrinting"
         => \/ (Done \o main.text) \o <<"NL">> = SubSeq(job.source, 1, s.at)
            \/ s.at = s.size /\ Done \o main.text = job.source,
         LineRead(s, "ok"), UNCHANGED <<card, files, upload>>
  PROVE  JobStep
<1> USE Typed
<1>1. s \in SDObjects /\ HasFile(s)
  BY DEF Reads, HasFile
<1> DEFINE at == IF main.caller = "job" THEN "line" ELSE "run"
           command == [kind |-> "line", name |-> s.name]
<1>2. /\ sd' = IF main.caller = "job" THEN [s EXCEPT !.ready = FALSE] ELSE s
      /\ main' = [main EXCEPT !.at = at, !.command = command] /\ job' = job
  BY DEF LineRead
<1>3. /\ sd' \in SDObjects /\ sd'.state = s.state /\ sd'.file = s.file /\ sd'.name = s.name
      /\ sd'.size = s.size /\ sd'.at = s.at
  BY <1>1, <1>2 DEF SDObjects
<1>4. command \in [kind : Requests \cup {"none", "line"}, name : Names \cup {"none"}] /\ command.kind = "line"
      /\ at \in {"line", "run"}
  BY <1>1 DEF SDObjects
<1> HIDE DEF at, command
<1>5. main' \in Mains /\ main'.at \in {"line", "run"} /\ main'.text = main.text /\ AtHand'
  BY <1>2, <1>4 DEF Mains, Places, AtHand
<1>6. JobsTyped' /\ OpenKept'
  <2>1. Same(s, sd')
    BY <1>3 DEF Same
  <2> QED
    <3>1. JobsTyped'
      BY <1>2, <1>3, <1>5, ReadTyped
    <3>2. OpenKept'
      BY <1>1, <2>1, ReadOpen
    <3> QED
      BY <3>1, <3>2
<1>7. sd'.state = "BusyPrinting" => FileKept' /\ InPlace' /\ sd.state = "BusyPrinting"
  <2> HAVE sd'.state = "BusyPrinting"
  <2>1. FileKept' /\ sd.state = "BusyPrinting"
    BY <1>2, <1>3 DEF Reads, FileKept
  <2>2. Done' = Done /\ ReadSoFar' = SubSeq(job.source, 1, s.at) /\ (s.at = s.size => AllRead')
    BY <1>2, <1>3 DEF Done, ReadSoFar, AllRead
  <2>3. InPlace'
    BY <1>2, <1>3, <1>5, <2>2 DEF InPlace
  <2> QED
    BY <2>1, <2>3
<1>8. JobInv'
  BY <1>2, <1>5, <1>6, <1>7 DEF JobInv
<1>9. sd.state = "BusyPrinting" => InOrder'
  BY <1>2, PlacedInOrder DEF InOrder
<1> QED
  BY <1>2, <1>8, <1>9 DEF JobStep

\* A beginning of a file, and the one that has a character more.
LEMMA OneMore ==
  ASSUME NEW s \in Chars, NEW n \in Nat, n < Len(s)
  PROVE  SubSeq(s, 1, n + 1) = SubSeq(s, 1, n) \o <<s[n + 1]>>
<1>1. n + 1 \in 1 .. Len(s) /\ 1 \in 1 .. Len(s) /\ n + 1 \in 1 .. Len(s) /\ (n + 1) - 1 = n
  BY DEF Chars
<1> QED
  BY <1>1, SubSeqRecursiveSecond DEF Chars

LEMMA Associates ==
  ASSUME NEW s \in Chars, NEW t \in Chars, NEW u \in Chars
  PROVE  (s \o t) \o u = s \o (t \o u)
  BY ConcatAssociative DEF Chars

LEMMA ReadKeepsJob ==
  ASSUME JobInv, ReadChar \/ ReadFails \/ ReadEnds
  PROVE  JobStep
<1> USE Typed, ReadsNow
<1>1. main.at = "read" /\ UNCHANGED <<card, files, upload, machine>>
  BY DEF ReadChar, ReadFails, ReadEnds
<1>2. sd.at \in Nat /\ sd.size \in Nat /\ main.text \in Chars /\ Done \in Chars /\ job.source \in Chars
  BY DoneTyped DEF SDObjects, Mains, TheJobs
<1>3. ASSUME sd.state = "BusyPrinting"
      PROVE  /\ sd.size = Len(job.source) /\ sd.at <= sd.size /\ sd.file = "good"
             /\ files[sd.name] = job.source /\ sd.name \in DOMAIN files
             /\ \/ Done \o main.text = ReadSoFar
                \/ main.text = <<>> /\ AllRead /\ Done = job.source \o <<"NL">>
  BY <1>1, <1>3 DEF JobInv, OpenKept, FileKept, InPlace
<1>4. CASE ReadChar
  <2> DEFINE c == files[sd.name][sd.at + 1]
             s == [sd EXCEPT !.at = @ + 1]
  <2>1. sd.file = "good" /\ sd.at < sd.size
    BY <1>4 DEF ReadChar, Readable, available
  <2>2. sd.name \in DOMAIN files /\ sd.size = Len(files[sd.name]) /\ files[sd.name] \in Chars
    BY <2>1 DEF JobInv, OpenKept, FilesTyped
  <2>3. s \in SDObjects /\ s.state = sd.state /\ s.file = sd.file /\ s.name = sd.name /\ s.size = sd.size
        /\ s.at = sd.at + 1
    <3>1. sd.at + 1 \in Nat /\ sd \in SDObjects
      BY <1>2
    <3> QED
      BY ONLY <3>1 DEF SDObjects
  <2>4. Reads(s)
    <3> HIDE DEF s
    <3> QED
      BY <1>2, <1>3, <2>1, <2>2, <2>3 DEF Reads, HasFile
  <2>5. c \in Characters \cup {"junk"}
    BY <1>2, <2>1, <2>2 DEF Chars
  <2>6. sd.state = "BusyPrinting"
        => /\ c = job.source[sd.at + 1] /\ Done \o main.text = ReadSoFar
           /\ SubSeq(job.source, 1, sd.at + 1) = (Done \o main.text) \o <<c>>
    <3> HAVE sd.state = "BusyPrinting"
    <3>1. Done \o main.text = ReadSoFar /\ c = job.source[sd.at + 1] /\ sd.at < Len(job.source)
      BY <1>2, <1>3, <2>1 DEF AllRead
    <3>2. SubSeq(job.source, 1, sd.at + 1) = SubSeq(job.source, 1, sd.at) \o <<job.source[sd.at + 1]>>
      BY <1>2, <3>1, OneMore
    <3> QED
      BY <3>1, <3>2 DEF ReadSoFar
  <2>7. \/ c # "NL" /\ sd' = s /\ main' = [main EXCEPT !.text = Append(@, c)] /\ job' = job
        \/ c = "NL" /\ (main.text # <<>> \/ available(s)) /\ LineRead(s, "ok")
        \/ c = "NL" /\ ~(main.text # <<>> \/ available(s)) /\ LineRead(s, "eof")
    BY <1>4 DEF ReadChar
  <2> HIDE DEF c, s
  <2>8. CASE c # "NL" /\ sd' = s /\ main' = [main EXCEPT !.text = Append(@, c)] /\ job' = job
    <3> DEFINE text == Append(main.text, c)
    <3>1. text \in Chars /\ text = main.text \o <<c>>
      BY <1>2, <2>5 DEF Chars
    <3>2. main' = [main EXCEPT !.text = text]
      BY <2>8
    <3> HIDE DEF text
    <3>3. main' \in Mains /\ main'.at = "read" /\ main'.caller = main.caller /\ main'.text = text /\ ~AtHand'
      BY <1>1, <3>1, <3>2 DEF Mains, AtHand
    <3>4. JobsTyped'
      BY <1>1, <2>3, <2>8, <3>3, ReadTyped
    <3>5. OpenKept'
      BY <1>1, <2>4, <2>8 DEF Reads, HasFile, OpenKept
    <3>6. sd.state = "BusyPrinting" => InPlace'
      <4> HAVE sd.state = "BusyPrinting"
      <4>1. Done' = Done /\ ReadSoFar' = SubSeq(job.source, 1, sd.at + 1)
        BY <2>3, <2>8 DEF Done, ReadSoFar
      <4>2. (Done \o main.text) \o <<c>> = Done \o text
        <5>1. <<c>> \in Chars
          BY <2>5 DEF Chars
        <5> QED
          BY <1>2, <3>1, <5>1, Associates
      <4>3. Done' \o main'.text = ReadSoFar'
        BY <2>6, <3>3, <4>1, <4>2
      <4> QED
        BY <3>3, <4>3 DEF InPlace
    <3>7. JobInv'
      BY <1>1, <1>2, <1>3, <2>1, <2>3, <2>8, <3>3, <3>4, <3>5, <3>6 DEF JobInv, FileKept
    <3>8. sd.state = "BusyPrinting" => InOrder'
      BY <2>8, PlacedInOrder DEF InOrder
    <3> QED
      BY <2>8, <3>7, <3>8 DEF JobStep
  <2>9. CASE c = "NL" /\ LineRead(s, "ok")
    BY <1>1, <2>3, <2>4, <2>6, <2>9, LineIsRead
  <2>10. CASE c = "NL" /\ ~(main.text # <<>> \/ available(s)) /\ LineRead(s, "eof")
    <3>1. s.state = "BusyPrinting" => Complete
      <4> HAVE s.state = "BusyPrinting"
      <4>1. sd.at + 1 = Len(job.source) /\ main.text = <<>>
        BY <1>2, <1>3, <2>1, <2>3, <2>10 DEF available
      <4>2. Done \o main.text = Done
        BY <1>2, <4>1, ConcatEmptySeq DEF Chars
      <4>3. SubSeq(job.source, 1, sd.at + 1) = job.source
        BY <1>2, <4>1, SubSeqFull DEF Chars
      <4>4. Done \o <<"NL">> = job.source
        BY <2>3, <2>6, <2>10, <4>2, <4>3
      <4> QED
        BY <4>4 DEF Complete, Done
    <3> QED
      BY <1>1, <2>4, <2>10, <3>1, EndIsRead
  <2> QED
    BY <2>7, <2>8, <2>9, <2>10
<1>5. CASE ReadFails
  <2> DEFINE again == prhReOpenSDFile(sd)
  <2>1. /\ again \in SDObjects /\ again.state = sd.state /\ again.name = sd.name /\ again.at = sd.at
        /\ again.file = "good" => again.name \in DOMAIN files /\ again.size = Len(files[again.name])
    BY Reopens
  <2>2. \/ LineRead(sd, "error")
        \/ again.file = "good" /\ sd' = again /\ main' = [main EXCEPT !.tries = @ + 1] /\ job' = job
        \/ again.file # "good" /\ LineRead(again, "error")
    BY <1>5 DEF ReadFails
  <2> HIDE DEF again
  <2>4. CASE LineRead(sd, "error")
    BY <1>1, <2>4, FailsToRead
  <2>5. CASE again.file # "good" /\ LineRead(again, "error")
    BY <1>1, <2>1, <2>5, FailsToRead DEF HasFile
  <2>6. CASE again.file = "good" /\ sd' = again /\ main' = [main EXCEPT !.tries = @ + 1] /\ job' = job
    <3>1. main.tries + 1 \in Nat /\ main \in Mains
      BY DEF Mains
    <3>2. main' = [main EXCEPT !.tries = main.tries + 1]
      BY <2>6
    <3>3. main' \in Mains /\ main'.at = "read" /\ main'.caller = main.caller /\ main'.text = main.text /\ ~AtHand'
      BY <1>1, <3>1, <3>2 DEF Mains, AtHand
    <3>4. JobsTyped'
      BY <1>1, <2>1, <2>6, <3>3, ReadTyped
    <3>5. OpenKept'
      BY <1>1, <2>1, <2>6 DEF OpenKept
    <3>6. sd.state = "BusyPrinting" => FileKept' /\ InPlace'
      <4> HAVE sd.state = "BusyPrinting"
      <4>1. FileKept' /\ sd'.size = Len(job.source)
        BY <1>1, <1>3, <2>1, <2>6 DEF FileKept
      <4>2. Done' = Done /\ ReadSoFar' = ReadSoFar /\ (AllRead => AllRead')
        BY <1>3, <2>1, <2>6, <4>1 DEF Done, ReadSoFar, AllRead
      <4> QED
        BY <1>3, <2>6, <3>3, <4>1, <4>2 DEF InPlace
    <3>7. JobInv'
      BY <1>1, <2>1, <2>6, <3>3, <3>4, <3>5, <3>6 DEF JobInv
    <3>8. sd.state = "BusyPrinting" => InOrder'
      BY <2>6, PlacedInOrder DEF InOrder
    <3> QED
      BY <2>6, <3>7, <3>8 DEF JobStep
  <2> QED
    BY <2>2, <2>4, <2>5, <2>6
<1>6. CASE ReadEnds
  <2>1. \/ LineRead(sd, "error")
        \/ ~available(sd) /\ sd.file # "closed" /\ main.text # <<>> /\ LineRead(sd, "ok")
        \/ ~available(sd) /\ sd.file # "closed" /\ main.text = <<>> /\ LineRead(sd, "eof")
    BY <1>6 DEF ReadEnds
  <2>2. CASE LineRead(sd, "error")
    BY <1>1, <2>2, FailsToRead
  <2>3. ASSUME sd.state = "BusyPrinting", ~available(sd)
        PROVE  sd.at = sd.size /\ (Done \o main.text = job.source \/ (main.text = <<>> /\ Done = job.source \o <<"NL">>))
    <3>1. sd.at = sd.size /\ sd.at = Len(job.source)
      BY <1>2, <1>3, <2>3 DEF available
    <3>2. ReadSoFar = job.source
      BY <1>2, <3>1, SubSeqFull DEF ReadSoFar, Chars
    <3> QED
      BY <1>3, <2>3, <3>1, <3>2
  <2>4. CASE ~available(sd) /\ main.text # <<>> /\ LineRead(sd, "ok")
    BY <1>1, <2>3, <2>4, LineIsRead
  <2>5. CASE ~available(sd) /\ main.text = <<>> /\ LineRead(sd, "eof")
    <3>1. Done \o <<>> = Done
      BY <1>2, ConcatEmptySeq DEF Chars
    <3>2. sd.state = "BusyPrinting" => Complete
      BY <2>3, <2>5, <3>1 DEF Complete, Done
    <3> QED
      BY <1>1, <2>5, <3>2, EndIsRead
  <2> QED
    BY <2>1, <2>2, <2>4, <2>5
<1> QED
  BY <1>4, <1>5, <1>6

\* The job's end is told when nothing moves.
LEMMA EndKeepsJob ==
  ASSUME JobInv, EndOfJob
  PROVE  JobStep
<1> USE Typed
<1>1. main.at = "eof" /\ Go("loop") /\ UNCHANGED <<card, files, upload, machine>>
  BY DEF EndOfJob
<1>2. main' \in Mains /\ main'.at = "loop" /\ ~AtHand'
  BY <1>1, Goes DEF Places
<1>3. /\ sd' \in SDObjects /\ Same(sd, sd') /\ sd'.state # "BusyPrinting"
      /\ job' \in TheJobs /\ job'.source = job.source /\ job'.ran = job.ran
      /\ job'.outcome = "succeeded" => job.outcome = "succeeded" \/ (Printing(sd) /\ machine # "Cycle")
  <2>1. CASE reset
    BY <2>1, Aborts, Cancels DEF EndOfJob
  <2>2. CASE ~reset
    BY <2>2, Reports, Tells DEF EndOfJob, Answer
  <2> QED
    BY <2>1, <2>2
<1>4. Printing(sd) => Complete
  BY <1>1, GetsState DEF Printing, JobInv, InPlace
<1>5. JobsTyped' /\ OpenKept'
  BY <1>1, <1>2, <1>3, ReadTyped, ReadOpen, ReadsNow
<1>6. sd.state = "BusyPrinting" => InOrder'
  BY <1>3, PlacedInOrder DEF InOrder
<1> QED
  BY <1>2, <1>3, <1>4, <1>5, <1>6 DEF JobStep, JobInv

-----------------------------------------------------------------------------
(* Lines are executed, jobs begun and cut short.                            *)

LEMMA ExecuteKeepsJob ==
  ASSUME JobInv, ExecuteLine
  PROVE  JobStep
<1> USE Typed
<1> DEFINE result == Result(main.text)
           s == IF reset THEN protocol_abort(sd) ELSE sd
           t == Report(s, result)
           u == Report(t, "ok")
           ran == [job EXCEPT !.ran = Append(@, main.text)]
<1>1. /\ job' = IF reset /\ Printing(sd) THEN [ran EXCEPT !.outcome = "canceled"]
                ELSE [ran EXCEPT !.outcome = Told(sd, result).outcome]
      /\ sd' = IF main.caller = "client" THEN u ELSE t
      /\ Go(IF main.caller = "web" THEN "job" ELSE "clients")
      /\ UNCHANGED <<card, files, upload>> /\ Running("line")
  BY DEF ExecuteLine
<1>2. result \in {"ok", "unsupported", "error"} /\ (main.text \in RefusedLines => result = "error")
  BY DEF Result
<1> HIDE DEF result
<1>3. s \in SDObjects /\ Same(sd, s)
  <2>1. CASE reset
    BY <2>1, Aborts
  <2>2. CASE ~reset
    BY <2>2 DEF Same
  <2> QED
    BY <2>1, <2>2
<1> HIDE DEF s
<1>4. t \in SDObjects /\ Same(s, t) /\ (result = "error" => t.state # "BusyPrinting")
  BY <1>3, Reports
<1> HIDE DEF t
<1>5. u \in SDObjects /\ Same(t, u)
  BY <1>4, Reports
<1> HIDE DEF u
<1>6. sd' \in SDObjects /\ Same(sd, sd') /\ (result = "error" => sd'.state # "BusyPrinting")
  <2>1. Same(sd, t) /\ Same(sd, u)
    BY <1>3, <1>4, <1>5, SameThrough
  <2>2. result = "error" => u.state # "BusyPrinting"
    BY <1>4, <1>5 DEF Same
  <2> QED
    BY <1>1, <1>4, <1>5, <2>1, <2>2
<1>7. /\ main.text \in Chars /\ job.ran \in Seq(Chars) /\ Append(job.ran, main.text) \in Seq(Chars)
      /\ job.source \in Chars /\ Done \in Chars
  BY DoneTyped DEF Mains, TheJobs
<1>8. /\ job' \in TheJobs /\ job'.source = job.source /\ job'.ran = Append(job.ran, main.text)
      /\ job'.outcome = "succeeded" => job.outcome = "succeeded"
  <2>1. ran \in TheJobs /\ ran.source = job.source /\ ran.ran = Append(job.ran, main.text)
    <3>1. ran = [job EXCEPT !.ran = Append(job.ran, main.text)]
      OBVIOUS
    <3>2. job \in TheJobs
      OBVIOUS
    <3> HIDE DEF ran
    <3> QED
      BY ONLY <1>7, <3>1, <3>2 DEF TheJobs
  <2>2. /\ Told(sd, result).outcome \in {"none", "running", "succeeded", "failed", "canceled"}
        /\ Told(sd, result).outcome = "succeeded" => job.outcome = "succeeded"
    BY <1>2, Tells DEF TheJobs
  <2> HIDE DEF ran
  <2> QED
    BY <1>1, <2>1, <2>2 DEF TheJobs
<1>9. main' \in Mains /\ main'.at \in {"job", "clients"} /\ ~AtHand'
  BY <1>1, Goes DEF Places
<1>10. ASSUME sd.state = "BusyPrinting"
       PROVE  /\ Done' = ReadSoFar \/ (AllRead /\ Done' = job.source \o <<"NL">>)
              /\ sd.at \in 0 .. Len(job.source) /\ sd.size = Len(job.source)
  <2>1. AtHand /\ InPlace /\ FileKept
    BY <1>1, <1>10 DEF Running, AtHand, JobInv
  <2>2. Done' = (Done \o main.text) \o <<"NL">>
    BY <1>7, <1>8, LineMore DEF Done
  <2>3. sd.at \in 0 .. Len(job.source) /\ sd.size = Len(job.source)
    BY <2>1 DEF FileKept, SDObjects, JobInv, OpenKept
  <2> QED
    BY <2>1, <2>2, <2>3 DEF InPlace
<1>11. ASSUME sd.state = "BusyPrinting"
       PROVE  InOrder'
  <2> DEFINE whole == job.source \o <<"NL">>
  <2>1. whole \in Chars /\ <<"NL">> \in Chars
    BY <1>7, NLTyped DEF Chars
  <2>2. IsPrefix(ReadSoFar, whole) /\ IsPrefix(whole, whole)
    BY <1>7, <1>10, <1>11, <2>1, PrefixOfPrefix, IsItsPrefix DEF ReadSoFar
  <2>3. IsPrefix(Done', whole)
    BY <1>10, <1>11, <2>2
  <2>4. \A i \in 1 .. Len(job'.ran) - 1 : job'.ran[i] \notin RefusedLines
    <3>1. \A i \in DOMAIN job.ran : job.ran[i] \notin RefusedLines
      BY <1>11 DEF JobInv
    <3> QED
      BY <1>7, <1>8, <3>1
  <2> QED
    BY <1>8, <2>3, <2>4 DEF InOrder, Done
<1>12. ASSUME sd'.state = "BusyPrinting"
       PROVE  FileKept' /\ InPlace' /\ \A i \in DOMAIN job'.ran : job'.ran[i] \notin RefusedLines
  <2>1. sd.state = "BusyPrinting" /\ main.text \notin RefusedLines
    BY <1>2, <1>6, <1>12 DEF Same
  <2>2. FileKept /\ \A i \in DOMAIN job.ran : job.ran[i] \notin RefusedLines
    BY <2>1 DEF JobInv
  <2>3. FileKept' /\ sd'.at = sd.at /\ sd'.size = sd.size
    BY <1>1, <1>6, <1>8, <1>12, <2>2 DEF FileKept, Same
  <2>4. InPlace'
    <3>1. ReadSoFar' = ReadSoFar /\ AllRead' = AllRead
      BY <1>8, <2>3 DEF ReadSoFar, AllRead
    <3> QED
      BY <1>8, <1>9, <1>10, <2>1, <3>1 DEF InPlace
  <2>5. \A i \in DOMAIN job'.ran : job'.ran[i] \notin RefusedLines
    BY <1>7, <1>8, <2>1, <2>2
  <2> QED
    BY <2>3, <2>4, <2>5
<1>13. JobsTyped'
  BY <1>1, <1>6, <1>8, <1>9, ReadTyped
<1>14. OpenKept'
  BY <1>1, <1>6, ReadOpen, ReadsNow
<1>15. JobInv'
  BY <1>9, <1>12, <1>13, <1>14 DEF JobInv
<1> QED
  BY <1>8, <1>11, <1>15 DEF JobStep

LEMMA StartKeepsJob ==
  ASSUME JobInv, runSDFile
  PROVE  JobStep
<1> USE Typed
<1> DEFINE o == openSDFile(main.command.name)
<1>1. /\ Restful /\ UNCHANGED <<card, upload, machine, files>> /\ FilesTyped'
      /\ main.command.name \in Names \cup {"none"} /\ Same(sd, sd)
  BY DEF runSDFile, Running, Unchanged, Restful, AtHand, Mains, Same, FilesTyped
<1>2. /\ o.sd \in SDObjects /\ (~o.ok => Same(sd, o.sd))
      /\ o.ok => /\ sd.state # "BusyPrinting" /\ o.sd.file = "good" /\ main.command.name \in DOMAIN files
                 /\ o.sd.name = main.command.name /\ o.sd.size = Len(files[main.command.name]) /\ o.sd.at = 0
  BY <1>1, Opens
<1>3. \/ Return(sd, "error")
      \/ ~o.ok /\ Return(o.sd, "error")
      \/ /\ o.ok /\ machine = "Idle" /\ sd' = o.sd /\ main' = Reading(main.caller)
         /\ job' = [source |-> files[main.command.name], ran |-> <<>>, outcome |-> "running"]
  BY DEF runSDFile
<1> HIDE DEF o
<1>4. CASE Return(sd, "error") \/ (~o.ok /\ Return(o.sd, "error"))
  BY <1>1, <1>2, <1>4, CommandReturns
<1>5. CASE /\ o.ok /\ machine = "Idle" /\ sd' = o.sd /\ main' = Reading(main.caller)
           /\ job' = [source |-> files[main.command.name], ran |-> <<>>, outcome |-> "running"]
  <2>1. files[main.command.name] \in Chars /\ <<>> \in Seq(Chars)
    BY <1>2, <1>5 DEF FilesTyped
  <2>2. job' \in TheJobs /\ job'.source = files[main.command.name] /\ job'.ran = <<>> /\ job'.outcome = "running"
    BY <1>5, <2>1 DEF TheJobs
  <2>3. main' = [at |-> "read", caller |-> main.caller, command |-> [kind |-> "none", name |-> "none"],
                 text |-> <<>>, tries |-> 0]
    BY <1>5 DEF Reading, Main0
  <2>4. main' \in Mains /\ main'.at = "read" /\ main'.text = <<>> /\ ~AtHand'
    BY <2>3, NLTyped DEF Mains, Places, AtHand
  <2>5. JobsTyped'
    BY <1>1, <1>2, <1>5, <2>2, <2>4, ReadTyped
  <2>6. OpenKept' /\ FileKept'
    BY <1>1, <1>2, <1>5, <2>1, <2>2 DEF OpenKept, FileKept, Chars
  <2>7. InPlace'
    <3>1. Done' = <<>>
      BY <2>2, NoLines DEF Done
    <3>2. SubSeq(job'.source, 1, 0) = <<>>
      BY SubSeqEmpty
    <3>3. ReadSoFar' = <<>>
      BY <1>2, <1>5, <3>2 DEF ReadSoFar
    <3>4. <<>> \o <<>> = <<>>
      BY NLTyped, ConcatEmptySeq DEF Chars
    <3> QED
      BY <2>4, <3>1, <3>3, <3>4 DEF InPlace
  <2>8. JobInv'
    BY <1>1, <1>5, <2>2, <2>4, <2>5, <2>6, <2>7 DEF JobInv
  <2> QED
    BY <1>2, <1>5, <2>2, <2>8 DEF JobStep
<1> QED
  BY <1>3, <1>4, <1>5

LEMMA OutsideKeepsJob ==
  ASSUME JobInv, SwapCard \/ MotionEnds \/ Reset \/ UNCHANGED vars
  PROVE  JobStep
<1> USE Typed
<1>1. UNCHANGED <<files, sd, main, upload, job>>
  BY DEF SwapCard, MotionEnds, Reset, vars
<1>2. card' \in [present : BOOLEAN, detect : BOOLEAN] /\ (machine' = "Cycle" => machine = "Cycle")
  BY DEF SwapCard, MotionEnds, Reset, vars, CardTyped
<1>3. JobsTyped'
  BY <1>1, <1>2 DEF JobsTyped, FilesTyped
<1>4. AtHand' = AtHand /\ OpenKept' = OpenKept /\ FileKept' = FileKept
  BY <1>1 DEF AtHand, OpenKept, FileKept
<1>5. InPlace' = InPlace
  BY <1>1, <1>4 DEF InPlace, Done, ReadSoFar, AllRead, Complete
<1>6. JobInv'
  BY <1>1, <1>2, <1>3, <1>4, <1>5 DEF JobInv
<1>7. sd.state = "BusyPrinting" => InOrder'
  BY <1>1, PlacedInOrder DEF InOrder
<1> QED
  BY <1>1, <1>6, <1>7 DEF JobStep

LEMMA NoneBegun ==
  /\ SDCard0 \in SDObjects /\ SDCard0.state = "Idle" /\ SDCard0.file = "closed"
  /\ Main0 \in Mains /\ Main0.at = "clients" /\ NoUpload \in TheUploads /\ NoJob \in TheJobs
  BY NLTyped DEF SDCard0, SDObjects, Busy, Main0, Mains, Places, NoUpload, TheUploads, NoJob, TheJobs

LEMMA RestartKeepsJob ==
  ASSUME JobInv, Restart
  PROVE  JobStep
<1> USE Typed
<1>1. /\ sd' = SDCard0 /\ main' = Main0 /\ upload' = NoUpload /\ job' = NoJob
      /\ UNCHANGED <<card, files>>
  BY DEF Restart
<1>2. JobsTyped'
  BY <1>1, NoneBegun DEF JobsTyped, CardTyped, FilesTyped
<1>3. JobInv'
  BY <1>1, <1>2, NoneBegun DEF JobInv, OpenKept
<1>4. InOrder'
  <2>1. AsFile(<<>>) = <<>> /\ <<"NL">> \in Chars /\ <<>> \o <<"NL">> = <<"NL">>
    BY NoLines, NLTyped, ConcatEmptySeq DEF Chars
  <2>2. IsPrefix(<<>>, <<>> \o <<"NL">>)
    BY NLTyped, IsItsPrefix
  <2>3. job'.ran = <<>> /\ job'.source = <<>>
    BY <1>1 DEF NoJob
  <2> QED
    BY <2>1, <2>2, <2>3 DEF InOrder
<1> QED
  BY <1>1, <1>3, <1>4 DEF JobStep, NoJob

LEMMA EveryStepKeepsJob == ASSUME JobInv, [Next]_vars PROVE JobStep
<1>1. CASE NoClient \/ ClientLine \/ Overflow \/ NoRequest \/ WebCommand \/ Bail
  BY <1>1, LoopKeepsJob
<1>2. CASE PollJob \/ GoOn
  BY <1>2, LoopKeepsJob, PollsJob
<1>3. CASE ReadChar \/ ReadFails \/ ReadEnds
  BY <1>3, ReadKeepsJob
<1>4. CASE EndOfJob
  BY <1>4, EndKeepsJob
<1>5. CASE ExecuteLine
  BY <1>5, ExecuteKeepsJob
<1>6. CASE Move \/ Unlock \/ showSDFile \/ deleteSDObject \/ listSDFiles \/ FileStream
  BY <1>6, CommandsKeepJob
<1>7. CASE runSDFile
  BY <1>7, StartKeepsJob
<1>8. CASE UploadStart \/ UploadWrite \/ UploadWriteFails \/ UploadEnd \/ UploadAborted
  BY <1>8, UploadsKeepJob
<1>9. CASE Download \/ handle_direct_SDFileList
  BY <1>9, RequestsKeepJob
<1>10. CASE SwapCard \/ MotionEnds \/ Reset \/ UNCHANGED vars
  BY <1>10, OutsideKeepsJob
<1>11. CASE Restart
  BY <1>11, RestartKeepsJob
<1> QED
  BY <1>1, <1>2, <1>3, <1>4, <1>5, <1>6, <1>7, <1>8, <1>9, <1>10, <1>11 DEF Next, MainTask

LEMMA JobsBegin == Init => JobInv
<1> SUFFICES ASSUME Init PROVE JobInv
  OBVIOUS
<1>1. sd = SDCard0 /\ main = Main0 /\ upload = NoUpload /\ job = NoJob
  BY DEF Init
<1>2. card \in [present : BOOLEAN, detect : BOOLEAN]
  BY DEF Init
<1>3. \A n \in DOMAIN files : files[n] \in Chars
  BY SDJobsAssumption DEF Init, SDJobsAssumption, Chars
<1>4. JobsTyped
  BY <1>1, <1>2, <1>3, NoneBegun DEF JobsTyped
<1> QED
  BY <1>1, <1>4, NoneBegun DEF JobInv, OpenKept

\* Whatever the files, the lines and the number of retries: a job that keeps the card
\* executes the lines of its file, each once and in order (readFileLine,
\* prhReOpenSDFile), and is said to have succeeded when all have been executed and
\* the machine is at rest (pollClients).
THEOREM JobsAlwaysTrue == Spec => JobTrue
<1> DEFINE InTheOrder == sd.state = "BusyPrinting" => InOrder'
           Whole == job.outcome = "running" /\ job'.outcome = "succeeded" => Complete /\ machine # "Cycle"
<1>1. JobInv /\ [Next]_vars => JobInv'
  BY EveryStepKeepsJob DEF JobStep
<1>2. JobInv /\ [Next]_vars => [InTheOrder]_vars /\ [Whole]_vars
  BY EveryStepKeepsJob DEF JobStep
<1>3. Spec => [][InTheOrder]_vars /\ [][Whole]_vars
  <2> HIDE DEF InTheOrder, Whole
  <2> QED
    BY <1>1, <1>2, JobsBegin, PTL DEF Spec
<1> QED
  BY <1>3 DEF JobTrue, JobInOrder, SuccessIsComplete
=============================================================================
