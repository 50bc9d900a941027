------------------------------- MODULE I2SOut -------------------------------
(***************************************************************************)
(* The stream of output samples to the shift registers of the I2S bus      *)
(* (I2SOut.cpp) and the choice between streaming and direct output         *)
(* (Machine/Stepping.cpp).                                                 *)
(*                                                                         *)
(* Three parties share the pulser status: the main program, which starts,  *)
(* resets and stops the stream; the task i2sOutTask, which refills the     *)
(* buffers that were transferred and calls Stepper::pulse_func for it; and *)
(* the DMA with its interrupt, which sends the ring of buffers.  All three *)
(* run on one core, so that what is done under the pulser lock is one      *)
(* step; the lock is free while the task is in pulse_func.                 *)
(*                                                                         *)
(* A buffer is a sequence of samples, each with the number of the step it  *)
(* makes (0 for none) and the value of one more output pin; a run of equal *)
(* samples is one sample.  The DMA reads a buffer at one instant of its    *)
(* transfer, in direct output not at all.                                  *)
(***************************************************************************)
EXTENDS Naturals, Sequences, SequencesExt, FiniteSets

CONSTANTS DMABUF_COUNT,  \* buffers in the ring (5 in the code)
          SAMPLES,       \* samples in a buffer before the safety margin
          MaxSteps,      \* bound: steps made since the last restart
          MaxResets      \* bound: resets, and jogs that are cancelled

ASSUME ConstantsAssumption ==
    /\ DMABUF_COUNT \in Nat \ {0, 1}
    /\ SAMPLES \in Nat \ {0}
    /\ MaxSteps \in Nat /\ MaxResets \in Nat

VARIABLES
    status,     \* i2s_out_pulser_status
    engine,     \* Stepping::_engine: I2S_STREAM or I2S_STATIC
    pin,        \* the pin's bit in i2s_out_port_data
    bufs,       \* contents of the DMA buffers
    next,       \* stqe_next of the descriptors
    dma,        \* the transfer: on, cur, read, stream (channel mode)
    queue,      \* o_dma.queue: descriptors that were transferred
    task,       \* i2sOutTask: where it is, and the buffer it has
    main,       \* the main program
    goal,       \* steps the segment buffer asks for
    made,       \* steps pulse_func has counted in motor_steps
    cycleStop,  \* rtCycleStop
    timer,      \* the step timer of the engines that do not stream
    latch,      \* the pin at the output of the shift registers
    sent,       \* the steps that reached the motors, in order
    forfeit,    \* history: a reset, a cancel or an underrun, positions are void
    onBefore,   \* history: the pin was on when the stream began
    resets      \* bound

vars == <<status, engine, pin, bufs, next, dma, queue, task, main, goal, made,
          cycleStop, timer, latch, sent, forfeit, onBefore, resets>>

stream == <<bufs, next, dma>>

Buffers == 0 .. DMABUF_COUNT - 1
NULL == DMABUF_COUNT

Sample(n, p) == [step |-> n, pin |-> p]
Filled(p) == <<Sample(0, p)>>

-----------------------------------------------------------------------------
(* i2s_clear_dma_buffer, i2s_clear_o_dma_buffers, i2s_out_stop with         *)
(* i2s_out_start                                                            *)

ClearBuffer(b, p) == bufs' = [bufs EXCEPT ![b] = Filled(p)]

Ring == [b \in Buffers |-> (b + 1) % DMABUF_COUNT]

ClearBuffers(p) == /\ bufs' = [b \in Buffers |-> Filled(p)]
                   /\ next' = Ring

\* Both functions shift the port's bits out, so that the pins are right; the
\* transfer begins with the first buffer.  The queue is left as it is.
Restart(mode) ==
    /\ dma' = [on |-> TRUE, cur |-> 0, read |-> mode = "PASSTHROUGH",
               stream |-> mode # "PASSTHROUGH"]
    /\ latch' = pin

(* i2s_out_push: direct output of the port's bits.                          *)
Push == latch' = IF status = "PASSTHROUGH" THEN pin ELSE latch

(* i2s_out_set_passthrough                                                  *)
Passing == IF status = "STEPPING" THEN "WAITING" ELSE status

(* i2s_out_set_stepping, once the status is PASSTHROUGH                     *)
BeginStream ==
    /\ ClearBuffers(pin)
    /\ status' = "STEPPING"
    /\ Restart("STEPPING")

(* i2s_out_reset, and the status it leaves                                  *)
ResetStatus(s) == IF s = "WAITING" THEN "PASSTHROUGH" ELSE s

ResetStream ==
    /\ CASE status = "STEPPING" -> ClearBuffers(pin)
         [] status = "WAITING" -> ClearBuffers(FALSE)
         [] OTHER -> UNCHANGED <<bufs, next>>
    /\ Restart(ResetStatus(status))

(* Stepping::stopTimer                                                      *)
StopTimer == IF engine = "Stream"
             THEN status' = Passing /\ UNCHANGED timer
             ELSE timer' = FALSE /\ UNCHANGED status

-----------------------------------------------------------------------------
(* Stepper::pulse_func, as far as the outputs go: a step that is pushed to   *)
(* the buffer or, with direct output, to the pins; or the end of the motion. *)

Record(steps) ==
    sent' = IF forfeit THEN <<>> ELSE sent \o steps

MakeStep ==
    /\ made < goal
    /\ made' = made + 1
    /\ IF engine = "Stream"
       THEN /\ bufs' = [bufs EXCEPT ![task.buf] =
                            Append(@, Sample(made + 1, pin))]
            /\ UNCHANGED <<latch, sent>>
       ELSE /\ Push
            /\ Record(IF status = "PASSTHROUGH" THEN <<made + 1>> ELSE <<>>)
            /\ UNCHANGED bufs
    /\ UNCHANGED <<status, timer, cycleStop>>

EndMotion ==
    /\ made = goal
    /\ StopTimer
    /\ cycleStop' = TRUE
    /\ UNCHANGED <<made, bufs, latch, sent>>

PulseFunc == MakeStep \/ EndMotion

(* Stepping::onStepperDriverTimer.  A probing motion is taken to begin only *)
(* when the stream before it has ended, which nothing waits for.            *)
TimerInterrupt ==
    /\ timer /\ status = "PASSTHROUGH"
    /\ PulseFunc
    /\ UNCHANGED <<engine, pin, next, dma, queue, task, main, goal, resets>>

-----------------------------------------------------------------------------
(* i2sOutTask                                                               *)

Receive ==
    /\ task.pc = "Idle" /\ queue # <<>>
    /\ task' = [pc |-> "Got", buf |-> Head(queue)]
    /\ queue' = Tail(queue)
    /\ UNCHANGED <<status, engine, pin, stream, main, goal, made, cycleStop,
                   timer, latch, sent, resets>>

\* A round of the loop of i2s_fillout_dma_buffer on the samples written so
\* far: idle samples until the time of the next pulse, or to the end.
FillRound(written) ==
    \E idle \in BOOLEAN :
        LET now == IF idle THEN Append(written, Sample(0, pin)) ELSE written
            full == Len(now) >= SAMPLES
        IN  /\ bufs' = [bufs EXCEPT ![task.buf] = now]
            /\ task' = [task EXCEPT !.pc = IF full THEN "Idle" ELSE "Pulse"]

BeginFill ==
    /\ task.pc = "Got" /\ status = "STEPPING"
    /\ FillRound(<<>>)
    /\ UNCHANGED <<status, engine, pin, next, dma, queue, main, goal, made,
                   cycleStop, timer, latch, sent, resets>>

\* The call of pulse_func, without the lock.
TaskPulse ==
    /\ task.pc = "Pulse"
    /\ PulseFunc
    /\ task' = [task EXCEPT !.pc = "Back"]
    /\ UNCHANGED <<engine, pin, next, dma, queue, main, goal, resets>>

\* Mutant: the chain is not cut.
CutNowhere == UNCHANGED next

\* The buffer in which the motion ends is the last of the chain.
CutHere == next' = [next EXCEPT ![task.buf] = NULL]

Resume ==
    /\ task.pc = "Back"
    /\ \/ /\ status = "STEPPING"
          /\ FillRound(bufs[task.buf])
          /\ UNCHANGED next
       \/ /\ status = "WAITING"
          /\ CutHere
          /\ bufs' = [bufs EXCEPT ![task.buf] = Append(@, Sample(0, pin))]
          /\ task' = [task EXCEPT !.pc = "Idle"]
       \/ /\ status = "PASSTHROUGH"
          /\ task' = [task EXCEPT !.pc = "Idle"]
          /\ UNCHANGED <<bufs, next>>
    /\ UNCHANGED <<status, engine, pin, dma, queue, main, goal, made,
                   cycleStop, timer, latch, sent, resets>>

\* Mutant: any buffer that comes back is taken for the last one.
TailAnywhere == TRUE

TailReached == next[task.buf] = NULL

\* The last buffer was transferred: back to direct output.
TaskTail ==
    /\ task.pc = "Got" /\ status = "WAITING" /\ TailReached
    /\ ClearBuffers(FALSE)
    /\ status' = "PASSTHROUGH"
    /\ Restart("PASSTHROUGH")
    /\ task' = [task EXCEPT !.pc = "Idle"]
    /\ UNCHANGED <<engine, pin, queue, main, goal, made, cycleStop, timer,
                   sent, resets>>

\* A buffer before the last one, or one in direct output, is only cleared.
TaskClear ==
    /\ task.pc = "Got"
    /\ \/ status = "WAITING" /\ ~TailReached /\ CutHere
       \/ status = "PASSTHROUGH" /\ UNCHANGED next
    /\ ClearBuffer(task.buf, FALSE)
    /\ task' = [task EXCEPT !.pc = "Idle"]
    /\ UNCHANGED <<status, engine, pin, dma, queue, main, goal, made,
                   cycleStop, timer, latch, sent, resets>>

-----------------------------------------------------------------------------
(* The DMA                                                                  *)

Steps(content) == LET moving == SelectSeq(content, LAMBDA s : s.step # 0)
                  IN  [i \in DOMAIN moving |-> moving[i].step]

DmaRead ==
    /\ dma.on /\ ~dma.read
    /\ dma' = [dma EXCEPT !.read = TRUE]
    /\ IF bufs[dma.cur] # <<>>
       THEN /\ Record(Steps(bufs[dma.cur]))
            /\ latch' = Last(bufs[dma.cur]).pin
       ELSE UNCHANGED <<sent, latch>>
    /\ UNCHANGED <<status, engine, pin, bufs, next, queue, task, main, goal,
                   made, cycleStop, timer, resets>>

\* The end of a buffer with i2s_out_intr_handler.  With a full queue the
\* oldest entry is given up, and the interrupt overwrites the bytes of the
\* first quarter of its buffer with the low byte of the port's bits.
DmaEof ==
    /\ dma.on /\ dma.read
    /\ dma' = IF next[dma.cur] = NULL
              THEN [dma EXCEPT !.on = FALSE]
              ELSE [dma EXCEPT !.cur = next[dma.cur], !.read = ~dma.stream]
    /\ IF Len(queue) = DMABUF_COUNT
       THEN /\ queue' = Append(Tail(queue), dma.cur)
            /\ \E p \in IF status = "STEPPING" THEN BOOLEAN ELSE {FALSE} :
                   bufs' = [bufs EXCEPT ![Head(queue)] =
                                Filled(p) \o SubSeq(@, 2, Len(@))]
       ELSE queue' = Append(queue, dma.cur) /\ UNCHANGED bufs
    /\ UNCHANGED <<status, engine, pin, next, task, main, goal, made,
                   cycleStop, timer, latch, sent, resets>>

-----------------------------------------------------------------------------
(* The main program                                                         *)

\* Stepper::wake_up with steps prepared: Stepping::startTimer.
WakeUp ==
    /\ main = "Idle" /\ made = goal
    /\ goal' \in goal + 1 .. MaxSteps
    /\ IF engine = "Static"
       THEN timer' = TRUE /\ main' = "Run" /\ UNCHANGED <<status, stream, latch>>
       ELSE /\ UNCHANGED timer
            /\ IF status = "PASSTHROUGH"
               THEN BeginStream /\ main' = "Run"
               ELSE /\ main' = IF status = "WAITING" THEN "Wait" ELSE "Run"
                    /\ UNCHANGED <<status, stream, latch>>
    /\ UNCHANGED <<engine, pin, queue, task, made, cycleStop, sent, resets>>

\* The wait of i2s_out_set_stepping, a look at a time.
Waited ==
    /\ main = "Wait" /\ status # "WAITING"
    /\ main' = "Run"
    /\ IF status = "PASSTHROUGH" THEN BeginStream
       ELSE UNCHANGED <<status, stream, latch>>
    /\ UNCHANGED <<engine, pin, queue, task, goal, made, cycleStop, timer,
                   sent, resets>>

\* protocol_do_cycle_stop; a cancelled jog resets the stepper, and with it
\* the stream, in which steps may still wait for their transfer.
CycleStop ==
    /\ main \in {"Run", "Idle"} /\ cycleStop
    /\ cycleStop' = FALSE
    /\ main' = "Idle"
    /\ UNCHANGED <<status, stream, latch, resets>>
    /\ UNCHANGED <<engine, pin, queue, task, goal, made, timer, sent>>

CancelStop ==
    /\ main \in {"Run", "Idle"} /\ cycleStop /\ engine = "Stream"
    /\ resets < MaxResets /\ resets' = resets + 1
    /\ cycleStop' = FALSE
    /\ main' = "Idle"
    /\ ResetStream
    /\ status' = LET s == ResetStatus(status)
                 IN  IF s = "STEPPING" THEN "WAITING" ELSE s
    /\ UNCHANGED <<engine, pin, queue, task, goal, made, timer, sent>>

\* mc_reset: go_idle if a motion runs, then the reset of the stream.
McReset ==
    /\ main \in {"Run", "Idle"} /\ resets < MaxResets
    /\ resets' = resets + 1
    /\ main' = "Reset"
    /\ IF main = "Run" THEN StopTimer ELSE UNCHANGED <<status, timer>>
    /\ UNCHANGED <<engine, pin, stream, queue, task, goal, made, cycleStop,
                   latch, sent>>

McResetStream ==
    /\ main = "Reset" /\ main' = "Aborted"
    /\ IF engine = "Stream"
       THEN ResetStream /\ status' = ResetStatus(status)
       ELSE UNCHANGED <<status, stream, latch>>
    /\ UNCHANGED <<engine, pin, queue, task, goal, made, cycleStop, timer,
                   sent, resets>>

\* run_once: Stepper::reset, and the segment buffer is empty.  What was
\* made and sent before counts no longer.  The restart takes so long that
\* a call of pulse_func from before it is over.
Reboot ==
    /\ main = "Aborted" /\ main' = "Idle"
    /\ task.pc \in {"Idle", "Got"}
    /\ engine' = "Stream"
    /\ ResetStream
    /\ status' = LET s == ResetStatus(status)
                 IN  IF s = "STEPPING" THEN "WAITING" ELSE s
    /\ goal' = 0 /\ made' = 0 /\ sent' = <<>> /\ cycleStop' = FALSE
    /\ UNCHANGED <<pin, queue, task, timer, resets>>

\* Stepping::beginLowLatency and endLowLatency, around a probing or homing
\* cycle; set_passthrough and the delay find no stream to stop.
BeginLowLatency ==
    /\ main = "Idle" /\ engine = "Stream" /\ made = goal
    /\ engine' = "Static"
    /\ UNCHANGED <<status, pin, stream, queue, task, main, goal, made,
                   cycleStop, timer, latch, sent, resets>>

EndLowLatency ==
    /\ main = "Idle" /\ engine = "Static" /\ ~timer /\ ~cycleStop
    /\ engine' = "Stream"
    /\ status' = Passing
    /\ UNCHANGED <<pin, stream, queue, task, main, goal, made, cycleStop,
                   timer, latch, sent, resets>>

\* synchronousWrite of the pin, which is switched on once: i2s_out_write,
\* and i2s_out_push after whatever happens in between.
Write ==
    /\ main \in {"Idle", "Run"} /\ ~pin
    /\ pin' = TRUE
    /\ main' = IF main = "Idle" THEN "PushIdle" ELSE "PushRun"
    /\ UNCHANGED <<status, engine, stream, queue, task, goal, made, cycleStop,
                   timer, latch, sent, resets>>

WritePush ==
    /\ main \in {"PushIdle", "PushRun"}
    /\ main' = IF main = "PushIdle" THEN "Idle" ELSE "Run"
    /\ Push
    /\ UNCHANGED <<status, engine, pin, stream, queue, task, goal, made,
                   cycleStop, timer, sent, resets>>

-----------------------------------------------------------------------------
(* The task owes the stream every buffer that was transferred and is not    *)
(* refilled; positions are void when the DMA arrives at one of them.        *)
Owed == ToSet(queue) \cup IF task.pc = "Idle" THEN {} ELSE {task.buf}
Underrun == status # "PASSTHROUGH" /\ dma.on /\ dma.cur \in Owed

Remember ==
    /\ onBefore' = IF status = "PASSTHROUGH" THEN pin ELSE onBefore
    /\ forfeit' = CASE main' = "Reset" \/ CancelStop -> TRUE
                    [] main = "Aborted" /\ main' = "Idle" -> Underrun'
                    [] OTHER -> forfeit \/ Underrun'

(* i2s_out_init: direct output, the ring in motion, the task waiting.       *)
Init ==
    /\ status = "PASSTHROUGH" /\ engine = "Stream" /\ pin = FALSE
    /\ bufs = [b \in Buffers |-> Filled(FALSE)] /\ next = Ring
    /\ dma = [on |-> TRUE, cur |-> 0, read |-> TRUE, stream |-> FALSE]
    /\ queue = <<>> /\ task = [pc |-> "Idle", buf |-> 0]
    /\ main = "Idle" /\ goal = 0 /\ made = 0 /\ cycleStop = FALSE
    /\ timer = FALSE /\ latch = FALSE /\ sent = <<>> /\ forfeit = FALSE
    /\ onBefore = FALSE /\ resets = 0

Dma == DmaRead \/ DmaEof
Task == Receive \/ BeginFill \/ TaskPulse \/ Resume \/ TaskTail \/ TaskClear
Main == \/ WakeUp \/ Waited \/ CycleStop \/ CancelStop \/ McReset \/ McResetStream \/ Reboot
        \/ BeginLowLatency \/ EndLowLatency \/ Write \/ WritePush

Next == (Dma \/ Task \/ TimerInterrupt \/ Main) /\ Remember

\* Hardware and interrupts go on, the task is scheduled, and the main
\* program goes on with what it began.
Fairness ==
    /\ WF_vars(Dma /\ Remember)
    /\ WF_vars(Task /\ Remember)
    /\ WF_vars(TimerInterrupt /\ Remember)
    /\ WF_vars((Waited \/ McResetStream \/ Reboot \/ WritePush) /\ Remember)

Spec == Init /\ [][Next]_vars /\ Fairness

-----------------------------------------------------------------------------
(* What the output stream promises the stepper and the pins.               *)

(* What reaches the motors is what pulse_func counted, each step once and   *)
(* in order, and all of it when the output is direct again: unless a reset  *)
(* gave the position up or the task let the DMA overtake it.                *)
StepsArrive ==
    ~forfeit =>
        /\ sent = [i \in 1 .. Len(sent) |-> i]
        /\ status = "PASSTHROUGH" /\ main = "Idle" => Len(sent) = made

(* Waiting for the transfers to complete ends, also after a reset or an     *)
(* underrun, so that the next motion starts.                                *)
StreamEnds == status = "WAITING" ~> status # "WAITING"
=============================================================================
