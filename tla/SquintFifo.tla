----------------------------- MODULE SquintFifo -----------------------------
(***************************************************************************)
(* The Squint kernel module (kfifo_kernel_evaluation/squint_module.c): the *)
(* trace hooks of instrumented kernel code write text records into one     *)
(* byte fifo, and a user process drains it through /proc/squint.           *)
(*                                                                         *)
(* A writer is a kernel thread inside write_{flush,fence,store}_trace.  It *)
(* puts a header record and then one record per stack frame; after every   *)
(* record it throttles itself: when fewer than KFIFO_THRESHOLD_LEN bytes   *)
(* are left it raises the flag "asleep" and waits.  The one reader         *)
(* (mock_squint.py) drains bytes, and after each read lowers the flag and  *)
(* wakes the waiting writers.  The flag is an unprotected global.          *)
(*                                                                         *)
(* Records are represented by their length: only how much room is left     *)
(* decides what the module does.                                           *)
(***************************************************************************)
EXTENDS Integers, FiniteSets

CONSTANTS
    Writers,              \* kernel threads that run instrumented code
    KFIFO_LEN,            \* size of the fifo in bytes
    KFIFO_THRESHOLD_LEN,  \* free bytes below which a writer throttles itself
    MaxLen,               \* longest record: 199 bytes (char buf[200])
    MaxFrames,            \* bound on the stack frames of a trace (32 in the code)
    MaxInterrupts         \* bound on the signals delivered to waiting writers

ASSUME WritersFinite == IsFiniteSet(Writers)
ASSUME SizesAssumption ==
    /\ KFIFO_LEN \in Nat /\ KFIFO_THRESHOLD_LEN \in Nat /\ MaxLen \in Nat \ {0}
    /\ KFIFO_THRESHOLD_LEN <= KFIFO_LEN
    /\ MaxFrames \in Nat /\ MaxInterrupts \in Nat

VARIABLES
    loaded,      \* the module is inserted
    avail,       \* kfifo_avail(&squint_dev)
    asleep,      \* the global flag
    wpc,         \* where each writer is
    frames,      \* records each writer still has to write in this trace
    rpc,         \* where the reader is in SquintDeviceRead
    interrupts,  \* history: waits that a signal ended with the fifo still full
    truncated    \* history: some record was not stored whole

vars == <<loaded, avail, asleep, wpc, frames, rpc, interrupts, truncated>>

(***************************************************************************)
(* idle: outside the module; check, flag, wait: the steps of               *)
(* squint_fifo_write after the put; sleeping: on the wait queue wq.        *)
(***************************************************************************)
WriterStates == {"idle", "check", "flag", "wait", "sleeping", "record"}
ReaderStates == {"idle", "test", "clear", "wake"}

\* Types: the room left is within the fifo, the threads are in known places.
TypeOK ==
    /\ loaded \in BOOLEAN
    /\ avail \in 0..KFIFO_LEN
    /\ asleep \in {0, 1}
    /\ wpc \in [Writers -> WriterStates]
    /\ frames \in [Writers -> 0..MaxFrames]
    /\ rpc \in ReaderStates
    /\ interrupts \in Nat
    /\ truncated \in BOOLEAN

Init ==
    /\ loaded = FALSE
    /\ avail = 0
    /\ asleep = 0
    /\ wpc = [w \in Writers |-> "idle"]
    /\ frames = [w \in Writers |-> 0]
    /\ rpc = "idle"
    /\ interrupts = 0
    /\ truncated = FALSE

-----------------------------------------------------------------------------
(* Loading and unloading.                                                   *)

\* A failing kfifo_alloc or proc_create leaves no fifo behind.
kfifo_squint_init ==
    /\ ~loaded
    /\ \/ loaded' = TRUE /\ avail' = KFIFO_LEN
       \/ UNCHANGED <<loaded, avail>>
    /\ asleep' = 0
    /\ UNCHANGED <<wpc, frames, rpc, interrupts, truncated>>

\* rmmod is refused while instrumented modules use the exported symbols, and
\* remove_proc_entry waits for a running read.
kfifo_squint_exit ==
    /\ loaded
    /\ \A w \in Writers : wpc[w] = "idle"
    /\ rpc = "idle"
    /\ loaded' = FALSE
    /\ avail' = 0
    /\ UNCHANGED <<asleep, wpc, frames, rpc, interrupts, truncated>>

-----------------------------------------------------------------------------
(* Writers.                                                                 *)

\* Fault: the put does not clip the record to the room left.
kfifo_in_unclipped(len) ==
    /\ avail' = avail - len
    /\ truncated' = truncated

\* kfifo_in_spinlocked: the spinlock makes the put of one record atomic; what
\* does not fit is dropped.
kfifo_in(len) ==
    LET stored == IF len <= avail THEN len ELSE avail
    IN  /\ avail' = avail - stored
        /\ truncated' = (truncated \/ stored < len)

\* write_{flush,fence,store}_trace: the header record, then print_trace with
\* the n frames that stack_trace_save found.
write_trace(w) ==
    /\ loaded
    /\ wpc[w] = "idle"
    /\ \E len \in 1..MaxLen, n \in 0..MaxFrames :
         /\ kfifo_in(len)
         /\ frames' = [frames EXCEPT ![w] = n]
    /\ wpc' = [wpc EXCEPT ![w] = "check"]
    /\ UNCHANGED <<loaded, asleep, rpc, interrupts>>

\* One iteration of the loop of print_trace.
print_frame(w) ==
    /\ wpc[w] = "record"
    /\ \E len \in 1..MaxLen : kfifo_in(len)
    /\ frames' = [frames EXCEPT ![w] = @ - 1]
    /\ wpc' = [wpc EXCEPT ![w] = "check"]
    /\ UNCHANGED <<loaded, asleep, rpc, interrupts>>

\* Where squint_fifo_write returns to.
AfterRecord(w) == IF frames[w] = 0 THEN "idle" ELSE "record"

\* Fault: the threshold leaves one record too little.
check_avail_late(w) ==
    /\ wpc[w] = "check"
    /\ wpc' = [wpc EXCEPT ![w] = IF avail < KFIFO_THRESHOLD_LEN - MaxLen
                                 THEN "flag" ELSE AfterRecord(w)]
    /\ UNCHANGED <<loaded, avail, asleep, frames, rpc, interrupts, truncated>>

check_avail(w) ==
    /\ wpc[w] = "check"
    /\ wpc' = [wpc EXCEPT ![w] = IF avail < KFIFO_THRESHOLD_LEN
                                 THEN "flag" ELSE AfterRecord(w)]
    /\ UNCHANGED <<loaded, avail, asleep, frames, rpc, interrupts, truncated>>

set_asleep(w) ==
    /\ wpc[w] = "flag"
    /\ asleep' = 1
    /\ wpc' = [wpc EXCEPT ![w] = "wait"]
    /\ UNCHANGED <<loaded, avail, frames, rpc, interrupts, truncated>>

\* wait_event_interruptible queues the task before it evaluates the condition
\* for the last time, so that evaluating it and falling asleep are one step
\* for whoever wakes the queue.
wait_event(w) ==
    /\ wpc[w] = "wait"
    /\ wpc' = [wpc EXCEPT ![w] = IF avail > KFIFO_THRESHOLD_LEN
                                 THEN AfterRecord(w) ELSE "sleeping"]
    /\ UNCHANGED <<loaded, avail, asleep, frames, rpc, interrupts, truncated>>

\* A signal ends the wait; squint_fifo_write ignores -ERESTARTSYS.
signal(w) ==
    /\ wpc[w] \in {"wait", "sleeping"}
    /\ interrupts < MaxInterrupts
    /\ interrupts' = IF avail > KFIFO_THRESHOLD_LEN THEN interrupts ELSE interrupts + 1
    /\ wpc' = [wpc EXCEPT ![w] = AfterRecord(w)]
    /\ UNCHANGED <<loaded, avail, asleep, frames, rpc, truncated>>

-----------------------------------------------------------------------------
(* The reader.                                                              *)

\* kfifo_to_user: up to count bytes, none when the fifo is empty.
SquintDeviceRead ==
    /\ loaded
    /\ rpc = "idle"
    /\ \E copied \in 0..(KFIFO_LEN - avail) :
         /\ copied = 0 => avail = KFIFO_LEN
         /\ avail' = avail + copied
    /\ rpc' = "test"
    /\ UNCHANGED <<loaded, asleep, wpc, frames, interrupts, truncated>>

\* Fault: the test waits for an empty fifo to have more than KFIFO_LEN free.
test_asleep_never ==
    /\ rpc = "test"
    /\ rpc' = IF asleep = 1 /\ avail > KFIFO_LEN THEN "clear" ELSE "idle"
    /\ UNCHANGED <<loaded, avail, asleep, wpc, frames, interrupts, truncated>>

test_asleep ==
    /\ rpc = "test"
    /\ rpc' = IF asleep = 1 /\ avail > KFIFO_THRESHOLD_LEN THEN "clear" ELSE "idle"
    /\ UNCHANGED <<loaded, avail, asleep, wpc, frames, interrupts, truncated>>

clear_asleep ==
    /\ rpc = "clear"
    /\ asleep' = 0
    /\ rpc' = "wake"
    /\ UNCHANGED <<loaded, avail, wpc, frames, interrupts, truncated>>

\* A woken writer evaluates its condition again.
wake_up ==
    /\ rpc = "wake"
    /\ wpc' = [w \in Writers |-> IF wpc[w] = "sleeping" THEN "wait" ELSE wpc[w]]
    /\ rpc' = "idle"
    /\ UNCHANGED <<loaded, avail, asleep, frames, interrupts, truncated>>

-----------------------------------------------------------------------------
squint_fifo_write(w) == print_frame(w) \/ check_avail(w) \/ set_asleep(w) \/ wait_event(w)

Reader == SquintDeviceRead \/ test_asleep \/ clear_asleep \/ wake_up

Next ==
    \/ kfifo_squint_init
    \/ kfifo_squint_exit
    \/ Reader
    \/ \E w \in Writers : write_trace(w) \/ squint_fifo_write(w) \/ signal(w)

Spec == Init /\ [][Next]_vars

(***************************************************************************)
(* mock_squint.py reads in an endless loop, and a thread that is not on    *)
(* the wait queue is eventually scheduled.  Nobody is obliged to start a   *)
(* trace, to send a signal or to unload the module.                        *)
(***************************************************************************)
Fairness == WF_vars(Reader) /\ \A w \in Writers : WF_vars(squint_fifo_write(w))

FairSpec == Spec /\ Fairness

-----------------------------------------------------------------------------
(* Properties.                                                              *)

\* Writers that have put a record and not yet seen enough room.
Pending == {w \in Writers : wpc[w] \in {"check", "flag", "wait", "sleeping"}}

\* The bytes that n records may take.
Room(n) == n * MaxLen

\* The throttle of squint_fifo_write works on a reserve: as long as the threshold
\* leaves room for one more record of every writer, and of every writer whose
\* wait a signal cut short, no record is ever cut by kfifo_in.
NoTruncation ==
    Room(Cardinality(Writers) + interrupts) <= KFIFO_THRESHOLD_LEN => ~truncated

\* The reserve itself: below the threshold the fifo has lost at most one
\* record for every pending writer and every interrupted wait.
Reserve ==
    loaded => avail + Room(Cardinality(Pending) + interrupts) >= KFIFO_THRESHOLD_LEN

\* A writer that sleeps while the flag is up is woken by a later read, unless
\* other writers go on filling the fifo for ever.
FlaggedSleeperWakes ==
    \A w \in Writers :
      <>[](\A v \in Writers \ {w} : wpc[v] = "idle")
      => ((wpc[w] = "sleeping" /\ asleep = 1) ~> (wpc[w] # "sleeping"))

\* Every traced call returns (benchmark.cpp joins the threads that make them).
TraceReturns ==
    \A w \in Writers : (wpc[w] # "idle") ~> (wpc[w] = "idle")

=============================================================================
