--------------------------- MODULE LogWriterFile ---------------------------
(***************************************************************************)
(* The log writer (modules/logger/log_writer_file.cpp): two logs, Full and *)
(* Mission, each with a ring buffer, a file and a flag _should_run.  The   *)
(* logger thread starts and stops them and fills the buffers; the writer   *)
(* thread empties them into the files.  The mutex _mtx is held by the      *)
(* logger for one step at a time and by the writer from one step to the    *)
(* next; the writer drops it around every call of the file system, and     *)
(* start_log does not take it to open the file and to set _should_run.     *)
(*                                                                         *)
(* A byte is its number among all bytes accepted for its log.  A message   *)
(* longer than the buffer, which the code splits, is several messages.     *)
(* accepted, first, file, why, starts and faults are history; fsync, which *)
(* changes none of them, is left out but for the lock it drops.            *)
(***************************************************************************)
EXTENDS Integers, Sequences

CONSTANTS BufferSize,  \* _buffer_size of each log
          MinChunk,    \* min_available of each log
          MaxMessage,  \* the longest message of each log
          MaxBytes, MaxStarts, MaxFaults   \* bounds on a behaviour

Full == 0
Mission == 1
Logs == {Full, Mission}

ASSUME LogWriterAssumption ==
    /\ {BufferSize, MinChunk, MaxMessage, MaxBytes} \subseteq [Logs -> Nat \ {0}]
    /\ \A l \in Logs : MinChunk[l] - 1 + MaxMessage[l] <= BufferSize[l]
    /\ {MaxStarts, MaxFaults} \subseteq Nat

VARIABLES
  (* each LogFileBuffer *)
  open,       \* _fd >= 0
  shouldRun,  \* _should_run
  hadError,   \* _had_write_error
  buffer,      \* the bytes of _buffer
  head,       \* _head
  count,      \* _count
  (* shared by the threads *)
  locked,     \* the writer holds _mtx
  exit,       \* _exit_thread
  (* the writer thread *)
  wpc,        \* where it is
  turn,       \* i, the log it looks at
  reading,    \* its read_ptr, available, is_part and written
  (* the logger thread *)
  lpc,        \* where it is
  arg,        \* the log and the length of its call
  (* history *)
  accepted,   \* bytes accepted for each log
  first,      \* how many of them before its last start
  file,       \* the bytes in its last file
  why,        \* why a log was closed too early
  starts, faults

buffers == <<open, shouldRun, hadError, buffer, head, count>>
shared == <<locked, exit>>
writer == <<wpc, turn, reading>>
logger == <<lpc, arg>>
history == <<accepted, first, file, why, starts, faults>>
vars == <<buffers, shared, writer, logger, history>>

NothingRead == [from |-> 0, size |-> 0, part |-> FALSE, written |-> 0]

\* LogFileBuffer::get_read_ptr
ReadPtr(l) ==
    LET r == head[l] - count[l] IN
    IF r < 0 THEN [from |-> r + BufferSize[l], size |-> -r, part |-> TRUE, written |-> 0]
             ELSE [from |-> r, size |-> count[l], part |-> FALSE, written |-> 0]

Init ==
    /\ open = [l \in Logs |-> FALSE]
    /\ shouldRun = [l \in Logs |-> FALSE]
    /\ hadError = [l \in Logs |-> FALSE]
    /\ buffer = [l \in Logs |-> [i \in 0..BufferSize[l] - 1 |-> 0]]
    /\ head = [l \in Logs |-> 0]
    /\ count = [l \in Logs |-> 0]
    /\ locked = FALSE
    /\ exit = FALSE
    /\ wpc = "idle"
    /\ turn = Mission
    /\ reading = NothingRead
    /\ lpc = "idle"
    /\ arg = [log |-> Full, size |-> 0]
    /\ accepted = [l \in Logs |-> 0]
    /\ first = [l \in Logs |-> 0]
    /\ file = [l \in Logs |-> <<>>]
    /\ why = [l \in Logs |-> {}]
    /\ starts = 0
    /\ faults = 0
-----------------------------------------------------------------------------
\* _count, a size_t, has wrapped: what follows is undefined and not modelled.
Wrapped == \E l \in Logs : count[l] < 0

\* The next place of the logger and of the writer
Go(l) == ~Wrapped /\ lpc' = l

At(w) == ~Wrapped /\ wpc' = w
-----------------------------------------------------------------------------
(* The logger thread                                                       *)

\* k_condvar_broadcast: where the writer goes if it waits.
Woken == [waiting |-> "woken", sleeping |-> "locking"]

\* Mutant of Notify: a reliable write waits without waking the writer.
NotifyUnlessFull ==
    /\ \/ lpc \in {"notify", "batch"} /\ Go("idle")
       \/ lpc = "idle" /\ shouldRun[Full] /\ ~exit /\ Go("idle")
       \/ lpc = "full" /\ Go("again")
    /\ wpc' = IF wpc \in DOMAIN Woken /\ lpc # "full" THEN Woken[wpc] ELSE wpc
    /\ UNCHANGED <<buffers, shared, turn, reading, arg, history>>

\* notify() after a start, a stop, a batch of messages, in the logger's loop and
\* while a reliable write waits for room
Notify ==
    /\ \/ lpc \in {"notify", "batch"} /\ Go("idle")
       \/ lpc = "idle" /\ shouldRun[Full] /\ ~exit /\ Go("idle")
       \/ lpc = "full" /\ Go("again")
    /\ wpc' = IF wpc \in DOMAIN Woken THEN Woken[wpc] ELSE wpc
    /\ UNCHANGED <<buffers, shared, turn, reading, arg, history>>

\* start_log, called only when the log is not started, waits for the writer to
\* close the file of the last one ...
StartLog(l) ==
    /\ lpc = "idle"
    /\ ~exit
    /\ ~shouldRun[l]
    /\ starts < MaxStarts
    /\ starts' = starts + 1
    /\ arg' = [log |-> l, size |-> 0]
    /\ Go("starting")
    /\ UNCHANGED <<buffers, shared, writer, accepted, first, file, why, faults>>

AwaitClosed ==
    /\ lpc = "starting"
    /\ ~locked
    /\ ~open[arg.log]
    /\ Go("open")
    /\ UNCHANGED <<buffers, shared, writer, arg, history>>

\* ... opens a new one, without the lock (a buffer that cannot be allocated is
\* a file that cannot be opened) ...
OpenFile ==
    /\ lpc = "open"
    /\ \/ /\ open' = [open EXCEPT ![arg.log] = TRUE]
          /\ Go("run")
          /\ UNCHANGED faults
       \/ /\ faults < MaxFaults
          /\ faults' = faults + 1
          /\ open' = [open EXCEPT ![arg.log] = FALSE]
          /\ Go("idle")
    /\ hadError' = [hadError EXCEPT ![arg.log] = FALSE]
    /\ first' = [first EXCEPT ![arg.log] = accepted[arg.log]]
    /\ file' = [file EXCEPT ![arg.log] = <<>>]
    /\ why' = [why EXCEPT ![arg.log] = @ \cap {"overtaken"}]
    /\ UNCHANGED <<shouldRun, buffer, head, count, shared, writer, arg, accepted, starts>>

\* History: the writer has closed the new file, or will, as one of a log that is
\* not running.
Overtaken(l) == ~open[l] \/ (wpc = "close" /\ turn = l)

\* ... and lets the log run, also without the lock.
SetRunning ==
    /\ lpc = "run"
    /\ head' = [head EXCEPT ![arg.log] = 0]
    /\ count' = [count EXCEPT ![arg.log] = 0]
    /\ shouldRun' = [shouldRun EXCEPT ![arg.log] = TRUE]
    /\ why' = IF Overtaken(arg.log)
                THEN [why EXCEPT ![arg.log] = @ \cup {"overtaken"}] ELSE why
    /\ Go("notify")
    /\ UNCHANGED <<open, hadError, buffer, shared, writer, arg, accepted, first, file,
                   starts, faults>>

Fits(l, n) == n <= BufferSize[l] - count[l]

\* write_no_check
PutBytes(l, n) ==
    /\ buffer' = [buffer EXCEPT ![l] = [i \in 0..BufferSize[l] - 1 |->
                    LET k == (i - head[l]) % BufferSize[l]
                    IN  IF k < n THEN accepted[l] + k + 1 ELSE @[i]]]
    /\ head' = [head EXCEPT ![l] = (@ + n) % BufferSize[l]]
    /\ count' = [count EXCEPT ![l] = @ + n]
    /\ accepted' = [accepted EXCEPT ![l] = @ + n]

\* write_message, under the lock.  A message that does not fit is dropped, or,
\* with _need_reliable_transfer, tried again after a notification.
WriteMessage(l, n, reliable) ==
    /\ lpc \in {"idle", "batch"}
    /\ ~locked
    /\ ~exit
    /\ shouldRun[l]
    /\ accepted[l] + n <= MaxBytes[l]
    /\ \/ Fits(l, n) /\ PutBytes(l, n) /\ Go("batch") /\ UNCHANGED arg
       \/ ~Fits(l, n) /\ ~reliable /\ Go("batch") /\ UNCHANGED <<buffer, head, count, accepted, arg>>
       \/ /\ ~Fits(l, n) /\ reliable
          /\ arg' = [log |-> l, size |-> n]
          /\ Go("full")
          /\ UNCHANGED <<buffer, head, count, accepted>>
    /\ UNCHANGED <<open, shouldRun, hadError, shared, writer, first, file, why, starts, faults>>

WriteAgain ==
    /\ lpc = "again"
    /\ ~locked
    /\ IF shouldRun[arg.log] /\ Fits(arg.log, arg.size)
         THEN PutBytes(arg.log, arg.size)
         ELSE UNCHANGED <<buffer, head, count, accepted>>
    /\ Go(IF shouldRun[arg.log] /\ ~Fits(arg.log, arg.size) THEN "full" ELSE "batch")
    /\ UNCHANGED <<open, shouldRun, hadError, shared, writer, arg, first, file, why, starts, faults>>

StopLog(l) ==
    /\ lpc = "idle"
    /\ ~locked
    /\ shouldRun[l]
    /\ shouldRun' = [shouldRun EXCEPT ![l] = FALSE]
    /\ Go("notify")
    /\ UNCHANGED <<open, hadError, buffer, head, count, shared, writer, arg, history>>

ThreadStop ==
    /\ lpc = "idle"
    /\ ~locked
    /\ ~exit
    /\ exit' = TRUE
    /\ shouldRun' = [l \in Logs |-> FALSE]
    /\ Go("notify")
    /\ UNCHANGED <<open, hadError, buffer, head, count, locked, writer, arg, history>>
-----------------------------------------------------------------------------
(* The writer thread: waiting for a log to start                           *)

\* Files that are open when the writer leaves stay open.
Leave ==
    /\ At("done")
    /\ why' = [l \in Logs |-> IF open[l] THEN why[l] \cup {"exit"} ELSE why[l]]

\* The loop condition, read without the lock
Idle ==
    /\ wpc = "idle"
    /\ IF exit THEN Leave ELSE At("entering") /\ UNCHANGED why
    /\ UNCHANGED <<buffers, shared, turn, reading, logger, accepted, first, file, starts, faults>>

\* It takes the lock and waits, whatever happened before.
Wait ==
    /\ wpc = "entering"
    /\ ~locked
    /\ At("waiting")
    /\ UNCHANGED <<buffers, shared, turn, reading, logger, history>>

WakeUp ==
    /\ wpc = "woken"
    /\ ~locked
    /\ At(IF \E l \in Logs : shouldRun[l] THEN "begin" ELSE "idle")
    /\ UNCHANGED <<buffers, shared, turn, reading, logger, history>>

Begin ==
    /\ wpc = "begin"
    /\ IF exit THEN Leave ELSE At("locking") /\ UNCHANGED why
    /\ UNCHANGED <<buffers, shared, turn, reading, logger, accepted, first, file, starts, faults>>

\* The lock is taken before the first round, and again after a wait for data.
StartRound ==
    /\ wpc = "locking"
    /\ ~locked
    /\ locked' = TRUE
    /\ turn' = Mission
    /\ At("look")
    /\ UNCHANGED <<buffers, exit, reading, logger, history>>
-----------------------------------------------------------------------------
(* The writer thread: a round over the logs                                *)

\* A log whose data is in two parts is looked at once more.
NextTurn(part) ==
    /\ turn' = IF part \/ turn = Full THEN turn ELSE Full
    /\ At(IF ~part /\ turn = Full THEN "decide" ELSE "look")

Release(w) == locked' = FALSE /\ At(w)

\* Mutants of Worth: a chunk must be larger than the minimum; the rest of a stopped
\* log is not worth a write.
WorthIfLarger(l, c) == c.size > MinChunk[l] \/ c.part \/ (~shouldRun[l] /\ c.size > 0)

WorthWhileRunning(l, c) == c.size >= MinChunk[l] \/ c.part

Worth(l, c) == c.size >= MinChunk[l] \/ c.part \/ (~shouldRun[l] /\ c.size > 0)

Look ==
    /\ wpc = "look"
    /\ reading' = ReadPtr(turn)
    /\ LET worth == Worth(turn, ReadPtr(turn))
       IN \/ worth /\ Release("write") /\ UNCHANGED turn
          \/ ~worth /\ shouldRun[turn] /\ Release("fsync") /\ UNCHANGED turn
          \/ ~worth /\ shouldRun[turn] /\ NextTurn(FALSE) /\ UNCHANGED locked
          \/ ~worth /\ ~shouldRun[turn] /\ Release("close") /\ UNCHANGED turn
    /\ UNCHANGED <<buffers, exit, logger, history>>

FSync ==
    /\ wpc = "fsync"
    /\ ~locked
    /\ locked' = TRUE
    /\ NextTurn(FALSE)
    /\ UNCHANGED <<buffers, exit, reading, logger, history>>

\* write_to_file, without the lock: all of the chunk or less of it
Write(k) ==
    /\ wpc \in {"write", "retry"}
    /\ open[turn]
    /\ k = reading.size \/ faults < MaxFaults
    /\ faults' = IF k = reading.size THEN faults ELSE faults + 1
    /\ file' = [file EXCEPT ![turn] = @ \o [i \in 1..k |-> buffer[turn][reading.from + i - 1]]]
    /\ reading' = [reading EXCEPT !.written = k]
    /\ At("written")
    /\ UNCHANGED <<buffers, shared, turn, logger, accepted, first, why, starts>>

\* An error is retried once.
WriteFails ==
    /\ wpc \in {"write", "retry"}
    /\ ~open[turn] \/ faults < MaxFaults
    /\ faults' = IF open[turn] THEN faults + 1 ELSE faults
    /\ At(IF wpc = "write" THEN "retry" ELSE "failed")
    /\ UNCHANGED <<buffers, shared, turn, reading, logger, accepted, first, file, why, starts>>

\* Mutant of Written: a short write counts as a whole one.
WrittenWhole ==
    /\ wpc = "written"
    /\ ~locked
    /\ count' = [count EXCEPT ![turn] = @ - reading.size]
    /\ locked' = TRUE
    /\ NextTurn(reading.part)
    /\ UNCHANGED <<open, shouldRun, hadError, buffer, head, exit, reading, logger, history>>

\* mark_read; a log that was stopped is closed if all that was available before
\* the write is written, whatever was added since.
Written ==
    /\ wpc = "written"
    /\ ~locked
    /\ count' = [count EXCEPT ![turn] = @ - reading.written]
    /\ IF ~shouldRun[turn] /\ reading.written = reading.size /\ ~reading.part
         THEN /\ At("close")
              /\ why' = IF count[turn] > reading.written
                          THEN [why EXCEPT ![turn] = @ \cup {"added"}] ELSE why
              /\ UNCHANGED <<locked, turn>>
         ELSE locked' = TRUE /\ NextTurn(reading.part) /\ UNCHANGED why
    /\ UNCHANGED <<open, shouldRun, hadError, buffer, head, exit, reading, logger,
                   accepted, first, file, starts, faults>>

Failed ==
    /\ wpc = "failed"
    /\ ~locked
    /\ hadError' = [hadError EXCEPT ![turn] = TRUE]
    /\ shouldRun' = [shouldRun EXCEPT ![turn] = FALSE]
    /\ At("close")
    /\ UNCHANGED <<open, buffer, head, count, shared, turn, reading, logger, history>>

\* Mutant of CloseFile: the descriptor of the closed file is kept.
CloseFileOnly ==
    /\ wpc = "close"
    /\ ~locked
    /\ locked' = TRUE
    /\ head' = [head EXCEPT ![turn] = 0]
    /\ count' = [count EXCEPT ![turn] = 0]
    /\ NextTurn(reading.part)
    /\ UNCHANGED <<open, shouldRun, hadError, buffer, exit, reading, logger, history>>

\* close_file, then, with the lock, reset.
CloseFile ==
    /\ wpc = "close"
    /\ ~locked
    /\ locked' = TRUE
    /\ open' = [open EXCEPT ![turn] = FALSE]
    /\ head' = [head EXCEPT ![turn] = 0]
    /\ count' = [count EXCEPT ![turn] = 0]
    /\ NextTurn(reading.part)
    /\ UNCHANGED <<shouldRun, hadError, buffer, exit, reading, logger, history>>

\* After a round: idle when both files are closed, a wait for data while a log
\* runs, else another round.
Decide ==
    /\ wpc = "decide"
    /\ \/ (\A l \in Logs : ~open[l]) /\ Release("idle") /\ UNCHANGED turn
       \/ /\ \E l \in Logs : open[l]
          /\ \E l \in Logs : shouldRun[l]
          /\ Release("sleeping")
          /\ UNCHANGED turn
       \/ /\ \E l \in Logs : open[l]
          /\ \A l \in Logs : ~shouldRun[l]
          /\ turn' = Mission
          /\ At("look")
          /\ UNCHANGED locked
    /\ UNCHANGED <<buffers, exit, reading, logger, history>>
-----------------------------------------------------------------------------
LoggerSteps == Notify \/ AwaitClosed \/ OpenFile \/ SetRunning \/ WriteAgain

Calls ==
    \/ \E l \in Logs : StartLog(l) \/ StopLog(l)
    \/ \E l \in Logs : \E n \in 1..MaxMessage[l], r \in BOOLEAN : WriteMessage(l, n, r)
    \/ ThreadStop

WriterSteps ==
    \/ Idle \/ Wait \/ WakeUp \/ Begin \/ StartRound \/ Look \/ FSync
    \/ \E k \in 0..reading.size : Write(k)
    \/ WriteFails \/ Written \/ Failed \/ CloseFile \/ Decide

Next == LoggerSteps \/ Calls \/ WriterSteps

Spec == Init /\ [][Next]_vars

\* Both threads go on with what they have begun; the logger, whose loop is
\* periodic, notifies again and again while the full log runs.  A mutex is given
\* to the thread that waits for it.
Fairness == WF_vars(LoggerSteps) /\ WF_vars(WriterSteps) /\ SF_vars(WriteAgain)

FairSpec == Spec /\ Fairness
-----------------------------------------------------------------------------
(* Properties                                                              *)

\* Every variable keeps its type; a buffer never holds more than its size.
TypeOK ==
    /\ {open, shouldRun, hadError} \subseteq [Logs -> BOOLEAN]
    /\ \A l \in Logs : buffer[l] \in [0..BufferSize[l] - 1 -> Nat]
    /\ \A l \in Logs : head[l] \in 0..BufferSize[l] - 1 /\ count[l] \in -BufferSize[l]..BufferSize[l]
    /\ {locked, exit} \subseteq BOOLEAN
    /\ wpc \in {"idle", "entering", "waiting", "woken", "begin", "locking", "look", "fsync",
                "write", "retry", "written", "failed", "close", "decide", "sleeping", "done"}
    /\ turn \in Logs
    /\ reading \in [from : Nat, size : Nat, part : BOOLEAN, written : Nat]
    /\ lpc \in {"idle", "starting", "open", "run", "notify", "batch", "full", "again"}
    /\ arg \in [log : Logs, size : Nat]
    /\ {accepted, first} \subseteq [Logs -> Nat]
    /\ file \in [Logs -> Seq(Nat)]
    /\ why \in [Logs -> SUBSET {"added", "overtaken", "exit"}]

\* The file of a log is what the logger wrote since it started the log, from the
\* first byte on, without a gap, a repetition or a change of order, whatever was
\* added, written short or tried again meanwhile.
FileIsPrefix ==
    \A l \in Logs : "overtaken" \notin why[l] =>
        /\ Len(file[l]) <= accepted[l] - first[l]
        /\ \A i \in 1..Len(file[l]) : file[l][i] = first[l] + i

\* No log is under way: it was stopped and its file is closed.
Closed(l) == ~open[l] /\ ~shouldRun[l] /\ (arg.log = l => lpc \notin {"starting", "open", "run"})

\* A log that was stopped has all its messages in its file, unless writing it
\* failed or the writer closed it too early.
StopWritesAll ==
    \A l \in Logs :
        Closed(l) => \/ Len(file[l]) = accepted[l] - first[l]
                     \/ hadError[l]
                     \/ why[l] # {}

\* The logger waits in start_log for a file to be closed, and the writer, which has
\* missed the notification of the stop, waits for another one: for ever.
Stuck == lpc = "starting" /\ open[arg.log] /\ wpc \in DOMAIN Woken

\* While the full log runs, a chunk worth writing leaves its buffer: the
\* notifications of the logger's loop make up for those the writer missed, but
\* for a restart of a log that gets stuck.
FullLogDrained ==
    (open[Full] /\ shouldRun[Full] /\ count[Full] >= MinChunk[Full])
        ~> (count[Full] < MinChunk[Full] \/ ~shouldRun[Full] \/ Stuck \/ Wrapped)

\* A reliable write does not wait for ever: the writer makes room or the log stops.
ReliableWriteReturns == lpc = "full" ~> lpc = "batch" \/ Wrapped

\* start_log waits for the thread to close the file of a log that was stopped just before
\* (log_writer_file.cpp:70), and then goes on, unless it gets stuck.
StartReturns == lpc = "starting" ~> lpc = "open" \/ Stuck \/ Wrapped
=============================================================================
