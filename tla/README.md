# Verification of RT-FRAME

TLA+ models of the concurrent core of RT-FRAME (a PX4-derived flight-control
framework on Zephyr), the TLC runs that check them on small instances, and
machine-checked proofs of what matters most about them.

Paths below are relative to the repository's `src/` directory. "The code" is
that directory; a doc or a comment is quoted only where a run shows that the
code does something else.

## Inventory

| Component | State it keeps | Operations | Interacts with |
|---|---|---|---|
| uORB topic instance (`middleware/uorb/uORB/uORBDeviceNode`, `Subscription*`, `Publication`) | ring of messages, 32-bit generation, `_data_valid`, `_advertised`, callback list, spinlock; per subscription a last generation, an interval and a registration | advertise, publish, copy, updated, (un)register callback, blocking wait | every module; work queues (a callback submits work), semaphores |
| uORB manager, device master, C interface (`uORBManager`, `uORBDeviceMaster`, `uORB.cpp`) | list of nodes, bitmap of existing nodes, table of descriptor slots | create, find, advertise_multi, orb_open/close/poll | topic instances |
| zbus shim (`middleware/zbus`) | none of its own | publish, read, wait on a Zephyr channel | Zephyr |
| Parameter store (`lib/parameters/parameters.cpp`) | two layers (user values, runtime defaults), the unsaved and active bit sets, the file, `file_mutex` | set, reset, reset all, set default, import, export, save, load | autosave, sparse layer, BSON codec, file system, `parameter_update` topic |
| Autosave (`lib/parameters/autosave.cpp`) | `_scheduled`, `_disabled`, `_retry_count`, a delayable work item | request, enable, run | parameter store, work queue |
| Sparse layer (`lib/parameters/DynamicSparseLayer.h`) | sorted array of slots, its capacity, a mutex | store, get, reset, grow | malloc, parent layer |
| Exhaustive and constant layers, primary/remote parameters, flash backend | arrays and bit sets; request/response topics | get, store, reset; synchronisation with a second core | parameter store |
| Ring buffer (`lib/ringbuffer`) | bytes, two atomic indices | push_back, push_back_partial, pop_front, (de)allocate | MAVLink forwarding, console |
| Variable-length ring buffer, console buffer | header + packet in one ring; a ring of text behind a mutex | push, pop, read, write | MAVLink, shell |
| Core (`core/`) | work items (`Periodic`, `Thread`, `Event`), up to eight work queues, start-up levels, two start-up semaphores | start, stop, schedule, run, wait for the card or the data manager | every module |
| Param loader (`modules/param_loader`) | none | mount the card, load the parameters, give both start-up semaphores | parameters, core |
| Data manager (`modules/dataman`, `lib/dataman_client`) | a file of fixed-size items, a client counter; per client a state machine and a cache | get id, read, write, clear; synchronous and asynchronous clients | request/response topics of queue length 1, file system |
| Log writer (`modules/logger/log_writer_file.cpp`) | two buffers (full and mission log), each with a descriptor, `_should_run`, counters; a mutex and a condition variable | start_log, stop_log, write, the writer thread | logger, file system |
| Logger, MAVLink log streaming, message format | subscriptions, timers, a backend mask | start/stop, write, statistics | log writer, topics |
| MAVLink (`modules/mavlink_new`) | instances, receiver, mission transfer, parameter transfer, FTP session, command queue, event buffer, shell | one state machine each | topics, dataman, parameters, serial ports and sockets |
| Timesync, tinybson, heatshrink, perf, hrt, CRC, mathematics and geodesy | local | pure or sequential | their callers |
| Messages, translation node, boards, build, tools | generated or declarative | none | none |

Hard behaviours: the callback list of a topic is walked without its lock; the
ring buffer is lock-free; a parameter is set, marked and saved in separate
steps while another thread saves; the only copy of the settings is truncated
and rewritten; the sparse layer releases its mutex in the middle of a growth;
the log writer drops its mutex around the file system; requests and answers
share topics that hold one message; acknowledgements and retries meet in the
command sender. `PROJECT.json` lists each of them at its line ("hazards"),
with the property that covers it or the reason why none does. Where the code does go
wrong at such a line, the model records that as a cause and the property says that
there is no other; the hazard's note then says so.

What makes each component correct:

* topic: an update is new, in order and recent; a waiting subscriber is woken;
* ring buffers: what goes in comes out once, in order, unaltered, without a
  data race;
* parameters: every change reaches the file, or a known cause stops it; a save
  covers all changes made before it;
* sparse layer: it is a map, whatever two threads do while it grows;
* log writer: a log that was started is written by the thread until stopped,
  and stopping writes what was logged;
* data manager: a client gets the answer to its own request, once;
* MAVLink state machines: a transfer ends, what is received is what was sent,
  a command is retried or given up.

## Plan

1. `DeviceNode` over `Topic` (abstract): the topic. **Done, proved.**
2. `Ringbuffer` over `Pipe` (abstract). **Done, proved.**
3. `Parameters`: store, autosave, file, boot. **Done, proved.**
4. `DynamicSparseLayer` over `ParamMap` (abstract), with threads that store the
   same parameter. **Done, proved.**
5. `LogWriterFile`: both logs, the writer thread, short and failing writes.
   **Done, proved.**
6. `Dataman`: the server and its blocking and asynchronous clients over request
   and response topics of length one. **Done, proved.** The cache is left out.
7. `MissionManager`: the MAVLink mission protocol on several instances, the
   mission topic, the storage and restarts. **Done, proved.**
   `CommandSender`: repeated commands. **Done, proved.**
8. `DeviceMaster`: nodes, instances and descriptors. **Done, proved.**
9. Dropped, each for the reason given under "Not modelled": events and log
   streaming over MAVLink, the variable-length ring, the console buffer, work
   queues and start-up.
10. Every safety property of the runs is a theorem; liveness stays with TLC.

The plan keeps one run per question and drops a weaker run for a stronger one
as components arrive.

## Modules

### Topic and DeviceNode: one uORB topic instance

`DeviceNode` has the node's fields as variables and, for every thread, a
program counter. `StoreInto` is the critical section of
`DeviceNode::publish`: the spinlock masks interrupts, so it is one step. The
walk over the callbacks is outside the lock: `Iterate` is one `++` of the list
iterator (with the list's own rule that a removed node has no sibling), `Call`
one virtual call. A subscriber is a `SubscriptionBlocking` (`UpdateBlocking`,
`Check`, `Take`, `Timeout`, `Recheck`, `CopyUpdate` are the steps of
`updatedBlocking` and `updateBlocking`) or a `SubscriptionCallbackWorkItem`
(`RunWork`, `Check`, `CopyUpdate` are its handler, shaped like
`DemoSubCallback::handler`). `Poll` copies without asking first.

* A failed allocation of the message buffer is `allocated = FALSE`.
* A message is its number in the order of publication. `sent`, `got`, `lost`
  are history. `lost[s]` records the four ways in which the code, by design or
  not, does not call a subscriber that has an unread message: the walk was cut
  by another subscriber that left ("cut"), its interval had not elapsed
  ("interval"), the node was not advertised yet while its first message was
  announced ("advertise"), or the message was older than the registration of a
  work item ("late"). `NoLostWakeup` says that there is no fifth way.
* A subscription object outlives its registration, as its destructor ensures.
* `GenMod` is the width of the generation counter; see "assumptions".

`Topic` is the promise, taken from the repository's unit test: the last
`QueueSize` messages are kept, and a subscriber reads them one by one, each
once. `ImplementsTopic` is the refinement with `seen <- lastGen`. It holds for
queue length 1 and not for longer queues (below).

### Pipe and Ringbuffer

Every atomic load and store of the two indices and every byte copied is a step
of the producer or of the consumer. The loads of the other side's index are in
the step that begins the copy (`PushBack`, `PushBackPartial`, `PopFront`): the
value a side reads there can only become better for it. `StoreEnd` and
`StoreStart` are the release stores. The two `memcpy` of a wrapped copy are
`Place`. `Pipe` is a bounded FIFO of bytes; `ImplementsPipe` is the refinement.
A byte is its number in the order of pushing, which is what "in order and
unaltered" needs.

### Parameters

Clients call `param_set`, `param_reset`, `param_reset_all`,
`param_set_default_value`, `param_save_default`, `param_load_default` and the
autosave's `enable`; the worker is the delayable work item of the autosave. One
of the clients is the `ParamLoader` task. At boot it waits for the card ("mount"),
then makes the autosave instance and names the file (`ParamInit`), loads the file and
saves one if there is none; without a card it gives up before any of this (`NoCard`).
The other clients need not wait for it: before `ParamInit` they change parameters in
memory, and their saves and loads fail, because without a file name
`parameters.cpp:881` falls back on a flash stub that returns -1 (`NoDefaultFile`). The layers are locked per access and `file_mutex`
serialises saves, so the steps are: read the old value, store, mark, request;
open (truncate), one entry after the other, finish, clear the marks.

* The file is `missing`, `torn` (opened for writing and not finished) or
  `whole`; `Finish` writes the document size that makes it valid.
* `Crash` loses the memory and what the encoder had not flushed.
* A load does not take `file_mutex`: it reads entry by entry while the file is
  rewritten. Storing and marking one imported entry is a single step.
* Time is abstracted: the delay of an autosave can be over at any moment.
* `why` records why the file was left behind for good: a setter that overwrote
  another's value with the old one and so saw "no change" ("stale test"), a
  default value set without a save ("default value"), a change without an autosave to
  request, as there is no card or `param_init` has not run ("no card", "no autosave"),
  autosave disabled, a save
  that failed for the last time ("gave up", "save failed"), or a load disturbed
  by a change or a save ("load"). Queueing a new autosave clears it.
  `NoLostSave` says that nothing else loses a save.

### ParamMap and DynamicSparseLayer

The array is the sequence of used slots together with the address `malloc` gave
it, because `_grow` detects another thread's growth by comparing addresses and
`malloc` reuses them. The mutex makes each access one step; `_grow` releases it
around `malloc` and `free`, and `store` goes on after it with the index it
looked up before: `Store`, `Malloc`, `Exchange`, `Free`, `Insert`.
`Index` is the code's binary search (a function of the range that is left, `<<l, r>>`),
`Sorted` what `qsort` may return (equal keys in any order). `Stores` says which parameters each thread stores; in the
run the two threads share one.
`result` is what `store` returned to its caller.

`ParamMap` is the promise of a parameter layer: a store takes effect and says so; only a
store of a parameter that is not in the map may be refused, only when the layer was
full, grew, and got no memory or room that others had used up again, and then the caller
is told. `ImplementsMap` is the refinement; `Growth` says how far a thread is with the
growth that its store needs, so that a refusal without one is not a step of the map.

Two things break the promise, and the properties say that nothing else does:

* `Stale`: a thread inserts a parameter that another inserted while it grew the
  array, because the index is not looked up again (`DynamicSparseLayer.h:87`).
  From then on the parameter is in the array twice (`Twice`), and `ImplementsMap`
  asks for no more. The layer's own unit test (`ParameterTest.cpp:76`) stores from
  one thread.
* `Missed`: `malloc` puts the new array where the old one had been before, and
  the exchange takes a grown array for the one it knows
  (`DynamicSparseLayer.h:223`). A shorter array is installed, and a behaviour ends
  there (`Roomy`), as what follows is written outside of it.

### LogWriterFile

The logger thread calls `start_log` (`StartLog`, `AwaitClosed`, `OpenFile`,
`SetRunning`, `Notify`), `stop_log`, `thread_stop` and `write_message`; the writer
thread runs `LogWriterFile::run`. Between them are the mutex `_mtx` and the
condition `_cv`. What the logger does under the lock is one step, whose guard is
`~locked`; the writer keeps the lock over several steps (`Look`, `NextTurn`,
`Decide`) and drops it around `write`, `fsync` and `close`. `OpenFile` and
`SetRunning` are two steps because `start_log` opens the file and sets
`_should_run` without the lock. A write to a descriptor that the writer has
closed is a failing write (`WriteFails`).

* A byte is its number among all bytes accepted for its log, so that a gap, a
  repetition or an old byte of the ring is seen in the file. The record of a
  drop-out is part of the message it precedes. A message longer than the buffer
  is several messages. A buffer that cannot be allocated is a file that cannot
  be opened. `fsync` is only the moment at which the lock is dropped.
* `why` records why the writer closed a log that has unwritten messages, or left
  it open: messages were added while it wrote ("added"), it took a log that was being opened for one that should not run ("overtaken"),
  or the thread was told to end ("exit"). `StopWritesAll` says that there is no
  other cause but a failed write. After "overtaken" the writer may still be
  writing bytes of the previous session while `start_log` resets the counters:
  `FileIsPrefix` does not speak of such a log, and a behaviour ends where `_count`,
  a `size_t`, has gone below zero (`Wrapped`).
* The writer waits without looking at `_should_run` (`Wait`), or after looking at
  that of either log (`Decide`), so that it may sleep with the file of a stopped log
  open. A `start_log` of that log then waits in `AwaitClosed`, and nobody is left to
  notify: `Stuck`. It takes a fast stop and start, as in the rotation of
  `logger.cpp:690` or a restart of the mission log; a full log that runs meanwhile is not
  written any more. `StartReturns` and `FullLogDrained` say that nothing else keeps
  `start_log` from returning, or the full log from being written.

### MissionManager

One `MavlinkMissionManager` per MAVLink instance, each run by the receiver thread
of its instance; the static members, the storage behind the data manager and the
`mission` topic are shared without a lock. A handler runs up to its next call of
the data manager, where its thread blocks, so that a handler is one action up to
the call and others after it. `call[i]` is the call and what remains to be done:

| `call[i].op` | blocked in | goes on with |
|---|---|---|
| `claim` | between the test of `_transfer_in_progress` and its assignment | `Claim` |
| `item` | the write of an uploaded item | `ItemWritten` |
| `state`, `stats` | `update_active_mission`, `update_geofence_count` and `update_safepoint_count` | `StateWritten`, `StatsWritten`, which end with what the caller (`then`) does |
| `load`, `check` | reading the statistics in `handle_mission_request_list`, `check_active_mission` | `ListLoaded`, `CheckLoaded` |
| `read` | reading the item to send | `ItemRead` |
| `clear` | nothing: the next type of `MISSION_CLEAR_ALL` | `ClearNext` |

Any message may come at any time, which covers every loss, repetition and
reordering on the link; a `Timeout` of five seconds and the end of the power
(`Restart`) too. A checksum is the sequence of items it was computed from, so
that equal checksums are equal plans. `raced` records that instances got in each
other's way (`Race`: two uploads of one type, two changes of it at once,
statistics loaded, a plan read or an upload begun during a change, an old topic
that replaces a newer plan); `changed` the downloads whose plan has not been the
active one ever since it was announced.

### Dataman

The server takes a request and does it in one step (`GetId`, `Write`, `Read`,
`Clear`), as nobody else uses the store, and publishes its response in another
(`Answer`). Both topics hold one message: a request that is not taken yet, and a
response that is not read yet, is overwritten by the next. A client blocks in
`syncHandler` (`CallSync`, `Receive`, `Ignore`, `Repeat`, `GiveUp`) or has an
asynchronous call under way that its owner drives with `update`
(`UpdateAnswered`, `UpdateUnanswered`, `Finish`); both take from the same
subscription. A write carries a number that is also its value; `seen` is what
the item of a call has held since the last response for it before the call began: a
value that was overwritten before the call counts as fresh as long as nobody has been
told of what overwrote it. A failed write may leave the
old value, the new one or neither (`Torn`). A failed `Clear` leaves the rest of the
items and reports a failure, or success when it was the read of an item that failed
(`dataman.cpp:571`).

### CommandSender

Every function of `MavlinkCommandSender` holds the semaphore throughout, so it is
one step: `HandleVehicleCommand` when a channel reads a command,
`HandleCommandAck`, and `CheckTimeout` of a channel, which goes through the whole
list. A channel reads the commands in their order and may miss some: its
subscription jumps to the latest, or the command is not for it. `order` is what the timestamps of `TimestampedList` are compared for, and `Without`
what is left of it when slots are dropped or overwritten. `Kind`
says which commands an acknowledgement cannot tell apart. `cause` records that a
command was displaced ("overwritten"), was put into the list once more by a
channel that read it late ("again"), or that its acknowledgement was taken for
that of an equal command ("shadowed"). `Stuck` is the command that a stopped
channel keeps in the list: the channel is behind the others, which wait for it, or no
other sends the command.

### DeviceMaster

The table of nodes is read without a lock and written under one. `Find` and
`Create` are `getOrCreateNode` before and under the lock; `StoreNode`, `Link` and
`SetExists` its three writes, which readers may see apart. `Scan` is one turn of
the search for a free instance in `orb_advertise_multi`, `Mark` its end.
`AllocSlot`, `Access` and `Unsubscribe` are the descriptors of the C interface.
An allocation fails when `failures` allows it. What is done with a node
afterwards is in `DeviceNode`, where the topic is one node.

## Runs

| Run | Asks | Result |
|---|---|---|
| `uorb_node` | two publishers, one blocking and one leaving work-item subscriber, queue length 1: type, `NoLostWakeup`, `ImplementsTopic`, `SleeperServed` (liveness) | holds |
| `uorb_queue` | queue length 3, five publications, a timed and a throttled subscriber: `RingHoldsLatest`, `UpdateDeliversFresh` | holds |
| `uorb_queue_order` | `ImplementsTopic` for queue length 3 | violated: one copy jumps to the current generation, `uORBDeviceNode.cpp:107` |
| `ringbuffer` | a ring of 8 bytes, 16 bytes pushed in chunks of 1 to 8, every interleaving | holds |
| `params` | two clients, two parameters, the autosave, a failing write: `NoLostSave`, `ExportFaithful` | holds |
| `params_live` | a crash at any moment, two attempts: `ChangesAreSaved` (liveness; `NoLostSave` over a crash is proved) | holds |
| `layer` | two threads with a parameter of their own and a shared one, growing one array whose addresses are reused: `ArrayFits`, `NoLeak`, `ImplementsMap` | holds |
| `log_writer` | three starts, every split, one short or failed write: `FileIsPrefix`, `StopWritesAll`, `FullLogDrained`, `ReliableWriteReturns` and `StartReturns` (liveness) | holds |
| `mission` | two instances, two kinds of plans of two items, two commands, two faults or restarts: type, `SavedIntact`, `MissionIntact`, `Agree`, `FlagHeld`, `AcceptedIsSaved`, `DownloadFaithful` | holds |
| `dataman` | two clients, one of them also asynchronous, two calls, one failure: `UniqueIds`, `ReadFresh`, `WriteDone`, `AsyncEnds` (liveness) | holds |
| `command_sender` | three commands, two of them equal, two slots, two channels, one acknowledgement, one stop: type, `AckedNotResent`, `CommandsEnd` (liveness) | holds |
| `device_master` | three publishers (two look for an instance), two subscribers, two topics, two instances, one descriptor, one failed allocation: `OneNode`, `ListComplete`, `OwnInstance`, `SlotsOwned`, `LockHeld` | holds |

Bounds. `uorb_queue`: five publications over three slots overtake a subscriber
by more than the queue and reuse every slot. `uorb_node`: two publications by
two publishers are enough for two walks of the list to be under way at once,
with a registration, a removal and a wait between any two of their steps.
`ringbuffer`: 16 bytes over 8 slots make both indices wrap, with copies that are
split and copies that end exactly at the end of the buffer. `params`: two
operations by two clients and the worker are enough for a change before, during
and after an export; one failure and one retry for "fails, then succeeds" and
"fails until given up". `layer`: one preallocated slot, growth by one and three
parameters make each thread grow, find its array replaced and try again; four
addresses are enough for one to be handed out again. `log_writer`: a buffer of
three bytes written in chunks of two, and one of two bytes written byte by byte,
give chunks that end at the end of the buffer, chunks that are split and messages
that do not fit; four bytes go round the larger buffer (with five and three bytes, 7.7
million states, the two invariants hold as well); three starts are the least for a log that is restarted while the
other runs; with two, the full log would never be seen behind a `Stuck` restart of the
mission log. `mission`: two items are the
least for which a plan can be half written; two commands are two uploads, an
upload against a download, a clear or a change of either kind, and two faults a
failed write followed by another or by a restart (three commands without faults,
2.3 million states, hold as well). `dataman`: three identifiers, of which 0 is none, are used
up by a repeated request; two calls of two clients overwrite each other's request
and response in every order; both clients asynchronous (403 thousand states)
holds as well. `command_sender`: two slots for three commands displace the oldest; one
retry gives "behind", "level" and "given up"; the equal commands and one stop give
every recorded cause. `device_master`: two instances for two publishers that look
for one, a third that is fixed and one descriptor for two subscribers make
instances and descriptors run out; searches that start at instance 1 (4.4 million
states) hold as well. The
bounds `MaxPublications`, `MaxPushed`, `MaxBytes`, `MaxStarts`, `MaxFaults`, `MaxOps`, `MaxFailures`,
`MaxCrashes`, `MaxCommands`, `MaxCalls`, `MaxAcks`, `MaxStops` and `N` are
guards of the modules; `MaxAttempts` and `MaxRetries` are the code's constants
(3, and 5 for the layer), smaller in the runs, as are `MaxItems`, `MaxId`, `Slots`,
`Retries`, `MaxInstances` and `MaxHandles`.

Deadlock checking is off in every run: the bounds stop the system, and a
system whose clients make no further call is at rest.

Fairness. In `DeviceNode` a publisher finishes the walk it has begun, a thread
that was woken and a work item that was queued go on, time passes; no thread is
obliged to publish or to wait. In `Parameters` a thread goes on with a call it
has begun and the work queue runs queued work; failures, crashes and further
attempts of a load are never obliged. In `LogWriterFile` both
threads go on with what they have begun; the logger's loop notifies again and
again while the full log runs (`logger.cpp:671`), but nothing notifies for the
mission log alone; a reliable write gets the mutex it waits for
(`SF_vars(WriteAgain)`), because Zephyr hands a mutex to the waiting thread of
the highest priority and the logger's is above the writer's. Nothing obliges the
logger to start, to stop or to write. In `Dataman` the server goes on while there
is something to do, the time of a blocking call passes, and the owner of an
asynchronous call keeps calling `update`, which looks at the topic more often than
the server answers and sends again after its timeout (strong fairness: a blocking
call of the same client may take the answer, but not always). In `CommandSender` a
channel that is not stopped goes on checking and timeouts pass; nothing has to be
read or acknowledged. `MissionManager`, `DeviceMaster`, `DynamicSparseLayer`
and `Ringbuffer` state safety only and have no fairness. This is what a preemptive kernel whose
threads all get processor time gives; weak fairness is enough everywhere
else; a contended `file_mutex` could be taken by others for ever, which the bound
on calls excludes.

## Proofs

Eight modules prove for every value of the constants what the runs show for small
ones: any number of threads, clients, instances, channels, items and steps.

`DeviceNodeProofs`:

* `TypeCorrect`.
* `DataCorrect`: `RingHoldsLatest` and `NeverAhead` for any number of publishers
  and subscribers and any queue length. They are not inductive: `DataInv` adds
  that the generation is the number of publications, that no slot holds a
  message of the future, and that a subscriber about to copy has an unread
  message (nothing takes it away between the test and the copy).
* `FreshUpdates`: `UpdateDeliversFresh`, from `DataInv`.
* `QueueOfOneImplementsTopic`: the refinement for `QueueSize = 1`, each step a
  step of `Topic` or a stutter.
* `WakeupsArrive`: `NoLostWakeup`. It needs `ListInv` (the list has no
  duplicates and holds exactly the registered subscribers) and lemmas on what
  removing and appending do to the successor relation `Coming`.

`BufferProofs` proves both byte rings, the lock-free one and the buffers of the log
writer, in one module: their indices wrap at the end of a buffer in the same way
(`Remainder`, `Wrap`, `Advance` reduce `%` to one addition or subtraction), and what is
shown of them is the same: the bytes held are the next ones, in order. For that reason
`Ringbuffer` calls its specification `RingInit`, `RingNext` and `RingSpec`.

* `RingTypeCorrect`, `RaceFree`, `ContentCorrect`, `RingIsPipe`: the lock-free ring never
  races, is correct byte by byte and implements `Pipe`, for every power-of-two size. The
  inductive invariant is `RingInv` in terms of the number of bytes held, and that a buffer
  that is not allocated is empty.
* `LogTypeCorrect`, `FilesArePrefixes` (`FileIsPrefix`) and `StopsWriteAll`
  (`StopWritesAll`): the log writer, for buffers, chunks and messages of every size that
  the constants allow, any number of starts, short and failed writes. The invariant is
  the types (`Typed`) and, for each log, that a log being started does not run yet
  (`Starting`) and, unless the writer took it while it was being opened for one that should
  not run ("overtaken"):
  * `Holds`: the buffer holds the last bytes accepted, each in its place. `PutIs` shows
    that a message added leaves the oldest byte where it is, `TakeIs` what `mark_read` leaves;
  * `ChunkOK`: the chunk the writer writes without the lock is the oldest part of the buffer
    until it is marked as read, whatever is added meanwhile, and its file is open; a log
    about to be closed does not run, and has nothing left but for an error or "added";
  * `FileOK`: `FileIsPrefix` for the log;
  * `BalanceOK`: what was accepted since the start is in the file or in the buffer; a chunk
    written and not yet marked is in both (`Marked`);
  * `Resting`: a closed log does not run and its buffer is empty, so that a start finds
    nothing of the previous session.

  `FileIsPrefix` alone is not inductive because a write copies whatever the chunk points
  to; `StopWritesAll` because it speaks of the moment at which all is over. TLC checked
  the invariant before it was proved, on the run's instance and with three starts and two
  faults (13.8 million states).

`ParametersProofs`: `TypeCorrect`, `ExportsAreFaithful` (`ExportFaithful`) and `NoSaveIsLost`
(`NoLostSave`), for any number of threads and parameters, any failures and a crash at any
moment. None of the three is inductive. The invariant is `TypeOK` and

* `LockOK`: `file_mutex` is held by exactly the thread that is saving, and the file is torn
  until that thread has finished its export; without it two exports would mix;
* `ExportOK`: `ExportFaithful`, and the parameters still to be exported are those that were
  set when the export began. A parameter that anybody touched since is not spoken of;
* `ScheduleOK`: an autosave that is scheduled is queued or about to be, so that a request
  that finds it scheduled may return;
* `LoadOK`, `LoadedOK`: a load that nobody disturbed has taken over what the file has;
* `CoverOK`: what an export misses because it passed the parameter before the change, some
  other thread, the queued autosave or a recorded cause answers for;
* `AnsweredOK`: whenever the file is not current, somebody answers for it. A thread does
  (`Responsible`) from the moment it has stored a change it noticed until an autosave is
  queued. `NoLostSave` is the case in which everybody is at rest. The proof of a step says
  who takes the duty over (`TakesOver`, `HandsOver`): a setter that finds the autosave
  scheduled hands it to the thread that is about to queue it.

`DynamicSparseLayerProofs`:

* `MemoryOwned`: `NoLeak`, from `Memory /\ NoLeak /\ Apart /\ Sizes`. It needs `Apart`: the
  arrays that growing threads hold are different from each other and from the layer's, which
  `malloc` gives and the exchange keeps.
* `ContentsCorrect`: `Contents`, the types, that the slots are in the order of their
  parameters, and what a thread that is storing wants to store.
* `ArrayAlwaysFits`: `ArrayFits`. That the slots in use fit follows from `Sizes` and from
  what an insertion and the change of a slot do to the number of slots.
* `LayerIsMap`: `ImplementsMap`. The heart is `SearchIs`: the binary search finds a place of
  the parameter, and finds one whenever the slots are ordered and one has it. The recursion
  is over the range that is left; that its function exists (`SearchExists`) and is right is
  shown from a range of least length that would contradict it. With it `InsertIs`,
  `UpdateIs` and `RemoveIs` say what a store, a change and a reset do to the value of every
  parameter, for whatever order `qsort` gives, and each step is a step of `ParamMap`, a
  stutter, or the recorded cause. That a thread which is refused is one whose growth got no
  memory, or found the array full again, follows from where it is (`Growth`).

`DatamanProofs`: the invariant is `TypeOK` and

* `Identity` (an identifier on its way to a client, in the server, in the topic or
  taken, is nobody else's), from which `IdsUnique`;
* `Contents` (what a response says of an item was there during every read that it may
  answer), from which `ReadsFresh`;
* `Stored` (a response that reports a write comes after that write was done), with
  `Stamps` and `Recent` (the number of a write stands for one item and is never given
  out twice), from which `WritesDone`;
* `Shape` (which calls a client has under way, and in whose name).

`CommandSenderProofs`:

* `AckedQuiet` is `AckedNotResent`. It needs that a channel
  that has sent a command has a part in its item (`Asked`) and has read it (`Read`,
  `SentRead`), so that its acknowledgement finds the item, and that the item then
  stays marked until it is dropped (`Marked`).
* `TypeCorrect`: `TypeOK`, of which the part that takes work is that `order` names every slot
  in use exactly once (`InOrder`), whatever `put` overwrites and `check_timeout` drops, so
  that the item it takes for the oldest is in the list. The lemmas `WithoutIs` and `AppendIs`
  say what both do to a sequence without repetitions.

`DeviceMasterProofs`: the invariant is `TypeOK` and

* `Stages` (what a thread holds where it is) and `LockHeld` (`LockCorrect`);
* `Registry` and `OneNode` (`NodesShared`): a node stands for the key it was made
  for, and the table never has another, although it is read without the lock;
* `Listed` and `ListComplete` (`ListCorrect`), with lemmas on inserting into a
  sorted sequence;
* `SlotsOwned` (`SlotsCorrect`) and `Search` (`SearchCorrect`): how far a search has
  come, and that what it passed was advertised.

`MissionManagerProofs`: the invariant is `TypeOK` (`TypeCorrect`) and

* `Control` and `Uploads`: in which state an instance is while it is blocked, and
  how far its upload has come;
* `FlagHeld` (`FlagCorrect`), of all behaviours, races and faults included;
* `Alone`: without a race a plan is changed, and received, by one instance;
* `Written`: what an upload has stored is what it received;
* `SavedWhole` and `FlownWhole`: the saved plan and the plan in memory are whole, and
  no upload under way writes to their areas. From these `SavedPlanWhole` and
  `FlownPlanWhole`, which are not inductive without the area;
* `Synchronous`: how memory, topic and saved state differ while a change is under
  way, and that they are equal otherwise; from it `PlansAgree` and `AcceptedSaved`;
* `Downloads`: a download that is reading an item reads from the area that it announced,
  which is the active one, as long as the plan was not changed and nobody is changing it;
  with what the active plan holds this gives `DownloadsFaithful` (`DownloadFaithful`).

Assumptions. `DataCorrect` and the theorems after it assume `NoWrap`
(`MaxPublications + QueueSize < GenMod`): the 32-bit generation does not
wrap. At 1 kHz that takes 49 days; after a wrap `updates_available` is 0 for
subscribers that saw the last generations, contrary to the repository's own
`test_wrap_around`. `RingAssumption` says that the size is a power of two, as
`Ringbuffer.cpp` requires; `mavlink_main.cpp:2396` allocates one that is not.

`MissionAssumption`, `DatamanAssumption`, `SenderAssumption`, `MasterAssumption`,
`LayerAssumption` and `LogWriterAssumption` only say what the constants are. That the room
left below the minimum chunk holds any message, which `LogWriterAssumption` also says, is
used by `ReliableWriteReturns` and by no theorem.

Model-checked only: liveness (`SleeperServed`, `ChangesAreSaved`,
`FullLogDrained`, `ReliableWriteReturns`, `StartReturns`, `AsyncEnds`, `CommandsEnd`), which
rests on fairness and so on `ENABLED`, out of the prover's reach; and `ImplementsTopic` for
queues longer than one, which is false.

## What the disagreements mean

* A queue longer than one does not queue for the reader: `DeviceNode::copy`
  leaves the subscription at the current generation.
* The writer should compare what it wrote with `_count`, not with what was there
  before it dropped the lock; and it should look at `_should_run` under the lock
  before it waits. `start_log` should set `_should_run` under the lock.
* `start_log` does not always get past the wait for the old file that its comment
  (`log_writer_file.cpp:70`) describes: the writer may sleep with that file open, and the
  only thread that notifies it is the one that waits (`StartReturns` without `Stuck` fails
  with two starts).
* Without a card, or with one that takes more than five seconds, `ParamLoader` says
  "param system disabled" and returns, but every setter goes on to succeed in memory and
  nothing is ever saved (`param_loader.cpp:232`).
* `DynamicSparseLayer::store` should look the parameter up again after `_grow`,
  and `_grow` should compare a version instead of an address. In practice the
  system sets most parameters from few threads, and `n_grow` makes growth rare.
* Missions. Between instances nothing is locked: `_transfer_in_progress` is tested
  and set in two steps (`mavlink_mission.cpp:918`), cleared by the timeout of any
  transfer (`:573`) and not looked at by a clear. With one ground station none of
  the races of `Race` happens. A failed write of the mission state is only logged
  (`:183`): memory and storage then disagree on which area is in use, and the next
  upload writes over the saved plan; `SavedIntact` excludes faults for that reason.
* Data manager. A response carries no number of its request, so that a late answer
  to an earlier equal write is taken for that to the next, whose request may have
  been overwritten and never done. `WriteDone` names exactly this case.
* Commands. `mavlink_command_sender.cpp:236` says that an item on which a channel is
  ahead of the others, which "should not happen", "will timeout eventually". When a
  channel is stopped it does so only if that channel was level with the others at their
  last repeat. Otherwise the others go ahead of it, at once or with the next repeat, and
  wait for it for ever; and when it was the only one that sends the command nobody
  repeats or drops it. The item keeps its slot until newer commands displace it
  (`Stuck`, which `CommandsEnd` excuses).
* Instances. Two publishers that advertise at the same time may take the same
  instance (`uORBManager.cpp:60`); when all are advertised the search ends where it
  began and the instance is shared; `orb_unadvertise` frees none, although the unit
  test `test_unadvertise` (`uORBTest_UnitTest.cpp:219`) expects released instances
  to be given out again. `test_multi` passes an uninitialised instance
  (`uORBTest_UnitTest.cpp:338`), which `uORBManager.cpp:54` reads as the place to
  begin; a search from any instance was checked for that reason.
* The second run of a `Periodic` work item comes two periods after the first, not one
  (`vwork.cpp:30`, `:57`); found while reading, in no model.

## Not modelled

The repository has about 100 thousand lines of which these modules map some
thousands. Most of the rest has no state that several steps or actors share:

* `modules/mavlink` is a near copy of `mavlink_new` that no target builds;
* `mavlink_receiver.cpp`, `mavlink_main.cpp` and the streams convert messages and
  do I/O; what they share with others is in `CommandSender`, `MissionManager`,
  `DeviceNode` and `Ringbuffer`;
* MAVLink parameter transfer converts one value of the parameter store at a time;
  FTP is enabled in no target; no event is ever published (`events::send` is an
  empty stub, `modules/logger/util.cpp:48`), so the event buffer stays empty;
* log streaming needs the logger (target cm7) and MAVLink (target native_sim) in
  one image, and no target has both;
* the variable-length ring is two pushes on a `Ringbuffer`, and its only user holds a mutex
  around each of its calls; the console buffer is a ring under one mutex;
* work queues and start-up are Zephyr's work items, and two semaphores that are
  each given once by `param_loader.cpp:257` and have one waiter each;
* the primary/remote parameter variant and the flash backend, which no target
  configures; the exhaustive and constant layers, which do not grow;
* the data manager's cache, which no code of the repository uses;
* message definitions and the translation node (generated), mathematics, geodesy
  and sensor formulas (numeric, no state), drivers and boards (pure I/O), the zbus
  shim (Zephyr's channels, one call each), third-party code.
