# Software On Silicon in TLA+

A specification of the concurrent parts of this repository: TLA+ modules translated from the
sources, TLC configurations that check them on small instances, and proofs checked by TLAPS.

## 1. The system

The library composes threads ("controllers") that spin in a `Loop` and talk through atomic flags
("signals"), atomic cursors ("cables") and plain memory, bundled in "buses". A signal is
*signalled* when its `atomic_flag` is clear; `test_and_set()` consumes it. Nothing ever blocks:
every thread polls and yields. An error is `abort()` (`impl/error.cpp` 212-231), so a detected
error is a final state.

| Component | Sources | State | Operations | Talks to |
|---|---|---|---|---|
| Loop, signals, buses | `INTERFACE.hpp` | `stop_token`, flags | start, `_stoppable_loop`, destroy, stop | every thread |
| RingBuffer | `RingBuffer.hpp`, `ringbuffer_helpers.hpp` | `current`, `threadcurrent`, Notify, slots | `WriteInterleaved`, `read_hook` | host thread, task |
| MemoryController, RingToMemory | `MemoryController.hpp`, `impl/*` | `bk_start`, `bk_end`, Writing, Reading, Updated/Acknowledge | `write`, `read`, `wait` | ring task, reader, host |
| Serial protocol | `Serial.hpp`, `ByteWiseTransfer.hpp`, `MCUFPGA.hpp`, `impl/MCUFPGA.cpp` | `com_vars`, signal bits, locks, positions, counters | one event loop per side; IN and OUT hooks | wire, resolver |
| Resolver and REST | `SerialNotifier.hpp` | `ResolverSwitch` flags, pending requests, command cells | `write`, `resolve`, `read_event` | event loop, application |
| Wire and program | `test/test_mcufpga.cpp` | one-byte buffers, delete signals | `client_funct`, `host_funct`, `delete` | both sides |
| Byte codec | `ByteWiseTransfer.hpp` 219-284 | shift registers | `write_assemble`, `write_recover`, `read_shift` | serial protocol |
| Timer, Controller, EventLoop | `rtos_helpers.hpp`, `simulation_helpers.hpp`, `impl/Controller.cpp`, `impl/EventLoop.cpp` | two handshakes, a shared flag, child and timer | `event_loop()` of each, start and end of three loops | each other, main |
| Nested controllers | `rtos_helpers.hpp`, `INTERFACE.hpp` | references | hand buses on | |
| SymbolRateCounter, object types, descriptors, error codes, stage5 | the rest | small tables | pure | |

What makes each of them correct, and what makes that hard to test:

* **Serial protocol.** Two event loops on two threads exchange one byte at a time. The two
  highest bits of a byte are a request and an acknowledge; a byte without the request bit is
  object data and carries no id, so both sides must agree, from a request and an acknowledge one
  cycle apart, which object it belongs to. Both sides may ask for the same object at once.
  Correct means: no error the code itself checks for, agreement of locks and transfers, no byte
  read as something else, every write mirrored, an ordered shutdown.
* **Resolver and REST.** Two more threads per side, and the one that constructs and deletes it.
  They pass four kinds of notice through single cells guarded by flags. Correct means: no notice
  lost or doubled, an application that takes turns with the peer, a side that can be deleted at any moment.
* **Shutdown.** The destructor of the FPGA object and the hang-up of the two event loops form a
  chain of four state codes that runs while objects may be in transfer.
* **RingBuffer.** One writer, one reader, no lock: slots must not be accessed by both, items must
  not be lost, and the notification must not be missed.
* **MemoryController.** A reader copies a block backwards while a writer fills the memory
  forwards. They are kept apart only by a flag the reader takes and puts back, and by two cursors it
  loads one after the other. Correct means: no hole in a block, nothing stale, few samples busy, an
  answer for every request.
* **RingToMemory.** The task of the ring is the writer; a slot is copied sample by sample with no
  flag up. Every item must get to its place in the memory exactly once.
* **Controller.** Three threads with two handshakes and one flag that serves as a lock; they are
  destroyed in an order that members and base classes fix. Correct means: the lock excludes, every
  request is answered, no loop is destroyed under its own thread.

Every hazard, at its line, is listed in `PROJECT.json` under `hazards`.

## 2. Modules

| Module | Models |
|---|---|
| `SerialLink`, `MCSerialLink` | serial protocol of both sides, wire, applications, shutdown; constants and codec samples for TLC |
| `ObjectMirror` | what the link promises to applications that take turns: the abstract specification |
| `ByteCodec` | the packing of three bytes into four |
| `Resolver` | resolver, REST thread, construction and deletion of one side |
| `RingBuffer` | host thread and ring task |
| `MemoryReader` | host, ReaderBus, reader thread, BlockerBus, memory: the part two programs share |
| `MemoryController` | `MemoryReader` with the writer of `NonBlockingWriteTask` |
| `RingToMemory` | `MemoryReader` composed with `RingBuffer` by the task's `write()` |
| `Loop`, `Controller` | life cycle of a thread; the controller and event loop examples composed of three of them |
| `..._proof` | the theorems about the module of that name (section 4) |
| `LinkLayers_proof` | the theorems about `ByteCodec` and `ObjectMirror` |
| `SerialMirror_proof` | the theorems about `SerialLink` as an implementation of `ObjectMirror` |

### SerialLink

Every variable that belongs to a side is a function of `{"fpga", "mcu"}`. `fpga_updated` and
`mcu_updated` are `requesting` of their side, `mcu_acknowledge` and `fpga_acknowledge` are
`acknowledging` of the side that grants. `readLock` and `transfer` are the sets of ids whose
flag is set; `recv` and `send` gather the fields of the block reader and writer
(`receive_lock`, `readDestination`, position, `read4minus1`, and their counterparts).

One cycle of `Serial::event_loop` is a sequence of steps, in the code's order: one of
`ReadPoweron`, `ReadIdle`, `ReadShutdown`, `ReadSighup`, `ReadRequest`, `ReadObject` (the read of
a byte and `read_hook` or `read_object`), `TransferHook`, `AcknowledgeHook`, `Scan`
(`getFirstTransfer`, one id per step), and one of `SendShutdown`, `StartObject`, `WriteObject`,
`WriteFourth`, `SendSighup`, `SendIdle` (`write_hook` and `write_object`). The cuts are where
another thread can change what the next step reads: the resolver's `sync_me`, and the deleting
thread's `descendants_notified`. The first cycle is `FirstCycle`. `Wire` and `WireStart` are the
test's copying thread, `WriteStart` and `Resolve` the resolver thread with the application above
it, `DeleteFpga`, `DeleteMcu` and `Destroy` the destructors.

Abstractions, and why they are sound for the properties:

* *Data.* A sextet is the place it comes from (object, triple, count) and the version its triple
  carries. `DeliveryOrder` compares the place with the one the receiver stores it at, so that the
  receiver's own choice is checked and not assumed. The resolver copies every byte of an object
  to its first byte (`SerialNotifier.hpp` 502 does not advance the pointer), so one version, in
  the first triple, is all an object holds. That the bits of a triple survive is `ByteCodec`.
* *Misread bytes.* A data byte with the request bit up is read as any state code or any id.
* *Applications.* `FPGARest` and `MCURest` write object 0 when a read of it has ended.
  `turn` generalises this to any id: an application writes what it owns and owns it again when
  the resolver reports a read. With `FreeWrites` it writes at any moment. That REST really takes
  turns is `OneRight` of `Resolver`.
* *Descriptors.* Every id has an object, of the same size; the code's unused ids are left out.
* *Resolver.* `resolve(id)` is one step; the cells that hand its result to the REST thread are
  in `Resolver`. Its trigger only delays it, so `Resolve` is not guarded by it.
* *Destruction.* The REST and resolver threads of the FPGA are joined when `DeleteFpga` happens
  (their destructors run first). `stop_notifier` is one step of the deleting thread, which may come
  between any two steps of the event loops, in the middle of a cycle too. In mode `poweredOn` the FPGA
  has read the MCU's power-on byte before (`PoweredOn`: it is in that cycle or has sent a byte after it).
* *Not reached.* A second power-on (hot-plug) and code of the deleting thread that overlaps a
  hook of the event loop at word level.

`SerialLink` implements `ObjectMirror` (property `MirrorImplemented`). The copies of the mirror are the
objects' first bytes. Its `writer` of an object is the side whose write is requested, in transfer or read-locked by
the peer (`Writers`); its `owner` is that side, or the one that has received the object last or
has the turn (`Owners`). A destructor reports reads that have not ended, too; they are still
read-locked, and so do not count as received. A store of the first triple is `Carry`, the store of the last `Arrive`;
everything else the protocol does is a stutter. With a triple more than one `Carry` comes first.

### ByteCodec

Bitsets are sets of bit positions. `WriteAssemble`, `WriteRecover`, `WriteBits`, `ReadShift` and
`ReadFlush` are the functions of those names with their shift widths, and `Write0` to `Write3` and `Read` put
them together as `write()` and `read()` do, the signal bits of the crossovers included.

### Resolver

`pc` says where each of four threads is. Event loop: the four reports it makes to the switch
(`Readlock`, `Received`, `Granted`, `Sent`), or none (`Quiet`), in the phases read, acknowledge and write, and
`TriggerResolve`. Resolver: `PollTrigger`; `ResolveRead` and `ResolveWrite` per id; `TakeReadEnd`,
`TellReadEnd` (the command to REST, with its wait for the acknowledge); `PollWriteStart`,
`AcceptWrite`, `AcknowledgeWrite`. REST: `PollReadEnd`, `LoadReadEnd`, `AcknowledgeReadEnd`,
`ReadEvent`, and the two halves of `write<0>()`, `TakeWriteStart` and `PostWriteStart`, which the
constructing thread runs too. `Delete`, `JoinFirst`, `JoinSecond` and `Leave` are the destructors of
`FPGARest` and `FPGAResolver`.

The event loop is reduced to its reports and the peer to taking turns (`owner`): an object is read
only after it was sent, and sent only after it was read. This is what `SerialLink` provides, which in turn
assumes of its applications what `OneRight` says here. The failed read of `resolve()`, which only a
shutdown causes, is in `SerialLink`.

### RingBuffer

The cursors are atomics, the slots plain memory. The host's `WriteBegin`, `WriteSlot`,
`StoreCurrent`, `Notify`, `Overwrite` are the accesses of `WriteInterleaved` in order; the task's
`LoopTop`, `Poll`, `Snapshot`, `Step`, `Transfer`, `StoreThread` those of `_stoppable_loop`,
`event_loop` and `read_hook`. An access to a slot is a phase of its own, so that the state
in which both threads are at a slot exists. Item number k is the number k; `published` and
`received` are history. `RequestStop` is the destructor's `request_stop` by the host thread.

### MemoryReader, MemoryController, RingToMemory

`MemoryReader` is what both programs share. `AskFirst`, `TakeBlock` and `PrintSample` are the
host (`Functor`, `Functor2`): it consumes Acknowledge, asks for the next block, and only then
prints the one it has. `StartRead`, `Wait`, `PutBack`, `LoadEnd`, `LoadStart`, `Copy` and `Finish`
are the reader's `event_loop`, `read()` and `wait()`. Each is at most one access to a flag or cursor
that the writer changes, in the code's order: the flag is taken (`Wait`) and put back (`PutBack`) by
two, `bk_end` and `bk_start` are loaded by two more, and the copy comes after them, so that the
writer can move on between any two. `bkStart`, `bkEnd` and `writing` are the BlockerBus, `rb`,
`rOffset` and `rEnd` the locals of `read()`. A sample is the number of the write it came from, 0
for the `-` of the constructor and `Busy` for the `X` of `busy()`. `known` is history.

`MemoryController` adds the writer: `WriteBegin`, `Extend`, `Store`, `Advance`, `Release` are the
accesses of `NonBlockingWriteTask::write`. A write beyond the last sample ends the program, as the
test's would after ten thousand.

`RingToMemory` instantiates `RingBuffer` with its `writer` and `reader` renamed and puts
`RingBufferTaskImpl::write` in the place of `transfer()`: `WriteBegin` to `WriteEnd` happen in the
task's phase `transfer`, and the last of them is `Ring!Transfer`, which ends it. Item k has the samples
(k-1)*Blink+1 to k*Blink, copied one per step. Both `Writing` windows are modelled.

Abstractions:

* *The Reading flag* is set and consumed by the reader only; it is left out.
* *Offsets.* The tests read at one offset and say "offset change omitted"
  (`test_ringtomemory.cpp` 74) where the next block is asked for; the host of the model may change it there.
* *Life cycle.* The model begins when the memory is filled and all threads run. Nobody stops the
  reader.

### Loop, Controller

`Loop` is the life cycle all threads inherit: `Start`, `KeepRunning` and `LeaveLoop` (both ways
`is_running()` can answer), `Finish` (`finished()`), `RequestStop`, `Join`, and `AwaitFinished`, the wait in `~Loop`.

`Controller` instantiates it for the child, the timer and the controller. `scheme` chooses among
four programs: the controller with `NotifyImpl` or with `ProcessorScheme` as its child
(`test_controller.cpp`), and the event loop example with a `SystemTimer` or a `TickTimer`, in which main does
the controller's work (`test_eventloop.cpp`). Timer: `TimerPoll`, `TimerOperate`, `TimerAnswer`. Children: `BlinkOn`, `BlinkOff`;
`Lock` and `Unlock` with `Batch` prints in a go. Controller: `ControllerPoll`, `AskWaiter`,
`LookWaiter`, `LookNotify` and `PutBack` (or `Lock` and `Unlock`), `Answer`. `main` runs `Program`, a sequence of
operations that writes the order of constructors and destructors out: members and bases start before
and end after what C++ says, and each `Loop` is asked to stop, joined, asked again and awaited.

* *Time.* The timer's period and the sleeps are left out but for two. Both threads that share
  the flag sleep after giving it back. And main sleeps for 5 s before it takes the threads down, since destroying a timer
  whose virtual function is being called ends the program (`aborted`). Nothing in the code waits for the timer to be idle.
  The sleep is counted in rounds of turns (`turns`): in a round the timer and the controller each come past the head of
  their loop at least once (`passed`, `CountTurn`), and main goes on after `PauseTurns` of them (`Settle`). A turn sleeps
  for 100 ms (`SystemTimer`) or 333 ms (three prints of the controller), so 5 s are more than the four rounds
  that are assumed of `PauseTurns`; that four are enough is a result.
* The ticks of a `TickTimer` come from the command line and have no bound, so with it main may go on at any
  moment of the timer's turn, and the program may end with a call of a pure virtual function.

## 3. What is checked

`tlc -config X.cfg M`. Deadlock is checked in every run but `read_end_lost`, whose program may
abort: `Terminated` is otherwise the only way to stop.

| Run | Instance | Shows |
|---|---|---|
| `link_two` (`LinkTwo.cfg`) | 2 objects of 2 triples, 3 writes, one object owned by each side, no shutdown | `TypeOK`, `OneByte`, `NoAbort`, `TransfersAgree`, `DeliveryOrder`, `Conservation`, `MirrorImplemented`, `Mirrored` |
| `link_shutdown` (`LinkShutdown.cfg`) | 1 object of 2 triples, 3 writes, FPGA deleted any time after it has read the power-on byte, mid-cycle too | `SighupClean` (with `NoAbort`), `ShutdownOrder`, `DestructionEnds` |
| `link_free` (`LinkFree.cfg`) | 2 objects of 2 triples, 2 writes at any time by any side | `FreeSafe` (`TransfersAgree` and `DeliveryOrder`) |
| `resolver` (`Resolver.cfg`) | 2 objects, the peer writes object 0 | `TypeOK`, `NoAbort`, `CommandsOnce`, `OneRight`, `WrittenBack`, `DestructionEnds` |
| `ring` (`Ring.cfg`) | 4 slots, 9 items | `TypeOK`, `NoRace`, `Fifo`, `NoLostWakeup`, `AbortsOnlyWhenFull`, `AllRead` |
| `memory` (`Memory.cfg`) | 5 samples, 2 blocks of 3 at offsets 0, 2 or 3 | `TypeOK`, `BlockInOrder`, `OneBusy`, `Fresh`, `Placed`, `Answered` |
| `ring_memory` (`RingMemory.cfg`) | ring of 2 slots, 3 items of 2 samples, memory of 5, a block of 4 at 0 or 1 | `TypeOK`, `SlotKept`, `Stored`, `Delivered` (`BlockInOrder`, `Fresh`, `Placed`, `FewBusy`), `AllStored` |
| `controller` (`Controller.cfg`) | both kinds of child, the event loop example with both timers, 3 prints in a go, a pause of 4 rounds of turns | `TypeOK`, `Exclusive`, `EndedFirst`, `Answered`, `TeardownEnds` |

Bounds. Two objects are the least with which a choice between objects can go wrong, and both
sides own one, so that requests, acknowledges and data of both directions meet in every order.
Two triples are the least with a triple that is first and not last. `MaxWrites` bounds the
applications: with three writes one object goes there and back while the other is under way
(four writes were checked for the safety properties and liveness too; they take four minutes).
`resolver` needs no bound on its events, as all its state is flags; its second object is one the resolver
goes through and nobody writes, as in the program. Nine items wrap a ring of four slots
twice. In `memory` the offsets are the first sample, the last block that fits
and one that does not; five samples let a write pass before, within and behind a block of three, and the
sixth write fails. `ring_memory` has the smallest ring (which is the program's), and a third item that
does not fit; a block of four spans two items at offset 0 and three at offset 1. `controller` has the code's
own number of prints, and how often main asks is not bounded; four rounds are the shortest pause with which
`EndedFirst` holds (with three, TLC finds the timer taken down in its last turn): the controller begins a turn and looks at the
last request, begins another and so has asked the timer, which does the same.

Fairness. Every loop spins and yields and the wire's thread does too, so each gets weak fairness
as one process (`EventLoop(s)`, `Wire(s)`, `Resolver(s)`, `Destroy(s)`, `WireStart`; the four
threads of `Resolver`; `Task` and the rest of a write that has begun; timer, child, controller). Nothing is assumed
of applications, of the delete signals, of the peer, or of `RequestStop`.
The reader, the host that prints, and a write that has begun are fair, each as one process; the
memory's writer need not begin another write.
In `controller`, main's statements are fair one by one, so that the 5 s of asking end, and the pause after them; taking the flag
(`Lock`) is strongly fair, because the other thread sleeps for 111 ms each time it has given it back, in which
a thread that spins for it gets it.
`Answered` of the memory allows for the flag that is left up for ever, which `read_stuck` shows: everything else
that could keep a host without an answer is excluded.

### Where the code and what it says of itself differ

| Run | Violated | What happens |
|---|---|---|
| `link_delete_early` | `DestructionEnds` | The FPGA is deleted before it read the power-on byte: `_vars = com_vars {}` (`Serial.hpp` 161) forgets that the notifier was stopped, no shutdown code is sent and `~FPGA` spins for ever. |
| `link_two_shutdown` | `DeliveryOrder` | Two objects are in transfer and the shutdown code is sent between them (`incoming_shutdown_query` asks for requested objects, not for objects in transfer). Its request bit is not acknowledged, so the second object's data travels with the request bit and is read as state codes and ids. |
| `read_stuck` | `ReadEnds` | `wait()` takes the Writing flag and puts it back (`MemoryController.hpp` 374-375). A write that ends in between leaves it up; after the last write the reader waits for ever, and so does its destructor. |
| `read_end_lost` | `EndsTold` | The peer writes two objects. `readEndId` is one cell (`SerialNotifier.hpp` 518), so the end of the second read overwrites the first before REST is told. |

`link_shutdown` passes with one object, `link_two_shutdown` fails with two: the shutdown is only
safe when at most one object is in transfer (section 4 proves the safety of the first for every length of the object and a
deletion at any moment; that the destruction ends is checked only). `resolver` passes because the program's peer writes one
object only.

Seen while modelling, and in no run: in `link_free`, a write accepted while a read of its object is under
way ends the program by the assertion at `Serial.hpp` 289-290, so applications have to take turns; nobody looks
at the Reading flag, so the copy of a sample and the store of it can coincide; the host prints
a block that the reader is already refilling (`test_memorycontroller.cpp` 16-20); and a `TickTimer` that counts for
longer than the 5 s main sleeps (`simulation_helpers.hpp` 78-81) is taken down under its own `operator()`, which is
why `OwnOperator` speaks of a `SystemTimer` only.

## 4. What is proved

`tlapm M.tla` checks the proofs. Assumptions are those of the modules' `ASSUME`: a ring of at least two
slots (the constructor of `RingBufferBus` insists on it), for the link and the resolver at least one object,
for the memory sizes that are natural numbers, and for the controller at least one print in a go and a pause of at
least four rounds of turns (the 5 s of main).

* `RingBuffer_proof`: `TypeCorrect`, `FifoOrder`, `WakeupKept`, `RaceFree` and `AbortOnlyIfFull`, for every
  ring size and number of writes. None of the properties is inductive: where the task stands depends on a
  snapshot the host has since moved away from. The inductive invariant `IInv` measures everything
  as a distance `After(t, p)` forward from `threadcurrent`: the distance to `current` counts the
  unread items (`Distance`), the snapshot lies between (`Pass`), the slots in between hold
  the unread items in order (`Contents`), the slot being written is outside (`Writing`), and a
  snapshot that is out of date has a notification behind it (`Told`). The arithmetic of the wrap is
  confined to seven lemmas on `After` and `Advance`; the steps then only cite them.
* `MemoryController_proof`: `TypeCorrect`, `OrderKept`, `OneSampleBusy`, `FreshBlock` and
  `PlacedBlock`, for every size of memory and block, every set of offsets and number of blocks. `IInv` has
  four parts beside the types. `WriterInv`: where the cursors stand in each phase of a write, and that the memory
  holds the writes up to `bkStart` in order. `HandshakeInv`: between the request and the answer the
  host touches nothing the reader uses. `LocalInv`: what the reader has loaded is no newer than
  what is there. `BlockInv`: what the places read so far say of the cursors. As the reader walks down
  while the writer walks up, a place already read as written or busy bounds every later load from
  below, which is why the rest of the block cannot be behind it. A second sample cannot be busy because
  the first was at or below the end of the range, so the next is below its start unless a write is
  still under way, and then the flag keeps the reader waiting.
* `RingToMemory_proof`: `TypeCorrect`, `SlotIsKept`, `StoredInOrder` and `DeliveredBlock`, for every size of ring,
  item, memory and block. The ring's part is not proved again: `RingBuffer_proof` is instantiated with this
  module's variables, its invariant is one conjunct of `IInv`, and its lemmas are cited for the ring's steps.
  `WriteInv` joins the two: inside `write()` the task is in `transfer`, the cursors stand at `Blink` times the
  number of items read, or one item further, and the memory is filled up to the sample being copied. That the
  sample copied is the right one follows from the ring's `NextUnread` at that phase. `BlockInv` cannot
  use the flag, which is down during the copy: where one sample could be busy there, here it is
  the width of the busy range, `Blink`, that bounds what a block can miss.
* `Resolver_proof`: `TypeCorrect` and `CommandsKept` for any number of objects and any ids the peer
  writes; `OneRightHeld` and `ErrorFree` if the peer writes only the object REST writes. A command is
  at one of five (or four) places; each action is shown to leave it or to move it on from where it is, and
  a move from a place that holds it keeps it in one place (`MovesOnce`). The right to write goes round twelve places the
  same way. The freedom from errors needs to know what has happened by when (`Timely`): as long as the resolver
  has not taken note of the end of a write, the right has not got past it, and is with the peer, in the report of a read,
  or queued by the first half of the very `resolve()` whose second half takes note.
* `SerialLink_proof`: `TypeCorrect` and `Lockstep` (that `OneByte` holds) for every number and length of objects,
  with free writes and deletes at any moment. For `Lockstep`, every action is shown to pass the turn on in one of
  six ways or to leave it (`EventLoopPasses`, `NextPasses`), and each way preserves `TurnInv`, which says of six
  possible places that the byte is at exactly one.
* `SerialLink_proof`: `LocksAgree`, `SextetsDelivered`, `FreeWritesSafe`, `ObjectsConserved`, with or without turns and for
  every length of the objects: of any number of objects while nobody is destroyed, and of one object destroyed at any
  moment, before power-on too (`DeleteWhen = "never" \/ NumIds = 1`). The hypothesis is the code's own limit: with two
  objects in transfer a shutdown breaks them, see `link_two_shutdown`. None of the four is inductive: an object
  read-locked on one side is in transfer on the other only a cycle later, and the reader is one sextet behind the
  writer half of the time. The inductive invariant `LinkInv` says, for each place the one byte can be at, what the two
  sides then know of each other (`Situation`). In a cycle (`Cycle`) readers and writers are in step (`InStep`) and what
  the peer has read-locked is what is in transfer and what is about to be granted (`Locked`, `Asked`). With a byte under
  way (`Sent`), its two bits say whether there is a request and a grant, and if it is data the writer is ahead by that
  sextet (`Ahead`). `Always` adds what never changes hands, such as that the request bit is down while data is sent,
  which is why data is not misread. A shutdown code would be sent with data waiting if an object could wait in
  transfer; with a single object it is sent as soon as it is granted (`Prompt`, in `Composed`).
* `SerialLink_proof`: `ShutdownInOrder`, that each code of a shutdown is sent only after the one before it was read, under
  the same hypothesis. `ShutdownOrder` compares flags of the two sides that change at opposite ends of the
  wire, so the invariant `Chain` also says where a code is meanwhile: it is under way just when it is sent and not
  received (`Told`). A power-on code, which resets `com_vars`, is under way only while there is nothing to forget (`Fresh`).
  The MCU answers and never begins (`Follows`). A side that has sent its shutdown code asks for nothing and
  sends no object (`Silent`), and the FPGA stops with its hang-up (`Halted`). `Chain` rests on `LinkInv`: that a byte is a
  code and not misread data follows from there.
* `SerialMirror_proof`: `ErrorFree` (that `NoAbort` holds), `HangUpClean` (`SighupClean`) and `MirrorRefined` (that the link
  implements `ObjectMirror`), for any first owners, if applications take turns (`~FreeWrites`) and under the same hypothesis as
  above. `TurnsKept` says of each object that exactly one side stands to it in exactly one of four ways (`OneStand`): it has
  the turn, asks for a transfer, is sending, or has received the object. `Books` ties this to the resolver's pending
  writes and the loop's request, and says that only an application being destroyed hears of a read that did not end, which
  is then still read-locked (`InterruptStands`); `Copies` and `Loads` say that what is being sent, under
  way or half received is the version that was written. The twenty errors are states in which two ways would hold at
  once, in which request and acknowledge or reader and writer do not match, or, for those of the shutdown, in which a code
  is read twice or after a hang-up, which `Chain` excludes (`NothingAfter`). When the FPGA has hung up, `Silent`, `Told` and the
  agreement of the locks leave nothing in transfer in either direction (`Hushed`), although the destruction may have begun
  in the middle of an object. For the refinement, the mirror's `writer` and `owner` are read off the way an object is
  stood to (`View`), and each step either keeps both (`Stays`), or is a `Write`, `Carry` or `Arrive`; every step of the
  destructors and of the four codes keeps them.
* `LinkLayers_proof`: what stands above and below the link. `CopiesAgree` and `CopiesAdvance`: in the abstract mirror, an
  object nobody is writing is the same on both sides, and no copy goes back, for any number of objects and writes. By
  `MirrorRefined` both hold of the link. `CodecRoundTrip` and `CodecSignals`: any three bytes come out as they went in,
  whatever signals the four bytes carry, and no data bit reaches the signal bits. Each of the four sextets is
  computed bit by bit (a position of a byte is in the sextet if and only if it is at its source), and the
  result is put together from them. `MCSerialLink` evaluates both on samples.
* `Controller_proof`: `TypeCorrect`, `LockHeld` (`Exclusive`) and `LoopsEndFirst` (`EndedFirst`, with it that no virtual
  function of a destroyed `SystemTimer` is called), for every number of prints in a go, every pause of four rounds or more
  and each of the four programs. `Safe` ties the
  threads to how far main is: a thread exists from its start on and is through when it has been joined
  (`Lives`); an acknowledged stop is a thread's last word, and nothing is gone before it (`Acknowledged`). That the timer is
  idle when it is taken down is shown turn by turn (`Calming`): in the pause nobody asks the controller, so one that has begun
  a turn takes the last request in it, and one that has begun its second (`Begun`) has none and stays idle. By the
  third round nobody asks the timer any more, and two turns later it is idle too. It then stays so (`Quiet`) until it is
  stripped (`NeverPure`). `CalmingLoops` is the lemma that carries this: a turn counts only for the thread that begins it.
  For the lock, exactly one of flag, child and controller has it (`OneHolder`), which needs that a program
  uses the flag as a lock or as a light and never as both (`OneUse`). `Program` is a concatenation of sequences; two lemmas
  write it out once, statement by statement, for the steps to cite.

Only model-checked: the liveness properties, which are out of the prover's reach (`Mirrored`, `DestructionEnds` of the
link and of the resolver, `WrittenBack`, `AllRead`, `Answered` of the memory and of the controller, `AllStored`,
`TeardownEnds`), and the four violations. Every invariant that a passing run checks, and the refinement, is a theorem.

## 5. Plan

What could follow, in this order:

1. A weaker hypothesis for the shutdown of several objects: the theorems should hold as long as no two objects
   are in transfer at once, which is a condition on the applications and not on the number of objects.
2. In the same way for `Resolver`: which pairs of a peer's writes the one cell for ended reads can hold.
3. Start and end of the objects of the memory programs on top of `Loop`, if their
   destruction were ordered (see below).

Not modelled, and why:

* *Nested controllers.* The passthrough classes only hand references on. The bootstrap controllers of
  `rtos_helpers.hpp` that restart their child are instantiated by no program or test, so there is no
  use to translate.
* *Ends of the memory programs.* The reader's thread outlives the blocker bus and the memory
  (`impl/MemoryController.cpp` 57), and `test_ringtomemory.cpp` 104 ends a bus another thread still polls. What
  happens after that is undefined; a model would have to invent it.
* *Torn samples.* A sample is one value; what a store does to a copy of the same sample is below the model.
* *`stop_notifier()` word by word.* It writes `com_vars` and `read_started_id` in the deleting thread while the event
  loop uses them; the order of the steps is modelled, torn accesses are not.
* *Hot-plug.* A second power-on is taken care of in `read_hook`, but no program does it.
* *Starvation of high ids.* `getFirstTransfer` starts at id 0; an application that keeps writing
  a low id keeps the higher ones waiting. With turns it cannot.
* *`read_byte`'s length* (`ByteWiseTransfer.hpp` 173) is always 0, which has no effect.
* *SymbolRateCounter* is included by nothing. *Object types, descriptors* and *error messages* are data.
  *stage5* are experiments outside the library.
