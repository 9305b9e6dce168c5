# A verification model of libtcmu

libtcmu lets a Go process serve a SCSI block device: the Linux module
`target_core_user` (TCMU) puts SCSI commands into a ring in memory it shares
with the process through a uio device, the library takes them out, calls a
handler, writes the responses back into the ring and notifies the kernel. This
directory holds TLA+ modules of the library, the TLC runs that check them and
proofs checked by TLAPS.

Paths below are relative to `src/src/libtcmu/`.

## 1. The system

### Components

| component | where | state it keeps | operations |
|---|---|---|---|
| shared memory | `share_area.go`, `offsets*.go` | mailbox (`cmd_head`, `cmd_tail`, ring size), ring of variable-length entries | read and write header, cmd_id, status, sense, iovecs, cdb |
| fetch and completion | `handler.go:309-354` | `VirBlkDev.cmdTail`, `cmd_tail` in the mailbox | `getNextCommand`, `completeCommand` |
| poll loop | `handler.go:181-287` | two goroutines, an unbuffered channel, the stop pipe | `waitForNextCommand`, `startPoll`, `HandleRequest`, `clearUioEvents`, `stopPoll` |
| concurrent dispatch (not started) | `handler.go:99-179` | `ScsiResponseRing` (128 slots), `cmdDone` | `startPollx`, `HandleRequestx`, `startRespx` |
| device lifetime | `block_device.go` | `VirBlkDev`: fds, mapping, configfs directories | `newVirtBlockDevice`, `Close`, `teardown`, `remove` |
| HBA | `hba.go` | mutex, `vbdInitializing`, `devEvent` (32), `vbds` | `CreateDevice`, `CreateDeviceComplete`, `RemoveDevice`, `Stop`, `monitorDeviceEvent` |
| command access | `scsi.go:20-239` | cdb, data vectors, cursor | `CdbLen`, `LBA`, `XferLen`, `Read`, `Write`, responses |
| emulation | `command.go` | none | `HandleCommand` and the `Emulate...` functions |
| worker pools (not called) | `scsi.go:359-414` | two channels, a wait group | `SingleThreadedDevReady`, `MultiThreadedDevReady` |
| rest | `common.go`, `scsi.go:268-340`, `example/`, vendored code | - | logging, WWN formatting, a main program |

### How they interact

`HBA.CreateDevice` builds a `VirBlkDev`; `newVirtBlockDevice` writes configfs,
finds and maps the uio device and starts the poll loop, then links the LUN, upon
which the kernel announces a disk through udev; `monitorDeviceEvent` relays the
event and `CreateDeviceComplete` gives the device its number. From then on the
kernel and the poll loop talk through the ring: the kernel moves `cmd_head` and
raises the uio event; the library moves `cmd_tail` and writes to the uio device.
`Close` removes the LUN, writes to the stop pipe, unmaps the ring and waits for
the loop.

### What is hard, and what makes each part correct

* *Ring and poll loop*: the kernel publishes and cleans between any two accesses
  of the library; fetch and completion walk the same entries with two cursors;
  pads appear before the end of the ring; a wake-up can arrive at any point.
  Correct means: every command is handled once, in order; the completion the
  kernel reads in its place is its own; the tail never passes an entry that is
  not answered; no command is forgotten; the loop stops when told.
* *HBA*: the mutex is taken by one goroutine and released by another; device
  events, the 15 s timeout and slow creation race; an event says which disk was
  added, not whose it is, and names and numbers of disks are used again.
  Correct means: one creation at a time, a device with the number of its own
  disk, no device left open that nobody can find, no caller left waiting.
* *Lifetime*: `Close` unmaps the ring before it knows that the loop has ended; each configfs
  step may fail or time out, and the tree outlives the process.
  Correct means: no ring is unmapped under a loop that has work left, every
  creation starts from nothing, and no LUN is exported that nobody serves.
* *Command access and emulation*: boundary arithmetic over byte widths, cursor
  over several vectors.

## 2. Modules

| module | kind | models |
|---|---|---|
| `Mailbox` | component | the ring in shared memory: entries, pads, the three cursors of library and kernel, one operator per access of `getNextCommand` and `completeCommand` |
| `PollLoop` | composition | `Mailbox` with the goroutines of `startPoll` and `waitForNextCommand`, the stop pipe, the uio event and the kernel |
| `CmdService` | abstract | commands are served once, in order, and the kernel is told what was decided |
| `PollLoopInv` | invariants | `RingInv`, `ReplyInv` |
| `VbdClose` | composition | `Close` beside the loop of `PollLoop`: teardown, `stopPoll`, `closeDevice`, the 30 s wait |
| `DeviceConfig` | component | the configfs tree of a volume: `newVirtBlockDevice`, `teardown`, `remove`, crashes |
| `Export` | abstract | a LUN is exported only while a loop serves it |
| `RespRing` | component | `startPollx`, the `HandleRequestx` goroutines, `startRespx` and the response slots |
| `RespRingInv` | invariants | `RoomInRing`, `SlotInv`, `InvOwn`, `NoneTwice` |
| `HBA` | component | `CreateDevice`, `CreateDeviceComplete`, `RemoveDevice`, `Stop`, `monitorDeviceEvent` |
| `Registry` | abstract | devices are created one at a time and registered before they are returned, each with its own number where no other event can be met |
| `HBAInv` | invariants | `SessionInv`, `RegisteredInv`, `AloneInv` |
| `ScsiCmd` | component | the cursor of `Read` and `Write` over the data vectors |
| `DataBuffer` | abstract | one flat buffer |
| `Cdb` | operators | operation codes, `cdbLen`, `LBA`, `XferLen` |
| `Control` | operators | what INQUIRY, READ CAPACITY, MODE SENSE, MODE SELECT and the rest answer |
| `Emulate` | component | `HandleCommand` with `EmulateRead` and `EmulateWrite` |
| `BlockDevice` | abstract | a disk |
| `MC...` | instances | values for TLC |
| `..._proofs` | proofs | see section 6 |

### Ring and poll loop

The ring is measured in units; an entry header fills one, and lengths are
numbers of units. `mbCmdHead`, `mbCmdTail` are the mailbox words, `cmdTail` is
`VirBlkDev.cmdTail`, the cursor of `getNextCommand`; `lastCleaned` is the
kernel's. `ring` maps each unit to the header that starts there (operation,
length, cmd_id, status). The kernel is external, modelled from what the library
relies on: it writes an entry before it publishes it, puts a pad where an entry
would cross the end, keeps one unit free, reuses a cmd_id only after its
completion, and cleans from `lastCleaned` up to `cmd_tail` when notified.

Each access of the library to shared state is an action, so that the kernel can
publish and clean between any two: `DrainPad` and `DrainCmd` (one iteration of
`getNextCommand`), `Handle`, `CompleteSkip`, `CompleteWrite`, `CompletePass`
(`completeCommand`), `Notify`, `ClearUioEvents`. `log` and the counters `nFetch`,
`nTail`, `nClean` are history variables: nothing the code does depends on them.
So are `submitted`, `served`, `done`.

### Close

`VbdClose` puts `Close` beside the loop, with the actions of `PollLoop` as they
are. `closePc` is the place in `Close`; the ring is `Mapped` up to
`syscall.Munmap` and the uio descriptor open up to `unix.Close`. A step of the
loop that reads or writes the ring (`RingAccess`) is possible only while it is
mapped; afterwards it is `Fault`, the end of the process. On the closed
descriptor reads and writes do nothing. `Collect` is the rendezvous on
`vbd.wait`, `WaitTimeout` the other branch of that `select`. `LunRemoved` is the
kernel's: it lets the LUN go when no command is outstanding, and may do so after
`Close` has returned the timeout of `remove`. `atRest` is a history variable:
whether both goroutines were waiting when `stopPoll` wrote to the pipe.

The loop may look into the unmapped ring once more if it is still draining when
`Close` unmaps (`NothingLeftAtUnmap` says that this last look is all it can do);
`NoFaultAtRest` is what the code does guarantee.

### The configfs tree

`DeviceConfig` keeps the set `fs` of paths that exist, which outlives the
process, and `pending`, removals that timed out and that nobody cancels.
`Steps` is what `newVirtBlockDevice` does after its own `Close`, `pathsToRemove`
what `teardown` removes, `at` the place in either. `Holds` is configfs's
rule: a directory that is not empty, or linked to, does not go. The initial
states are all trees this rule allows, so every wreck a dead process can leave
is one of them. Every step may fail (`CreateFails`, `RemoveFails`), every
removal may time out and happen later or fail unseen (`LateRemove`), and the
process may die anywhere (`Crash`). `served` says that a loop polls the uio
device of the core directory there is. Each write to an attribute is a step
that succeeds or fails.

### Concurrent dispatch

`RespRing` keeps what is particular to `startPollx`: `head`, `tail`, the slots
`data`, the channel `cmdDone`, and a goroutine per command with its own place
(`stage`, `index`). The command ring is a sequence walked by two counters.
Storing the response, sending its index, looking at a slot, completing and
clearing are actions of their own. It implements the same `CmdService`.

### HBA

A call of `CreateDevice` is an element of `Calls` and stands for its device too,
with a program counter for the call (`create`) and one for its completer
(`complete`). `name` is the volume it asks for, the key of the map `vbds` and of
the configfs tree; calls may share one, at the same time or later. The mutex is a
Boolean, as its owner is of no consequence in Go. `opened` are the devices whose
uio device is open and polled.

The kernel gives each disk a number that no disk has at the moment (`AddDisk`);
the `sd` name and the device number are one value, both the lowest that is free.
`udev` and `devEvent` hold such numbers. `IsTcmuDevice` is what the code makes of
one: is there *a* TCMU disk that has it now? `Others` are disks of other
programs, for which the answer is yes as well. `held` is the number a completer
took from an event, `number` the one it set.

`Close` goes by the name: `teardown` takes away whatever disk is exported under
it, and so does `newVirtBlockDevice` before it begins (`Clean`), be it that of a
device which is open and in the map. `Enable` announces the disk with the link of
the LUN. `Stop` ranges over the map and may or may not come by an entry made
meanwhile, as Go allows. Two histories: `forgotten` are devices the code drops
without having closed them, by an error or by writing over or deleting an entry
of their name; `overlapped` says that a call of the HBA began while another was
in progress.

`Registry` is what all this amounts to for a caller. A creation is `in` from the
first `Lock` on (`Phase`), `made` when its completer has put it into the map and
has only SUCCESS left to send (`Made`), and `ok` or `failed` when `CreateDevice`
has returned. `Enter` is possible only when nothing is under way, though the code
has the mutex for one part of a creation and `vbdInitializing` for another.
`OwnEvents` says that no event is late or of another program's disk; `Registry`
promises the device's own number only then.

### Command access and emulation

`ScsiCmd` numbers the bytes of the data buffer through and records in `carries`
which byte of the handler each one was exchanged with. `Emulate` has an action
for each call that can fail: `ReadAt`, `cmd.Write`, `cmd.Read`, `WriteAt`. The
integers have the code's width (`Word32`, `Word64`), the address of a 6-byte
command is cut as the code does (`ByteBase` is 256 except in one run that needs
a small base). The `ReadWriteAt` is external: a store of fixed size that may
fail whenever it is called, after any part of a write. `Control` has the
branches of the commands that leave the medium alone; the bytes of a page are a
constant (`Page`), what is cut, and where, is modelled: `cmd.Write` moves as much
as there is room for, and only `EmulateStdInquiry` looks whether that was all.
What the code can never reach is left out: block limits behind an `Atoi` that
fails on the newline of the attribute, and MODE SELECT behind a `Read` of 512
bytes that is refused if it succeeds.

## 3. Runs

| run | module, bounds | shows |
|---|---|---|
| `poll_safety` | ring of 6 units, entries of 1 and 3, 3 commands, 2 cmd_ids, failing poll and write | where entries lie (`RingInv`), own completions, cursor order, no wake-up lost, `CmdService` |
| `close` | ring of 5 units, entries of 2, 3 commands, 2 cmd_ids; teardown, poll and the wait may fail or time out; fairness | an empty ring at unmapping, no fault of a loop at rest, no send on a closed channel, the loop of `PollLoop`, every command is done, `Close` returns |
| `config` | every initial tree, unbounded failures, timeouts and crashes; the graph is finite | each creation starts from nothing, removal never refused, no stale node, `Export` |
| `poll_handler_error` | handlers that return Go errors | violation, finding 1 |
| `hba_faults` | 2 calls, 2 names, 1 disk number, a disk of another program, every failure and timeout, one event buffered; fairness | no unlock of an unlocked mutex; while calls come one at a time, what earlier ones left is harmless (`AloneInv`) and every call returns |
| `hba_concurrent` | 3 concurrent calls, 2 names, 3 disk numbers, removals, `Stop`, every failure, no timeout | `SessionInv`, own number, no nil dereference, no open device lost unaccounted, `Registry` |
| `hba_refused` | 2 calls | violation, finding 2 |
| `hba_leak` | 1 call | violation, finding 4 |
| `ring` | 3 slots, 2 in flight, 4 commands, a loop that may stop, fairness | slots in use, no response lost, `startRespx` never waits for an index it has dropped, `CmdService`, every command taken is completed |
| `cursor` | vectors of 0, 2, 0, 3, 0, 1 bytes, calls of 0, 1, 2, 3, 7 bytes | one flat buffer, calls return |
| `device` | 2 sectors of 2 units, transfers of 0, 1, 2 and 4 sectors, 32-bit lengths wrapping at 3; other commands with room for less than, as much as and more than a page | a disk, and its capacity |
| `device_address` | 6-byte commands | violation, finding 3 |

Why the bounds suffice. In a ring of six units entries of one and three leave a
rest of one or two, filled by a pad, or none: pads of different lengths, exact
fits, a wrapped head with the tail behind it and a cmd_id used again all occur
within three commands, and the proofs cover every other ring. In the ring of five
units of `close` entries of two wrap with a pad at the second command. Two creations
are enough for a late completer or event to meet a later creation, of its own name
or of another; in `hba_faults` all disks get the one number there is, one after
the other, so that every event passes for the next disk, and no property of that run
says whose number a device gets. In `hba_concurrent` there are as many numbers as
disks, so that the wrong one could be given; the third creation waits while two
race. Three slots and four commands
make head and tail wrap. The vectors have an empty one at the start, in the
middle and before the last, and calls end inside, at the end of, and beyond
vectors. In `device` transfers end at, before and after the end of the disk, and
a transfer of four sectors is served as one. `CHECK_DEADLOCK FALSE` is set where the
system may stop: a stopped loop, a bounded number of commands or calls, a
process that panics.

## 4. Fairness

*Poll loop and `Close`* (`CloseFairSpec`): both goroutines and `Close` run when
they can (the Go scheduler), handlers return, the kernel finishes a submission
it began, takes completions after a notification and removes a LUN without
commands. Once a removal has begun the kernel lets only commands through that
were on their way, which `MaxCmds` bounds. `write` does not fail in this run. A
failure of `poll`, of `teardown` and the end of the 30 s are possible at any time but not fair;
the liveness properties hold up to a failure of `poll` (`LoopDied`). New commands
and calls of `Close` are not fair.
*Concurrent dispatch*: the same; a readable device wakes the waiter.
*HBA*: goroutines run, the writes to configfs return, the timer fires (without
`MayTimeout` only where no event is to come, as it then must). Nothing
has to call `CreateDevice`, `RemoveDevice` or `Stop`; the map is ranged over in
any order. A completer that waits for its event is not assumed to get one.
`CreateReturns` is claimed as long as no two calls of the HBA are in progress at once
and no completer has given up after its 300 looks: either can leave the mutex
locked (finding 2, section 5).
*Command access*: the loop runs as long as it can.
All fairness is weak.

## 5. Findings

Disagreements with what the repository says, each with a run that shows it:

1. A Go error of a handler is dropped; the kernel is told GOOD under cmd_id 0 (`handler.go:211`).
2. A refused `CreateDevice` leaves the mutex locked for good (`hba.go:86`).
3. The address of a 6-byte command is cut to a byte, 0 read as 256 (`scsi.go:79`).
4. When `postEnableTcmu` fails, the open device is dropped without `Close`, though it
   "must be closed" (`block_device.go:93`, `hba.go:112`). `OpenIsAccounted` says which other
   places drop one: an error of `Close` (`hba.go:117`, `:183`), and an entry of the map that
   is written over or deleted while it is another device of its name (`:154`, `:184`).

Behaviour the models have, or that the assumptions of runs and theorems exclude,
and that no run is about. Where the repository says something of it, it is quoted.

* an event that is late passes for the next disk of the same name
  (`hba.go:136`, `:221`, `:238-245`). A creation c1 times out and is closed, c2 gets its
  number, and c1's event arrives: c2's completer takes it, c2's own event stays in
  `devEvent`, and the completer of c3 takes that one, so that c3 gets c2's
  number while c2 is there. `OwnNumber` is violated in `hba_concurrent` with
  `MayTimeout = TRUE`, and with a disk of another program;
* if the creation that meets such an event fails, or is not through with
  `newVirtBlockDevice` for 15 s more, the completer looks 300 times at nil and
  leaves without `Unlock` and without a word (`hba.go:143-167`): the next call waits for ever;
* after a timeout a second creation is let in beside the first (`hba.go:163`);
* with as many commands in flight as response slots, responses are erased (`handler.go:165`);
* the branch of `startRespx` commented "fatal error" is taken in normal
  operation, and is harmless (`handler.go:170`);
* operation codes 0x60-0x7e and 0xc0-0xff end the process (`share_area.go:182`);
* a loop that is still draining when `Close` unmaps the ring looks into it once
  more, which ends the process (`block_device.go:142`);
* after a failure of `poll`, EINTR included, nobody serves the ring: with commands
  outstanding the kernel keeps the LUN and `teardown` can only time out
  (`handler.go:244`);
* a removal that timed out may take away what the next creation has made
  (`block_device.go:419`);
* without a uio device `findDevice` returns nil, and a LUN is exported that
  nobody serves: `ExportSpec` is violated with `UioMayBeMissing = TRUE`
  (`block_device.go:314`);
* INQUIRY with room for fewer than 36 bytes and MODE SELECT with a list of fewer than 512
  are Go errors (`command.go:96`, `:314`), with the consequence of finding 1.
  `command.go:297` says "EmulateModeSelect checks that the only mode selected is the
  static one returned from EmulateModeSense": it accepts no list at all, not that one
  either;
* a volume smaller than a block reports 2^64 - 1 as its last block (`command.go:227`).

## 6. Proofs

All theorems hold for every value of the constants that satisfies the `ASSUME` of
the component and the assumption the theorem itself names.

* `PollLoop_proofs`: `TypeOK` is inductive. `RingInv` says where the entries of
  the window between `lastCleaned` and `cmd_head` lie and which cursor has
  passed which; it is needed because the code only has offsets, and that an offset is the
  start of an entry is a fact about the whole chain. It holds whatever
  handlers return. `CursorOrder`, `OnAHeader`, `TailPassesAnswered` follow.
  `WakeupsKept` needs none of it: a published command is under an event until the
  waiter polls it, and a loop that clears the event looks at the ring afterwards.
* `PollLoopReply_proofs`, assuming handlers that return no Go error: `ReplyInv`
  adds what the entries say. `OwnCompletion` follows, and with it every step of
  the loop maps to a step of `CmdService` or to none (`ServiceRefined`). The
  assumption is necessary, as finding 1 shows.
* `HBA_proofs`: `TypeOK` and `UnlockPaired` are inductive together with every
  failure and timeout. For the rest there are two inductive invariants, one for each
  way to use an HBA. Both contain `CreationInv`: beside a creation under way no
  completer has still to unlock (`InvOne`), `vbdInitializing` is the device that waits
  (`InvInitializing`), how far a completer can be (`InvCompleter`), and that SUCCESS is
  what registers and returns (`InvReturned`).
  * Any number of concurrent callers, no creation outlasting `CREATE_TIMEOUT`:
    `SessionInv` adds that the mutex and `vbdInitializing` together admit one
    creation, since neither is held all the time (`InvSession`), and, without other
    programs' disks, that at most one event is on its way, to the completer that waits
    for it (`InvEvents`), so that the number it gives is its own (`InvNumber`) although
    the event does not say so. `NeverNil` and `OwnNumber` follow. `RegisteredInv`
    says what the map has: what was reported as created and is open, unless it was
    dropped; `OpenIsAccounted` follows.
  * Timers that fire, other programs' disks, every failure, as long as no two calls
    of the HBA were in progress at once: `SequentialInv`, in the form
    `overlapped \/ SequentialInv` (`AloneInv`). Completers of earlier calls may still be
    there, and their events may pass for this call's. The invariant says that they
    neither have the mutex nor come to nil; it says nothing of whose number a device gets,
    and cannot (section 5).

  Under either invariant every step of the HBA is a step of `Registry` or none
  (`RegistryImplemented`, `RegistryImplementedAlone`): who is refused meets a creation,
  SUCCESS is what registers, and `OneByOne`, which the lemmas `SessionOneByOne` and
  `SequentialOneByOne` derive: who passes the mutex meets nobody, and a completer has
  a number to give only while its `CreateDevice` waits.
* `RespRing_proofs`: two theorems hold for any number of commands in flight.
  `IndicesKept` (`NoIndexLost`): `startRespx` drops an index only after a look at the
  slot of `tail`, and looks again whenever it has moved `tail`. `NoCommandTwice`, for
  handlers without Go errors: a response is put into one slot, and that slot is
  cleared before `startRespx` looks again; what another handler has put there
  meanwhile is lost with it, but nothing is told twice. TLC checks its invariant
  `InvOnce` also where there are as many commands as slots, or more. The other
  theorems hold up to the first slot that is handed out before `startRespx` has left
  it, which is the condition `RoomInRing` on the behaviour: `SlotInv` places the
  commands in flight in consecutive slots from the tail on; `NoAnswerLost` follows,
  and `InvOwn` (`OwnResponses`) and `ServiceSpec` for handlers without Go errors.
  `RoomWithFewer` is what the run `ring` has: fewer commands outstanding than slots are
  enough. `startPollx` does not see to it, and with as many of them the slot of a
  completed command is cleared after the kernel has reused it.
* `ScsiCmd_proofs`: `CursorInv` (with `InOrder`) is inductive; the refinement of
  `DataBuffer` needs it where a call returns short: the cursor is behind the
  last vector, so all bytes were moved.
* `VbdClose_proofs`: the steps of `Close` and the loop are steps of `PollLoop`
  (`CloseRefinesLoop`), so that the theorems about `PollLoop` serve here too.
  `CloseInv` relates the places of `Close` and of the two goroutines and gives
  `RestSafe` and `NobodySends`. With `RingInv` and, for handlers without Go errors,
  `ReplyInv` it gives `UnmapSafe`. `LoopSafeBesideClose` carries own completions, headers,
  cursors and wake-ups over from `PollLoop`. That the ring is empty needs the whole chain: the kernel lets the LUN go
  when nothing is in flight, the last entry is then a command, not a pad (`InvLast`), and the
  answered entries are those the library has fetched.
* `DeviceConfig_proofs`: `ConfigInv` is inductive under every failure: during
  teardown the paths before `at` are gone, during creation those from `at` on are not there
  yet, and late removals only take away. `CleanStart`, `RemovalsOrdered`
  and `NodeFresh` follow. `ExportRefined` assumes that findDevice finds the uio
  device; it needs that past its start creation has a loop if the core directory is there.
* `Emulate_proofs`: `EmulateInv`, and, assuming that addresses fit
  (`AddressesFit`) and that the volume is the store and has a block (`VolumeFits`), the refinement of `BlockDevice`. A length that wraps is part of the
  abstract specification: it says what may then happen.

Only model-checked: the liveness properties (`EveryCommandDone` of both loops,
`CloseReturns`, `CreateReturns`, `CallsReturn`), which the prover cannot do under
fairness. The safety part of the first two is proved: no wake-up and no index is
lost. Every other property of a passing run is stated by a theorem.

## 7. Not modelled

* Memory ordering and data races: accesses of the shared words, of the response slots and
  of Go maps are atomic. On the ring the kernel's barriers and the alignment of
  the words justify it. On the Go map (`hba.go:154` beside `:73`, `:172`, `:184`) nothing
  does: PROJECT.json lists it as a hazard without a property.
* The byte layout of the C structures (`offsets*.go`): constants.
* The bytes of the pages INQUIRY and MODE SENSE answer with: constants. The
  descriptors of page 0x83 keep no state and are formatting.
* The contents of the configfs attributes, and failures inside a single write to
  one: a write is a step that succeeds or fails.
* What the kernel gives the numbers of closed descriptors to while a loop that
  outlasted the 30 s still polls them.
* Several HBAs, or one that is not started; a second `Stop` (it closes `stopC` again, which
  panics, `hba.go:77`); two removals at the same time, be it `RemoveDevice` beside `Stop`.
* A failure of `Mmap`: `openDevice` reads the mailbox all the same, of a nil slice, which
  panics (`block_device.go:340-341`).
* The branch on `vbd.shut`: nothing closes that channel or sends on it.
* Worker pools: nothing in the library calls them (`DevReady` is commented out).
* WWN formatting, logging, the example program. Vendored packages (`docker`, `golang.org/x/sys/unix`)
  are third-party code, mostly tables of system call numbers for other
  architectures; they are most of the lines of the repository.

## 8. Plan

1. `DevReady`: both worker pools, closing the response channel once all workers
   have ended; theorem: every response is to a command taken.
2. `HBA` with several life cycles: a second `Stop`, `NewHBA` of the same name,
   and `DeviceConfig` in the place of its steps of creation.
3. `PollLoop` with `RespRing` in the place of its one handler.
