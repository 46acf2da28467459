# Verification of the on-board software: boot chain, image handling, storage and serial interfaces

The repository holds the on-board software (OBSW) of a small satellite on the
iOBC (AT91SAM9G20), its bootloaders, the board support and a hosted build. This
directory holds TLA+ specifications of the parts on which the recovery of the
satellite depends: how it boots, how images and files get to where they are booted
from, how telecommands come in and devices are reached. There are TLC configurations
that check them on small instances, and TLAPS proofs for all instances. Paths below
are relative to `src/`.

## 1. Inventory

### 1.1 Components

| Component | State it keeps | Operations | What makes it correct |
|---|---|---|---|
| NOR flash bootloader (`bootloader/iobc`, `bootloader/common`) | RAM copy of the FRAM block, selected image, hamming request; status word in SRAM0 | CRC self check, choice of an image, copy to SDRAM, hamming check, reboot counter, jump or restart | tries of a bad image are bounded, a requested check is made, every reset ends in a running image, fail-over reaches every image |
| FRAM critical block (`bsp_sam9g20/common/fram`) | reboot counters, hamming flags, sizes, update flags, preferred SD card | field writes with and without an operating system, series of writes | survives restarts between any two writes; sentinel values 0xff and 0xffff are told from real ones |
| Core controller (`bsp_sam9g20/core/CoreController.cpp`) | 64-bit counters, time | commands on the FRAM block, restarts, task statistics | commands touch the field of the image they name; counters survive overflows |
| Software image handler and image copying engine (`bsp_sam9g20/core`) | handler state, progress of a copy, error counter, two multi-purpose helpers, one buffer | four copy commands, periodic continuation | a finished copy equals its source, no leftovers, the bootloader is never damaged, every copy ends |
| SD card access (`bsp_sam9g20/memory/SDCAccessManager.cpp`, `SDCardAccess.cpp`) | number of accesses, active card, change under way, file system | create and destroy an access token, try a change of card | who holds an access uses the active card; a requested change happens |
| SD card handler (`bsp_sam9g20/memory/SDCardHandler.cpp`, `SDCHStateMachine.cpp`) | pending change, number of the last packet of an upload, file names and recipient of a copy | file commands, actions, card change, copies over several cycles | an upload is reported as it is stored; a copy is answered; the handler is never refused by its own change |
| SPI interface (`bsp_sam9g20/comIF/SpiDeviceComIF.cpp`) | semaphore of the bus, status per device, selected slave | send, send success, read, interrupt callback | the semaphore is not lost; a late answer is not taken for the answer to the next request; a dead slave does not stop the polling |
| I2C interface (`bsp_sam9g20/comIF/I2cDeviceComIF.cpp`) | as SPI, and a counter of blocked attempts | as SPI | as SPI |
| RS232 reception (`comIF/RS232PollingTask.cpp`, `comIF/UartPollingBase.cpp`, `core/RingBufferAnalyzer.cpp`, `tmtcbridge/TmTcSerialBridge.cpp`) | two alternating transfers, ring buffer, bytes already searched | poll, analyze, pass on | no byte is swapped or repeated; frames are found again after losses |
| Ethernet TMTC bridges, PUS parser (`bsp_sam9g20/tmtcbridge`) | connection, FIFO of packets | receive, parse, send | packets cut anywhere are put together again; evaluation board only |
| Gyro assembly (`mission/assembly`) | modes of two devices | mode commands, check of children | a mode with too few devices is left |
| TM funnel, task monitor (`mission/utility`) | message queues, check-in map | fan-out, check-in, check | a silent task is reported |
| PUS services, TM store, FDIR, device handlers, controllers (`mission`) | per service or device | FSFW callbacks | depend on the FSFW base classes, which are a submodule and not in the repository |
| FreeRTOS, AT91 library, lwIP, hosted board, tests, generators | | | third-party or development code |

### 1.2 Interactions

The bootloader and the OBSW never run together. They talk through the FRAM block
(flags and counters), the SRAM0 status word, the NOR flash and the files on the
SD cards. In the OBSW the core controller, the SD card handler, the FRAM handler
and the image handler are separate tasks which write the same FRAM block and use
the same SD card file system; between them are message queues and the counter of
SD card accesses. A change of the active SD card waits for the accesses to end.
Device handlers of one polling task share the SPI bus and its semaphore with the
interrupt of the driver. The polling task of the serial line shares the ring
buffer with the serial bridge, which runs in a task of its own.

### 1.3 Hard behaviours

* A reset can come between any two steps: between the choice of an image and the
  write of its counter, in a series of FRAM writes, in an erasure or a copy.
* The polled FRAM driver of the bootloader has no error path. Reads that are not
  answered look like a blank or a zeroed block; lost writes are not noticed.
* A copy is spread over task cycles. Each cycle opens the file again; the buffer,
  the file position, the index and the two helpers must agree again, after errors
  and after commands that arrive during the copy.
* Mutex guards are created without a name and unlock at once. The count of SD card
  accesses, the flag of a change and the active card are used unprotected.
* The SD card handler does its work while messages arrive: a change of the card, an
  upload and a copy are each spread over several cycles and meet each other.
* A wait for the SPI bus can time out while the transfer is still in the driver. The
  program carries on, and the interrupt comes later.
* The serial line is read in chunks of any size, and chunks can be dropped: the
  analyzer sees frames cut, joined, and with their ends missing.
* Counters have a width and sentinel values.
* Every image may fail its check. Something must be booted nevertheless.

The full list, line by line, is under `hazards` in `PROJECT.json`, with the
property that would catch each of them going wrong.

## 2. Modules

| Module | Models |
|---|---|
| `FramBlock` | the bootloader group of the FRAM block, the field writes of the FRAM API, what an unanswered read looks like |
| `BootPolicy` | abstract specification of the boot chain: tries per image, boot order, last resort |
| `BootChain` | the bootloader from reset to jump, the OBSW commands and tasks that change its inputs, faults; the refinement mapping to `BootPolicy` |
| `BootChainProofs` | TLAPS proofs about `BootChain` |
| `MCBootChain` | FRAM contents for TLC |
| `ImageCopying` | the software image handler and the image copying engine of the iOBC with NOR flash, FRAM, SD cards and the tasks around it |
| `ImageCopyingProofs` | TLAPS proofs about `ImageCopying` |
| `MCImageCopying` | files for TLC |
| `SdCardAccess` | the access tokens of the SD cards, with each access to the shared fields a step |
| `SdCardAccessProofs` | TLAPS proofs about `SdCardAccess` |
| `SdCardHandler` | the SD card handler and its state machine, composed with `SdCardAccess` |
| `SdCardHandlerProofs` | TLAPS proofs about `SdCardHandler`, on top of `SdCardAccessProofs` |
| `SpiBus` | the SPI interface: polling task, semaphore, driver queue, interrupt, decoders |
| `SpiBusProofs` | TLAPS proofs about `SpiBus` |
| `SerialTc` | telecommands on the serial line from the driver to the distributor |
| `SerialTcProofs` | TLAPS proofs about `SerialTc`, with the laws of `FlattenSeq` they need |
| `MCSerialTc` | frames for TLC |

`FramBlock` is extended by `BootChain`; `BootChain` instantiates `BootPolicy`;
`SdCardHandler` extends `SdCardAccess` and takes its steps in its own actions.

### 2.1 BootChain and the code

The bootloader is one thread. Its steps are the phases of `boot_iobc_from_norflash`
(`main_norflash.c`), cut where a reset makes a difference, that is between any two
accesses to the FRAM, the flash or the SRAM status word:

| Phase | Action | Code |
|---|---|---|
| reset | `initialize_all_iobc_peripherals` | reads the block into `bl`; `fram_faulty` if the driver does not start |
| check | `perform_bootloader_check` | CRC16; an invalid bootloader jumps to the flash image at once |
| select | `SelectImage` | `determine_boot_select` and `local_hamming_flag_check` |
| copy | `copy_norflash_binary_to_sdram`, `copy_sdcard_binary_to_sdram` | copy and check; `handle_hamming_code_result` |
| count | `increment_reboot_counter_no_os` | writes the counter, then jump, or restart after a problem |
| running | actions of `Obsw` | the commands and tasks named like their methods; those of the core controller exclude each other, those of the SD card handler and the image handler do not |

`fram` is the block in the FRAM, `bl` is `bl_fram_block`. `norImage` is what a
check of the flash image would find, `blValid` what the CRC check would find;
both are changed by the image handler (seen here as one nondeterministic action
per kind of copy) and `norImage` by radiation. Sizes are reduced to the classes
the code tells apart: zero, 0xff, blank, valid. The build that is modelled is the
one without FreeRTOS, with the polled driver, the HCC file system and the CRC
check enabled.

`handle_hamming_code_check` is called by the SD card code through a declaration
that lacks a parameter (`boot_sd.c:30`), which is undefined; the verdict on an SD
card image is therefore any verdict. `SET_LOAD_OBSW_UPDATE` cannot enable an
update (see findings), so update flags come from the initial contents only.

### 2.2 ImageCopying and the code

`eng` are the members of `ImageCopyingEngine`; `flag1` and `counter1` are
`helperFlag1` and `helperCounter1`, with the double meaning they have in the code.
`pc` is where the task is in its cycle:

* `sleep`: between two cycles;
* `messages`: in `handleMessages`, which takes commands;
* `work`: before a call of `continueCurrentOperation` or at its top;
* `file`: in the loop of a copy, with the source file open.

Commands are the disjuncts of `executeAction`, with the busy check the code makes
for each. A NOR flash copy is `handleNorflashErasure` (one sector per step),
`finishErasure`, `openForNorFlash`, then `writeBucket` or its failures until the
file ends. The other copies are `openForFram`/`writeHammingBucket` and
`openForSdCard`/`appendBucket`. Every loop may run out of time after any bucket
(`TASK_PERIOD_OVER_SOON`): the model leaves the time open, so the end of a cycle
may come at every place where the code looks at its countdown. A bucket of the
buffer size is the unit of all sizes and positions. A cell that is programmed
without an erasure becomes `mixed` unless it gets the value it has.

A finished bootloader is followed by `writeBootloaderSizeAndCrc`: its size and CRC go
into the last six bytes of its region, part of the cell `LastCell`. A cell that was
erased is then a `trailer`. The code does not check that the bootloader ends before
these bytes; a bucket that reaches into them (`FullBuckets`) is `cut` by them, and one
that does not keeps its data. Either write may fail, which is only printed.

`Environment` is what happens outside the task: a change of the SD card, a deleted
file, a restart of the OBC.

### 2.3 SdCardAccess, SdCardHandler and the code

`at[t]` is where task `t` is in the code of its token: the constructor (`c_`), the
destructor (`d_`), `tryActiveSdCardChange` (`t_`), or outside of them. The guards in
this code unlock at the end of their own statement, so every read and every write
of `activeSdCard`, `changingSdCard` and `activeAccesses` is an action, and
`activeAccesses++` is two. `races` counts how often a task enters this code while
another one is in it; with `races = 0` the code behaves as if the mutex worked.

`step` is where `performOperation` of the handler is:

| Step | Action | Code |
|---|---|---|
| wait | `ReceiveFirst` | the first `receiveMessage` of the cycle |
| try | `TryActiveSdCardChange` | a pending change, step by step; refused, it ends the cycle and drops the message |
| token | `CreateToken`, `AccessResult` | the token on the stack, `handleSdCardAccessResult` |
| message | `HandleFirst` | `handleMessage` of the first message |
| loop | `handleNextMessage`, `driveStateMachine`, `LeaveLoop` | the loop until three quarters of the period are over |
| release | `ReleaseToken`, `CycleOver` | the destructor at the end of the block |

Of the file system one file is modelled: it exists on some cards, and is the
sequence of the packets in it. The number in `file` is the number of the packet;
`Part` is what a write that failed half way has left. The packet number is taken
before the file is opened and is not given back when the write fails, which is why
`PacketMissing` lets a packet be repeated. `upload` is a history variable: whether
the packets since packet 0 came in order, failed ones repeated. `copyPending` tells
whether a copy was accepted and not answered, and whether the answer would still
reach the one who commanded it. `REPORT` stands for the commands that only read.

### 2.4 SpiBus and the code

The device handlers run in one task, in the order of the polling sequence table: all
send (`sendMessage`), all ask for the success (`getSendSuccess`), all read
(`readReceivedMessage`). `phase` and `cur` are the place in this sequence. The table of
this commit polls one SPI device, `SPI_Test_MGM` (`pollingSequenceInitTest`); the
entries of others are commented out. The interface is written for several, with and
without decoders, so the model has any number of them in the order of the slots.
`sendMessage` is cut into taking the semaphore or its timeout, selecting the slave,
and queueing the transfer, because the interrupt (`SPIcallback`) can come in
between. `queue` is the queue of the driver; each transfer in it knows whether a
newer one to the same device was sent, and whether the decoders were switched while
it ran. These marks decide what a reply buffer holds: the answer to the last
command, an old one, or a mixture. `overrun` is set by each timeout and cleared when a
cycle begins with an empty queue.

### 2.5 SerialTc and the code

The driver fills the transfers in the order in which they were queued; the task
waits for them in turn (`pollUart`) and queues each again. `checkForPackets` has one
action per result of `RingBufferAnalyzer`: `NoPacketFound`, `PacketFound`,
`PossiblePacketLoss`. A byte is the number of its frame or one of the two marks;
the DLE encoding, which keeps the marks out of a payload, is the reason why this is
enough. `PacketFound` deletes as many bytes as the code does, which is counted from
the start mark and not from the read pointer.

## 3. Runs

| Run | Question | Result |
|---|---|---|
| `bootchain_safety` | Does the boot chain bound the tries, keep requests for a check and implement `BootPolicy`, with a fault anywhere and a command? | holds |
| `bootchain_liveness` | Does every reset end in a running image, and does a crashing OBSW lead to both SD cards? | holds |
| `bootchain_update` | Does an update boot load the update? | violated, see findings |
| `bootchain_ecc` | Does an ECC error lead to a restart as the comment says? | violated |
| `image_copying` | Is an undisturbed copy faithful, is an idle engine clean, is the bootloader only programmed into erased cells but for its size and CRC, does every copy end? | holds |
| `image_success_reply` | Does success mean finished? | violated |
| `image_write_retry` | Is the next bucket read after a bucket that needed a second write? | violated |
| `sdc_access` | Does every task with an access use the active card? | violated |
| `sdc_handler` | Do the tokens work when tasks do not meet, how wrong is the count when they do, is the handler never refused, are uploads reported as stored, is a commanded change made as long as messages arrive? | holds |
| `sdc_copy` | Is an accepted copy answered? | violated |
| `spi_bus` | Is the semaphore never lost, is a reply the answer to this cycle's command, does polling go on when the driver does not? | holds |
| `serial_tc` | Is the byte stream intact without losses, and are all whole telecommands found with them? | holds |

### 3.1 Properties

* `BoundedTries`: between two clearings of its counter an SD card image is chosen
  at most `MAX_REBOOT` times, plus once per fault. The flash image is left out:
  as the last resort it is booted without bound.
* `VerifiedBoot`: a check that the FRAM asks for is made before the jump, unless
  every image is out of tries. ECC errors count as passed, because the code treats
  them so (`EccErrorRestarts` states what the comment says). The property speaks of
  boots whose read of the block was answered.
* `ImplementsBootPolicy`: refinement of `BootPolicy`, with the tries left computed
  from the counters in the FRAM.
* `AlwaysBoots`, `Failover`: liveness, below.
* `IdleEngineIsReset`, `FaithfulCopy`, `BootloaderProgrammedOnce`, `CopyTerminates`:
  the engine. `FaithfulCopy` is about finished copies that met no second command,
  no change on the SD cards and no failed write. It leaves out images that reach the
  OBSW sector which is never erased, and bootloaders that reach the last six bytes of
  their region (`ReachesSizeAndCrc`). Each of these exclusions is a place where the code
  does not give the guarantee; the second command, the failed write, the sector and the
  six bytes are findings, the change of the card is a hazard without a property.
  `BootloaderProgrammedOnce` has the same exception for the end of the region: a `cut`
  cell is admitted, a `mixed` one is not.
* `SafeSwitch`: without a meeting in the unprotected code, the count is the number of
  accesses, accesses use the active card, and a granted access finds the file system
  open. `VolumesAgree` is its second part without the condition, which the comments
  in the code claim; it is violated.
* `CountDrift`: what meetings do to the count. A lost increment or decrement stays lost,
  but the count is never further from the number of accesses than the number of
  meetings, in either direction and in 8 bits.
* `HandlerNotRefused`: also with meetings the handler's own token is not refused, and
  its card is the active one while it works. The code treats the opposite as an
  impossible case. It holds because only the handler changes cards.
* `UploadReported`: the number of packets in the finish reply is right for uploads in
  order, with any failed packets repeated, and skipped ones refused.
* `ChangeCompletes`: if messages keep arriving at the handler, a commanded change is
  made. `performOperation` returns at an empty queue before it tries the change, so
  without further messages it is never made; that condition is part of the property.
  After a lost count, which only a meeting can cause, it may never be made either.
* `SemaphoreNotLost`, `ReplyIsFresh`, `PollingGoesOn`: the SPI bus. With a timeout in
  the cycle before, a reply may be an old one; `overrun` marks these cycles. The
  property says that the effect ends with the first idle bus.
* `StreamIntact`: packets passed on, ring buffer, read buffers and line are together
  what was sent, as long as nothing is lost. `Resynchronizes`: every whole
  frame is passed on in the end. It promises at least once: a frame can be
  passed on twice after a loss (see findings).

### 3.2 Bounds

* `MAX_REBOOT = 2` (5 in the code), `UNINITIALIZED = 4` (0xff), `CounterModulus = 6`
  (2^16): the order 0 < limit < sentinel < last value is kept, and the distance is
  short enough for a run to pass the limit, reach the sentinel and wrap. The proofs
  cover every other choice.
* Faults and commands: one each. One fault can strike at every step, before and
  after the command; the sum in `BoundedTries` shows the effect of more, and the
  proofs cover any number.
* `LaunchBlocks`: preferred card 0, 1 or never set, no update, an update on one or
  both cards, checks on and off, and a blank FRAM. Clear counters are enough: every
  other value is reached by boots.
* Images: two buckets against large sectors of two buckets, so a copy crosses a
  bucket boundary, and the bootloader crosses from a small into a large sector. The
  bootloader on the second card has three full buckets, which is its whole region, so
  its end meets the size and the CRC; the other one leaves the last cell to them;
  three OBSW buckets or more would reach into the sector that is never erased,
  which `FaithfulCopy` leaves out. Two hamming buckets reach the second call of
  `fram_write_ham_code`. The proofs cover regions, sectors and files of any size.
* Two commands: one to start a copy and one at any moment of it, or after it. One
  disturbance. Device errors are not bounded: the error counter of the engine ends
  the copy after three. The proofs cover any number of commands and disturbances.
* SD card runs: the handler and one client (two in `sdc_access`), one meeting in the
  unprotected code, which can be at any pair of its steps. Two commands besides
  reports, and a queue of one message: every pair of commands in every order and at
  every distance, from the middle of an upload. The two initial uploads, one packet
  stored, or two stored and the third failed, stand for the states which a longer
  sequence of packets reaches: each further packet is the first or the second
  command. `MaxPacket = 2` has a first packet, the special second one and a later one.
  The proofs cover up to 254 clients, any number of meetings, commands and queued
  messages, and uploads of up to 65535 packets.
* SPI: two devices, of which one is behind a demultiplexer, so that each can disturb
  and be disturbed; a queue of three holds one transfer of each and a repeated one.
  The proofs cover every number of devices and every depth.
* Serial line: payloads of 3, 1 and 1 bytes and chunks of up to 3. A frame can lose its
  start, its end, its middle, or all but its middle; two frames can lose their ends
  towards each other; and the last frame can come whole after both. The proofs
  cover any frames, any chunk size and any number of losses; `Resynchronizes` is
  liveness and has only these.
* `CHECK_DEADLOCK FALSE` in the image runs: an idle handler without further
  commands has nothing to do.

### 3.3 Fairness

`CrashLoopSpec` assumes weak fairness of the bootloader, a single thread which
nothing stops but a reset, and of `Restart`, which states the scenario: an OBSW that
crashes sooner or later after each boot. `WatchdogReset` and the other faults are
not fair, and their number is bounded. `ImageCopying` assumes weak fairness of
`performOperation`: the handler is a periodic task, which the scheduler runs in
every period. Commands and the environment have no fairness.
`SdCardHandler` assumes weak fairness of the handler's task and of the clients that
have begun an access (they end it: no token lives longer than a cycle of its task).
Messages have no fairness: nothing in the handler brings them about, and
`ChangeCompletes` is about behaviours in which they keep arriving. `SpiBus` assumes weak
fairness of the polling task only; the driver may never end a transfer. `SerialTc`
assumes it of the driver, the polling task and the bridge: a byte on the line ends a
transfer, and both tasks are scheduled.

## 4. Proofs

Each inductive invariant was first checked by TLC, on the instance of the component's
run, and then proved.

### 4.1 The boot chain

`BootChainProofs` proves, for every `MAX_REBOOT`, sentinel and modulus in this
order (`CounterAssumption`), every set of initial blocks and every number of faults
and commands (`BootAssumption`):

| Theorem | Statement |
|---|---|
| `TypeCorrect` | `Spec => []TypeOK` |
| `BootInvariant` | `Spec => []BootInv` |
| `TriesAreBounded` | `Spec => []BoundedTries` |
| `BootIsVerified` | `Spec => []VerifiedBoot` |
| `ImplementsPolicy` | `Spec => ImplementsBootPolicy` |

None of the safety properties is inductive. `BootInv` adds to `TypeOK` and
`BoundedTries`:

* `BlockRead`: inside the bootloader `bl` is the FRAM block or an unanswered read,
  and without a fault it is the block. It is needed because the counter is computed
  from `bl` and written to `fram`.
* `FlashByDefault` and `ChoiceMade`: `boot_select` and `use_hamming` are still what
  `SelectImage` computed from `bl`. `BootIsVerified` and the refinement need it.
* `VerdictKept`: a check that was due has left its verdict when the counter is
  written.
* `TriesCounted`: tries <= counter in the FRAM + faults + the pending try. This is
  the strengthening of `BoundedTries`: an SD card image is chosen only while its
  counter is below `MAX_REBOOT`, so neither the sentinel nor the wrap is reached
  from there, and the increment pays for the pending try. A lost write, an
  unanswered read and a reset are paid for by the fault. An unanswered read never
  makes an SD card image the choice (`UnansweredChoice`): blank counters are
  exhausted, and zeroed ones lead to the flash image.

The refinement is proved step by step (`PolicyStep`). Only the count step, the
jump of an invalid bootloader, counter resets and restarts change the mapped
variables; `CountStep` splits the first into a recorded try, an unrecorded one and
the last resort.

### 4.2 The SPI bus

`SpiBusProofs` proves, for every number of devices, every set of them behind
demultiplexers and every depth of the driver's queue (`SpiConstants`):

| Theorem | Statement |
|---|---|
| `TypeCorrect` | `Spec => []TypeOK` |
| `SemaphoreKept` | `Spec => []SemaphoreNotLost` |
| `BusInvariant` | `Spec => []BusInv` |
| `RepliesAreFresh` | `Spec => []ReplyIsFresh` |

`SemaphoreNotLost` is inductive with `TypeOK`. `ReplyIsFresh` is not; `BusInv` adds:

* `Progress`: what the reports can be in each phase. A reply is only reported after
  all devices have been asked for their success.
* `Exclusive`: without a timeout who holds the semaphore has the bus to itself, and
  who finds it free finds the queue empty. So at most one transfer is queued, it is
  the last one to its device, and its slave stays selected until the callback.
* `Underway`: a command that was sent is answered, or its transfer is the queued
  one. When a read gets the semaphore the queue is empty, so it is answered.

### 4.3 The image copying engine

`ImageCopyingProofs` proves, for flashes, sectors and files of any size and any number
of commands and disturbances (`ImageAssumption`: the marks of a cell are not data,
there are at least two OBSW sectors and a cell of hamming code, and any set of the
buckets reaches into the last six bytes):

| Theorem | Statement |
|---|---|
| `TypeCorrect` | `Spec => []TypeOK` |
| `IdleIsReset` | `Spec => []IdleEngineIsReset` |
| `BootloaderIsProgrammedOnce` | `Spec => []BootloaderProgrammedOnce` |
| `FinishedCopyIsFaithful` | `Spec => []FaithfulCopy` |

`IdleEngineIsReset` is inductive with the types and is the base of the other two: a
copy starts from a reset engine.

* `BootInv`, for `BootloaderProgrammedOnce`: while sectors are erased, those below
  the engine's step are; afterwards the cells from the index on are erased, except
  that the cell at the index may hold the bucket in the buffer. The exception is a
  write that was made and reported as failed; the same bucket is written again,
  which changes nothing. Without it the invariant is false. That bucket is data, not a
  mark (`BufferIsData`), so what is programmed into an erased cell is never `mixed`, and
  what size and CRC do to the last cell leaves it data, a `trailer` or `cut`. A second command is no
  danger to the bootloader because the command to copy it is, other than the rest,
  refused while a copy is ongoing: a copy of the bootloader starts from a reset engine.
* `CopyInv`, for `FaithfulCopy`: how far an undisturbed copy is. `NorProgress`: step
  and index agree, the size in the FRAM is the size of the source, cells below the
  index hold the source and the others are erased. `SdcProgress`: the target is the
  beginning of the source as far as the index. `HammingProgress`: the size recorded.
  An open file is always at the bucket of the engine, in whichever cycle it was
  opened.

The proof found a mistake that the run cannot show: the first version of `CopyInv`
said that every cell below the index holds the source. The cells of the OBSW sector that
the code never erases have to be left out (`NeverErased`): they are programmed over
what they held. No image of the run's instance reaches that sector.

### 4.4 The SD card tokens and the handler

`SdCardAccessProofs` and `SdCardHandlerProofs` prove, for up to 254 client tasks (an
8-bit `activeAccesses` cannot count more; `AccessConstants`), any number of meetings in
the unprotected code, any number of commands and any depth of the queue
(`HandlerConstants`):

| Theorem | Statement |
|---|---|
| `AccessTypeCorrect` | `AccessSpec => []AccessTypeOK` |
| `SwitchIsSafe` | `AccessSpec => []SafeSwitch` |
| `CountDriftsByMeetings` | `AccessSpec => []CountDrift` |
| `ImplementsAccess` | `Spec => AccessSpec`, `Spec` of the handler |
| `HandlerSwitchIsSafe` | `Spec => []SafeSwitch` |
| `HandlerCountDrifts` | `Spec => []CountDrift` |
| `TypeCorrect` | `Spec => []TypeOK` |
| `HandlerIsNotRefused` | `Spec => []HandlerNotRefused` |
| `UploadsAreReported` | `Spec => []UploadReported` |

* `AccessInv`, for `SafeSwitch`: without a meeting at most one task is in the code
  which the mutex was to protect (`Alone`). So a count that was read is still the
  count when it is stored, and "no access" is still true when the card is changed or
  the file system closed (`CountRight`); a token between its first step and its end is
  made for the active card (`CardRight`); a granted access finds the file system open
  (`GrantedOpen`). The count is a cardinality, which each stored increment or
  decrement changes by one; it does not wrap because the tasks are fewer than 256.
* `DriftInv`, for `CountDrift`: the count, and each value that a task has read and is
  about to store, are off the number of accesses by at most `races - Others`. `Others`
  is how many tasks besides one are in the unprotected code with an update of the count
  still to make (`Busy`). Each of them has met another when it entered, which `races`
  counted; when it stores, it can put the values the others have read one further off,
  and then it is no longer among them. `CountDrift` alone is not inductive: it says
  nothing of the values read.
* `ImplementsAccess`: the handler's steps move its own token and those of the clients
  only as `SdCardAccess` allows, so what is proved of the tokens holds in the
  composition.
* `HandlerPlace`, for `HandlerNotRefused`: where the handler is in the code of its
  token in each step of its cycle, and that `changingSdCard` is only set while a change
  is pending and no token of the handler exists. It holds with meetings too: no client
  writes `changingSdCard` or `activeSdCard`.
* `UploadInv`, for `UploadReported`: the file on the active card ends with the packets 0
  to `lastPacketWriteNumber`, without the last one after a failed write.

`HandlerConstants` asks for `MaxPacket < UNSET_SEQUENCE`. The proof fails without it: an
upload whose last packet is number 0xffff is reported as one of 0 packets.

### 4.5 The serial line

`SerialTcProofs` proves, for any sequence of frames, any chunk size and any number of
losses (`SerialConstants`):

| Theorem | Statement |
|---|---|
| `TypeCorrect` | `Spec => []TypeOK` |
| `StreamInvariant` | `Spec => [](TypeInv /\ StreamInv)` |
| `StreamStaysIntact` | `Spec => []StreamIntact` |

* `TransferInv`: a transfer is queued, or full, or in the hands of the polling task, or
  never queued again; the one the task waits for is the first in the driver's queue.
  This is what keeps the two read buffers in the order of the line.
* `StreamInv`: while nothing is lost, there is a number k such that the packets passed on
  are the first k frames, and ring buffer, read buffers and line are the rest of the
  stream. `StreamIntact` alone is not inductive: that the bytes at the front of the ring
  buffer are one whole frame, and that no more are deleted than the packet has, needs
  the ring buffer to begin where a frame begins.

What was sent is `FlattenSeq` of the frames, so the proof needs induction over their
number. The library's induction theorems have an operator parameter; the induction here is
stated for a set of numbers instead (`SetInduction`, from the least element of a set
of naturals, from `WFMin`), and the recursive function that defines `FlattenSeq` is
unfolded with the length that its domain has (`FlatExists`, `FlattenAppend`).
`FrameAtFront` is the lemma about the analyzer: with the stream behind a frame boundary in
front of it, what it finds is the next frame.

### 4.6 Only model-checked

Every invariant of the passing runs has a theorem, and the refinement of `BootPolicy` too.
Left to TLC are the properties that need fairness, which the prover cannot treat:
`AlwaysBoots`, `Failover`, `CopyTerminates`, `ChangeCompletes`, `PollingGoesOn` and
`Resynchronizes`; and the six properties that the code violates.

## 5. Findings

`PROJECT.json` lists them with their lines. Six are shown by runs:

1. `boot_sd.c:84` tests the same constant twice; an update on SD card 1 boots
   slot 0 of it.
2. An ECC error in a hamming check does not restart the OBC, against the comment in
   `main_norflash.c:181`.
3. `SoftwareImageHandler` replies success for a copy which ended with
   `F_ERR_NOTFOUND` or `FRAM_ISSUE`; the flash has been erased by then.
4. After a NOR flash write that needed a second attempt the same bucket is read
   again and written in the place of the next one.
5. The access tokens of the SD cards use mutex guards without a name, which unlock at
   once: a task can be granted an access to the card that is no longer active.
6. A copy of the SD card handler that is not finished in one cycle, or whose source
   cannot be opened, is given up without an answer.

Others were met while modelling and are modelled as the code has them: commands
which answer BUSY and replace the ongoing copy all the same; an OBSW sector that is
never erased because another is named twice; the offset in `fram_write_ham_code`;
the volume test of `SET_LOAD_OBSW_UPDATE`; the test for a blank CRC; the recipient of
a copy, which is reset before the success is sent to it and replaced by a refused
copy; the inverted replies of `FORMAT_SD_CARD`; the size and the CRC of a bootloader,
which are written over its end if it fills its region; the size
deleted from the ring buffer, which can leave a telecommand in it to be passed on
again. One was met while proving: packet 0xffff as the last one of an upload has the number
that means "none", and the finish reply then counts 0 packets.

## 6. Not modelled

* The contents of images and the hamming arithmetic: a check is its verdict.
* The AT91 evaluation board variants (`bootloader/at91`, `core/at91`), the SRAM
  bootloader and the FreeRTOS build of the bootloader.
* Handles of the HCC file system. `copySdcImgToSdc` leaks one per cycle.
* The fields of the FRAM block that the bootloader does not read.
* The reply that carries a stale action id after a hamming copy.
* Of the SD card handler: reading files, directories, attributes and locks, which
  change no state that another command depends on; the targets of copies.
* The telemetry direction of the serial bridge (one call of the driver), the overflow
  of the ring buffer (FSFW), a transfer that cannot be queued at start-up.
* The initialization of the SPI interface.
* I2C, RS485, USB and Ethernet; see the plan.
* FSFW: the framework is a submodule, whose source is not in the repository. Services,
  device handlers and controllers are classes on top of it.
* FreeRTOS, the AT91 library and lwIP are third-party code. They are most of the lines
  of the repository; what is modelled is a part of the project's own code in
  `bootloader` and `bsp_sam9g20`.

## 7. Plan

1. The I2C interface after the pattern of `SpiBus`, with its forced release.
2. `PusParser` over fragments, checked against a reference definition; the connection
   of the TCP bridge.
3. Core controller time and 64-bit counters, task monitor, TM funnel, gyro assembly.
4. Proofs, with these: what a loss may do to the stream of `SerialTc` (each packet passed
   on lies between two marks of the line), and step properties of the copying engine (only
   an erasure takes data from the bootloader).
