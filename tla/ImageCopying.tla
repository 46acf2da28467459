------------------------------ MODULE ImageCopying ------------------------------
(***************************************************************************)
(* The software image handler of the OBSW and its image copying engine on  *)
(* the iOBC: copies of OBSW images and of the bootloader from the active   *)
(* SD card to the NOR flash, of OBSW images between the slots of the SD    *)
(* card, and of hamming codes to the FRAM.                                 *)
(*                                                                         *)
(* The handler is a periodic task.  A cycle takes the waiting commands,    *)
(* then continues the copy bucket by bucket until its time is up, so a     *)
(* copy is spread over cycles and other tasks run in between; every cycle  *)
(* opens the source file again.  All sizes and positions count buckets of  *)
(* NORFLASH_SMALL_SECTOR_SIZE bytes, the size of the buffer.               *)
(*                                                                         *)
(* Every device may fail at every access.  No bound on these failures is   *)
(* needed: the engine's error counter ends the copy.                       *)
(***************************************************************************)
EXTENDS Integers, Sequences

CONSTANTS
  Data,             \* contents of a bucket of a file
  FullBuckets,      \* those that reach into the last six bytes of a bucket
  InitialFiles,     \* files on the SD cards, as sequences of buckets
  BucketsPerSector, \* of a large sector; a small sector holds one bucket
  SmallSectors,     \* NORFLASH_SMALL_SECTORS_NUMBER, all for the bootloader
  ObswSectors,      \* RESERVED_OBSW_SECTORS, all large
  HammingCapacity,  \* IMAGES_HAMMING_RESERVED_SIZE
  MaxFileSize,      \* bound on the files a copy between slots may build
  MaxCommands,      \* bound on the commands
  MaxDisturbances   \* bound on SD card changes, deleted files and restarts

Cards == {0, 1}
SdcSlots == {"SDC_SLOT_0", "SDC_SLOT_1"}
FileNames == Cards \X {"BOOTLOADER_0", "FLASH", "SDC_SLOT_0", "SDC_SLOT_1"} \X BOOLEAN

\* Contents of a bucket of the NOR flash or the FRAM besides file contents: a
\* "trailer" holds but a bootloader's size and CRC, a "cut" bucket has them
\* programmed over its end.
Marks == {"old", "erased", "mixed", "trailer", "cut"}

ASSUME ImageAssumption ==
  /\ Data \cap Marks = {}
  /\ FullBuckets \subseteq Data
  /\ BucketsPerSector \in Nat \ {0}
  /\ SmallSectors \in Nat
  /\ ObswSectors \in Nat \ {0, 1}
  /\ HammingCapacity \in Nat \ {0}
  /\ MaxFileSize \in Nat
  /\ MaxCommands \in Nat
  /\ MaxDisturbances \in Nat
  /\ DOMAIN InitialFiles \subseteq FileNames
  /\ \A f \in DOMAIN InitialFiles :
       InitialFiles[f] \in Seq(Data) /\ Len(InitialFiles[f]) <= MaxFileSize

VARIABLES
  handlerState,   \* of the handler
  currentAction,  \* of the handler: action the next completion reply is for
  eng,            \* members of the engine
  imgBuffer,      \* the bucket read last
  filePos,        \* position in the open source file, 0 without one
  pc,             \* where the task is in its cycle
  card,           \* active SD card
  changing,       \* a change of the active SD card is requested
  files,          \* files on the SD cards
  flash,          \* NOR flash, the bootloader's and the OBSW's part
  blCrc,          \* the CRC stored with the bootloader matches it
  framSize,       \* binary sizes in the FRAM
  framHam,        \* hamming codes in the FRAM
  result,         \* what continueCurrentOperation returned in the last step,
                  \* with the engine of that moment
  commands,       \* commands accepted so far
  disturbances,   \* steps of other tasks, and restarts, so far
  clean           \* history: the copy met no second command, no change of
                  \* the SD card and no failed write

handlerVars == <<handlerState, currentAction, pc>>
storageVars == <<files, flash, blCrc, framSize, framHam>>
sdVars == <<card, changing>>
bounds == <<commands, disturbances>>
vars == <<handlerVars, eng, imgBuffer, filePos, sdVars, storageVars, result,
          bounds, clean>>

Regions == {"BL", "OBSW"}
BlSectors == SmallSectors + 1
Capacity == [BL |-> SmallSectors + BucketsPerSector,
             OBSW |-> ObswSectors * BucketsPerSector]
FramSlots == {"FLASH_SLOT", "SDC_0_SL_0", "SDC_0_SL_1", "SDC_1_SL_0", "SDC_1_SL_1"}

NorCopies == {"COPY_IMG_SDC_TO_FLASH", "COPY_BL_SDC_TO_FLASH"}
Unsupported == {"COPY_BL_FRAM_TO_FLASH", "COPY_BL_HAMMING_SDC_TO_FRAM"}
ImageHandlerStates ==
  NorCopies \cup Unsupported
    \cup {"IDLE", "COPY_IMG_SDC_TO_SDC", "COPY_IMG_HAMMING_SDC_TO_FRAM"}
Actions == {"COPY_BOOTLOADER_SDC_TO_FLASH", "COPY_OBSW_SDC_TO_FLASH",
            "COPY_OBSW_SDC_TO_SDC"}
Results == {"RETURN_OK", "RETURN_FAILED", "OPERATION_FINISHED",
            "TASK_PERIOD_OVER_SOON", "FRAM_ISSUE", "F_ERR_NOTFOUND"}

reset_KeepFlag(e) ==
  [state |-> "IDLE", internal |-> "IDLE", source |-> "NONE", hamming |-> FALSE,
   step |-> 0, idx |-> 0, size |-> 0, errors |-> 0, flag1 |-> e.flag1, counter1 |-> 0]
reset(e) ==
  [state |-> "IDLE", internal |-> "IDLE", source |-> "NONE", hamming |-> FALSE,
   step |-> 0, idx |-> 0, size |-> 0, errors |-> 0, flag1 |-> FALSE, counter1 |-> 0]

InitialEngine ==
  [state |-> "IDLE", internal |-> "IDLE", source |-> "NONE", hamming |-> FALSE,
   step |-> 0, idx |-> 0, size |-> 0, errors |-> 0, flag1 |-> FALSE, counter1 |-> 0]

NoResult == [code |-> "NONE", eng |-> InitialEngine]

\* A third error ends the copy; successes do not clear the count.
TooManyErrors_OneMore(e) == e.errors > 3
TooManyErrors(e) == e.errors >= 3

Init ==
  /\ handlerState = "IDLE"
  /\ currentAction = "NONE"
  /\ eng = InitialEngine
  /\ imgBuffer = "old"
  /\ filePos = 0
  /\ pc = "sleep"
  /\ card \in Cards
  /\ changing = FALSE
  /\ files = InitialFiles
  /\ flash = [r \in Regions |-> [k \in 0..(Capacity[r] - 1) |-> "old"]]
  /\ blCrc = TRUE
  /\ framSize = [r \in Regions |-> 0]
  /\ framHam = [s \in FramSlots |->
                  [size |-> 0, code |-> [k \in 0..(HammingCapacity - 1) |-> "old"]]]
  /\ result = NoResult
  /\ commands = 0
  /\ disturbances = 0
  /\ clean = TRUE

-------------------------------------------------------------------------------
(***************************************************************************)
(* Commands, taken at the start of a cycle.  A command to copy the         *)
(* bootloader is refused while a copy is ongoing.  The others are answered *)
(* BUSY and still replace the operation, its source and its action, while  *)
(* all the progress fields of the engine stay.                             *)
(***************************************************************************)
TakesCommands == pc \in {"sleep", "messages"}

\* The engine as start...Operation leaves it.
Accept(e) ==
  /\ TakesCommands
  /\ commands < MaxCommands
  /\ commands' = commands + 1
  /\ eng' = e
  /\ handlerState' = "COPYING"
  /\ pc' = "messages"
  /\ result' = NoResult
  /\ clean' = (handlerState = "IDLE")
  /\ UNCHANGED <<imgBuffer, filePos, sdVars, storageVars, disturbances>>

handleCopyingSdcBlToFlash_NoBusyCheck(fromFram) ==
  /\ Accept([eng EXCEPT !.source = "BOOTLOADER_0",
                        !.state = IF fromFram THEN "COPY_BL_FRAM_TO_FLASH"
                                              ELSE "COPY_BL_SDC_TO_FLASH"])
  /\ currentAction' = "COPY_BOOTLOADER_SDC_TO_FLASH"
handleCopyingSdcBlToFlash(fromFram) ==
  /\ handlerState # "COPYING"
  /\ Accept([eng EXCEPT !.source = "BOOTLOADER_0",
                        !.state = IF fromFram THEN "COPY_BL_FRAM_TO_FLASH"
                                              ELSE "COPY_BL_SDC_TO_FLASH"])
  /\ currentAction' = "COPY_BOOTLOADER_SDC_TO_FLASH"

handleCopyingSdcImgToFlash(slot) ==
  /\ Accept([eng EXCEPT !.source = slot, !.state = "COPY_IMG_SDC_TO_FLASH"])
  /\ currentAction' = "COPY_OBSW_SDC_TO_FLASH"

handleCopyingSdcToSdc(slot) ==
  /\ Accept([eng EXCEPT !.source = slot, !.state = "COPY_IMG_SDC_TO_SDC"])
  /\ currentAction' = "COPY_OBSW_SDC_TO_SDC"

\* A slot without hamming code leaves the engine alone, the handler copies
\* nevertheless.  The action is not recorded.
handleCopyingHammingToStorage(slot) ==
  /\ Accept(IF slot = "BOOTLOADER_1" THEN eng
            ELSE [eng EXCEPT !.hamming = TRUE, !.source = slot,
                             !.state = IF slot = "BOOTLOADER_0"
                                       THEN "COPY_BL_HAMMING_SDC_TO_FRAM"
                                       ELSE "COPY_IMG_HAMMING_SDC_TO_FRAM"])
  /\ UNCHANGED currentAction

executeAction ==
  \/ \E fromFram \in BOOLEAN : handleCopyingSdcBlToFlash(fromFram)
  \/ \E slot \in SdcSlots : handleCopyingSdcImgToFlash(slot)
  \/ \E slot \in SdcSlots : handleCopyingSdcToSdc(slot)
  \/ \E slot \in SdcSlots \cup {"FLASH", "BOOTLOADER_0", "BOOTLOADER_1"} :
       handleCopyingHammingToStorage(slot)

-------------------------------------------------------------------------------
(***************************************************************************)
(* The state machine of the handler.                                       *)
(***************************************************************************)

\* The copy is continued, unless the messages took all the time of the cycle.
ContinueCopy ==
  /\ TakesCommands
  /\ handlerState = "COPYING"
  /\ \/ pc' = "work"
     \/ pc = "messages" /\ pc' = "sleep"
  /\ result' = NoResult
  /\ UNCHANGED <<handlerState, currentAction, eng, imgBuffer, filePos, sdVars,
                 storageVars, bounds, clean>>

\* continueCurrentOperation returns r with the engine in state e.  Every
\* result but TASK_PERIOD_OVER_SOON and RETURN_FAILED is reported as success.
Return(r, e) ==
  /\ result' = [code |-> r, eng |-> e]
  /\ pc' = "sleep"
  /\ filePos' = 0
  /\ IF r = "TASK_PERIOD_OVER_SOON"
     THEN eng' = e /\ UNCHANGED <<handlerState, currentAction>>
     ELSE /\ eng' = reset(e)
          /\ handlerState' = "IDLE"
          /\ currentAction' = IF r = "RETURN_FAILED" THEN currentAction ELSE "NONE"

\* The operation goes on in this cycle, or is continued in the next one.
Proceed(e, next, pos) ==
  \/ /\ eng' = e
     /\ pc' = next
     /\ filePos' = pos
     /\ result' = NoResult
     /\ UNCHANGED <<handlerState, currentAction>>
  \/ Return("TASK_PERIOD_OVER_SOON", e)

\* Operations without an implementation, or without an operation at all.
continueWithoutOperation ==
  /\ pc = "work"
  /\ \/ eng.state = "IDLE" /\ Return("RETURN_OK", eng)
     \/ eng.state \in Unsupported /\ Return("RETURN_FAILED", eng)
     \/ /\ eng.state = "COPY_IMG_HAMMING_SDC_TO_FRAM"
        /\ eng.internal = "STEP_2"
        /\ Return("RETURN_OK", eng)
  /\ UNCHANGED <<imgBuffer, sdVars, storageVars, bounds, clean>>

-------------------------------------------------------------------------------
(***************************************************************************)
(* Copies to the NOR flash, first step: the erasure.                       *)
(***************************************************************************)
Region(e) == IF e.source = "BOOTLOADER_0" THEN "BL" ELSE "OBSW"

SectorOf(region, k) ==
  IF region = "OBSW" THEN k \div BucketsPerSector
  ELSE IF k < SmallSectors THEN k ELSE SmallSectors

\* getBaseAddress in STEP_1: the last but one OBSW sector is named twice, the
\* last one never.
ErasedSector(region, step) ==
  IF region = "OBSW" /\ step = ObswSectors - 1 THEN ObswSectors - 2 ELSE step

BinaryFile(e) == <<card, e.source, e.hamming>>
FileSize(f) == IF f \in DOMAIN files THEN Len(files[f]) ELSE 0

\* The engine when the erasure starts, or is continued.
PrepareErasure(e) ==
  IF Region(e) = "BL" THEN [e EXCEPT !.internal = "STEP_1", !.flag1 = TRUE]
  ELSE IF e.flag1 THEN [e EXCEPT !.internal = "STEP_1"]
  ELSE [e EXCEPT !.internal = "STEP_1", !.flag1 = TRUE, !.counter1 = ObswSectors,
                 !.size = FileSize(<<card, e.source, FALSE>>)]

SectorsToErase(e) == IF Region(e) = "BL" THEN BlSectors ELSE e.counter1

Erasing ==
  /\ pc = "work"
  /\ eng.state \in NorCopies
  /\ eng.internal # "STEP_2"

handleNorflashErasure ==
  LET e == PrepareErasure(eng)
      r == Region(e)
  IN  /\ Erasing
      /\ e.step < SectorsToErase(e)
      /\ \/ /\ flash' = [flash EXCEPT ![r] =
                 [k \in DOMAIN @ |-> IF SectorOf(r, k) = ErasedSector(r, e.step)
                                     THEN "erased" ELSE @[k]]]
            /\ blCrc' = (blCrc /\ r # "BL")
            /\ Proceed([e EXCEPT !.step = @ + 1], "work", 0)
         \/ /\ Return("RETURN_FAILED", e)   \* no repository, or erasure failed
            /\ UNCHANGED <<flash, blCrc>>
      /\ UNCHANGED <<imgBuffer, sdVars, files, framSize, framHam, bounds, clean>>

\* After the last sector the fields are cleared for the second step.
finishErasure ==
  LET e == PrepareErasure(eng)
      done == IF e.step # SectorsToErase(e) THEN e
              ELSE IF Region(e) = "BL" THEN [e EXCEPT !.step = 0, !.flag1 = FALSE]
              ELSE [e EXCEPT !.step = 0, !.flag1 = FALSE, !.counter1 = 0]
  IN  /\ Erasing
      /\ e.step >= SectorsToErase(e)
      /\ \/ Proceed([done EXCEPT !.internal = "STEP_2"], "work", 0)
         \/ Region(e) = "OBSW" /\ ~eng.flag1 /\ Return("RETURN_FAILED", e)
      /\ UNCHANGED <<imgBuffer, sdVars, storageVars, bounds, clean>>

-------------------------------------------------------------------------------
(***************************************************************************)
(* Opening the source file, once per cycle.                                *)
(***************************************************************************)

\* The size is read anew until the first step is done.
CacheSize(e) == IF e.step = 0 THEN [e EXCEPT !.size = FileSize(BinaryFile(e))] ELSE e

Open_NoSeek(e) ==
  /\ BinaryFile(e) \in DOMAIN files
  /\ e.idx <= FileSize(BinaryFile(e))
  /\ filePos' = 0
  /\ eng' = e
  /\ pc' = "file"
  /\ result' = NoResult
  /\ UNCHANGED <<handlerState, currentAction>>
\* The file is open, and the position the one of the next bucket.
Open(e) ==
  /\ BinaryFile(e) \in DOMAIN files
  /\ e.idx <= FileSize(BinaryFile(e))
  /\ filePos' = e.idx
  /\ eng' = e
  /\ pc' = "file"
  /\ result' = NoResult
  /\ UNCHANGED <<handlerState, currentAction>>

\* The SD card is being changed, or prepareGenericFileInformation fails: no such
\* directory, position beyond the end of the file, or no such file.  Only the
\* last is not RETURN_FAILED.
OpenFails(e) ==
  \/ Return("RETURN_FAILED", e)
  \/ /\ BinaryFile(e) \notin DOMAIN files
     /\ ~changing \/ e.state = "COPY_IMG_SDC_TO_SDC"
     /\ Return("F_ERR_NOTFOUND", e)

\* handleSdToNorCopyOperation up to its loop.
openForNorFlash ==
  /\ pc = "work"
  /\ eng.state \in NorCopies
  /\ eng.internal = "STEP_2"
  /\ \/ ~changing /\ Open(CacheSize(eng))
     \/ OpenFails(CacheSize(eng))
  /\ UNCHANGED <<imgBuffer, sdVars, storageVars, bounds, clean>>

\* copyImgHammingSdcToFram up to its loop.  A FRAM that does not take the size
\* ends the copy with a result of its own.
FramSlot(e) ==
  CASE e.source = "FLASH"      -> "FLASH_SLOT"
    [] e.source = "SDC_SLOT_0" -> IF card = 0 THEN "SDC_0_SL_0" ELSE "SDC_1_SL_0"
    [] e.source = "SDC_SLOT_1" -> IF card = 0 THEN "SDC_0_SL_1" ELSE "SDC_1_SL_1"

openForFram ==
  LET e == CacheSize([eng EXCEPT !.internal = "STEP_1"])
      opened == ~changing /\ (e.step = 0 => e.size <= HammingCapacity)
  IN  /\ pc = "work"
      /\ eng.state = "COPY_IMG_HAMMING_SDC_TO_FRAM"
      /\ eng.internal # "STEP_2"
      /\ \/ /\ opened
            /\ Open(e)
            /\ framHam' = IF e.step = 0
                          THEN [framHam EXCEPT ![FramSlot(e)].size = e.size]
                          ELSE framHam
         \/ /\ opened
            /\ e.step = 0
            /\ BinaryFile(e) \in DOMAIN files
            /\ Return("FRAM_ISSUE", e)
            /\ UNCHANGED framHam
         \/ /\ OpenFails(e)
            /\ UNCHANGED framHam
      /\ UNCHANGED <<imgBuffer, sdVars, files, flash, blCrc, framSize, bounds, clean>>

\* copySdcImgToSdc up to its loop.  It does not look at the result of the SD
\* card access; a previous target that cannot be deleted is appended to.
TargetFile(e) ==
  <<card, IF e.source = "SDC_SLOT_0" THEN "SDC_SLOT_1" ELSE "SDC_SLOT_0", FALSE>>

OpenTarget(f, content) ==
  files' = [g \in DOMAIN files \cup {f} |-> IF g = f THEN content ELSE files[g]]

openForSdCard ==
  LET e == CacheSize(eng)
      t == TargetFile(e)
      old == IF t \in DOMAIN files THEN files[t] ELSE <<>>
  IN  /\ pc = "work"
      /\ eng.state = "COPY_IMG_SDC_TO_SDC"
      /\ \/ Open(e) /\ e.step = 0 /\ OpenTarget(t, <<>>) /\ UNCHANGED clean
         \/ Open(e) /\ e.step # 0 /\ OpenTarget(t, old) /\ UNCHANGED clean
         \/ Open(e) /\ e.step = 0 /\ OpenTarget(t, old) /\ clean' = FALSE
         \/ OpenFails(e) /\ UNCHANGED <<files, clean>>
         \/ /\ BinaryFile(e) \in DOMAIN files   \* deleted, but not created again
            /\ e.step = 0
            /\ files' = [g \in DOMAIN files \ {t} |-> files[g]]
            /\ Return("RETURN_FAILED", e)
            /\ UNCHANGED clean
      /\ UNCHANGED <<imgBuffer, sdVars, flash, blCrc, framSize, framHam, bounds>>

-------------------------------------------------------------------------------
(***************************************************************************)
(* The loops over the buckets.                                             *)
(***************************************************************************)
InFile(states) == pc = "file" /\ eng.state \in states

\* One more failed access: try again in the next cycle, or give up.
RetryLater_Forever(e) == Return("TASK_PERIOD_OVER_SOON", e)
RetryLater(e) ==
  LET f == [e EXCEPT !.errors = @ + 1]
  IN  Return(IF TooManyErrors(f) THEN "RETURN_FAILED" ELSE "TASK_PERIOD_OVER_SOON", f)

\* The size goes to the FRAM with the first bucket; a failure is an event only.
RecordSize == framSize' = [framSize EXCEPT ![Region(eng)] = eng.size]
FirstBucket == eng.state \in NorCopies /\ eng.step = 0 /\ eng.size # 0
SizeMayBeRecorded == UNCHANGED framSize \/ (FirstBucket /\ RecordSize)

\* readFile returns an error, always at the end of the file.
readFileFails ==
  /\ InFile(NorCopies \cup {"COPY_IMG_SDC_TO_SDC"})
  /\ eng.state \in NorCopies => eng.size # 0 /\ ~eng.flag1
  /\ RetryLater(eng)
  /\ SizeMayBeRecorded
  /\ UNCHANGED <<imgBuffer, sdVars, files, flash, blCrc, framHam, bounds, clean>>

\* An empty file, or a bucket that is shorter than expected.
copyGivesUp ==
  /\ InFile(NorCopies \cup {"COPY_IMG_HAMMING_SDC_TO_FRAM"})
  /\ IF eng.state \in NorCopies THEN eng.size = 0 \/ ~eng.flag1 ELSE eng.idx < eng.size
  /\ Return("RETURN_FAILED", eng)
  /\ SizeMayBeRecorded
  /\ UNCHANGED <<imgBuffer, sdVars, files, flash, blCrc, framHam, bounds, clean>>

\* Flash cells are programmed once: over anything else bits get lost.
Program(cell, d) == IF cell \in {"erased", d} THEN d ELSE "mixed"

\* getBaseAddress in STEP_2: the bootloader goes by the position in the file,
\* the OBSW by the number of buckets written.
Address(e) == IF Region(e) = "BL" THEN e.idx ELSE e.step

ReadNext ==
  /\ filePos < FileSize(BinaryFile(eng))
  /\ imgBuffer' = files[BinaryFile(eng)][filePos + 1]

\* The next bucket was read, or the one of the last cycle is still to be written.
BucketRead ==
  \/ eng.flag1 /\ UNCHANGED imgBuffer
  \/ ~eng.flag1 /\ ReadNext

\* The bucket that ends with NORFLASH_BL_SIZE_START and NORFLASH_BL_CRC16_START.
LastCell == Capacity["BL"] - 1

WithSizeAndCrc(cell) ==
  CASE cell = "erased" -> "trailer"
    [] cell \in FullBuckets -> "cut"
    [] cell \in Data \ FullBuckets -> cell
    [] OTHER -> "mixed"

\* A finished bootloader, as programmed, gets its size and its CRC at the end of
\* its region, even if it reaches that far.  Either write may fail unnoticed.
writeBootloaderSizeAndCrc(programmed) ==
  \/ flash' = programmed /\ blCrc' = FALSE
  \/ /\ flash' = [programmed EXCEPT !["BL"][LastCell] = WithSizeAndCrc(@)]
     /\ blCrc' \in BOOLEAN

\* performNorCopyOperation with a bucket that is written.
writeBucket ==
  LET r == Region(eng)
      k == Address(eng)
      e == [eng EXCEPT !.idx = @ + 1, !.step = @ + 1, !.flag1 = FALSE]
      programmed == [flash EXCEPT ![r][k] = Program(@, imgBuffer')]
  IN  /\ InFile(NorCopies)
      /\ eng.size # 0
      /\ k < Capacity[r]
      /\ BucketRead
      /\ \/ FirstBucket /\ RecordSize /\ UNCHANGED clean
         \/ ~FirstBucket /\ UNCHANGED <<framSize, clean>>
         \/ FirstBucket /\ UNCHANGED framSize /\ clean' = FALSE
      /\ IF e.idx >= e.size /\ r = "BL"
         THEN writeBootloaderSizeAndCrc(programmed)
         ELSE flash' = programmed /\ blCrc' = (blCrc /\ r # "BL")
      /\ IF e.idx >= e.size
         THEN Return("OPERATION_FINISHED", e)
         ELSE Proceed(e, "file", IF eng.flag1 THEN filePos ELSE filePos + 1)
      /\ UNCHANGED <<sdVars, files, framHam, bounds>>

\* The same with a bucket that is not: it stays in the buffer for a retry.  A
\* write beyond the region has no address and always fails.
writeBucketFails ==
  LET r == Region(eng)
      k == Address(eng)
  IN  /\ InFile(NorCopies)
      /\ eng.size # 0
      /\ BucketRead
      /\ clean' = FALSE
      /\ SizeMayBeRecorded
      /\ \/ UNCHANGED flash
         \/ k < Capacity[r] /\ flash' = [flash EXCEPT ![r][k] = Program(@, imgBuffer')]
      /\ blCrc' = (blCrc /\ r # "BL")
      /\ RetryLater([eng EXCEPT !.flag1 = TRUE])
      /\ UNCHANGED <<sdVars, files, framHam, bounds>>

\* The loop of copyImgHammingSdcToFram; the step counter stays 0.
\* fram_write_ham_code adds the offset to the buffer instead of the address: the
\* first bucket is written, then whatever lies behind the buffer over it.
HammingWritten(code, k, d) == [code EXCEPT ![0] = IF k = 0 THEN d ELSE "mixed"]

writeHammingBucket ==
  LET e == [eng EXCEPT !.idx = @ + 1]
  IN  /\ InFile({"COPY_IMG_HAMMING_SDC_TO_FRAM"})
      /\ IF eng.idx >= eng.size
         THEN /\ Return("OPERATION_FINISHED", eng)
              /\ UNCHANGED <<imgBuffer, framHam>>
         ELSE /\ ReadNext
              /\ framHam' = [framHam EXCEPT ![FramSlot(eng)].code =
                                            HammingWritten(@, eng.idx, imgBuffer')]
              /\ IF e.idx >= e.size THEN Return("OPERATION_FINISHED", e)
                                    ELSE Proceed(e, "file", filePos + 1)
      /\ UNCHANGED <<sdVars, files, flash, blCrc, framSize, bounds, clean>>

\* The loop of copySdcImgToSdc.  A failed write is ignored: the bucket is lost.
appendBucket ==
  LET e == [eng EXCEPT !.idx = @ + 1, !.step = @ + 1]
      t == TargetFile(eng)
  IN  /\ InFile({"COPY_IMG_SDC_TO_SDC"})
      /\ ReadNext
      /\ Len(files[t]) < MaxFileSize
      /\ \/ files' = [files EXCEPT ![t] = Append(@, imgBuffer')] /\ UNCHANGED clean
         \/ UNCHANGED files /\ clean' = FALSE
      /\ IF e.idx >= e.size THEN Return("OPERATION_FINISHED", e)
                            ELSE Proceed(e, "file", filePos + 1)
      /\ UNCHANGED <<sdVars, flash, blCrc, framSize, framHam, bounds>>

-------------------------------------------------------------------------------
(***************************************************************************)
(* The other tasks, and the end of the program.                            *)
(***************************************************************************)
Disturb ==
  /\ disturbances < MaxDisturbances
  /\ disturbances' = disturbances + 1
  /\ result' = NoResult
  /\ clean' = (clean /\ handlerState = "IDLE")

\* SDCardHandler asks for the other SD card.  The change waits for the access of
\* the engine, which lasts as long as its file is open, and for those of others.
tryActiveSdCardChange ==
  /\ Disturb
  /\ \/ changing' = TRUE /\ UNCHANGED card
     \/ pc # "file" /\ changing' = FALSE /\ card' = 1 - card
  /\ UNCHANGED <<handlerVars, eng, imgBuffer, filePos, storageVars, commands>>

\* SDCardHandler deletes a file that is not open.
deleteFile(f) ==
  /\ pc # "file"
  /\ Disturb
  /\ files' = [g \in DOMAIN files \ {f} |-> files[g]]
  /\ UNCHANGED <<handlerVars, eng, imgBuffer, filePos, sdVars, flash, blCrc, framSize,
                 framHam, commands>>

\* The OBC restarts in the middle of a copy.
Restart ==
  /\ handlerState = "COPYING"
  /\ handlerState' = "IDLE"
  /\ currentAction' = "NONE"
  /\ eng' = InitialEngine
  /\ imgBuffer' = "old"
  /\ filePos' = 0
  /\ pc' = "sleep"
  /\ card' \in Cards
  /\ changing' = FALSE
  /\ result' = NoResult
  /\ clean' = TRUE
  /\ disturbances < MaxDisturbances
  /\ disturbances' = disturbances + 1
  /\ UNCHANGED <<storageVars, commands>>

Engine ==
  \/ continueWithoutOperation
  \/ handleNorflashErasure
  \/ finishErasure
  \/ openForNorFlash
  \/ openForFram
  \/ openForSdCard
  \/ readFileFails
  \/ copyGivesUp
  \/ writeBucket
  \/ writeBucketFails
  \/ writeHammingBucket
  \/ appendBucket

performOperation == ContinueCopy \/ Engine

Environment ==
  \/ tryActiveSdCardChange
  \/ \E f \in DOMAIN files : deleteFile(f)
  \/ Restart

Next == executeAction \/ performOperation \/ Environment

(***************************************************************************)
(* The handler is a periodic task: the scheduler runs it again and again.  *)
(***************************************************************************)
Spec == Init /\ [][Next]_vars /\ WF_vars(performOperation)

-------------------------------------------------------------------------------
\* The engine's fields and the storage have their types; a progress field never
\* runs past the sizes it counts up to, and an error count of 3 never survives.
TypeOK ==
  /\ handlerState \in {"IDLE", "COPYING"}
  /\ currentAction \in Actions \cup {"NONE"}
  /\ eng \in [state : ImageHandlerStates, internal : {"IDLE", "STEP_1", "STEP_2"},
              source : SdcSlots \cup {"NONE", "BOOTLOADER_0", "FLASH"},
              hamming : BOOLEAN, step : Nat, idx : Nat, size : 0..MaxFileSize,
              errors : 0..2, flag1 : BOOLEAN, counter1 : {0, ObswSectors}]
  /\ imgBuffer \in Data \cup {"old"}
  /\ filePos \in 0..MaxFileSize
  /\ pc \in {"sleep", "messages", "work", "file"}
  /\ card \in Cards
  /\ changing \in BOOLEAN
  /\ DOMAIN files \subseteq FileNames
  /\ \A f \in DOMAIN files : files[f] \in Seq(Data) /\ Len(files[f]) <= MaxFileSize
  /\ DOMAIN flash = Regions
  /\ \A r \in Regions : flash[r] \in [0..(Capacity[r] - 1) -> Data \cup Marks]
  /\ blCrc \in BOOLEAN
  /\ framSize \in [Regions -> 0..MaxFileSize]
  /\ framHam \in [FramSlots -> [size : 0..MaxFileSize,
                                code : [0..(HammingCapacity - 1) -> Data \cup Marks]]]
  /\ result.code \in Results \cup {"NONE"}
  /\ commands \in 0..MaxCommands
  /\ disturbances \in 0..MaxDisturbances
  /\ clean \in BOOLEAN

\* An idle handler has an engine without leftovers: a copy that failed, ended or
\* was replaced leaves nothing behind that the next one would start from.
IdleEngineIsReset ==
  handlerState = "IDLE" => eng = InitialEngine /\ pc = "sleep"

\* A bootloader that does not end before its own size and CRC.
ReachesSizeAndCrc(bootloader) ==
  Len(bootloader) = Capacity["BL"] /\ bootloader[Len(bootloader)] \in FullBuckets

\* A finished copy is a copy: wherever the cycles ended and whichever reads were
\* repeated, the target holds the source file, bucket by bucket, and the FRAM its
\* size, if the copy met no second command, no change on the SD cards and no
\* failed write.  Left out is what the code cannot copy: images that reach
\* the last OBSW sector, which is not erased, bootloaders that reach their own
\* size and CRC, which are written over them, and a second bucket of hamming
\* codes, which is not copied.
FaithfulCopy ==
  LET e == result.eng
      source == files[BinaryFile(e)]
      r == Region(e)
  IN  result.code = "OPERATION_FINISHED" /\ clean =>
        /\ /\ e.state \in NorCopies
           /\ r = "OBSW" => Len(source) <= Capacity[r] - BucketsPerSector
           /\ r = "BL" => ~ReachesSizeAndCrc(source)
           =>
             /\ framSize[r] = Len(source)
             /\ \A k \in 1..Len(source) : flash[r][k - 1] = source[k]
        /\ e.state = "COPY_IMG_SDC_TO_SDC" => files[TargetFile(e)] = source
        /\ e.state = "COPY_IMG_HAMMING_SDC_TO_FRAM" /\ Len(source) = 1 =>
             /\ framHam[FramSlot(e)].size = 1
             /\ framHam[FramSlot(e)].code[0] = source[1]

\* The bootloader is only ever programmed into erased cells, even if commands
\* come during a copy, buckets are written again or the OBC restarts: a copy
\* that is ongoing cannot turn into one of the bootloader half way through.  The
\* exception is the end of a bootloader that fills its region, which nothing in
\* the code keeps its own size and CRC from: that bucket is "cut".
BootloaderProgrammedOnce ==
  \A k \in DOMAIN flash["BL"] : flash["BL"][k] # "mixed"

\* Every copy ends, however often reads and writes fail.
CopyTerminates == handlerState = "COPYING" ~> handlerState = "IDLE"

\* A success reply is sent for a finished operation only.
SuccessMeansFinished ==
  result.code \in {"NONE", "TASK_PERIOD_OVER_SOON", "RETURN_FAILED", "OPERATION_FINISHED"}

\* Once a bucket is written, the next one is read from the SD card.
NextBucketIsRead ==
  InFile(NorCopies) /\ ~eng.flag1 => filePos = eng.idx
===============================================================================
