-------------------------- MODULE ImageCopyingProofs --------------------------
(***************************************************************************)
(* Proofs about ImageCopying for flashes, files and numbers of commands    *)
(* and disturbances of any size.                                           *)
(***************************************************************************)
EXTENDS ImageCopying, SequenceTheorems, TLAPS

Sources == SdcSlots \cup {"NONE", "BOOTLOADER_0", "FLASH"}
Engines == [state : ImageHandlerStates, internal : {"IDLE", "STEP_1", "STEP_2"},
            source : Sources, hamming : BOOLEAN, step : Nat, idx : Nat,
            size : 0..MaxFileSize, errors : 0..2, flag1 : BOOLEAN,
            counter1 : {0, ObswSectors}]

\* TypeOK by the tasks that write the variables: what the engine's control, the
\* storage, and the rest of the system may be.
ControlType ==
  /\ handlerState \in {"IDLE", "COPYING"}
  /\ currentAction \in Actions \cup {"NONE"}
  /\ eng \in Engines
  /\ filePos \in 0..MaxFileSize
  /\ pc \in {"sleep", "messages", "work", "file"}
  /\ result.code \in Results \cup {"NONE"}
FilesType ==
  /\ DOMAIN files \subseteq FileNames
  /\ \A f \in DOMAIN files : files[f] \in Seq(Data) /\ Len(files[f]) <= MaxFileSize
FlashCells(f) ==
  /\ DOMAIN f = Regions
  /\ \A r \in Regions : f[r] \in [0..(Capacity[r] - 1) -> Data \cup Marks]
FlashType ==
  /\ DOMAIN flash = Regions
  /\ \A r \in Regions : flash[r] \in [0..(Capacity[r] - 1) -> Data \cup Marks]
  /\ blCrc \in BOOLEAN
FramType ==
  /\ framSize \in [Regions -> 0..MaxFileSize]
  /\ framHam \in [FramSlots -> [size : 0..MaxFileSize,
                                code : [0..(HammingCapacity - 1) -> Data \cup Marks]]]
RestType ==
  /\ imgBuffer \in Data \cup {"old"}
  /\ card \in Cards
  /\ changing \in BOOLEAN
  /\ commands \in 0..MaxCommands
  /\ disturbances \in 0..MaxDisturbances
  /\ clean \in BOOLEAN

\* The parts together are the type invariant.
LEMMA TypeParts ==
  TypeOK <=> ControlType /\ FilesType /\ FlashType /\ FramType /\ RestType
BY DEF TypeOK, ControlType, FilesType, FlashType, FramType, RestType, Engines,
       Sources

\* The same in the next state.
LEMMA TypePartsNext ==
  TypeOK' <=> ControlType' /\ FilesType' /\ FlashType' /\ FramType' /\ RestType'
BY DEF TypeOK, ControlType, FilesType, FlashType, FramType, RestType, Engines,
       Sources

-------------------------------------------------------------------------------
(* The engine *)

\* The codes a copy returns with, and the operations it knows.
LEMMA Names ==
  /\ {"COPY_IMG_SDC_TO_FLASH", "COPY_BL_SDC_TO_FLASH", "COPY_BL_FRAM_TO_FLASH",
      "COPY_BL_HAMMING_SDC_TO_FRAM", "COPY_IMG_SDC_TO_SDC",
      "COPY_IMG_HAMMING_SDC_TO_FRAM", "IDLE"} \subseteq ImageHandlerStates
  /\ Results \subseteq Results \cup {"NONE"}
BY DEF ImageHandlerStates, NorCopies, Unsupported

\* The counters of commands and disturbances stay within their bounds.
LEMMA Bounds ==
  /\ MaxCommands \in Nat /\ 0 \in 0..MaxCommands
  /\ MaxDisturbances \in Nat /\ 0 \in 0..MaxDisturbances
  /\ \A n \in 0..MaxCommands : n < MaxCommands => n + 1 \in 0..MaxCommands
  /\ \A n \in 0..MaxDisturbances :
       n < MaxDisturbances => n + 1 \in 0..MaxDisturbances
<1>1. MaxCommands \in Nat /\ MaxDisturbances \in Nat
  BY ImageAssumption
<1> QED
  BY <1>1

\* A reset engine is the initial one, and of the type.
LEMMA ResetType == \A e : reset(e) = InitialEngine /\ InitialEngine \in Engines
BY ImageAssumption, Names DEF reset, InitialEngine, Engines, Sources

\* The fields of a reset engine.
LEMMA InitialIdle ==
  /\ InitialEngine.state = "IDLE" /\ InitialEngine.internal = "IDLE"
  /\ InitialEngine.source = "NONE" /\ InitialEngine.hamming = FALSE
  /\ InitialEngine.step = 0 /\ InitialEngine.idx = 0 /\ InitialEngine.size = 0
  /\ InitialEngine.errors = 0 /\ InitialEngine.flag1 = FALSE
  /\ InitialEngine.counter1 = 0
BY DEF InitialEngine

\* What a step that returns, or goes on, leaves.
LEMMA ReturnType ==
  ASSUME ControlType, NEW r \in Results, NEW e,
         r = "TASK_PERIOD_OVER_SOON" => e \in Engines, Return(r, e)
  PROVE  ControlType'
<1>1. eng' \in Engines
  BY ResetType DEF Return
<1>2. result'.code \in Results \cup {"NONE"}
  BY DEF Return
<1> QED
  BY <1>1, <1>2, ImageAssumption DEF ControlType, Return

\* Going on in the same cycle keeps the types.
LEMMA ProceedType ==
  ASSUME ControlType, NEW e \in Engines, NEW next \in {"work", "file"},
         NEW pos \in 0..MaxFileSize, Proceed(e, next, pos)
  PROVE  ControlType'
<1>1. CASE Return("TASK_PERIOD_OVER_SOON", e)
  BY <1>1, ReturnType DEF Results
<1>2. CASE eng' = e /\ pc' = next /\ filePos' = pos /\ result' = NoResult
           /\ UNCHANGED <<handlerState, currentAction>>
  BY <1>2 DEF ControlType, NoResult
<1> QED
  BY <1>1, <1>2 DEF Proceed

\* A counted error, and giving up after the third, keep the types.
LEMMA RetryType ==
  ASSUME ControlType, NEW e \in Engines, RetryLater(e)
  PROVE  ControlType'
<1> DEFINE f == [e EXCEPT !.errors = @ + 1]
<1>1. ~TooManyErrors(f) => f \in Engines
  BY DEF Engines, TooManyErrors
<1>2. Return(IF TooManyErrors(f) THEN "RETURN_FAILED" ELSE "TASK_PERIOD_OVER_SOON", f)
  BY DEF RetryLater
<1> HIDE DEF f
<1>3. CASE TooManyErrors(f)
  BY <1>2, <1>3, ReturnType DEF Results
<1>4. CASE ~TooManyErrors(f)
  BY <1>1, <1>2, <1>4, ReturnType DEF Results
<1> QED
  BY <1>3, <1>4

\* The size of any file is within its bound, 0 when there is no file.
LEMMA SizeType == FilesType => \A f : FileSize(f) \in 0..MaxFileSize
BY ImageAssumption, LenProperties DEF FilesType, FileSize

\* Taking the size of the file in the first step keeps the engine's type.
LEMMA CacheType ==
  ASSUME FilesType, NEW e \in Engines
  PROVE  CacheSize(e) \in Engines
BY SizeType DEF CacheSize, Engines

\* Opening the file keeps the types.
LEMMA OpenType ==
  ASSUME ControlType, FilesType, NEW e \in Engines, Open(e)
  PROVE  ControlType'
<1>1. e.idx \in 0..MaxFileSize
  <2>1. e.idx \in Nat /\ e.idx <= FileSize(BinaryFile(e))
    BY DEF Open, Engines
  <2>2. FileSize(BinaryFile(e)) \in 0..MaxFileSize
    BY SizeType
  <2> QED
    BY <2>1, <2>2, ImageAssumption
<1> QED
  BY <1>1 DEF ControlType, Open, NoResult

\* Failing to open the file keeps the types.
LEMMA OpenFailsType ==
  ASSUME ControlType, NEW e, OpenFails(e)
  PROVE  ControlType'
BY ReturnType DEF OpenFails, Results

-------------------------------------------------------------------------------
(* Every action keeps the types *)

\* A command replaces the operation, its source and the use of hamming codes.
LEMMA AcceptType ==
  ASSUME ControlType, RestType, NEW e \in Engines, Accept(e),
         currentAction' \in Actions \cup {"NONE"}
  PROVE  ControlType' /\ RestType'
<1>1. ControlType'
  BY DEF Accept, ControlType, NoResult
<1>2. commands' \in 0..MaxCommands
  BY ImageAssumption DEF Accept, RestType
<1> QED
  BY <1>1, <1>2 DEF Accept, RestType, sdVars

\* A command keeps the types and does not touch the storage.
LEMMA CommandType ==
  ASSUME ControlType, RestType, executeAction
  PROVE  ControlType' /\ RestType' /\ UNCHANGED storageVars
<1>1. UNCHANGED storageVars
  BY DEF executeAction, handleCopyingSdcBlToFlash, handleCopyingSdcImgToFlash,
         handleCopyingSdcToSdc, handleCopyingHammingToStorage, Accept
<1>2. eng \in Engines
  BY DEF ControlType
<1>3. ASSUME NEW fromFram \in BOOLEAN, handleCopyingSdcBlToFlash(fromFram)
      PROVE  ControlType' /\ RestType'
  <2> DEFINE e == [eng EXCEPT !.source = "BOOTLOADER_0",
                              !.state = IF fromFram THEN "COPY_BL_FRAM_TO_FLASH"
                                                    ELSE "COPY_BL_SDC_TO_FLASH"]
  <2>1. e \in Engines
    BY <1>2, Names DEF Engines, Sources
  <2> QED
    BY <1>3, <2>1, AcceptType DEF handleCopyingSdcBlToFlash, Actions
<1>4. ASSUME NEW slot \in SdcSlots, handleCopyingSdcImgToFlash(slot)
      PROVE  ControlType' /\ RestType'
  <2> DEFINE e == [eng EXCEPT !.source = slot, !.state = "COPY_IMG_SDC_TO_FLASH"]
  <2>1. e \in Engines
    BY <1>2, Names DEF Engines, Sources
  <2> QED
    BY <1>4, <2>1, AcceptType DEF handleCopyingSdcImgToFlash, Actions
<1>5. ASSUME NEW slot \in SdcSlots, handleCopyingSdcToSdc(slot)
      PROVE  ControlType' /\ RestType'
  <2> DEFINE e == [eng EXCEPT !.source = slot, !.state = "COPY_IMG_SDC_TO_SDC"]
  <2>1. e \in Engines
    BY <1>2, Names DEF Engines, Sources
  <2> QED
    BY <1>5, <2>1, AcceptType DEF handleCopyingSdcToSdc, Actions
<1>6. ASSUME NEW slot \in SdcSlots \cup {"FLASH", "BOOTLOADER_0", "BOOTLOADER_1"},
             handleCopyingHammingToStorage(slot)
      PROVE  ControlType' /\ RestType'
  <2> DEFINE e == IF slot = "BOOTLOADER_1" THEN eng
                  ELSE [eng EXCEPT !.hamming = TRUE, !.source = slot,
                                   !.state = IF slot = "BOOTLOADER_0"
                                             THEN "COPY_BL_HAMMING_SDC_TO_FRAM"
                                             ELSE "COPY_IMG_HAMMING_SDC_TO_FRAM"]
  <2>1. e \in Engines
    BY <1>2, Names DEF Engines, Sources
  <2>2. currentAction' \in Actions \cup {"NONE"}
    BY <1>6 DEF handleCopyingHammingToStorage, ControlType
  <2> QED
    BY <1>6, <2>1, <2>2, AcceptType DEF handleCopyingHammingToStorage
<1> QED
  BY <1>1, <1>3, <1>4, <1>5, <1>6 DEF executeAction

\* The preparation of the erasure keeps the engine's type.
LEMMA PreparedType ==
  ASSUME ControlType, FilesType
  PROVE  PrepareErasure(eng) \in Engines
BY SizeType DEF ControlType, PrepareErasure, Engines

\* Erasing a sector keeps the types.
LEMMA ErasureType ==
  ASSUME TypeOK, handleNorflashErasure
  PROVE  TypeOK'
<1> DEFINE e == PrepareErasure(eng)
           r == Region(e)
<1>0. ControlType /\ FilesType /\ FlashType /\ FramType /\ RestType
  BY TypeParts
<1>1. e \in Engines
  BY <1>0, PreparedType
<1>2. [e EXCEPT !.step = @ + 1] \in Engines
  BY <1>1 DEF Engines
<1>3. r \in Regions
  BY DEF Region, Regions
<1> HIDE DEF e, r
<1>4. ControlType'
  <2>1. CASE Proceed([e EXCEPT !.step = @ + 1], "work", 0)
    BY <1>0, <1>2, <2>1, ProceedType, ImageAssumption
  <2>2. CASE Return("RETURN_FAILED", e)
    BY <1>0, <2>2, ReturnType DEF Results
  <2> QED
    BY <2>1, <2>2 DEF handleNorflashErasure, e, r
<1>5. FlashType'
  <2>1. CASE /\ flash' = [flash EXCEPT ![r] =
                 [k \in DOMAIN @ |-> IF SectorOf(r, k) = ErasedSector(r, e.step)
                                     THEN "erased" ELSE @[k]]]
             /\ blCrc' = (blCrc /\ r # "BL")
    BY <1>0, <1>3, <2>1 DEF FlashType, Marks
  <2>2. CASE UNCHANGED <<flash, blCrc>>
    BY <1>0, <2>2 DEF FlashType
  <2> QED
    BY <2>1, <2>2 DEF handleNorflashErasure, e, r
<1>6. FilesType' /\ FramType' /\ RestType'
  BY <1>0 DEF handleNorflashErasure, FilesType, FramType, RestType, sdVars, bounds
<1> QED
  BY <1>4, <1>5, <1>6, TypePartsNext

\* The end of the erasure keeps the types.
LEMMA FinishType ==
  ASSUME TypeOK, finishErasure
  PROVE  TypeOK'
<1> DEFINE e == PrepareErasure(eng)
           d == IF e.step # SectorsToErase(e) THEN e
                ELSE IF Region(e) = "BL" THEN [e EXCEPT !.step = 0, !.flag1 = FALSE]
                ELSE [e EXCEPT !.step = 0, !.flag1 = FALSE, !.counter1 = 0]
           f == [d EXCEPT !.internal = "STEP_2"]
<1>0. ControlType /\ FilesType /\ FlashType /\ FramType /\ RestType
  BY TypeParts
<1>1. e \in Engines
  BY <1>0, PreparedType
<1> HIDE DEF e
<1>2. d \in Engines
  BY <1>1 DEF Engines
<1> HIDE DEF d
<1>3. f \in Engines
  BY <1>2 DEF Engines
<1> HIDE DEF f
<1>4. Proceed(f, "work", 0) \/ Return("RETURN_FAILED", e)
  BY DEF finishErasure, e, d, f
<1>5. ControlType'
  BY <1>0, <1>3, <1>4, ProceedType, ReturnType, ImageAssumption DEF Results
<1>6. FilesType' /\ FlashType' /\ FramType' /\ RestType'
  BY <1>0 DEF finishErasure, FilesType, FlashType, FramType, RestType, sdVars,
              bounds, storageVars
<1> QED
  BY <1>5, <1>6, TypePartsNext

\* Opening the image for the NOR flash keeps the types.
LEMMA OpenForNorType ==
  ASSUME TypeOK, openForNorFlash
  PROVE  TypeOK'
<1>0. ControlType /\ FilesType /\ FlashType /\ FramType /\ RestType
  BY TypeParts
<1>1. CacheSize(eng) \in Engines
  BY <1>0, CacheType DEF ControlType
<1>2. ControlType'
  BY <1>0, <1>1, OpenType, OpenFailsType DEF openForNorFlash
<1>3. FilesType' /\ FlashType' /\ FramType' /\ RestType'
  BY <1>0 DEF openForNorFlash, FilesType, FlashType, FramType, RestType, sdVars,
              bounds, storageVars
<1> QED
  BY <1>2, <1>3, TypePartsNext

\* Opening the hamming code for the FRAM keeps the types.
LEMMA OpenForFramType ==
  ASSUME TypeOK, openForFram
  PROVE  TypeOK'
<1> DEFINE e == CacheSize([eng EXCEPT !.internal = "STEP_1"])
<1>0. ControlType /\ FilesType /\ FlashType /\ FramType /\ RestType
  BY TypeParts
<1>1. e \in Engines
  <2>1. [eng EXCEPT !.internal = "STEP_1"] \in Engines
    BY <1>0 DEF ControlType, Engines
  <2> QED
    BY <1>0, <2>1, CacheType
<1> HIDE DEF e
<1>2. ControlType'
  <2>1. Open(e) \/ Return("FRAM_ISSUE", e) \/ OpenFails(e)
    BY DEF openForFram, e
  <2>2. CASE Return("FRAM_ISSUE", e)
    BY <1>0, <2>2, ReturnType DEF Results
  <2> QED
    BY <1>0, <1>1, <2>1, <2>2, OpenType, OpenFailsType
<1>3. framHam' \in [FramSlots -> [size : 0..MaxFileSize,
                       code : [0..(HammingCapacity - 1) -> Data \cup Marks]]]
  <2>1. \/ UNCHANGED framHam
        \/ framHam' = [framHam EXCEPT ![FramSlot(e)].size = e.size]
    BY DEF openForFram, e
  <2>2. e.size \in 0..MaxFileSize
    BY <1>1 DEF Engines
  <2> QED
    BY <1>0, <2>1, <2>2 DEF FramType
<1>4. FilesType' /\ FlashType' /\ FramType' /\ RestType'
  BY <1>0, <1>3 DEF openForFram, FilesType, FlashType, FramType, RestType, sdVars,
                    bounds
<1> QED
  BY <1>2, <1>4, TypePartsNext

\* Writing the target file keeps the type of the files.
LEMMA TargetType ==
  ASSUME FilesType, RestType, NEW e \in Engines, NEW content,
         OpenTarget(TargetFile(e), content),
         content \in Seq(Data), Len(content) <= MaxFileSize
  PROVE  FilesType'
<1>1. TargetFile(e) \in FileNames
  BY DEF TargetFile, FileNames, RestType
<1> QED
  BY <1>1 DEF OpenTarget, FilesType

\* Opening the image for the other slot keeps the types.
LEMMA OpenForSdType ==
  ASSUME TypeOK, openForSdCard
  PROVE  TypeOK'
<1> DEFINE e == CacheSize(eng)
           t == TargetFile(e)
           old == IF t \in DOMAIN files THEN files[t] ELSE <<>>
<1>0. ControlType /\ FilesType /\ FlashType /\ FramType /\ RestType
  BY TypeParts
<1>1. e \in Engines
  BY <1>0, CacheType DEF ControlType
<1>2. /\ old \in Seq(Data) /\ Len(old) <= MaxFileSize
      /\ <<>> \in Seq(Data) /\ Len(<<>>) <= MaxFileSize
  BY <1>0, EmptySeq, ImageAssumption DEF FilesType
<1> HIDE DEF e
<1>3. ControlType'
  <2>1. Open(e) \/ OpenFails(e) \/ Return("RETURN_FAILED", e)
    BY DEF openForSdCard, e
  <2>2. CASE Return("RETURN_FAILED", e)
    BY <1>0, <2>2, ReturnType DEF Results
  <2> QED
    BY <1>0, <1>1, <2>1, <2>2, OpenType, OpenFailsType
<1>4. FilesType'
  <2>1. \/ OpenTarget(t, <<>>) \/ OpenTarget(t, old)
        \/ UNCHANGED files
        \/ files' = [g \in DOMAIN files \ {t} |-> files[g]]
    BY DEF openForSdCard, e
  <2>2. CASE UNCHANGED files \/ files' = [g \in DOMAIN files \ {t} |-> files[g]]
    BY <1>0, <2>2 DEF FilesType
  <2> QED
    BY <1>0, <1>1, <1>2, <2>1, <2>2, TargetType
<1>5. clean' \in BOOLEAN
  BY <1>0 DEF openForSdCard, RestType
<1>6. FlashType' /\ FramType' /\ RestType'
  BY <1>0, <1>5 DEF openForSdCard, FlashType, FramType, RestType, sdVars, bounds
<1> QED
  BY <1>3, <1>4, <1>6, TypePartsNext

-------------------------------------------------------------------------------
(* The loops over the buckets *)

\* A bucket that is read is one of the file.
LEMMA ReadType ==
  ASSUME FilesType, ControlType, ReadNext
  PROVE  /\ BinaryFile(eng) \in DOMAIN files
         /\ filePos + 1 \in 1..Len(files[BinaryFile(eng)])
         /\ imgBuffer' \in Data
<1> DEFINE f == BinaryFile(eng)
<1>1. f \in DOMAIN files /\ filePos + 1 \in 1..Len(files[f])
  BY LenProperties DEF ReadNext, FileSize, ControlType, FilesType
<1>2. files[f] \in Seq(Data)
  BY <1>1 DEF FilesType
<1> HIDE DEF f
<1>3. files[f][filePos + 1] \in Data
  BY <1>1, <1>2, ElementOfSeq
<1> QED
  BY <1>1, <1>3 DEF ReadNext, f

\* The bucket that is written is one of a file, unless nothing was read yet.
LEMMA BufferType ==
  ASSUME FilesType, RestType, ControlType, BucketRead \/ ReadNext
  PROVE  imgBuffer' \in Data \cup {"old"}
<1>1. CASE UNCHANGED imgBuffer
  BY <1>1 DEF RestType
<1>2. CASE ReadNext
  BY <1>2, ReadType
<1> QED
  BY <1>1, <1>2 DEF BucketRead

\* Programming a cell keeps the type of the flash.
LEMMA ProgramType ==
  ASSUME FlashType, NEW r, NEW k, NEW d \in Data \cup {"old"}
  PROVE  FlashCells([flash EXCEPT ![r][k] = Program(@, d)])
BY DEF FlashType, FlashCells, Program, Marks

\* So do the size and the CRC at the end of the bootloader's part.
LEMMA TrailerType ==
  ASSUME NEW f, FlashCells(f)
  PROVE  FlashCells([f EXCEPT !["BL"][LastCell] = WithSizeAndCrc(@)])
BY DEF FlashCells, WithSizeAndCrc, Marks

\* The flash with the bucket in the buffer programmed.
ProgrammedFlash == [flash EXCEPT ![Region(eng)][Address(eng)] = Program(@, imgBuffer')]

\* The sizes in the FRAM stay sizes.
LEMMA SizeRecordType ==
  ASSUME FramType, ControlType, SizeMayBeRecorded \/ RecordSize
  PROVE  framSize' \in [Regions -> 0..MaxFileSize]
<1>1. eng.size \in 0..MaxFileSize
  BY DEF ControlType, Engines
<1> QED
  BY <1>1 DEF FramType, SizeMayBeRecorded, RecordSize

\* A successful read leaves the position inside the file.
LEMMA NextPosition ==
  ASSUME FilesType, ControlType, ReadNext
  PROVE  filePos + 1 \in 0..MaxFileSize
<1>1. FileSize(BinaryFile(eng)) \in 0..MaxFileSize
  BY SizeType
<1> QED
  BY <1>1, ImageAssumption DEF ReadNext, ControlType

\* A failed read keeps the types.
LEMMA ReadFailsType ==
  ASSUME TypeOK, readFileFails
  PROVE  TypeOK'
<1>0. ControlType /\ FilesType /\ FlashType /\ FramType /\ RestType
  BY TypeParts
<1>1. ControlType'
  BY <1>0, RetryType DEF readFileFails, ControlType
<1>2. framSize' \in [Regions -> 0..MaxFileSize]
  BY <1>0, SizeRecordType DEF readFileFails
<1>3. FilesType' /\ FlashType' /\ FramType' /\ RestType'
  BY <1>0, <1>2 DEF readFileFails, FilesType, FlashType, FramType, RestType, sdVars,
                    bounds
<1> QED
  BY <1>1, <1>3, TypePartsNext

\* Giving up a copy keeps the types.
LEMMA GivesUpType ==
  ASSUME TypeOK, copyGivesUp
  PROVE  TypeOK'
<1>0. ControlType /\ FilesType /\ FlashType /\ FramType /\ RestType
  BY TypeParts
<1>1. ControlType'
  BY <1>0, ReturnType DEF copyGivesUp, Results
<1>2. framSize' \in [Regions -> 0..MaxFileSize]
  BY <1>0, SizeRecordType DEF copyGivesUp
<1>3. FilesType' /\ FlashType' /\ FramType' /\ RestType'
  BY <1>0, <1>2 DEF copyGivesUp, FilesType, FlashType, FramType, RestType, sdVars,
                    bounds
<1> QED
  BY <1>1, <1>3, TypePartsNext

\* Counting a bucket keeps the engine's type.
LEMMA Progress ==
  ASSUME NEW e \in Engines
  PROVE  /\ [e EXCEPT !.idx = @ + 1] \in Engines
         /\ [e EXCEPT !.idx = @ + 1, !.step = @ + 1] \in Engines
         /\ [e EXCEPT !.idx = @ + 1, !.step = @ + 1, !.flag1 = FALSE] \in Engines
<1> DEFINE f == [e EXCEPT !.idx = @ + 1]
           g == [f EXCEPT !.step = @ + 1]
           h == [g EXCEPT !.flag1 = FALSE]
<1>1. f \in Engines
  BY DEF Engines
<1>2. ASSUME NEW d \in Engines PROVE [d EXCEPT !.step = @ + 1] \in Engines
  BY DEF Engines
<1>3. ASSUME NEW d \in Engines PROVE [d EXCEPT !.flag1 = FALSE] \in Engines
  BY DEF Engines
<1>4. g = [e EXCEPT !.idx = @ + 1, !.step = @ + 1]
  OBVIOUS
<1>5. h = [e EXCEPT !.idx = @ + 1, !.step = @ + 1, !.flag1 = FALSE]
  OBVIOUS
<1> HIDE DEF f
<1>6. g \in Engines
  BY <1>1, <1>2
<1> HIDE DEF g
<1>7. h \in Engines
  BY <1>3, <1>6
<1> QED
  BY <1>1, <1>4, <1>5, <1>6, <1>7 DEF f

\* Writing a bucket to the NOR flash keeps the types.
LEMMA WriteBucketType ==
  ASSUME TypeOK, writeBucket
  PROVE  TypeOK'
<1> DEFINE e == [eng EXCEPT !.idx = @ + 1, !.step = @ + 1, !.flag1 = FALSE]
           pos == IF eng.flag1 THEN filePos ELSE filePos + 1
<1>0. ControlType /\ FilesType /\ FlashType /\ FramType /\ RestType
  BY TypeParts
<1>1. e \in Engines
  BY <1>0, Progress DEF ControlType
<1>2. BucketRead /\ imgBuffer' \in Data \cup {"old"}
  BY <1>0, BufferType DEF writeBucket
<1>3. pos \in 0..MaxFileSize
  BY <1>0, <1>2, NextPosition DEF BucketRead, ControlType
<1>4. Return("OPERATION_FINISHED", e) \/ Proceed(e, "file", pos)
  BY DEF writeBucket
<1> HIDE DEF e, pos
<1>5. ControlType'
  BY <1>0, <1>1, <1>3, <1>4, ReturnType, ProceedType DEF Results
<1>6. FlashType'
  <2>1. \/ flash' = ProgrammedFlash
        \/ flash' = [ProgrammedFlash EXCEPT !["BL"][LastCell] = WithSizeAndCrc(@)]
    BY DEF writeBucket, writeBootloaderSizeAndCrc, ProgrammedFlash
  <2>2. blCrc' \in BOOLEAN
    BY <1>0 DEF writeBucket, writeBootloaderSizeAndCrc, FlashType
  <2>3. FlashCells(ProgrammedFlash)
    BY <1>0, <1>2, ProgramType DEF ProgrammedFlash
  <2>4. FlashCells(flash')
    BY <2>1, <2>3, TrailerType
  <2> QED
    BY <2>2, <2>4 DEF FlashType, FlashCells
<1>7. framSize' \in [Regions -> 0..MaxFileSize]
  <2>1. RecordSize \/ SizeMayBeRecorded
    BY DEF writeBucket, SizeMayBeRecorded
  <2> QED
    BY <1>0, <2>1, SizeRecordType
<1>8. clean' \in BOOLEAN
  BY <1>0 DEF writeBucket, RestType
<1>9. FilesType' /\ FramType' /\ RestType'
  BY <1>0, <1>2, <1>7, <1>8 DEF writeBucket, FilesType, FramType, RestType, sdVars,
                                bounds
<1> QED
  BY <1>5, <1>6, <1>9, TypePartsNext

\* A failed write to the NOR flash keeps the types.
LEMMA WriteFailsType ==
  ASSUME TypeOK, writeBucketFails
  PROVE  TypeOK'
<1>0. ControlType /\ FilesType /\ FlashType /\ FramType /\ RestType
  BY TypeParts
<1>1. [eng EXCEPT !.flag1 = TRUE] \in Engines
  BY <1>0 DEF ControlType, Engines
<1>2. imgBuffer' \in Data \cup {"old"}
  BY <1>0, BufferType DEF writeBucketFails
<1>3. ControlType'
  BY <1>0, <1>1, RetryType DEF writeBucketFails
<1>4. FlashType'
  <2>1. \/ UNCHANGED flash
        \/ flash' = [flash EXCEPT ![Region(eng)][Address(eng)] = Program(@, imgBuffer')]
    BY DEF writeBucketFails
  <2>2. blCrc' \in BOOLEAN
    BY <1>0 DEF writeBucketFails, FlashType
  <2>3. CASE UNCHANGED flash
    BY <1>0, <2>2, <2>3 DEF FlashType
  <2>4. CASE flash' = [flash EXCEPT ![Region(eng)][Address(eng)] = Program(@, imgBuffer')]
    <3>1. FlashCells(flash')
      BY <1>0, <1>2, <2>4, ProgramType
    <3> QED
      BY <2>2, <3>1 DEF FlashType, FlashCells
  <2> QED
    BY <2>1, <2>3, <2>4
<1>5. framSize' \in [Regions -> 0..MaxFileSize]
  BY <1>0, SizeRecordType DEF writeBucketFails
<1>6. FilesType' /\ FramType' /\ RestType'
  BY <1>0, <1>2, <1>5 DEF writeBucketFails, FilesType, FramType, RestType, sdVars,
                          bounds
<1> QED
  BY <1>3, <1>4, <1>6, TypePartsNext

\* Writing a bucket of hamming code to the FRAM keeps the types.
LEMMA WriteHammingType ==
  ASSUME TypeOK, writeHammingBucket
  PROVE  TypeOK'
<1> DEFINE e == [eng EXCEPT !.idx = @ + 1]
<1>0. ControlType /\ FilesType /\ FlashType /\ FramType /\ RestType
  BY TypeParts
<1>1. e \in Engines /\ eng \in Engines
  BY <1>0, Progress DEF ControlType
<1>2. imgBuffer' \in Data \cup {"old"}
  BY <1>0, BufferType DEF writeHammingBucket, RestType
<1>3. ControlType'
  <2>1. \/ Return("OPERATION_FINISHED", eng)
        \/ Return("OPERATION_FINISHED", e)
        \/ ReadNext /\ Proceed(e, "file", filePos + 1)
    BY DEF writeHammingBucket
  <2> HIDE DEF e
  <2>2. CASE ReadNext /\ Proceed(e, "file", filePos + 1)
    BY <1>0, <1>1, <2>2, ProceedType, NextPosition
  <2> QED
    BY <1>0, <1>1, <2>1, <2>2, ReturnType DEF Results
<1>4. framHam' \in [FramSlots -> [size : 0..MaxFileSize,
                       code : [0..(HammingCapacity - 1) -> Data \cup Marks]]]
  <2>1. CASE UNCHANGED framHam
    BY <1>0, <2>1 DEF FramType
  <2>2. CASE framHam' = [framHam EXCEPT ![FramSlot(eng)].code =
                                        HammingWritten(@, eng.idx, imgBuffer')]
    BY <1>0, <1>2, <2>2 DEF FramType, HammingWritten, Marks
  <2> QED
    BY <2>1, <2>2 DEF writeHammingBucket
<1>5. FilesType' /\ FlashType' /\ FramType' /\ RestType'
  BY <1>0, <1>2, <1>4 DEF writeHammingBucket, FilesType, FlashType, FramType,
                          RestType, sdVars, bounds
<1> QED
  BY <1>3, <1>5, TypePartsNext

\* Appending a bucket to the target file keeps the types.
LEMMA AppendType ==
  ASSUME TypeOK, appendBucket
  PROVE  TypeOK'
<1> DEFINE e == [eng EXCEPT !.idx = @ + 1, !.step = @ + 1]
           t == TargetFile(eng)
<1>0. ControlType /\ FilesType /\ FlashType /\ FramType /\ RestType
  BY TypeParts
<1>1. e \in Engines
  BY <1>0, Progress DEF ControlType
<1>2. ReadNext /\ imgBuffer' \in Data
  <2>1. ReadNext
    BY DEF appendBucket
  <2> QED
    BY <1>0, <2>1, ReadType
<1>3. ControlType'
  <2>1. Return("OPERATION_FINISHED", e) \/ Proceed(e, "file", filePos + 1)
    BY DEF appendBucket
  <2>2. filePos + 1 \in 0..MaxFileSize
    BY <1>0, <1>2, NextPosition
  <2> HIDE DEF e
  <2> QED
    BY <1>0, <1>1, <2>1, <2>2, ReturnType, ProceedType DEF Results
<1>4. FilesType'
  <2>1. CASE UNCHANGED files
    BY <1>0, <2>1 DEF FilesType
  <2>2. CASE files' = [files EXCEPT ![t] = Append(@, imgBuffer')]
    <3>1. DOMAIN files' = DOMAIN files
      BY <2>2
    <3>2. ASSUME NEW f \in DOMAIN files
          PROVE  files'[f] \in Seq(Data) /\ Len(files'[f]) <= MaxFileSize
      <4>1. CASE f = t
        <5>1. files'[t] = Append(files[t], imgBuffer')
          BY <2>2, <4>1
        <5>2. files[t] \in Seq(Data) /\ Len(files[t]) \in Nat /\ Len(files[t]) < MaxFileSize
          BY <1>0, <4>1, LenProperties DEF appendBucket, FilesType
        <5> HIDE DEF t
        <5>3. /\ Append(files[t], imgBuffer') \in Seq(Data)
              /\ Len(Append(files[t], imgBuffer')) = Len(files[t]) + 1
          BY <1>2, <5>2, AppendProperties
        <5> QED
          BY <4>1, <5>1, <5>2, <5>3, ImageAssumption
      <4>2. CASE f # t
        BY <1>0, <2>2, <4>2 DEF FilesType
      <4> QED
        BY <4>1, <4>2
    <3> QED
      BY <1>0, <3>1, <3>2 DEF FilesType
  <2> QED
    BY <2>1, <2>2 DEF appendBucket
<1>5. clean' \in BOOLEAN
  BY <1>0 DEF appendBucket, RestType
<1>6. FlashType' /\ FramType' /\ RestType'
  BY <1>0, <1>2, <1>5 DEF appendBucket, FlashType, FramType, RestType, sdVars, bounds
<1> QED
  BY <1>3, <1>4, <1>6, TypePartsNext

\* The types hold when the task starts.
LEMMA TypeInit == Init => TypeOK
<1> SUFFICES ASSUME Init PROVE TypeOK
  OBVIOUS
<1>1. ControlType
  BY ResetType, ImageAssumption DEF Init, ControlType, NoResult
<1>2. FilesType
  BY ImageAssumption DEF Init, FilesType
<1>3. FlashType
  BY DEF Init, FlashType, Marks
<1>4. FramType
  BY ImageAssumption DEF Init, FramType, Marks
<1>5. RestType
  BY Bounds DEF Init, RestType
<1> QED
  BY <1>1, <1>2, <1>3, <1>4, <1>5, TypeParts

\* Disturbances from outside leave the engine alone, or reset it.
LEMMA EnvironmentType ==
  ASSUME TypeOK, Environment
  PROVE  TypeOK'
<1>0. ControlType /\ FilesType /\ FlashType /\ FramType /\ RestType
  BY TypeParts
<1>1. disturbances' \in 0..MaxDisturbances
  BY <1>0, Bounds DEF Environment, tryActiveSdCardChange, deleteFile, Restart,
                      Disturb, RestType
<1>2. CASE tryActiveSdCardChange
  <2>1. RestType'
    <3>1. card' \in Cards
      BY <1>0, <1>2, SMT DEF tryActiveSdCardChange, RestType, Cards
    <3>2. changing' \in BOOLEAN /\ clean' \in BOOLEAN
      BY <1>2, Zenon DEF tryActiveSdCardChange, Disturb
    <3> QED
      BY <1>0, <1>1, <1>2, <3>1, <3>2 DEF tryActiveSdCardChange, RestType
  <2>2. ControlType'
    BY <1>0, <1>2 DEF tryActiveSdCardChange, Disturb, ControlType, handlerVars, NoResult
  <2>3. FilesType' /\ FlashType' /\ FramType'
    BY <1>0, <1>2 DEF tryActiveSdCardChange, FilesType, FlashType, FramType, storageVars
  <2> QED
    BY <2>1, <2>2, <2>3, TypePartsNext
<1>3. ASSUME NEW f \in DOMAIN files, deleteFile(f) PROVE TypeOK'
  BY <1>0, <1>1, <1>3, TypePartsNext
     DEF deleteFile, Disturb, ControlType, FilesType, FlashType, FramType,
         RestType, NoResult, handlerVars, sdVars
<1>4. CASE Restart
  <2>1. ControlType'
    BY <1>0, <1>4, ResetType, ImageAssumption DEF Restart, ControlType, NoResult
  <2>2. FilesType' /\ FlashType' /\ FramType' /\ RestType'
    BY <1>0, <1>1, <1>4 DEF Restart, storageVars, FilesType, FlashType, FramType, RestType
  <2> QED
    BY <2>1, <2>2, TypePartsNext
<1> QED
  BY <1>2, <1>3, <1>4 DEF Environment

\* Every step keeps the types.
LEMMA TypeStep == TypeOK /\ [Next]_vars => TypeOK'
<1> SUFFICES ASSUME TypeOK, [Next]_vars PROVE TypeOK'
  OBVIOUS
<1>0. ControlType /\ FilesType /\ FlashType /\ FramType /\ RestType
  BY TypeParts
<1>1. CASE executeAction
  <2>1. ControlType' /\ RestType' /\ UNCHANGED storageVars
    BY <1>0, <1>1, CommandType
  <2> QED
    BY <1>0, <2>1, TypePartsNext DEF storageVars, FilesType, FlashType, FramType
<1>2. CASE ContinueCopy
  BY <1>0, <1>2, TypePartsNext
     DEF ContinueCopy, ControlType, FilesType, FlashType, FramType, RestType,
         NoResult, storageVars, sdVars, bounds
<1>3. CASE continueWithoutOperation
  <2>1. ControlType'
    BY <1>0, <1>3, ReturnType DEF continueWithoutOperation, Results
  <2> QED
    BY <1>0, <1>3, <2>1, TypePartsNext
       DEF continueWithoutOperation, FilesType, FlashType, FramType, RestType,
           storageVars, sdVars, bounds
<1>4. CASE Engine
  BY <1>3, <1>4, ErasureType, FinishType, OpenForNorType, OpenForFramType,
     OpenForSdType, ReadFailsType, GivesUpType, WriteBucketType, WriteFailsType,
     WriteHammingType, AppendType DEF Engine
<1>5. CASE Environment
  BY <1>5, EnvironmentType
<1>6. CASE UNCHANGED vars
  BY <1>0, <1>6, TypePartsNext
     DEF vars, ControlType, FilesType, FlashType, FramType, RestType, handlerVars,
         storageVars, sdVars, bounds
<1> QED
  BY <1>1, <1>2, <1>4, <1>5, <1>6 DEF Next, performOperation

\* The engine's fields, the storage and the bounds keep their types: a third error
\* ends a copy, no size or position runs past that of the largest file, and cells
\* that are written are cells of the region.
THEOREM TypeCorrect == Spec => []TypeOK
BY TypeInit, TypeStep, PTL DEF Spec

-------------------------------------------------------------------------------
(* An idle engine *)

\* The engine starts reset.
LEMMA IdleInit == Init => IdleEngineIsReset
BY DEF Init, IdleEngineIsReset

\* A result that ends the copy leaves the engine reset.
LEMMA ReturnIdle ==
  ASSUME NEW r, NEW e, pc \in {"work", "file"}, IdleEngineIsReset, Return(r, e)
  PROVE  IdleEngineIsReset'
BY ResetType DEF Return, IdleEngineIsReset

\* A copy becomes idle only when it returns, or the OBC restarts.
LEMMA IdleStep == IdleEngineIsReset /\ [Next]_vars => IdleEngineIsReset'
<1> SUFFICES ASSUME IdleEngineIsReset, [Next]_vars PROVE IdleEngineIsReset'
  OBVIOUS
<1>1. CASE executeAction
  BY <1>1 DEF executeAction, handleCopyingSdcBlToFlash, handleCopyingSdcImgToFlash,
       handleCopyingSdcToSdc, handleCopyingHammingToStorage, Accept, IdleEngineIsReset
<1>2. CASE ContinueCopy
  BY <1>2 DEF ContinueCopy, IdleEngineIsReset
<1>3. CASE Engine
  <2>1. pc \in {"work", "file"} /\ handlerState # "IDLE"
    BY <1>3 DEF Engine, continueWithoutOperation, handleNorflashErasure, finishErasure,
         openForNorFlash, openForFram, openForSdCard, readFileFails, copyGivesUp,
         writeBucket, writeBucketFails, writeHammingBucket, appendBucket, InFile,
         Erasing, IdleEngineIsReset
  <2>2. \/ UNCHANGED handlerState
        \/ \E r, e : Return(r, e)
    <3>1. CASE \/ continueWithoutOperation \/ handleNorflashErasure \/ finishErasure
      BY <3>1 DEF continueWithoutOperation, handleNorflashErasure, finishErasure, Proceed
    <3>2. CASE openForNorFlash \/ openForFram \/ openForSdCard
      BY <3>2 DEF openForNorFlash, openForFram, openForSdCard, Open, OpenFails
    <3>3. CASE readFileFails \/ copyGivesUp \/ writeBucketFails
      BY <3>3 DEF readFileFails, copyGivesUp, writeBucketFails, RetryLater
    <3>4. CASE writeBucket \/ writeHammingBucket \/ appendBucket
      BY <3>4 DEF writeBucket, writeHammingBucket, appendBucket, Proceed
    <3> QED
      BY <1>3, <3>1, <3>2, <3>3, <3>4 DEF Engine
  <2> QED
    BY <2>1, <2>2, ReturnIdle DEF IdleEngineIsReset
<1>4. CASE Environment
  BY <1>4 DEF Environment, tryActiveSdCardChange, deleteFile, Restart, handlerVars,
       IdleEngineIsReset
<1>5. CASE UNCHANGED vars
  BY <1>5 DEF vars, handlerVars, IdleEngineIsReset
<1> QED
  BY <1>1, <1>2, <1>3, <1>4, <1>5 DEF Next, performOperation

\* Whatever ended or replaced a copy, and wherever the OBC restarted, the next copy
\* starts from an engine that is reset.
THEOREM IdleIsReset == Spec => []IdleEngineIsReset
BY IdleInit, IdleStep, PTL DEF Spec

-------------------------------------------------------------------------------
(* How an action of the engine ends *)

\* The copy has ended.
Ended == handlerState' = "IDLE" /\ eng' = InitialEngine

\* The copy goes on with engine e, in this cycle or the next one.
GoesOn(e, next, pos) ==
  /\ eng' = e /\ UNCHANGED handlerState
  /\ pc' = "sleep" \/ (pc' = next /\ filePos' = pos)

NotFinished == result'.code # "OPERATION_FINISHED"

\* A result ends the copy, unless it is the end of the task's period.
LEMMA ReturnOutcome ==
  ASSUME NEW r, NEW e, Return(r, e)
  PROVE  /\ r # "TASK_PERIOD_OVER_SOON" => Ended
         /\ r = "TASK_PERIOD_OVER_SOON" => GoesOn(e, "sleep", 0)
         /\ result'.code = r /\ result'.eng = e
BY ResetType DEF Return, Ended, GoesOn

\* Going on, now or in the next cycle, finishes nothing.
LEMMA ProceedOutcome ==
  ASSUME NEW e, NEW next, NEW pos, Proceed(e, next, pos)
  PROVE  GoesOn(e, next, pos) /\ NotFinished
<1>1. CASE Return("TASK_PERIOD_OVER_SOON", e)
  BY <1>1, ReturnOutcome DEF GoesOn, NotFinished
<1> QED
  BY <1>1 DEF Proceed, GoesOn, NotFinished, NoResult

\* An error ends the copy or is counted; nothing is finished.
LEMMA RetryOutcome ==
  ASSUME NEW e, RetryLater(e)
  PROVE  /\ Ended \/ GoesOn([e EXCEPT !.errors = @ + 1], "sleep", 0)
         /\ NotFinished
<1> DEFINE f == [e EXCEPT !.errors = @ + 1]
<1>1. \/ Return("RETURN_FAILED", f)
      \/ Return("TASK_PERIOD_OVER_SOON", f)
  BY DEF RetryLater
<1> HIDE DEF f
<1>2. CASE Return("RETURN_FAILED", f)
  BY <1>2, ReturnOutcome DEF NotFinished
<1>3. CASE Return("TASK_PERIOD_OVER_SOON", f)
  BY <1>3, ReturnOutcome DEF NotFinished, f
<1> QED
  BY <1>1, <1>2, <1>3 DEF f

\* After opening, the file is at the bucket of the engine.
LEMMA OpenOutcome ==
  ASSUME NEW e, Open(e)
  PROVE  GoesOn(e, "file", e.idx) /\ NotFinished
BY DEF Open, GoesOn, NotFinished, NoResult

\* A file that cannot be opened ends the copy, unfinished.
LEMMA OpenFailsOutcome ==
  ASSUME NEW e, OpenFails(e)
  PROVE  Ended /\ NotFinished
BY ReturnOutcome DEF OpenFails, NotFinished

\* The command that is carried out does not change.
SameCopy ==
  /\ eng'.state = eng.state /\ eng'.source = eng.source /\ eng'.hamming = eng.hamming
  /\ UNCHANGED handlerState

\* One more sector is erased, or the copy fails.
LEMMA ErasureEffect ==
  ASSUME ControlType, FlashType, handleNorflashErasure
  PROVE  LET r == Region(eng)
         IN /\ NotFinished
            /\ \/ Ended /\ UNCHANGED flash
               \/ /\ SameCopy /\ pc' \in {"sleep", "work"}
                  /\ eng'.internal = "STEP_1" /\ eng'.flag1 = TRUE
                  /\ eng'.idx = eng.idx /\ eng'.step = eng.step + 1
                  /\ r = "OBSW" =>
                       eng'.counter1 = IF eng.flag1 THEN eng.counter1 ELSE ObswSectors
                  /\ eng'.step <= SectorsToErase(eng')
                  /\ flash' = [flash EXCEPT ![r] =
                       [k \in DOMAIN @ |->
                          IF SectorOf(r, k) = ErasedSector(r, eng.step)
                          THEN "erased" ELSE @[k]]]
<1> DEFINE e == PrepareErasure(eng)
           f == [e EXCEPT !.step = @ + 1]
<1>1. eng \in Engines
  BY DEF ControlType
<1>2. /\ e.state = eng.state /\ e.source = eng.source /\ e.hamming = eng.hamming
      /\ e.internal = "STEP_1" /\ e.flag1 = TRUE /\ e.idx = eng.idx
      /\ e.step = eng.step
      /\ Region(eng) = "OBSW" =>
           e.counter1 = IF eng.flag1 THEN eng.counter1 ELSE ObswSectors
      /\ DOMAIN e = DOMAIN eng
  BY <1>1 DEF PrepareErasure, Engines, Region
<1>3. DOMAIN eng = {"state", "internal", "source", "hamming", "step", "idx", "size",
                    "errors", "flag1", "counter1"}
  BY <1>1 DEF Engines
<1>4. Region(e) = Region(eng)
  BY <1>2 DEF Region
<1> HIDE DEF e
<1>5. /\ f.state = e.state /\ f.source = e.source /\ f.hamming = e.hamming
      /\ f.internal = e.internal /\ f.flag1 = e.flag1 /\ f.idx = e.idx
      /\ f.step = e.step + 1 /\ f.counter1 = e.counter1
  BY <1>2, <1>3
<1>6. SectorsToErase(f) = SectorsToErase(e) /\ Region(f) = Region(e)
  BY <1>5 DEF SectorsToErase, Region
<1>7. SectorsToErase(e) \in Int /\ eng.step \in Nat
  <2>1. ObswSectors \in Int /\ SmallSectors + 1 \in Int
    BY ImageAssumption
  <2>2. eng.counter1 \in {0, ObswSectors} /\ eng.step \in Nat
    BY <1>1 DEF Engines
  <2>3. Region(eng) = "OBSW" => e.counter1 \in Int
    BY <1>2, <2>1, <2>2
  <2>4. Region(eng) # "BL" => Region(eng) = "OBSW"
    BY DEF Region
  <2> QED
    BY <1>4, <2>1, <2>2, <2>3, <2>4 DEF SectorsToErase, BlSectors
<1>8. e.step < SectorsToErase(e)
  BY DEF handleNorflashErasure, e
<1> HIDE DEF f
<1>9. CASE Return("RETURN_FAILED", e) /\ UNCHANGED flash
  BY <1>9, ReturnOutcome DEF NotFinished
<1>10. CASE /\ Proceed(f, "work", 0)
            /\ flash' = [flash EXCEPT ![Region(e)] =
                 [k \in DOMAIN @ |-> IF SectorOf(Region(e), k) = ErasedSector(Region(e), e.step)
                                     THEN "erased" ELSE @[k]]]
  <2>1. eng' = f /\ UNCHANGED handlerState /\ pc' \in {"sleep", "work"} /\ NotFinished
    BY <1>10, ProceedOutcome DEF GoesOn
  <2>2. eng'.step <= SectorsToErase(eng')
    BY <1>2, <1>5, <1>6, <1>7, <1>8, <2>1
  <2>3. flash' = [flash EXCEPT ![Region(eng)] =
                    [k \in DOMAIN @ |->
                       IF SectorOf(Region(eng), k) = ErasedSector(Region(eng), eng.step)
                       THEN "erased" ELSE @[k]]]
    BY <1>2, <1>4, <1>10
  <2> QED
    BY <1>2, <1>5, <2>1, <2>2, <2>3 DEF SameCopy
<1> QED
  BY <1>9, <1>10 DEF handleNorflashErasure, e, f

\* After the erasure the progress starts anew.
LEMMA FinishEffect ==
  ASSUME ControlType, finishErasure
  PROVE  /\ NotFinished /\ UNCHANGED flash
         /\ \/ Ended
            \/ /\ SameCopy /\ pc' \in {"sleep", "work"}
               /\ eng'.internal = "STEP_2" /\ eng'.idx = eng.idx
               /\ LET e == PrepareErasure(eng)
                  IN /\ e.step = eng.step
                     /\ e.step >= SectorsToErase(e)
                     /\ e.step = SectorsToErase(e) => eng'.step = 0 /\ eng'.flag1 = FALSE
<1> DEFINE e == PrepareErasure(eng)
           d == IF e.step # SectorsToErase(e) THEN e
                ELSE IF Region(e) = "BL" THEN [e EXCEPT !.step = 0, !.flag1 = FALSE]
                ELSE [e EXCEPT !.step = 0, !.flag1 = FALSE, !.counter1 = 0]
           f == [d EXCEPT !.internal = "STEP_2"]
<1>1. eng \in Engines
  BY DEF ControlType
<1>2. /\ e.state = eng.state /\ e.source = eng.source /\ e.hamming = eng.hamming
      /\ e.idx = eng.idx /\ e.step = eng.step
      /\ DOMAIN e = {"state", "internal", "source", "hamming", "step", "idx", "size",
                     "errors", "flag1", "counter1"}
  BY <1>1 DEF PrepareErasure, Engines, Region
<1>3. (Proceed(f, "work", 0) \/ Return("RETURN_FAILED", e)) /\ UNCHANGED flash
  BY DEF finishErasure, storageVars
<1>4. e.step >= SectorsToErase(e)
  BY DEF finishErasure
<1> HIDE DEF e
<1>5. /\ d.state = e.state /\ d.source = e.source /\ d.hamming = e.hamming
      /\ d.idx = e.idx /\ DOMAIN d = DOMAIN e
      /\ e.step = SectorsToErase(e) => d.step = 0 /\ d.flag1 = FALSE
  BY <1>2
<1> HIDE DEF d
<1>6. /\ f.state = d.state /\ f.source = d.source /\ f.hamming = d.hamming
      /\ f.idx = d.idx /\ f.internal = "STEP_2"
      /\ f.step = d.step /\ f.flag1 = d.flag1
  BY <1>2, <1>5
<1> HIDE DEF f
<1>7. CASE Return("RETURN_FAILED", e)
  BY <1>3, <1>7, ReturnOutcome DEF NotFinished
<1>8. CASE Proceed(f, "work", 0)
  <2>1. eng' = f /\ UNCHANGED handlerState /\ pc' \in {"sleep", "work"} /\ NotFinished
    BY <1>8, ProceedOutcome DEF GoesOn
  <2> QED
    BY <1>2, <1>3, <1>4, <1>5, <1>6, <2>1 DEF SameCopy, e
<1> QED
  BY <1>3, <1>7, <1>8

SameProgress ==
  /\ SameCopy
  /\ eng'.internal = eng.internal /\ eng'.step = eng.step /\ eng'.idx = eng.idx
  /\ eng'.size = eng.size

\* The fields of an engine.
LEMMA Fields ==
  ASSUME NEW e \in Engines
  PROVE  DOMAIN e = {"state", "internal", "source", "hamming", "step", "idx", "size",
                     "errors", "flag1", "counter1"}
BY DEF Engines

\* A failed access counts as an error and changes nothing else.
LEMMA ErrorFields ==
  ASSUME NEW e \in Engines, NEW f, f = [e EXCEPT !.errors = @ + 1]
  PROVE  /\ f.state = e.state /\ f.source = e.source /\ f.hamming = e.hamming
         /\ f.internal = e.internal /\ f.step = e.step /\ f.idx = e.idx
         /\ f.size = e.size /\ f.flag1 = e.flag1
<1>1. DOMAIN e = {"state", "internal", "source", "hamming", "step", "idx", "size",
                  "errors", "flag1", "counter1"}
  BY Fields
<1> QED
  BY <1>1

\* A failed read changes no storage; the same bucket is tried again.
LEMMA ReadFailsEffect ==
  ASSUME ControlType, readFileFails
  PROVE  /\ NotFinished /\ UNCHANGED <<flash, files, imgBuffer>>
         /\ \/ Ended
            \/ SameProgress /\ eng'.flag1 = eng.flag1 /\ pc' = "sleep"
<1>1. eng \in Engines /\ RetryLater(eng) /\ UNCHANGED <<flash, files, imgBuffer>>
  BY DEF ControlType, readFileFails
<1>2. /\ Ended \/ GoesOn([eng EXCEPT !.errors = @ + 1], "sleep", 0)
      /\ NotFinished
  BY <1>1, RetryOutcome
<1>3. CASE GoesOn([eng EXCEPT !.errors = @ + 1], "sleep", 0)
  <2>1. eng' = [eng EXCEPT !.errors = @ + 1] /\ pc' = "sleep" /\ UNCHANGED handlerState
    BY <1>3 DEF GoesOn
  <2> QED
    BY <1>1, <1>2, <2>1, ErrorFields DEF SameProgress, SameCopy
<1> QED
  BY <1>1, <1>2, <1>3

\* A failed write keeps the engine at its bucket with the buffer marked full.
LEMMA WriteFailsEffect ==
  ASSUME ControlType, writeBucketFails
  PROVE  /\ NotFinished /\ clean' = FALSE
         /\ \/ Ended
            \/ SameProgress /\ eng'.flag1 = TRUE /\ pc' = "sleep"
<1> DEFINE e == [eng EXCEPT !.flag1 = TRUE]
<1>1. eng \in Engines /\ RetryLater(e) /\ clean' = FALSE
  BY DEF ControlType, writeBucketFails
<1>2. DOMAIN eng = {"state", "internal", "source", "hamming", "step", "idx", "size",
                    "errors", "flag1", "counter1"}
  BY <1>1, Fields
<1>3. e \in Engines
  BY <1>1 DEF Engines
<1>4. /\ e.state = eng.state /\ e.source = eng.source /\ e.hamming = eng.hamming
      /\ e.internal = eng.internal /\ e.step = eng.step /\ e.idx = eng.idx
      /\ e.size = eng.size /\ e.flag1 = TRUE
  BY <1>2
<1> HIDE DEF e
<1>5. /\ Ended \/ GoesOn([e EXCEPT !.errors = @ + 1], "sleep", 0)
      /\ NotFinished
  BY <1>1, RetryOutcome
<1>6. CASE GoesOn([e EXCEPT !.errors = @ + 1], "sleep", 0)
  <2>1. eng' = [e EXCEPT !.errors = @ + 1] /\ pc' = "sleep" /\ UNCHANGED handlerState
    BY <1>6 DEF GoesOn
  <2> QED
    BY <1>1, <1>3, <1>4, <1>5, <2>1, ErrorFields DEF SameProgress, SameCopy
<1> QED
  BY <1>1, <1>5, <1>6

\* An open file is at the bucket of the engine; its size is read when nothing was
\* copied yet.
OpenedAt(e) ==
  /\ SameCopy /\ BinaryFile(eng) \in DOMAIN files
  /\ eng'.internal = e /\ eng'.step = eng.step /\ eng'.idx = eng.idx
  /\ eng'.flag1 = eng.flag1
  /\ eng'.size = IF eng.step = 0 THEN Len(files[BinaryFile(eng)]) ELSE eng.size
  /\ eng.idx <= Len(files[BinaryFile(eng)])
  /\ pc' = "file" /\ filePos' = eng.idx

\* Taking the size of the file in the first step changes only the size.
LEMMA CacheFields ==
  ASSUME NEW e \in Engines
  PROVE  LET c == CacheSize(e)
         IN /\ c.state = e.state /\ c.source = e.source /\ c.hamming = e.hamming
            /\ c.internal = e.internal /\ c.step = e.step /\ c.idx = e.idx
            /\ c.flag1 = e.flag1
            /\ c.size = IF e.step = 0 THEN FileSize(BinaryFile(e)) ELSE e.size
            /\ BinaryFile(c) = BinaryFile(e) /\ TargetFile(c) = TargetFile(e)
<1>1. DOMAIN e = {"state", "internal", "source", "hamming", "step", "idx", "size",
                  "errors", "flag1", "counter1"}
  BY Fields
<1> DEFINE c == CacheSize(e)
<1>2. /\ c.state = e.state /\ c.source = e.source /\ c.hamming = e.hamming
      /\ c.internal = e.internal /\ c.step = e.step /\ c.idx = e.idx
      /\ c.flag1 = e.flag1
      /\ c.size = IF e.step = 0 THEN FileSize(BinaryFile(e)) ELSE e.size
  BY <1>1 DEF CacheSize
<1> HIDE DEF c
<1>3. BinaryFile(c) = BinaryFile(e) /\ TargetFile(c) = TargetFile(e)
  BY <1>2 DEF BinaryFile, TargetFile
<1> QED
  BY <1>2, <1>3 DEF c

\* Opening with the size taken keeps the engine at its bucket.
LEMMA CacheOpened ==
  ASSUME ControlType, Open(CacheSize(eng))
  PROVE  OpenedAt(eng.internal) /\ NotFinished
<1> DEFINE c == CacheSize(eng)
<1>1. eng \in Engines
  BY DEF ControlType
<1>2. /\ c.state = eng.state /\ c.source = eng.source /\ c.hamming = eng.hamming
      /\ c.internal = eng.internal /\ c.step = eng.step /\ c.idx = eng.idx
      /\ c.flag1 = eng.flag1
      /\ c.size = IF eng.step = 0 THEN FileSize(BinaryFile(eng)) ELSE eng.size
      /\ BinaryFile(c) = BinaryFile(eng)
  BY <1>1, CacheFields
<1> HIDE DEF c
<1>3. Open(c)
  BY DEF c
<1> QED
  BY <1>2, <1>3 DEF Open, OpenedAt, SameCopy, FileSize, NotFinished, NoResult

\* Opening the image for the NOR flash changes no storage.
LEMMA OpenForNorEffect ==
  ASSUME ControlType, openForNorFlash
  PROVE  /\ NotFinished /\ UNCHANGED <<storageVars, imgBuffer, clean>>
         /\ Ended \/ OpenedAt("STEP_2")
<1>1. /\ Open(CacheSize(eng)) \/ OpenFails(CacheSize(eng))
      /\ eng.internal = "STEP_2" /\ UNCHANGED <<storageVars, imgBuffer, clean>>
  BY DEF openForNorFlash
<1> QED
  BY <1>1, CacheOpened, OpenFailsOutcome

\* A bucket is programmed; with the last one the copy is finished, and a bootloader
\* may get its size and CRC.
LEMMA WriteEffect ==
  ASSUME ControlType, writeBucket
  PROVE  /\ BucketRead
         /\ \/ flash' = ProgrammedFlash
            \/ /\ Ended /\ Region(eng) = "BL"
               /\ flash' = [ProgrammedFlash EXCEPT !["BL"][LastCell] = WithSizeAndCrc(@)]
         /\ \/ /\ Ended /\ eng.idx + 1 >= eng.size
               /\ result'.eng.state = eng.state /\ result'.eng.source = eng.source
               /\ result'.eng.hamming = eng.hamming
            \/ /\ NotFinished /\ SameCopy /\ eng.idx + 1 < eng.size
               /\ eng'.internal = eng.internal /\ eng'.flag1 = FALSE
               /\ eng'.step = eng.step + 1 /\ eng'.idx = eng.idx + 1
               /\ eng'.size = eng.size
               /\ \/ pc' = "sleep"
                  \/ pc' = "file" /\ filePos' = IF eng.flag1 THEN filePos ELSE filePos + 1
<1> DEFINE e == [eng EXCEPT !.idx = @ + 1, !.step = @ + 1, !.flag1 = FALSE]
           pos == IF eng.flag1 THEN filePos ELSE filePos + 1
<1>1. DOMAIN eng = {"state", "internal", "source", "hamming", "step", "idx", "size",
                    "errors", "flag1", "counter1"}
  BY Fields DEF ControlType
<1>2. /\ e.state = eng.state /\ e.source = eng.source /\ e.hamming = eng.hamming
      /\ e.internal = eng.internal /\ e.step = eng.step + 1 /\ e.idx = eng.idx + 1
      /\ e.size = eng.size /\ e.flag1 = FALSE
  BY <1>1
<1>3. /\ BucketRead
      /\ \/ flash' = ProgrammedFlash
         \/ /\ e.idx >= e.size /\ Region(eng) = "BL"
            /\ flash' = [ProgrammedFlash EXCEPT !["BL"][LastCell] = WithSizeAndCrc(@)]
      /\ \/ e.idx >= e.size /\ Return("OPERATION_FINISHED", e)
         \/ ~(e.idx >= e.size) /\ Proceed(e, "file", pos)
  BY DEF writeBucket, writeBootloaderSizeAndCrc, ProgrammedFlash
<1> HIDE DEF e, pos
<1>4. CASE e.idx >= e.size /\ Return("OPERATION_FINISHED", e)
  BY <1>2, <1>3, <1>4, ReturnOutcome
<1>5. CASE ~(e.idx >= e.size) /\ Proceed(e, "file", pos)
  <2>1. /\ eng' = e /\ UNCHANGED handlerState /\ NotFinished
        /\ pc' = "sleep" \/ (pc' = "file" /\ filePos' = pos)
    BY <1>5, ProceedOutcome DEF GoesOn
  <2>2. eng.idx \in Nat /\ eng.size \in Nat
    BY ImageAssumption DEF ControlType, Engines
  <2>3. eng.idx + 1 < eng.size
    BY <1>2, <1>5, <2>2
  <2>4. flash' = ProgrammedFlash
    BY <1>2, <1>3, <1>5
  <2> QED
    BY <1>2, <1>3, <2>1, <2>3, <2>4 DEF SameCopy, pos
<1> QED
  BY <1>3, <1>4, <1>5

\* The operations that do not program the flash leave it, and stay what they are.
LEMMA OtherEffect ==
  ASSUME ControlType,
         \/ continueWithoutOperation \/ openForFram \/ openForSdCard
         \/ copyGivesUp \/ writeHammingBucket \/ appendBucket
  PROVE  /\ UNCHANGED flash
         /\ \/ Ended
            \/ SameCopy /\ eng.state \in {"COPY_IMG_HAMMING_SDC_TO_FRAM",
                                          "COPY_IMG_SDC_TO_SDC"}
<1>0. eng \in Engines
  BY DEF ControlType
<1>1. CASE continueWithoutOperation
  BY <1>1, ReturnOutcome DEF continueWithoutOperation, storageVars
<1>2. CASE copyGivesUp
  BY <1>2, ReturnOutcome DEF copyGivesUp
<1>3. CASE openForFram
  <2> DEFINE d == [eng EXCEPT !.internal = "STEP_1"]
  <2>1. d \in Engines /\ d.state = eng.state /\ d.source = eng.source
        /\ d.hamming = eng.hamming
    BY <1>0 DEF Engines
  <2>2. UNCHANGED flash /\ eng.state = "COPY_IMG_HAMMING_SDC_TO_FRAM"
        /\ \/ Open(CacheSize(d)) \/ OpenFails(CacheSize(d))
           \/ Return("FRAM_ISSUE", CacheSize(d))
    BY <1>3 DEF openForFram
  <2> HIDE DEF d
  <2>3. CASE Open(CacheSize(d))
    BY <2>1, <2>2, <2>3, CacheFields DEF Open, SameCopy
  <2> QED
    BY <2>2, <2>3, OpenFailsOutcome, ReturnOutcome
<1>4. CASE openForSdCard
  <2>1. UNCHANGED flash /\ eng.state = "COPY_IMG_SDC_TO_SDC"
        /\ \/ Open(CacheSize(eng)) \/ OpenFails(CacheSize(eng))
           \/ Return("RETURN_FAILED", CacheSize(eng))
    BY <1>4 DEF openForSdCard
  <2> QED
    BY <2>1, CacheOpened, OpenFailsOutcome, ReturnOutcome DEF OpenedAt
<1>5. CASE writeHammingBucket
  <2> DEFINE e == [eng EXCEPT !.idx = @ + 1]
  <2>1. e.state = eng.state /\ e.source = eng.source /\ e.hamming = eng.hamming
    BY <1>0 DEF Engines
  <2>2. UNCHANGED flash /\ eng.state = "COPY_IMG_HAMMING_SDC_TO_FRAM"
        /\ \/ Return("OPERATION_FINISHED", eng) \/ Return("OPERATION_FINISHED", e)
           \/ Proceed(e, "file", filePos + 1)
    BY <1>5 DEF writeHammingBucket, InFile
  <2> HIDE DEF e
  <2> QED
    BY <2>1, <2>2, ProceedOutcome, ReturnOutcome DEF GoesOn, SameCopy
<1>6. CASE appendBucket
  <2> DEFINE e == [eng EXCEPT !.idx = @ + 1, !.step = @ + 1]
  <2>1. e.state = eng.state /\ e.source = eng.source /\ e.hamming = eng.hamming
    BY <1>0 DEF Engines
  <2>2. UNCHANGED flash /\ eng.state = "COPY_IMG_SDC_TO_SDC"
        /\ \/ Return("OPERATION_FINISHED", e)
           \/ Proceed(e, "file", filePos + 1)
    BY <1>6 DEF appendBucket, InFile
  <2> HIDE DEF e
  <2> QED
    BY <2>1, <2>2, ProceedOutcome, ReturnOutcome DEF GoesOn, SameCopy
<1> QED
  BY <1>1, <1>2, <1>3, <1>4, <1>5, <1>6

-------------------------------------------------------------------------------
(* The bootloader is programmed into erased cells *)

\* A copy of the bootloader is ongoing.
CopiesBootloader == eng.state \in NorCopies /\ Region(eng) = "BL"

\* The cells of the bootloader that a copy has still to program are erased, from
\* the end of the erasure on.  Only the cell of a bucket whose write is said to
\* have failed may hold that bucket already; it is in the buffer, one of the file,
\* to be written again.
BootInv ==
  CopiesBootloader =>
    /\ eng.internal # "STEP_2" =>
         /\ eng.idx = 0 /\ eng.step <= BlSectors
         /\ eng.internal = "IDLE" => eng.step = 0 /\ ~eng.flag1
         /\ \A k \in DOMAIN flash["BL"] :
              SectorOf("BL", k) < eng.step => flash["BL"][k] = "erased"
    /\ eng.internal = "STEP_2" =>
         /\ eng.flag1 => imgBuffer \in Data
         /\ \A k \in DOMAIN flash["BL"] : k >= eng.idx =>
              \/ flash["BL"][k] = "erased"
              \/ eng.flag1 /\ k = eng.idx /\ flash["BL"][k] = imgBuffer
    /\ pc = "file" => eng.internal = "STEP_2"

\* No copy is under way at the start and no cell of the bootloader is mixed.
LEMMA BootInit == Init => BootInv /\ BootloaderProgrammedOnce
<1>1. Init => BootInv
  BY InitialIdle DEF Init, BootInv, CopiesBootloader, NorCopies
<1>2. Init => BootloaderProgrammedOnce
  BY DEF Init, BootloaderProgrammedOnce, Regions
<1> QED
  BY <1>1, <1>2

\* An engine that is not copying the bootloader.
LEMMA NoBootCopy ==
  ASSUME eng'.state \notin NorCopies \/ eng'.source # "BOOTLOADER_0"
  PROVE  BootInv'
BY DEF BootInv, CopiesBootloader, Region

\* A cell of the bootloader lies in one of the sectors that are erased.
LEMMA SectorType ==
  ASSUME FlashType, NEW k \in DOMAIN flash["BL"]
  PROVE  k \in Nat /\ SectorOf("BL", k) \in Nat /\ SectorOf("BL", k) < BlSectors
<1>1. k \in 0..(Capacity["BL"] - 1)
  BY DEF FlashType, Regions
<1> QED
  BY <1>1, ImageAssumption DEF SectorOf, BlSectors

\* What goes into the bootloader's part is a bucket of a file, and no mark.
LEMMA BufferIsData ==
  ASSUME ControlType, FilesType, BootInv, BucketRead, CopiesBootloader, pc = "file"
  PROVE  imgBuffer' \in Data /\ imgBuffer' \notin Marks
<1>1. imgBuffer' \in Data
  BY ReadType DEF BootInv, BucketRead
<1> QED
  BY <1>1, ImageAssumption

\* A command starts a copy of the bootloader at its first sector.
LEMMA BootCommand ==
  ASSUME ControlType, FlashType, IdleEngineIsReset, BootInv, executeAction
  PROVE  BootInv' /\ UNCHANGED flash
<1>0. eng \in Engines
  BY DEF ControlType
<1>1. UNCHANGED <<flash, imgBuffer>> /\ pc' = "messages"
  BY DEF executeAction, handleCopyingSdcBlToFlash, handleCopyingSdcImgToFlash,
         handleCopyingSdcToSdc, handleCopyingHammingToStorage, Accept, storageVars
<1>2. ASSUME NEW fromFram \in BOOLEAN, handleCopyingSdcBlToFlash(fromFram)
      PROVE  BootInv'
  <2>1. eng = InitialEngine
    BY <1>2 DEF handleCopyingSdcBlToFlash, IdleEngineIsReset, ControlType
  <2>2. /\ eng'.internal = "IDLE" /\ eng'.idx = 0 /\ eng'.step = 0 /\ ~eng'.flag1
    <3>1. eng' = [eng EXCEPT !.source = "BOOTLOADER_0",
                             !.state = IF fromFram THEN "COPY_BL_FRAM_TO_FLASH"
                                                   ELSE "COPY_BL_SDC_TO_FLASH"]
      BY <1>2 DEF handleCopyingSdcBlToFlash, Accept
    <3>2. /\ eng'.internal = eng.internal /\ eng'.idx = eng.idx
          /\ eng'.step = eng.step /\ eng'.flag1 = eng.flag1
      BY <1>0, <3>1 DEF Engines
    <3> QED
      BY <2>1, <3>2, InitialIdle
  <2>3. \A k \in DOMAIN flash["BL"] : ~(SectorOf("BL", k) < 0)
    BY SectorType
  <2> QED
    BY <1>1, <2>2, <2>3, ImageAssumption DEF BootInv, BlSectors
<1>3. ASSUME NEW slot \in SdcSlots,
             handleCopyingSdcImgToFlash(slot) \/ handleCopyingSdcToSdc(slot)
      PROVE  BootInv'
  <2>1. eng'.source = slot
    BY <1>0, <1>3 DEF handleCopyingSdcImgToFlash, handleCopyingSdcToSdc, Accept, Engines
  <2> QED
    BY <2>1, NoBootCopy DEF SdcSlots
<1>4. ASSUME NEW slot \in SdcSlots \cup {"FLASH", "BOOTLOADER_0", "BOOTLOADER_1"},
             handleCopyingHammingToStorage(slot)
      PROVE  BootInv'
  <2>1. CASE slot = "BOOTLOADER_1"
    <3>1. eng' = eng
      BY <1>4, <2>1 DEF handleCopyingHammingToStorage, Accept
    <3> QED
      BY <1>1, <3>1 DEF BootInv, CopiesBootloader
  <2>2. CASE slot # "BOOTLOADER_1"
    <3>1. eng'.state \in {"COPY_BL_HAMMING_SDC_TO_FRAM", "COPY_IMG_HAMMING_SDC_TO_FRAM"}
      BY <1>0, <1>4, <2>2 DEF handleCopyingHammingToStorage, Accept, Engines
    <3> QED
      BY <3>1, NoBootCopy DEF NorCopies
  <2> QED
    BY <2>1, <2>2
<1> QED
  BY <1>1, <1>2, <1>3, <1>4 DEF executeAction

\* The erasure goes from sector to sector.
LEMMA BootErasure ==
  ASSUME ControlType, FlashType, BootInv, handleNorflashErasure
  PROVE  /\ BootInv'
         /\ \A k \in DOMAIN flash["BL"] : flash'["BL"][k] \in {flash["BL"][k], "erased"}
         /\ DOMAIN flash'["BL"] = DOMAIN flash["BL"]
<1>0. /\ DOMAIN flash = {"BL", "OBSW"} /\ eng.step \in Nat
      /\ eng.state \in NorCopies /\ eng.internal # "STEP_2"
  BY DEF FlashType, Regions, ControlType, Engines, handleNorflashErasure, Erasing
<1> DEFINE r == Region(eng)
<1>1. CASE Ended /\ UNCHANGED flash
  BY <1>1, InitialIdle, NoBootCopy DEF Ended, NorCopies
<1>2. CASE /\ SameCopy /\ pc' \in {"sleep", "work"}
           /\ eng'.internal = "STEP_1" /\ eng'.flag1 = TRUE
           /\ eng'.idx = eng.idx /\ eng'.step = eng.step + 1
           /\ eng'.step <= SectorsToErase(eng')
           /\ flash' = [flash EXCEPT ![r] =
                [k \in DOMAIN @ |->
                   IF SectorOf(r, k) = ErasedSector(r, eng.step)
                   THEN "erased" ELSE @[k]]]
  <2>1. CASE r # "BL"
    <3>1. eng'.source # "BOOTLOADER_0"
      BY <1>2, <2>1 DEF SameCopy, Region
    <3>2. flash'["BL"] = flash["BL"]
      BY <1>0, <1>2, <2>1
    <3> QED
      BY <3>1, <3>2, NoBootCopy
  <2>2. CASE r = "BL"
    <3>1. /\ DOMAIN flash'["BL"] = DOMAIN flash["BL"]
          /\ \A k \in DOMAIN flash["BL"] :
               flash'["BL"][k] = IF SectorOf("BL", k) = eng.step
                                 THEN "erased" ELSE flash["BL"][k]
      BY <1>0, <1>2, <2>2 DEF ErasedSector
    <3>2. /\ eng.idx = 0
          /\ \A k \in DOMAIN flash["BL"] :
               SectorOf("BL", k) < eng.step => flash["BL"][k] = "erased"
      BY <1>0, <2>2 DEF BootInv, CopiesBootloader
    <3>3. \A k \in DOMAIN flash["BL"] :
            SectorOf("BL", k) < eng.step + 1 => flash'["BL"][k] = "erased"
      BY <1>0, <3>1, <3>2, SectorType
    <3>4. eng'.step <= BlSectors
      BY <1>2, <2>2 DEF SectorsToErase, SameCopy, Region
    <3>5. BootInv'
      BY <1>2, <3>1, <3>2, <3>3, <3>4 DEF BootInv
    <3> QED
      BY <3>1, <3>5
  <2> QED
    BY <2>1, <2>2
<1> QED
  BY <1>1, <1>2, ErasureEffect

\* When the erasure ends all sectors of the bootloader are erased.
LEMMA BootFinish ==
  ASSUME ControlType, FlashType, BootInv, finishErasure
  PROVE  BootInv' /\ UNCHANGED flash
<1> DEFINE e == PrepareErasure(eng)
<1>0. eng.state \in NorCopies /\ eng.internal # "STEP_2" /\ eng.step \in Nat
  BY DEF finishErasure, Erasing, ControlType, Engines
<1>1. /\ UNCHANGED flash
      /\ \/ Ended
         \/ /\ SameCopy /\ pc' \in {"sleep", "work"}
            /\ eng'.internal = "STEP_2" /\ eng'.idx = eng.idx
            /\ e.step = eng.step /\ e.step >= SectorsToErase(e)
            /\ e.step = SectorsToErase(e) => eng'.flag1 = FALSE
  BY FinishEffect
<1>2. CASE Ended
  BY <1>1, <1>2, InitialIdle, NoBootCopy DEF Ended, NorCopies
<1>3. CASE eng.source # "BOOTLOADER_0" /\ SameCopy
  BY <1>1, <1>3, NoBootCopy DEF SameCopy
<1>4. CASE eng.source = "BOOTLOADER_0" /\ ~Ended
  <2>1. Region(eng) = "BL" /\ e.source = eng.source
    BY <1>4 DEF Region, PrepareErasure, ControlType, Engines
  <2>2. SectorsToErase(e) = BlSectors
    BY <1>4, <2>1 DEF SectorsToErase, Region
  <2>3. BlSectors \in Nat /\ eng.step >= BlSectors
    BY <1>1, <1>4, <2>2, ImageAssumption DEF BlSectors
  <2>4. \A k \in DOMAIN flash["BL"] :
          SectorOf("BL", k) < eng.step => flash["BL"][k] = "erased"
    BY <1>0, <2>1 DEF BootInv, CopiesBootloader
  <2>5. \A k \in DOMAIN flash["BL"] : flash["BL"][k] = "erased"
    BY <1>0, <2>3, <2>4, SectorType
  <2>6. eng.step <= BlSectors
    BY <1>0, <2>1 DEF BootInv, CopiesBootloader
  <2>7. eng'.flag1 = FALSE
    BY <1>0, <1>1, <1>4, <2>2, <2>3, <2>6
  <2> HIDE DEF e
  <2> QED
    BY <1>1, <1>4, <2>5, <2>7 DEF BootInv
<1> QED
  BY <1>1, <1>2, <1>3, <1>4

\* The cell of the next bucket is erased, or holds just this bucket.
LEMMA BootCell ==
  ASSUME ControlType, FlashType, BootInv, BucketRead,
         CopiesBootloader, pc = "file", eng.idx \in DOMAIN flash["BL"]
  PROVE  Program(flash["BL"][eng.idx], imgBuffer') = imgBuffer'
<1>1. eng.idx \in Nat
  BY DEF ControlType, Engines
<1>2. \/ flash["BL"][eng.idx] = "erased"
      \/ eng.flag1 /\ flash["BL"][eng.idx] = imgBuffer
  BY <1>1 DEF BootInv
<1> QED
  BY <1>2 DEF Program, BucketRead

\* A bucket goes into an erased cell, or is what the cell holds already.  The size
\* and the CRC go into an erased cell, or to the end of the last bucket.
LEMMA BootWrite ==
  ASSUME ControlType, FilesType, FlashType, BootInv, BootloaderProgrammedOnce, writeBucket
  PROVE  BootInv' /\ BootloaderProgrammedOnce'
<1>0. /\ DOMAIN flash = {"BL", "OBSW"} /\ eng.idx \in Nat
      /\ eng.state \in NorCopies /\ pc = "file" /\ Address(eng) < Capacity[Region(eng)]
  BY DEF FlashType, Regions, ControlType, Engines, writeBucket, InFile
<1>1. /\ BucketRead
      /\ \/ flash' = ProgrammedFlash
         \/ /\ Ended /\ Region(eng) = "BL"
            /\ flash' = [ProgrammedFlash EXCEPT !["BL"][LastCell] = WithSizeAndCrc(@)]
      /\ \/ Ended
         \/ /\ SameCopy
            /\ eng'.internal = eng.internal /\ eng'.flag1 = FALSE
            /\ eng'.idx = eng.idx + 1
  BY WriteEffect
<1>2. CASE Region(eng) # "BL"
  <2>1. flash'["BL"] = flash["BL"]
    BY <1>0, <1>1, <1>2 DEF ProgrammedFlash
  <2>2. eng'.state \notin NorCopies \/ eng'.source # "BOOTLOADER_0"
    BY <1>1, <1>2, InitialIdle DEF Ended, SameCopy, Region, NorCopies
  <2> QED
    BY <2>1, <2>2, NoBootCopy DEF BootloaderProgrammedOnce
<1>3. CASE Region(eng) = "BL"
  <2> DEFINE f == ProgrammedFlash["BL"]
  <2>1. /\ f = [flash["BL"] EXCEPT ![eng.idx] = Program(@, imgBuffer')]
        /\ eng.idx \in DOMAIN flash["BL"]
        /\ DOMAIN ProgrammedFlash = {"BL", "OBSW"}
    <3>1. eng.idx \in DOMAIN flash["BL"]
      BY <1>0, <1>3, ImageAssumption DEF FlashType, Regions, Address, Capacity
    <3> QED
      BY <1>0, <1>3, <3>1 DEF Address, ProgrammedFlash
  <2>2. CopiesBootloader /\ eng.internal = "STEP_2"
    BY <1>0, <1>3 DEF BootInv, CopiesBootloader
  <2>3. imgBuffer' \in Data /\ imgBuffer' \notin Marks
    BY <1>0, <1>1, <2>2, BufferIsData
  <2>4. /\ f[eng.idx] = imgBuffer'
        /\ DOMAIN f = DOMAIN flash["BL"]
        /\ \A k \in DOMAIN flash["BL"] : k # eng.idx => f[k] = flash["BL"][k]
    BY <1>0, <1>1, <2>1, <2>2, BootCell
  <2> HIDE DEF f
  <2>5. CASE Ended
    <3>1. DOMAIN flash'["BL"] = DOMAIN f
          /\ \A k \in DOMAIN f :
               \/ flash'["BL"][k] = f[k]
               \/ k = LastCell /\ flash'["BL"][k] = WithSizeAndCrc(f[k])
      <4>1. CASE flash' = ProgrammedFlash
        BY <4>1 DEF f
      <4>2. CASE flash' = [ProgrammedFlash EXCEPT !["BL"][LastCell] = WithSizeAndCrc(@)]
        <5>1. flash'["BL"] = [f EXCEPT ![LastCell] = WithSizeAndCrc(@)]
          BY <2>1, <4>2 DEF f
        <5> QED
          BY <5>1
      <4> QED
        BY <1>1, <4>1, <4>2
    <3>2. ASSUME NEW k \in DOMAIN f
          PROVE  f[k] # "mixed"
      BY <2>3, <2>4 DEF BootloaderProgrammedOnce, Marks
    <3>3. ASSUME LastCell \in DOMAIN f
          PROVE  f[LastCell] = "erased" \/ f[LastCell] \in Data
      <4>1. CASE LastCell = eng.idx
        BY <2>3, <2>4, <4>1
      <4>2. CASE LastCell # eng.idx
        <5>1. LastCell >= eng.idx
          BY <1>0, <1>3, ImageAssumption DEF LastCell, Capacity, Address
        <5>2. flash["BL"][LastCell] = "erased"
          BY <2>2, <2>4, <3>3, <4>2, <5>1 DEF BootInv
        <5> QED
          BY <2>4, <3>3, <4>2, <5>2
      <4> QED
        BY <4>1, <4>2
    <3>4. LastCell \in DOMAIN f => WithSizeAndCrc(f[LastCell]) # "mixed"
      BY <3>3, ImageAssumption DEF WithSizeAndCrc, Marks
    <3>5. BootloaderProgrammedOnce'
      BY <3>1, <3>2, <3>4 DEF BootloaderProgrammedOnce
    <3> QED
      BY <2>5, <3>5, InitialIdle, NoBootCopy DEF Ended, NorCopies
  <2>6. CASE SameCopy /\ eng'.internal = eng.internal /\ eng'.flag1 = FALSE
             /\ eng'.idx = eng.idx + 1 /\ flash' = ProgrammedFlash
    <3>1. \A k \in DOMAIN flash["BL"] :
            k >= eng.idx /\ k # eng.idx => flash["BL"][k] = "erased"
      BY <2>2 DEF BootInv
    <3>2. \A k \in DOMAIN flash["BL"] : k >= eng.idx + 1 => flash'["BL"][k] = "erased"
      BY <1>0, <2>4, <2>6, <3>1, SectorType DEF f
    <3>3. BootloaderProgrammedOnce'
      BY <2>3, <2>4, <2>6 DEF BootloaderProgrammedOnce, Marks, f
    <3> QED
      BY <2>2, <2>4, <2>6, <3>2, <3>3 DEF BootInv, f
  <2> QED
    BY <1>1, <2>5, <2>6
<1> QED
  BY <1>2, <1>3

\* A failed write may have programmed the cell; the buffer keeps the bucket.
LEMMA BootWriteFails ==
  ASSUME ControlType, FilesType, FlashType, BootInv, BootloaderProgrammedOnce,
         writeBucketFails
  PROVE  BootInv' /\ BootloaderProgrammedOnce'
<1>0. /\ DOMAIN flash = {"BL", "OBSW"} /\ eng.idx \in Nat
      /\ eng.state \in NorCopies /\ pc = "file" /\ BucketRead
  BY DEF FlashType, Regions, ControlType, Engines, writeBucketFails, InFile
<1>1. Ended \/ (SameProgress /\ eng'.flag1 = TRUE /\ pc' = "sleep")
  BY WriteFailsEffect
<1>2. \/ UNCHANGED flash
      \/ /\ Address(eng) < Capacity[Region(eng)]
         /\ flash' = [flash EXCEPT ![Region(eng)][Address(eng)] = Program(@, imgBuffer')]
  BY DEF writeBucketFails
<1>3. CASE Region(eng) # "BL"
  <2>1. flash'["BL"] = flash["BL"]
    BY <1>0, <1>2, <1>3
  <2>2. eng'.state \notin NorCopies \/ eng'.source # "BOOTLOADER_0"
    BY <1>1, <1>3, InitialIdle DEF Ended, SameProgress, SameCopy, Region, NorCopies
  <2> QED
    BY <2>1, <2>2, NoBootCopy DEF BootloaderProgrammedOnce
<1>4. CASE Region(eng) = "BL"
  <2>1. CopiesBootloader /\ eng.internal = "STEP_2"
    BY <1>0, <1>4 DEF BootInv, CopiesBootloader
  <2>0. imgBuffer' \in Data /\ imgBuffer' # "mixed"
    BY <1>0, <2>1, BufferIsData DEF Marks
  <2>2. /\ DOMAIN flash'["BL"] = DOMAIN flash["BL"]
        /\ \A k \in DOMAIN flash["BL"] : k # eng.idx => flash'["BL"][k] = flash["BL"][k]
        /\ eng.idx \in DOMAIN flash["BL"] =>
             \/ flash'["BL"][eng.idx] = imgBuffer'
             \/ flash'["BL"][eng.idx] = "erased"
    <3>1. CASE UNCHANGED flash
      BY <1>0, <2>1, <3>1 DEF BootInv, BucketRead
    <3>2. CASE flash' = [flash EXCEPT ![Region(eng)][Address(eng)] = Program(@, imgBuffer')]
      <4>1. flash'["BL"] = [flash["BL"] EXCEPT ![eng.idx] = Program(@, imgBuffer')]
        BY <1>0, <1>4, <3>2 DEF Address
      <4> QED
        BY <1>0, <2>1, <4>1, BootCell
    <3> QED
      BY <1>2, <3>1, <3>2
  <2>3. BootloaderProgrammedOnce'
    BY <1>0, <2>0, <2>2 DEF BootloaderProgrammedOnce
  <2>4. CASE Ended
    BY <2>3, <2>4, InitialIdle, NoBootCopy DEF Ended, NorCopies
  <2>5. CASE SameProgress /\ eng'.flag1 = TRUE /\ pc' = "sleep"
    <3>1. \A k \in DOMAIN flash["BL"] :
            k >= eng.idx /\ k # eng.idx => flash["BL"][k] = "erased"
      BY <2>1 DEF BootInv
    <3> QED
      BY <2>0, <2>1, <2>2, <2>3, <2>5, <3>1 DEF BootInv, SameProgress
  <2> QED
    BY <1>1, <2>4, <2>5
<1> QED
  BY <1>3, <1>4

\* Every step keeps BootInv, and the bootloader is programmed once.
LEMMA BootStep ==
  TypeOK /\ IdleEngineIsReset /\ BootInv /\ BootloaderProgrammedOnce /\ [Next]_vars =>
    BootInv' /\ BootloaderProgrammedOnce'
<1> SUFFICES ASSUME TypeOK, IdleEngineIsReset, BootInv, BootloaderProgrammedOnce,
                    [Next]_vars
             PROVE  BootInv' /\ BootloaderProgrammedOnce'
  OBVIOUS
<1>0. /\ ControlType /\ FilesType /\ FlashType /\ RestType
      /\ DOMAIN flash = {"BL", "OBSW"}
  BY TypeParts DEF FlashType, Regions
<1>2. UNCHANGED flash => BootloaderProgrammedOnce'
  BY DEF BootloaderProgrammedOnce
<1>3. CASE executeAction
  BY <1>0, <1>2, <1>3, BootCommand
<1>4. CASE ContinueCopy
  BY <1>2, <1>4 DEF ContinueCopy, BootInv, CopiesBootloader, storageVars
<1>5. CASE handleNorflashErasure
  <2>1. BootloaderProgrammedOnce'
    BY <1>0, <1>5, BootErasure DEF BootloaderProgrammedOnce
  <2> QED
    BY <1>0, <1>5, <2>1, BootErasure
<1>6. CASE finishErasure
  BY <1>0, <1>2, <1>6, BootFinish
<1>7. CASE openForNorFlash
  <2>1. UNCHANGED <<flash, imgBuffer>> /\ (Ended \/ OpenedAt("STEP_2"))
        /\ eng.internal = "STEP_2"
    BY <1>0, <1>7, OpenForNorEffect DEF storageVars, openForNorFlash
  <2>2. CASE Ended
    BY <1>2, <2>1, <2>2, InitialIdle, NoBootCopy DEF Ended, NorCopies
  <2>3. CASE OpenedAt("STEP_2")
    BY <1>2, <2>1, <2>3 DEF OpenedAt, SameCopy, BootInv, CopiesBootloader, Region
  <2> QED
    BY <2>1, <2>2, <2>3
<1>8. CASE readFileFails
  <2>1. /\ UNCHANGED <<flash, imgBuffer>>
        /\ Ended \/ (SameProgress /\ eng'.flag1 = eng.flag1 /\ pc' = "sleep")
    BY <1>0, <1>8, ReadFailsEffect
  <2>2. CASE Ended
    BY <1>2, <2>1, <2>2, InitialIdle, NoBootCopy DEF Ended, NorCopies
  <2>3. CASE SameProgress /\ eng'.flag1 = eng.flag1 /\ pc' = "sleep"
    BY <1>2, <2>1, <2>3
       DEF SameProgress, SameCopy, BootInv, CopiesBootloader, Region
  <2> QED
    BY <2>1, <2>2, <2>3
<1>9. CASE writeBucket
  BY <1>0, <1>9, BootWrite
<1>10. CASE writeBucketFails
  BY <1>0, <1>10, BootWriteFails
<1>11. CASE \/ continueWithoutOperation \/ openForFram \/ openForSdCard
            \/ copyGivesUp \/ writeHammingBucket \/ appendBucket
  <2>1. UNCHANGED flash
    BY <1>0, <1>11, OtherEffect
  <2>2. eng'.state \notin NorCopies
    BY <1>0, <1>11, OtherEffect, InitialIdle DEF Ended, SameCopy, NorCopies
  <2> QED
    BY <1>2, <2>1, <2>2, NoBootCopy
<1>12. CASE Environment
  <2>1. CASE Restart
    BY <1>2, <2>1, InitialIdle, NoBootCopy DEF Restart, storageVars, NorCopies
  <2>2. CASE UNCHANGED <<flash, eng, imgBuffer, pc>>
    BY <1>2, <2>2 DEF BootInv, CopiesBootloader
  <2> QED
    BY <1>12, <2>1, <2>2 DEF Environment, tryActiveSdCardChange, deleteFile,
                             handlerVars, storageVars
<1>13. CASE UNCHANGED vars
  BY <1>2, <1>13 DEF vars, handlerVars, storageVars, BootInv, CopiesBootloader
<1> QED
  BY <1>3, <1>4, <1>5, <1>6, <1>7, <1>8, <1>9, <1>10, <1>11, <1>12, <1>13
     DEF Next, performOperation, Engine

\* The bootloader is only ever programmed into erased cells, or a cell once more
\* with the bucket it holds, whatever commands, failures and restarts come between
\* its buckets.
THEOREM BootloaderIsProgrammedOnce == Spec => []BootloaderProgrammedOnce
BY TypeInit, TypeStep, IdleInit, IdleStep, BootInit, BootStep, PTL DEF Spec

-------------------------------------------------------------------------------
(* A finished copy is a copy *)

\* The source file of the copy.
Known == BinaryFile(eng) \in DOMAIN files
Source == files[BinaryFile(eng)]

\* The last OBSW sector is never erased.
NeverErased(r, k) == r = "OBSW" /\ SectorOf(r, k) = ObswSectors - 1

\* The erasure has erased the sectors before this step.
Erased(r, step) ==
  \A k \in DOMAIN flash[r] :
    SectorOf(r, k) < step /\ ~NeverErased(r, k) => flash[r][k] = "erased"

\* The first n buckets of the source are programmed, the others still erased.
Programmed(r, n) ==
  \A k \in DOMAIN flash[r] :
    ~NeverErased(r, k) => flash[r][k] = IF k < n THEN Source[k + 1] ELSE "erased"

NorProgress ==
  LET r == Region(eng)
  IN /\ eng.internal = "IDLE" => eng.step = 0 /\ eng.idx = 0 /\ ~eng.flag1
     /\ eng.internal = "STEP_1" =>
          /\ eng.idx = 0 /\ eng.flag1
          /\ r = "OBSW" => eng.counter1 = ObswSectors
          /\ eng.step <= SectorsToErase(eng)
          /\ Erased(r, eng.step)
     /\ eng.internal = "STEP_2" =>
          /\ eng.step = eng.idx /\ ~eng.flag1
          /\ eng.idx > 0 =>
               /\ Known /\ eng.size = Len(Source)
               /\ framSize[r] = eng.size
          /\ Programmed(r, eng.idx)
     /\ pc = "file" => eng.internal = "STEP_2"

\* The target is the beginning of the source.
SdcProgress ==
  /\ eng.source \in SdcSlots
  /\ eng.step = eng.idx
  /\ eng.idx > 0 \/ pc = "file" =>
       /\ Known /\ eng.size = Len(Source)
       /\ TargetFile(eng) \in DOMAIN files
       /\ files[TargetFile(eng)] = SubSeq(Source, 1, eng.idx)

HammingProgress ==
  /\ eng.source \in SdcSlots \cup {"FLASH"}
  /\ eng.step = 0
  /\ eng.idx > 0 => Known /\ eng.idx < Len(Source)
  /\ pc = "file" => framHam[FramSlot(eng)].size = eng.size

\* How far a copy is that met no second command, no change on the SD cards and no
\* failed write.  An open file is at the bucket of the engine.
CopyInv ==
  clean /\ handlerState = "COPYING" =>
    /\ eng.state \in NorCopies => NorProgress
    /\ eng.state = "COPY_IMG_SDC_TO_SDC" => SdcProgress
    /\ eng.state = "COPY_IMG_HAMMING_SDC_TO_FRAM" => HammingProgress
    /\ pc = "file" => Known /\ eng.size = Len(Source) /\ filePos = eng.idx

\* No copy is under way at the start.
LEMMA CopyInit == Init => CopyInv /\ FaithfulCopy
BY DEF Init, CopyInv, FaithfulCopy, NoResult

\* A copy that has ended or is disturbed leaves nothing to show.
LEMMA EndedCopy ==
  ASSUME Ended \/ handlerState' = "IDLE" \/ ~clean'
  PROVE  CopyInv' /\ (NotFinished \/ ~clean' => FaithfulCopy')
BY DEF Ended, CopyInv, NotFinished, FaithfulCopy

\* A step that finishes no copy cannot finish an unfaithful one.
LEMMA NotFinishedCopy == NotFinished => FaithfulCopy'
BY DEF NotFinished, FaithfulCopy

\* A first command starts from the beginning.
LEMMA CopyCommand ==
  ASSUME ControlType, IdleEngineIsReset, executeAction
  PROVE  CopyInv' /\ FaithfulCopy'
<1>0. eng \in Engines
  BY DEF ControlType
<1>1. /\ pc' = "messages" /\ result' = NoResult /\ clean' = (handlerState = "IDLE")
  BY DEF executeAction, handleCopyingSdcBlToFlash, handleCopyingSdcImgToFlash,
         handleCopyingSdcToSdc, handleCopyingHammingToStorage, Accept
<1>2. NotFinished
  BY <1>1 DEF NotFinished, NoResult
<1>3. CASE handlerState # "IDLE"
  BY <1>1, <1>2, <1>3, EndedCopy
<1>4. CASE handlerState = "IDLE"
  <2>0. eng = InitialEngine
    BY <1>4 DEF IdleEngineIsReset
  <2>1. /\ eng'.internal = eng.internal /\ eng'.step = eng.step /\ eng'.idx = eng.idx
        /\ eng'.flag1 = eng.flag1
        /\ eng'.state = "COPY_IMG_SDC_TO_SDC" => eng'.source \in SdcSlots
        /\ eng'.state = "COPY_IMG_HAMMING_SDC_TO_FRAM" =>
             eng'.source \in SdcSlots \cup {"FLASH"}
    <3>1. ASSUME NEW fromFram \in BOOLEAN, handleCopyingSdcBlToFlash(fromFram) PROVE <2>1
      BY <1>0, <3>1 DEF handleCopyingSdcBlToFlash, Accept, Engines
    <3>2. ASSUME NEW slot \in SdcSlots, handleCopyingSdcImgToFlash(slot) PROVE <2>1
      BY <1>0, <3>2 DEF handleCopyingSdcImgToFlash, Accept, Engines
    <3>3. ASSUME NEW slot \in SdcSlots, handleCopyingSdcToSdc(slot) PROVE <2>1
      BY <1>0, <3>3 DEF handleCopyingSdcToSdc, Accept, Engines
    <3>4. ASSUME NEW slot \in SdcSlots \cup {"FLASH", "BOOTLOADER_0", "BOOTLOADER_1"},
                 handleCopyingHammingToStorage(slot)
          PROVE  <2>1
      <4>1. CASE slot = "BOOTLOADER_1"
        <5>1. eng' = eng
          BY <3>4, <4>1 DEF handleCopyingHammingToStorage, Accept
        <5> QED
          BY <2>0, <5>1, InitialIdle
      <4>2. CASE slot # "BOOTLOADER_1"
        BY <1>0, <3>4, <4>2 DEF handleCopyingHammingToStorage, Accept, Engines
      <4> QED
        BY <4>1, <4>2
    <3> QED
      BY <3>1, <3>2, <3>3, <3>4 DEF executeAction
  <2>2. /\ eng'.internal = "IDLE" /\ eng'.step = 0 /\ eng'.idx = 0 /\ ~eng'.flag1
    BY <2>0, <2>1, InitialIdle
  <2>3. NorProgress'
    BY <1>1, <2>2 DEF NorProgress
  <2>4. eng'.state = "COPY_IMG_SDC_TO_SDC" => SdcProgress'
    BY <1>1, <2>1, <2>2 DEF SdcProgress
  <2>5. eng'.state = "COPY_IMG_HAMMING_SDC_TO_FRAM" => HammingProgress'
    BY <1>1, <2>1, <2>2 DEF HammingProgress
  <2> QED
    BY <1>1, <1>2, <2>3, <2>4, <2>5, NotFinishedCopy DEF CopyInv
<1> QED
  BY <1>3, <1>4

\* Every bucket lies in a sector that is erased, unless it is the last one.
LEMMA DivBound ==
  ASSUME NEW b \in Nat \ {0}, NEW n \in Nat \ {0}, NEW k \in 0..(n * b - 1)
  PROVE  k \div b \in 0..(n - 1)
<1>1. /\ k = b * (k \div b) + (k % b)
      /\ k % b \in 0..(b - 1) /\ k \div b \in Int
  BY SMT
<1> QED
  BY <1>1, SMT

\* An index below the last block is not in the last block.
LEMMA DivLast ==
  ASSUME NEW b \in Nat \ {0}, NEW n \in Nat \ {0}, NEW k \in Nat, k < n * b - b
  PROVE  k \div b # n - 1
<1>1. /\ k = b * (k \div b) + (k % b)
      /\ k % b \in 0..(b - 1) /\ k \div b \in Int
  BY SMT
<1> QED
  BY <1>1, SMT

\* The cells of a region, their sectors, and those that are erased.
LEMMA Cells ==
  ASSUME FlashType, NEW r \in Regions
  PROVE  /\ DOMAIN flash[r] = 0..(Capacity[r] - 1)
         /\ Capacity[r] \in Nat
         /\ \A k \in DOMAIN flash[r] :
              /\ k \in Nat /\ SectorOf(r, k) \in Nat
              /\ SectorOf(r, k) < (IF r = "BL" THEN BlSectors ELSE ObswSectors)
              /\ r = "OBSW" /\ k < Capacity[r] - BucketsPerSector => ~NeverErased(r, k)
<1>1. DOMAIN flash[r] = 0..(Capacity[r] - 1)
  BY DEF FlashType
<1>2. Capacity["BL"] = SmallSectors + BucketsPerSector
      /\ Capacity["OBSW"] = ObswSectors * BucketsPerSector
  BY DEF Capacity
<1>3. SmallSectors + BucketsPerSector \in Nat /\ ObswSectors * BucketsPerSector \in Nat
  BY ImageAssumption
<1>4. r = "BL" \/ r = "OBSW"
  BY DEF Regions
<1>5. ASSUME NEW k \in 0..(Capacity["BL"] - 1), r = "BL"
      PROVE  k \in Nat /\ SectorOf(r, k) \in Nat /\ SectorOf(r, k) < BlSectors
  BY <1>5, ImageAssumption DEF SectorOf, BlSectors
<1>6. ASSUME NEW k \in 0..(ObswSectors * BucketsPerSector - 1), r = "OBSW"
      PROVE  /\ k \in Nat /\ SectorOf(r, k) \in Nat /\ SectorOf(r, k) < ObswSectors
             /\ k < ObswSectors * BucketsPerSector - BucketsPerSector => ~NeverErased(r, k)
  <2>1. SectorOf(r, k) = k \div BucketsPerSector
    BY <1>6 DEF SectorOf
  <2>2. BucketsPerSector \in Nat \ {0} /\ ObswSectors \in Nat \ {0}
    BY ImageAssumption
  <2>3. k \div BucketsPerSector \in 0..(ObswSectors - 1)
    BY <2>2, DivBound
  <2>4. ASSUME k < ObswSectors * BucketsPerSector - BucketsPerSector
        PROVE  k \div BucketsPerSector # ObswSectors - 1
    <3>1. k \in Nat
      BY <2>2
    <3> QED
      BY <2>2, <2>4, <3>1, DivLast
  <2> QED
    BY <2>1, <2>2, <2>3, <2>4 DEF NeverErased
<1> QED
  BY <1>1, <1>2, <1>3, <1>4, <1>5, <1>6

\* A copy that is as it should be so far.
GoodCopy ==
  /\ ControlType /\ FilesType /\ FlashType /\ FramType /\ RestType
  /\ CopyInv /\ clean /\ handlerState = "COPYING"

\* An erased sector is one more sector behind the engine's step.
LEMMA CopyErasure ==
  ASSUME GoodCopy, handleNorflashErasure
  PROVE  CopyInv' /\ NotFinished
<1> DEFINE r == Region(eng)
<1>0. /\ eng.state \in NorCopies /\ eng.internal \in {"IDLE", "STEP_1"}
      /\ eng.step \in Nat /\ r \in Regions /\ DOMAIN flash = Regions
      /\ ControlType /\ FlashType
      /\ eng.state # "COPY_IMG_SDC_TO_SDC" /\ eng.state # "COPY_IMG_HAMMING_SDC_TO_FRAM"
  BY DEF GoodCopy, ControlType, FlashType, Engines, handleNorflashErasure, Erasing,
         NorCopies, Region, Regions
<1>1. NorProgress
  BY <1>0 DEF GoodCopy, CopyInv
<1>2. /\ eng.idx = 0 /\ Erased(r, eng.step)
      /\ r = "OBSW" /\ eng.flag1 => eng.counter1 = ObswSectors
  <2>1. CASE eng.internal = "STEP_1"
    BY <1>1, <2>1 DEF NorProgress
  <2>2. CASE eng.internal = "IDLE"
    <3>1. eng.step = 0 /\ eng.idx = 0 /\ ~eng.flag1
      BY <1>1, <2>2 DEF NorProgress
    <3>2. Erased(r, 0)
      BY <1>0, Cells DEF Erased
    <3> QED
      BY <3>1, <3>2
  <2> QED
    BY <1>0, <2>1, <2>2
<1>3. NotFinished /\ (Ended =>  CopyInv')
  BY <1>0, ErasureEffect, EndedCopy
<1>4. CASE /\ SameCopy /\ pc' \in {"sleep", "work"}
           /\ eng'.internal = "STEP_1" /\ eng'.flag1 = TRUE
           /\ eng'.idx = eng.idx /\ eng'.step = eng.step + 1
           /\ r = "OBSW" =>
                eng'.counter1 = IF eng.flag1 THEN eng.counter1 ELSE ObswSectors
           /\ eng'.step <= SectorsToErase(eng')
           /\ flash' = [flash EXCEPT ![r] =
                [k \in DOMAIN @ |->
                   IF SectorOf(r, k) = ErasedSector(r, eng.step)
                   THEN "erased" ELSE @[k]]]
  <2>1. Region(eng)' = r
    BY <1>4 DEF SameCopy, Region
  <2>2. /\ DOMAIN flash'[r] = DOMAIN flash[r]
        /\ \A k \in DOMAIN flash[r] :
             flash'[r][k] = IF SectorOf(r, k) = ErasedSector(r, eng.step)
                            THEN "erased" ELSE flash[r][k]
    BY <1>0, <1>4
  <2>3. ASSUME NEW k \in DOMAIN flash[r], SectorOf(r, k) < eng.step + 1, ~NeverErased(r, k)
        PROVE  flash'[r][k] = "erased"
    <3>1. SectorOf(r, k) \in Nat
      BY <1>0, Cells
    <3>2. CASE SectorOf(r, k) = eng.step
      <4>1. ErasedSector(r, eng.step) = eng.step
        BY <2>3, <3>2 DEF ErasedSector, NeverErased
      <4> QED
        BY <2>2, <3>2, <4>1
    <3>3. CASE SectorOf(r, k) # eng.step
      <4>1. SectorOf(r, k) < eng.step
        BY <1>0, <2>3, <3>1, <3>3
      <4>2. flash[r][k] = "erased"
        BY <1>2, <2>3, <4>1 DEF Erased
      <4> QED
        BY <2>2, <4>2
    <3> QED
      BY <3>2, <3>3
  <2>4. Erased(r, eng.step)'
    BY <1>4, <2>1, <2>2, <2>3 DEF Erased, NeverErased
  <2>5. NorProgress'
    BY <1>2, <1>4, <2>1, <2>4 DEF NorProgress
  <2> QED
    BY <1>0, <1>3, <1>4, <2>5 DEF CopyInv, SameCopy
<1> QED
  BY <1>0, <1>3, <1>4, ErasureEffect

\* At the end of the erasure the region is erased and no bucket is programmed.
LEMMA CopyFinish ==
  ASSUME GoodCopy, finishErasure
  PROVE  CopyInv' /\ NotFinished
<1> DEFINE r == Region(eng)
           e == PrepareErasure(eng)
<1>0. /\ eng.state \in NorCopies /\ eng.internal \in {"IDLE", "STEP_1"}
      /\ eng.step \in Nat /\ r \in Regions
      /\ ControlType /\ FlashType /\ UNCHANGED <<flash, framSize, files, card>>
      /\ eng.state # "COPY_IMG_SDC_TO_SDC" /\ eng.state # "COPY_IMG_HAMMING_SDC_TO_FRAM"
  BY DEF GoodCopy, ControlType, Engines, finishErasure, Erasing,
         NorCopies, Region, Regions, storageVars, sdVars
<1>1. NorProgress
  BY <1>0 DEF GoodCopy, CopyInv
<1>2. /\ NotFinished
      /\ \/ Ended
         \/ /\ SameCopy /\ pc' \in {"sleep", "work"}
            /\ eng'.internal = "STEP_2" /\ eng'.idx = eng.idx
            /\ e.step = eng.step /\ e.step >= SectorsToErase(e)
            /\ e.step = SectorsToErase(e) => eng'.step = 0 /\ eng'.flag1 = FALSE
  BY <1>0, FinishEffect
<1>3. CASE Ended
  BY <1>2, <1>3, EndedCopy
<1>4. CASE ~Ended
  <2> DEFINE sectors == IF r = "BL" THEN BlSectors ELSE ObswSectors
  <2>0. sectors \in Nat /\ sectors > 0
    BY ImageAssumption DEF BlSectors
  <2>1. /\ (eng.flag1 /\ eng.counter1 = ObswSectors) \/ ~eng.flag1 \/ r = "BL"
        /\ eng.step <= sectors /\ eng.idx = 0 /\ Erased(r, eng.step)
    <3>1. CASE eng.internal = "STEP_1"
      BY <1>0, <1>1, <3>1 DEF NorProgress, SectorsToErase, Regions
    <3>2. CASE eng.internal = "IDLE"
      <4>1. eng.step = 0 /\ eng.idx = 0 /\ ~eng.flag1
        BY <1>1, <3>2 DEF NorProgress
      <4>2. Erased(r, 0)
        BY <1>0, Cells DEF Erased
      <4> QED
        BY <2>0, <4>1, <4>2
    <3> QED
      BY <1>0, <3>1, <3>2
  <2>2. SectorsToErase(e) = sectors
    <3>1. eng \in Engines
      BY <1>0 DEF ControlType
    <3>2. Region(e) = r
      BY <3>1 DEF PrepareErasure, Engines, Region
    <3>3. r # "BL" => e.counter1 = ObswSectors
      BY <2>1, <3>1 DEF PrepareErasure, Engines
    <3> HIDE DEF e, r
    <3> QED
      BY <3>2, <3>3 DEF SectorsToErase
  <2> HIDE DEF sectors
  <2>3. eng.step = sectors /\ eng'.step = 0 /\ eng'.flag1 = FALSE /\ eng'.idx = 0
    BY <1>0, <1>2, <1>4, <2>0, <2>1, <2>2
  <2>4. \A k \in DOMAIN flash[r] : k \in Nat /\ SectorOf(r, k) < sectors
    BY <1>0, Cells DEF sectors
  <2>5. \A k \in DOMAIN flash[r] : ~NeverErased(r, k) => flash[r][k] = "erased"
    BY <2>1, <2>3, <2>4 DEF Erased
  <2>6. Region(eng)' = r
    BY <1>2, <1>4 DEF SameCopy, Region
  <2>7. Programmed(Region(eng), 0)'
    BY <1>0, <2>4, <2>5, <2>6 DEF Programmed, NeverErased
  <2>8. NorProgress'
    BY <1>2, <1>4, <2>3, <2>7 DEF NorProgress
  <2> QED
    BY <1>0, <1>2, <1>4, <2>8 DEF CopyInv, SameCopy
<1> QED
  BY <1>3, <1>4

\* The source file is opened where the copy has come to.
LEMMA CopyOpenNor ==
  ASSUME GoodCopy, openForNorFlash
  PROVE  CopyInv' /\ NotFinished
<1>0. /\ eng.state \in NorCopies /\ eng.internal = "STEP_2"
      /\ eng.idx \in Nat
      /\ ControlType /\ FlashType /\ UNCHANGED <<flash, framSize, files, card>>
      /\ eng.state # "COPY_IMG_SDC_TO_SDC" /\ eng.state # "COPY_IMG_HAMMING_SDC_TO_FRAM"
  BY DEF GoodCopy, ControlType, Engines, openForNorFlash, NorCopies, storageVars, sdVars
<1>1. NorProgress
  BY <1>0 DEF GoodCopy, CopyInv
<1>2. NotFinished /\ (Ended \/ OpenedAt("STEP_2"))
  BY <1>0, OpenForNorEffect
<1>3. CASE Ended
  BY <1>2, <1>3, EndedCopy
<1>4. CASE OpenedAt("STEP_2")
  <2>1. /\ Region(eng)' = Region(eng) /\ BinaryFile(eng)' = BinaryFile(eng)
        /\ Source' = Source /\ Known'
    BY <1>0, <1>4 DEF OpenedAt, SameCopy, Region, BinaryFile, Source, Known
  <2>2. eng.step = eng.idx /\ ~eng.flag1 /\ Programmed(Region(eng), eng.idx)
        /\ (eng.idx > 0 => eng.size = Len(Source) /\ framSize[Region(eng)] = eng.size)
    BY <1>0, <1>1 DEF NorProgress
  <2>3. eng'.size = Len(Source)
    BY <1>0, <1>4, <2>2 DEF OpenedAt, Source
  <2>4. eng'.idx = eng.idx
    BY <1>4 DEF OpenedAt
  <2>5. Programmed(Region(eng), eng.idx)'
    BY <1>0, <2>1, <2>2, <2>4 DEF Programmed, NeverErased
  <2>6. NorProgress'
    BY <1>0, <1>4, <2>1, <2>2, <2>3, <2>4, <2>5 DEF NorProgress, OpenedAt
  <2> QED
    BY <1>0, <1>2, <1>4, <2>1, <2>3, <2>6 DEF CopyInv, OpenedAt, SameCopy
<1> QED
  BY <1>2, <1>3, <1>4

\* A failed read leaves the copy where it was.
LEMMA CopyReadFails ==
  ASSUME GoodCopy, readFileFails
  PROVE  CopyInv' /\ NotFinished
<1>0. /\ eng.state \in NorCopies \cup {"COPY_IMG_SDC_TO_SDC"}
      /\ eng.idx \in Nat /\ pc = "file" /\ UNCHANGED <<card, framHam>>
      /\ ControlType /\ SizeMayBeRecorded
      /\ eng.state # "COPY_IMG_HAMMING_SDC_TO_FRAM"
      /\ "COPY_IMG_SDC_TO_SDC" \notin NorCopies
  BY DEF GoodCopy, ControlType, Engines, readFileFails, InFile, NorCopies, sdVars
<1>1. /\ NotFinished /\ UNCHANGED <<flash, files, imgBuffer>>
      /\ \/ Ended
         \/ SameProgress /\ eng'.flag1 = eng.flag1 /\ pc' = "sleep"
  BY <1>0, ReadFailsEffect
<1>2. CASE Ended
  BY <1>1, <1>2, EndedCopy
<1>3. CASE SameProgress /\ eng'.flag1 = eng.flag1 /\ pc' = "sleep"
  <2>1. /\ Region(eng)' = Region(eng) /\ BinaryFile(eng)' = BinaryFile(eng)
        /\ TargetFile(eng)' = TargetFile(eng)
        /\ Source' = Source /\ Known' = Known
    BY <1>0, <1>1, <1>3 DEF SameProgress, SameCopy, Region, BinaryFile, TargetFile,
                            Source, Known
  <2>2. CASE eng.state \in NorCopies
    <3>1. NorProgress /\ eng.internal = "STEP_2"
      BY <1>0, <2>2 DEF GoodCopy, CopyInv, NorProgress
    <3>2. eng.step = eng.idx /\ ~eng.flag1 /\ Programmed(Region(eng), eng.idx)
          /\ (eng.idx > 0 => Known /\ eng.size = Len(Source)
                             /\ framSize[Region(eng)] = eng.size)
      BY <3>1 DEF NorProgress
    <3>3. eng.idx > 0 => UNCHANGED framSize
      BY <1>0, <3>2 DEF SizeMayBeRecorded, FirstBucket
    <3>4. eng'.idx = eng.idx /\ eng'.size = eng.size /\ eng'.step = eng.step
          /\ eng'.internal = "STEP_2" /\ eng'.state = eng.state
      BY <1>3, <3>1 DEF SameProgress, SameCopy
    <3>5. Programmed(Region(eng), eng.idx)'
      BY <1>1, <2>1, <3>2, <3>4 DEF Programmed, NeverErased
    <3>6. NorProgress'
      BY <1>3, <2>1, <3>2, <3>3, <3>4, <3>5 DEF NorProgress
    <3> QED
      BY <1>0, <1>1, <1>3, <2>2, <3>4, <3>6 DEF CopyInv
  <2>3. CASE eng.state = "COPY_IMG_SDC_TO_SDC"
    <3>1. SdcProgress
      BY <2>3 DEF GoodCopy, CopyInv
    <3>2. SdcProgress'
      BY <1>1, <1>3, <2>1, <3>1 DEF SdcProgress, SameProgress, SameCopy
    <3> QED
      BY <1>0, <1>1, <1>3, <2>3, <3>2 DEF CopyInv, SameProgress, SameCopy
  <2> QED
    BY <1>0, <2>2, <2>3
<1> QED
  BY <1>1, <1>2, <1>3

\* The next bucket of the source is programmed, and with the first one the size is
\* recorded.
LEMMA CopyWrite ==
  ASSUME GoodCopy, writeBucket, clean'
  PROVE  CopyInv' /\ FaithfulCopy'
<1> DEFINE r == Region(eng)
<1>0. /\ eng.state \in NorCopies /\ pc = "file" /\ eng.size # 0
      /\ Address(eng) < Capacity[r] /\ BucketRead
      /\ eng.idx \in Nat /\ r \in Regions
      /\ ControlType /\ FlashType /\ FilesType /\ FramType /\ UNCHANGED <<files, card>>
      /\ eng.state # "COPY_IMG_SDC_TO_SDC" /\ eng.state # "COPY_IMG_HAMMING_SDC_TO_FRAM"
  BY DEF GoodCopy, ControlType, Engines, writeBucket, InFile, NorCopies, sdVars,
         Region, Regions
<1>1. /\ NorProgress /\ Known /\ eng.size = Len(Source) /\ filePos = eng.idx
      /\ eng.internal = "STEP_2"
  BY <1>0 DEF GoodCopy, CopyInv, NorProgress
<1>2. /\ eng.step = eng.idx /\ ~eng.flag1 /\ Programmed(r, eng.idx)
      /\ eng.idx > 0 => framSize[r] = eng.size
  BY <1>1 DEF NorProgress
<1>3. /\ Address(eng) = eng.idx /\ eng.idx \in DOMAIN flash[r]
      /\ DOMAIN flash[r] = 0..(Capacity[r] - 1) /\ Capacity[r] \in Nat
  <2>1. Address(eng) = eng.idx
    BY <1>2 DEF Address
  <2> QED
    BY <1>0, <2>1, Cells
<1>4. /\ eng.idx + 1 <= Len(Source) /\ Len(Source) \in Nat
      /\ imgBuffer' = Source[eng.idx + 1]
  <2>1. ReadNext
    BY <1>0, <1>2 DEF BucketRead
  <2>2. Source \in Seq(Data)
    BY <1>0, <1>1 DEF FilesType, Known, Source
  <2>3. eng.idx < Len(Source)
    BY <1>1, <2>1 DEF ReadNext, FileSize, Known, Source
  <2> QED
    BY <1>0, <1>1, <2>1, <2>2, <2>3, LenProperties DEF ReadNext, Source
<1>5. framSize'[r] = eng.size
  <2>1. CASE FirstBucket
    <3>1. framSize' = [framSize EXCEPT ![r] = eng.size]
      BY <2>1 DEF writeBucket, RecordSize
    <3> QED
      BY <1>0, <3>1 DEF FramType
  <2>2. CASE ~FirstBucket
    <3>1. eng.idx > 0
      BY <1>0, <1>2, <2>2 DEF FirstBucket
    <3>2. UNCHANGED framSize
      BY <2>2 DEF writeBucket
    <3> QED
      BY <1>2, <3>1, <3>2
  <2> QED
    BY <2>1, <2>2
<1>6. /\ ProgrammedFlash = [flash EXCEPT ![r][eng.idx] = Program(@, Source[eng.idx + 1])]
      /\ DOMAIN flash = Regions
      /\ \/ flash' = ProgrammedFlash
         \/ /\ Ended /\ r = "BL"
            /\ flash' = [ProgrammedFlash EXCEPT !["BL"][LastCell] = WithSizeAndCrc(@)]
  BY <1>0, <1>3, <1>4, WriteEffect DEF FlashType, ProgrammedFlash
<1> DEFINE f == ProgrammedFlash
<1>7. /\ DOMAIN f[r] = DOMAIN flash[r]
      /\ \A k \in DOMAIN flash[r] : ~NeverErased(r, k) =>
           f[r][k] = IF k < eng.idx + 1 THEN Source[k + 1] ELSE "erased"
  <2>1. DOMAIN f[r] = DOMAIN flash[r]
    BY <1>0, <1>6
  <2>2. ASSUME NEW k \in DOMAIN flash[r], ~NeverErased(r, k)
        PROVE  f[r][k] = IF k < eng.idx + 1 THEN Source[k + 1] ELSE "erased"
    <3>1. flash[r][k] = IF k < eng.idx THEN Source[k + 1] ELSE "erased"
      BY <1>2, <2>2 DEF Programmed
    <3>2. k \in Nat
      BY <1>3
    <3>3. CASE k = eng.idx
      <4>1. f[r][k] = Program(flash[r][k], Source[k + 1])
        BY <1>0, <1>6, <2>2, <3>3
      <4>2. flash[r][k] = "erased"
        BY <1>0, <3>1, <3>3
      <4> QED
        BY <1>0, <3>3, <4>1, <4>2 DEF Program
    <3>4. CASE k # eng.idx
      <4>1. f[r][k] = flash[r][k]
        BY <1>0, <1>6, <2>2, <3>4
      <4> QED
        BY <1>0, <3>1, <3>2, <3>4, <4>1
    <3> QED
      BY <3>3, <3>4
  <2> QED
    BY <2>1, <2>2
<1>8. \/ /\ Ended /\ eng.idx + 1 >= eng.size
         /\ result'.eng.state = eng.state /\ result'.eng.source = eng.source
         /\ result'.eng.hamming = eng.hamming
      \/ /\ NotFinished /\ SameCopy /\ eng.idx + 1 < eng.size
         /\ eng'.internal = eng.internal /\ eng'.flag1 = FALSE
         /\ eng'.step = eng.step + 1 /\ eng'.idx = eng.idx + 1
         /\ eng'.size = eng.size
         /\ \/ pc' = "sleep"
            \/ pc' = "file" /\ filePos' = IF eng.flag1 THEN filePos ELSE filePos + 1
  BY <1>0, WriteEffect
<1> HIDE DEF f
<1>9. CASE NotFinished /\ SameCopy /\ eng'.idx = eng.idx + 1
  <2>1. /\ Region(eng)' = r /\ BinaryFile(eng)' = BinaryFile(eng)
        /\ Source' = Source /\ Known'
    BY <1>0, <1>1, <1>9 DEF SameCopy, Region, BinaryFile, Source, Known
  <2>2. flash' = f
    BY <1>0, <1>6, <1>9, InitialIdle DEF Ended, f
  <2> HIDE DEF r
  <2>4. Programmed(Region(eng), eng.idx)'
    BY <1>7, <1>9, <2>1, <2>2 DEF Programmed, NeverErased
  <2> USE DEF r
  <2>3. /\ eng'.internal = eng.internal /\ eng'.flag1 = FALSE
        /\ eng'.step = eng.step + 1 /\ eng'.size = eng.size
        /\ pc' = "sleep" \/ (pc' = "file" /\ filePos' = filePos + 1)
    BY <1>2, <1>8, <1>9, InitialIdle, <1>0 DEF Ended
  <2>5. NorProgress'
    BY <1>0, <1>1, <1>2, <1>5, <1>9, <2>1, <2>3, <2>4 DEF NorProgress
  <2>6. CopyInv'
    BY <1>0, <1>1, <1>9, <2>1, <2>3, <2>5 DEF CopyInv, SameCopy
  <2> QED
    BY <1>9, <2>6, NotFinishedCopy
<1>10. CASE /\ Ended /\ eng.idx + 1 >= eng.size
            /\ result'.eng.state = eng.state /\ result'.eng.source = eng.source
            /\ result'.eng.hamming = eng.hamming
  <2> DEFINE e == result'.eng
  <2>1. eng.idx + 1 = Len(Source)
    BY <1>0, <1>1, <1>4, <1>10
  <2>2. Region(result.eng)' = r /\ files'[BinaryFile(result.eng)'] = Source
    BY <1>0, <1>10 DEF Region, BinaryFile, Source
  <2>3. ASSUME r = "OBSW" => Len(Source) <= Capacity[r] - BucketsPerSector,
               r = "BL" => ~ReachesSizeAndCrc(Source),
               NEW k \in 1..Len(Source)
        PROVE  flash'[r][k - 1] = Source[k]
    <3>1. k - 1 \in DOMAIN flash[r] /\ k - 1 < eng.idx + 1 /\ k - 1 + 1 = k
      BY <1>0, <1>3, <2>1, <2>3
    <3>2. ~NeverErased(r, k - 1)
      <4>1. CASE r = "OBSW"
        <5>1. k - 1 < Capacity[r] - BucketsPerSector
          BY <1>3, <1>4, <2>3, <4>1, ImageAssumption
        <5> QED
          BY <1>0, <3>1, <4>1, <5>1, Cells
      <4>2. CASE r # "OBSW"
        BY <4>2 DEF NeverErased
      <4> QED
        BY <4>1, <4>2
    <3>3. f[r][k - 1] = Source[k]
      BY <1>7, <3>1, <3>2
    <3>4. CASE flash' = f
      BY <3>3, <3>4
    <3>5. CASE r = "BL" /\ flash' = [f EXCEPT !["BL"][LastCell] = WithSizeAndCrc(@)]
      <4>1. CASE k - 1 = LastCell
        <5>1. Len(Source) = Capacity["BL"] /\ k = Len(Source)
          BY <1>3, <1>4, <2>1, <3>1, <3>5, <4>1 DEF LastCell
        <5>2. Source[k] \in Data
          BY <1>0, <1>1, <1>4, ElementOfSeq DEF FilesType, Known, Source
        <5>3. WithSizeAndCrc(Source[k]) = Source[k]
          BY <2>3, <3>5, <5>1, <5>2, ImageAssumption
             DEF ReachesSizeAndCrc, WithSizeAndCrc, Marks
        <5>4. r \in DOMAIN f /\ LastCell \in DOMAIN f[r]
          BY <1>0, <1>6, <1>7, <3>1, <4>1 DEF f
        <5> QED
          BY <3>3, <3>5, <4>1, <5>3, <5>4
      <4>2. CASE k - 1 # LastCell
        BY <3>3, <3>5, <4>2
      <4> QED
        BY <4>1, <4>2
    <3> QED
      BY <1>6, <3>4, <3>5 DEF f
  <2>4. FaithfulCopy'
    BY <1>0, <1>1, <1>5, <1>10, <2>2, <2>3 DEF FaithfulCopy
  <2> QED
    BY <1>10, <2>4, EndedCopy
<1> QED
  BY <1>8, <1>9, <1>10

\* The slot of the FRAM that the hamming code is for exists.
LEMMA SlotType ==
  ASSUME RestType, NEW e, e.source \in SdcSlots \cup {"FLASH"}
  PROVE  FramSlot(e) \in FramSlots
BY DEF RestType, Cards, SdcSlots, FramSlot, FramSlots

\* The hamming code is opened at the bucket of the engine, its size recorded.
LEMMA CopyOpenFram ==
  ASSUME GoodCopy, openForFram
  PROVE  CopyInv' /\ NotFinished
<1> DEFINE d == [eng EXCEPT !.internal = "STEP_1"]
           e == CacheSize(d)
           s == FramSlot(eng)
<1>0. /\ eng \in Engines /\ eng.state = "COPY_IMG_HAMMING_SDC_TO_FRAM"
      /\ UNCHANGED <<card, files, clean>> /\ FramType /\ FilesType /\ RestType
      /\ eng.state \notin NorCopies
  BY DEF GoodCopy, ControlType, openForFram, sdVars, NorCopies
<1>1. HammingProgress
  BY <1>0 DEF GoodCopy, CopyInv
<1>2. /\ d \in Engines /\ d.state = eng.state /\ d.source = eng.source
      /\ d.hamming = eng.hamming /\ d.step = eng.step /\ d.idx = eng.idx
  BY <1>0 DEF Engines
<1>3. \/ /\ Open(e)
         /\ framHam' = IF e.step = 0
                       THEN [framHam EXCEPT ![FramSlot(e)].size = e.size]
                       ELSE framHam
      \/ Return("FRAM_ISSUE", e) \/ OpenFails(e)
  BY DEF openForFram
<1> HIDE DEF d
<1>4. /\ e.state = eng.state /\ e.source = eng.source /\ e.hamming = eng.hamming
      /\ e.step = eng.step /\ e.idx = eng.idx
      /\ eng.step = 0 => e.size = FileSize(BinaryFile(e))
  BY <1>2, CacheFields
<1> HIDE DEF e
<1>5. BinaryFile(e) = BinaryFile(eng) /\ FramSlot(e) = s /\ s \in FramSlots
  BY <1>0, <1>1, <1>4, SlotType DEF BinaryFile, FramSlot, HammingProgress
<1>6. CASE Return("FRAM_ISSUE", e) \/ OpenFails(e)
  BY <1>6, OpenFailsOutcome, ReturnOutcome, EndedCopy DEF NotFinished
<1>7. CASE /\ Open(e)
           /\ framHam' = IF e.step = 0
                         THEN [framHam EXCEPT ![FramSlot(e)].size = e.size]
                         ELSE framHam
  <2>1. /\ eng' = e /\ pc' = "file" /\ filePos' = e.idx /\ NotFinished
        /\ BinaryFile(e) \in DOMAIN files
    BY <1>7 DEF Open, NotFinished, NoResult
  <2>2. /\ BinaryFile(eng)' = BinaryFile(eng) /\ Source' = Source /\ Known'
        /\ FramSlot(eng)' = s
    BY <1>0, <1>4, <1>5, <2>1 DEF BinaryFile, Source, Known, FramSlot
  <2>3. eng.step = 0 /\ eng'.step = 0 /\ eng'.size = Len(Source) /\ eng'.idx = eng.idx
    BY <1>1, <1>4, <1>5, <2>1 DEF HammingProgress, FileSize, Source
  <2>4. framHam'[s].size = e.size
    BY <1>0, <1>4, <1>5, <1>7, <2>3 DEF FramType
  <2>5. HammingProgress'
    BY <1>1, <1>4, <2>1, <2>2, <2>3, <2>4 DEF HammingProgress
  <2> QED
    BY <1>0, <1>4, <2>1, <2>2, <2>3, <2>5 DEF CopyInv
<1> QED
  BY <1>3, <1>6, <1>7

\* A bucket of hamming code in the FRAM keeps the copy right; with the last
\* bucket it is finished, and faithful.
LEMMA CopyHamming ==
  ASSUME GoodCopy, writeHammingBucket
  PROVE  CopyInv' /\ FaithfulCopy'
<1> DEFINE e == [eng EXCEPT !.idx = @ + 1]
           s == FramSlot(eng)
<1>0. /\ eng \in Engines /\ eng.state = "COPY_IMG_HAMMING_SDC_TO_FRAM" /\ pc = "file"
      /\ UNCHANGED <<card, files, clean>> /\ FramType /\ FilesType /\ RestType
      /\ eng.state \notin NorCopies /\ eng.state # "COPY_IMG_SDC_TO_SDC"
  BY DEF GoodCopy, ControlType, writeHammingBucket, InFile, sdVars, NorCopies
<1>1. /\ HammingProgress /\ Known /\ eng.size = Len(Source) /\ filePos = eng.idx
      /\ framHam[s].size = eng.size /\ s \in FramSlots /\ eng.step = 0
      /\ eng.idx > 0 => eng.idx < Len(Source)
  BY <1>0, SlotType DEF GoodCopy, CopyInv, HammingProgress
<1>2. /\ e.state = eng.state /\ e.source = eng.source /\ e.hamming = eng.hamming
      /\ e.step = eng.step /\ e.idx = eng.idx + 1 /\ e.size = eng.size
      /\ eng.idx \in Nat
  BY <1>0 DEF Engines
<1>3. \/ eng.idx >= eng.size /\ Return("OPERATION_FINISHED", eng)
      \/ /\ ~(eng.idx >= eng.size) /\ ReadNext
         /\ framHam' = [framHam EXCEPT ![s].code = HammingWritten(@, eng.idx, imgBuffer')]
         /\ \/ Return("OPERATION_FINISHED", e)
            \/ ~(e.idx >= e.size) /\ Proceed(e, "file", filePos + 1)
  BY DEF writeHammingBucket
<1>4. Len(Source) \in Nat
  BY <1>0, <1>1, LenProperties DEF FilesType, Known, Source
<1> HIDE DEF e
<1>5. CASE eng.idx >= eng.size /\ Return("OPERATION_FINISHED", eng)
  <2>1. Ended /\ result'.eng = eng
    BY <1>5, ReturnOutcome
  <2>2. Len(Source) # 1
    <3>1. eng.idx \in Nat /\ eng.idx >= Len(Source)
      BY <1>1, <1>2, <1>5
    <3>2. ~(eng.idx > 0)
      BY <1>1, <1>4, <3>1
    <3> QED
      BY <1>4, <3>1, <3>2
  <2>3. BinaryFile(result.eng)' = BinaryFile(eng)
    BY <1>0, <2>1 DEF BinaryFile
  <2>4. FaithfulCopy'
    BY <1>0, <2>1, <2>2, <2>3 DEF FaithfulCopy, Source
  <2> QED
    BY <2>1, <2>4, EndedCopy
<1>6. CASE /\ ~(eng.idx >= eng.size) /\ ReadNext
           /\ framHam' = [framHam EXCEPT ![s].code = HammingWritten(@, eng.idx, imgBuffer')]
  <2>1. framHam'[s].size = eng.size /\ imgBuffer' = Source[eng.idx + 1]
        /\ (eng.idx = 0 => framHam'[s].code[0] = Source[1])
    <3>1. imgBuffer' = Source[eng.idx + 1]
      BY <1>1, <1>6 DEF ReadNext, Source
    <3>2. /\ framHam'[s].size = framHam[s].size
          /\ framHam'[s].code = HammingWritten(framHam[s].code, eng.idx, imgBuffer')
      BY <1>0, <1>1, <1>6 DEF FramType
    <3>3. 0 \in DOMAIN framHam[s].code
      BY <1>0, <1>1, ImageAssumption DEF FramType
    <3> QED
      BY <1>1, <3>1, <3>2, <3>3 DEF HammingWritten
  <2>2. CASE Return("OPERATION_FINISHED", e)
    <3>1. Ended /\ result'.eng = e
      BY <2>2, ReturnOutcome
    <3>2. BinaryFile(result.eng)' = BinaryFile(eng) /\ FramSlot(result.eng)' = s
      BY <1>0, <1>2, <3>1 DEF BinaryFile, FramSlot
    <3>3. Len(Source) = 1 => eng.idx = 0
      BY <1>1, <1>2, <1>6
    <3>4. FaithfulCopy'
      BY <1>0, <1>1, <1>2, <2>1, <3>1, <3>2, <3>3 DEF FaithfulCopy, Source
    <3> QED
      BY <3>1, <3>4, EndedCopy
  <2>3. CASE ~(e.idx >= e.size) /\ Proceed(e, "file", filePos + 1)
    <3>1. /\ eng' = e /\ UNCHANGED handlerState /\ NotFinished
          /\ pc' = "sleep" \/ (pc' = "file" /\ filePos' = filePos + 1)
      BY <2>3, ProceedOutcome DEF GoesOn
    <3>2. BinaryFile(eng)' = BinaryFile(eng) /\ FramSlot(eng)' = s
          /\ Source' = Source /\ Known'
      BY <1>0, <1>1, <1>2, <3>1 DEF BinaryFile, FramSlot, Source, Known
    <3>3. eng.idx + 1 < Len(Source)
      BY <1>1, <1>2, <1>4, <2>3
    <3>4. HammingProgress'
      BY <1>1, <1>2, <2>1, <3>1, <3>2, <3>3 DEF HammingProgress
    <3>5. CopyInv'
      BY <1>0, <1>1, <1>2, <3>1, <3>2, <3>4 DEF CopyInv
    <3> QED
      BY <3>1, <3>5, NotFinishedCopy
  <2> QED
    BY <1>3, <1>6, <2>2, <2>3
<1> QED
  BY <1>3, <1>5, <1>6

\* One more element makes the next longer beginning of a sequence.
LEMMA Prefixes ==
  ASSUME NEW S, NEW q \in Seq(S), NEW n \in Nat, n + 1 <= Len(q)
  PROVE  Append(SubSeq(q, 1, n), q[n + 1]) = SubSeq(q, 1, n + 1)
<1> DEFINE u == SubSeq(q, 1, n)
           v == SubSeq(q, 1, n + 1)
           w == Append(u, q[n + 1])
<1>1. Len(q) \in Nat /\ q[n + 1] \in S
  BY LenProperties, ElementOfSeq
<1>2. u \in Seq(S) /\ Len(u) = n /\ \A i \in 1..n : u[i] = q[i]
  BY <1>1, SubSeqProperties
<1>3. v \in Seq(S) /\ Len(v) = n + 1 /\ \A i \in 1..(n + 1) : v[i] = q[i]
  BY <1>1, SubSeqProperties
<1> HIDE DEF u, v
<1>4. /\ w \in Seq(S) /\ Len(w) = n + 1
      /\ w[n + 1] = q[n + 1] /\ \A i \in 1..n : w[i] = u[i]
  BY <1>1, <1>2, AppendProperties
<1> HIDE DEF w
<1>5. \A i \in 1..(n + 1) : w[i] = v[i]
  BY <1>2, <1>3, <1>4
<1>6. w = v
  BY <1>3, <1>4, <1>5, SeqEqual
<1> QED
  BY <1>6 DEF u, v, w

\* The longest beginning of a sequence is the sequence.
LEMMA Whole ==
  ASSUME NEW S, NEW q \in Seq(S)
  PROVE  SubSeq(q, 1, Len(q)) = q
<1> DEFINE v == SubSeq(q, 1, Len(q))
<1>1. Len(q) \in Nat
  BY LenProperties
<1>2. v \in Seq(S) /\ Len(v) = Len(q) /\ \A i \in 1..Len(q) : v[i] = q[i]
  BY <1>1, SubSeqProperties
<1> HIDE DEF v
<1>3. v = q
  BY <1>2, SeqEqual
<1> QED
  BY <1>3 DEF v

\* The two slots of a card are two files.
LEMMA TwoFiles ==
  ASSUME eng.source \in SdcSlots
  PROVE  TargetFile(eng) # BinaryFile(eng)
BY DEF SdcSlots, TargetFile, BinaryFile

\* The target is opened empty with the first bucket, and as it is later.
LEMMA CopyOpenSd ==
  ASSUME GoodCopy, openForSdCard, clean'
  PROVE  CopyInv' /\ NotFinished
<1> DEFINE e == CacheSize(eng)
           t == TargetFile(eng)
           old == IF t \in DOMAIN files THEN files[t] ELSE <<>>
<1>0. /\ eng \in Engines /\ ControlType /\ eng.state = "COPY_IMG_SDC_TO_SDC"
      /\ UNCHANGED card /\ FilesType /\ eng.idx \in Nat
      /\ eng.state \notin NorCopies /\ eng.state # "COPY_IMG_HAMMING_SDC_TO_FRAM"
  BY DEF GoodCopy, ControlType, openForSdCard, sdVars, NorCopies, Engines
<1>1. SdcProgress
  BY <1>0 DEF GoodCopy, CopyInv
<1>2. /\ e.step = eng.step /\ TargetFile(e) = t
  BY <1>0, CacheFields
<1>3. \/ Open(e) /\ e.step = 0 /\ OpenTarget(t, <<>>)
      \/ Open(e) /\ e.step # 0 /\ OpenTarget(t, old)
      \/ OpenFails(e) \/ Return("RETURN_FAILED", e)
  BY <1>2 DEF openForSdCard
<1>4. CASE OpenFails(e) \/ Return("RETURN_FAILED", e)
  BY <1>4, OpenFailsOutcome, ReturnOutcome, EndedCopy DEF NotFinished
<1>5. CASE \/ Open(e) /\ e.step = 0 /\ OpenTarget(t, <<>>)
           \/ Open(e) /\ e.step # 0 /\ OpenTarget(t, old)
  <2>1. OpenedAt(eng.internal) /\ NotFinished
    BY <1>0, <1>5, CacheOpened
  <2>2. /\ BinaryFile(eng)' = BinaryFile(eng) /\ TargetFile(eng)' = t
    BY <1>0, <2>1 DEF OpenedAt, SameCopy, BinaryFile, TargetFile
  <2>3. t # BinaryFile(eng) /\ Known
    BY <1>1, <2>1, TwoFiles DEF SdcProgress, OpenedAt, Known
  <2>4. Source' = Source /\ Known' /\ t \in DOMAIN files'
        /\ files'[t] = IF eng.step = 0 THEN <<>> ELSE old
    BY <1>2, <1>5, <2>2, <2>3 DEF OpenTarget, Source, Known
  <2>5. files'[t] = SubSeq(Source, 1, eng.idx)
    <3>1. CASE eng.idx = 0
      <4>1. SubSeq(Source, 1, 0) = <<>>
        BY <1>0, <2>3, SubSeqProperties DEF FilesType, Known, Source
      <4> QED
        BY <1>1, <2>4, <3>1, <4>1 DEF SdcProgress
    <3>2. CASE eng.idx # 0
      BY <1>0, <1>1, <2>4, <3>2 DEF SdcProgress
    <3> QED
      BY <3>1, <3>2
  <2>6. eng'.size = Len(Source)
    <3>1. eng.step # 0 => eng.size = Len(Source)
      BY <1>0, <1>1 DEF SdcProgress
    <3> QED
      BY <2>1, <3>1 DEF OpenedAt, Source
  <2>7. SdcProgress'
    BY <1>1, <2>1, <2>2, <2>4, <2>5, <2>6 DEF SdcProgress, OpenedAt, SameCopy
  <2> QED
    BY <1>0, <2>1, <2>4, <2>6, <2>7 DEF CopyInv, OpenedAt, SameCopy
<1> QED
  BY <1>3, <1>4, <1>5

\* The target grows by the next bucket, and after the last one is the source.
LEMMA CopyAppend ==
  ASSUME GoodCopy, appendBucket, clean'
  PROVE  CopyInv' /\ FaithfulCopy'
<1> DEFINE e == [eng EXCEPT !.idx = @ + 1, !.step = @ + 1]
           t == TargetFile(eng)
<1>0. /\ eng \in Engines /\ ControlType /\ eng.state = "COPY_IMG_SDC_TO_SDC"
      /\ pc = "file" /\ UNCHANGED card /\ FilesType /\ eng.idx \in Nat
      /\ eng.state \notin NorCopies /\ eng.state # "COPY_IMG_HAMMING_SDC_TO_FRAM"
  BY DEF GoodCopy, ControlType, appendBucket, InFile, sdVars, NorCopies, Engines
<1>1. /\ eng.source \in SdcSlots /\ eng.step = eng.idx
      /\ Known /\ eng.size = Len(Source) /\ filePos = eng.idx
      /\ t \in DOMAIN files /\ files[t] = SubSeq(Source, 1, eng.idx)
      /\ t # BinaryFile(eng)
  BY <1>0, TwoFiles DEF GoodCopy, CopyInv, SdcProgress
<1>2. /\ e.state = eng.state /\ e.source = eng.source /\ e.hamming = eng.hamming
      /\ e.step = eng.step + 1 /\ e.idx = eng.idx + 1 /\ e.size = eng.size
  BY <1>0 DEF Engines
<1>3. /\ ReadNext
      /\ files' = [files EXCEPT ![t] = Append(@, imgBuffer')]
      /\ \/ e.idx >= e.size /\ Return("OPERATION_FINISHED", e)
         \/ ~(e.idx >= e.size) /\ Proceed(e, "file", filePos + 1)
  BY DEF appendBucket
<1>4. /\ Source \in Seq(Data) /\ Len(Source) \in Nat /\ eng.idx + 1 <= Len(Source)
      /\ imgBuffer' = Source[eng.idx + 1]
  <2>1. Source \in Seq(Data)
    BY <1>0, <1>1 DEF FilesType, Known, Source
  <2>2. eng.idx < Len(Source) /\ imgBuffer' = Source[eng.idx + 1]
    BY <1>1, <1>3 DEF ReadNext, FileSize, Known, Source
  <2> QED
    BY <1>0, <2>1, <2>2, LenProperties
<1>5. /\ files'[t] = SubSeq(Source, 1, eng.idx + 1)
      /\ DOMAIN files' = DOMAIN files
      /\ files'[BinaryFile(eng)] = Source
  <2>1. files'[t] = Append(SubSeq(Source, 1, eng.idx), Source[eng.idx + 1])
    BY <1>1, <1>3, <1>4
  <2>2. Append(SubSeq(Source, 1, eng.idx), Source[eng.idx + 1])
          = SubSeq(Source, 1, eng.idx + 1)
    <3> HIDE DEF e, t
    <3> QED
      BY <1>0, <1>4, Prefixes
  <2>3. DOMAIN files' = DOMAIN files /\ files'[BinaryFile(eng)] = Source
    BY <1>1, <1>3 DEF Source
  <2> QED
    BY <2>1, <2>2, <2>3
<1> HIDE DEF e
<1>6. CASE e.idx >= e.size /\ Return("OPERATION_FINISHED", e)
  <2>1. Ended /\ result'.eng = e
    BY <1>6, ReturnOutcome
  <2>2. BinaryFile(result.eng)' = BinaryFile(eng) /\ TargetFile(result.eng)' = t
    BY <1>0, <1>2, <2>1 DEF BinaryFile, TargetFile
  <2>3. eng.idx + 1 = Len(Source)
    BY <1>0, <1>1, <1>2, <1>4, <1>6
  <2>4. SubSeq(Source, 1, Len(Source)) = Source
    BY <1>4, Whole
  <2>5. FaithfulCopy'
    BY <1>0, <1>2, <1>5, <2>1, <2>2, <2>3, <2>4 DEF FaithfulCopy
  <2> QED
    BY <2>1, <2>5, EndedCopy
<1>7. CASE ~(e.idx >= e.size) /\ Proceed(e, "file", filePos + 1)
  <2>1. /\ eng' = e /\ UNCHANGED handlerState /\ NotFinished
        /\ pc' = "sleep" \/ (pc' = "file" /\ filePos' = filePos + 1)
    BY <1>7, ProceedOutcome DEF GoesOn
  <2>2. BinaryFile(eng)' = BinaryFile(eng) /\ TargetFile(eng)' = t
        /\ Source' = Source /\ Known'
    BY <1>0, <1>1, <1>2, <1>5, <2>1 DEF BinaryFile, TargetFile, Source, Known
  <2>3. SdcProgress'
    BY <1>1, <1>2, <1>5, <2>1, <2>2 DEF SdcProgress
  <2>4. CopyInv'
    BY <1>0, <1>1, <1>2, <2>1, <2>2, <2>3 DEF CopyInv
  <2> QED
    BY <2>1, <2>4, NotFinishedCopy
<1> QED
  BY <1>3, <1>6, <1>7

\* Every step keeps CopyInv, and a finished copy is faithful.
LEMMA CopyStep ==
  TypeOK /\ IdleEngineIsReset /\ CopyInv /\ FaithfulCopy /\ [Next]_vars =>
    CopyInv' /\ FaithfulCopy'
<1> SUFFICES ASSUME TypeOK, IdleEngineIsReset, CopyInv, FaithfulCopy, [Next]_vars
             PROVE  CopyInv' /\ FaithfulCopy'
  OBVIOUS
<1>0. ControlType /\ FilesType /\ FlashType /\ FramType /\ RestType
  BY TypeParts
<1>1. CASE executeAction
  BY <1>0, <1>1, CopyCommand
<1>2. CASE ContinueCopy
  <2>1. /\ pc' # "file" /\ result' = NoResult
        /\ UNCHANGED <<handlerState, eng, filePos, card, files, flash, framSize,
                       framHam, clean>>
    BY <1>2 DEF ContinueCopy, sdVars, storageVars
  <2>2. FaithfulCopy'
    BY <2>1 DEF FaithfulCopy, NoResult
  <2>3. CopyInv'
    BY <2>1 DEF CopyInv, NorProgress, SdcProgress, HammingProgress, Region, Known,
                Source, BinaryFile, TargetFile, FramSlot, Erased, NeverErased,
                Programmed, SectorsToErase
  <2> QED
    BY <2>2, <2>3
<1>3. CASE Engine
  <2>1. handlerState = "COPYING"
    BY <1>0, <1>3
       DEF Engine, continueWithoutOperation, handleNorflashErasure, finishErasure,
           openForNorFlash, openForFram, openForSdCard, readFileFails, copyGivesUp,
           writeBucket, writeBucketFails, writeHammingBucket, appendBucket, InFile,
           Erasing, IdleEngineIsReset, ControlType
  <2>2. clean' => clean
    BY <1>0, <1>3
       DEF Engine, continueWithoutOperation, handleNorflashErasure, finishErasure,
           openForNorFlash, openForFram, openForSdCard, readFileFails, copyGivesUp,
           writeBucket, writeBucketFails, writeHammingBucket, appendBucket, RestType
  <2>3. CASE ~clean'
    BY <2>3, EndedCopy
  <2>4. CASE clean'
    <3>0. GoodCopy
      BY <1>0, <2>1, <2>2, <2>4 DEF GoodCopy
    <3>1. CASE continueWithoutOperation \/ copyGivesUp
      BY <3>1, ReturnOutcome, EndedCopy
         DEF continueWithoutOperation, copyGivesUp, NotFinished
    <3>2. CASE handleNorflashErasure \/ finishErasure
      BY <3>0, <3>2, CopyErasure, CopyFinish, NotFinishedCopy
    <3>3. CASE openForNorFlash \/ openForFram \/ openForSdCard
      BY <2>4, <3>0, <3>3, CopyOpenNor, CopyOpenFram, CopyOpenSd, NotFinishedCopy
    <3>4. CASE readFileFails
      BY <3>0, <3>4, CopyReadFails, NotFinishedCopy
    <3>5. CASE writeBucket \/ writeHammingBucket \/ appendBucket
      BY <2>4, <3>0, <3>5, CopyWrite, CopyHamming, CopyAppend
    <3>6. CASE writeBucketFails
      BY <1>0, <2>4, <3>6, WriteFailsEffect
    <3> QED
      BY <1>3, <3>1, <3>2, <3>3, <3>4, <3>5, <3>6 DEF Engine
  <2> QED
    BY <2>3, <2>4
<1>4. CASE Environment
  <2>1. result' = NoResult /\ (handlerState' = "IDLE" \/ ~clean')
    BY <1>0, <1>4 DEF Environment, tryActiveSdCardChange, deleteFile, Restart, Disturb,
                      handlerVars, ControlType
  <2> QED
    BY <2>1, EndedCopy DEF NotFinished, NoResult
<1>5. CASE UNCHANGED vars
  <2>1. UNCHANGED <<handlerState, pc, eng, filePos, card, files, flash, framSize,
                    framHam, clean, result>>
    BY <1>5 DEF vars, handlerVars, sdVars, storageVars
  <2>2. FaithfulCopy'
    BY <2>1 DEF FaithfulCopy, Region, BinaryFile, TargetFile, FramSlot
  <2>3. CopyInv'
    BY <2>1 DEF CopyInv, NorProgress, SdcProgress, HammingProgress, Region, Known,
                Source, BinaryFile, TargetFile, FramSlot, Erased, NeverErased,
                Programmed, SectorsToErase
  <2> QED
    BY <2>2, <2>3
<1> QED
  BY <1>1, <1>2, <1>3, <1>4, <1>5 DEF Next, performOperation

\* What a copy that met no second command, no change on the SD cards and no failed
\* write reports as finished is a copy of the source, for files and flashes of any
\* size, however the buckets are spread over the cycles and however often reads
\* are repeated.
THEOREM FinishedCopyIsFaithful == Spec => []FaithfulCopy
BY TypeInit, TypeStep, IdleInit, IdleStep, CopyInit, CopyStep, PTL DEF Spec
===============================================================================
