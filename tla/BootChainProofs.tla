--------------------------- MODULE BootChainProofs ---------------------------
(***************************************************************************)
(* Proofs about BootChain for every bound and every initial FRAM contents. *)
(***************************************************************************)
EXTENDS BootChain, TLAPS

USE CounterAssumption, BootAssumption

InBootloader == {"check", "select", "copy", "count"}

\* The RAM copy is the FRAM block, unless the FRAM did not answer.
BlockRead ==
  phase \in InBootloader =>
    /\ bl \in {fram} \cup UnansweredReads
    /\ faults = 0 => bl = fram /\ ~fram_faulty

\* A bootloader that finds itself invalid boots the image it starts with.
FlashByDefault == phase = "check" => boot_select = "NOR"

\* The image and the check that SelectImage decides for.
Choice == IF fram_faulty THEN "NOR" ELSE determine_boot_select(bl)

ChoiceMade ==
  phase \in {"copy", "count"} =>
    /\ boot_select = Choice
    /\ use_hamming = (/\ ~fram_faulty
                      /\ global_hamming(bl)
                      /\ local_hamming_flag_check(bl, Choice))

\* A check that is made leaves a verdict, and an uncorrectable error a problem.
VerdictKept ==
  /\ phase = "count"
  /\ ~problem
  /\ use_hamming
  /\ boot_select = "NOR" => NorSizesPlausible(bl)
  => checked \in {"ok", "singlebit", "ecc", "fram"}

\* The try that is not in the counter yet.
Pending(s) == IF phase \in {"copy", "count"} /\ boot_select = s THEN 1 ELSE 0

\* The counter, the faults and the pending try account for all tries.
TriesCounted ==
  \A s \in SdSlots : attempts[s] <= fram.reboot_counter[s] + faults + Pending(s)

BootInv ==
  TypeOK /\ BlockRead /\ FlashByDefault /\ ChoiceMade /\ VerdictKept /\ BoundedTries /\ TriesCounted

-------------------------------------------------------------------------------
\* The blocks a silent FRAM is read as, and the blocks the FRAM API writes, are
\* bootloader groups.
LEMMA UnansweredType == UnansweredReads \subseteq BootloaderGroup
BY DEF UnansweredReads, BlankBlock, ZeroBlock, BootloaderGroup, SizeClass

\* The uint16_t increment of the bootloader stays a counter value.
LEMMA NextCounterType ==
  ASSUME NEW c \in 0..(CounterModulus - 1)
  PROVE  NextCounter(c) \in 0..(CounterModulus - 1)
BY DEF NextCounter

\* A written reboot counter leaves a bootloader group.
LEMMA CounterWriteType ==
  ASSUME NEW b \in BootloaderGroup, NEW s \in Slots,
         NEW c \in 0..(CounterModulus - 1)
  PROVE  [b EXCEPT !.reboot_counter[s] = c] \in BootloaderGroup
BY DEF BootloaderGroup

\* So do the hamming flags that the OBSW sets and clears.
LEMMA FlagWriteType ==
  ASSUME NEW b \in BootloaderGroup, NEW s \in Slots, NEW set \in BOOLEAN
  PROVE  /\ fram_ham_check_flag(b, set) \in BootloaderGroup
         /\ fram_img_ham_flag(b, s, set) \in BootloaderGroup
BY DEF BootloaderGroup, fram_ham_check_flag, fram_img_ham_flag

\* So does the reset of a reboot counter.
LEMMA ResetCounterType ==
  ASSUME NEW b \in BootloaderGroup, NEW s \in Slots
  PROVE  fram_reset_img_reboot_counter(b, s) \in BootloaderGroup
BY DEF BootloaderGroup, fram_reset_img_reboot_counter

\* So do the sizes the image copying engine records.
LEMMA SizeWriteType ==
  ASSUME NEW b \in BootloaderGroup, NEW c \in SizeClass
  PROVE  /\ [b EXCEPT !.nor_flash_binary_size = c] \in BootloaderGroup
         /\ [b EXCEPT !.nor_flash_hamming_code_size = c] \in BootloaderGroup
BY DEF BootloaderGroup

\* So do the sizes a zero-out clears.
LEMMA SizeResetType ==
  ASSUME NEW b \in BootloaderGroup
  PROVE  /\ fram_write_binary_size_zero(b) \in BootloaderGroup
         /\ fram_write_ham_size_zero(b) \in BootloaderGroup
BY DEF BootloaderGroup, SizeClass, fram_write_binary_size_zero,
       fram_write_ham_size_zero

\* So do the update fields.
LEMMA UpdateWriteType ==
  ASSUME NEW b \in BootloaderGroup
  PROVE  fram_set_to_load_softwareupdate(b, FALSE, 0) \subseteq BootloaderGroup
<1> SUFFICES ASSUME NEW garbage \in BOOLEAN
             PROVE  [b EXCEPT !.software_update_available = FALSE,
                              !.software_update_in_volume_0 = TRUE,
                              !.software_update_in_volume_1 = garbage]
                      \in BootloaderGroup
  BY Zenon DEF fram_set_to_load_softwareupdate
<1> QED
  BY DEF BootloaderGroup

\* Every write of zero_out_default_zero_fields leaves a bootloader group.
LEMMA ZeroOutType ==
  ASSUME NEW b \in BootloaderGroup, NEW k \in 1..ZeroOutSteps
  PROVE  ZeroOutStep(b, k) \subseteq BootloaderGroup
<1>1. CASE k = 1
  <2>1. fram_ham_check_flag(b, FALSE) \in BootloaderGroup
    BY FlagWriteType DEF Slots
  <2>2. QED
    BY <1>1, <2>1 DEF ZeroOutStep
<1>2. CASE k \in 2..6
  <2>1. SlotOrder[k - 1] \in Slots
    BY <1>2 DEF SlotOrder, Slots, SdSlots
  <2>2. fram_img_ham_flag(b, SlotOrder[k - 1], FALSE) \in BootloaderGroup
    BY <2>1, FlagWriteType
  <2>3. QED
    <3>1. k # 1
      BY <1>2
    <3>2. ZeroOutStep(b, k) = {fram_img_ham_flag(b, SlotOrder[k - 1], FALSE)}
      BY <1>2, <3>1, Zenon DEF ZeroOutStep
    <3>3. QED
      BY <3>2, <2>2
<1>3. CASE k \in 7..11
  <2>1. SlotOrder[k - 6] \in Slots
    BY <1>3 DEF SlotOrder, Slots, SdSlots
  <2>2. fram_reset_img_reboot_counter(b, SlotOrder[k - 6]) \in BootloaderGroup
    BY <2>1, ResetCounterType
  <2>3. QED
    <3>1. k # 1 /\ k \notin 2..6
      BY <1>3
    <3>2. ZeroOutStep(b, k) = {fram_reset_img_reboot_counter(b, SlotOrder[k - 6])}
      BY <1>3, <3>1, Zenon DEF ZeroOutStep
    <3>3. QED
      BY <3>2, <2>2
<1>4. CASE k \in {12, 13}
  <2>1. k # 1 /\ k \notin 2..6 /\ k \notin 7..11 /\ (k = 12 \/ (k = 13 /\ k # 12))
    BY <1>4
  <2>2. \/ ZeroOutStep(b, k) = {fram_write_binary_size_zero(b)}
        \/ ZeroOutStep(b, k) = {fram_write_ham_size_zero(b)}
    BY <2>1, Zenon DEF ZeroOutStep
  <2>3. QED
    BY <2>2, SizeResetType
<1>5. CASE k = 14
  <2>1. k # 1 /\ k \notin 2..6 /\ k \notin 7..11 /\ k # 12 /\ k # 13
    BY <1>5
  <2>2. ZeroOutStep(b, k) = fram_set_to_load_softwareupdate(b, FALSE, 0)
    BY <2>1, Zenon DEF ZeroOutStep
  <2>3. QED
    BY <2>2, UpdateWriteType, Zenon
<1>6. QED
  BY <1>1, <1>2, <1>3, <1>4, <1>5 DEF ZeroOutSteps

\* The bootloader decides for one of the five images.
LEMMA ChoiceType == ASSUME NEW b PROVE determine_boot_select(b) \in Slots
BY DEF determine_boot_select, UpdateDue, UpdateImage, PreferredImage, OtherImage,
       Slots, SdSlots

-------------------------------------------------------------------------------
\* A write of the OBSW leaves the old block or the new one, and at most one more
\* fault.
LEMMA WriteType ==
  ASSUME fram \in BootloaderGroup, faults \in 0..MaxFaults,
         NEW new \in BootloaderGroup, FRAM_writeAndVerify(new)
  PROVE  fram' \in BootloaderGroup /\ faults' \in 0..MaxFaults
BY DEF FRAM_writeAndVerify, Fault

\* Handling a verdict keeps the types of the verdict, the status and the result.
LEMMA VerdictType ==
  ASSUME NEW v \in Verdicts \cup {"fram"}, handle_hamming_code_result(v)
  PROVE  /\ checked' \in Verdicts \cup {"fram", "none"}
         /\ sram' \in SramStatus
         /\ problem' \in BOOLEAN
BY DEF handle_hamming_code_result, StatusOf, CheckFails, Verdicts, SramStatus

\* Every variable keeps its type under every step.
LEMMA TypeStep == TypeOK /\ [Next]_vars => TypeOK'
<1> SUFFICES ASSUME TypeOK, [Next]_vars
             PROVE  TypeOK'
  OBVIOUS
<1> USE DEF TypeOK
<1>1. CASE initialize_all_iobc_peripherals
  <2>1. bl' \in BootloaderGroup
    BY <1>1, UnansweredType DEF initialize_all_iobc_peripherals
  <2>2. faults' \in 0..MaxFaults
    BY <1>1 DEF initialize_all_iobc_peripherals, Fault
  <2>3. fram_faulty' \in BOOLEAN
    BY <1>1 DEF initialize_all_iobc_peripherals
  <2>4. QED
    BY <1>1, <2>1, <2>2, <2>3
       DEF initialize_all_iobc_peripherals, Phases, Slots, envVars
<1>2. CASE perform_bootloader_check
  BY <1>2 DEF perform_bootloader_check, Phases, Slots, SramStatus, envVars
<1>3. CASE SelectImage
  BY <1>3, ChoiceType DEF SelectImage, Phases, Slots, envVars
<1>4. CASE copy_norflash_binary_to_sdram
  <2>1. faults' \in 0..MaxFaults
    BY <1>4 DEF copy_norflash_binary_to_sdram, Fault
  <2>2. /\ checked' \in Verdicts \cup {"fram", "none"}
        /\ sram' \in SramStatus
        /\ problem' \in BOOLEAN
    BY <1>4, VerdictType DEF copy_norflash_binary_to_sdram
  <2>3. QED
    BY <1>4, <2>1, <2>2 DEF copy_norflash_binary_to_sdram, Phases, Slots, envVars
<1>5. CASE copy_sdcard_binary_to_sdram
  <2>1. /\ checked' \in Verdicts \cup {"fram", "none"}
        /\ sram' \in SramStatus
        /\ problem' \in BOOLEAN
    BY <1>5, VerdictType DEF copy_sdcard_binary_to_sdram
  <2>2. loaded' \in Slots \cup {"none"}
    BY <1>5 DEF copy_sdcard_binary_to_sdram, slot_name, Slots, SdSlots
  <2>3. QED
    BY <1>5, <2>1, <2>2 DEF copy_sdcard_binary_to_sdram, Phases, envVars
<1>6. CASE increment_reboot_counter_no_os
  <2>1. bl.reboot_counter[boot_select] \in 0..(CounterModulus - 1)
    BY DEF BootloaderGroup
  <2>2. fram' \in BootloaderGroup
    BY <1>6, <2>1, NextCounterType DEF increment_reboot_counter_no_os, BootloaderGroup
  <2>3. QED
    BY <1>6, <2>2 DEF increment_reboot_counter_no_os, Fault, Phases, blVars, envVars
<1>7. CASE WatchdogReset
  BY <1>7 DEF WatchdogReset, Fault, Phases, blVars, envVars
<1>8. ASSUME NEW set \in BOOLEAN, manipulateGlobalHammingFlag(set)
      PROVE  TypeOK'
  <2>1. fram_ham_check_flag(fram, set) \in BootloaderGroup
    BY FlagWriteType DEF Slots
  <2>2. fram' \in BootloaderGroup /\ faults' \in 0..MaxFaults
    BY <1>8, <2>1, WriteType DEF manipulateGlobalHammingFlag
  <2>3. QED
    BY <1>8, <2>2 DEF manipulateGlobalHammingFlag, Command, blVars, envVars
<1>9. ASSUME NEW set \in BOOLEAN, NEW s \in Slots, manipulateLocalHammingFlag(set, s)
      PROVE  TypeOK'
  <2>1. fram_img_ham_flag(fram, s, set) \in BootloaderGroup
    BY FlagWriteType
  <2>2. fram' \in BootloaderGroup /\ faults' \in 0..MaxFaults
    BY <1>9, <2>1, WriteType DEF manipulateLocalHammingFlag
  <2>3. QED
    BY <1>9, <2>2 DEF manipulateLocalHammingFlag, Command, blVars, envVars
<1>10. ASSUME NEW s \in Slots, resetRebootCounter(s)
       PROVE  TypeOK'
  <2>1. fram_reset_img_reboot_counter(fram, s) \in BootloaderGroup
    BY ResetCounterType
  <2>2. fram' \in BootloaderGroup /\ faults' \in 0..MaxFaults
    BY <1>10, <2>1, WriteType DEF resetRebootCounter
  <2>3. attempts' \in [SdSlots -> Nat]
    BY <1>10 DEF resetRebootCounter, ResetHistory
  <2>4. QED
    BY <1>10, <2>2, <2>3 DEF resetRebootCounter, Command, blVars, envVars
<1>11. CASE StartZeroOut
  BY <1>11 DEF StartZeroOut, CoreControllerIdle, Command, ZeroOutSteps, blVars, envVars
<1>12. CASE ContinueZeroOut
  <2>1. ZeroOutStep(fram, zeroing) \subseteq BootloaderGroup
    BY <1>12, ZeroOutType DEF ContinueZeroOut
  <2>2. fram' \in BootloaderGroup /\ faults' \in 0..MaxFaults
    BY <1>12, <2>1 DEF ContinueZeroOut, Fault
  <2>3. zeroing' \in 0..ZeroOutSteps
    BY <1>12 DEF ContinueZeroOut, ZeroOutSteps
  <2>4. attempts' \in [SdSlots -> Nat]
    BY <1>12 DEF ContinueZeroOut, ResetHistory
  <2>5. QED
    BY <1>12, <2>2, <2>3, <2>4 DEF ContinueZeroOut, blVars, envVars
<1>13. CASE setLoadObswUpdate
  <2>1. PICK new \in fram_set_to_load_softwareupdate(fram, FALSE, 0) :
          FRAM_writeAndVerify(new)
    BY <1>13 DEF setLoadObswUpdate
  <2>2. new \in BootloaderGroup
    BY <2>1, UpdateWriteType
  <2>3. fram' \in BootloaderGroup /\ faults' \in 0..MaxFaults
    BY <2>1, <2>2, WriteType
  <2>4. QED
    BY <1>13, <2>3 DEF setLoadObswUpdate, Command, blVars, envVars
<1>14. CASE copySdCardImageToNorFlash
  <2>1. [fram EXCEPT !.nor_flash_binary_size = "valid"] \in BootloaderGroup
    BY DEF SizeClass, BootloaderGroup
  <2>2. fram' \in BootloaderGroup /\ faults' \in 0..MaxFaults
    BY <1>14, <2>1, WriteType DEF copySdCardImageToNorFlash
  <2>3. QED
    BY <1>14, <2>2 DEF copySdCardImageToNorFlash, Command, blVars
<1>15. CASE copyBootloaderToNorFlash
  BY <1>15 DEF copyBootloaderToNorFlash, Command, blVars
<1>16. CASE copyImgHammingSdcToFram
  <2>1. [fram EXCEPT !.nor_flash_hamming_code_size = "valid"] \in BootloaderGroup
    BY DEF SizeClass, BootloaderGroup
  <2>2. fram' \in BootloaderGroup /\ faults' \in 0..MaxFaults
    BY <1>16, <2>1, WriteType DEF copyImgHammingSdcToFram
  <2>3. QED
    BY <1>16, <2>2 DEF copyImgHammingSdcToFram, Command, blVars
<1>17. CASE Restart
  BY <1>17 DEF Restart, Phases, ZeroOutSteps, blVars, envVars
<1>18. CASE SingleEventUpset
  BY <1>18 DEF SingleEventUpset, Fault, blVars
<1>19. CASE UNCHANGED vars
  BY <1>19 DEF vars, blVars, envVars
<1>20. CASE enableHammingCheckForCopying
  <2>1. fram_ham_check_flag(fram, TRUE) \in BootloaderGroup
    BY FlagWriteType DEF Slots
  <2>2. fram' \in BootloaderGroup /\ faults' \in 0..MaxFaults
    BY <1>20, <2>1, WriteType DEF enableHammingCheckForCopying
  <2>3. QED
    BY <1>20, <2>2 DEF enableHammingCheckForCopying, Command, blVars, envVars
<1>21. QED
  BY <1>1, <1>2, <1>3, <1>4, <1>5, <1>6, <1>7, <1>8, <1>9, <1>10, <1>11, <1>12,
     <1>13, <1>14, <1>15, <1>16, <1>17, <1>18, <1>19, <1>20
     DEF Next, Bootloader, Obsw

\* The first state has its types.
LEMMA TypeInit == Init => TypeOK
<1> SUFFICES ASSUME Init
             PROVE  TypeOK
  OBVIOUS
<1>1. fram \in BootloaderGroup /\ bl \in BootloaderGroup
  BY UnansweredType DEF Init, UnansweredReads
<1>2. attempts \in [SdSlots -> Nat]
  BY DEF Init
<1>3. zeroing \in 0..ZeroOutSteps /\ faults \in 0..MaxFaults /\ commands \in 0..MaxCommands
  BY DEF Init, ZeroOutSteps
<1>4. QED
  BY <1>1, <1>2, <1>3, Zenon DEF Init, TypeOK, Phases, Slots, SramStatus

\* The FRAM block keeps its layout, counters stay within 16 bits and every other
\* variable keeps its type, for every width, every bound and every number of
\* tries.
THEOREM TypeCorrect == Spec => []TypeOK
BY TypeInit, TypeStep, PTL DEF Spec

-------------------------------------------------------------------------------
\* A silent FRAM leads to the NOR flash image, without a check.
LEMMA UnansweredChoice ==
  ASSUME NEW b \in UnansweredReads
  PROVE  /\ determine_boot_select(b) = "NOR"
         /\ ~b.global_hamming_flag
<1>1. ~b.software_update_available /\ ~b.global_hamming_flag
  BY DEF UnansweredReads, BlankBlock, ZeroBlock
<1>2. ~UpdateDue(b)
  BY <1>1 DEF UpdateDue, UpdateImage
<1>3. \/ \A s \in Slots : Exhausted(b, s)
      \/ \A s \in Slots : ~Exhausted(b, s)
  BY DEF UnansweredReads, BlankBlock, ZeroBlock, Exhausted
<1>4. QED
  BY <1>1, <1>2, <1>3
     DEF determine_boot_select, PreferredImage, OtherImage, Slots, SdSlots

\* An SD card image is chosen only while it has tries left.
LEMMA SdChoice ==
  ASSUME NEW b, determine_boot_select(b) \in SdSlots
  PROVE  ~Exhausted(b, determine_boot_select(b))
BY DEF determine_boot_select, UpdateDue, SdSlots

\* While the OBSW runs the bootloader does not.
LEMMA ObswRuns == Obsw => phase = "running" /\ phase' \in {"running", "reset"}
BY DEF Obsw, manipulateGlobalHammingFlag, manipulateLocalHammingFlag,
       resetRebootCounter, StartZeroOut, ContinueZeroOut, setLoadObswUpdate,
       enableHammingCheckForCopying,
       copySdCardImageToNorFlash, copyBootloaderToNorFlash, copyImgHammingSdcToFram,
       Restart, CoreControllerIdle

\* Nobody writes the FRAM between the read of the block and the counter.
LEMMA BlockReadStep ==
  TypeOK /\ BlockRead /\ FlashByDefault /\ [Next]_vars => BlockRead' /\ FlashByDefault'
<1> SUFFICES ASSUME TypeOK, BlockRead, FlashByDefault, [Next]_vars
             PROVE  BlockRead' /\ FlashByDefault'
  OBVIOUS
<1>0. faults \in Nat
  BY DEF TypeOK
<1> USE DEF BlockRead, FlashByDefault, InBootloader
<1>1. CASE initialize_all_iobc_peripherals
  BY <1>0, <1>1 DEF Fault, initialize_all_iobc_peripherals
<1>2. CASE perform_bootloader_check
  BY <1>2 DEF perform_bootloader_check
<1>3. CASE SelectImage
  BY <1>3 DEF SelectImage
<1>4. CASE copy_norflash_binary_to_sdram
  BY <1>0, <1>4 DEF Fault, copy_norflash_binary_to_sdram
<1>5. CASE copy_sdcard_binary_to_sdram
  BY <1>5 DEF copy_sdcard_binary_to_sdram
<1>6. CASE increment_reboot_counter_no_os
  BY <1>6 DEF increment_reboot_counter_no_os
<1>7. CASE WatchdogReset
  BY <1>7 DEF WatchdogReset
<1>8. CASE Obsw
  BY <1>8, ObswRuns
<1>9. CASE SingleEventUpset
  BY <1>0, <1>9 DEF Fault, SingleEventUpset, blVars
<1>10. CASE UNCHANGED vars
  BY <1>10 DEF vars, blVars
<1>11. QED
  BY <1>1, <1>2, <1>3, <1>4, <1>5, <1>6, <1>7, <1>8, <1>9, <1>10 DEF Next, Bootloader

\* What SelectImage decided stands until the image is started.
LEMMA ChoiceMadeStep == ChoiceMade /\ [Next]_vars => ChoiceMade'
<1> SUFFICES ASSUME ChoiceMade, [Next]_vars
             PROVE  ChoiceMade'
  OBVIOUS
<1> USE DEF ChoiceMade, Choice
<1>1. CASE initialize_all_iobc_peripherals
  BY <1>1 DEF initialize_all_iobc_peripherals
<1>2. CASE perform_bootloader_check
  BY <1>2 DEF perform_bootloader_check
<1>3. CASE SelectImage
  BY <1>3 DEF SelectImage
<1>4. CASE copy_norflash_binary_to_sdram
  BY <1>4 DEF copy_norflash_binary_to_sdram
<1>5. CASE copy_sdcard_binary_to_sdram
  BY <1>5 DEF copy_sdcard_binary_to_sdram
<1>6. CASE increment_reboot_counter_no_os
  BY <1>6 DEF increment_reboot_counter_no_os
<1>7. CASE WatchdogReset
  BY <1>7 DEF WatchdogReset
<1>8. CASE Obsw
  BY <1>8, ObswRuns
<1>9. CASE SingleEventUpset
  BY <1>9 DEF SingleEventUpset, blVars
<1>10. CASE UNCHANGED vars
  BY <1>10 DEF vars, blVars
<1>11. QED
  BY <1>1, <1>2, <1>3, <1>4, <1>5, <1>6, <1>7, <1>8, <1>9, <1>10 DEF Next, Bootloader

\* A verdict is given by the copy and stands until the image is started.
LEMMA VerdictKeptStep == TypeOK /\ VerdictKept /\ [Next]_vars => VerdictKept'
<1> SUFFICES ASSUME TypeOK, VerdictKept, [Next]_vars
             PROVE  VerdictKept'
  OBVIOUS
<1> USE DEF VerdictKept
<1>1. CASE initialize_all_iobc_peripherals
  BY <1>1 DEF initialize_all_iobc_peripherals
<1>2. CASE perform_bootloader_check
  BY <1>2 DEF perform_bootloader_check
<1>3. CASE SelectImage
  BY <1>3 DEF SelectImage
<1>4. CASE copy_norflash_binary_to_sdram
  BY <1>4 DEF copy_norflash_binary_to_sdram, handle_hamming_code_result, CheckFails,
              TypeOK, Verdicts
<1>5. CASE copy_sdcard_binary_to_sdram
  BY <1>5 DEF copy_sdcard_binary_to_sdram, handle_hamming_code_result, CheckFails,
              Verdicts
<1>6. CASE increment_reboot_counter_no_os
  BY <1>6 DEF increment_reboot_counter_no_os
<1>7. CASE WatchdogReset
  BY <1>7 DEF WatchdogReset
<1>8. CASE Obsw
  BY <1>8, ObswRuns
<1>9. CASE SingleEventUpset
  BY <1>9 DEF SingleEventUpset, blVars
<1>10. CASE UNCHANGED vars
  BY <1>10 DEF vars, blVars
<1>11. QED
  BY <1>1, <1>2, <1>3, <1>4, <1>5, <1>6, <1>7, <1>8, <1>9, <1>10 DEF Next, Bootloader

-------------------------------------------------------------------------------
\* A zero-out clears counters in its seventh to eleventh write only.
LEMMA ZeroOutCounters ==
  ASSUME NEW b \in BootloaderGroup, NEW k \in 1..ZeroOutSteps,
         NEW new \in ZeroOutStep(b, k)
  PROVE  IF k \in 7..11 THEN new = fram_reset_img_reboot_counter(b, SlotOrder[k - 6])
                        ELSE new.reboot_counter = b.reboot_counter
<1>1. CASE k = 1
  BY <1>1 DEF ZeroOutStep, fram_ham_check_flag, BootloaderGroup
<1>2. CASE k \in 2..6
  <2>1. k # 1 /\ k \notin 7..11
    BY <1>2
  <2>2. new = fram_img_ham_flag(b, SlotOrder[k - 1], FALSE)
    BY <1>2, <2>1, Zenon DEF ZeroOutStep
  <2>3. QED
    BY <2>1, <2>2 DEF fram_img_ham_flag, BootloaderGroup
<1>3. CASE k \in 7..11
  <2>1. k # 1 /\ k \notin 2..6
    BY <1>3
  <2>2. QED
    BY <1>3, <2>1, Zenon DEF ZeroOutStep
<1>4. CASE k \in {12, 13}
  <2>1. k # 1 /\ k \notin 2..6 /\ k \notin 7..11 /\ (k = 12 \/ (k = 13 /\ k # 12))
    BY <1>4
  <2>2. new = fram_write_binary_size_zero(b) \/ new = fram_write_ham_size_zero(b)
    BY <2>1, Zenon DEF ZeroOutStep
  <2>3. QED
    BY <2>1, <2>2
       DEF fram_write_binary_size_zero, fram_write_ham_size_zero, BootloaderGroup
<1>5. CASE k = 14
  <2>1. k # 1 /\ k \notin 2..6 /\ k \notin 7..11 /\ k # 12 /\ k # 13
    BY <1>5
  <2>2. new \in fram_set_to_load_softwareupdate(b, FALSE, 0)
    BY <2>1, Zenon DEF ZeroOutStep
  <2>3. PICK garbage \in BOOLEAN :
          new = [b EXCEPT !.software_update_available = FALSE,
                          !.software_update_in_volume_0 = TRUE,
                          !.software_update_in_volume_1 = garbage]
    BY <2>2, Zenon DEF fram_set_to_load_softwareupdate
  <2>4. QED
    BY <2>1, <2>3 DEF BootloaderGroup
<1>6. QED
  BY <1>1, <1>2, <1>3, <1>4, <1>5 DEF ZeroOutSteps

\* A zero-out does not write the preferred SD card.
LEMMA ZeroOutPreferred ==
  ASSUME NEW b \in BootloaderGroup, NEW k \in 1..ZeroOutSteps,
         NEW new \in ZeroOutStep(b, k)
  PROVE  new.preferred_sd_card = b.preferred_sd_card
<1>1. \/ new = fram_ham_check_flag(b, FALSE)
      \/ new = fram_img_ham_flag(b, SlotOrder[k - 1], FALSE)
      \/ new = fram_reset_img_reboot_counter(b, SlotOrder[k - 6])
      \/ new = fram_write_binary_size_zero(b)
      \/ new = fram_write_ham_size_zero(b)
      \/ new \in fram_set_to_load_softwareupdate(b, FALSE, 0)
  BY Zenon DEF ZeroOutStep
<1>2. CASE new \in fram_set_to_load_softwareupdate(b, FALSE, 0)
  <2>1. PICK garbage \in BOOLEAN :
          new = [b EXCEPT !.software_update_available = FALSE,
                          !.software_update_in_volume_0 = TRUE,
                          !.software_update_in_volume_1 = garbage]
    BY <1>2, Zenon DEF fram_set_to_load_softwareupdate
  <2>2. QED
    BY <2>1 DEF BootloaderGroup
<1>3. QED
  BY <1>1, <1>2 DEF fram_ham_check_flag, fram_img_ham_flag,
     fram_reset_img_reboot_counter, fram_write_binary_size_zero,
     fram_write_ham_size_zero, BootloaderGroup

\* An image whose tries a step of the OBSW leaves alone.
KeepsTries(s) ==
  attempts'[s] = attempts[s] /\ fram'.reboot_counter[s] = fram.reboot_counter[s]

\* A command clears the tries of an image or leaves them alone.
LEMMA ObswTries ==
  ASSUME TypeOK, Obsw, NEW s \in SdSlots
  PROVE  /\ KeepsTries(s) \/ (attempts'[s] = 0 /\ fram'.reboot_counter[s] = 0)
         /\ faults' >= faults
<1> s \in Slots
  BY DEF Slots
<1> USE DEF TypeOK, KeepsTries, FRAM_writeAndVerify, Fault
<1>1. ASSUME NEW set \in BOOLEAN, manipulateGlobalHammingFlag(set)
      PROVE  KeepsTries(s) /\ faults' >= faults
  BY <1>1 DEF manipulateGlobalHammingFlag, fram_ham_check_flag, BootloaderGroup
<1>2. ASSUME NEW set \in BOOLEAN, NEW t \in Slots, manipulateLocalHammingFlag(set, t)
      PROVE  KeepsTries(s) /\ faults' >= faults
  BY <1>2 DEF manipulateLocalHammingFlag, fram_img_ham_flag, BootloaderGroup
<1>3. ASSUME NEW t \in Slots, resetRebootCounter(t)
      PROVE  /\ KeepsTries(s) \/ (attempts'[s] = 0 /\ fram'.reboot_counter[s] = 0)
             /\ faults' >= faults
  BY <1>3 DEF resetRebootCounter, fram_reset_img_reboot_counter, ResetHistory,
              BootloaderGroup
<1>4. CASE StartZeroOut
  BY <1>4 DEF StartZeroOut
<1>5. CASE ContinueZeroOut
  <2>1. zeroing \in 1..ZeroOutSteps
    BY <1>5 DEF ContinueZeroOut
  <2>2. faults' >= faults
    BY <1>5 DEF ContinueZeroOut
  <2>3. CASE fram' = fram
    BY <1>5, <2>2, <2>3 DEF ContinueZeroOut, ResetHistory
  <2>4. CASE fram' \in ZeroOutStep(fram, zeroing)
    <3>1. CASE zeroing \in 7..11
      <4>1. fram' = fram_reset_img_reboot_counter(fram, SlotOrder[zeroing - 6])
        BY <2>1, <2>4, <3>1, ZeroOutCounters
      <4>2. SlotOrder[zeroing - 6] \in Slots
        BY <3>1 DEF SlotOrder, Slots, SdSlots
      <4>3. fram'.reboot_counter[s] = IF s = SlotOrder[zeroing - 6]
                                      THEN 0 ELSE fram.reboot_counter[s]
        BY <4>1, <4>2 DEF fram_reset_img_reboot_counter, BootloaderGroup
      <4>4. ResetHistory(SlotOrder[zeroing - 6])
        BY <1>5, <3>1 DEF ContinueZeroOut
      <4>5. QED
        BY <2>2, <4>3, <4>4 DEF ResetHistory
    <3>2. CASE zeroing \notin 7..11
      <4>1. fram'.reboot_counter = fram.reboot_counter
        BY <2>1, <2>4, <3>2, ZeroOutCounters
      <4>2. attempts' = attempts
        BY <1>5, <3>2 DEF ContinueZeroOut
      <4>3. QED
        BY <2>2, <4>1, <4>2
    <3>3. QED
      BY <3>1, <3>2
  <2>5. QED
    BY <1>5, <2>3, <2>4 DEF ContinueZeroOut
<1>6. CASE setLoadObswUpdate
  <2>1. PICK new \in fram_set_to_load_softwareupdate(fram, FALSE, 0) :
          FRAM_writeAndVerify(new)
    BY <1>6 DEF setLoadObswUpdate
  <2>2. PICK garbage \in BOOLEAN :
          new = [fram EXCEPT !.software_update_available = FALSE,
                             !.software_update_in_volume_0 = TRUE,
                             !.software_update_in_volume_1 = garbage]
    BY <2>1, Zenon DEF fram_set_to_load_softwareupdate
  <2>3. new.reboot_counter = fram.reboot_counter
    BY <2>2 DEF BootloaderGroup
  <2>4. QED
    BY <1>6, <2>1, <2>3 DEF setLoadObswUpdate
<1>7. CASE copySdCardImageToNorFlash
  BY <1>7 DEF copySdCardImageToNorFlash, BootloaderGroup
<1>8. CASE copyBootloaderToNorFlash
  BY <1>8 DEF copyBootloaderToNorFlash
<1>9. CASE copyImgHammingSdcToFram
  BY <1>9 DEF copyImgHammingSdcToFram, BootloaderGroup
<1>10. CASE Restart
  BY <1>10 DEF Restart
<1>11. CASE enableHammingCheckForCopying
  BY <1>11 DEF enableHammingCheckForCopying, fram_ham_check_flag, BootloaderGroup
<1>12. QED
  BY <1>1, <1>2, <1>3, <1>4, <1>5, <1>6, <1>7, <1>8, <1>9, <1>10, <1>11 DEF Obsw

\* The number of tries of one image and its bounds.
TriesOf(s) ==
  /\ attempts[s] <= MAX_REBOOT + faults
  /\ attempts[s] <= fram.reboot_counter[s] + faults + Pending(s)

\* If an SD card image was chosen, its counter was read from the FRAM and was
\* below the maximum.
LEMMA SdChoiceCounter ==
  ASSUME TypeOK, BlockRead, phase \in InBootloader, ~fram_faulty,
         determine_boot_select(bl) \in SdSlots
  PROVE  /\ bl = fram
         /\ bl.reboot_counter[determine_boot_select(bl)] < MAX_REBOOT
<1>1. bl = fram
  BY UnansweredChoice DEF BlockRead, SdSlots
<1>2. bl.reboot_counter[determine_boot_select(bl)] \in Nat
  BY DEF TypeOK, BootloaderGroup, Slots
<1>3. QED
  BY <1>1, <1>2, SdChoice DEF Exhausted

\* Every step keeps the account of tries: a choice is paid for with a count, with
\* a fault, or is still pending.
LEMMA TriesStep ==
  ASSUME TypeOK, TypeOK', BlockRead, ChoiceMade, [Next]_vars,
         NEW s \in SdSlots, TriesOf(s)
  PROVE  TriesOf(s)'
<1> s \in Slots
  BY DEF Slots
<1>0. /\ attempts[s] \in Nat
      /\ fram.reboot_counter[s] \in Nat
      /\ fram'.reboot_counter[s] \in Nat
      /\ faults \in Nat
  BY DEF TypeOK, BootloaderGroup
<1> USE DEF TriesOf, Pending
<1>1. CASE initialize_all_iobc_peripherals
  BY <1>0, <1>1 DEF initialize_all_iobc_peripherals, Fault
<1>2. CASE perform_bootloader_check
  BY <1>0, <1>2 DEF perform_bootloader_check
<1>3. CASE SelectImage
  <2>1. CASE boot_select' = s
    <3>1. determine_boot_select(bl) = s /\ ~fram_faulty /\ phase \in InBootloader
      BY <1>3, <2>1 DEF SelectImage, SdSlots, InBootloader
    <3>2. fram.reboot_counter[s] < MAX_REBOOT
      BY <3>1, SdChoiceCounter
    <3>3. attempts'[s] = attempts[s] + 1
      BY <1>3, <2>1 DEF SelectImage
    <3>4. attempts[s] <= fram.reboot_counter[s] + faults
      BY <1>0, <1>3 DEF SelectImage
    <3>5. QED
      BY <1>0, <1>3, <2>1, <3>2, <3>3, <3>4 DEF SelectImage
  <2>2. CASE boot_select' # s
    <3>1. attempts'[s] = attempts[s]
      BY <1>0, <1>3, <2>2 DEF SelectImage
    <3>2. QED
      BY <1>0, <1>3, <2>2, <3>1 DEF SelectImage
  <2>3. QED
    BY <2>1, <2>2
<1>4. CASE copy_norflash_binary_to_sdram
  BY <1>0, <1>4 DEF copy_norflash_binary_to_sdram, Fault
<1>5. CASE copy_sdcard_binary_to_sdram
  BY <1>0, <1>5 DEF copy_sdcard_binary_to_sdram
<1>6. CASE increment_reboot_counter_no_os
  <2>1. phase = "count" /\ phase' \notin {"copy", "count"} /\ attempts' = attempts
    BY <1>6 DEF increment_reboot_counter_no_os
  <2>2. CASE Fault /\ fram' = fram
    BY <1>0, <2>1, <2>2 DEF Fault
  <2>3. CASE /\ fram' = [fram EXCEPT !.reboot_counter[boot_select] =
                                     NextCounter(bl.reboot_counter[boot_select])]
             /\ faults' = faults
    <3>1. CASE boot_select = s
      <4>1. /\ determine_boot_select(bl) = s
            /\ ~fram_faulty
            /\ phase \in InBootloader
        BY <2>1, <3>1 DEF ChoiceMade, Choice, SdSlots, InBootloader
      <4>2. bl = fram /\ bl.reboot_counter[s] < MAX_REBOOT
        BY <4>1, SdChoiceCounter
      <4>3. NextCounter(bl.reboot_counter[s]) = fram.reboot_counter[s] + 1
        BY <1>0, <4>2 DEF NextCounter
      <4>4. fram'.reboot_counter[s] = fram.reboot_counter[s] + 1
        BY <2>3, <3>1, <4>3 DEF TypeOK, BootloaderGroup
      <4>5. QED
        BY <1>0, <2>1, <2>3, <3>1, <4>4
    <3>2. CASE boot_select # s
      <4>1. fram'.reboot_counter[s] = fram.reboot_counter[s]
        BY <2>3, <3>2 DEF TypeOK, BootloaderGroup
      <4>2. QED
        BY <1>0, <2>1, <2>3, <3>2, <4>1
    <3>3. QED
      BY <3>1, <3>2
  <2>4. QED
    BY <1>6, <2>2, <2>3 DEF increment_reboot_counter_no_os
<1>7. CASE WatchdogReset
  BY <1>0, <1>7 DEF WatchdogReset, Fault
<1>8. CASE Obsw
  <2>1. /\ phase \notin {"copy", "count"}
        /\ phase' \notin {"copy", "count"}
    BY <1>8, ObswRuns
  <2>2. faults' \in Nat
    BY DEF TypeOK
  <2>3. QED
    BY <1>0, <1>8, <2>1, <2>2, ObswTries DEF KeepsTries
<1>9. CASE SingleEventUpset
  BY <1>0, <1>9 DEF SingleEventUpset, Fault, blVars
<1>10. CASE UNCHANGED vars
  BY <1>0, <1>10 DEF vars, blVars
<1>11. QED
  BY <1>1, <1>2, <1>3, <1>4, <1>5, <1>6, <1>7, <1>8, <1>9, <1>10 DEF Next, Bootloader

\* The inductive invariant holds at the first power-up ...
LEMMA BootInvInit == Init => BootInv
<1> SUFFICES ASSUME Init
             PROVE  BootInv
  OBVIOUS
<1>1. TypeOK
  BY TypeInit
<1>2. BlockRead /\ FlashByDefault /\ ChoiceMade /\ VerdictKept
  BY DEF Init, BlockRead, FlashByDefault, ChoiceMade, VerdictKept, InBootloader
<1>3. BoundedTries
  BY DEF Init, BoundedTries
<1>4. TriesCounted
  BY <1>1 DEF Init, TriesCounted, Pending, TypeOK, BootloaderGroup, Slots
<1>5. QED
  BY <1>1, <1>2, <1>3, <1>4 DEF BootInv

\* ... and is kept by every step.
LEMMA BootInvStep == BootInv /\ [Next]_vars => BootInv'
<1> SUFFICES ASSUME BootInv, [Next]_vars
             PROVE  BootInv'
  OBVIOUS
<1> USE DEF BootInv
<1>1. TypeOK'
  BY TypeStep
<1>2. BlockRead' /\ FlashByDefault' /\ ChoiceMade' /\ VerdictKept'
  BY BlockReadStep, ChoiceMadeStep, VerdictKeptStep
<1>3. \A s \in SdSlots : TriesOf(s)
  BY DEF BoundedTries, TriesCounted, TriesOf
<1>4. \A s \in SdSlots : TriesOf(s)'
  BY <1>1, <1>3, TriesStep
<1>5. BoundedTries' /\ TriesCounted'
  BY <1>4 DEF BoundedTries, TriesCounted, TriesOf
<1>6. QED
  BY <1>1, <1>2, <1>5

\* The inductive invariant: the bootloader works on the block it read, on the
\* choice it made and on the verdict it got, and accounts for every try.
THEOREM BootInvariant == Spec => []BootInv
BY BootInvInit, BootInvStep, PTL DEF Spec

\* No SD card image is tried more than MAX_REBOOT times, and once per fault,
\* between two clearings of its counter.
THEOREM TriesAreBounded == Spec => []BoundedTries
<1>1. BootInv => BoundedTries
  BY DEF BootInv
<1>2. QED
  BY <1>1, BootInvariant, PTL

\* An image whose check is requested is jumped to only with a good verdict, or
\* as the last resort.
THEOREM BootIsVerified == Spec => []VerifiedBoot
<1>1. BootInv => VerifiedBoot
  <2> SUFFICES ASSUME BootInv, phase = "count", ~problem, bl = fram, ~fram_faulty,
                      CheckRequested(boot_select)
               PROVE  \/ checked \in {"ok", "singlebit", "ecc", "fram"}
                      \/ /\ boot_select = "NOR"
                         /\ \A s \in {"NOR", "SD0SL0", "SD1SL0"} : Exhausted(fram, s)
    BY DEF VerifiedBoot
  <2>1. CASE use_hamming
    BY <2>1 DEF BootInv, VerdictKept, CheckRequested
  <2>2. CASE ~use_hamming
    <3>1. boot_select = determine_boot_select(fram) /\ NothingLeft(fram)
      BY <2>2 DEF BootInv, ChoiceMade, Choice, CheckRequested, global_hamming,
                  local_hamming_flag_check
    <3>2. QED
      BY <3>1 DEF NothingLeft, determine_boot_select, PreferredImage, OtherImage
  <2>3. QED
    BY <2>1, <2>2
<1>2. QED
  BY <1>1, BootInvariant, PTL

-------------------------------------------------------------------------------
(* BootChain implements BootPolicy. *)

\* The tries left of the boot policy are tries.
LEMMA TriesLeftType ==
  ASSUME TypeOK
  PROVE  /\ TriesLeft \in [Slots -> 0..MAX_REBOOT]
         /\ \A s \in Slots : TriesLeft[s] = 0 <=> Exhausted(fram, s)
<1>1. \A s \in Slots : fram.reboot_counter[s] \in Nat
  BY DEF TypeOK, BootloaderGroup
<1>2. QED
  BY <1>1 DEF TriesLeft, Exhausted

\* The first power-up is one of the boot policy.
LEMMA PolicyInitLemma == Init => Policy!PolicyInit
<1> SUFFICES ASSUME Init
             PROVE  Policy!PolicyInit
  OBVIOUS
<1>1. TriesLeft \in [Slots -> 0..MAX_REBOOT]
  BY TypeInit, TriesLeftType
<1>2. Slots = Policy!AllImages
  BY DEF Slots, SdSlots, Policy!AllImages, Policy!FlashImage, Policy!UpdateImages,
         Policy!FallbackImages
<1>3. PreferredImage(fram) \in Policy!FallbackImages
  BY DEF PreferredImage, Policy!FallbackImages
<1>4. Running = "none" /\ Trusted \in BOOLEAN
  BY DEF Init, Running, Trusted
<1>5. QED
  BY <1>1, <1>2, <1>3, <1>4 DEF Policy!PolicyInit

\* A command clears one reboot counter at most and keeps the preferred SD card;
\* the OBC restarts only with an unchanged FRAM.
LEMMA ObswBlock ==
  ASSUME TypeOK, Obsw
  PROVE  /\ \/ fram'.reboot_counter = fram.reboot_counter
            \/ \E s \in Slots :
                 fram'.reboot_counter = [fram.reboot_counter EXCEPT ![s] = 0]
         /\ fram'.preferred_sd_card = fram.preferred_sd_card
         /\ boot_select' = boot_select
         /\ phase' = "running" \/ fram' = fram
<1> USE DEF TypeOK, FRAM_writeAndVerify, blVars
<1>1. ASSUME NEW set \in BOOLEAN, manipulateGlobalHammingFlag(set)
      PROVE  /\ fram'.reboot_counter = fram.reboot_counter
             /\ fram'.preferred_sd_card = fram.preferred_sd_card
  BY <1>1 DEF manipulateGlobalHammingFlag, fram_ham_check_flag, BootloaderGroup
<1>2. ASSUME NEW set \in BOOLEAN, NEW t \in Slots, manipulateLocalHammingFlag(set, t)
      PROVE  /\ fram'.reboot_counter = fram.reboot_counter
             /\ fram'.preferred_sd_card = fram.preferred_sd_card
  BY <1>2 DEF manipulateLocalHammingFlag, fram_img_ham_flag, BootloaderGroup
<1>3. ASSUME NEW t \in Slots, resetRebootCounter(t)
      PROVE  /\ \/ fram'.reboot_counter = fram.reboot_counter
                \/ fram'.reboot_counter = [fram.reboot_counter EXCEPT ![t] = 0]
             /\ fram'.preferred_sd_card = fram.preferred_sd_card
  BY <1>3 DEF resetRebootCounter, fram_reset_img_reboot_counter, BootloaderGroup
<1>4. ASSUME ContinueZeroOut
      PROVE  /\ \/ fram'.reboot_counter = fram.reboot_counter
                \/ \E s \in Slots :
                     fram'.reboot_counter = [fram.reboot_counter EXCEPT ![s] = 0]
             /\ fram'.preferred_sd_card = fram.preferred_sd_card
  <2>1. zeroing \in 1..ZeroOutSteps
    BY <1>4 DEF ContinueZeroOut
  <2>2. CASE fram' = fram
    BY <2>2
  <2>3. CASE fram' \in ZeroOutStep(fram, zeroing)
    <3>1. fram'.preferred_sd_card = fram.preferred_sd_card
      BY <2>1, <2>3, ZeroOutPreferred
    <3>2. CASE zeroing \in 7..11
      <4>1. SlotOrder[zeroing - 6] \in Slots
        BY <3>2 DEF SlotOrder, Slots, SdSlots
      <4>2. fram' = fram_reset_img_reboot_counter(fram, SlotOrder[zeroing - 6])
        BY <2>1, <2>3, <3>2, ZeroOutCounters
      <4>3. fram'.reboot_counter =
              [fram.reboot_counter EXCEPT ![SlotOrder[zeroing - 6]] = 0]
        BY <4>1, <4>2 DEF fram_reset_img_reboot_counter, BootloaderGroup
      <4>4. QED
        BY <3>1, <4>1, <4>3
    <3>3. CASE zeroing \notin 7..11
      BY <2>1, <2>3, <3>1, <3>3, ZeroOutCounters
    <3>4. QED
      BY <3>2, <3>3
  <2>4. QED
    BY <1>4, <2>2, <2>3 DEF ContinueZeroOut
<1>5. ASSUME setLoadObswUpdate
      PROVE  /\ fram'.reboot_counter = fram.reboot_counter
             /\ fram'.preferred_sd_card = fram.preferred_sd_card
  <2>1. PICK new \in fram_set_to_load_softwareupdate(fram, FALSE, 0) :
          FRAM_writeAndVerify(new)
    BY <1>5 DEF setLoadObswUpdate
  <2>2. PICK garbage \in BOOLEAN :
          new = [fram EXCEPT !.software_update_available = FALSE,
                             !.software_update_in_volume_0 = TRUE,
                             !.software_update_in_volume_1 = garbage]
    BY <2>1, Zenon DEF fram_set_to_load_softwareupdate
  <2>3. /\ new.reboot_counter = fram.reboot_counter
        /\ new.preferred_sd_card = fram.preferred_sd_card
    BY <2>2 DEF BootloaderGroup
  <2>4. QED
    BY <2>1, <2>3
<1>6. ASSUME copySdCardImageToNorFlash \/ copyImgHammingSdcToFram
      PROVE  /\ fram'.reboot_counter = fram.reboot_counter
             /\ fram'.preferred_sd_card = fram.preferred_sd_card
  BY <1>6 DEF copySdCardImageToNorFlash, copyImgHammingSdcToFram, BootloaderGroup
<1>7. ASSUME StartZeroOut \/ copyBootloaderToNorFlash \/ Restart
      PROVE  fram' = fram
  BY <1>7 DEF StartZeroOut, copyBootloaderToNorFlash, Restart
<1>8. boot_select' = boot_select
  BY DEF Obsw, manipulateGlobalHammingFlag, manipulateLocalHammingFlag,
         resetRebootCounter, StartZeroOut, ContinueZeroOut, setLoadObswUpdate,
       enableHammingCheckForCopying,
         copySdCardImageToNorFlash, copyBootloaderToNorFlash,
         copyImgHammingSdcToFram, Restart
<1>9. phase' = "running" \/ Restart
  BY DEF Obsw, manipulateGlobalHammingFlag, manipulateLocalHammingFlag,
         resetRebootCounter, StartZeroOut, ContinueZeroOut, setLoadObswUpdate,
       enableHammingCheckForCopying,
         copySdCardImageToNorFlash, copyBootloaderToNorFlash,
         copyImgHammingSdcToFram, CoreControllerIdle
<1>10. ASSUME enableHammingCheckForCopying
       PROVE  /\ fram'.reboot_counter = fram.reboot_counter
              /\ fram'.preferred_sd_card = fram.preferred_sd_card
  BY <1>10 DEF enableHammingCheckForCopying, fram_ham_check_flag, BootloaderGroup
<1>11. QED
  BY <1>1, <1>2, <1>3, <1>4, <1>5, <1>6, <1>7, <1>8, <1>9, <1>10 DEF Obsw

\* The images the bootloader chooses from are slots, and differ.
LEMMA ImageNames ==
  /\ Slots = Policy!AllImages
  /\ Slots = {Policy!FlashImage} \cup Policy!UpdateImages \cup Policy!FallbackImages
  /\ Policy!FlashImage = "NOR"
  /\ Policy!UpdateImages = {"SD0SL1", "SD1SL1"}
  /\ Policy!FallbackImages = {"SD0SL0", "SD1SL0"}
BY DEF Slots, SdSlots, Policy!AllImages, Policy!FlashImage, Policy!UpdateImages,
       Policy!FallbackImages

\* A step that keeps the FRAM and does not enter or leave the running phase is a
\* stuttering step of the policy, or a change of trust.
LEMMA QuietStep ==
  ASSUME fram' = fram, Running' = Running, Trusted' \in BOOLEAN
  PROVE  Policy!PolicyNext
<1>1. TriesLeft' = TriesLeft
  BY DEF TriesLeft, Exhausted
<1>2. QED
  BY <1>1 DEF Policy!PolicyNext, Policy!TrustChanges

\* A counter that is written uses up one of the tries.
LEMMA RecordedTry ==
  ASSUME TypeOK, increment_reboot_counter_no_os, ~(fram' = fram /\ Fault),
         bl = fram, ~Exhausted(fram, boot_select)
  PROVE  TriesLeft'[boot_select] = TriesLeft[boot_select] - 1
<1>1. /\ boot_select \in Slots
      /\ fram.reboot_counter[boot_select] \in Nat
      /\ fram.reboot_counter[boot_select] < MAX_REBOOT
  BY DEF TypeOK, BootloaderGroup, Exhausted
<1>2. fram' = [fram EXCEPT !.reboot_counter[boot_select] =
                              NextCounter(fram.reboot_counter[boot_select])]
  BY DEF increment_reboot_counter_no_os
<1>3. NextCounter(fram.reboot_counter[boot_select])
        = fram.reboot_counter[boot_select] + 1
  BY <1>1 DEF NextCounter
<1>4. fram'.reboot_counter[boot_select] = fram.reboot_counter[boot_select] + 1
  BY <1>1, <1>2, <1>3 DEF TypeOK, BootloaderGroup
<1>5. QED
  BY <1>1, <1>4 DEF TriesLeft, Exhausted

\* The bootloader's step from the copied image to the running image or the
\* restart is a try of the image, or starts the flash image as the last resort.
LEMMA CountStep ==
  ASSUME BootInv, TypeOK', increment_reboot_counter_no_os
  PROVE  Policy!PolicyNext
<1> DEFINE s == boot_select
<1>1. /\ phase = "count"
      /\ phase \in InBootloader
      /\ TypeOK
      /\ s \in Slots
      /\ boot_select' = boot_select
      /\ blValid' = blValid
      /\ Running = "none"
      /\ Running' \in {s, "none"}
      /\ Trusted' \in BOOLEAN
  BY DEF BootInv, TypeOK, increment_reboot_counter_no_os, blVars, envVars, Running,
         Trusted, InBootloader
<1>2. /\ TriesLeft \in [Slots -> 0..MAX_REBOOT]
      /\ TriesLeft' \in [Slots -> 0..MAX_REBOOT]
      /\ \A t \in Slots : TriesLeft[t] = 0 <=> Exhausted(fram, t)
  <2>1. \A t \in Slots : fram'.reboot_counter[t] \in Nat
    BY DEF TypeOK, BootloaderGroup
  <2>2. TriesLeft' \in [Slots -> 0..MAX_REBOOT]
    BY <2>1 DEF TriesLeft, Exhausted
  <2>3. QED
    BY <1>1, <2>2, TriesLeftType
<1>3. PreferredImage(fram)' = PreferredImage(fram)
  <2>1. fram'.preferred_sd_card = fram.preferred_sd_card
    BY <1>1 DEF increment_reboot_counter_no_os, TypeOK, BootloaderGroup
  <2>2. QED
    BY <2>1 DEF PreferredImage
<1>4. TriesLeft' = [TriesLeft EXCEPT ![s] = TriesLeft'[s]]
  <2>1. \A t \in Slots \ {s} : fram'.reboot_counter[t] = fram.reboot_counter[t]
    BY <1>1 DEF increment_reboot_counter_no_os, TypeOK, BootloaderGroup
  <2>2. \A t \in Slots \ {s} : TriesLeft'[t] = TriesLeft[t]
    BY <2>1 DEF TriesLeft, Exhausted
  <2>3. QED
    BY <1>2, <2>2
<1>5. faults' # 0 => ~Trusted'
  BY DEF Trusted
<1>6. CASE s = "NOR" /\ (~Trusted' \/ \A t \in {"NOR", "SD0SL0", "SD1SL0"} : Exhausted(fram, t))
  <2>1. Policy!LastResort
    <3>1. \/ ~Trusted'
          \/ \A i \in {Policy!FlashImage} \cup Policy!FallbackImages : TriesLeft[i] = 0
      BY <1>2, <1>6, ImageNames
    <3>2. /\ TriesLeft'["NOR"] \in 0..MAX_REBOOT
          /\ TriesLeft' = [TriesLeft EXCEPT !["NOR"] = TriesLeft'["NOR"]]
      BY <1>2, <1>4, <1>6 DEF Slots
    <3>3. QED
      BY <1>1, <1>3, <1>6, <3>1, <3>2, ImageNames DEF Policy!LastResort
  <2>2. QED
    BY <1>1, <2>1 DEF Policy!PolicyNext
<1>7. CASE /\ s = "NOR"
           /\ Trusted'
           /\ ~\A t \in {"NOR", "SD0SL0", "SD1SL0"} : Exhausted(fram, t)
  <2>1. faults' = 0 /\ faults = 0 /\ ~Fault
    BY <1>1, <1>7 DEF increment_reboot_counter_no_os, Trusted, Fault, TypeOK
  <2>2. bl = fram /\ determine_boot_select(fram) = s
    BY <1>1, <2>1 DEF BootInv, BlockRead, ChoiceMade, Choice
  <2>3. ~Exhausted(fram, "NOR")
    BY <1>7, <2>2 DEF determine_boot_select, UpdateDue, UpdateImage, PreferredImage,
                      OtherImage
  <2>4. TriesLeft'["NOR"] = TriesLeft["NOR"] - 1
    BY <1>1, <1>7, <2>1, <2>2, <2>3, RecordedTry
  <2>5. Policy!Try("NOR")
    <3>1. Policy!IsNext("NOR")
      BY <1>1, <1>2, <2>3, ImageNames DEF Policy!IsNext, Policy!Before, Slots
    <3>2. TriesLeft' = [TriesLeft EXCEPT !["NOR"] = @ - 1]
      BY <1>2, <1>4, <1>7, <2>4 DEF Slots
    <3>3. QED
      BY <1>1, <1>3, <1>7, <3>1, <3>2 DEF Policy!Try
  <2>6. QED
    BY <1>1, <2>5, ImageNames DEF Policy!PolicyNext, Slots
<1>8. CASE s # "NOR"
  <2>1. ~fram_faulty /\ determine_boot_select(bl) = s /\ s \in SdSlots
    BY <1>1, <1>8 DEF BootInv, ChoiceMade, Choice, Slots
  <2>2. bl = fram /\ bl.reboot_counter[s] < MAX_REBOOT
    BY <1>1, <2>1, SdChoiceCounter DEF BootInv
  <2>3. ~Exhausted(fram, s)
    BY <2>1, <2>2, SdChoice
  <2>4. Policy!IsNext(s)
    <3>1. TriesLeft[s] > 0
      BY <1>1, <1>2, <2>3
    <3>2. \A j \in Policy!Before(s) : TriesLeft[j] = 0
      <4>1. s \in {"SD0SL0", "SD1SL0"} =>
              /\ Exhausted(fram, "NOR")
              /\ s # PreferredImage(fram) => Exhausted(fram, PreferredImage(fram))
        BY <2>1, <2>2 DEF determine_boot_select, UpdateDue, UpdateImage, OtherImage,
                          PreferredImage
      <4>2. PreferredImage(fram) \in Slots /\ "NOR" \in Slots
        BY DEF PreferredImage, Slots, SdSlots
      <4>3. QED
        BY <1>2, <4>1, <4>2, ImageNames DEF Policy!Before
    <3>3. QED
      BY <1>1, <3>1, <3>2 DEF Policy!IsNext
  <2>5. CASE fram' = fram /\ Fault
    <3>1. CASE Running' = s
      <4>1. TriesLeft' = TriesLeft /\ ~Trusted'
        BY <1>5, <2>5, <1>1 DEF TriesLeft, Exhausted, Fault, TypeOK
      <4>2. Policy!TryUnrecorded(s)
        BY <1>3, <2>4, <3>1, <4>1 DEF Policy!TryUnrecorded
      <4>3. QED
        BY <1>1, <4>2, ImageNames DEF Policy!PolicyNext
    <3>2. CASE Running' = "none"
      BY <1>1, <2>5, <3>2, QuietStep
    <3>3. QED
      BY <1>1, <3>1, <3>2
  <2>6. CASE ~(fram' = fram /\ Fault)
    <3>1. TriesLeft'[s] = TriesLeft[s] - 1
      BY <1>1, <2>2, <2>3, <2>6, RecordedTry
    <3>2. TriesLeft' = [TriesLeft EXCEPT ![s] = @ - 1]
      BY <1>1, <1>2, <1>4, <3>1
    <3>3. Policy!Try(s)
      BY <1>1, <1>3, <2>4, <3>2 DEF Policy!Try
    <3>4. QED
      BY <1>1, <3>3, ImageNames DEF Policy!PolicyNext
  <2>7. QED
    BY <2>5, <2>6
<1>9. QED
  BY <1>1, <1>6, <1>7, <1>8

\* Every step of the boot chain is one of the boot policy, or none at all.
LEMMA PolicyStep == BootInv /\ TypeOK' /\ [Next]_vars => [Policy!PolicyNext]_Policy!policyVars
<1> SUFFICES ASSUME BootInv, TypeOK', [Next]_vars
             PROVE  Policy!PolicyNext \/ UNCHANGED Policy!policyVars
  BY DEF Policy!policyVars
<1> Trusted' \in BOOLEAN
  BY DEF TypeOK, Trusted
<1>1. CASE initialize_all_iobc_peripherals
  BY <1>1, QuietStep DEF initialize_all_iobc_peripherals, Running
<1>2. CASE perform_bootloader_check
  <2>1. fram' = fram /\ Running = "none" /\ boot_select = "NOR" /\ boot_select' = "NOR"
    BY <1>2 DEF perform_bootloader_check, Running, BootInv, FlashByDefault
  <2>2. CASE blValid
    BY <1>2, <2>1, <2>2, QuietStep DEF perform_bootloader_check, Running
  <2>3. CASE ~blValid
    <3>1. Running' = "NOR" /\ ~Trusted'
      BY <1>2, <2>1, <2>3 DEF perform_bootloader_check, Running, Trusted, envVars
    <3>2. TriesLeft' = TriesLeft /\ PreferredImage(fram)' = PreferredImage(fram)
      BY <2>1 DEF TriesLeft, Exhausted, PreferredImage
    <3>3. /\ TriesLeft["NOR"] \in 0..MAX_REBOOT
          /\ TriesLeft = [TriesLeft EXCEPT !["NOR"] = TriesLeft["NOR"]]
      BY TriesLeftType DEF BootInv, Slots
    <3>4. Policy!LastResort
      BY <2>1, <3>1, <3>2, <3>3, ImageNames DEF Policy!LastResort
    <3>5. QED
      BY <3>4 DEF Policy!PolicyNext
  <2>4. QED
    BY <2>2, <2>3
<1>3. CASE SelectImage
  BY <1>3, QuietStep DEF SelectImage, Running
<1>4. CASE copy_norflash_binary_to_sdram
  BY <1>4, QuietStep DEF copy_norflash_binary_to_sdram, Running
<1>5. CASE copy_sdcard_binary_to_sdram
  BY <1>5, QuietStep DEF copy_sdcard_binary_to_sdram, Running
<1>6. CASE increment_reboot_counter_no_os
  BY <1>6, CountStep
<1>7. CASE WatchdogReset
  BY <1>7, QuietStep DEF WatchdogReset, Running
<1>8. CASE Obsw
  <2>1. TypeOK /\ phase = "running" /\ phase' \in {"running", "reset"}
    BY <1>8, ObswRuns DEF BootInv
  <2>2. boot_select' = boot_select /\ Running # "none" /\ Running = boot_select
    BY <1>8, <2>1, ObswBlock DEF Running, TypeOK, Slots, SdSlots
  <2>3. PreferredImage(fram)' = PreferredImage(fram)
    BY <1>8, <2>1, ObswBlock DEF PreferredImage
  <2>4. CASE fram'.reboot_counter = fram.reboot_counter
    <3>1. TriesLeft' = TriesLeft
      BY <2>4 DEF TriesLeft, Exhausted
    <3>2. CASE phase' = "running"
      <4>1. Policy!TrustChanges
        BY <2>1, <2>2, <2>3, <3>1, <3>2 DEF Policy!TrustChanges, Running
      <4>2. QED
        BY <4>1 DEF Policy!PolicyNext
    <3>3. CASE phase' = "reset"
      <4>1. Policy!Stop
        BY <2>2, <2>3, <3>1, <3>3 DEF Policy!Stop, Running
      <4>2. QED
        BY <4>1 DEF Policy!PolicyNext
    <3>4. QED
      BY <2>1, <3>2, <3>3
  <2>5. CASE fram'.reboot_counter # fram.reboot_counter
    <3>1. PICK s \in Slots :
            fram'.reboot_counter = [fram.reboot_counter EXCEPT ![s] = 0]
      BY <1>8, <2>1, <2>5, ObswBlock
    <3>2. phase' = "running" /\ Running' = Running
      BY <1>8, <2>1, <2>2, <2>5, ObswBlock DEF Running
    <3>3. TriesLeft' = [TriesLeft EXCEPT ![s] = MAX_REBOOT]
      <4>1. \A t \in Slots : fram'.reboot_counter[t] = IF t = s THEN 0
                                                       ELSE fram.reboot_counter[t]
        BY <2>1, <3>1 DEF TypeOK, BootloaderGroup
      <4>2. \A t \in Slots : TriesLeft'[t] = IF t = s THEN MAX_REBOOT ELSE TriesLeft[t]
        BY <4>1 DEF TriesLeft, Exhausted
      <4>3. QED
        BY <4>2 DEF TriesLeft
    <3>4. Policy!Refill(s)
      BY <2>2, <2>3, <3>2, <3>3 DEF Policy!Refill
    <3>5. QED
      BY <3>4, ImageNames DEF Policy!PolicyNext
  <2>6. QED
    BY <2>4, <2>5
<1>9. CASE SingleEventUpset
  BY <1>9, QuietStep DEF SingleEventUpset, Running, blVars
<1>10. CASE UNCHANGED vars
  BY <1>10 DEF vars, blVars, envVars, Policy!policyVars, TriesLeft, Exhausted, Running,
               Trusted
<1>11. QED
  BY <1>1, <1>2, <1>3, <1>4, <1>5, <1>6, <1>7, <1>8, <1>9, <1>10 DEF Next, Bootloader

\* Every behaviour of the boot chain is one of the boot policy, whatever the
\* FRAM held at first and whatever fails.
THEOREM ImplementsPolicy == Spec => ImplementsBootPolicy
<1>1. BootInv /\ BootInv' /\ [Next]_vars => [Policy!PolicyNext]_Policy!policyVars
  BY PolicyStep DEF BootInv
<1>2. QED
  BY <1>1, PolicyInitLemma, BootInvariant, PTL
     DEF Spec, ImplementsBootPolicy, Policy!PolicySpec
===============================================================================
