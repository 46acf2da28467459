------------------------------- MODULE BootChain -------------------------------
(***************************************************************************)
(* The iOBC boot chain: the NOR flash bootloader (bootloader/iobc,         *)
(* bootloader/common), the FRAM block it shares with the OBSW, and the     *)
(* OBSW commands that change that block (CoreController, SDCardHandler).   *)
(* Modelled build: no FreeRTOS, polled FRAM driver, HCC file system, CRC   *)
(* check enabled.                                                          *)
(*                                                                         *)
(* The bootloader runs through the phases                                  *)
(*    reset -> check -> select -> copy -> count -> running                 *)
(* and goes back to reset where the code calls restart().  A watchdog      *)
(* reset may strike between any two phases.  The polled FRAM driver has no *)
(* error path: a FRAM that does not answer reads as all ones or all zeros, *)
(* and a write it does not accept is lost without notice.                  *)
(***************************************************************************)
EXTENDS FramBlock

CONSTANTS InitialBlocks,    \* FRAM contents the first boot may find
          MaxFaults,        \* bound on hardware faults and watchdog resets
          MaxCommands       \* bound on telecommands that change FRAM or flash

ASSUME BootAssumption ==
  /\ InitialBlocks \subseteq BootloaderGroup
  /\ MaxFaults \in Nat
  /\ MaxCommands \in Nat

VARIABLES
  fram,         \* bootloader group in the FRAM
  bl,           \* bl_fram_block, the bootloader's copy of it in RAM
  fram_faulty,  \* the FRAM driver could not be started
  phase,        \* where the boot is
  boot_select,  \* image the bootloader decided for
  use_hamming,  \* whether the image is to be checked
  checked,      \* verdict of this boot's hamming check, or "none"
  problem,      \* the copy or the check failed: restart instead of jump
  loaded,       \* image that is in the SDRAM, or "none"
  sram,         \* status field at the end of SRAM0, survives a restart
  norImage,     \* what a hamming check of the NOR flash image finds
  blValid,      \* the bootloader's CRC16 field matches the bootloader
  zeroing,      \* next write of a zero-out command of the OBSW, 0: none
  faults,       \* faults and watchdog resets so far
  commands,     \* telecommands executed so far
  attempts      \* history: times an SD card image was chosen since its counter
                \* was last cleared

blVars == <<bl, fram_faulty, boot_select, use_hamming, checked, problem, loaded>>
envVars == <<norImage, blValid>>
vars == <<fram, blVars, phase, sram, zeroing, envVars, faults, commands, attempts>>

Phases == {"reset", "check", "select", "copy", "count", "running"}
Verdicts == {"ok", "singlebit", "ecc", "multibit"}
SramStatus == {"SRAM_OK", "SINGLE_BIT", "ECC", "MULTIBIT", "FRAM_ISSUES",
               "BOOTLOADER_INVALID"}

-------------------------------------------------------------------------------
(* Decisions of the bootloader. *)

Exhausted_OneTryMore(b, s) == b.reboot_counter[s] > MAX_REBOOT
Exhausted(b, s) == b.reboot_counter[s] >= MAX_REBOOT

PreferredImage(b) ==
  IF b.preferred_sd_card \in {0, 1, UNINITIALIZED} THEN "SD0SL0" ELSE "SD1SL0"

OtherImage(b) ==
  IF PreferredImage(b) = "SD0SL0" THEN "SD1SL0" ELSE "SD0SL0"

\* Slot 1 of the SD card that holds the software update, if one is to be loaded.
UpdateImage(b) ==
  IF ~b.software_update_available THEN "none"
  ELSE IF b.software_update_in_volume_0 THEN "SD0SL1"
  ELSE IF b.software_update_in_volume_1 THEN "SD1SL1"
  ELSE "none"

\* An update is flagged and has tries left.
UpdateDue(b) == UpdateImage(b) # "none" /\ ~Exhausted(b, UpdateImage(b))

determine_boot_select_SdBeforeNor(b) ==
  IF UpdateDue(b) THEN UpdateImage(b)
  ELSE IF ~Exhausted(b, PreferredImage(b)) THEN PreferredImage(b)
  ELSE "NOR"
determine_boot_select(b) ==
  IF UpdateDue(b) THEN UpdateImage(b)
  ELSE IF ~Exhausted(b, "NOR") THEN "NOR"
  ELSE IF ~Exhausted(b, PreferredImage(b)) THEN PreferredImage(b)
  ELSE IF ~Exhausted(b, OtherImage(b)) THEN OtherImage(b)
  ELSE "NOR"

\* Every image is out of tries: NOR flash is booted without a check.
NothingLeft(b) ==
  ~UpdateDue(b) /\ \A s \in {"NOR", "SD0SL0", "SD1SL0"} : Exhausted(b, s)

\* The use_hamming result of determine_boot_select.
global_hamming_CheckLastResort(b) == b.global_hamming_flag
global_hamming(b) == b.global_hamming_flag /\ ~NothingLeft(b)

local_hamming_flag_check(b, s) == b.hamming_flag[s]

\* The file copy_with_hcc_lib opens: slot 1 is chosen for SD card 0 only.
slot_name(s) == IF s = "SD1SL1" THEN "SD1SL0" ELSE s

\* uint16_t increment of increment_reboot_counter_no_os; 0xff counts as unset.
NextCounter_Unbounded(c) == IF c = UNINITIALIZED THEN 1 ELSE c + 1
NextCounter(c) == IF c = UNINITIALIZED THEN 1 ELSE (c + 1) % CounterModulus

\* SRAM status set by handle_hamming_code_result, and its return value.
StatusOf(verdict) ==
  CASE verdict = "ok" -> "SRAM_OK"
    [] verdict = "singlebit" -> "SINGLE_BIT"
    [] verdict = "ecc" -> "ECC"
    [] verdict = "multibit" -> "MULTIBIT"
    [] verdict = "fram" -> "FRAM_ISSUES"

CheckFails_EccInstead(verdict) == verdict = "ecc"
CheckFails(verdict) == verdict = "multibit"

-------------------------------------------------------------------------------
Init ==
  /\ fram \in InitialBlocks
  /\ bl = ZeroBlock
  /\ fram_faulty = FALSE
  /\ phase = "reset"
  /\ boot_select = "NOR"
  /\ use_hamming = FALSE
  /\ checked = "none"
  /\ problem = FALSE
  /\ loaded = "none"
  /\ sram = "SRAM_OK"
  /\ norImage \in Verdicts
  /\ blValid \in BOOLEAN
  /\ zeroing = 0
  /\ faults = 0
  /\ commands = 0
  /\ attempts = [s \in SdSlots |-> 0]

\* A fault, or a telecommand, that still fits into the bound.
Fault == faults < MaxFaults /\ faults' = faults + 1
Command == commands < MaxCommands /\ commands' = commands + 1

(***************************************************************************)
(* The bootloader.                                                         *)
(***************************************************************************)

\* The polled read of the bootloader block reports success whatever the FRAM
\* answers; fram_faulty is set only if the driver could not be started.
initialize_all_iobc_peripherals ==
  /\ phase = "reset"
  /\ \/ bl' = fram /\ fram_faulty' = FALSE /\ UNCHANGED faults
     \/ bl' \in UnansweredReads /\ fram_faulty' = FALSE /\ Fault
     \/ bl' \in {fram} \cup UnansweredReads /\ fram_faulty' = TRUE /\ Fault
  /\ phase' = "check"
  /\ boot_select' = "NOR"
  /\ use_hamming' = FALSE
  /\ checked' = "none"
  /\ problem' = FALSE
  /\ loaded' = "none"
  /\ UNCHANGED <<fram, sram, zeroing, envVars, commands, attempts>>

\* An invalid bootloader jumps to the NOR flash image at once, without a look
\* at the FRAM.  A blank CRC field is checked like any other.
perform_bootloader_check ==
  /\ phase = "check"
  /\ IF blValid
     THEN /\ phase' = "select"
          /\ UNCHANGED <<loaded, sram>>
     ELSE /\ phase' = "running"
          /\ loaded' = "NOR"
          /\ sram' = "BOOTLOADER_INVALID"
  /\ UNCHANGED <<fram, bl, fram_faulty, boot_select, use_hamming, checked, problem,
                 zeroing, envVars, faults, commands, attempts>>

\* First part of perform_iobc_copy_operation_to_sdram.
SelectImage ==
  LET s == IF fram_faulty THEN "NOR" ELSE determine_boot_select(bl)
  IN  /\ phase = "select"
      /\ boot_select' = s
      /\ use_hamming' = (/\ ~fram_faulty
                         /\ global_hamming(bl)
                         /\ local_hamming_flag_check(bl, s))
      /\ phase' = "copy"
      /\ attempts' = [t \in SdSlots |-> attempts[t] + IF t = s THEN 1 ELSE 0]
      /\ UNCHANGED <<fram, bl, fram_faulty, checked, problem, loaded, sram,
                     zeroing, envVars, faults, commands>>

\* handle_hamming_code_check found v; handle_hamming_code_result.
handle_hamming_code_result(v) ==
  /\ checked' = v
  /\ sram' = StatusOf(v)
  /\ problem' = CheckFails(v)

\* The NOR flash image is checked only if its size fields look plausible.
NorSizesPlausible(b) ==
  /\ b.nor_flash_hamming_code_size = "valid"
  /\ b.nor_flash_binary_size \notin {"zero", "blank"}

\* The hamming code comes from the FRAM: if that does not answer, the code is
\* all ones and the verdict is about the wrong code.
copy_norflash_binary_to_sdram ==
  LET check == use_hamming /\ NorSizesPlausible(bl)
  IN  /\ phase = "copy"
      /\ boot_select = "NOR"
      /\ loaded' = "NOR"
      /\ \/ /\ ~check
            /\ problem' = FALSE
            /\ UNCHANGED <<checked, sram, faults>>
         \/ /\ check
            /\ handle_hamming_code_result(norImage)
            /\ UNCHANGED faults
         \/ /\ check
            /\ Fault
            /\ \E v \in Verdicts : handle_hamming_code_result(v)
      /\ phase' = "count"
      /\ UNCHANGED <<fram, bl, fram_faulty, boot_select, use_hamming,
                     zeroing, envVars, commands, attempts>>

\* The file can be missing or unreadable.  The hamming code size is passed to
\* handle_hamming_code_check through a declaration that lacks the parameter, so
\* the code that is read, and with it the verdict, can be anything.
copy_sdcard_binary_to_sdram ==
  /\ phase = "copy"
  /\ boot_select # "NOR"
  /\ \/ /\ problem' = TRUE
        /\ UNCHANGED <<loaded, checked, sram>>
     \/ /\ ~use_hamming
        /\ loaded' = slot_name(boot_select)
        /\ problem' = FALSE
        /\ UNCHANGED <<checked, sram>>
     \/ /\ use_hamming
        /\ loaded' = slot_name(boot_select)
        /\ \E v \in Verdicts \cup {"fram"} : handle_hamming_code_result(v)
  /\ phase' = "count"
  /\ UNCHANGED <<fram, bl, fram_faulty, boot_select, use_hamming,
                 zeroing, envVars, faults, commands, attempts>>

increment_reboot_counter_OnProblemOnly ==
  /\ phase = "count"
  /\ fram' = IF problem
             THEN [fram EXCEPT !.reboot_counter[boot_select] =
                                  NextCounter(bl.reboot_counter[boot_select])]
             ELSE fram
  /\ phase' = IF problem THEN "reset" ELSE "running"
  /\ UNCHANGED <<blVars, sram, zeroing, envVars, faults, commands, attempts>>

\* increment_reboot_counter_no_os writes the counter found in the RAM copy plus
\* one, after a successful copy as well as after a problem; after a problem the
\* OBC restarts, otherwise the bootloader jumps to the SDRAM.  The polled
\* driver does not notice a write that is lost.
increment_reboot_counter_no_os ==
  LET s == boot_select
  IN  /\ phase = "count"
      /\ \/ /\ fram' = [fram EXCEPT !.reboot_counter[s] =
                                       NextCounter(bl.reboot_counter[s])]
            /\ UNCHANGED faults
         \/ /\ Fault
            /\ UNCHANGED fram
      /\ phase' = IF problem THEN "reset" ELSE "running"
      /\ UNCHANGED <<blVars, sram, zeroing, envVars, commands, attempts>>

\* The watchdog, the supervisor or a brown-out resets the OBC in the bootloader.
WatchdogReset ==
  /\ phase \notin {"reset", "running"}
  /\ Fault
  /\ phase' = "reset"
  /\ UNCHANGED <<fram, blVars, sram, zeroing, envVars, commands, attempts>>

Bootloader ==
  \/ initialize_all_iobc_peripherals
  \/ perform_bootloader_check
  \/ SelectImage
  \/ copy_norflash_binary_to_sdram
  \/ copy_sdcard_binary_to_sdram
  \/ increment_reboot_counter_no_os

(***************************************************************************)
(* The OBSW.  FRAM_writeAndVerify may fail: the command is then answered   *)
(* with an error and the FRAM holds the old or the new value.              *)
(***************************************************************************)
FRAM_writeAndVerify(new) ==
  \/ fram' = new /\ UNCHANGED faults
  \/ fram' = fram /\ Fault

\* The core controller handles one command at a time, so it is not zeroing.
CoreControllerIdle == phase = "running" /\ zeroing = 0

manipulateGlobalHammingFlag(set) ==
  /\ CoreControllerIdle
  /\ Command
  /\ FRAM_writeAndVerify(fram_ham_check_flag(fram, set))
  /\ UNCHANGED <<blVars, phase, sram, zeroing, envVars, attempts>>

manipulateLocalHammingFlag(set, s) ==
  /\ CoreControllerIdle
  /\ Command
  /\ FRAM_writeAndVerify(fram_img_ham_flag(fram, s, set))
  /\ UNCHANGED <<blVars, phase, sram, zeroing, envVars, attempts>>

\* The tries of an image count anew once its counter is clear.
ResetHistory(s) ==
  attempts' = [t \in SdSlots |->
                 IF t = s /\ fram'.reboot_counter[t] = 0 THEN 0 ELSE attempts[t]]

resetRebootCounter(s) ==
  /\ CoreControllerIdle
  /\ Command
  /\ FRAM_writeAndVerify(fram_reset_img_reboot_counter(fram, s))
  /\ ResetHistory(s)
  /\ UNCHANGED <<blVars, phase, sram, zeroing, envVars>>

\* ZERO_OUT_FRAM_DEFAULT_ZERO_FIELD, up to the first write.
StartZeroOut ==
  /\ CoreControllerIdle
  /\ Command
  /\ zeroing' = 1
  /\ UNCHANGED <<fram, blVars, phase, sram, envVars, faults, attempts>>

\* The next write; a failed one ends the command.
ContinueZeroOut ==
  /\ phase = "running"
  /\ zeroing > 0
  /\ \/ /\ fram' \in ZeroOutStep(fram, zeroing)
        /\ zeroing' = IF zeroing = ZeroOutSteps THEN 0 ELSE zeroing + 1
        /\ UNCHANGED faults
     \/ /\ fram' \in {fram} \cup ZeroOutStep(fram, zeroing)
        /\ zeroing' = 0
        /\ Fault
  /\ IF zeroing \in 7..11 THEN ResetHistory(SlotOrder[zeroing - 6])
                          ELSE UNCHANGED attempts
  /\ UNCHANGED <<blVars, phase, sram, envVars, commands>>

\* SET_LOAD_OBSW_UPDATE of the SD card handler, another task: a request to
\* enable an update fails the test of the volume, whatever the volume.
setLoadObswUpdate ==
  /\ phase = "running"
  /\ Command
  /\ \E new \in fram_set_to_load_softwareupdate(fram, FALSE, 0) :
       FRAM_writeAndVerify(new)
  /\ UNCHANGED <<blVars, phase, sram, zeroing, envVars, attempts>>

\* ENABLE_HAMMING_CODE_CHECK_FOR_COPYING of the image handler, another task, sets
\* the flag that the bootloader reads; a zero-out may be under way.
enableHammingCheckForCopying ==
  /\ phase = "running"
  /\ Command
  /\ FRAM_writeAndVerify(fram_ham_check_flag(fram, TRUE))
  /\ UNCHANGED <<blVars, phase, sram, zeroing, envVars, attempts>>

\* The image copying engine, another task, erases or writes a part of the NOR
\* flash image; before the first bucket it records the size of the image.  The
\* hamming code in the FRAM is still the one of the previous image.
copySdCardImageToNorFlash ==
  /\ phase = "running"
  /\ Command
  /\ norImage' \in Verdicts
  /\ \/ UNCHANGED <<fram, faults>>
     \/ FRAM_writeAndVerify([fram EXCEPT !.nor_flash_binary_size = "valid"])
  /\ UNCHANGED <<blVars, phase, sram, zeroing, blValid, attempts>>

\* The same for the bootloader, which is unusable until its CRC is written.
copyBootloaderToNorFlash ==
  /\ phase = "running"
  /\ Command
  /\ blValid' \in BOOLEAN
  /\ UNCHANGED <<fram, blVars, phase, sram, zeroing, norImage, faults, attempts>>

\* The engine writes the size of the NOR flash hamming code, then the code.
copyImgHammingSdcToFram ==
  /\ phase = "running"
  /\ Command
  /\ norImage' \in Verdicts
  /\ FRAM_writeAndVerify([fram EXCEPT !.nor_flash_hamming_code_size = "valid"])
  /\ UNCHANGED <<blVars, phase, sram, zeroing, blValid, attempts>>

\* RESET_OBC, POWERCYCLE_OBC or a crash of the OBSW, also in a zero-out.
Restart ==
  /\ phase = "running"
  /\ phase' = "reset"
  /\ zeroing' = 0
  /\ UNCHANGED <<fram, blVars, sram, envVars, faults, commands, attempts>>

Obsw ==
  \/ \E set \in BOOLEAN : manipulateGlobalHammingFlag(set)
  \/ \E set \in BOOLEAN, s \in Slots : manipulateLocalHammingFlag(set, s)
  \/ \E s \in Slots : resetRebootCounter(s)
  \/ StartZeroOut
  \/ ContinueZeroOut
  \/ setLoadObswUpdate
  \/ enableHammingCheckForCopying
  \/ copySdCardImageToNorFlash
  \/ copyBootloaderToNorFlash
  \/ copyImgHammingSdcToFram
  \/ Restart

(***************************************************************************)
(* The environment: radiation changes the NOR flash image.                 *)
(***************************************************************************)
SingleEventUpset ==
  /\ Fault
  /\ norImage' \in Verdicts \ {norImage}
  /\ UNCHANGED <<fram, blVars, phase, sram, zeroing, blValid, commands, attempts>>

Next == Bootloader \/ WatchdogReset \/ Obsw \/ SingleEventUpset

Spec == Init /\ [][Next]_vars

(***************************************************************************)
(* A mission whose OBSW crashes sooner or later after every boot, while    *)
(* the ground does not intervene.  The bootloader is a single thread with  *)
(* nothing above it but the interrupt that kicks the watchdog, so it goes  *)
(* on as long as it can.                                                   *)
(***************************************************************************)
CrashLoop == Bootloader \/ WatchdogReset \/ SingleEventUpset \/ Restart

CrashLoopSpec ==
  Init /\ [][CrashLoop]_vars /\ WF_vars(Bootloader) /\ WF_vars(Restart)

-------------------------------------------------------------------------------
\* The FRAM block, the bootloader's copy of it and its decisions have their types;
\* the reboot counters stay uint16_t values.
TypeOK ==
  /\ fram \in BootloaderGroup
  /\ bl \in BootloaderGroup
  /\ fram_faulty \in BOOLEAN
  /\ phase \in Phases
  /\ boot_select \in Slots
  /\ use_hamming \in BOOLEAN
  /\ checked \in Verdicts \cup {"fram", "none"}
  /\ problem \in BOOLEAN
  /\ loaded \in Slots \cup {"none"}
  /\ sram \in SramStatus
  /\ norImage \in Verdicts
  /\ blValid \in BOOLEAN
  /\ zeroing \in 0..ZeroOutSteps
  /\ faults \in 0..MaxFaults
  /\ commands \in 0..MaxCommands
  /\ attempts \in [SdSlots -> Nat]

\* No SD card image is tried without end: between two clearings of its reboot
\* counter it is chosen MAX_REBOOT times at most, and once more for each fault
\* (a reset before the counter is written, or a write the FRAM did not take).
BoundedTries == \A s \in SdSlots : attempts[s] <= MAX_REBOOT + faults

\* The FRAM asks for a hamming check of image s, and the check can be made.
CheckRequested(s) ==
  /\ fram.global_hamming_flag
  /\ fram.hamming_flag[s]
  /\ s = "NOR" => NorSizesPlausible(fram)

\* An image whose check is requested is jumped to only after a check that found
\* no uncorrectable error, unless the flash image is all that is left: the
\* request survives the choice of the image, the copy and the counter.
VerifiedBoot ==
  /\ phase = "count"
  /\ ~problem
  /\ bl = fram
  /\ ~fram_faulty
  /\ CheckRequested(boot_select)
  => \/ checked \in {"ok", "singlebit", "ecc", "fram"}
     \/ boot_select = "NOR" /\ \A s \in {"NOR", "SD0SL0", "SD1SL0"} : Exhausted(fram, s)

\* The boot chain implements the abstract boot policy: every recorded try uses
\* up one of the image's tries, and an SD card image is tried only when the
\* flash image, and the preferred SD card's image before the other one, have
\* none left; without a fault the flash image is started out of tries only
\* after both SD card images.
TriesLeft ==
  [s \in Slots |-> IF Exhausted(fram, s) THEN 0
                   ELSE MAX_REBOOT - fram.reboot_counter[s]]

Running == IF phase = "running" THEN boot_select ELSE "none"

Trusted == faults = 0 /\ blValid

Policy == INSTANCE BootPolicy WITH Tries <- MAX_REBOOT, left <- TriesLeft,
                                   preferred <- PreferredImage(fram),
                                   running <- Running,
                                   trusted <- Trusted

ImplementsBootPolicy == Policy!PolicySpec

\* Whatever the images, the FRAM and the faults are, every boot reaches an
\* image: no sequence of failing copies and checks restarts the OBC for ever.
AlwaysBoots == phase = "reset" ~> phase = "running"

\* An OBSW that crashes after every boot is left behind: with a valid
\* bootloader both SD card images that have tries left get their turn.
Failover ==
  \A s \in {"SD0SL0", "SD1SL0"} :
    blValid /\ fram.reboot_counter[s] = 0 ~> boot_select = s

\* The image the bootloader decided for is the one it loads: an update boot
\* loads the file in the update slot.
LoadsSelectedImage ==
  phase = "count" /\ ~problem => loaded = boot_select

\* An image that fails its check with an ECC error is not jumped to.
EccErrorRestarts ==
  phase = "count" /\ checked \in {"ecc", "multibit"} => problem
===============================================================================
