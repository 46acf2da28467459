------------------------------- MODULE FramBlock -------------------------------
(***************************************************************************)
(* The bootloader group of the FRAM critical data block                    *)
(* (bsp_sam9g20/common/fram/CommonFRAM.h) and the operations of the FRAM   *)
(* API that write it (FRAMApi.c), as operators from one block to the next. *)
(*                                                                         *)
(* A flag is abstracted to "equals FRAM_TRUE": every reader compares with  *)
(* that value only.  A size field is abstracted to the classes its readers *)
(* tell apart.  Reboot counters and the preferred SD card keep their       *)
(* 16-bit width: CounterModulus stands for 2^16, UNINITIALIZED for 0xff.   *)
(***************************************************************************)
EXTENDS Integers, Sequences

CONSTANTS MAX_REBOOT,       \* BOOTLOADER_MAX_REBOOT_COUNTER
          UNINITIALIZED,    \* 0xff, a reboot counter that "might be unset"
          CounterModulus    \* 2^16, the width of a reboot counter

ASSUME CounterAssumption ==
  /\ MAX_REBOOT \in Nat \ {0}
  /\ UNINITIALIZED \in Nat
  /\ CounterModulus \in Nat
  /\ MAX_REBOOT < UNINITIALIZED
  /\ UNINITIALIZED + 1 < CounterModulus

\* SlotType, in the order of the enumeration.
SlotOrder == <<"NOR", "SD0SL0", "SD0SL1", "SD1SL0", "SD1SL1">>
SdSlots == {"SD0SL0", "SD0SL1", "SD1SL0", "SD1SL1"}
Slots == {"NOR"} \cup SdSlots

\* Classes of a size_t field: 0, 0xff, 0xffffffff, or a plausible size.
SizeClass == {"zero", "ff", "blank", "valid"}

BootloaderGroup ==
  [preferred_sd_card           : 0..(CounterModulus - 1),
   global_hamming_flag         : BOOLEAN,
   hamming_flag                : [Slots -> BOOLEAN],
   reboot_counter              : [Slots -> 0..(CounterModulus - 1)],
   nor_flash_binary_size       : SizeClass,
   nor_flash_hamming_code_size : SizeClass,
   software_update_available   : BOOLEAN,
   software_update_in_volume_0 : BOOLEAN,
   software_update_in_volume_1 : BOOLEAN]

\* A block of all ones: a FRAM that was never written.
BlankBlock ==
  [preferred_sd_card           |-> CounterModulus - 1,
   global_hamming_flag         |-> FALSE,
   hamming_flag                |-> [s \in Slots |-> FALSE],
   reboot_counter              |-> [s \in Slots |-> CounterModulus - 1],
   nor_flash_binary_size       |-> "blank",
   nor_flash_hamming_code_size |-> "blank",
   software_update_available   |-> FALSE,
   software_update_in_volume_0 |-> FALSE,
   software_update_in_volume_1 |-> FALSE]

\* A block of all zeros.
ZeroBlock ==
  [preferred_sd_card           |-> 0,
   global_hamming_flag         |-> FALSE,
   hamming_flag                |-> [s \in Slots |-> FALSE],
   reboot_counter              |-> [s \in Slots |-> 0],
   nor_flash_binary_size       |-> "zero",
   nor_flash_hamming_code_size |-> "zero",
   software_update_available   |-> FALSE,
   software_update_in_volume_0 |-> FALSE,
   software_update_in_volume_1 |-> FALSE]

\* What the SPI bus delivers if the FRAM does not answer.
UnansweredReads == {BlankBlock, ZeroBlock}

-------------------------------------------------------------------------------
\* fram_set_ham_check_flag and fram_clear_ham_check_flag.
fram_ham_check_flag(b, set) == [b EXCEPT !.global_hamming_flag = set]

\* fram_set_img_ham_flag and fram_clear_img_ham_flag.
fram_img_ham_flag(b, s, set) == [b EXCEPT !.hamming_flag[s] = set]

fram_reset_img_reboot_counter(b, s) == [b EXCEPT !.reboot_counter[s] = 0]

fram_write_binary_size_zero(b) == [b EXCEPT !.nor_flash_binary_size = "zero"]

fram_write_ham_size_zero(b) == [b EXCEPT !.nor_flash_hamming_code_size = "zero"]

\* The set of blocks the call may leave: one of the two volume bytes is written
\* from an uninitialized element of raw_data.
fram_set_to_load_softwareupdate(b, enable, volume) ==
  {[b EXCEPT !.software_update_available = enable,
             !.software_update_in_volume_0 = IF volume = 0 THEN TRUE ELSE garbage,
             !.software_update_in_volume_1 = IF volume = 0 THEN garbage ELSE TRUE]
     : garbage \in BOOLEAN}

(***************************************************************************)
(* fram_zero_out_default_zero_fields is a sequence of writes; each may     *)
(* fail, which ends the sequence.  ZeroOutStep(b, k) is the set of blocks  *)
(* the k-th write may leave.  Writes to fields that the bootloader never   *)
(* reads (SD card hamming sizes, bootloader fields) are left out.          *)
(***************************************************************************)
ZeroOutSteps == 14

ZeroOutStep(b, k) ==
  IF k = 1 THEN {fram_ham_check_flag(b, FALSE)}
  ELSE IF k \in 2..6 THEN {fram_img_ham_flag(b, SlotOrder[k - 1], FALSE)}
  ELSE IF k \in 7..11 THEN {fram_reset_img_reboot_counter(b, SlotOrder[k - 6])}
  ELSE IF k = 12 THEN {fram_write_binary_size_zero(b)}
  ELSE IF k = 13 THEN {fram_write_ham_size_zero(b)}
  ELSE fram_set_to_load_softwareupdate(b, FALSE, 0)
===============================================================================
