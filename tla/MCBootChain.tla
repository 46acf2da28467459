----------------------------- MODULE MCBootChain -----------------------------
(***************************************************************************)
(* Small instances of BootChain for TLC.                                   *)
(***************************************************************************)
EXTENDS BootChain

\* A commissioned FRAM: counters clear, sizes known, checks enabled per image.
Commissioned(global, preferred, updateIn) ==
  [preferred_sd_card           |-> preferred,
   global_hamming_flag         |-> global,
   hamming_flag                |-> [s \in Slots |-> TRUE],
   reboot_counter              |-> [s \in Slots |-> 0],
   nor_flash_binary_size       |-> "valid",
   nor_flash_hamming_code_size |-> "valid",
   software_update_available   |-> updateIn # {},
   software_update_in_volume_0 |-> 0 \in updateIn,
   software_update_in_volume_1 |-> 1 \in updateIn]

\* Preferred SD card 0 or 1, with no update, one on SD card 0 or on SD card 1.
MissionBlocks ==
  {Commissioned(TRUE, p, u) : p \in {0, 2}, u \in {{}, {0}, {1}}}

\* The same without a global check, a preferred card that was never set, an
\* update flagged on both cards, and a FRAM that was never written.
LaunchBlocks ==
  MissionBlocks
    \cup {Commissioned(FALSE, 1, {}), Commissioned(TRUE, UNINITIALIZED, {0, 1}),
          BlankBlock}
===============================================================================
