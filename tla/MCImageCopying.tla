---------------------------- MODULE MCImageCopying ----------------------------
(***************************************************************************)
(* Small instances of ImageCopying for TLC.                                *)
(***************************************************************************)
EXTENDS ImageCopying, TLC

\* SD card 0 holds a bootloader and an image of two buckets, another image of
\* one, and hamming codes of one and of two buckets; SD card 1 another image, and
\* a bootloader that fills its region to the last byte.
Files ==
  (<<0, "BOOTLOADER_0", FALSE>> :> <<"l1", "l2">>) @@
  (<<0, "SDC_SLOT_0", FALSE>>   :> <<"a1", "a2">>) @@
  (<<0, "SDC_SLOT_1", FALSE>>   :> <<"b1">>) @@
  (<<0, "SDC_SLOT_0", TRUE>>    :> <<"g1">>) @@
  (<<0, "FLASH", TRUE>>         :> <<"h1", "h2">>) @@
  (<<1, "SDC_SLOT_0", FALSE>>   :> <<"c1", "c2">>) @@
  (<<1, "BOOTLOADER_0", FALSE>> :> <<"m1", "m2", "m3">>)

Contents == {"l1", "l2", "a1", "a2", "b1", "g1", "h1", "h2", "c1", "c2",
             "m1", "m2", "m3"}
\* All but the last bucket of a file are full.
Full == {"l1", "a1", "h1", "c1", "m1", "m2", "m3"}
===============================================================================
