------------------------------ MODULE BootPolicy ------------------------------
(***************************************************************************)
(* What the iOBC boot chain promises, without the bootloader's phases, its *)
(* RAM copy of the FRAM block or its hamming checks: every image has a     *)
(* number of tries left, starting an image uses up one of them, an SD card *)
(* image is a fallback that is started only when the images before it in   *)
(* the boot order have none left, and the flash image is started without a *)
(* try only if nothing else is left or the hardware cannot be trusted.     *)
(* BootChain implements this module.                                       *)
(***************************************************************************)
EXTENDS Naturals

CONSTANT Tries          \* tries of an image whose counter is clear

VARIABLES left,         \* left[i]: tries image i has left
          preferred,    \* slot 0 image of the preferred SD card
          running,      \* image that is running, or "none"
          trusted       \* nothing has failed and the bootloader is intact

policyVars == <<left, preferred, running, trusted>>

FlashImage == "NOR"
UpdateImages == {"SD0SL1", "SD1SL1"}
FallbackImages == {"SD0SL0", "SD1SL0"}
AllImages == {FlashImage} \cup UpdateImages \cup FallbackImages

\* Images that must have no try left when image i is started.
Before(i) ==
  IF i \notin FallbackImages THEN {}
  ELSE IF i = preferred THEN {FlashImage}
       ELSE {FlashImage, preferred}

IsNext(i) ==
  /\ running = "none"
  /\ left[i] > 0
  /\ \A j \in Before(i) : left[j] = 0

PolicyInit ==
  /\ left \in [AllImages -> 0..Tries]
  /\ preferred \in FallbackImages
  /\ running = "none"
  /\ trusted \in BOOLEAN

\* Image i is tried: one try is used up, and it runs or the OBC restarts.
Try(i) ==
  /\ IsNext(i)
  /\ left' = [left EXCEPT ![i] = @ - 1]
  /\ running' \in {i, "none"}
  /\ UNCHANGED preferred

\* Image i runs, but a fault keeps the try from being recorded.
TryUnrecorded(i) ==
  /\ IsNext(i)
  /\ ~trusted'
  /\ running' = i
  /\ UNCHANGED <<left, preferred>>

\* The flash image is what remains when the hardware cannot be trusted or every
\* image in the boot order is out of tries.  The counter that is written back
\* may make it look fresh again.
LastResort ==
  /\ running = "none"
  /\ ~trusted' \/ \A i \in {FlashImage} \cup FallbackImages : left[i] = 0
  /\ \E n \in 0..Tries : left' = [left EXCEPT ![FlashImage] = n]
  /\ running' \in {FlashImage, "none"}
  /\ UNCHANGED preferred

\* The ground segment clears the reboot counter of an image.
Refill(i) ==
  /\ running # "none"
  /\ left' = [left EXCEPT ![i] = Tries]
  /\ UNCHANGED <<preferred, running>>

\* The OBC restarts.
Stop ==
  /\ running # "none"
  /\ running' = "none"
  /\ UNCHANGED <<left, preferred>>

\* Something fails, or the bootloader is replaced.
TrustChanges == UNCHANGED <<left, preferred, running>>

PolicyNext ==
  /\ \/ \E i \in AllImages : Try(i) \/ TryUnrecorded(i) \/ Refill(i)
     \/ LastResort
     \/ Stop
     \/ TrustChanges
  /\ trusted' \in BOOLEAN

PolicySpec == PolicyInit /\ [][PolicyNext]_policyVars
===============================================================================
