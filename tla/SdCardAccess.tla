---------------------------- MODULE SdCardAccess ----------------------------
(***************************************************************************)
(* The SD card access manager and the access tokens                        *)
(* (memory/SDCAccessManager.cpp, memory/SDCardAccess.cpp).                 *)
(*                                                                         *)
(* A task that uses the file system creates a token: its constructor is    *)
(* refused during a change of the SD card, and otherwise counts the task   *)
(* among the active accesses; its destructor discounts it.  The handler    *)
(* of the SD cards changes the active card when there is no access.        *)
(*                                                                         *)
(* The constructor, the destructor and tryActiveSdCardChange each create a *)
(* MutexGuard without a name, which unlocks at the end of its own          *)
(* statement.  None of the accesses to the shared state is protected, so   *)
(* each read and each write is a step of its own.                          *)
(***************************************************************************)
EXTENDS Naturals, FiniteSets

CONSTANTS Handler,  \* the task of the SD card handler
          Clients,  \* the other tasks that use the file system
          MaxRaces  \* bound: how often tasks may meet in the unprotected code

\* The tasks are fewer than a uint8_t can count.
ASSUME AccessConstants == /\ Handler \notin Clients
                          /\ IsFiniteSet(Clients) /\ Cardinality(Clients) < 255
                          /\ MaxRaces \in Nat

VARIABLES
  activeSdCard,    \* the card new accesses use
  changingSdCard,  \* a change of the card is under way, accesses are refused
  activeAccesses,  \* uint8_t, the number of granted accesses
  fsOpen,          \* the file system is initialized
  at,              \* where each task is in the code of its token
  volume,          \* currentVolumeId of each task's token
  register,        \* activeAccesses as a task has read it
  accessResult,    \* what getAccessResult of each task's token says
  races            \* how often two tasks met in the unprotected code

accessVars == <<activeSdCard, changingSdCard, activeAccesses, fsOpen, at,
                volume, register, accessResult, races>>

Tasks == Clients \cup {Handler}
Volumes == {0, 1}
UINT8 == 256

Constructor == {"c_volume", "c_first", "c_open", "c_load", "c_store",
                "c_select"}
Destructor  == {"d_store", "d_last", "d_close"}
Change      == {"t_check", "t_switch"}
Outside     == {"out", "holding", "denied"}

AccessResults == {"RETURN_OK", "RETURN_FAILED", "SD_CARD_CHANGE_ONGOING"}

AccessInit ==
  /\ activeSdCard = 0
  /\ changingSdCard = FALSE
  /\ activeAccesses = 0
  /\ fsOpen = FALSE
  /\ at = [t \in Tasks |-> "out"]
  /\ volume = [t \in Tasks |-> 0]
  /\ register = [t \in Tasks |-> 0]
  /\ accessResult = [t \in Tasks |-> "RETURN_OK"]
  /\ races = 0

\* Task t enters the code its mutex was to protect.
Enters(t) ==
  LET met == {u \in Tasks \ {t} : at[u] \notin Outside} IN
  /\ races' = IF met = {} THEN races ELSE races + 1
  /\ races' <= MaxRaces

Goto(t, place) == at' = [at EXCEPT ![t] = place]

-----------------------------------------------------------------------------
(* SDCardAccess::SDCardAccess *)

CheckChanging(t) ==
  /\ at[t] = "out"
  /\ IF changingSdCard
     THEN /\ Goto(t, "denied")
          /\ accessResult' = [accessResult EXCEPT ![t] =
                                "SD_CARD_CHANGE_ONGOING"]
          /\ UNCHANGED races
     ELSE /\ Goto(t, "c_volume")
          /\ Enters(t)
          /\ UNCHANGED accessResult
  /\ UNCHANGED <<activeSdCard, changingSdCard, activeAccesses, fsOpen, volume,
                 register>>

ReadVolume(t) ==
  /\ at[t] = "c_volume"
  /\ volume' = [volume EXCEPT ![t] = activeSdCard]
  /\ Goto(t, "c_first")
  /\ UNCHANGED <<activeSdCard, changingSdCard, activeAccesses, fsOpen,
                 register, accessResult, races>>

CheckFirst(t) ==
  /\ at[t] = "c_first"
  /\ Goto(t, IF activeAccesses = 0 THEN "c_open" ELSE "c_load")
  /\ UNCHANGED <<activeSdCard, changingSdCard, activeAccesses, fsOpen, volume,
                 register, accessResult, races>>

\* The first access initializes the file system.  A failure is only noted.
OpenFilesystem(t) ==
  /\ at[t] = "c_open"
  /\ \E ok \in BOOLEAN :
       /\ fsOpen' = ok
       /\ accessResult' = IF ok THEN accessResult
                          ELSE [accessResult EXCEPT ![t] = "RETURN_FAILED"]
  /\ Goto(t, "c_load")
  /\ UNCHANGED <<activeSdCard, changingSdCard, activeAccesses, volume,
                 register, races>>

\* activeAccesses++ is a load, an increment and a store.
LoadForIncrement(t) ==
  /\ at[t] = "c_load"
  /\ register' = [register EXCEPT ![t] = activeAccesses]
  /\ Goto(t, "c_store")
  /\ UNCHANGED <<activeSdCard, changingSdCard, activeAccesses, fsOpen, volume,
                 accessResult, races>>

StoreIncremented(t) ==
  /\ at[t] = "c_store"
  /\ activeAccesses' = (register[t] + 1) % UINT8
  /\ register' = [register EXCEPT ![t] = 0]
  /\ Goto(t, "c_select")
  /\ UNCHANGED <<activeSdCard, changingSdCard, fsOpen, volume, accessResult, races>>

\* A task can only enter an initialized file system.  A card that cannot be
\* selected leaves the token counted, for a full teardown.
SelectSdCard(t) ==
  /\ at[t] = "c_select"
  /\ \E ok \in {FALSE, fsOpen} :
       accessResult' = IF ok THEN accessResult
                       ELSE [accessResult EXCEPT ![t] = "RETURN_FAILED"]
  /\ Goto(t, "holding")
  /\ UNCHANGED <<activeSdCard, changingSdCard, activeAccesses, fsOpen, volume,
                 register, races>>

-----------------------------------------------------------------------------
(* SDCardAccess::~SDCardAccess *)

\* The members of the token are gone with it.
Forget(t) ==
  /\ volume' = [volume EXCEPT ![t] = 0]
  /\ accessResult' = [accessResult EXCEPT ![t] = "RETURN_OK"]

DropDenied_Discounts(t) ==
  /\ at[t] = "denied"
  /\ activeAccesses' = (activeAccesses + UINT8 - 1) % UINT8
  /\ Goto(t, "out")
  /\ Forget(t)
  /\ UNCHANGED <<activeSdCard, changingSdCard, fsOpen, register, races>>

\* A refused token has nothing to tear down.
DropDenied(t) ==
  /\ at[t] = "denied"
  /\ Goto(t, "out")
  /\ Forget(t)
  /\ UNCHANGED <<activeSdCard, changingSdCard, activeAccesses, fsOpen,
                 register, races>>

LoadForDecrement(t) ==
  /\ at[t] = "holding"
  /\ register' = [register EXCEPT ![t] = activeAccesses]
  /\ Goto(t, "d_store")
  /\ Forget(t)
  /\ Enters(t)
  /\ UNCHANGED <<activeSdCard, changingSdCard, activeAccesses, fsOpen>>

StoreDecremented(t) ==
  /\ at[t] = "d_store"
  /\ activeAccesses' = (register[t] + UINT8 - 1) % UINT8
  /\ register' = [register EXCEPT ![t] = 0]
  /\ Goto(t, "d_last")
  /\ UNCHANGED <<activeSdCard, changingSdCard, fsOpen, volume, accessResult, races>>

CheckLast(t) ==
  /\ at[t] = "d_last"
  /\ Goto(t, IF activeAccesses = 0 THEN "d_close" ELSE "out")
  /\ UNCHANGED <<activeSdCard, changingSdCard, activeAccesses, fsOpen, volume,
                 register, accessResult, races>>

CloseFilesystem(t) ==
  /\ at[t] = "d_close"
  /\ fsOpen' = FALSE
  /\ Goto(t, "out")
  /\ UNCHANGED <<activeSdCard, changingSdCard, activeAccesses, volume,
                 register, accessResult, races>>

-----------------------------------------------------------------------------
(* SDCardAccessManager::tryActiveSdCardChange, called by the handler only *)

BeginChange ==
  /\ at[Handler] = "out"
  /\ changingSdCard' = TRUE
  /\ Goto(Handler, "t_check")
  /\ Enters(Handler)
  /\ UNCHANGED <<activeSdCard, activeAccesses, fsOpen, volume, register,
                 accessResult>>

ChangeRefused ==
  /\ at[Handler] = "t_check"
  /\ activeAccesses # 0
  /\ Goto(Handler, "out")
  /\ UNCHANGED <<activeSdCard, changingSdCard, activeAccesses, fsOpen, volume,
                 register, accessResult, races>>

ChangePossible_NotAsked ==
  /\ at[Handler] = "t_check"
  /\ Goto(Handler, "t_switch")
  /\ UNCHANGED <<activeSdCard, changingSdCard, activeAccesses, fsOpen, volume,
                 register, accessResult, races>>

\* "No task is using the SD cards anymore".
ChangePossible ==
  /\ at[Handler] = "t_check"
  /\ activeAccesses = 0
  /\ Goto(Handler, "t_switch")
  /\ UNCHANGED <<activeSdCard, changingSdCard, activeAccesses, fsOpen, volume,
                 register, accessResult, races>>

SwitchCard_StaysChanging ==
  /\ at[Handler] = "t_switch"
  /\ activeSdCard' = 1 - activeSdCard
  /\ Goto(Handler, "out")
  /\ UNCHANGED <<changingSdCard, activeAccesses, fsOpen, volume, register,
                 accessResult, races>>

SwitchCard ==
  /\ at[Handler] = "t_switch"
  /\ activeSdCard' = 1 - activeSdCard
  /\ changingSdCard' = FALSE
  /\ Goto(Handler, "out")
  /\ UNCHANGED <<activeAccesses, fsOpen, volume, register, accessResult, races>>

-----------------------------------------------------------------------------
\* What follows the first step of a constructor or a destructor.
TokenContinues(t) ==
  \/ ReadVolume(t) \/ CheckFirst(t) \/ OpenFilesystem(t)
  \/ LoadForIncrement(t) \/ StoreIncremented(t) \/ SelectSdCard(t)
  \/ StoreDecremented(t) \/ CheckLast(t) \/ CloseFilesystem(t)

TokenEnds(t) == DropDenied(t) \/ LoadForDecrement(t)

TokenStep(t) == CheckChanging(t) \/ TokenContinues(t) \/ TokenEnds(t)

ChangeStep == BeginChange \/ ChangeRefused \/ ChangePossible \/ SwitchCard

AccessNext == ChangeStep \/ \E t \in Tasks : TokenStep(t)

AccessSpec == AccessInit /\ [][AccessNext]_accessVars

-----------------------------------------------------------------------------
(* Properties *)

AccessTypeOK ==
  /\ activeSdCard \in Volumes
  /\ changingSdCard \in BOOLEAN
  /\ activeAccesses \in 0 .. UINT8 - 1
  /\ fsOpen \in BOOLEAN
  /\ at \in [Tasks -> Constructor \cup Destructor \cup Change \cup Outside]
  /\ volume \in [Tasks -> Volumes]
  /\ register \in [Tasks -> 0 .. UINT8 - 1]
  /\ accessResult \in [Tasks -> AccessResults]
  /\ races \in 0 .. MaxRaces

\* Whoever holds an access uses the active card: it is only changed when "No
\* task is using the SD cards anymore, so we can safely switch the active SD
\* card" (tryActiveSdCardChange).
VolumesAgree ==
  \A t \in Tasks : at[t] = "holding" => volume[t] = activeSdCard

\* The tasks the count of active accesses stands for.
Counted ==
  {t \in Tasks : at[t] \in {"c_select", "holding", "d_store"}}

\* As long as no two tasks meet in the unprotected code, the tokens keep
\* their promise: the count is the number of accesses, whoever holds an access
\* uses the active card, and a granted access finds the file system open.
SafeSwitch ==
  races = 0 =>
    /\ activeAccesses = Cardinality(Counted)
    /\ VolumesAgree
    /\ \A t \in Tasks :
         at[t] = "holding" /\ accessResult[t] = "RETURN_OK" => fsOpen

\* What tasks that meet in the unprotected code do to the count, for which the
\* other promises are off: an increment or a decrement is lost, and stays lost
\* after all accesses have ended, but one meeting loses no more than one.
CountDrift ==
  \E d \in 0 .. 2 * races :
    activeAccesses = (Cardinality(Counted) + UINT8 + d - races) % UINT8
=============================================================================
