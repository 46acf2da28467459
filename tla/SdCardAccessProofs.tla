------------------------- MODULE SdCardAccessProofs -------------------------
(***************************************************************************)
(* Proofs about SdCardAccess for any number of client tasks that a uint8_t *)
(* can count.                                                              *)
(***************************************************************************)
EXTENDS SdCardAccess, Integers, FiniteSetTheorems, TLAPS

\* No two tasks are in the code the mutex was to protect.
Alone == \A t, u \in Tasks : at[t] \notin Outside /\ at[u] \notin Outside => t = u

\* The count of accesses is right, a task that has read it for an update has
\* the right value, and a task that has found no access is still right.
CountRight ==
  /\ activeAccesses = Cardinality(Counted)
  /\ \A t \in Tasks :
       /\ at[t] \in {"c_store", "d_store"} => register[t] = activeAccesses
       /\ at[t] \in {"c_open", "d_close", "t_switch"} => activeAccesses = 0

\* Tokens are made for the active card.
CardRight ==
  \A t \in Tasks :
    at[t] \in (Constructor \ {"c_volume"}) \cup {"holding"} =>
      volume[t] = activeSdCard

\* A granted access finds the file system open.
GrantedOpen ==
  \A t \in Tasks :
    at[t] = "holding" /\ accessResult[t] = "RETURN_OK" => fsOpen

AccessInv ==
  AccessTypeOK /\ (races = 0 => Alone /\ CountRight /\ CardRight /\ GrantedOpen)

-----------------------------------------------------------------------------
(* Type correctness *)

\* Every place of the code is a place of the type.
Places == Constructor \cup Destructor \cup Change \cup Outside

\* The places the actions name are places of the type.
LEMMA PlacesType ==
  /\ {"c_volume", "c_first", "c_open", "c_load", "c_store", "c_select"}
       \subseteq Places
  /\ {"d_store", "d_last", "d_close", "t_check", "t_switch", "out", "holding",
      "denied"} \subseteq Places
BY DEF Places, Constructor, Destructor, Change, Outside

\* Going on to another place keeps the type.
LEMMA GotoType ==
  ASSUME AccessTypeOK, NEW t \in Tasks, NEW place \in Places, Goto(t, place)
  PROVE  at' \in [Tasks -> Places]
BY DEF AccessTypeOK, Goto, Places

\* Counting a meeting keeps the number of meetings within its bound.
LEMMA EntersType ==
  ASSUME AccessTypeOK, NEW t, Enters(t)
  PROVE  races' \in 0 .. MaxRaces
BY AccessConstants DEF AccessTypeOK, Enters

\* The types hold after the constructor of SDCardAccessManager.
LEMMA AccessTypeInit == AccessInit => AccessTypeOK
<1> SUFFICES ASSUME AccessInit PROVE AccessTypeOK
  OBVIOUS
<1>1. at \in [Tasks -> Places]
  BY PlacesType DEF AccessInit
<1>2. /\ volume \in [Tasks -> Volumes]
      /\ register \in [Tasks -> 0 .. UINT8 - 1]
      /\ accessResult \in [Tasks -> AccessResults]
  BY DEF AccessInit, Volumes, UINT8, AccessResults
<1>3. /\ activeSdCard \in Volumes /\ activeAccesses \in 0 .. UINT8 - 1
      /\ races \in 0 .. MaxRaces
  BY AccessConstants DEF AccessInit, Volumes, UINT8
<1> QED
  BY <1>1, <1>2, <1>3 DEF AccessInit, AccessTypeOK, Places

\* The steps of a token, constructor to destructor, keep the types.
LEMMA TokenTypeStep ==
  ASSUME AccessTypeOK, NEW t \in Tasks, TokenStep(t)
  PROVE  AccessTypeOK'
<1> USE DEF AccessTypeOK
<1>0. /\ 0 \in 0 .. UINT8 - 1 /\ 0 \in Volumes
      /\ \A r \in 0 .. UINT8 - 1 : /\ (r + 1) % UINT8 \in 0 .. UINT8 - 1
                                   /\ (r + UINT8 - 1) % UINT8 \in 0 .. UINT8 - 1
  BY DEF UINT8, Volumes
<1> USE <1>0, PlacesType, GotoType
<1>1. CASE CheckChanging(t)
  <2>1. CASE changingSdCard
    BY <1>1, <2>1 DEF CheckChanging, AccessResults, Places
  <2>2. CASE ~changingSdCard
    BY <1>1, <2>2, EntersType DEF CheckChanging, Places
  <2> QED
    BY <2>1, <2>2
<1>2. CASE ReadVolume(t)
  BY <1>2 DEF ReadVolume, Places
<1>3. CASE CheckFirst(t)
  BY <1>3 DEF CheckFirst, Places
<1>4. CASE OpenFilesystem(t)
  BY <1>4 DEF OpenFilesystem, Places, AccessResults
<1>5. CASE LoadForIncrement(t)
  BY <1>5 DEF LoadForIncrement, Places
<1>6. CASE StoreIncremented(t)
  BY <1>6 DEF StoreIncremented, Places
<1>7. CASE SelectSdCard(t)
  BY <1>7 DEF SelectSdCard, Places, AccessResults
<1>8. CASE DropDenied(t)
  BY <1>8 DEF DropDenied, Forget, Places, AccessResults
<1>9. CASE LoadForDecrement(t)
  BY <1>9, EntersType DEF LoadForDecrement, Forget, Places, AccessResults
<1>10. CASE StoreDecremented(t)
  BY <1>10 DEF StoreDecremented, Places
<1>11. CASE CheckLast(t)
  BY <1>11 DEF CheckLast, Places
<1>12. CASE CloseFilesystem(t)
  BY <1>12 DEF CloseFilesystem, Places
<1> QED
  BY <1>1, <1>2, <1>3, <1>4, <1>5, <1>6, <1>7, <1>8, <1>9, <1>10, <1>11, <1>12
     DEF TokenStep, TokenContinues, TokenEnds

\* The steps of tryActiveSdCardChange keep the types.
LEMMA ChangeTypeStep ==
  ASSUME AccessTypeOK, ChangeStep
  PROVE  AccessTypeOK'
<1> USE PlacesType, GotoType DEF AccessTypeOK
<1>0. Handler \in Tasks
  BY DEF Tasks
<1>1. CASE BeginChange
  BY <1>0, <1>1, EntersType DEF BeginChange, Places
<1>2. CASE ChangeRefused
  BY <1>0, <1>2 DEF ChangeRefused, Places
<1>3. CASE ChangePossible
  BY <1>0, <1>3 DEF ChangePossible, Places
<1>4. CASE SwitchCard
  <2>1. activeSdCard' \in Volumes
    BY <1>4 DEF SwitchCard, Volumes
  <2> QED
    BY <1>0, <1>4, <2>1 DEF SwitchCard, Places
<1> QED
  BY <1>1, <1>2, <1>3, <1>4 DEF ChangeStep

\* Every step keeps the types.
LEMMA AccessTypeStep == AccessTypeOK /\ [AccessNext]_accessVars => AccessTypeOK'
<1> SUFFICES ASSUME AccessTypeOK, [AccessNext]_accessVars PROVE AccessTypeOK'
  OBVIOUS
<1>1. CASE UNCHANGED accessVars
  BY <1>1 DEF AccessTypeOK, accessVars
<1> QED
  BY <1>1, TokenTypeStep, ChangeTypeStep DEF AccessNext

\* Every variable of the access manager and of the tokens keeps its type.
THEOREM AccessTypeCorrect == AccessSpec => []AccessTypeOK
BY AccessTypeInit, AccessTypeStep, PTL DEF AccessSpec

-----------------------------------------------------------------------------
(* The promise of the tokens *)

\* The tasks that are counted are finitely many, one less than 256 at the most.
LEMMA CountedFinite ==
  /\ IsFiniteSet(Counted) /\ Cardinality(Counted) \in Nat
  /\ \A t \in Tasks \ Counted : Cardinality(Counted) + 1 < UINT8
  /\ Cardinality(Counted) = 0 <=> Counted = {}
<1>1. /\ IsFiniteSet(Tasks)
      /\ Cardinality(Tasks) \in Nat /\ Cardinality(Tasks) < UINT8
  <2>1. Cardinality(Clients) \in Nat
    BY AccessConstants, FS_CardinalityType
  <2>2. /\ IsFiniteSet(Clients \cup {Handler})
        /\ Cardinality(Clients \cup {Handler}) = Cardinality(Clients) + 1
    BY AccessConstants, FS_AddElement
  <2> QED
    BY <2>1, <2>2, AccessConstants DEF Tasks, UINT8
<1>2. Counted \in SUBSET Tasks
  BY DEF Counted
<1>3. /\ IsFiniteSet(Counted) /\ Cardinality(Counted) \in Nat
      /\ Cardinality(Counted) <= Cardinality(Tasks)
      /\ Cardinality(Counted) = Cardinality(Tasks) => Tasks = Counted
  <2>1. IsFiniteSet(Counted)
    BY <1>1, <1>2, FS_Subset
  <2>2. Cardinality(Counted) \in Nat
    BY <2>1, FS_CardinalityType
  <2> QED
    BY <1>1, <1>2, <2>1, <2>2, FS_Subset
<1>4. Cardinality(Counted) = 0 <=> Counted = {}
  BY <1>3, FS_EmptySet
<1>5. \A t \in Tasks \ Counted : Cardinality(Counted) < Cardinality(Tasks)
  BY <1>1, <1>3
<1> QED
  BY <1>1, <1>3, <1>4, <1>5 DEF UINT8

\* A step of task t that does not count or discount it leaves the counted tasks.
LEMMA CountedSame ==
  ASSUME AccessTypeOK, NEW t \in Tasks, NEW place, Goto(t, place),
         t \in Counted <=> place \in {"c_select", "holding", "d_store"}
  PROVE  Counted' = Counted
BY DEF AccessTypeOK, Goto, Counted

\* The step that counts a task, and the step that discounts it.
LEMMA CountedMore ==
  ASSUME AccessTypeOK, NEW t \in Tasks, at[t] = "c_store", Goto(t, "c_select")
  PROVE  Cardinality(Counted') = Cardinality(Counted) + 1
<1>1. Counted' = Counted \cup {t} /\ t \notin Counted
  BY DEF AccessTypeOK, Goto, Counted
<1> QED
  BY <1>1, CountedFinite, FS_AddElement

\* A decrement that is stored takes exactly one access out of the count,
\* which was not zero: the 8-bit count does not wrap.
LEMMA CountedLess ==
  ASSUME AccessTypeOK, NEW t \in Tasks, at[t] = "d_store", Goto(t, "d_last")
  PROVE  /\ Cardinality(Counted') = Cardinality(Counted) - 1
         /\ Cardinality(Counted) # 0
<1>1. Counted' = Counted \ {t} /\ t \in Counted
  BY DEF AccessTypeOK, Goto, Counted
<1>2. Cardinality(Counted') = Cardinality(Counted) - 1
  BY <1>1, CountedFinite, FS_RemoveElement
<1> QED
  BY <1>1, <1>2, CountedFinite

Promise == Alone /\ CountRight /\ CardRight /\ GrantedOpen

\* The rest of a constructor or a destructor keeps the promise: the other tasks
\* are outside, and when the file system is opened or closed nobody is counted.
LEMMA ContinuesPromise ==
  ASSUME AccessTypeOK, Promise, NEW t \in Tasks, TokenContinues(t)
  PROVE  Promise'
<1> USE DEF AccessTypeOK, Goto
<1>0. at[t] \notin Outside /\ \A u \in Tasks \ {t} : at[u] \in Outside
  BY DEF Promise, Alone, TokenContinues, ReadVolume, CheckFirst, OpenFilesystem,
         LoadForIncrement, StoreIncremented, SelectSdCard, StoreDecremented,
         CheckLast, CloseFilesystem, Outside
<1>1. \A u \in Tasks \ {t} : at'[u] = at[u]
  BY DEF TokenContinues, ReadVolume, CheckFirst, OpenFilesystem,
         LoadForIncrement, StoreIncremented, SelectSdCard, StoreDecremented,
         CheckLast, CloseFilesystem
<1>2. Alone'
  BY <1>0, <1>1 DEF Alone
<1>3. \A u \in Tasks \ {t} : at'[u] \in {"out", "holding", "denied"}
  BY <1>0, <1>1 DEF Outside
<1>4. CASE ReadVolume(t)
  <2>1. Counted' = Counted
    BY <1>4, CountedSame DEF ReadVolume, Counted
  <2>2. CountRight'
    BY <1>3, <1>4, <2>1 DEF ReadVolume, CountRight, Promise
  <2>3. CardRight' /\ GrantedOpen'
    BY <1>1, <1>4 DEF ReadVolume, CardRight, GrantedOpen, Promise
  <2> QED
    BY <1>2, <2>2, <2>3 DEF Promise
<1>5. CASE CheckFirst(t)
  <2>1. Counted' = Counted
    BY <1>5, CountedSame DEF CheckFirst, Counted
  <2>2. CountRight'
    BY <1>3, <1>5, <2>1 DEF CheckFirst, CountRight, Promise
  <2>3. CardRight' /\ GrantedOpen'
    BY <1>1, <1>5 DEF CheckFirst, CardRight, GrantedOpen, Promise, Constructor
  <2> QED
    BY <1>2, <2>2, <2>3 DEF Promise
<1>6. CASE OpenFilesystem(t)
  <2>1. Counted' = Counted /\ Counted = {}
    BY <1>6, CountedSame, CountedFinite
       DEF OpenFilesystem, Counted, Promise, CountRight
  <2>2. CountRight'
    BY <1>3, <1>6, <2>1 DEF OpenFilesystem, CountRight, Promise
  <2>3. CardRight'
    BY <1>1, <1>6 DEF OpenFilesystem, CardRight, Promise, Constructor
  <2>4. \A u \in Tasks : at'[u] # "holding"
    BY <1>1, <1>6, <2>1 DEF OpenFilesystem, Counted
  <2> QED
    BY <1>2, <2>2, <2>3, <2>4 DEF Promise, GrantedOpen
<1>7. CASE LoadForIncrement(t)
  <2>1. Counted' = Counted
    BY <1>7, CountedSame DEF LoadForIncrement, Counted
  <2>2. CountRight'
    BY <1>3, <1>7, <2>1 DEF LoadForIncrement, CountRight, Promise
  <2>3. CardRight' /\ GrantedOpen'
    BY <1>1, <1>7 DEF LoadForIncrement, CardRight, GrantedOpen, Promise, Constructor
  <2> QED
    BY <1>2, <2>2, <2>3 DEF Promise
<1>8. CASE StoreIncremented(t)
  <2>1. Cardinality(Counted') = Cardinality(Counted) + 1
    BY <1>8, CountedMore DEF StoreIncremented
  <2>2. register[t] = Cardinality(Counted) /\ t \notin Counted
    BY <1>8 DEF StoreIncremented, Promise, CountRight, Counted
  <2>3. activeAccesses' = Cardinality(Counted) + 1
    BY <1>8, <2>2, CountedFinite DEF StoreIncremented, UINT8
  <2>4. CountRight'
    BY <1>3, <1>8, <2>1, <2>3 DEF StoreIncremented, CountRight, Promise
  <2>5. CardRight' /\ GrantedOpen'
    BY <1>1, <1>8 DEF StoreIncremented, CardRight, GrantedOpen, Promise, Constructor
  <2> QED
    BY <1>2, <2>4, <2>5 DEF Promise
<1>9. CASE SelectSdCard(t)
  <2>1. Counted' = Counted
    BY <1>9, CountedSame DEF SelectSdCard, Counted
  <2>2. CountRight'
    BY <1>3, <1>9, <2>1 DEF SelectSdCard, CountRight, Promise
  <2>3. CardRight'
    BY <1>1, <1>9 DEF SelectSdCard, CardRight, Promise, Constructor
  <2>4. GrantedOpen'
    <3>1. accessResult'[t] = "RETURN_OK" => fsOpen
      <4>1. PICK ok \in {FALSE, fsOpen} :
              accessResult' = IF ok THEN accessResult
                              ELSE [accessResult EXCEPT ![t] = "RETURN_FAILED"]
        BY <1>9, Zenon DEF SelectSdCard
      <4>2. ok => fsOpen
        BY Zenon
      <4>3. ~ok => accessResult'[t] = "RETURN_FAILED"
        BY <4>1
      <4> QED
        BY <4>2, <4>3
    <3>2. \A u \in Tasks \ {t} : accessResult'[u] = accessResult[u]
      BY <1>9 DEF SelectSdCard
    <3>3. fsOpen' = fsOpen
      BY <1>9 DEF SelectSdCard
    <3> QED
      BY <1>1, <3>1, <3>2, <3>3 DEF GrantedOpen, Promise
  <2> QED
    BY <1>2, <2>2, <2>3, <2>4 DEF Promise
<1>10. CASE StoreDecremented(t)
  <2>1. Cardinality(Counted') = Cardinality(Counted) - 1 /\ Cardinality(Counted) # 0
    BY <1>10, CountedLess DEF StoreDecremented
  <2>2. register[t] = Cardinality(Counted)
    BY <1>10 DEF StoreDecremented, Promise, CountRight
  <2>3. activeAccesses' = Cardinality(Counted) - 1
    BY <1>10, <2>1, <2>2, CountedFinite DEF StoreDecremented, UINT8
  <2>4. CountRight'
    BY <1>3, <1>10, <2>1, <2>3 DEF StoreDecremented, CountRight, Promise
  <2>5. CardRight' /\ GrantedOpen'
    BY <1>1, <1>10 DEF StoreDecremented, CardRight, GrantedOpen, Promise, Constructor
  <2> QED
    BY <1>2, <2>4, <2>5 DEF Promise
<1>11. CASE CheckLast(t)
  <2>1. Counted' = Counted
    BY <1>11, CountedSame DEF CheckLast, Counted
  <2>2. CountRight'
    BY <1>3, <1>11, <2>1 DEF CheckLast, CountRight, Promise
  <2>3. CardRight' /\ GrantedOpen'
    BY <1>1, <1>11 DEF CheckLast, CardRight, GrantedOpen, Promise, Constructor
  <2> QED
    BY <1>2, <2>2, <2>3 DEF Promise
<1>12. CASE CloseFilesystem(t)
  <2>1. Counted' = Counted /\ Counted = {}
    BY <1>12, CountedSame, CountedFinite
       DEF CloseFilesystem, Counted, Promise, CountRight
  <2>2. CountRight'
    BY <1>3, <1>12, <2>1 DEF CloseFilesystem, CountRight, Promise
  <2>3. CardRight'
    BY <1>1, <1>12 DEF CloseFilesystem, CardRight, Promise, Constructor
  <2>4. \A u \in Tasks : at'[u] # "holding"
    BY <1>1, <1>12, <2>1 DEF CloseFilesystem, Counted
  <2> QED
    BY <1>2, <2>2, <2>3, <2>4 DEF Promise, GrantedOpen
<1> QED
  BY <1>4, <1>5, <1>6, <1>7, <1>8, <1>9, <1>10, <1>11, <1>12 DEF TokenContinues

\* Entering the unprotected code without meeting a task makes the task alone.
LEMMA EntersAlone ==
  ASSUME AccessTypeOK, NEW t \in Tasks, Enters(t), races' = 0
  PROVE  races = 0 /\ \A u \in Tasks \ {t} : at[u] \in Outside
BY AccessConstants DEF AccessTypeOK, Enters

\* The first step of a constructor or a destructor keeps the promise.
LEMMA EntersPromise ==
  ASSUME AccessTypeOK, Promise, races' = 0,
         NEW t \in Tasks, CheckChanging(t) \/ TokenEnds(t)
  PROVE  Promise'
<1> USE DEF AccessTypeOK, Goto
<1>1. \A u \in Tasks \ {t} : at'[u] = at[u]
  BY DEF CheckChanging, TokenEnds, DropDenied, LoadForDecrement
<1>2. Counted' = Counted
  BY CountedSame DEF CheckChanging, TokenEnds, DropDenied, LoadForDecrement, Counted
<1>3. Alone'
  <2>1. CASE CheckChanging(t) /\ ~changingSdCard
    BY <1>1, <2>1, EntersAlone DEF CheckChanging, Alone
  <2>2. CASE LoadForDecrement(t)
    BY <1>1, <2>2, EntersAlone DEF LoadForDecrement, Alone
  <2>3. CASE (CheckChanging(t) /\ changingSdCard) \/ DropDenied(t)
    BY <1>1, <2>3 DEF CheckChanging, DropDenied, Alone, Promise, Outside
  <2> QED
    BY <2>1, <2>2, <2>3 DEF TokenEnds
<1>4. CountRight'
  BY <1>1, <1>2 DEF CheckChanging, TokenEnds, DropDenied, LoadForDecrement,
                    CountRight, Promise
<1>5. CardRight'
  BY <1>1 DEF CheckChanging, TokenEnds, DropDenied, LoadForDecrement, Forget,
              CardRight, Promise, Constructor
<1>6. GrantedOpen'
  BY <1>1 DEF CheckChanging, TokenEnds, DropDenied, LoadForDecrement, Forget,
              GrantedOpen, Promise
<1> QED
  BY <1>3, <1>4, <1>5, <1>6 DEF Promise

\* The change of the card keeps the promise: when it is made, nobody has an
\* access and nobody is about to get one.
LEMMA ChangePromise ==
  ASSUME AccessTypeOK, Promise, races' = 0, ChangeStep
  PROVE  Promise'
<1> USE DEF AccessTypeOK, Goto
<1>0. Handler \in Tasks
  BY DEF Tasks
<1>1. \A u \in Tasks \ {Handler} : at'[u] = at[u]
  BY DEF ChangeStep, BeginChange, ChangeRefused, ChangePossible, SwitchCard
<1>2. Counted' = Counted
  BY <1>0, CountedSame
     DEF ChangeStep, BeginChange, ChangeRefused, ChangePossible, SwitchCard, Counted
<1>3. Alone'
  <2>1. CASE BeginChange
    BY <1>0, <1>1, <2>1, EntersAlone DEF BeginChange, Alone
  <2>2. CASE ChangeRefused \/ ChangePossible \/ SwitchCard
    BY <1>0, <1>1, <2>2
       DEF ChangeRefused, ChangePossible, SwitchCard, Alone, Promise, Outside
  <2> QED
    BY <2>1, <2>2 DEF ChangeStep
<1>4. CountRight'
  BY <1>0, <1>1, <1>2
     DEF ChangeStep, BeginChange, ChangeRefused, ChangePossible, SwitchCard,
         CountRight, Promise
<1>5. CardRight'
  <2>1. CASE SwitchCard
    <3>1. Counted = {}
      BY <1>0, <2>1, CountedFinite DEF SwitchCard, Promise, CountRight
    <3>2. \A u \in Tasks \ {Handler} : at[u] \in Outside
      BY <1>0, <2>1 DEF SwitchCard, Promise, Alone, Outside
    <3>3. \A u \in Tasks \ {Handler} : at[u] \in {"out", "denied"}
      BY <3>1, <3>2 DEF Counted, Outside
    <3> QED
      BY <1>0, <1>1, <2>1, <3>3 DEF SwitchCard, CardRight, Constructor
  <2>2. CASE BeginChange \/ ChangeRefused \/ ChangePossible
    BY <1>0, <1>1, <2>2
       DEF BeginChange, ChangeRefused, ChangePossible, CardRight, Promise, Constructor
  <2> QED
    BY <2>1, <2>2 DEF ChangeStep
<1>6. GrantedOpen'
  BY <1>0, <1>1
     DEF ChangeStep, BeginChange, ChangeRefused, ChangePossible, SwitchCard,
         GrantedOpen, Promise
<1> QED
  BY <1>3, <1>4, <1>5, <1>6 DEF Promise

\* The number of meetings never gets smaller.
LEMMA RacesGrow ==
  ASSUME AccessTypeOK, AccessNext, races' = 0
  PROVE  races = 0
BY AccessConstants
   DEF AccessTypeOK, AccessNext, ChangeStep, BeginChange, ChangeRefused,
       ChangePossible, SwitchCard, TokenStep, CheckChanging, TokenContinues,
       TokenEnds, ReadVolume, CheckFirst, OpenFilesystem, LoadForIncrement,
       StoreIncremented, SelectSdCard, StoreDecremented, CheckLast,
       CloseFilesystem, DropDenied, LoadForDecrement, Enters

\* The strengthening that makes SafeSwitch inductive.
LEMMA AccessInvStep == AccessInv /\ [AccessNext]_accessVars => AccessInv'
<1> SUFFICES ASSUME AccessInv, [AccessNext]_accessVars PROVE AccessInv'
  OBVIOUS
<1>1. AccessTypeOK'
  BY AccessTypeStep DEF AccessInv
<1>2. ASSUME races' = 0, AccessNext PROVE Promise'
  <2>1. AccessTypeOK /\ Promise
    BY <1>2, RacesGrow DEF AccessInv, Promise
  <2> QED
    BY <1>2, <2>1, ContinuesPromise, EntersPromise, ChangePromise
       DEF AccessNext, TokenStep
<1>3. CASE UNCHANGED accessVars
  BY <1>3 DEF accessVars, AccessInv, AccessTypeOK, Alone, CountRight, CardRight,
              GrantedOpen, Counted
<1> QED
  BY <1>1, <1>2, <1>3 DEF AccessInv, Promise

\* The invariant holds before the first access.
LEMMA AccessInvInit == AccessInit => AccessInv
<1> SUFFICES ASSUME AccessInit PROVE AccessInv
  OBVIOUS
<1>1. \A t \in Tasks : at[t] = "out"
  BY DEF AccessInit
<1>2. Counted = {}
  BY <1>1 DEF Counted
<1> QED
  BY <1>1, <1>2, AccessTypeInit, FS_EmptySet
     DEF AccessInit, AccessInv, Alone, CountRight, CardRight, GrantedOpen,
         Outside, Constructor

\* The invariant is strong enough for SafeSwitch.
LEMMA AccessInvSafe == AccessInv => SafeSwitch
BY DEF AccessInv, SafeSwitch, CountRight, CardRight, GrantedOpen, VolumesAgree

\* As long as no two tasks meet in the unprotected code, the tokens keep their
\* promise: the count, the card and the file system are right for every number
\* of tasks.
THEOREM SwitchIsSafe == AccessSpec => []SafeSwitch
BY AccessInvInit, AccessInvStep, AccessInvSafe, PTL DEF AccessSpec

-----------------------------------------------------------------------------
(* What is left of the promise when tasks meet *)

\* The tasks that will still store the count, or have read it for that.
Busy == {t \in Tasks : at[t] \in (Constructor \ {"c_select"}) \cup {"d_store"}}

\* All of them but one have met another task when they entered.
Others == IF Busy = {} THEN 0 ELSE Cardinality(Busy) - 1

\* The value v is off n accesses by no more than b.
Off(v, n, b) ==
  \E d \in Int : -b <= d /\ d <= b /\ v = (n + d) % UINT8

\* The count, and the value with which a task is about to update it, are off by
\* no more than the meetings of the tasks that have stored: each task that is
\* still to store can put the others one further off.
DriftInv ==
  /\ Off(activeAccesses, Cardinality(Counted), races - Others)
  /\ \A t \in Tasks :
       at[t] \in {"c_store", "d_store"} =>
         Off(register[t], Cardinality(Counted), races - Others)

\* Sums and differences of 8-bit numbers.
LEMMA Bits ==
  ASSUME NEW a \in Int
  PROVE  /\ ((a % UINT8) + 1) % UINT8 = (a + 1) % UINT8
         /\ ((a % UINT8) + UINT8 - 1) % UINT8 = (a - 1) % UINT8
         /\ (a + UINT8) % UINT8 = a % UINT8
BY DEF UINT8

\* The tasks that are busy are finitely many.
LEMMA BusyFinite ==
  /\ IsFiniteSet(Busy) /\ Cardinality(Busy) \in Nat
  /\ Cardinality(Busy) = 0 <=> Busy = {}
  /\ Others \in Nat
<1>1. IsFiniteSet(Tasks)
  BY AccessConstants, FS_AddElement DEF Tasks
<1>2. IsFiniteSet(Busy)
  BY <1>1, FS_Subset DEF Busy
<1>3. Cardinality(Busy) \in Nat /\ (Cardinality(Busy) = 0 <=> Busy = {})
  BY <1>2, FS_CardinalityType, FS_EmptySet
<1> QED
  BY <1>2, <1>3 DEF Others

\* A looser bound is a bound as well.
LEMMA OffMore ==
  ASSUME NEW v, NEW n, NEW b \in Int, NEW c \in Int, Off(v, n, b), b <= c
  PROVE  Off(v, n, c)
BY DEF Off

\* A count that is stored is off as much as the value it was made from.
LEMMA OffStored ==
  ASSUME NEW v, NEW n \in Int, NEW b \in Int, Off(v, n, b)
  PROVE  /\ Off((v + 1) % UINT8, n + 1, b)
         /\ Off((v + UINT8 - 1) % UINT8, n - 1, b)
<1>1. PICK d \in Int : -b <= d /\ d <= b /\ v = (n + d) % UINT8
  BY DEF Off
<1>2. /\ (v + 1) % UINT8 = (n + d + 1) % UINT8
      /\ (v + UINT8 - 1) % UINT8 = (n + d - 1) % UINT8
  BY <1>1, Bits
<1>3. n + d + 1 = (n + 1) + d /\ n + d - 1 = (n - 1) + d
  OBVIOUS
<1> QED
  BY <1>1, <1>2, <1>3 DEF Off

\* A value that is to be stored later is then off by one more.
LEMMA OffStale ==
  ASSUME NEW v, NEW n \in Int, NEW b \in Int, Off(v, n, b)
  PROVE  Off(v, n + 1, b + 1) /\ Off(v, n - 1, b + 1)
<1>1. PICK d \in Int : -b <= d /\ d <= b /\ v = (n + d) % UINT8
  BY DEF Off
<1>2. /\ n + d = (n + 1) + (d - 1) /\ n + d = (n - 1) + (d + 1)
      /\ d - 1 \in Int /\ -(b + 1) <= d - 1 /\ d - 1 <= b + 1
      /\ d + 1 \in Int /\ -(b + 1) <= d + 1 /\ d + 1 <= b + 1
  BY <1>1
<1>3. v = ((n + 1) + (d - 1)) % UINT8 /\ v = ((n - 1) + (d + 1)) % UINT8
  BY <1>1, <1>2
<1> QED
  BY <1>2, <1>3 DEF Off

\* Steps that store nothing: a task that is to store then has a value from
\* before, or takes over the count.
LEMMA DriftKept ==
  ASSUME AccessTypeOK, DriftInv, Counted' = Counted, UNCHANGED activeAccesses,
         races' \in Int, Others' \in Int, races - Others <= races' - Others',
         \A u \in Tasks : at'[u] \in {"c_store", "d_store"} =>
           \/ at[u] \in {"c_store", "d_store"} /\ register'[u] = register[u]
           \/ register'[u] = activeAccesses
  PROVE  DriftInv'
<1> DEFINE n == Cardinality(Counted)
           b == races - Others
           c == races' - Others'
<1>1. b \in Int /\ c \in Int /\ b <= c
  BY BusyFinite, AccessConstants DEF AccessTypeOK
<1>2. \A v : Off(v, n, b) => Off(v, n, c)
  BY <1>1, OffMore
<1>3. Off(activeAccesses, n, c)
  BY <1>2 DEF DriftInv
<1>4. ASSUME NEW u \in Tasks, at'[u] \in {"c_store", "d_store"}
      PROVE  Off(register'[u], n, c)
  BY <1>2, <1>3, <1>4 DEF DriftInv
<1> QED
  BY <1>3, <1>4 DEF DriftInv

\* A step of task t to another place changes nobody else's place.
LEMMA BusySame ==
  ASSUME AccessTypeOK, NEW t \in Tasks, NEW place, Goto(t, place),
         t \in Busy <=> place \in (Constructor \ {"c_select"}) \cup {"d_store"}
  PROVE  Busy' = Busy
BY DEF AccessTypeOK, Goto, Busy

\* Taking away the same from more leaves more.
LEMMA Less == \A r, s, o, p \in Nat : r <= s /\ o = p => r - o <= s - p
OBVIOUS

\* Whoever finds others busy has met a task.
LEMMA DriftEnters ==
  ASSUME AccessTypeOK, NEW t \in Tasks, NEW place, Goto(t, place), Enters(t),
         at[t] \in Outside
  PROVE  /\ races' \in Int /\ Others' \in Int
         /\ races - Others <= races' - Others'
<1>0. /\ races \in Nat /\ Others \in Nat /\ IsFiniteSet(Busy)
      /\ Cardinality(Busy) \in Nat /\ (Cardinality(Busy) = 0 <=> Busy = {})
  BY BusyFinite, AccessConstants DEF AccessTypeOK
<1>1. races' \in Nat /\ races <= races'
  BY <1>0 DEF Enters
<1>2. t \notin Busy
  BY DEF Busy, Outside, Constructor
<1>3. Busy' = Busy \/ Busy' = Busy \cup {t}
  <2>1. \A u \in Tasks \ {t} : u \in Busy' <=> u \in Busy
    BY DEF AccessTypeOK, Goto, Busy
  <2>2. Busy \subseteq Tasks /\ Busy' \subseteq Tasks
    BY DEF Busy
  <2> QED
    BY <1>2, <2>1, <2>2
<1>4. CASE Busy' = Busy
  <2>1. Others' = Others
    BY <1>4 DEF Others
  <2>2. races' \in Int /\ Others' \in Int
    BY <1>0, <1>1, <2>1
  <2>3. races - Others <= races' - Others'
    BY <1>0, <1>1, <2>1, Less
  <2> QED
    BY <2>2, <2>3
<1>5. CASE Busy' = Busy \cup {t}
  <2>1. Cardinality(Busy') = Cardinality(Busy) + 1 /\ Busy' # {}
    BY <1>0, <1>2, <1>5, FS_AddElement
  <2>2. Others' = Cardinality(Busy)
    BY <1>0, <2>1 DEF Others
  <2>3. CASE Busy = {}
    <3>1. Others = 0 /\ Others' = 0
      BY <1>0, <2>2, <2>3 DEF Others
    <3>2. races' \in Int /\ Others' \in Int
      BY <1>1, <3>1
    <3>3. races - Others <= races' - Others'
      BY <1>0, <1>1, <3>1, Less
    <3> QED
      BY <3>2, <3>3
  <2>4. CASE Busy # {}
    <3>1. PICK u \in Tasks : u \in Busy
      BY <2>4 DEF Busy
    <3>2. u # t /\ at[u] \notin Outside
      BY <1>2, <3>1 DEF Busy, Outside, Constructor
    <3>3. races' = races + 1
      BY <3>1, <3>2 DEF Enters
    <3> QED
      BY <1>0, <2>2, <2>4, <3>3 DEF Others
  <2> QED
    BY <2>3, <2>4
<1> QED
  BY <1>3, <1>4, <1>5

\* A task that stores puts those that are still to store one further off.
LEMMA DriftStores ==
  ASSUME AccessTypeOK, DriftInv, NEW t \in Tasks,
         StoreIncremented(t) \/ StoreDecremented(t)
  PROVE  DriftInv'
<1> DEFINE n == Cardinality(Counted)
           b == races - Others
<1>0. /\ races \in Nat /\ Others \in Nat /\ n \in Int /\ IsFiniteSet(Busy)
      /\ Cardinality(Busy) \in Nat /\ (Cardinality(Busy) = 0 <=> Busy = {})
  BY BusyFinite, CountedFinite, AccessConstants DEF AccessTypeOK
<1>1. t \in Busy /\ at[t] \in {"c_store", "d_store"} /\ races' = races
  BY DEF StoreIncremented, StoreDecremented, Busy, Constructor
<1>2. Busy' = Busy \ {t} /\ \A u \in Tasks \ {t} : at'[u] = at[u]
  BY DEF StoreIncremented, StoreDecremented, AccessTypeOK, Goto, Busy, Constructor
<1>3. Cardinality(Busy') = Cardinality(Busy) - 1
  BY <1>0, <1>1, <1>2, FS_RemoveElement
<1>4. /\ Others = Cardinality(Busy) - 1 /\ Cardinality(Busy) # 0
      /\ Others' = IF Cardinality(Busy) = 1 THEN 0 ELSE Cardinality(Busy) - 2
  <2>1. Cardinality(Busy') = 0 <=> Busy' = {}
    <3>1. IsFiniteSet(Busy')
      BY <1>0, <1>2, FS_Subset
    <3> QED
      BY <3>1, FS_EmptySet
  <2> QED
    BY <1>0, <1>1, <1>3, <2>1 DEF Others
<1>5. Off(register[t], n, b)
  BY <1>1 DEF DriftInv
<1>6. /\ b \in Int /\ b <= races' - Others' /\ races' - Others' \in Int
  BY <1>0, <1>1, <1>4
<1>7. \/ Cardinality(Counted') = n + 1 /\ activeAccesses' = (register[t] + 1) % UINT8
      \/ Cardinality(Counted') = n - 1
         /\ activeAccesses' = (register[t] + UINT8 - 1) % UINT8
  BY CountedMore, CountedLess DEF StoreIncremented, StoreDecremented
<1>8. Off(activeAccesses', Cardinality(Counted'), races' - Others')
  <2>1. Off(activeAccesses', Cardinality(Counted'), b)
    BY <1>0, <1>5, <1>6, <1>7, OffStored
  <2> QED
    BY <1>6, <2>1, OffMore
<1>9. ASSUME NEW u \in Tasks, at'[u] \in {"c_store", "d_store"}
      PROVE  Off(register'[u], Cardinality(Counted'), races' - Others')
  <2>1. u # t
    BY <1>9 DEF StoreIncremented, StoreDecremented, AccessTypeOK, Goto
  <2>2. at[u] \in {"c_store", "d_store"} /\ register'[u] = register[u]
    BY <1>2, <1>9, <2>1 DEF StoreIncremented, StoreDecremented, AccessTypeOK
  <2>3. u \in Busy'
    BY <1>2, <2>1, <2>2 DEF Busy, Constructor
  <2>4. b + 1 = races' - Others'
    <3>1. Cardinality(Busy) # 1
      <4>1. IsFiniteSet(Busy')
        BY <1>0, <1>2, FS_Subset
      <4>2. Cardinality(Busy') # 0
        BY <2>3, <4>1, FS_EmptySet
      <4> QED
        BY <1>0, <1>3, <4>2
    <3> QED
      BY <1>0, <1>1, <1>4, <3>1
  <2>5. Off(register[u], n, b)
    BY <2>2 DEF DriftInv
  <2>6. Off(register[u], n + 1, b + 1) /\ Off(register[u], n - 1, b + 1)
    BY <1>0, <1>6, <2>5, OffStale
  <2> QED
    BY <1>7, <2>2, <2>4, <2>6
<1> HIDE DEF n, b
<1> QED
  BY <1>8, <1>9 DEF DriftInv

\* Every step keeps the count within its bounds.
LEMMA DriftStep ==
  ASSUME AccessTypeOK, DriftInv, AccessNext
  PROVE  DriftInv'
<1> USE DEF AccessTypeOK
<1>0. races \in Int /\ Others \in Int /\ races - Others <= races - Others
  BY BusyFinite, AccessConstants
<1>1. ASSUME NEW t \in Tasks, CheckChanging(t)
      PROVE  DriftInv'
  <2>1. Counted' = Counted
    BY <1>1, CountedSame DEF CheckChanging, Counted
  <2>2. CASE changingSdCard
    <3>1. Busy' = Busy
      BY <1>1, <2>2, BusySame DEF CheckChanging, Busy, Constructor
    <3>2. races' = races /\ Others' = Others
      BY <1>1, <2>2, <3>1 DEF CheckChanging, Others
    <3> QED
      BY <1>0, <1>1, <2>1, <2>2, <3>2, DriftKept DEF CheckChanging, Goto
  <2>3. CASE ~changingSdCard
    <3>1. races' \in Int /\ Others' \in Int /\ races - Others <= races' - Others'
      BY <1>1, <2>3, DriftEnters DEF CheckChanging, Outside
    <3> QED
      BY <1>1, <2>1, <2>3, <3>1, DriftKept DEF CheckChanging, Goto
  <2> QED
    BY <2>2, <2>3
<1>2. ASSUME NEW t \in Tasks, LoadForDecrement(t)
      PROVE  DriftInv'
  <2>1. Counted' = Counted
    BY <1>2, CountedSame DEF LoadForDecrement, Counted
  <2>2. races' \in Int /\ Others' \in Int /\ races - Others <= races' - Others'
    BY <1>2, DriftEnters DEF LoadForDecrement, Outside
  <2> QED
    BY <1>2, <2>1, <2>2, DriftKept DEF LoadForDecrement, Goto
<1>3. ASSUME NEW t \in Tasks,
             \/ ReadVolume(t) \/ CheckFirst(t) \/ OpenFilesystem(t)
             \/ LoadForIncrement(t) \/ DropDenied(t)
      PROVE  DriftInv'
  <2>1. Counted' = Counted
    BY <1>3, CountedSame
       DEF ReadVolume, CheckFirst, OpenFilesystem, LoadForIncrement, DropDenied, Counted
  <2>2. Busy' = Busy
    BY <1>3, BusySame
       DEF ReadVolume, CheckFirst, OpenFilesystem, LoadForIncrement, DropDenied, Busy,
           Constructor
  <2>3. races' = races /\ Others' = Others
    BY <1>3, <2>2
       DEF ReadVolume, CheckFirst, OpenFilesystem, LoadForIncrement, DropDenied, Others
  <2> QED
    BY <1>0, <1>3, <2>1, <2>3, DriftKept
       DEF ReadVolume, CheckFirst, OpenFilesystem, LoadForIncrement, DropDenied, Goto
<1>4. ASSUME NEW t \in Tasks, SelectSdCard(t) \/ CheckLast(t) \/ CloseFilesystem(t)
      PROVE  DriftInv'
  <2>1. Counted' = Counted
    BY <1>4, CountedSame DEF SelectSdCard, CheckLast, CloseFilesystem, Counted
  <2>2. Busy' = Busy
    BY <1>4, BusySame DEF SelectSdCard, CheckLast, CloseFilesystem, Busy, Constructor
  <2>3. races' = races /\ Others' = Others
    BY <1>4, <2>2 DEF SelectSdCard, CheckLast, CloseFilesystem, Others
  <2> QED
    BY <1>0, <1>4, <2>1, <2>3, DriftKept DEF SelectSdCard, CheckLast, CloseFilesystem, Goto
<1>5. ASSUME ChangeStep
      PROVE  DriftInv'
  <2>0. Handler \in Tasks
    BY DEF Tasks
  <2>1. Counted' = Counted
    BY <1>5, <2>0, CountedSame
       DEF ChangeStep, BeginChange, ChangeRefused, ChangePossible, SwitchCard, Counted
  <2>2. races' \in Int /\ Others' \in Int /\ races - Others <= races' - Others'
    <3>1. CASE BeginChange
      BY <2>0, <3>1, DriftEnters DEF BeginChange, Outside
    <3>2. CASE ChangeRefused \/ ChangePossible \/ SwitchCard
      <4>1. Busy' = Busy
        BY <2>0, <3>2, BusySame
           DEF ChangeRefused, ChangePossible, SwitchCard, Busy, Constructor
      <4>2. races' = races /\ Others' = Others
        BY <3>2, <4>1 DEF ChangeRefused, ChangePossible, SwitchCard, Others
      <4> QED
        BY <1>0, <4>2
    <3> QED
      BY <1>5, <3>1, <3>2 DEF ChangeStep
  <2> QED
    BY <1>5, <2>0, <2>1, <2>2, DriftKept
       DEF ChangeStep, BeginChange, ChangeRefused, ChangePossible, SwitchCard, Goto
<1> QED
  BY <1>1, <1>2, <1>3, <1>4, <1>5, DriftStores
     DEF AccessNext, TokenStep, TokenContinues, TokenEnds

\* Before the first access the count is right.
LEMMA DriftInit == AccessInit => DriftInv
<1> SUFFICES ASSUME AccessInit PROVE DriftInv
  OBVIOUS
<1>1. \A t \in Tasks : at[t] = "out"
  BY DEF AccessInit
<1>2. Counted = {} /\ Busy = {}
  BY <1>1 DEF Counted, Busy, Constructor
<1>3. Cardinality(Counted) = 0 /\ Others = 0 /\ races = 0 /\ activeAccesses = 0
  BY <1>2, FS_EmptySet DEF AccessInit, Others
<1>4. Off(activeAccesses, Cardinality(Counted), races - Others)
  BY <1>3 DEF Off, UINT8
<1> QED
  BY <1>1, <1>4 DEF DriftInv

\* A bound on the meetings of the tasks that have stored is one on all of them.
LEMMA DriftBound == AccessTypeOK /\ DriftInv => CountDrift
<1> SUFFICES ASSUME AccessTypeOK, DriftInv PROVE CountDrift
  OBVIOUS
<1> DEFINE n == Cardinality(Counted)
<1>0. races \in Nat /\ Others \in Nat /\ n \in Nat
  BY BusyFinite, CountedFinite, AccessConstants DEF AccessTypeOK
<1>1. PICK d \in Int : /\ -(races - Others) <= d /\ d <= races - Others
                       /\ activeAccesses = (n + d) % UINT8
  BY DEF DriftInv, Off
<1>2. d + races \in 0 .. 2 * races
  BY <1>0, <1>1
<1>3. activeAccesses = (n + UINT8 + (d + races) - races) % UINT8
  <2>1. n + UINT8 + (d + races) - races = (n + d) + UINT8
    BY <1>0 DEF UINT8
  <2> QED
    BY <1>0, <1>1, <2>1, Bits
<1> QED
  BY <1>2, <1>3 DEF CountDrift

\* However often tasks meet in the unprotected code, each meeting falsifies the
\* count of accesses by one at the most, for any number of tasks.
THEOREM CountDriftsByMeetings == AccessSpec => []CountDrift
<1>1. AccessTypeOK /\ DriftInv /\ [AccessNext]_accessVars => DriftInv'
  <2> SUFFICES ASSUME AccessTypeOK, DriftInv, [AccessNext]_accessVars PROVE DriftInv'
    OBVIOUS
  <2>1. CASE UNCHANGED accessVars
    BY <2>1 DEF accessVars, DriftInv, Counted, Busy, Others
  <2> QED
    BY <2>1, DriftStep
<1> QED
  BY <1>1, AccessTypeInit, AccessTypeStep, DriftInit, DriftBound, PTL DEF AccessSpec
=============================================================================
