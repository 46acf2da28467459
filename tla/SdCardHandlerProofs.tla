------------------------ MODULE SdCardHandlerProofs ------------------------
(***************************************************************************)
(* Proofs about SdCardHandler for any number of client tasks, commands and *)
(* packets of an upload.                                                   *)
(***************************************************************************)
EXTENDS SdCardHandler, SdCardAccessProofs, SequenceTheorems

\* Where the handler is in the code of its token, in each step of its cycle.  A
\* change of the card is only under way while it is pending, and never when the
\* handler creates its token.
HandlerPlace ==
  /\ changingSdCard => sdCardChangeOngoing /\ step \in {"wait", "try"}
  /\ step = "wait"  => at[Handler] = "out"
  /\ step = "try"   => /\ sdCardChangeOngoing
                       /\ at[Handler] \in {"out", "t_check", "t_switch"}
  /\ step = "token" => at[Handler] \in Constructor \cup {"out", "holding"}
  /\ step \in {"message", "loop"} => at[Handler] = "holding"
  /\ step = "release" => at[Handler] \in Destructor \cup {"out", "holding"}
  /\ at[Handler] \in (Constructor \ {"c_volume"}) \cup {"holding"} =>
       volume[Handler] = activeSdCard

\* The last n packets of a file are the first n packets of an upload.
EndsWith(f, n) ==
  n <= Len(f) /\ \A i \in 1 .. n : f[Len(f) - n + i] = i - 1

ActiveContent ==
  IF activeSdCard \in DOMAIN file THEN file[activeSdCard] ELSE <<>>

\* The packets of an upload in order are in the file on the active card; after a
\* failed one, all but the last.
UploadInv ==
  /\ upload \in {"clean", "failed"} => lastPacketWriteNumber \in 0 .. MaxPacket
  /\ upload = "clean"  => EndsWith(ActiveContent, lastPacketWriteNumber + 1)
  /\ upload = "failed" => EndsWith(ActiveContent, lastPacketWriteNumber)

HandlerInv == TypeOK /\ HandlerPlace /\ UploadInv /\ UploadReported

-----------------------------------------------------------------------------
(* The handler uses the tokens as SdCardAccess allows *)

\* A step of the handler is a step of the tokens, or leaves them alone.
LEMMA NextAccess == Next => AccessNext \/ UNCHANGED accessVars
<1> SUFFICES ASSUME Next PROVE AccessNext \/ UNCHANGED accessVars
  OBVIOUS
<1>0. Handler \in Tasks /\ Clients \subseteq Tasks
  BY DEF Tasks
<1>1. CASE Arrive \/ ReceiveFirst \/ AccessResult \/ HandleFirst
           \/ handleNextMessage \/ driveStateMachine \/ LeaveLoop \/ CycleOver
  BY <1>1 DEF Arrive, ReceiveFirst, AccessResult, HandleFirst,
              handleNextMessage, driveStateMachine, LeaveLoop, CycleOver
<1>2. CASE TryActiveSdCardChange
  BY <1>2 DEF TryActiveSdCardChange, AccessNext, ChangeStep
<1>3. CASE CreateToken \/ ReleaseToken
  BY <1>0, <1>3 DEF CreateToken, ReleaseToken, AccessNext, TokenStep
<1>4. CASE \E t \in Clients : ClientTask(t)
  BY <1>0, <1>4 DEF ClientTask, AccessNext
<1> QED
  BY <1>1, <1>2, <1>3, <1>4 DEF Next, HandlerTask

\* The handler and its clients together implement the protocol of the tokens.
THEOREM ImplementsAccess == Spec => AccessSpec
<1>1. Init => AccessInit
  BY DEF Init
<1>2. [Next]_vars => [AccessNext]_accessVars
  BY NextAccess DEF vars
<1> QED
  BY <1>1, <1>2, PTL DEF Spec, AccessSpec

\* With the SD card handler as the one who changes cards, the tokens keep their
\* promise as long as no two tasks meet in the unprotected code.
THEOREM HandlerSwitchIsSafe == Spec => []SafeSwitch
BY ImplementsAccess, SwitchIsSafe, PTL

\* Whatever the handler and its clients do, and however often they meet, each
\* meeting falsifies the count of accesses by one at the most.
THEOREM HandlerCountDrifts == Spec => []CountDrift
BY ImplementsAccess, CountDriftsByMeetings, PTL

-----------------------------------------------------------------------------
(* Files *)

FileType(f) == DOMAIN f \subseteq Volumes /\ \A v \in DOMAIN f : f[v] \in Seq(Packets)

\* The card of the handler's token is a volume, and the file on it is packets.
LEMMA CardType == TypeOK => Card \in Volumes /\ Content \in Seq(Packets)
<1> SUFFICES ASSUME TypeOK PROVE Card \in Volumes /\ Content \in Seq(Packets)
  OBVIOUS
<1>1. Card \in Volumes
  BY DEF TypeOK, AccessTypeOK, Card, Tasks
<1>2. <<>> \in Seq(Packets)
  BY EmptySeq
<1> QED
  BY <1>1, <1>2 DEF Content, Exists, TypeOK

\* Writing the file keeps its type.
LEMMA WriteType ==
  ASSUME TypeOK, NEW content \in Seq(Packets), Write(content)
  PROVE  FileType(file')
BY CardType DEF TypeOK, Write, FileType

\* Deleting the file, or formatting the card, keeps its type.
LEMMA RemoveType ==
  ASSUME TypeOK, NEW c, Remove(c)
  PROVE  FileType(file')
BY DEF TypeOK, Remove, FileType

\* A written file is the only one that changes.
LEMMA WriteContent ==
  ASSUME NEW content, Write(content), volume[Handler] = activeSdCard,
         activeSdCard' = activeSdCard
  PROVE  ActiveContent' = content
BY DEF Write, Card, ActiveContent

\* A packet, or the part of it that a failed write has left, can be appended.
LEMMA AppendType ==
  ASSUME TypeOK, NEW k \in 0 .. MaxPacket
  PROVE  /\ k \in Packets /\ Part \in Packets
         /\ \A written \in {k, Part} : Append(Content, written) \in Seq(Packets)
<1>1. k \in Packets /\ Part \in Packets
  BY HandlerConstants DEF Packets, Part
<1> QED
  BY <1>1, CardType

-----------------------------------------------------------------------------
(* Packet numbers *)

\* What the remainder is, and when it changes nothing.
LEMMA Modulus ==
  ASSUME NEW n \in Nat \ {0}, NEW x \in Nat
  PROVE  x % n \in 0 .. n - 1 /\ (x < n => x % n = x)
OBVIOUS

\* The numbers of packets are 16-bit, the last of which means "none".
LEMMA SequenceNumbers ==
  /\ UNSET_SEQUENCE \in Nat /\ UNSET_SEQUENCE > 2
  /\ UINT16 = UNSET_SEQUENCE + 1
BY SMT DEF UNSET_SEQUENCE, UINT16

\* The number of packets that is reported is a 16-bit number, and after a packet
\* the number of the packet plus one.
LEMMA ReportedType ==
  ASSUME lastPacketWriteNumber \in 0 .. MaxPacket \cup {UNSET_SEQUENCE}
  PROVE  /\ PacketsReported \in 0 .. UINT16 - 1
         /\ lastPacketWriteNumber \in 0 .. MaxPacket =>
              PacketsReported = lastPacketWriteNumber + 1
<1>1. /\ lastPacketWriteNumber \in Nat
      /\ lastPacketWriteNumber \in 0 .. MaxPacket => lastPacketWriteNumber + 1 < UINT16
      /\ UINT16 \in Nat \ {0}
  BY SequenceNumbers, HandlerConstants
<1> DEFINE x == lastPacketWriteNumber + 1
<1>2. x \in Nat
  BY <1>1
<1> HIDE DEF x
<1>3. x % UINT16 \in 0 .. UINT16 - 1 /\ (x < UINT16 => x % UINT16 = x)
  BY <1>1, <1>2, Modulus
<1> QED
  BY <1>1, <1>3, Zenon DEF x, PacketsReported

\* The finish reply that was never sent has the type of one.
LEMMA NoFinishType == NoFinish.upload \in Uploads /\ NoFinish.reported \in 0 .. UINT16 - 1
<1>1. NoFinish.upload = "none" /\ NoFinish.reported = 0
  BY DEF NoFinish
<1> QED
  BY <1>1, SequenceNumbers DEF Uploads

-----------------------------------------------------------------------------
(* Messages *)

\* What a handled message leaves has its type.
LEMMA HandleType ==
  ASSUME TypeOK, NEW m \in Messages, Handle(m)
  PROVE  /\ sdCardChangeOngoing' \in BOOLEAN
         /\ internalState' \in {"IDLE", "COPY_FILE"}
         /\ lastPacketWriteNumber' \in 0 .. MaxPacket \cup {UNSET_SEQUENCE}
         /\ FileType(file')
         /\ upload' \in Uploads
         /\ finish'.upload \in Uploads /\ finish'.reported \in 0 .. UINT16 - 1
         /\ copyPending' \in Copies
<1> USE DEF TypeOK
<1>0. FileType(file)
  BY DEF FileType
<1>1. copyPending' \in Copies
  BY DEF Handle, CancelOperations, CopyFile, Copies
<1>2. finish'.upload \in Uploads /\ finish'.reported \in 0 .. UINT16 - 1
  <2>1. CASE m.kind = "FINISH_APPEND"
    <3>1. FinishAppend
      BY <2>1 DEF Handle
    <3> QED
      BY <3>1, ReportedType DEF FinishAppend
  <2>2. CASE m.kind # "FINISH_APPEND"
    BY <2>2, NoFinishType DEF Handle
  <2> QED
    BY <2>1, <2>2
<1>3. CASE m.kind = "REPORT"
  BY <1>0, <1>1, <1>2, <1>3 DEF Handle
<1>4. CASE SelectActiveSdCard
  BY <1>0, <1>1, <1>2, <1>4 DEF SelectActiveSdCard
<1>5. CASE RemoveFile
  <2>1. FileType(file')
    BY <1>0, <1>5, RemoveType DEF RemoveFile
  <2>2. upload' \in Uploads
    BY <1>5 DEF RemoveFile, Disturb, Uploads
  <2> QED
    BY <1>1, <1>2, <1>5, <2>1, <2>2 DEF RemoveFile
<1>6. CASE CancelOperations
  BY <1>0, <1>1, <1>2, <1>6 DEF CancelOperations, resetAndSetToIdle
<1>7. CASE CreateFile
  <2>1. FileType(file')
    BY <1>0, <1>7, WriteType, EmptySeq DEF CreateFile
  <2> QED
    BY <1>1, <1>2, <1>7, <2>1 DEF CreateFile
<1>8. CASE m.kind = "APPEND_TO_FILE"
  <2>1. m.packet \in 0 .. MaxPacket /\ AppendToFile(m.packet)
    BY <1>8 DEF Messages, Handle, Kinds
  <2>2. FileType(file')
    <3>1. CASE \E written \in {m.packet, Part} : Write(Append(Content, written))
      BY <2>1, <3>1, AppendType, WriteType
    <3>2. CASE \E written \in {m.packet, Part} :
                 Content # <<>> /\ Write([Content EXCEPT ![1] = written])
      <4>1. PICK written \in {m.packet, Part} :
              Content # <<>> /\ Write([Content EXCEPT ![1] = written])
        BY <3>2
      <4>2. Content \in Seq(Packets) /\ written \in Packets
        BY <2>1, AppendType, CardType
      <4>3. 1 \in 1 .. Len(Content)
        BY <4>1, <4>2, LenProperties, EmptySeq
      <4>4. [Content EXCEPT ![1] = written] \in Seq(Packets)
        BY <4>2, <4>3, ExceptSeq
      <4> QED
        BY <4>1, <4>4, WriteType
    <3>3. CASE UNCHANGED file
      BY <1>0, <3>3
    <3> QED
      BY <2>1, <3>1, <3>2, <3>3 DEF AppendToFile
  <2>3. upload' \in Uploads
    BY <2>1 DEF AppendToFile, UploadAfter, Uploads
  <2>4. lastPacketWriteNumber' \in 0 .. MaxPacket \cup {UNSET_SEQUENCE}
    BY <2>1 DEF AppendToFile
  <2> QED
    BY <1>1, <1>2, <2>1, <2>2, <2>3, <2>4 DEF AppendToFile
<1>9. CASE FinishAppend
  BY <1>0, <1>1, <1>2, <1>9 DEF FinishAppend, Uploads
<1>10. CASE CopyFile
  BY <1>0, <1>1, <1>2, <1>10 DEF CopyFile
<1> QED
  BY <1>3, <1>4, <1>5, <1>6, <1>7, <1>8, <1>9, <1>10 DEF Handle

\* The types hold when the task starts.
LEMMA TypeInit == Init => TypeOK
<1> SUFFICES ASSUME Init PROVE TypeOK
  OBVIOUS
<1>1. AccessTypeOK
  BY AccessTypeInit DEF Init
<1>2. messages \in Seq(Messages) /\ Len(messages) <= QueueDepth
  BY HandlerConstants, EmptySeq DEF Init
<1>3. message \in Messages
  BY DEF Init, Report, Messages, Kinds
<1>4. /\ DOMAIN file \subseteq Volumes
      /\ \A v \in DOMAIN file : file[v] \in Seq(Packets)
  <2>1. \A n \in {1, 2} : [i \in 1 .. n |-> i - 1] \in Seq(Packets)
    BY HandlerConstants DEF Packets, Part
  <2>2. <<>> \in Seq(Packets)
    BY EmptySeq
  <2> QED
    BY <2>1, <2>2 DEF Init, InitialUpload
<1>5. /\ lastPacketWriteNumber \in 0 .. MaxPacket \cup {UNSET_SEQUENCE}
      /\ upload \in Uploads
  BY HandlerConstants, SequenceNumbers DEF Init, InitialUpload, Uploads
<1>6. finish.upload \in Uploads /\ finish.reported \in 0 .. UINT16 - 1
  BY NoFinishType DEF Init
<1>7. step \in Steps /\ copyPending \in Copies /\ commanded \in 0 .. MaxMessages
  BY HandlerConstants DEF Init, Steps, Copies
<1> QED
  BY <1>1, <1>2, <1>3, <1>4, <1>5, <1>6, <1>7 DEF Init, TypeOK

\* A command that only reads is a message.
LEMMA ReportType == Report \in Messages
BY DEF Report, Messages, Kinds

\* What receiveMessage takes from the queue, and leaves in it.
LEMMA QueueType ==
  ASSUME TypeOK, messages # <<>>
  PROVE  /\ Head(messages) \in Messages
         /\ Tail(messages) \in Seq(Messages) /\ Len(Tail(messages)) <= QueueDepth
<1>1. /\ messages \in Seq(Messages) /\ Len(messages) <= QueueDepth
      /\ Len(messages) \in Nat
  BY LenProperties DEF TypeOK
<1> QED
  BY <1>1, HeadTailProperties, HandlerConstants

\* Every step keeps the types.
LEMMA TypeStep == TypeOK /\ [Next]_vars => TypeOK'
<1> SUFFICES ASSUME TypeOK, [Next]_vars PROVE TypeOK'
  OBVIOUS
<1>0. AccessTypeOK'
  <2>1. AccessNext \/ UNCHANGED accessVars
    BY NextAccess DEF vars
  <2> QED
    BY <2>1, AccessTypeStep DEF TypeOK
<1> USE DEF TypeOK
<1> USE <1>0
<1>1. CASE Arrive
  <2>1. messages' \in Seq(Messages) /\ Len(messages') <= QueueDepth
    <3>1. messages \in Seq(Messages) /\ Len(messages) \in Nat /\ Len(messages) < QueueDepth
      BY <1>1, LenProperties DEF Arrive
    <3> QED
      BY <1>1, <3>1, HandlerConstants DEF Arrive
  <2>2. commanded' \in 0 .. MaxMessages
    BY <1>1, HandlerConstants DEF Arrive
  <2> QED
    BY <1>1, <2>1, <2>2 DEF Arrive
<1>2. CASE ReceiveFirst
  BY <1>2, QueueType DEF ReceiveFirst, Steps
<1>3. CASE TryActiveSdCardChange
  <2>1. upload' \in Uploads
    BY <1>3 DEF TryActiveSdCardChange, Disturb, Uploads
  <2> QED
    BY <1>3, <2>1, ReportType DEF TryActiveSdCardChange, Steps
<1>4. CASE CreateToken
  BY <1>4 DEF CreateToken, handlerVars
<1>5. CASE AccessResult
  BY <1>5 DEF AccessResult, Steps
<1>6. CASE HandleFirst
  <2>1. Handle(message) /\ message \in Messages
    BY <1>6 DEF HandleFirst
  <2> QED
    BY <1>6, <2>1, HandleType, ReportType DEF HandleFirst, Steps, FileType
<1>7. CASE handleNextMessage
  <2>1. Handle(Head(messages)) /\ Head(messages) \in Messages
    BY <1>7, QueueType DEF handleNextMessage
  <2> QED
    BY <1>7, <2>1, HandleType, QueueType
       DEF handleNextMessage, LoopOrReturn, Steps, FileType
<1>8. CASE driveStateMachine
  <2>1. step' \in Steps /\ copyPending' \in Copies
    BY <1>8 DEF driveStateMachine, CopySourceFails, CopyPeriodOver, CopyFails,
                CopyCompletes, LoopOrReturn, Steps, Copies
  <2> QED
    BY <1>8, <2>1 DEF driveStateMachine, resetAndSetToIdle
<1>9. CASE LeaveLoop
  BY <1>9, NoFinishType DEF LeaveLoop, Steps
<1>10. CASE ReleaseToken
  BY <1>10 DEF ReleaseToken, handlerVars
<1>11. CASE CycleOver
  BY <1>11, ReportType DEF CycleOver, Steps
<1>12. CASE \E t \in Clients : ClientTask(t)
  BY <1>12 DEF ClientTask, handlerVars
<1>13. CASE UNCHANGED vars
  BY <1>13 DEF vars, handlerVars
<1> QED
  BY <1>1, <1>2, <1>3, <1>4, <1>5, <1>6, <1>7, <1>8, <1>9, <1>10, <1>11, <1>12,
     <1>13 DEF Next, HandlerTask

\* Every variable keeps its type, and a file holds packets only.
THEOREM TypeCorrect == Spec => []TypeOK
BY TypeInit, TypeStep, PTL DEF Spec

-----------------------------------------------------------------------------
(* The handler and its own changes of the card *)

\* The clients leave the handler, the active card and its change alone.
LEMMA ClientsApart ==
  ASSUME TypeOK, NEW t \in Clients, ClientTask(t)
  PROVE  /\ at'[Handler] = at[Handler] /\ volume'[Handler] = volume[Handler]
         /\ UNCHANGED <<activeSdCard, changingSdCard, handlerVars>>
<1>1. t # Handler /\ t \in Tasks /\ Handler \in Tasks
  BY AccessConstants DEF Tasks
<1>2. /\ at \in [Tasks -> Places] /\ volume \in [Tasks -> Volumes]
  BY DEF TypeOK, AccessTypeOK, Places
<1> QED
  BY <1>1, <1>2
     DEF ClientTask, TokenStep, TokenContinues, TokenEnds, CheckChanging,
         ReadVolume, CheckFirst, OpenFilesystem, LoadForIncrement,
         StoreIncremented, SelectSdCard, DropDenied, LoadForDecrement,
         StoreDecremented, CheckLast, CloseFilesystem, Forget, Goto

\* The handler stays at the place in its token that its cycle has reached.
LEMMA PlaceStep == TypeOK /\ HandlerPlace /\ [Next]_vars => HandlerPlace'
<1> SUFFICES ASSUME TypeOK, HandlerPlace, [Next]_vars PROVE HandlerPlace'
  OBVIOUS
<1>0. /\ Handler \in Tasks
      /\ at \in [Tasks -> Places] /\ volume \in [Tasks -> Volumes]
  BY DEF Tasks, TypeOK, AccessTypeOK, Places
<1> USE DEF HandlerPlace
<1>1. CASE Arrive
  BY <1>1 DEF Arrive, accessVars
<1>2. CASE ReceiveFirst
  BY <1>2 DEF ReceiveFirst, accessVars
<1>3. CASE TryActiveSdCardChange
  <2>1. CASE BeginChange
    BY <1>0, <1>3, <2>1 DEF TryActiveSdCardChange, BeginChange, Goto, Constructor,
         ChangeRefused, SwitchCard
  <2>2. CASE ChangePossible
    BY <1>0, <1>3, <2>2 DEF TryActiveSdCardChange, ChangePossible, Goto, Constructor,
         ChangeRefused, SwitchCard
  <2>3. CASE ChangeRefused
    BY <1>0, <1>3, <2>3 DEF TryActiveSdCardChange, ChangeRefused, Goto, Constructor,
         BeginChange, ChangePossible, SwitchCard
  <2>4. CASE SwitchCard
    BY <1>0, <1>3, <2>4 DEF TryActiveSdCardChange, SwitchCard, Goto, Constructor,
         BeginChange, ChangePossible, ChangeRefused
  <2> QED
    BY <1>3, <2>1, <2>2, <2>3, <2>4 DEF TryActiveSdCardChange
<1>4. CASE CreateToken
  <2>1. step = "token" /\ ~changingSdCard /\ UNCHANGED <<step, changingSdCard, activeSdCard>>
    BY <1>4 DEF CreateToken, handlerVars, CheckChanging, TokenContinues,
         ReadVolume, CheckFirst, OpenFilesystem, LoadForIncrement,
         StoreIncremented, SelectSdCard, StoreDecremented, CheckLast,
         CloseFilesystem
  <2>2. /\ at'[Handler] \in Constructor \cup {"holding"}
        /\ at'[Handler] # "c_volume" => volume'[Handler] = activeSdCard
    <3>1. CASE CheckChanging(Handler)
      BY <1>0, <2>1, <3>1 DEF CheckChanging, Goto, Constructor
    <3>2. CASE ReadVolume(Handler)
      BY <1>0, <3>2 DEF ReadVolume, Goto, Constructor
    <3>3. CASE CheckFirst(Handler) \/ OpenFilesystem(Handler)
               \/ LoadForIncrement(Handler) \/ StoreIncremented(Handler)
               \/ SelectSdCard(Handler)
      BY <1>0, <3>3 DEF CheckFirst, OpenFilesystem, LoadForIncrement,
           StoreIncremented, SelectSdCard, Goto, Constructor
    <3>4. CASE StoreDecremented(Handler) \/ CheckLast(Handler)
               \/ CloseFilesystem(Handler)
      BY <2>1, <3>4 DEF StoreDecremented, CheckLast, CloseFilesystem, Constructor
    <3> QED
      BY <1>4, <3>1, <3>2, <3>3, <3>4 DEF CreateToken, TokenContinues
  <2> QED
    BY <2>1, <2>2
<1>5. CASE AccessResult
  BY <1>5 DEF AccessResult, accessVars
<1>6. CASE HandleFirst
  BY <1>6 DEF HandleFirst, accessVars
<1>7. CASE handleNextMessage
  BY <1>7 DEF handleNextMessage, LoopOrReturn, accessVars
<1>8. CASE driveStateMachine
  BY <1>8 DEF driveStateMachine, CopySourceFails, CopyPeriodOver, CopyFails,
              CopyCompletes, LoopOrReturn, accessVars
<1>9. CASE LeaveLoop
  BY <1>9 DEF LeaveLoop, accessVars
<1>10. CASE ReleaseToken
  <2>1. step = "release" /\ ~changingSdCard /\ UNCHANGED <<step, changingSdCard, activeSdCard>>
    BY <1>10 DEF ReleaseToken, handlerVars, TokenEnds, DropDenied,
         LoadForDecrement, TokenContinues, ReadVolume, CheckFirst,
         OpenFilesystem, LoadForIncrement, StoreIncremented, SelectSdCard,
         StoreDecremented, CheckLast, CloseFilesystem
  <2>2. at'[Handler] \in Destructor \cup {"out"}
    <3>1. CASE TokenEnds(Handler)
      BY <1>0, <2>1, <3>1 DEF TokenEnds, DropDenied, LoadForDecrement, Goto, Destructor
    <3>2. CASE StoreDecremented(Handler) \/ CheckLast(Handler)
               \/ CloseFilesystem(Handler)
      BY <1>0, <3>2 DEF StoreDecremented, CheckLast, CloseFilesystem, Goto, Destructor
    <3>3. CASE ReadVolume(Handler) \/ CheckFirst(Handler) \/ OpenFilesystem(Handler)
               \/ LoadForIncrement(Handler) \/ StoreIncremented(Handler)
               \/ SelectSdCard(Handler)
      BY <2>1, <3>3 DEF ReadVolume, CheckFirst, OpenFilesystem, LoadForIncrement,
           StoreIncremented, SelectSdCard, Destructor
    <3> QED
      BY <1>10, <3>1, <3>2, <3>3 DEF ReleaseToken, TokenContinues
  <2> QED
    BY <2>1, <2>2 DEF Destructor, Constructor
<1>11. CASE CycleOver
  BY <1>11 DEF CycleOver, accessVars
<1>12. CASE \E t \in Clients : ClientTask(t)
  BY <1>12, ClientsApart DEF handlerVars
<1>13. CASE UNCHANGED vars
  BY <1>13 DEF vars, accessVars, handlerVars
<1> QED
  BY <1>1, <1>2, <1>3, <1>4, <1>5, <1>6, <1>7, <1>8, <1>9, <1>10, <1>11, <1>12,
     <1>13 DEF Next, HandlerTask

\* The handler starts without a token.
LEMMA PlaceInit == Init => HandlerPlace
BY DEF Init, AccessInit, HandlerPlace, Tasks, Constructor

\* A handler at its place is not refused.
LEMMA PlaceNotRefused == TypeOK /\ HandlerPlace => HandlerNotRefused
BY DEF TypeOK, HandlerPlace, HandlerNotRefused, Steps, Constructor, Destructor

\* The handler's own token is never refused because of a change of the card, and
\* the card it uses stays the active one, for every number of client tasks and
\* however they meet in the unprotected code.
THEOREM HandlerIsNotRefused == Spec => []HandlerNotRefused
BY TypeInit, TypeStep, PlaceInit, PlaceStep, PlaceNotRefused, PTL DEF Spec

-----------------------------------------------------------------------------
(* Uploads *)

\* Appending packet n to a file that ends with the first n packets.
LEMMA EndsWithMore ==
  ASSUME NEW f \in Seq(Packets), NEW n \in Nat, n \in Packets, EndsWith(f, n)
  PROVE  EndsWith(Append(f, n), n + 1)
<1> DEFINE g == Append(f, n)
<1>1. /\ Len(f) \in Nat /\ Len(g) = Len(f) + 1
      /\ g[Len(f) + 1] = n
      /\ \A i \in 1 .. Len(f) : g[i] = f[i]
  BY AppendProperties, LenProperties
<1>2. n + 1 <= Len(g)
  BY <1>1 DEF EndsWith
<1> HIDE DEF g
<1>3. ASSUME NEW i \in 1 .. n + 1 PROVE g[Len(g) - (n + 1) + i] = i - 1
  <2>1. Len(g) - (n + 1) + i = Len(f) - n + i
    BY <1>1
  <2>2. CASE i = n + 1
    BY <1>1, <2>1, <2>2
  <2>3. CASE i # n + 1
    <3>1. i \in 1 .. n /\ Len(f) - n + i \in 1 .. Len(f)
      BY <1>1, <2>3 DEF EndsWith
    <3> QED
      BY <1>1, <2>1, <3>1 DEF EndsWith
  <2> QED
    BY <2>2, <2>3
<1> QED
  BY <1>2, <1>3 DEF EndsWith, g

\* Every file ends with the first 0 packets.
LEMMA EndsWithNone == ASSUME NEW f \in Seq(Packets) PROVE EndsWith(f, 0)
BY LenProperties DEF EndsWith

\* A file that ends with the first n packets ends with just this sequence.
LEMMA EndsWithSequence ==
  ASSUME NEW f \in Seq(Packets), NEW n \in Nat \ {0}, EndsWith(f, n)
  PROVE  /\ n \in 1 .. Len(f)
         /\ SubSeq(f, Len(f) - n + 1, Len(f)) = [i \in 1 .. n |-> i - 1]
<1>1. /\ Len(f) \in Nat /\ n <= Len(f)
      /\ \A i \in 1 .. n : f[Len(f) - n + i] = i - 1
  BY LenProperties DEF EndsWith
<1> DEFINE a == Len(f) - n + 1
           s == SubSeq(f, a, Len(f))
<1>2. a \in 1 .. Len(f) + 1 /\ Len(f) - a + 1 = n
  BY <1>1
<1>3. \A i \in 1 .. n : a + i - 1 = Len(f) - n + i
  BY <1>1
<1> HIDE DEF a
<1>4. /\ s \in Seq(Packets)
      /\ Len(s) = (IF a <= Len(f) THEN Len(f) - a + 1 ELSE 0)
      /\ \A i \in 1 .. Len(f) - a + 1 : s[i] = f[a + i - 1]
  BY <1>1, <1>2, SubSeqProperties
<1>5. Len(s) = n /\ \A i \in 1 .. n : s[i] = i - 1
  BY <1>1, <1>2, <1>3, <1>4
<1> HIDE DEF s
<1>6. s = [i \in 1 .. n |-> s[i]]
  BY <1>4, <1>5
<1>7. s = [i \in 1 .. n |-> i - 1]
  BY <1>5, <1>6
<1> QED
  BY <1>1, <1>7 DEF s, a

\* The packets before one that goes on with an upload are in the file.
LEMMA PacketsBefore ==
  ASSUME TypeOK, UploadInv, ActiveContent \in Seq(Packets),
         NEW k \in 0 .. MaxPacket, ~PacketMissing(k),
         NEW stored, UploadAfter(k, stored) # "broken"
  PROVE  EndsWith(ActiveContent, k)
<1>1. CASE k = 0
  BY <1>1, EndsWithNone
<1>2. CASE upload = "failed" /\ k = lastPacketWriteNumber
  BY <1>2 DEF UploadInv
<1>3. CASE upload = "clean" /\ k > lastPacketWriteNumber
  <2>1. lastPacketWriteNumber \in 0 .. MaxPacket
    BY <1>3 DEF UploadInv
  <2>2. k = lastPacketWriteNumber + 1
    BY <1>3, <2>1, HandlerConstants DEF PacketMissing
  <2> QED
    BY <1>3, <2>2 DEF UploadInv
<1> QED
  BY <1>1, <1>2, <1>3 DEF UploadAfter

\* Storing a packet, or failing to, keeps the account of the upload.
LEMMA AppendUpload ==
  ASSUME TypeOK, HandlerPlace, UploadInv, at[Handler] = "holding",
         UNCHANGED accessVars, NEW k \in 0 .. MaxPacket, AppendToFile(k)
  PROVE  UploadInv'
<1>0. /\ volume[Handler] = activeSdCard /\ activeSdCard' = activeSdCard
      /\ Content = ActiveContent /\ Content \in Seq(Packets)
      /\ k \in Nat /\ k \in Packets
  BY CardType, AppendType
     DEF HandlerPlace, accessVars, Content, Exists, Card, ActiveContent
<1>1. CASE UNCHANGED <<lastPacketWriteNumber, file, upload>>
  BY <1>0, <1>1 DEF UploadInv, ActiveContent
<1>2. CASE upload' = "broken"
  BY <1>2 DEF UploadInv
<1>3. CASE /\ ~PacketMissing(k) /\ lastPacketWriteNumber' = k
           /\ Write(Append(Content, k)) /\ upload' = UploadAfter(k, TRUE)
           /\ upload' # "broken"
  <2>1. EndsWith(ActiveContent, k)
    BY <1>0, <1>3, PacketsBefore
  <2>2. EndsWith(Append(Content, k), k + 1)
    BY <1>0, <2>1, EndsWithMore
  <2>3. ActiveContent' = Append(Content, k)
    BY <1>0, <1>3, WriteContent
  <2>4. upload' = "clean"
    BY <1>3 DEF UploadAfter
  <2> QED
    BY <1>3, <2>2, <2>3, <2>4 DEF UploadInv
<1>4. CASE /\ ~PacketMissing(k) /\ lastPacketWriteNumber' = k
           /\ UNCHANGED file /\ upload' = UploadAfter(k, FALSE)
           /\ upload' # "broken"
  <2>1. EndsWith(ActiveContent, k)
    BY <1>0, <1>4, PacketsBefore
  <2>2. ActiveContent' = ActiveContent
    BY <1>0, <1>4 DEF ActiveContent
  <2>3. upload' = "failed"
    BY <1>4 DEF UploadAfter
  <2> QED
    BY <1>4, <2>1, <2>2, <2>3 DEF UploadInv
<1> QED
  BY <1>1, <1>2, <1>3, <1>4 DEF AppendToFile

\* The same for every message, and a finished upload is reported as it is.
LEMMA HandleUpload ==
  ASSUME TypeOK, HandlerPlace, UploadInv, at[Handler] = "holding",
         UNCHANGED accessVars, NEW m \in Messages, Handle(m)
  PROVE  UploadInv' /\ UploadReported'
<1>0. /\ volume[Handler] = activeSdCard /\ activeSdCard' = activeSdCard
      /\ Content = ActiveContent /\ Content \in Seq(Packets)
  BY CardType DEF HandlerPlace, accessVars, Content, Exists, Card, ActiveContent
<1>1. CASE m.kind # "FINISH_APPEND"
  <2>1. UploadReported'
    <3>1. finish' = NoFinish
      BY <1>1 DEF Handle
    <3>2. finish'.upload # "clean"
      BY <3>1 DEF NoFinish
    <3> QED
      BY <3>2 DEF UploadReported
  <2>2. CASE UNCHANGED <<lastPacketWriteNumber, file, upload>>
    BY <1>0, <2>1, <2>2 DEF UploadInv, ActiveContent
  <2>3. CASE RemoveFile
    <3>1. CASE Disturb
      BY <2>1, <3>1 DEF Disturb, UploadInv
    <3> QED
      BY <2>2, <2>3, <3>1 DEF RemoveFile
  <2>4. CASE CreateFile /\ ~Exists /\ Write(<<>>)
    <3>1. ActiveContent' = ActiveContent
      BY <1>0, <2>4, WriteContent DEF Content
    <3> QED
      BY <2>1, <2>4, <3>1 DEF CreateFile, UploadInv
  <2>5. CASE m.kind = "APPEND_TO_FILE"
    <3>1. m.packet \in 0 .. MaxPacket /\ AppendToFile(m.packet)
      BY <2>5 DEF Messages, Handle, Kinds
    <3> QED
      BY <2>1, <3>1, AppendUpload
  <2>6. \/ UNCHANGED <<lastPacketWriteNumber, file, upload>>
        \/ RemoveFile \/ m.kind = "APPEND_TO_FILE"
        \/ CreateFile /\ ~Exists /\ Write(<<>>)
    BY <1>1 DEF Handle, SelectActiveSdCard, CancelOperations, CreateFile, CopyFile
  <2> QED
    BY <2>2, <2>3, <2>4, <2>5, <2>6
<1>2. CASE m.kind = "FINISH_APPEND"
  <2>1. FinishAppend
    BY <1>2 DEF Handle
  <2>2. UploadInv'
    BY <2>1 DEF FinishAppend, UploadInv
  <2>3. ASSUME finish'.upload = "clean"
        PROVE  /\ finish'.reported \in 1 .. Len(finish'.file)
               /\ SubSeq(finish'.file, Len(finish'.file) - finish'.reported + 1,
                         Len(finish'.file))
                    = [i \in 1 .. finish'.reported |-> i - 1]
    <3>1. /\ upload = "clean" /\ finish'.reported = PacketsReported
          /\ finish'.file = Content
      BY <2>1, <2>3 DEF FinishAppend
    <3>2. lastPacketWriteNumber \in 0 .. MaxPacket
      BY <3>1 DEF UploadInv
    <3>3. /\ PacketsReported = lastPacketWriteNumber + 1
          /\ lastPacketWriteNumber + 1 \in Nat \ {0}
      BY <3>2, ReportedType
    <3>4. EndsWith(Content, PacketsReported)
      BY <1>0, <3>1, <3>3 DEF UploadInv
    <3> QED
      BY <1>0, <3>1, <3>3, <3>4, EndsWithSequence
  <2> QED
    BY <2>2, <2>3 DEF UploadReported
<1> QED
  BY <1>1, <1>2

\* Only a message and a change of the card touch an upload.
LEMMA UploadStep == HandlerInv /\ [Next]_vars => UploadInv' /\ UploadReported'
<1> SUFFICES ASSUME TypeOK, HandlerPlace, UploadInv, UploadReported, [Next]_vars
             PROVE  UploadInv' /\ UploadReported'
  BY DEF HandlerInv
<1>1. CASE UNCHANGED <<lastPacketWriteNumber, file, upload, finish, activeSdCard>>
  BY <1>1 DEF UploadInv, ActiveContent, UploadReported
<1>2. CASE TryActiveSdCardChange
  <2>1. CASE BeginChange \/ ChangePossible \/ ChangeRefused
    BY <1>1, <1>2, <2>1 DEF TryActiveSdCardChange, BeginChange, ChangePossible,
         ChangeRefused, SwitchCard
  <2>2. CASE Disturb /\ UNCHANGED finish
    BY <2>2 DEF Disturb, UploadInv, UploadReported
  <2> QED
    BY <1>2, <2>1, <2>2 DEF TryActiveSdCardChange
<1>3. CASE HandleFirst
  <2>1. /\ at[Handler] = "holding" /\ UNCHANGED accessVars
        /\ message \in Messages /\ Handle(message)
    BY <1>3 DEF HandleFirst, HandlerPlace, TypeOK
  <2> QED
    BY <2>1, HandleUpload
<1>4. CASE handleNextMessage
  <2>1. /\ at[Handler] = "holding" /\ UNCHANGED accessVars
        /\ Head(messages) \in Messages /\ Handle(Head(messages))
    BY <1>4, QueueType DEF handleNextMessage, HandlerPlace
  <2> QED
    BY <2>1, HandleUpload
<1>5. CASE LeaveLoop
  <2>1. UNCHANGED <<lastPacketWriteNumber, file, upload, activeSdCard>>
    BY <1>5 DEF LeaveLoop, accessVars
  <2>2. finish'.upload # "clean"
    BY <1>5 DEF LeaveLoop, NoFinish
  <2> QED
    BY <2>1, <2>2 DEF UploadInv, ActiveContent, UploadReported
<1>6. CASE CreateToken \/ ReleaseToken
  BY <1>1, <1>6 DEF CreateToken, ReleaseToken, handlerVars, CheckChanging,
       TokenContinues, ReadVolume, CheckFirst, OpenFilesystem,
       LoadForIncrement, StoreIncremented, SelectSdCard, TokenEnds, DropDenied,
       LoadForDecrement, StoreDecremented, CheckLast, CloseFilesystem
<1>7. CASE \E t \in Clients : ClientTask(t)
  BY <1>1, <1>7, ClientsApart DEF handlerVars
<1>8. CASE Arrive \/ ReceiveFirst \/ AccessResult \/ driveStateMachine \/ CycleOver
  BY <1>1, <1>8 DEF Arrive, ReceiveFirst, AccessResult, driveStateMachine,
       CycleOver, accessVars
<1>9. CASE UNCHANGED vars
  BY <1>1, <1>9 DEF vars, accessVars, handlerVars
<1> QED
  BY <1>2, <1>3, <1>4, <1>5, <1>6, <1>7, <1>8, <1>9 DEF Next, HandlerTask

\* The initial uploads are stored as UploadInv says.
LEMMA UploadInit == Init => UploadInv /\ UploadReported
<1> SUFFICES ASSUME Init PROVE UploadInv /\ UploadReported
  OBVIOUS
<1>1. UploadReported
  BY DEF Init, NoFinish, UploadReported
<1>2. activeSdCard = 0 /\ 0 \in Volumes
  BY DEF Init, AccessInit, Volumes
<1>3. ASSUME NEW n \in {1, 2}
      PROVE  EndsWith([i \in 1 .. n |-> i - 1], n)
  <2>1. Len([i \in 1 .. n |-> i - 1]) = n
    OBVIOUS
  <2> QED
    BY <2>1 DEF EndsWith
<1>4. CASE InitialUpload(1, FALSE)
  <2>1. ActiveContent = [i \in 1 .. 1 |-> i - 1]
    BY <1>2, <1>4 DEF InitialUpload, ActiveContent
  <2>2. upload = "clean" /\ lastPacketWriteNumber = 0
    BY <1>4 DEF InitialUpload
  <2>3. EndsWith(ActiveContent, lastPacketWriteNumber + 1)
    BY <1>3, <2>1, <2>2
  <2> QED
    BY <1>1, <2>2, <2>3, HandlerConstants DEF UploadInv
<1>5. CASE InitialUpload(2, TRUE)
  <2>1. ActiveContent = [i \in 1 .. 2 |-> i - 1]
    BY <1>2, <1>5 DEF InitialUpload, ActiveContent
  <2>2. upload = "failed" /\ lastPacketWriteNumber = 2
    BY <1>5 DEF InitialUpload
  <2>3. EndsWith(ActiveContent, lastPacketWriteNumber)
    BY <1>3, <2>1, <2>2
  <2> QED
    BY <1>1, <2>2, <2>3, HandlerConstants DEF UploadInv
<1> QED
  BY <1>4, <1>5 DEF Init

\* An upload of any length whose packets came in order, failed ones repeated, is
\* in the file as the reply to FINISH_APPEND counts it, whatever commands,
\* changes of the card and accesses of other tasks come between its packets.
THEOREM UploadsAreReported == Spec => []UploadReported
<1>1. Init => HandlerInv
  BY TypeInit, PlaceInit, UploadInit DEF HandlerInv
<1>2. HandlerInv /\ [Next]_vars => HandlerInv'
  BY TypeStep, PlaceStep, UploadStep DEF HandlerInv
<1>3. HandlerInv => UploadReported
  BY DEF HandlerInv
<1> QED
  BY <1>1, <1>2, <1>3, PTL DEF Spec
=============================================================================
