---------------------------- MODULE SdCardHandler ----------------------------
(***************************************************************************)
(* The SD card handler (memory/SDCardHandler.cpp) and its state machine    *)
(* (memory/SDCHStateMachine.cpp), together with the access tokens of       *)
(* SdCardAccess, which it shares with the other tasks.                     *)
(*                                                                         *)
(* A cycle begins when there is a message.  It first completes a pending   *)
(* change of the SD card, then creates a token, handles the message, and   *)
(* until three quarters of the period are over continues a copy or handles *)
(* further messages.  The countdown may expire between any two steps: the  *)
(* loop may end at any time.                                               *)
(*                                                                         *)
(* Of the files only the one that is uploaded, copied and deleted matters  *)
(* here: it exists on some cards and is the sequence of packets stored in  *)
(* it.  The targets of copies are left out.                                *)
(***************************************************************************)
EXTENDS SdCardAccess, Sequences

CONSTANTS MaxPacket,    \* bound: the largest packet number of an upload
          MaxMessages,  \* bound: the commands other than reports
          QueueDepth    \* the messages the command queue can hold

UNSET_SEQUENCE == 65535
UINT16 == 65536

\* Packet UNSET_SEQUENCE would be taken for none at all.
ASSUME HandlerConstants ==
  /\ MaxPacket \in 2 .. UNSET_SEQUENCE - 1
  /\ MaxMessages \in Nat
  /\ QueueDepth \in Nat \ {0}

VARIABLES
  step,                   \* where performOperation is
  messages,               \* commandQueue
  message,                \* the first message of the cycle, until it is handled
  sdCardChangeOngoing,    \* a change of the SD card was commanded
  internalState,          \* of the state machine
  lastPacketWriteNumber,  \* uint16_t
  file,                   \* the uploaded file on the cards that have it
  upload,                 \* how the upload since packet 0 has gone
  finish,                 \* the reply just given, if it was to FINISH_APPEND
  copyPending,            \* a copy accepted, not answered, not cancelled
  commanded               \* the number of commands sent so far

handlerVars == <<step, messages, message, sdCardChangeOngoing,
                 internalState, lastPacketWriteNumber, file, upload, finish,
                 copyPending, commanded>>
vars == <<accessVars, handlerVars>>

Steps == {"wait", "try", "token", "message", "loop", "release"}

\* A packet, or the part of one that a failed write left behind.
Part == MaxPacket + 1
Packets == 0 .. Part

\* REPORT stands for the commands that only read.
Kinds == {"REPORT", "SELECT_ACTIVE_SD_CARD", "CANCEL_SDCH_OPERATIONS",
          "CREATE_FILE", "REMOVE_FILE", "FINISH_APPEND", "COPY_FILE"}
Messages == [kind : Kinds, packet : {0}]
              \cup [kind : {"APPEND_TO_FILE"}, packet : 0 .. MaxPacket]
Report == [kind |-> "REPORT", packet |-> 0]

\* A pending copy is the last message handled or an earlier one, or a refused
\* second copy has replaced its names and its recipient.
Copies == {"none", "last", "earlier", "replaced"}

Uploads == {"none", "clean", "failed", "broken"}
NoFinish == [upload |-> "none", reported |-> 0, file |-> <<>>]

\* The handler as it finds itself between two cycles of an upload: n packets
\* are stored on card 0, and the attempt to store another one may have failed.
InitialUpload(n, failed) ==
  /\ file = [v \in Volumes |->
               IF v = 0 THEN [i \in 1 .. n |-> i - 1] ELSE <<>>]
  /\ upload = IF failed THEN "failed" ELSE IF n = 0 THEN "none" ELSE "clean"
  /\ lastPacketWriteNumber =
       IF failed THEN n ELSE IF n = 0 THEN UNSET_SEQUENCE ELSE n - 1

Init ==
  /\ AccessInit
  /\ InitialUpload(1, FALSE) \/ InitialUpload(2, TRUE)
  /\ step = "wait"
  /\ messages = <<>>
  /\ message = Report
  /\ sdCardChangeOngoing = FALSE
  /\ internalState = "IDLE"
  /\ finish = NoFinish
  /\ copyPending = "none"
  /\ commanded = 0

\* The card the handler's token was made for, and the file on it.
Card == volume[Handler]
Exists == Card \in DOMAIN file
Content == IF Exists THEN file[Card] ELSE <<>>

Write(content) ==
  file' = [v \in DOMAIN file \cup {Card} |->
             IF v = Card THEN content ELSE file[v]]

Remove(card) == file' = [v \in DOMAIN file \ {card} |-> file[v]]

\* What happens to the uploaded file other than by appending ends the upload.
Disturb == upload' = IF upload = "none" THEN "none" ELSE "broken"

-----------------------------------------------------------------------------
(* Actions: executeAction *)

\* Refused while a copy is going on.
SelectActiveSdCard ==
  /\ sdCardChangeOngoing' = (sdCardChangeOngoing \/ internalState = "IDLE")
  /\ UNCHANGED <<internalState, lastPacketWriteNumber, file, upload>>

\* CLEAR_SD_CARD, a DELETE_FILE of the uploaded file, and FORMAT_SD_CARD, whose
\* drive 0 is the active card: it is gone from there, or the command has failed.
RemoveFile ==
  /\ \/ Remove(Card) /\ Disturb
     \/ UNCHANGED <<file, upload>>
  /\ UNCHANGED <<sdCardChangeOngoing, internalState, lastPacketWriteNumber>>

resetAndSetToIdle == internalState' = "IDLE"

CancelOperations ==
  /\ resetAndSetToIdle
  /\ copyPending' = "none"
  /\ UNCHANGED <<sdCardChangeOngoing, lastPacketWriteNumber, file, upload>>

-----------------------------------------------------------------------------
(* File commands: handleFileMessage *)

CreateFile ==
  /\ \/ ~Exists /\ Write(<<>>)
     \/ UNCHANGED file
  /\ UNCHANGED <<sdCardChangeOngoing, internalState, lastPacketWriteNumber,
                 upload>>

PacketMissing_GapOfOne(k) ==
  \/ k = 1 /\ lastPacketWriteNumber # 0
  \/ k > lastPacketWriteNumber + 2

\* handleSequenceNumberWrite refuses a packet when the one before is missing.
\* It lets pass a repeated packet and any packet but the second after a reset.
PacketMissing(k) ==
  \/ k = 1 /\ lastPacketWriteNumber # 0
  \/ k > lastPacketWriteNumber + 1

\* The upload after an attempt to store packet k: in order, to be repeated, or
\* broken by a packet that was repeated without need or came after a failed one.
UploadAfter(k, stored) ==
  LET goesOn == \/ k = 0
                \/ upload = "failed" /\ k = lastPacketWriteNumber
                \/ upload = "clean"  /\ k > lastPacketWriteNumber
  IN IF ~goesOn THEN "broken" ELSE IF stored THEN "clean" ELSE "failed"

\* The number is taken before the file is opened, "r+" for the first packet and
\* "a" for the others, and the packet written.  A first packet that cannot seek
\* the end of the file is written over its beginning.
AppendToFile(k) ==
  /\ \/ UNCHANGED <<lastPacketWriteNumber, file, upload>>
     \/ /\ ~PacketMissing(k)
        /\ lastPacketWriteNumber' = k
        /\ \/ /\ k # 0 \/ Exists
              /\ \E written \in {k, Part} :
                   /\ Write(Append(Content, written))
                   /\ upload' = IF written = k THEN UploadAfter(k, TRUE)
                                ELSE "broken"
           \/ /\ k = 0 /\ Content # <<>>
              /\ \E written \in {k, Part} :
                   Write([Content EXCEPT ![1] = written])
              /\ upload' = "broken"
           \/ /\ UNCHANGED file
              /\ upload' = UploadAfter(k, FALSE)
  /\ UNCHANGED <<sdCardChangeOngoing, internalState>>

PacketsReported_NoWrap == lastPacketWriteNumber + 1

PacketsReported == (lastPacketWriteNumber + 1) % UINT16

\* The reply tells the packets of the upload; the number is reset whether or
\* not the reply can be sent.
FinishAppend ==
  /\ finish' = [upload   |-> upload,
                reported |-> PacketsReported,
                file     |-> Content]
  /\ lastPacketWriteNumber' = UNSET_SEQUENCE
  /\ upload' = "none"
  /\ UNCHANGED <<sdCardChangeOngoing, internalState, file>>

\* setCopyFileOperation.  A busy state machine refuses the copy, and has by
\* then taken over its file names and its recipient.
CopyFile ==
  /\ internalState' = "COPY_FILE"
  /\ copyPending' = IF internalState = "IDLE" THEN "last" ELSE "replaced"
  /\ UNCHANGED <<sdCardChangeOngoing, lastPacketWriteNumber, file, upload>>

\* handleMessage
Handle(m) ==
  /\ \/ /\ m.kind = "REPORT"
        /\ UNCHANGED <<sdCardChangeOngoing, internalState,
                       lastPacketWriteNumber, file, upload>>
     \/ m.kind = "SELECT_ACTIVE_SD_CARD" /\ SelectActiveSdCard
     \/ m.kind = "REMOVE_FILE" /\ RemoveFile
     \/ m.kind = "CANCEL_SDCH_OPERATIONS" /\ CancelOperations
     \/ m.kind = "CREATE_FILE" /\ CreateFile
     \/ m.kind = "APPEND_TO_FILE" /\ AppendToFile(m.packet)
     \/ m.kind = "FINISH_APPEND" /\ FinishAppend
     \/ m.kind = "COPY_FILE" /\ CopyFile
  /\ m.kind = "FINISH_APPEND" \/ finish' = NoFinish
  /\ \/ m.kind \in {"CANCEL_SDCH_OPERATIONS", "COPY_FILE"}
     \/ copyPending' = IF copyPending = "last" THEN "earlier" ELSE copyPending

-----------------------------------------------------------------------------
(* The state machine: handleGenericCopyOperation *)

\* A commanded change ends the cycle, but only after the next step of the loop.
LoopOrReturn == step' = IF sdCardChangeOngoing' THEN "release" ELSE "loop"

\* The source or its directory cannot be opened: the copy ends unanswered.
CopySourceFails == LoopOrReturn /\ UNCHANGED copyPending

\* The countdown has expired after a bucket: TASK_PERIOD_OVER_SOON is a result
\* other than RETURN_OK, and driveStateMachine gives the copy up.
CopyPeriodOver ==
  /\ Content # <<>>
  /\ step' = "release"
  /\ UNCHANGED copyPending

\* The target cannot be opened, a bucket not read or written: the failure is
\* sent to the recipient.
CopyFails ==
  /\ Exists
  /\ copyPending' = IF copyPending = "replaced" THEN copyPending ELSE "none"
  /\ LoopOrReturn

\* All is copied.  The recipient is reset before the success is sent, which
\* makes it a reply to the last message.
CopyCompletes ==
  /\ Exists
  /\ copyPending' = IF copyPending = "last" THEN "none" ELSE copyPending
  /\ LoopOrReturn

-----------------------------------------------------------------------------
(* performOperation *)

Arrive ==
  /\ Len(messages) < QueueDepth
  /\ \E m \in Messages :
       /\ m = Report \/ commanded < MaxMessages
       /\ messages' = Append(messages, m)
       /\ commanded' = IF m = Report THEN commanded ELSE commanded + 1
  /\ UNCHANGED <<accessVars, step, message, sdCardChangeOngoing,
                 internalState, lastPacketWriteNumber, file, upload, finish,
                 copyPending>>

ReceiveFirst_ForgetsChange ==
  /\ step = "wait" /\ messages # <<>>
  /\ message' = Head(messages)
  /\ messages' = Tail(messages)
  /\ step' = "token"
  /\ UNCHANGED <<accessVars, sdCardChangeOngoing, internalState,
                 lastPacketWriteNumber, file, upload, finish, copyPending,
                 commanded>>

ReceiveFirst ==
  /\ step = "wait" /\ messages # <<>>
  /\ message' = Head(messages)
  /\ messages' = Tail(messages)
  /\ step' = IF sdCardChangeOngoing THEN "try" ELSE "token"
  /\ UNCHANGED <<accessVars, sdCardChangeOngoing, internalState,
                 lastPacketWriteNumber, file, upload, finish, copyPending,
                 commanded>>

\* A pending change that cannot be made yet ends the cycle; the message of the
\* cycle is dropped.
TryActiveSdCardChange ==
  /\ step = "try"
  /\ \/ /\ BeginChange \/ ChangePossible
        /\ UNCHANGED <<step, message, sdCardChangeOngoing, upload>>
     \/ /\ ChangeRefused
        /\ step' = "wait"
        /\ message' = Report
        /\ UNCHANGED <<sdCardChangeOngoing, upload>>
     \/ /\ SwitchCard
        /\ step' = "token"
        /\ sdCardChangeOngoing' = FALSE
        /\ Disturb
        /\ UNCHANGED message
  /\ UNCHANGED <<messages, internalState, lastPacketWriteNumber,
                 file, finish, copyPending, commanded>>

CreateToken ==
  /\ step = "token"
  /\ CheckChanging(Handler) \/ TokenContinues(Handler)
  /\ UNCHANGED handlerVars

\* handleSdCardAccessResult: without an access the message is dropped.  That the
\* handler itself is never refused because of a change is HandlerNotRefused.
AccessResult ==
  /\ step = "token" /\ at[Handler] = "holding"
  /\ step' = IF accessResult[Handler] = "RETURN_OK" THEN "message"
             ELSE "release"
  /\ UNCHANGED <<accessVars, messages, message, sdCardChangeOngoing,
                 internalState, lastPacketWriteNumber, file, upload, finish,
                 copyPending, commanded>>

HandleFirst ==
  /\ step = "message"
  /\ Handle(message)
  /\ message' = Report
  /\ step' = "loop"
  /\ UNCHANGED <<accessVars, messages, commanded>>

handleNextMessage ==
  /\ step = "loop" /\ internalState = "IDLE"
  /\ messages # <<>>
  /\ Handle(Head(messages))
  /\ messages' = Tail(messages)
  /\ LoopOrReturn
  /\ UNCHANGED <<accessVars, message, commanded>>

\* Whatever the copy returns, the state machine is idle afterwards.
driveStateMachine ==
  /\ step = "loop" /\ internalState = "COPY_FILE"
  /\ UNCHANGED sdCardChangeOngoing
  /\ CopySourceFails \/ CopyPeriodOver \/ CopyFails \/ CopyCompletes
  /\ resetAndSetToIdle
  /\ UNCHANGED <<accessVars, messages, message, lastPacketWriteNumber, file,
                 upload, finish, commanded>>

\* No message is left, or the period is over.
LeaveLoop ==
  /\ step = "loop"
  /\ step' = "release"
  /\ finish' = NoFinish
  /\ UNCHANGED <<accessVars, messages, message, sdCardChangeOngoing,
                 internalState, lastPacketWriteNumber, file, upload,
                 copyPending, commanded>>

ReleaseToken ==
  /\ step = "release"
  /\ TokenEnds(Handler) \/ TokenContinues(Handler)
  /\ UNCHANGED handlerVars

CycleOver ==
  /\ step = "release" /\ at[Handler] = "out"
  /\ step' = "wait"
  /\ message' = Report
  /\ UNCHANGED <<accessVars, messages, sdCardChangeOngoing, internalState,
                 lastPacketWriteNumber, file, upload, finish, copyPending,
                 commanded>>

HandlerTask ==
  \/ ReceiveFirst \/ TryActiveSdCardChange \/ CreateToken \/ AccessResult
  \/ HandleFirst \/ handleNextMessage \/ driveStateMachine \/ LeaveLoop
  \/ ReleaseToken \/ CycleOver

ClientTask(t) == TokenStep(t) /\ UNCHANGED handlerVars

\* A client that has begun to use the file system gets to the end of it.
ClientEnds(t) == (TokenContinues(t) \/ TokenEnds(t)) /\ UNCHANGED handlerVars

Next == Arrive \/ HandlerTask \/ \E t \in Clients : ClientTask(t)

\* Tasks are scheduled again and again, and clients end their accesses.  That
\* messages arrive is up to those who send them.
Spec == /\ Init /\ [][Next]_vars
        /\ WF_vars(HandlerTask)
        /\ \A t \in Clients : WF_vars(ClientEnds(t))

-----------------------------------------------------------------------------
(* Properties *)

\* Every variable keeps its type; a file only holds packets.
TypeOK ==
  /\ AccessTypeOK
  /\ step \in Steps
  /\ messages \in Seq(Messages) /\ Len(messages) <= QueueDepth
  /\ message \in Messages
  /\ sdCardChangeOngoing \in BOOLEAN
  /\ internalState \in {"IDLE", "COPY_FILE"}
  /\ lastPacketWriteNumber \in 0 .. MaxPacket \cup {UNSET_SEQUENCE}
  /\ DOMAIN file \subseteq Volumes
  /\ \A v \in DOMAIN file : file[v] \in Seq(Packets)
  /\ upload \in Uploads
  /\ finish.upload \in Uploads /\ finish.reported \in 0 .. UINT16 - 1
  /\ copyPending \in Copies
  /\ commanded \in 0 .. MaxMessages

\* The handler's own token is never refused because of a change of the card,
\* and while it holds the token the active card stays the one it uses: "Really
\* should not happen.." (handleSdCardAccessResult).  This holds although the
\* manager's mutex protects nothing, because only the handler changes cards.
HandlerNotRefused ==
  /\ at[Handler] # "denied"
  /\ step \in {"message", "loop"} => volume[Handler] = activeSdCard

\* An upload whose packets came in order, failed ones repeated, is reported as
\* it is: at the reply to the finish command the file ends with just the
\* packets the reply counts (handleSequenceNumberWrite, appendToFile and
\* generateFinishAppendReply).
UploadReported ==
  finish.upload = "clean" =>
    LET n == finish.reported
        f == finish.file
    IN /\ n \in 1 .. Len(f)
       /\ SubSeq(f, Len(f) - n + 1, Len(f)) = [i \in 1 .. n |-> i - 1]

\* An accepted copy is answered before the state machine forgets it: "the state
\* machine will take core of reporting the operation success"
\* (handleCopyCommand).
CopyAnswered == copyPending # "none" => internalState = "COPY_FILE"

\* A commanded change of the SD card is made in the end, whatever accesses are
\* held when it is commanded, if messages keep arriving and no tasks meet in the
\* unprotected code.  Both are needed: performOperation returns at an empty queue
\* before it tries the change, and a lost decrement refuses it for ever.
ChangeCompletes ==
  []<>(messages # <<>>) =>
    (sdCardChangeOngoing ~> ~sdCardChangeOngoing \/ races > 0)
=============================================================================
