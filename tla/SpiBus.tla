------------------------------- MODULE SpiBus -------------------------------
(***************************************************************************)
(* The SPI communication interface (comIF/SpiDeviceComIF.cpp): one polling *)
(* task serves all SPI devices, one binary semaphore guards the bus, and   *)
(* the driver's interrupt gives the semaphore back.                        *)
(*                                                                         *)
(* In every polling cycle the task first sends for all devices, then asks  *)
(* all for the success of the sending, then reads from all, in the order   *)
(* of the polling sequence.  Both waits for the semaphore end in a timeout *)
(* while the transfer is still in the driver's queue, and the program then *)
(* carries on: sendMessage queues the next transfer, checkTransferResult   *)
(* gives the semaphore back in the place of the interrupt.                 *)
(***************************************************************************)
EXTENDS Naturals, Sequences

CONSTANTS N,            \* the number of SPI devices, in polling order 1 .. N
          Multiplexed,  \* the devices behind a demultiplexer
          QueueDepth    \* the transfers the driver's queue can hold

ASSUME SpiConstants == /\ N \in Nat \ {0}
                       /\ Multiplexed \subseteq 1 .. N
                       /\ QueueDepth \in Nat \ {0}

VARIABLES
  sem,         \* spiSemaphore: 1 if it can be acquired
  queue,       \* the transfers queued in the driver, the first one in progress
  selected,    \* the device the decoders select, 0 if they are disabled
  reply,       \* what the reply buffer of each device holds
  comStatus,   \* the communication status in the cookie of each device
  phase, cur,  \* the step of the polling sequence and the device it is for
  sending,     \* the devices with a command in this cycle
  reading,     \* the devices read from in this cycle
  sendReport,  \* what getSendSuccess reported in this cycle
  readReport,  \* what readReceivedMessage reported in this cycle
  overrun      \* a wait timed out since a cycle last began with an idle bus

busVars   == <<sem, queue, selected, reply>>
pollVars  == <<phase, cur, sending, reading>>
handlerVars == <<comStatus, sendReport, readReport>>
vars == <<busVars, pollVars, handlerVars, overrun>>

Devices == 1 .. N

\* The SPItransfer structures: its device, whether it is the last one sent to
\* that device, and whether another slave was selected while it ran.
Transfers == [dev : Devices, last : BOOLEAN, disturbed : BOOLEAN]

Contents == {"empty", "fresh", "old", "mixed"}
ComStatuses == {"IDLE", "TRANSFER_INIT_SUCCESS", "TRANSFER_SUCCESS", "FAULTY"}
Phases == {"send", "select", "queue", "get_write", "get_read", "pause"}
SendReports == {"none", "sent", "OK", "FAILED"}
ReadReports == {"none", "REPLY", "FAILED"}

Init ==
  /\ sem = 1
  /\ queue = <<>>
  /\ selected = 0
  /\ reply = [d \in Devices |-> "empty"]
  /\ comStatus = [d \in Devices |-> "IDLE"]
  /\ phase = "send" /\ cur = 1
  /\ sending \in SUBSET Devices
  /\ reading \in SUBSET Devices
  /\ sending \subseteq reading
  /\ sendReport = [d \in Devices |-> "none"]
  /\ readReport = [d \in Devices |-> "none"]
  /\ overrun = FALSE

-----------------------------------------------------------------------------
(* The decoders *)

\* The selection a transfer to device d needs: its decoder output, or all
\* decoders disabled for a slave select of its own.
SlaveOf(d) == IF d \in Multiplexed THEN d ELSE 0

\* The transfer in progress is disturbed when the selection is not its own.
Running(q, sel) ==
  IF q = <<>> THEN q
  ELSE [q EXCEPT ![1].disturbed = @ \/ sel # SlaveOf(q[1].dev)]

-----------------------------------------------------------------------------
(* The polling sequence *)

Advance_Beyond(this, next) ==
  /\ phase' = IF cur <= N THEN this ELSE next
  /\ cur' = IF cur <= N THEN cur + 1 ELSE 1
  /\ UNCHANGED <<sending, reading>>

\* Every slot is taken in turn; the next phase begins after the last device.
Advance(this, next) ==
  /\ phase' = IF cur < N THEN this ELSE next
  /\ cur' = IF cur < N THEN cur + 1 ELSE 1
  /\ UNCHANGED <<sending, reading>>

\* A device handler without a command sends nothing.
SkipSend ==
  /\ phase = "send" /\ cur \notin sending
  /\ Advance("send", "get_write")
  /\ UNCHANGED <<busVars, handlerVars, overrun>>

-----------------------------------------------------------------------------
(* sendMessage *)

AcquireForSend_NotTaken ==
  /\ phase = "send" /\ cur \in sending
  /\ sem = 1
  /\ phase' = "select"
  /\ UNCHANGED <<busVars, cur, sending, reading, handlerVars, overrun>>

AcquireForSend ==
  /\ phase = "send" /\ cur \in sending
  /\ sem = 1
  /\ sem' = 0
  /\ phase' = "select"
  /\ UNCHANGED <<queue, selected, reply, cur, sending, reading, handlerVars,
                 overrun>>

\* "Semaphore unavailable for long time!", and the transfer is prepared all
\* the same.
SendTimeout ==
  /\ phase = "send" /\ cur \in sending
  /\ sem = 0
  /\ phase' = "select"
  /\ overrun' = TRUE
  /\ UNCHANGED <<busVars, cur, sending, reading, handlerVars>>

\* handleGpioDecoderSelect and handleGpioOutputSwitching switch at once, under
\* a transfer in progress too.
SelectSlave ==
  /\ phase = "select"
  /\ selected' = SlaveOf(cur)
  /\ queue' = Running(queue, selected')
  /\ phase' = "queue"
  /\ UNCHANGED <<sem, reply, cur, sending, reading, handlerVars, overrun>>

\* What is in the queue and in the reply buffer for this device is now old.
Outdate ==
  /\ reply' = [reply EXCEPT ![cur] = IF @ = "fresh" THEN "old" ELSE @]
  /\ sendReport' = [sendReport EXCEPT ![cur] = "sent"]

Outdated ==
  [i \in DOMAIN queue |->
    IF queue[i].dev = cur THEN [queue[i] EXCEPT !.last = FALSE] ELSE queue[i]]

QueueTransfer ==
  /\ phase = "queue"
  /\ Len(queue) < QueueDepth
  /\ queue' = Running(Append(Outdated,
                        [dev |-> cur, last |-> TRUE, disturbed |-> FALSE]),
                      selected)
  /\ comStatus' = [comStatus EXCEPT ![cur] = "TRANSFER_INIT_SUCCESS"]
  /\ Outdate
  /\ Advance("send", "get_write")
  /\ UNCHANGED <<sem, selected, readReport, overrun>>

QueueTransferFails_NoRelease ==
  /\ phase = "queue"
  /\ queue' = Outdated
  /\ comStatus' = [comStatus EXCEPT ![cur] = "FAULTY"]
  /\ Outdate
  /\ Advance("send", "get_write")
  /\ UNCHANGED <<sem, selected, readReport, overrun>>

\* Every failure result of the driver releases the semaphore.
QueueTransferFails ==
  /\ phase = "queue"
  /\ queue' = Outdated
  /\ sem' = 1
  /\ comStatus' = [comStatus EXCEPT ![cur] = "FAULTY"]
  /\ Outdate
  /\ Advance("send", "get_write")
  /\ UNCHANGED <<selected, readReport, overrun>>

-----------------------------------------------------------------------------
(* getSendSuccess, asked only by a device handler that has sent *)

GetSendSuccess ==
  /\ phase = "get_write"
  /\ sendReport' = [sendReport EXCEPT ![cur] =
       IF @ = "none" THEN @
       ELSE IF comStatus[cur] = "FAULTY" THEN "FAILED" ELSE "OK"]
  /\ Advance("get_write", "get_read")
  /\ UNCHANGED <<busVars, comStatus, readReport, overrun>>

-----------------------------------------------------------------------------
(* readReceivedMessage: checkTransferResult takes the semaphore and gives it *)
(* back, whoever holds it *)

SkipRead ==
  /\ phase = "get_read" /\ cur \notin reading
  /\ Advance("get_read", "pause")
  /\ UNCHANGED <<busVars, handlerVars, overrun>>

ReadReply ==
  /\ phase = "get_read" /\ cur \in reading
  /\ sem = 1
  /\ comStatus' = [comStatus EXCEPT ![cur] = "TRANSFER_SUCCESS"]
  /\ readReport' = [readReport EXCEPT ![cur] = "REPLY"]
  /\ Advance("get_read", "pause")
  /\ UNCHANGED <<busVars, sendReport, overrun>>

ReadTimeout_Blocks ==
  FALSE /\ UNCHANGED vars

ReadTimeout ==
  /\ phase = "get_read" /\ cur \in reading
  /\ sem = 0
  /\ sem' = 1
  /\ comStatus' = [comStatus EXCEPT ![cur] = "FAULTY"]
  /\ readReport' = [readReport EXCEPT ![cur] = "FAILED"]
  /\ overrun' = TRUE
  /\ Advance("get_read", "pause")
  /\ UNCHANGED <<queue, selected, reply, sendReport>>

-----------------------------------------------------------------------------
(* The next polling cycle: any devices have commands, any others are read. *)
(* A bus that is idle by now has got over its timeouts. *)

NextCycle ==
  /\ phase = "pause"
  /\ phase' = "send" /\ cur' = 1
  /\ \E reads \in SUBSET Devices : \E sends \in SUBSET reads :
       sending' = sends /\ reading' = reads
  /\ sendReport' = [d \in Devices |-> "none"]
  /\ readReport' = [d \in Devices |-> "none"]
  /\ overrun' = (overrun /\ queue # <<>>)
  /\ UNCHANGED <<busVars, comStatus>>

-----------------------------------------------------------------------------
(* The interrupt at the end of a transfer: the driver has filled the reply *)
(* buffer, and SPIcallback disables the decoders and gives the semaphore.  *)

Received(t) ==
  IF t.disturbed THEN "mixed" ELSE IF t.last THEN "fresh" ELSE "old"

SPIcallback ==
  /\ queue # <<>>
  /\ reply' = [reply EXCEPT ![Head(queue).dev] = Received(Head(queue))]
  /\ selected' = 0
  /\ queue' = Running(Tail(queue), 0)
  /\ sem' = 1
  /\ UNCHANGED <<pollVars, handlerVars, overrun>>

-----------------------------------------------------------------------------
PollingTask ==
  \/ SkipSend \/ AcquireForSend \/ SendTimeout \/ SelectSlave
  \/ QueueTransfer \/ QueueTransferFails
  \/ GetSendSuccess
  \/ SkipRead \/ ReadReply \/ ReadTimeout
  \/ NextCycle

Next == PollingTask \/ SPIcallback

\* The task is scheduled again and again, and every wait has its timeout; the
\* driver is not trusted ever to finish a transfer.
Spec == Init /\ [][Next]_vars /\ WF_vars(PollingTask)

-----------------------------------------------------------------------------
(* Properties *)

\* Every variable keeps its type.
TypeOK ==
  /\ sem \in {0, 1}
  /\ queue \in Seq(Transfers) /\ Len(queue) <= QueueDepth
  /\ selected \in Devices \cup {0}
  /\ reply \in [Devices -> Contents]
  /\ comStatus \in [Devices -> ComStatuses]
  /\ phase \in Phases /\ cur \in Devices
  /\ sending \in SUBSET Devices /\ reading \in SUBSET Devices
  /\ sendReport \in [Devices -> SendReports]
  /\ readReport \in [Devices -> ReadReports]
  /\ overrun \in BOOLEAN

\* The semaphore is never lost: whenever it is taken, either the task is
\* between acquiring it and queueing the transfer, or a transfer is queued
\* whose callback will give it back.  Failed transfers and timeouts of the
\* sending or the reading side do not change that.
SemaphoreNotLost ==
  sem = 0 => phase \in {"select", "queue"} \/ queue # <<>>

\* Without a timeout since the bus was last idle, a device that is told of a
\* sent command and of a received reply finds the answer to this very command
\* in its buffer: not an old one, not one of another slave, not one still
\* being received (readReceivedMessage).
ReplyIsFresh ==
  ~overrun => \A d \in Devices :
    sendReport[d] = "OK" /\ readReport[d] = "REPLY" => reply[d] = "fresh"

\* Cycle after cycle is completed, even when the driver never finishes a
\* transfer: no wait for the semaphore blocks the polling task for ever.
PollingGoesOn == []<>(phase = "pause")
=============================================================================
