------------------------------ MODULE SerialTc ------------------------------
(***************************************************************************)
(* The reception of telecommands on the serial line: the RS232 polling     *)
(* task with its two alternating transfers (comIF/RS232PollingTask.cpp,    *)
(* comIF/UartPollingBase.cpp), the ring buffer analyzer that searches for  *)
(* frames (core/RingBufferAnalyzer.cpp), and the bridge that passes them   *)
(* on (tmtcbridge/TmTcSerialBridge.cpp).                                   *)
(*                                                                         *)
(* The ground sends frames STX payload ETX; DLE encoding keeps both marks  *)
(* out of a payload.  All bytes of frame i's payload are i.  The driver    *)
(* reads the line in chunks of any size; a chunk with a transfer error is  *)
(* dropped by the polling task, and a byte that finds no queued transfer   *)
(* is lost.                                                                *)
(***************************************************************************)
EXTENDS Naturals, FiniteSets, SequencesExt

CONSTANTS Size,       \* the sizes of the payloads of the frames sent
          ChunkSize,  \* bound: the bytes the driver reports in one transfer
          MaxLosses   \* bound: the losses of bytes on the way

ASSUME SerialConstants == /\ Size \in Seq(Nat \ {0})
                          /\ ChunkSize \in Nat \ {0}
                          /\ MaxLosses \in Nat

VARIABLES
  line,              \* the bytes still to come
  queued,            \* the read transfers queued in the driver, in order
  uartSemaphore,     \* 1 after the callback of a transfer
  readBuffer,        \* what a completed transfer has read
  transferStatus,    \* and how it ended
  polled,            \* the transfer whose semaphore the task waits for
  requeueing,        \* it has got it, and is about to queue the transfer again
  ring,              \* the shared ring buffer
  currentBytesRead,  \* the bytes the analyzer has already searched in vain
  delivered,         \* the packets passed on to the TC distributor
  lost,              \* the frames that lost a byte or were not passed on
  losses,            \* how often bytes were lost
  silent             \* a transfer could not be queued again

driverVars == <<line, queued>>
taskVars   == <<uartSemaphore, readBuffer, transferStatus, polled, requeueing>>
bridgeVars == <<currentBytesRead, delivered>>
vars == <<driverVars, taskVars, ring, bridgeVars, lost, losses, silent>>

Frames == DOMAIN Size
Transfers == {1, 2}

STX == 0
ETX == Len(Size) + 1

Payload(f) == [i \in 1 .. Size[f] |-> f]
Frame(payload) == <<STX>> \o payload \o <<ETX>>
Stream == FlattenSeq([f \in Frames |-> Frame(Payload(f))])

\* The frame each byte of the stream belongs to.
FrameAt == FlattenSeq([f \in Frames |-> [i \in 1 .. Size[f] + 2 |-> f]])

\* The number of bytes that have come, and the frames of the next n.
Come == Len(Stream) - Len(line)
FramesOfNext(n) == {FrameAt[i] : i \in Come + 1 .. Come + n}

\* initiateUartTransfers: both semaphores are taken, both transfers queued.
Init ==
  /\ line = Stream
  /\ queued = <<1, 2>>
  /\ uartSemaphore = [t \in Transfers |-> 0]
  /\ readBuffer = [t \in Transfers |-> <<>>]
  /\ transferStatus = [t \in Transfers |-> "done"]
  /\ polled = 1
  /\ requeueing = FALSE
  /\ ring = <<>>
  /\ currentBytesRead = 0
  /\ delivered = <<>>
  /\ lost = {}
  /\ losses = 0
  /\ silent = FALSE

-----------------------------------------------------------------------------
(* The driver *)

\* The first queued transfer ends with a chunk of the line, and its callback
\* gives the semaphore.
CompleteTransfer ==
  /\ queued # <<>>
  /\ \E n \in 1 .. ChunkSize, status \in {"done", "error"} :
       LET t == Head(queued) IN
       /\ n <= Len(line)
       /\ line' = SubSeq(line, n + 1, Len(line))
       /\ readBuffer' = [readBuffer EXCEPT ![t] = SubSeq(line, 1, n)]
       /\ transferStatus' = [transferStatus EXCEPT ![t] = status]
       /\ uartSemaphore' = [uartSemaphore EXCEPT ![t] = 1]
       /\ IF status = "error"
          THEN losses' = losses + 1 /\ lost' = lost \cup FramesOfNext(n)
          ELSE UNCHANGED <<losses, lost>>
  /\ losses' <= MaxLosses
  /\ queued' = Tail(queued)
  /\ UNCHANGED <<polled, requeueing, ring, bridgeVars, silent>>

\* The line does not wait for a transfer.
Overrun ==
  /\ queued = <<>> /\ line # <<>>
  /\ silent \/ losses < MaxLosses
  /\ line' = Tail(line)
  /\ lost' = lost \cup FramesOfNext(1)
  /\ losses' = IF silent THEN losses ELSE losses + 1
  /\ UNCHANGED <<queued, taskVars, ring, bridgeVars, silent>>

-----------------------------------------------------------------------------
(* RS232PollingTask::pollUart *)

HandleTransferCompletion_AnyTransfer ==
  /\ ~requeueing
  /\ \E t \in Transfers :
       /\ uartSemaphore[t] = 1
       /\ uartSemaphore' = [uartSemaphore EXCEPT ![t] = 0]
       /\ ring' = IF transferStatus[t] = "done"
                  THEN ring \o readBuffer[t] ELSE ring
       /\ readBuffer' = [readBuffer EXCEPT ![t] = <<>>]
       /\ polled' = t
  /\ requeueing' = TRUE
  /\ UNCHANGED <<driverVars, transferStatus, bridgeVars, lost, losses, silent>>

\* The task waits for one transfer after the other, without a timeout.  Bytes
\* of an erroneous transfer are not written into the ring buffer.
HandleTransferCompletion ==
  /\ ~requeueing /\ uartSemaphore[polled] = 1
  /\ uartSemaphore' = [uartSemaphore EXCEPT ![polled] = 0]
  /\ ring' = IF transferStatus[polled] = "done"
             THEN ring \o readBuffer[polled] ELSE ring
  /\ readBuffer' = [readBuffer EXCEPT ![polled] = <<>>]
  /\ requeueing' = TRUE
  /\ UNCHANGED <<driverVars, transferStatus, polled, bridgeVars, lost, losses,
                 silent>>

\* A transfer that cannot be queued is counted as an error, and no more.
QueueAgain ==
  /\ requeueing
  /\ \/ queued' = Append(queued, polled) /\ UNCHANGED silent
     \/ silent' = TRUE /\ UNCHANGED queued
  /\ polled' = 3 - polled
  /\ requeueing' = FALSE
  /\ UNCHANGED <<line, uartSemaphore, readBuffer, transferStatus, ring,
                 bridgeVars, lost, losses>>

-----------------------------------------------------------------------------
(* RingBufferAnalyzer *)

Positions(bytes, mark) == {i \in DOMAIN bytes : bytes[i] = mark}

\* Where parseForDleEncodedPackets stops: at an end mark, or at a start mark
\* that is not the first.
Stops(bytes) ==
  Positions(bytes, ETX)
    \cup {i \in Positions(bytes, STX) :
            \E j \in Positions(bytes, STX) : j < i}

LossAt_StaysAtEnd(bytes) ==
  Min(Stops(bytes)) - 1

\* The bytes skipped when marks are in the wrong place: up to a second start
\* mark, which stays, or an end mark included.
LossAt(bytes) ==
  LET k == Min(Stops(bytes)) IN IF bytes[k] = STX THEN k - 1 ELSE k

\* A start mark and then an end mark: the positions of a probable packet.
PacketIn(bytes) ==
  LET k == Min(Stops(bytes))
  IN {<<j, k>> : j \in {i \in Positions(bytes, STX) :
                          i < k /\ bytes[k] = ETX}}

deleteData(n) == ring' = SubSeq(ring, n + 1, Len(ring))

\* readRingBuffer: all there is, if that is more than was searched before.
NewData == Len(ring) > currentBytesRead

\* Nothing found, so nothing is done before there is more data.
NoPacketFound_OneMore ==
  /\ NewData
  /\ Stops(ring) = {}
  /\ currentBytesRead' = Len(ring) + 1
  /\ UNCHANGED <<driverVars, taskVars, ring, delivered, lost, losses, silent>>

NoPacketFound ==
  /\ NewData
  /\ Stops(ring) = {}
  /\ currentBytesRead' = Len(ring)
  /\ UNCHANGED <<driverVars, taskVars, ring, delivered, lost, losses, silent>>

\* The bytes that are deleted from the front of the ring buffer are counted
\* from the start mark.  The packet is passed on, or lost if the TC store or
\* the queue of the distributor does not take it (handleTcReception).
PacketFound ==
  /\ NewData
  /\ Stops(ring) # {}
  /\ \E p \in PacketIn(ring) :
       LET payload == SubSeq(ring, p[1] + 1, p[2] - 1) IN
       /\ deleteData(p[2] - p[1] + 1)
       /\ \/ delivered' = Append(delivered, payload) /\ UNCHANGED lost
          \/ /\ lost' = lost \cup {f \in Frames : Payload(f) = payload}
             /\ UNCHANGED delivered
  /\ currentBytesRead' = 0
  /\ UNCHANGED <<driverVars, taskVars, losses, silent>>

\* POSSIBLE_PACKET_LOSS: marks in the wrong place, or a packet that cannot be
\* decoded, as only one that is not a whole frame can.
PossiblePacketLoss ==
  /\ NewData
  /\ Stops(ring) # {}
  /\ \A p \in PacketIn(ring) :
       \A f \in Frames : SubSeq(ring, p[1], p[2]) # Frame(Payload(f))
  /\ deleteData(LossAt(ring))
  /\ currentBytesRead' = 0
  /\ UNCHANGED <<driverVars, taskVars, delivered, lost, losses, silent>>

-----------------------------------------------------------------------------
PollingTask == HandleTransferCompletion \/ QueueAgain

checkForPackets == NoPacketFound \/ PacketFound \/ PossiblePacketLoss

\* All has come and been searched, or the task waits for ever.
Quiet ==
  /\ line = <<>> /\ ~NewData
  /\ ~requeueing /\ uartSemaphore[polled] = 0
  /\ UNCHANGED vars

Next == CompleteTransfer \/ Overrun \/ PollingTask \/ checkForPackets \/ Quiet

\* The driver reports what has come, the polling task runs when its semaphore
\* is given, and the bridge is called in every cycle of its task.
Spec == /\ Init /\ [][Next]_vars
        /\ WF_vars(CompleteTransfer)
        /\ WF_vars(PollingTask)
        /\ WF_vars(checkForPackets)

-----------------------------------------------------------------------------
(* Properties *)

\* Every variable keeps its type; the analyzer has never searched more bytes
\* than the ring buffer holds, or it would not notice new ones.
TypeOK ==
  /\ \A bytes \in {line, ring, readBuffer[1], readBuffer[2]} :
       bytes \in Seq(0 .. ETX)
  /\ queued \in Seq(Transfers) /\ IsInjective(queued)
  /\ uartSemaphore \in [Transfers -> {0, 1}]
  /\ transferStatus \in [Transfers -> {"done", "error"}]
  /\ polled \in Transfers /\ requeueing \in BOOLEAN
  /\ currentBytesRead \in 0 .. Len(ring)
  /\ delivered \in Seq(Seq(0 .. ETX))
  /\ lost \subseteq Frames
  /\ losses \in 0 .. MaxLosses
  /\ silent \in BOOLEAN

\* What the two transfers hold, in the order in which they will be polled.
InBuffers == readBuffer[polled] \o readBuffer[3 - polled]

\* Nothing is dropped, repeated or swapped between the line and the distributor
\* as long as no transfer fails: the packets passed on, the ring buffer, the
\* two read buffers and what is still to come are together just what was sent,
\* however transfers, polling and analysis interleave.
StreamIntact ==
  lost = {} =>
    FlattenSeq([i \in DOMAIN delivered |-> Frame(delivered[i])])
      \o ring \o InBuffers \o line = Stream

\* The reception finds its way back after lost bytes: in the end all of the line
\* is read and every frame that came whole is passed on (or refused by the
\* distributor), whatever rests of other frames were before it, unless a
\* transfer could not be queued again.
Resynchronizes ==
  <>(silent \/ (line = <<>> /\ \A f \in Frames \ lost :
                   Payload(f) \in Range(delivered)))
=============================================================================
