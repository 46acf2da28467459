---------------------------- MODULE SpiBusProofs ----------------------------
(***************************************************************************)
(* Proofs about SpiBus for any number of devices, any of them behind       *)
(* demultiplexers, and any depth of the driver's queue.                    *)
(***************************************************************************)
EXTENDS SpiBus, SequenceTheorems, TLAPS

USE SpiConstants

\* The progress of the polling cycle as the reports of the devices show it.
Progress ==
  /\ phase \in {"send", "select", "queue"} =>
       \A d \in Devices : sendReport[d] \in {"none", "sent"}
  /\ phase = "get_write" =>
       \A d \in Devices : /\ d < cur  => sendReport[d] # "sent"
                          /\ d >= cur => sendReport[d] \in {"none", "sent"}
  /\ phase \in {"get_read", "pause"} =>
       \A d \in Devices : sendReport[d] # "sent"
  /\ phase \notin {"get_read", "pause"} =>
       \A d \in Devices : readReport[d] = "none"

\* Without a timeout the semaphore means what it was made for: who holds it has
\* the bus to itself, and who finds it free finds the bus idle.
Exclusive ==
  ~overrun =>
    /\ phase \in {"select", "queue"} => sem = 0 /\ queue = <<>>
    /\ phase = "queue" => selected = SlaveOf(cur)
    /\ sem = 1 => queue = <<>>
    /\ Len(queue) <= 1
    /\ queue # <<>> => queue[1].last /\ ~queue[1].disturbed

\* The command of this cycle to device d is answered or in progress.
Answered(d) == reply[d] = "fresh" \/ (queue # <<>> /\ queue[1].dev = d)

Underway ==
  ~overrun => \A d \in Devices :
    \/ sendReport[d] = "OK"
    \/ sendReport[d] = "sent" /\ comStatus[d] # "FAULTY"
    => Answered(d)

BusInv ==
  TypeOK /\ SemaphoreNotLost /\ Progress /\ Exclusive /\ Underway /\ ReplyIsFresh

-----------------------------------------------------------------------------
(* The queue of the driver *)

\* The transfer in progress, disturbed or not, is a transfer.
LEMMA DisturbedType ==
  ASSUME NEW t \in Transfers, NEW b \in BOOLEAN
  PROVE  [t EXCEPT !.disturbed = b] \in Transfers
BY DEF Transfers

\* Switching the decoders changes no more than the first transfer's mark.
LEMMA RunningProperties ==
  ASSUME NEW q \in Seq(Transfers), NEW sel
  PROVE  /\ Running(q, sel) \in Seq(Transfers)
         /\ Len(Running(q, sel)) = Len(q)
         /\ q = <<>> => Running(q, sel) = <<>>
         /\ q # <<>> =>
              /\ Running(q, sel) # <<>>
              /\ Running(q, sel)[1].dev = q[1].dev
              /\ Running(q, sel)[1].last = q[1].last
              /\ Running(q, sel)[1].disturbed
                   = (q[1].disturbed \/ sel # SlaveOf(q[1].dev))
<1>1. CASE q = <<>>
  BY <1>1 DEF Running
<1>2. CASE q # <<>>
  <2> DEFINE b == q[1].disturbed \/ sel # SlaveOf(q[1].dev)
             e == [q[1] EXCEPT !.disturbed = b]
  <2>1. Len(q) \in Nat /\ Len(q) # 0 /\ 1 \in 1 .. Len(q)
    BY <1>2, LenProperties, EmptySeq
  <2>2. q[1] \in Transfers
    BY <2>1, ElementOfSeq
  <2>3. b \in BOOLEAN
    OBVIOUS
  <2>4. e \in Transfers
    BY <2>2, <2>3, DisturbedType
  <2>5. e.dev = q[1].dev /\ e.last = q[1].last /\ e.disturbed = b
    BY <2>2 DEF Transfers
  <2>6. Running(q, sel) = [q EXCEPT ![1] = e]
    BY <1>2 DEF Running
  <2>7. /\ [q EXCEPT ![1] = e] \in Seq(Transfers)
        /\ Len([q EXCEPT ![1] = e]) = Len(q)
        /\ [q EXCEPT ![1] = e][1] = e
    <3> HIDE DEF e
    <3> QED
      BY <2>1, <2>4, ExceptSeq
  <2>8. Running(q, sel) # <<>>
    BY <2>1, <2>6, <2>7, EmptySeq
  <2> QED
    BY <1>2, <2>5, <2>6, <2>7, <2>8, Zenon
<1> QED
  BY <1>1, <1>2

\* Outdating keeps the transfers in their places.
LEMMA OutdatedProperties ==
  ASSUME TypeOK
  PROVE  /\ Outdated \in Seq(Transfers)
         /\ Len(Outdated) = Len(queue)
         /\ queue = <<>> => Outdated = <<>>
<1>1. queue \in Seq(Transfers) /\ Len(queue) \in Nat /\ DOMAIN queue = 1 .. Len(queue)
  BY LenProperties DEF TypeOK
<1>2. \A i \in 1 .. Len(queue) : Outdated[i] \in Transfers
  <2> TAKE i \in 1 .. Len(queue)
  <2>1. queue[i] \in Transfers
    BY <1>1, ElementOfSeq
  <2>2. [queue[i] EXCEPT !.last = FALSE] \in Transfers
    BY <2>1 DEF Transfers
  <2> QED
    BY <1>1, <2>1, <2>2 DEF Outdated
<1>3. Outdated \in [1 .. Len(queue) -> Transfers]
  BY <1>1, <1>2 DEF Outdated
<1>4. Outdated \in Seq(Transfers) /\ Len(Outdated) = Len(queue)
  BY <1>1, <1>3
<1>5. queue = <<>> => Outdated = <<>>
  BY <1>1, <1>4, EmptySeq
<1> QED
  BY <1>4, <1>5

\* A device of the polling order is selected by its decoder or by none.
LEMMA SlaveType == \A d \in Devices : SlaveOf(d) \in Devices \cup {0}
BY DEF SlaveOf, Devices

\* Going on to the next slot stays in the polling order.
LEMMA AdvanceType ==
  ASSUME TypeOK, NEW this \in Phases, NEW next \in Phases, Advance(this, next)
  PROVE  /\ phase' \in Phases /\ cur' \in Devices
         /\ sending' \in SUBSET Devices /\ reading' \in SUBSET Devices
BY DEF TypeOK, Advance, Devices

-----------------------------------------------------------------------------
(* Type correctness *)

\* The types hold when the bus is initialized.
LEMMA TypeInit == Init => TypeOK
<1> SUFFICES ASSUME Init PROVE TypeOK
  OBVIOUS
<1>1. queue \in Seq(Transfers) /\ Len(queue) <= QueueDepth
  BY EmptySeq DEF Init
<1>2. /\ reply \in [Devices -> Contents]
      /\ comStatus \in [Devices -> ComStatuses]
      /\ sendReport \in [Devices -> SendReports]
      /\ readReport \in [Devices -> ReadReports]
  BY DEF Init, Contents, ComStatuses, SendReports, ReadReports
<1>3. cur \in Devices
  BY DEF Init, Devices
<1> QED
  BY <1>1, <1>2, <1>3 DEF Init, TypeOK, Phases

\* Every step keeps the types.
LEMMA TypeStep == TypeOK /\ [Next]_vars => TypeOK'
<1> SUFFICES ASSUME TypeOK, [Next]_vars PROVE TypeOK'
  OBVIOUS
<1> USE DEF TypeOK
<1>0. queue \in Seq(Transfers) /\ Len(queue) \in Nat
  BY LenProperties
<1>1. CASE SkipSend
  BY <1>1, AdvanceType DEF SkipSend, busVars, handlerVars, Phases
<1>2. CASE AcquireForSend
  BY <1>2 DEF AcquireForSend, handlerVars, Phases
<1>3. CASE SendTimeout
  BY <1>3 DEF SendTimeout, handlerVars, busVars, Phases
<1>4. CASE SelectSlave
  BY <1>4, RunningProperties, SlaveType DEF SelectSlave, handlerVars, Phases
<1>5. CASE QueueTransfer
  <2> DEFINE t == [dev |-> cur, last |-> TRUE, disturbed |-> FALSE]
  <2>1. t \in Transfers
    BY DEF Transfers
  <2>2. /\ Append(Outdated, t) \in Seq(Transfers)
        /\ Len(Append(Outdated, t)) = Len(queue) + 1
    BY <1>0, <2>1, OutdatedProperties
  <2>3. queue' \in Seq(Transfers) /\ Len(queue') = Len(queue) + 1
    BY <1>5, <2>2, RunningProperties DEF QueueTransfer
  <2>4. Len(queue') <= QueueDepth
    BY <1>0, <1>5, <2>3 DEF QueueTransfer
  <2>5. /\ reply' \in [Devices -> Contents]
        /\ comStatus' \in [Devices -> ComStatuses]
        /\ sendReport' \in [Devices -> SendReports]
    BY <1>5 DEF QueueTransfer, Outdate, Contents, ComStatuses, SendReports
  <2> QED
    BY <1>5, <2>3, <2>4, <2>5, AdvanceType DEF QueueTransfer, Phases
<1>6. CASE QueueTransferFails
  <2>1. queue' \in Seq(Transfers) /\ Len(queue') <= QueueDepth
    BY <1>6, OutdatedProperties DEF QueueTransferFails
  <2>2. /\ reply' \in [Devices -> Contents]
        /\ comStatus' \in [Devices -> ComStatuses]
        /\ sendReport' \in [Devices -> SendReports]
    BY <1>6 DEF QueueTransferFails, Outdate, Contents, ComStatuses, SendReports
  <2> QED
    BY <1>6, <2>1, <2>2, AdvanceType DEF QueueTransferFails, Phases
<1>7. CASE GetSendSuccess
  <2>1. sendReport' \in [Devices -> SendReports]
    BY <1>7 DEF GetSendSuccess, SendReports
  <2> QED
    BY <1>7, <2>1, AdvanceType DEF GetSendSuccess, busVars, Phases
<1>8. CASE SkipRead
  BY <1>8, AdvanceType DEF SkipRead, busVars, handlerVars, Phases
<1>9. CASE ReadReply
  BY <1>9, AdvanceType DEF ReadReply, busVars, Phases, ComStatuses, ReadReports
<1>10. CASE ReadTimeout
  BY <1>10, AdvanceType DEF ReadTimeout, Phases, ComStatuses, ReadReports
<1>11. CASE NextCycle
  <2>1. sending' \in SUBSET Devices /\ reading' \in SUBSET Devices
    BY <1>11 DEF NextCycle
  <2>2. cur' \in Devices /\ phase' \in Phases
    BY <1>11 DEF NextCycle, Devices, Phases
  <2> QED
    BY <1>11, <2>1, <2>2 DEF NextCycle, busVars, SendReports, ReadReports
<1>12. CASE SPIcallback
  <2>1. /\ Head(queue) \in Transfers
        /\ Tail(queue) \in Seq(Transfers)
        /\ Len(Tail(queue)) = Len(queue) - 1
    BY <1>12, <1>0, HeadTailProperties DEF SPIcallback
  <2>2. queue' \in Seq(Transfers) /\ Len(queue') = Len(queue) - 1
    BY <1>12, <2>1, RunningProperties DEF SPIcallback
  <2>3. Len(queue') <= QueueDepth
    BY <1>0, <2>2
  <2>4. Head(queue).dev \in Devices /\ Received(Head(queue)) \in Contents
    BY <2>1 DEF Transfers, Received, Contents
  <2>5. reply' \in [Devices -> Contents]
    BY <1>12, <2>4 DEF SPIcallback
  <2> QED
    BY <1>12, <2>2, <2>3, <2>5 DEF SPIcallback, pollVars, handlerVars
<1>13. CASE UNCHANGED vars
  BY <1>13 DEF vars, busVars, pollVars, handlerVars
<1> QED
  BY <1>1, <1>2, <1>3, <1>4, <1>5, <1>6, <1>7, <1>8, <1>9, <1>10, <1>11,
     <1>12, <1>13 DEF Next, PollingTask

\* Every variable keeps its type; the driver's queue stays within its depth.
THEOREM TypeCorrect == Spec => []TypeOK
<1> QED
  BY TypeInit, TypeStep, PTL DEF Spec

-----------------------------------------------------------------------------
(* The semaphore *)

\* A queued transfer makes the queue non-empty.
LEMMA QueueTransferFills == TypeOK /\ QueueTransfer => queue' # <<>>
<1> SUFFICES ASSUME TypeOK, QueueTransfer PROVE queue' # <<>>
  OBVIOUS
<1> DEFINE t == [dev |-> cur, last |-> TRUE, disturbed |-> FALSE]
<1>1. t \in Transfers
  BY DEF Transfers, TypeOK
<1>2. Append(Outdated, t) \in Seq(Transfers) /\ Append(Outdated, t) # <<>>
  BY <1>1, OutdatedProperties
<1> QED
  BY <1>2, RunningProperties DEF QueueTransfer

\* No step loses the semaphore.
LEMMA SemaphoreStep ==
  TypeOK /\ SemaphoreNotLost /\ [Next]_vars => SemaphoreNotLost'
<1> SUFFICES ASSUME TypeOK, SemaphoreNotLost, [Next]_vars
             PROVE  SemaphoreNotLost'
  OBVIOUS
<1> USE DEF SemaphoreNotLost
<1>1. CASE SkipSend
  BY <1>1 DEF SkipSend, busVars
<1>2. CASE AcquireForSend
  BY <1>2 DEF AcquireForSend
<1>3. CASE SendTimeout
  BY <1>3 DEF SendTimeout
<1>4. CASE SelectSlave
  BY <1>4 DEF SelectSlave
<1>5. CASE QueueTransfer
  BY <1>5, QueueTransferFills
<1>6. CASE QueueTransferFails
  BY <1>6 DEF QueueTransferFails
<1>7. CASE GetSendSuccess
  BY <1>7 DEF GetSendSuccess, busVars
<1>8. CASE SkipRead
  BY <1>8 DEF SkipRead, busVars
<1>9. CASE ReadReply
  BY <1>9 DEF ReadReply, busVars
<1>10. CASE ReadTimeout
  BY <1>10 DEF ReadTimeout
<1>11. CASE NextCycle
  BY <1>11 DEF NextCycle, busVars
<1>12. CASE SPIcallback
  BY <1>12 DEF SPIcallback
<1>13. CASE UNCHANGED vars
  BY <1>13 DEF vars, busVars, pollVars
<1> QED
  BY <1>1, <1>2, <1>3, <1>4, <1>5, <1>6, <1>7, <1>8, <1>9, <1>10, <1>11,
     <1>12, <1>13 DEF Next, PollingTask

\* The semaphore is never lost, whatever transfers fail and whatever waits for
\* it time out: when it is taken, a transfer is being prepared or queued.
THEOREM SemaphoreKept == Spec => []SemaphoreNotLost
<1>1. Init => SemaphoreNotLost
  BY DEF Init, SemaphoreNotLost
<1> QED
  BY <1>1, TypeCorrect, SemaphoreStep, PTL DEF Spec

-----------------------------------------------------------------------------
(* The bus without timeouts *)

\* Every step leaves the reports as the phase of the cycle allows.
LEMMA ProgressStep == TypeOK /\ Progress /\ [Next]_vars => Progress'
<1> SUFFICES ASSUME TypeOK, Progress, [Next]_vars PROVE Progress'
  OBVIOUS
<1> USE DEF Progress
<1>0. /\ cur \in Nat /\ N \in Nat
      /\ \A d \in Devices : d \in Nat /\ d <= N /\ d >= 1
  BY DEF TypeOK, Devices
<1>1. CASE SkipSend
  BY <1>0, <1>1 DEF SkipSend, handlerVars, Advance
<1>2. CASE AcquireForSend
  BY <1>2 DEF AcquireForSend, handlerVars
<1>3. CASE SendTimeout
  BY <1>3 DEF SendTimeout, handlerVars
<1>4. CASE SelectSlave
  BY <1>4 DEF SelectSlave, handlerVars
<1>5. CASE QueueTransfer
  BY <1>0, <1>5 DEF QueueTransfer, Outdate, Advance, TypeOK
<1>6. CASE QueueTransferFails
  BY <1>0, <1>6 DEF QueueTransferFails, Outdate, Advance, TypeOK
<1>7. CASE GetSendSuccess
  <2>1. \A d \in Devices :
          /\ d <= cur => sendReport'[d] # "sent"
          /\ d > cur  => sendReport'[d] \in {"none", "sent"}
    BY <1>0, <1>7 DEF GetSendSuccess, TypeOK
  <2> QED
    BY <1>0, <1>7, <2>1 DEF GetSendSuccess, Advance
<1>8. CASE SkipRead
  BY <1>8 DEF SkipRead, handlerVars, Advance
<1>9. CASE ReadReply
  BY <1>9 DEF ReadReply, Advance
<1>10. CASE ReadTimeout
  BY <1>10 DEF ReadTimeout, Advance
<1>11. CASE NextCycle
  BY <1>11 DEF NextCycle
<1>12. CASE SPIcallback
  BY <1>12 DEF SPIcallback, pollVars, handlerVars
<1>13. CASE UNCHANGED vars
  BY <1>13 DEF vars, pollVars, handlerVars
<1> QED
  BY <1>1, <1>2, <1>3, <1>4, <1>5, <1>6, <1>7, <1>8, <1>9, <1>10, <1>11,
     <1>12, <1>13 DEF Next, PollingTask

\* A transfer queued on an idle bus is alone, the last one to its device, and
\* its slave is selected.
LEMMA QueuedAlone ==
  ASSUME TypeOK, Exclusive, ~overrun, QueueTransfer
  PROVE  /\ Len(queue') = 1 /\ queue' # <<>>
         /\ queue'[1].dev = cur /\ queue'[1].last /\ ~queue'[1].disturbed
<1> DEFINE t == [dev |-> cur, last |-> TRUE, disturbed |-> FALSE]
<1>1. t \in Transfers
  BY DEF Transfers, TypeOK
<1>2. queue = <<>> /\ selected = SlaveOf(cur)
  BY DEF Exclusive, QueueTransfer
<1>3. Outdated = <<>>
  BY <1>2, OutdatedProperties
<1>4. /\ Append(Outdated, t) \in Seq(Transfers) /\ Append(Outdated, t) # <<>>
      /\ Len(Append(Outdated, t)) = 1
      /\ Append(Outdated, t)[1] = t
  BY <1>1, <1>3
<1>5. queue' = Running(Append(Outdated, t), selected)
  BY DEF QueueTransfer
<1>6. t.dev = cur /\ t.last = TRUE /\ t.disturbed = FALSE
  OBVIOUS
<1> DEFINE q == Append(Outdated, t)
<1> HIDE DEF q, t
<1>7. /\ Len(Running(q, selected)) = Len(q)
      /\ Running(q, selected) # <<>>
      /\ Running(q, selected)[1].dev = q[1].dev
      /\ Running(q, selected)[1].last = q[1].last
      /\ Running(q, selected)[1].disturbed
           = (q[1].disturbed \/ selected # SlaveOf(q[1].dev))
  BY <1>4, RunningProperties, Zenon DEF q
<1> QED
  BY <1>2, <1>4, <1>5, <1>6, <1>7 DEF q

\* The callback of a transfer that was alone leaves the bus idle.
LEMMA CallbackIdles ==
  ASSUME TypeOK, Exclusive, ~overrun, SPIcallback
  PROVE  /\ queue' = <<>>
         /\ reply' = [reply EXCEPT ![queue[1].dev] = "fresh"]
         /\ queue[1].dev \in Devices
<1>1. queue \in Seq(Transfers) /\ queue # <<>> /\ Len(queue) <= 1
  BY DEF TypeOK, Exclusive, SPIcallback
<1>2. /\ Head(queue) = queue[1] /\ Head(queue) \in Transfers
      /\ Tail(queue) \in Seq(Transfers) /\ Len(Tail(queue)) = Len(queue) - 1
      /\ Len(queue) \in Nat /\ Len(queue) # 0
  BY <1>1, HeadTailProperties, LenProperties, EmptySeq
<1>3. Tail(queue) = <<>>
  BY <1>1, <1>2, EmptySeq
<1>4. queue' = <<>>
  BY <1>2, <1>3, RunningProperties DEF SPIcallback
<1>5. Received(queue[1]) = "fresh"
  BY <1>1 DEF Exclusive, Received
<1> QED
  BY <1>2, <1>4, <1>5 DEF SPIcallback, Transfers

\* Without a timeout every step keeps the bus with the holder of the semaphore.
LEMMA ExclusiveStep == TypeOK /\ Exclusive /\ [Next]_vars => Exclusive'
<1> SUFFICES ASSUME TypeOK, Exclusive, [Next]_vars, ~overrun'
             PROVE  Exclusive'
  BY DEF Exclusive
<1>0. Len(<<>>) <= 1
  OBVIOUS
<1>1. CASE SkipSend
  BY <1>1 DEF SkipSend, busVars, Advance, Exclusive
<1>2. CASE AcquireForSend
  BY <1>0, <1>2 DEF AcquireForSend, Exclusive
<1>3. CASE SendTimeout
  BY <1>3 DEF SendTimeout
<1>4. CASE SelectSlave
  <2>1. queue = <<>> /\ sem = 0 /\ queue' = <<>>
    BY <1>4 DEF SelectSlave, Exclusive, Running
  <2> QED
    BY <1>0, <1>4, <2>1 DEF SelectSlave, Exclusive, SlaveOf
<1>5. CASE QueueTransfer
  <2>1. phase' \in {"send", "get_write"} /\ sem' = 0 /\ ~overrun
    BY <1>5 DEF QueueTransfer, Advance, Exclusive
  <2>2. /\ Len(queue') = 1 /\ queue' # <<>>
        /\ queue'[1].last /\ ~queue'[1].disturbed
    BY <1>5, <2>1, QueuedAlone
  <2> QED
    BY <2>1, <2>2 DEF Exclusive
<1>6. CASE QueueTransferFails
  <2>1. queue' = <<>>
    BY <1>6, OutdatedProperties DEF QueueTransferFails, Exclusive
  <2> QED
    BY <1>0, <1>6, <2>1 DEF QueueTransferFails, Advance, Exclusive
<1>7. CASE GetSendSuccess
  BY <1>7 DEF GetSendSuccess, busVars, Advance, Exclusive
<1>8. CASE SkipRead
  BY <1>8 DEF SkipRead, busVars, Advance, Exclusive
<1>9. CASE ReadReply
  BY <1>9 DEF ReadReply, busVars, Advance, Exclusive
<1>10. CASE ReadTimeout
  BY <1>10 DEF ReadTimeout
<1>11. CASE NextCycle
  BY <1>0, <1>11 DEF NextCycle, busVars, Exclusive
<1>12. CASE SPIcallback
  <2>1. ~overrun /\ queue # <<>> /\ phase' = phase
    BY <1>12 DEF SPIcallback, pollVars
  <2>2. phase \notin {"select", "queue"}
    BY <2>1 DEF Exclusive
  <2> QED
    BY <1>0, <1>12, <2>1, <2>2, CallbackIdles DEF Exclusive
<1>13. CASE UNCHANGED vars
  BY <1>13 DEF vars, busVars, pollVars, Exclusive, SlaveOf
<1> QED
  BY <1>1, <1>2, <1>3, <1>4, <1>5, <1>6, <1>7, <1>8, <1>9, <1>10, <1>11,
     <1>12, <1>13 DEF Next, PollingTask

\* Every step answers a command that was sent, or keeps its transfer queued.
LEMMA UnderwayStep ==
  TypeOK /\ Progress /\ Exclusive /\ Underway /\ [Next]_vars => Underway'
<1> SUFFICES ASSUME TypeOK, Progress, Exclusive, Underway, [Next]_vars, ~overrun'
             PROVE  Underway'
  BY DEF Underway
<1>1. CASE SkipSend
  BY <1>1 DEF SkipSend, busVars, handlerVars, Underway, Answered
<1>2. CASE AcquireForSend
  BY <1>2 DEF AcquireForSend, handlerVars, Underway, Answered
<1>3. CASE SendTimeout
  BY <1>3 DEF SendTimeout
<1>4. CASE SelectSlave
  <2>1. queue = <<>> /\ queue' = <<>>
    BY <1>4 DEF SelectSlave, Exclusive, Running
  <2> QED
    BY <1>4, <2>1 DEF SelectSlave, handlerVars, Underway, Answered
<1>5. CASE QueueTransfer
  <2>1. ~overrun /\ queue = <<>>
    BY <1>5 DEF QueueTransfer, Exclusive
  <2>2. queue' # <<>> /\ queue'[1].dev = cur
    BY <1>5, <2>1, QueuedAlone
  <2>3. \A d \in Devices \ {cur} : /\ sendReport'[d] = sendReport[d]
                                   /\ comStatus'[d] = comStatus[d]
                                   /\ reply'[d] = reply[d]
    BY <1>5 DEF QueueTransfer, Outdate, TypeOK
  <2> QED
    BY <2>1, <2>2, <2>3 DEF Underway, Answered
<1>6. CASE QueueTransferFails
  <2>1. ~overrun /\ queue = <<>>
    BY <1>6 DEF QueueTransferFails, Exclusive
  <2>2. sendReport'[cur] = "sent" /\ comStatus'[cur] = "FAULTY"
    BY <1>6 DEF QueueTransferFails, Outdate, TypeOK
  <2>3. \A d \in Devices \ {cur} : /\ sendReport'[d] = sendReport[d]
                                   /\ comStatus'[d] = comStatus[d]
                                   /\ reply'[d] = reply[d]
    BY <1>6 DEF QueueTransferFails, Outdate, TypeOK
  <2> QED
    BY <2>1, <2>2, <2>3 DEF Underway, Answered
<1>7. CASE GetSendSuccess
  <2>1. sendReport[cur] \in {"none", "sent"}
    BY <1>7 DEF GetSendSuccess, Progress, TypeOK, Devices
  <2> QED
    BY <1>7, <2>1 DEF GetSendSuccess, busVars, TypeOK, Underway, Answered
<1>8. CASE SkipRead
  BY <1>8 DEF SkipRead, busVars, handlerVars, Underway, Answered
<1>9. CASE ReadReply
  <2>1. \A d \in Devices : sendReport[d] # "sent"
    BY <1>9 DEF ReadReply, Progress
  <2> QED
    BY <1>9, <2>1 DEF ReadReply, busVars, Underway, Answered
<1>10. CASE ReadTimeout
  BY <1>10 DEF ReadTimeout
<1>11. CASE NextCycle
  BY <1>11 DEF NextCycle, Underway
<1>12. CASE SPIcallback
  <2>1. ~overrun /\ queue # <<>>
    BY <1>12 DEF SPIcallback
  <2>2. \A d \in Devices :
          reply'[d] = IF d = queue[1].dev THEN "fresh" ELSE reply[d]
    BY <1>12, <2>1, CallbackIdles DEF TypeOK
  <2> QED
    BY <1>12, <2>1, <2>2 DEF SPIcallback, handlerVars, Underway, Answered
<1>13. CASE UNCHANGED vars
  BY <1>13 DEF vars, busVars, handlerVars, Underway, Answered
<1> QED
  BY <1>1, <1>2, <1>3, <1>4, <1>5, <1>6, <1>7, <1>8, <1>9, <1>10, <1>11,
     <1>12, <1>13 DEF Next, PollingTask

\* No step reports an old reply without a timeout.
LEMMA FreshStep == BusInv /\ [Next]_vars => ReplyIsFresh'
<1> SUFFICES ASSUME TypeOK, Progress, Exclusive, Underway, ReplyIsFresh,
                    [Next]_vars, ~overrun'
             PROVE  ReplyIsFresh'
  BY DEF BusInv, ReplyIsFresh
<1>1. CASE SkipSend
  BY <1>1 DEF SkipSend, busVars, handlerVars, ReplyIsFresh
<1>2. CASE AcquireForSend
  BY <1>2 DEF AcquireForSend, handlerVars, ReplyIsFresh
<1>3. CASE SendTimeout
  BY <1>3 DEF SendTimeout
<1>4. CASE SelectSlave
  BY <1>4 DEF SelectSlave, handlerVars, ReplyIsFresh
<1>5. CASE QueueTransfer
  BY <1>5 DEF QueueTransfer, Progress, ReplyIsFresh
<1>6. CASE QueueTransferFails
  BY <1>6 DEF QueueTransferFails, Progress, ReplyIsFresh
<1>7. CASE GetSendSuccess
  BY <1>7 DEF GetSendSuccess, Progress, ReplyIsFresh
<1>8. CASE SkipRead
  BY <1>8 DEF SkipRead, busVars, handlerVars, ReplyIsFresh
<1>9. CASE ReadReply
  <2>1. ~overrun /\ queue = <<>>
    BY <1>9 DEF ReadReply, Exclusive
  <2>2. \A d \in Devices : sendReport[d] = "OK" => reply[d] = "fresh"
    BY <2>1 DEF Underway, Answered
  <2> QED
    BY <1>9, <2>2 DEF ReadReply, busVars, ReplyIsFresh
<1>10. CASE ReadTimeout
  BY <1>10 DEF ReadTimeout
<1>11. CASE NextCycle
  BY <1>11 DEF NextCycle, ReplyIsFresh
<1>12. CASE SPIcallback
  <2>1. ~overrun
    BY <1>12 DEF SPIcallback
  <2>2. \A d \in Devices :
          reply'[d] = IF d = queue[1].dev THEN "fresh" ELSE reply[d]
    BY <1>12, <2>1, CallbackIdles DEF TypeOK
  <2> QED
    BY <1>12, <2>1, <2>2 DEF SPIcallback, handlerVars, ReplyIsFresh
<1>13. CASE UNCHANGED vars
  BY <1>13 DEF vars, busVars, handlerVars, ReplyIsFresh
<1> QED
  BY <1>1, <1>2, <1>3, <1>4, <1>5, <1>6, <1>7, <1>8, <1>9, <1>10, <1>11,
     <1>12, <1>13 DEF Next, PollingTask

\* The strengthening that makes the freshness of replies inductive.
THEOREM BusInvariant == Spec => []BusInv
<1>1. Init => BusInv
  <2> SUFFICES ASSUME Init PROVE BusInv
    OBVIOUS
  <2>1. \A d \in Devices : sendReport[d] = "none" /\ readReport[d] = "none"
    BY DEF Init
  <2>2. queue = <<>> /\ Len(queue) <= 1
    BY DEF Init
  <2> QED
    BY <2>1, <2>2, TypeInit DEF Init, BusInv, SemaphoreNotLost, Progress, Exclusive,
                      Underway, ReplyIsFresh
<1>2. BusInv /\ [Next]_vars => BusInv'
  BY TypeStep, SemaphoreStep, ProgressStep, ExclusiveStep, UnderwayStep,
     FreshStep DEF BusInv
<1> QED
  BY <1>1, <1>2, PTL DEF Spec

\* Without a timeout since the bus was last idle, a device that is told of a
\* sent command and of a received reply finds the answer to this very command
\* in its buffer.
THEOREM RepliesAreFresh == Spec => []ReplyIsFresh
<1>1. BusInv => ReplyIsFresh
  BY DEF BusInv
<1> QED
  BY <1>1, BusInvariant, PTL
=============================================================================
