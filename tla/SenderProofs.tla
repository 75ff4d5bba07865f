---------------------------- MODULE SenderProofs ----------------------------
(***************************************************************************)
(* Theorems about the sender, for every value of the constants.            *)
(***************************************************************************)
EXTENDS Sender, TLAPS

\* The inductive invariant: the three safety invariants need each other and
\* the types.  LossListInFlight holds across a NAK because the window starts
\* at the buffer front; the front stays below the send position because an ACK
\* is checked against it.
SndInv == SndTypeOK /\ WindowAtBufferFront /\ LossListInFlight /\ WithinLimits

\* Wire sequence numbers and their distances are well typed.
LEMMA SeqTypes ==
    /\ \A i \in Int : (InitialSndSeq + i) % SeqSpace \in SeqNumbers
    /\ \A a, b \in SeqNumbers : SeqDiff(a, b) \in Int
<1>1. SeqSpace \in Nat /\ SeqSpace > 0 /\ InitialSndSeq \in Int
  BY SeqSpaceAssumption, SenderAssumption DEF SeqNumbers
<1>2. \A x \in Int : x % SeqSpace \in 0 .. SeqSpace - 1
  BY <1>1
<1>3. QED
  BY <1>1, <1>2 DEF SeqNumbers, SeqDiff

\* ext_of is an integer for every wire sequence number.
LEMMA ExtOfType ==
    ASSUME baseIndex \in Nat, NEW s \in SeqNumbers
    PROVE  ExtOf(s) \in Int
  BY SeqTypes DEF ExtOf, SeqAt

LEMMA SndInitInv == SndInit => SndInv
<1> SUFFICES ASSUME SndInit PROVE SndInv
  OBVIOUS
<1>1. buffer \in [baseIndex .. bufferEnd - 1 -> BufEntry]
  <2>1. baseIndex .. bufferEnd - 1 = {}
    BY DEF SndInit
  <2>2. QED
    BY <2>1 DEF SndInit
<1>2. 1 \in 1 .. MsgMod - 1
  BY SenderAssumption
<1>3. SndTypeOK
  <2>1. rttAdopted \in BOOLEAN /\ protocolViolation \in BOOLEAN
    BY DEF SndInit
  <2>2. QED
    BY <1>1, <1>2, <2>1, SenderAssumption DEF SndInit, SndTypeOK, NoTime
<1>4. WindowAtBufferFront /\ LossListInFlight
  BY DEF SndInit, WindowAtBufferFront, LossListInFlight
<1>5. WithinLimits
  BY SenderAssumption DEF SndInit, WithinLimits, AtLeast
<1>6. QED
  BY <1>3, <1>4, <1>5 DEF SndInv

-----------------------------------------------------------------------------
\* drop_front keeps the window anchored at the front and the loss list inside it.
LEMMA FakeAckKeepsWindow ==
    ASSUME SndInv, NEW b \in baseIndex .. bufferEnd, FakeAck(b)
    PROVE  /\ baseIndex' \in Nat /\ lastAckIndex' \in Nat /\ nextSendIndex' \in Nat
           /\ baseIndex' = b /\ lastAckIndex' = b
           /\ b <= nextSendIndex' /\ nextSendIndex' <= bufferEnd
           /\ nextSendIndex' - lastAckIndex' <= FlowWindow
           /\ lossList' \subseteq Nat
           /\ lossList' \subseteq b .. nextSendIndex' - 1
<1>0. /\ baseIndex \in Nat /\ bufferEnd \in Nat /\ nextSendIndex \in Nat
      /\ lastAckIndex = baseIndex /\ baseIndex <= nextSendIndex /\ nextSendIndex <= bufferEnd
      /\ b \in Nat /\ baseIndex <= b /\ b <= bufferEnd
  BY DEF SndInv, SndTypeOK, WindowAtBufferFront
<1>1. baseIndex' = b /\ lastAckIndex' = b
  BY <1>0 DEF FakeAck, AtLeast
<1>2. /\ nextSendIndex' \in Nat /\ b <= nextSendIndex' /\ nextSendIndex' <= bufferEnd
      /\ nextSendIndex <= nextSendIndex'
  BY <1>0 DEF FakeAck, AtLeast
<1>3. nextSendIndex' - b <= FlowWindow
  BY <1>0, SenderAssumption DEF FakeAck, AtLeast, SndInv, WithinLimits
<1>4. \A i \in lossList' : i \in Nat /\ i >= b /\ i < nextSendIndex'
  BY <1>0, <1>2 DEF FakeAck, SndInv, LossListInFlight
<1>5. QED
  BY <1>0, <1>1, <1>2, <1>3, <1>4

\* The DROPREQ of a too-late drop is a range of wire sequence numbers.
LEMMA DropReqType ==
    ASSUME SndTypeOK, NEW b \in baseIndex .. bufferEnd
    PROVE  TooLateDropReqs(b) \subseteq LossRange
<1>1. \A i \in Int : SeqAt(i) \in SeqNumbers
  BY SeqTypes DEF SeqAt
<1>2. baseIndex \in Int /\ b - 1 \in Int
  BY DEF SndTypeOK
<1>3. QED
  BY <1>1, <1>2 DEF TooLateDropReqs, DropReq, LossRange

LEMMA PushInv == ASSUME SndInv, Push, UNCHANGED now PROVE SndInv'
<1>1. PICK b1 \in TooLateFront : \E b \in OverflowFront(b1) :
         /\ FakeAck(b)
         /\ dropRequests' = dropRequests \cup TooLateDropReqs(b1)
         /\ buffer' = [i \in b .. bufferEnd |->
                         IF i = bufferEnd THEN [msg |-> nextMsg, origin |-> now, rexmit |-> NoTime]
                                          ELSE buffer[i]]
  BY DEF Push
<1>2. b1 \in baseIndex .. bufferEnd
  BY DEF TooLateFront, SndInv, SndTypeOK
<1>3. PICK b \in OverflowFront(b1) :
         /\ FakeAck(b)
         /\ buffer' = [i \in b .. bufferEnd |->
                         IF i = bufferEnd THEN [msg |-> nextMsg, origin |-> now, rexmit |-> NoTime]
                                          ELSE buffer[i]]
  BY <1>1
<1>4. b \in baseIndex .. bufferEnd
  BY <1>2, <1>3 DEF OverflowFront, SndInv, SndTypeOK
<1>5. bufferEnd' = bufferEnd + 1 /\ bufferEnd \in Nat
  BY DEF Push, SndInv, SndTypeOK
<1>6. WindowAtBufferFront' /\ LossListInFlight'
  BY <1>3, <1>4, <1>5, FakeAckKeepsWindow DEF WindowAtBufferFront, LossListInFlight
<1>7. WithinLimits'
  <2>1. bufferEnd' - b <= AtLeast(SendBufferPkts, 1)
    BY <1>3, <1>4, <1>5, SenderAssumption DEF OverflowFront, AtLeast
  <2>2. QED
    BY <2>1, <1>3, <1>4, FakeAckKeepsWindow DEF WithinLimits, AtLeast
<1>8. buffer' \in [baseIndex' .. bufferEnd' - 1 -> BufEntry]
  <2>1. nextMsg \in 0 .. MsgMod - 1 /\ now \in Nat
    BY SenderAssumption DEF SndInv, SndTypeOK
  <2>2. [msg |-> nextMsg, origin |-> now, rexmit |-> NoTime] \in BufEntry
    BY <2>1 DEF BufEntry
  <2>3. \A i \in b .. bufferEnd - 1 : buffer[i] \in BufEntry
    BY <1>4 DEF SndInv, SndTypeOK
  <2>4. \A i \in b .. bufferEnd : i # bufferEnd => i \in b .. bufferEnd - 1
    BY <1>4, <1>5
  <2>5. baseIndex' .. bufferEnd' - 1 = b .. bufferEnd
    BY <1>3, <1>4, <1>5, FakeAckKeepsWindow
  <2>6. QED
    BY <1>3, <2>2, <2>3, <2>4, <2>5
<1>9. nextMsg' \in 1 .. MsgMod - 1
  <2>1. (nextMsg + 1) % MsgMod \in 0 .. MsgMod - 1
    BY SenderAssumption DEF SndInv, SndTypeOK
  <2>2. QED
    BY <2>1, SenderAssumption DEF Push, NextMsg
<1>10. dropRequests' \subseteq LossRange
  BY <1>1, <1>2, DropReqType DEF SndInv, SndTypeOK
<1>11. rttAdopted' \in BOOLEAN /\ protocolViolation' \in BOOLEAN
  BY DEF Push, sndRttVars, SndInv, SndTypeOK
<1>12. SndTypeOK'
  BY <1>3, <1>4, <1>5, <1>8, <1>9, <1>10, <1>11, FakeAckKeepsWindow
  DEF Push, sndRttVars, ackAckVars, SndInv, SndTypeOK
<1>13. QED
  BY <1>6, <1>7, <1>12 DEF SndInv

LEMMA OnTimerInv == ASSUME SndInv, SndOnTimer, UNCHANGED now PROVE SndInv'
<1>1. PICK b \in TooLateFront :
         /\ FakeAck(b)
         /\ dropRequests' = dropRequests \cup TooLateDropReqs(b)
         /\ buffer' = [i \in b .. bufferEnd - 1 |-> buffer[i]]
  BY DEF SndOnTimer
<1>2. b \in baseIndex .. bufferEnd
  BY DEF TooLateFront, SndInv, SndTypeOK
<1>3. bufferEnd' = bufferEnd /\ bufferEnd \in Nat /\ baseIndex \in Nat /\ b \in Nat /\ baseIndex <= b
  BY <1>2 DEF SndOnTimer, SndInv, SndTypeOK
<1>4. WindowAtBufferFront' /\ LossListInFlight'
  BY <1>1, <1>2, <1>3, FakeAckKeepsWindow DEF WindowAtBufferFront, LossListInFlight
<1>5. WithinLimits'
  <2>1. bufferEnd' - b <= AtLeast(SendBufferPkts, 1)
    BY <1>3, SenderAssumption DEF SndInv, WithinLimits, AtLeast
  <2>2. QED
    BY <2>1, <1>1, <1>2, FakeAckKeepsWindow DEF WithinLimits, AtLeast
<1>6. buffer' \in [baseIndex' .. bufferEnd' - 1 -> BufEntry]
  <2>1. \A i \in b .. bufferEnd - 1 : buffer[i] \in BufEntry
    BY <1>3 DEF SndInv, SndTypeOK
  <2>2. baseIndex' .. bufferEnd' - 1 = b .. bufferEnd - 1
    BY <1>1, <1>2, <1>3, FakeAckKeepsWindow
  <2>3. QED
    BY <1>1, <2>1, <2>2
<1>7. dropRequests' \subseteq LossRange
  BY <1>1, <1>2, DropReqType DEF SndInv, SndTypeOK
<1>8. rttAdopted' \in BOOLEAN /\ protocolViolation' \in BOOLEAN
  BY DEF SndOnTimer, sndRttVars, SndInv, SndTypeOK
<1>9. SndTypeOK'
  BY <1>1, <1>2, <1>3, <1>6, <1>7, <1>8, FakeAckKeepsWindow
  DEF SndOnTimer, sndRttVars, ackAckVars, SndInv, SndTypeOK
<1>10. QED
  BY <1>4, <1>5, <1>9 DEF SndInv

-----------------------------------------------------------------------------
\* What an acknowledgement does to the buffer.  Whether or not it is stale, the
\* front ends where the window base does: at the larger of the two positions.
LEMMA ReleaseAckedKeepsWindow ==
    ASSUME SndInv, NEW s \in SeqNumbers, ReleaseAcked(s),
           lastAckIndex' = IF ExtOf(s) >= lastAckIndex THEN ExtOf(s) ELSE lastAckIndex
    PROVE  /\ WindowAtBufferFront' /\ LossListInFlight' /\ WithinLimits'
           /\ baseIndex' \in Nat /\ lastAckIndex' \in Nat /\ baseIndex' <= bufferEnd'
           /\ buffer' \in [baseIndex' .. bufferEnd' - 1 -> BufEntry]
           /\ lossList' \subseteq Nat
           /\ UNCHANGED <<bufferEnd, nextMsg, nextSendIndex, dropRequests, protocolViolation>>
<1>0. /\ baseIndex \in Nat /\ bufferEnd \in Nat /\ nextSendIndex \in Nat
      /\ lastAckIndex = baseIndex /\ baseIndex <= nextSendIndex /\ nextSendIndex <= bufferEnd
  BY DEF SndInv, SndTypeOK, WindowAtBufferFront
<1>1. ExtOf(s) \in Int /\ ExtOf(s) <= nextSendIndex
  BY <1>0, ExtOfType DEF ReleaseAcked
<1>2. UNCHANGED <<bufferEnd, nextMsg, nextSendIndex, dropRequests, protocolViolation>>
  BY DEF ReleaseAcked
<1> DEFINE b == IF ExtOf(s) <= baseIndex THEN baseIndex ELSE ExtOf(s)
<1>3. b \in Nat /\ baseIndex <= b /\ b <= nextSendIndex /\ lastAckIndex' = b
  BY <1>0, <1>1
<1>4. baseIndex' = b /\ buffer' = [i \in b .. bufferEnd - 1 |-> buffer[i]]
  BY <1>0, <1>1 DEF ReleaseAcked
<1>5. \A i \in lossList' : i \in lossList /\ i >= b
  BY <1>0, <1>1 DEF ReleaseAcked, SndInv, LossListInFlight
<1>6. \A i \in lossList : i \in Nat /\ i < nextSendIndex
  BY <1>0 DEF SndInv, LossListInFlight
<1> HIDE DEF b
<1>7. lossList' \subseteq Nat /\ LossListInFlight'
  BY <1>0, <1>2, <1>3, <1>4, <1>5, <1>6 DEF LossListInFlight
<1>8. WindowAtBufferFront' /\ WithinLimits'
  BY <1>0, <1>2, <1>3, <1>4, SenderAssumption
  DEF WindowAtBufferFront, WithinLimits, SndInv, AtLeast
<1>9. buffer' \in [baseIndex' .. bufferEnd' - 1 -> BufEntry]
  <2>1. \A i \in b .. bufferEnd - 1 : buffer[i] \in BufEntry
    BY <1>0, <1>3 DEF SndInv, SndTypeOK
  <2>2. QED
    BY <1>2, <1>4, <2>1
<1>10. QED
  BY <1>0, <1>2, <1>3, <1>4, <1>7, <1>8, <1>9

LEMMA LightAckInv ==
    ASSUME SndInv, NEW s \in SeqNumbers, HandleLightAck(s), UNCHANGED now
    PROVE  SndInv'
<1>1. ReleaseAcked(s) /\ lastAckIndex' = IF ExtOf(s) >= lastAckIndex THEN ExtOf(s) ELSE lastAckIndex
  BY DEF HandleLightAck
<1>2. advertisedWindow' \in Nat
  <2>1. advertisedWindow \in Nat /\ lastAckIndex \in Nat /\ ExtOf(s) \in Int
    BY ExtOfType DEF SndInv, SndTypeOK
  <2>2. QED
    BY <2>1 DEF HandleLightAck, AtLeast
<1>3. rttAdopted' \in BOOLEAN /\ protocolViolation' \in BOOLEAN
  BY DEF HandleLightAck, ReleaseAcked, sndRttVars, SndInv, SndTypeOK
<1>4. SndTypeOK'
  BY <1>1, <1>2, <1>3, ReleaseAckedKeepsWindow
  DEF HandleLightAck, sndRttVars, ackAckVars, SndInv, SndTypeOK
<1>5. QED
  BY <1>1, <1>4, ReleaseAckedKeepsWindow DEF SndInv

LEMMA FullAckInv ==
    ASSUME SndInv, NEW s \in SeqNumbers, NEW n \in Nat, NEW r \in Nat, NEW v \in Nat,
           NEW w \in Nat, HandleFullAck(s, n, r, v, w), UNCHANGED now
    PROVE  SndInv'
<1>1. ReleaseAcked(s) /\ lastAckIndex' = IF ExtOf(s) >= lastAckIndex THEN ExtOf(s) ELSE lastAckIndex
  BY DEF HandleFullAck
<1>2. advertisedWindow' \in Nat
  BY DEF HandleFullAck, SndInv, SndTypeOK
<1>3. rttAdopted' \in BOOLEAN /\ protocolViolation' \in BOOLEAN
  BY DEF HandleFullAck, ReleaseAcked, sndRttVars, SndInv, SndTypeOK
<1>4. rttUs' \in Nat /\ rttVarUs' \in Nat /\ lastAckAckNumber' \in Nat
      /\ lastAckAckTime' \in Nat \cup {NoTime}
  BY DEF HandleFullAck, sndRttVars, ackAckVars, SndInv, SndTypeOK
<1>5. SndTypeOK'
  BY <1>1, <1>2, <1>3, <1>4, ReleaseAckedKeepsWindow DEF SndInv, SndTypeOK
<1>6. QED
  BY <1>1, <1>5, ReleaseAckedKeepsWindow DEF SndInv

LEMMA BeyondSentInv ==
    ASSUME SndInv, NEW s \in SeqNumbers, AckBeyondSent(s), UNCHANGED now
    PROVE  SndInv'
<1>1. rttAdopted' \in BOOLEAN /\ protocolViolation' \in BOOLEAN
  BY DEF AckBeyondSent, sndRttVars, SndInv, SndTypeOK
<1>2. QED
  BY <1>1 DEF AckBeyondSent, bufVars, ackAckVars, sndRttVars, SndInv, SndTypeOK,
              WindowAtBufferFront, LossListInFlight, WithinLimits, AtLeast

-----------------------------------------------------------------------------
\* A NAK adds only packets of the window, whatever ranges it carries.
LEMMA NakInv ==
    ASSUME SndInv, NEW ranges \in NakReports, HandleNak(ranges), UNCHANGED now
    PROVE  SndInv'
<1>1. PICK k \in 0 .. Len(ranges) :
        /\ lossList' = lossList \cup UNION {StillInFlight(ranges[j]) : j \in 1 .. k}
        /\ dropRequests' = dropRequests \cup
                             {ranges[j] : j \in {m \in 1 .. k : RangeReleased(ranges[m])}}
        /\ protocolViolation' = (protocolViolation \/ k < Len(ranges))
        /\ UNCHANGED <<bufVars, nextSendIndex, lastAckIndex, advertisedWindow, ackAckVars,
                       sndRttVars>>
  BY DEF HandleNak
<1>2. ranges \in Seq(LossRange)
  BY SenderAssumption
<1>3. \A j \in 1 .. k : ranges[j] \in LossRange
  BY <1>2
<1>4. dropRequests' \subseteq LossRange
  BY <1>1, <1>3 DEF SndInv, SndTypeOK
<1>5. lastAckIndex = baseIndex /\ baseIndex \in Nat /\ nextSendIndex \in Nat
  BY DEF SndInv, SndTypeOK, WindowAtBufferFront
<1>6. \A j \in 1 .. k : StillInFlight(ranges[j]) \subseteq baseIndex .. nextSendIndex - 1
  BY <1>5 DEF StillInFlight
<1>7. lossList' \subseteq baseIndex .. nextSendIndex - 1
  BY <1>1, <1>6 DEF SndInv, LossListInFlight
<1>8. lossList' \subseteq Nat
  BY <1>5, <1>7
<1>9. rttAdopted' \in BOOLEAN /\ protocolViolation' \in BOOLEAN
  BY <1>1 DEF sndRttVars, SndInv, SndTypeOK
<1>10. UNCHANGED <<baseIndex, bufferEnd, buffer, nextMsg, nextSendIndex, lastAckIndex,
                   advertisedWindow, lastAckAckNumber, lastAckAckTime, rttUs, rttVarUs>>
  BY <1>1 DEF bufVars, ackAckVars, sndRttVars
<1>11. SndTypeOK'
  BY <1>4, <1>8, <1>9, <1>10 DEF SndInv, SndTypeOK
<1>12. WindowAtBufferFront' /\ LossListInFlight' /\ WithinLimits'
  BY <1>7, <1>10 DEF SndInv, WindowAtBufferFront, LossListInFlight, WithinLimits, AtLeast
<1>13. QED
  BY <1>11, <1>12 DEF SndInv

LEMMA RetransmitInv ==
    ASSUME SndInv, NEW i \in lossList, Retransmit(i), UNCHANGED now
    PROVE  SndInv'
<1>1. i \in baseIndex .. bufferEnd - 1
  BY DEF SndInv, SndTypeOK, WindowAtBufferFront, LossListInFlight
<1>2. buffer' \in [baseIndex .. bufferEnd - 1 -> BufEntry]
  <2>1. buffer[i] \in BufEntry /\ now \in Nat
    BY <1>1 DEF SndInv, SndTypeOK
  <2>2. [buffer[i] EXCEPT !.rexmit = now] \in BufEntry
    BY <2>1 DEF BufEntry
  <2>3. QED
    BY <1>1, <2>2 DEF Retransmit, SndInv, SndTypeOK
<1>3. rttAdopted' \in BOOLEAN /\ protocolViolation' \in BOOLEAN
  BY DEF Retransmit, sndRttVars, SndInv, SndTypeOK
<1>4. lossList' \subseteq lossList
  BY DEF Retransmit
<1>5. SndTypeOK'
  BY <1>2, <1>3, <1>4 DEF Retransmit, ackAckVars, sndRttVars, SndInv, SndTypeOK
<1>6. WindowAtBufferFront' /\ LossListInFlight' /\ WithinLimits'
  BY <1>4 DEF Retransmit, SndInv, WindowAtBufferFront, LossListInFlight, WithinLimits, AtLeast
<1>7. QED
  BY <1>5, <1>6 DEF SndInv

\* The send gate keeps the flight within the window: it is checked with <, so
\* there is room for the packet that goes out.
LEMMA SendNewInv == ASSUME SndInv, SendNew, UNCHANGED now PROVE SndInv'
<1>0. /\ baseIndex \in Nat /\ bufferEnd \in Nat /\ nextSendIndex \in Nat
      /\ lastAckIndex = baseIndex /\ baseIndex <= nextSendIndex
  BY DEF SndInv, SndTypeOK, WindowAtBufferFront
<1>1. nextSendIndex < bufferEnd /\ nextSendIndex' = nextSendIndex + 1 /\ lossList' = {}
  BY DEF SendNew, WindowOpen
<1>2. nextSendIndex' - lastAckIndex <= FlowWindow
  <2>1. Flight = nextSendIndex - lastAckIndex
    BY <1>0 DEF Flight, FlightAt, AtLeast
  <2>2. Flight < FlowWindow
    BY <1>0, <2>1, SenderAssumption DEF SendNew, WindowOpen, EffectiveWindow, SndInv, SndTypeOK
  <2>3. QED
    BY <1>0, <1>1, <2>1, <2>2, SenderAssumption
<1>3. rttAdopted' \in BOOLEAN /\ protocolViolation' \in BOOLEAN
  BY DEF SendNew, sndRttVars, SndInv, SndTypeOK
<1>4. SndTypeOK'
  BY <1>1, <1>3 DEF SendNew, bufVars, ackAckVars, sndRttVars, SndInv, SndTypeOK
<1>5. WindowAtBufferFront' /\ LossListInFlight'
  BY <1>0, <1>1 DEF SendNew, bufVars, WindowAtBufferFront, LossListInFlight
<1>6. WithinLimits'
  BY <1>2 DEF SendNew, bufVars, WithinLimits, SndInv, AtLeast
<1>7. QED
  BY <1>4, <1>5, <1>6 DEF SndInv

\* Steps that only shorten the loss list or the DROPREQ queue.
LEMMA ShrinkInv ==
    ASSUME SndInv, UNCHANGED now, lossList' \subseteq lossList, dropRequests' \subseteq dropRequests,
           UNCHANGED <<bufVars, nextSendIndex, lastAckIndex, advertisedWindow, ackAckVars,
                       sndRttVars, protocolViolation>>
    PROVE  SndInv'
<1>1. rttAdopted' \in BOOLEAN /\ protocolViolation' \in BOOLEAN
  BY DEF sndRttVars, SndInv, SndTypeOK
<1>2. SndTypeOK'
  BY <1>1 DEF bufVars, ackAckVars, sndRttVars, SndInv, SndTypeOK
<1>3. WindowAtBufferFront' /\ LossListInFlight' /\ WithinLimits'
  BY DEF bufVars, SndInv, WindowAtBufferFront, LossListInFlight, WithinLimits, AtLeast
<1>4. QED
  BY <1>2, <1>3 DEF SndInv

\* Time passes without touching the sender.
LEMMA IdleInv == ASSUME SndInv, now' \in Nat, UNCHANGED sndCore PROVE SndInv'
<1>1. rttAdopted' \in BOOLEAN /\ protocolViolation' \in BOOLEAN
  BY DEF sndCore, sndRttVars, SndInv, SndTypeOK
<1>2. SndTypeOK'
  BY <1>1 DEF sndCore, bufVars, ackAckVars, sndRttVars, SndInv, SndTypeOK
<1>3. WindowAtBufferFront' /\ LossListInFlight' /\ WithinLimits'
  BY DEF sndCore, bufVars, SndInv, WindowAtBufferFront, LossListInFlight, WithinLimits, AtLeast
<1>4. QED
  BY <1>2, <1>3 DEF SndInv

LEMMA AckInv ==
    ASSUME SndInv, NEW s \in SeqNumbers, HandleAck(s), UNCHANGED now
    PROVE  SndInv'
<1>1. CASE AckBeyondSent(s)
  BY <1>1, BeyondSentInv
<1>2. CASE HandleLightAck(s)
  BY <1>2, LightAckInv
<1>3. CASE \E number \in AckNumbers, pair \in RttPairs, avail \in Windows :
             HandleFullAck(s, number, pair[1], pair[2], avail)
  <2>1. PICK number \in AckNumbers, pair \in RttPairs, avail \in Windows :
               HandleFullAck(s, number, pair[1], pair[2], avail)
    BY <1>3
  <2>2. number \in Nat /\ pair[1] \in Nat /\ pair[2] \in Nat /\ avail \in Nat
    BY SenderAssumption
  <2>3. QED
    BY <2>1, <2>2, FullAckInv
<1>4. QED
  BY <1>1, <1>2, <1>3 DEF HandleAck

\* Every step of the sender preserves the invariant.
LEMMA SndStepInv == ASSUME SndInv, SndStep, UNCHANGED now PROVE SndInv'
<1>1. CASE Push
  BY <1>1, PushInv
<1>2. CASE SndOnTimer
  BY <1>2, OnTimerInv
<1>3. CASE \E seq \in SeqNumbers : HandleAck(seq)
  BY <1>3, AckInv
<1>4. CASE \E ranges \in NakReports : HandleNak(ranges)
  BY <1>4, NakInv
<1>5. CASE \E i \in lossList : Retransmit(i)
  BY <1>5, RetransmitInv
<1>6. CASE SendNew
  BY <1>6, SendNewInv
<1>7. CASE NothingToSend
  BY <1>7, ShrinkInv DEF NothingToSend
<1>8. CASE \E d \in dropRequests : SndPollControl(d)
  BY <1>8, ShrinkInv DEF SndPollControl
<1>9. QED
  BY <1>1, <1>2, <1>3, <1>4, <1>5, <1>6, <1>7, <1>8 DEF SndStep

LEMMA SndNextInv == SndInv /\ [SndNext]_sndVars => SndInv'
<1> SUFFICES ASSUME SndInv, [SndNext]_sndVars PROVE SndInv'
  OBVIOUS
<1>1. now \in Nat
  BY DEF SndInv, SndTypeOK
<1>2. CASE SndStep /\ UNCHANGED now
  BY <1>2, SndStepInv
<1>3. CASE Tick /\ UNCHANGED sndCore
  BY <1>1, <1>3, IdleInv DEF Tick
<1>4. CASE UNCHANGED sndVars
  BY <1>1, <1>4, IdleInv DEF sndVars
<1>5. QED
  BY <1>2, <1>3, <1>4 DEF SndNext

LEMMA SndInvariant == SndSpec => []SndInv
<1>1. QED
  BY SndInitInv, SndNextInv, PTL DEF SndSpec

-----------------------------------------------------------------------------
\* The sender's state is well typed: no index or window goes negative, and
\* message number zero (reserved for DROPREQ by range) is never assigned.
THEOREM SenderTypeCorrect == SndSpec => []SndTypeOK
<1>1. SndInv => SndTypeOK
  BY DEF SndInv
<1>2. QED
  BY <1>1, SndInvariant, PTL

\* last_ack_index and base_index never separate, and what was sent lies inside
\* the buffer, for every buffer size, window and sequence of ACKs, NAKs, drops.
THEOREM SenderWindowAtFront == SndSpec => []WindowAtBufferFront
<1>1. SndInv => WindowAtBufferFront
  BY DEF SndInv
<1>2. QED
  BY <1>1, SndInvariant, PTL

\* poll_transmit never finds a loss-list entry outside the buffer: its range
\* check is dead code, as its comment claims.
THEOREM SenderLossListInFlight == SndSpec => []LossListInFlight
<1>1. SndInv => LossListInFlight
  BY DEF SndInv
<1>2. QED
  BY <1>1, SndInvariant, PTL

\* Flight and buffer stay within their limits, whatever windows the peer
\* advertises and in whatever order.
THEOREM SenderStaysBounded == SndSpec => []SenderBounded
<1>1. SndInv => SenderBounded
  BY SenderAssumption DEF SndInv, SndTypeOK, SenderBounded
<1>2. QED
  BY <1>1, SndInvariant, PTL

-----------------------------------------------------------------------------
\* What BufferedPacketsImmutable says of one step.
KeepsPackets ==
    /\ baseIndex' >= baseIndex /\ nextSendIndex' >= nextSendIndex /\ bufferEnd' >= bufferEnd
    /\ \A i \in baseIndex .. bufferEnd - 1 : i >= baseIndex' => PacketAt(i)' = PacketAt(i)

\* A packet is the same when its entry keeps message number and origin.
LEMMA SameEntrySamePacket ==
    ASSUME NEW i, buffer'[i].msg = buffer[i].msg, buffer'[i].origin = buffer[i].origin
    PROVE  PacketAt(i)' = PacketAt(i)
  BY DEF PacketAt, SeqAt, Timestamp

LEMMA UnchangedKeepsPackets ==
    ASSUME SndInv, UNCHANGED <<buffer, baseIndex, bufferEnd>>, nextSendIndex' \in Nat,
           nextSendIndex' >= nextSendIndex
    PROVE  KeepsPackets
<1>1. \A i : PacketAt(i)' = PacketAt(i)
  BY SameEntrySamePacket
<1>2. QED
  BY <1>1 DEF KeepsPackets, SndInv, SndTypeOK

\* Steps that cut the buffer at a new front b, possibly appending one entry.
LEMMA CutKeepsPackets ==
    ASSUME SndInv, NEW b \in Nat, NEW e \in {bufferEnd, bufferEnd + 1},
           baseIndex <= b, b <= bufferEnd, baseIndex' = b, bufferEnd' = e,
           nextSendIndex' \in Nat, nextSendIndex' >= nextSendIndex,
           \A i \in b .. bufferEnd - 1 : buffer'[i] = buffer[i]
    PROVE  KeepsPackets
<1>1. baseIndex \in Nat /\ bufferEnd \in Nat
  BY DEF SndInv, SndTypeOK
<1>2. ASSUME NEW i \in baseIndex .. bufferEnd - 1, i >= b PROVE PacketAt(i)' = PacketAt(i)
  <2>1. buffer'[i] = buffer[i]
    BY <1>1, <1>2
  <2>2. QED
    BY <2>1, SameEntrySamePacket
<1>3. QED
  BY <1>1, <1>2 DEF KeepsPackets

LEMMA PushKeeps == ASSUME SndInv, Push PROVE KeepsPackets
<1>1. PICK b1 \in TooLateFront : \E b \in OverflowFront(b1) :
         /\ FakeAck(b)
         /\ buffer' = [i \in b .. bufferEnd |->
                         IF i = bufferEnd THEN [msg |-> nextMsg, origin |-> now, rexmit |-> NoTime]
                                          ELSE buffer[i]]
  BY DEF Push
<1>2. b1 \in baseIndex .. bufferEnd
  BY DEF TooLateFront, SndInv, SndTypeOK
<1>3. PICK b \in OverflowFront(b1) :
         /\ FakeAck(b)
         /\ buffer' = [i \in b .. bufferEnd |->
                         IF i = bufferEnd THEN [msg |-> nextMsg, origin |-> now, rexmit |-> NoTime]
                                          ELSE buffer[i]]
  BY <1>1
<1>4. /\ baseIndex \in Nat /\ bufferEnd \in Nat /\ nextSendIndex \in Nat
      /\ b \in Nat /\ baseIndex <= b /\ b <= bufferEnd /\ bufferEnd' = bufferEnd + 1
  BY <1>2, <1>3 DEF OverflowFront, Push, SndInv, SndTypeOK
<1>5. baseIndex' = b /\ nextSendIndex' \in Nat /\ nextSendIndex' >= nextSendIndex
  BY <1>3, <1>4 DEF FakeAck, AtLeast
<1>6. \A i \in b .. bufferEnd - 1 : buffer'[i] = buffer[i]
  BY <1>3, <1>4
<1>7. QED
  BY <1>4, <1>5, <1>6, CutKeepsPackets

LEMMA OnTimerKeeps == ASSUME SndInv, SndOnTimer PROVE KeepsPackets
<1>1. PICK b \in TooLateFront : FakeAck(b) /\ buffer' = [i \in b .. bufferEnd - 1 |-> buffer[i]]
  BY DEF SndOnTimer
<1>2. /\ baseIndex \in Nat /\ bufferEnd \in Nat /\ nextSendIndex \in Nat
      /\ b \in Nat /\ baseIndex <= b /\ b <= bufferEnd /\ bufferEnd' = bufferEnd
  BY DEF TooLateFront, SndOnTimer, SndInv, SndTypeOK
<1>3. baseIndex' = b /\ nextSendIndex' \in Nat /\ nextSendIndex' >= nextSendIndex
  BY <1>1, <1>2 DEF FakeAck, AtLeast
<1>4. \A i \in b .. bufferEnd - 1 : buffer'[i] = buffer[i]
  BY <1>1
<1>5. QED
  BY <1>2, <1>3, <1>4, CutKeepsPackets

LEMMA ReleaseKeeps == ASSUME SndInv, NEW s \in SeqNumbers, ReleaseAcked(s) PROVE KeepsPackets
<1>1. /\ baseIndex \in Nat /\ bufferEnd \in Nat /\ nextSendIndex \in Nat
      /\ baseIndex <= bufferEnd /\ ExtOf(s) \in Int
  BY ExtOfType DEF SndInv, SndTypeOK
<1> DEFINE b == IF ExtOf(s) <= baseIndex THEN baseIndex
                ELSE IF ExtOf(s) < bufferEnd THEN ExtOf(s) ELSE bufferEnd
<1>2. b \in Nat /\ baseIndex <= b /\ b <= bufferEnd
  BY <1>1
<1>3. baseIndex' = b /\ buffer' = [i \in b .. bufferEnd - 1 |-> buffer[i]]
  BY DEF ReleaseAcked
<1>4. bufferEnd' = bufferEnd /\ nextSendIndex' \in Nat /\ nextSendIndex' >= nextSendIndex
  BY <1>1 DEF ReleaseAcked
<1> HIDE DEF b
<1>5. \A i \in b .. bufferEnd - 1 : buffer'[i] = buffer[i]
  BY <1>3
<1>6. QED
  BY <1>2, <1>3, <1>4, <1>5, CutKeepsPackets

LEMMA RetransmitKeeps == ASSUME SndInv, NEW i \in lossList, Retransmit(i) PROVE KeepsPackets
<1>1. ASSUME NEW j \in baseIndex .. bufferEnd - 1 PROVE PacketAt(j)' = PacketAt(j)
  <2>1. buffer \in [baseIndex .. bufferEnd - 1 -> BufEntry]
    BY DEF SndInv, SndTypeOK
  <2>2. buffer' = [buffer EXCEPT ![i].rexmit = now]
    BY DEF Retransmit
  <2>3. buffer[j] \in BufEntry
    BY <2>1
  <2>4. buffer'[j].msg = buffer[j].msg /\ buffer'[j].origin = buffer[j].origin
    BY <2>1, <2>2, <2>3 DEF BufEntry
  <2>5. QED
    BY <2>4, SameEntrySamePacket
<1>2. QED
  BY <1>1 DEF KeepsPackets, Retransmit, SndInv, SndTypeOK

LEMMA SndStepKeeps == ASSUME SndInv, SndStep PROVE KeepsPackets
<1>0. nextSendIndex \in Nat
  BY DEF SndInv, SndTypeOK
<1>1. CASE Push
  BY <1>1, PushKeeps
<1>2. CASE SndOnTimer
  BY <1>2, OnTimerKeeps
<1>3. CASE \E seq \in SeqNumbers : HandleAck(seq)
  <2>1. PICK seq \in SeqNumbers : HandleAck(seq)
    BY <1>3
  <2>2. CASE AckBeyondSent(seq)
    BY <1>0, <2>2, UnchangedKeepsPackets DEF AckBeyondSent, bufVars
  <2>3. CASE ReleaseAcked(seq)
    BY <2>3, ReleaseKeeps
  <2>4. QED
    BY <2>1, <2>2, <2>3 DEF HandleAck, HandleLightAck, HandleFullAck
<1>4. CASE \E ranges \in NakReports : HandleNak(ranges)
  BY <1>0, <1>4, UnchangedKeepsPackets DEF HandleNak, bufVars
<1>5. CASE \E i \in lossList : Retransmit(i)
  BY <1>5, RetransmitKeeps
<1>6. CASE SendNew
  BY <1>0, <1>6, UnchangedKeepsPackets DEF SendNew, bufVars
<1>7. CASE NothingToSend
  BY <1>0, <1>7, UnchangedKeepsPackets DEF NothingToSend, bufVars
<1>8. CASE \E d \in dropRequests : SndPollControl(d)
  BY <1>0, <1>8, UnchangedKeepsPackets DEF SndPollControl, bufVars
<1>9. QED
  BY <1>1, <1>2, <1>3, <1>4, <1>5, <1>6, <1>7, <1>8 DEF SndStep

\* A retransmission carries what the first transmission carried, and a sequence
\* position is never given to another packet, for every length of the stream.
THEOREM SenderPacketsImmutable == SndSpec => BufferedPacketsImmutable
<1>1. ASSUME SndInv, [SndNext]_sndVars PROVE [KeepsPackets]_sndVars
  <2>1. CASE SndStep
    BY <1>1, <2>1, SndStepKeeps
  <2>2. CASE UNCHANGED sndCore
    BY <1>1, <2>2, UnchangedKeepsPackets DEF sndCore, bufVars, SndInv, SndTypeOK
  <2>3. QED
    BY <1>1, <2>1, <2>2 DEF SndNext
<1>2. QED
  BY <1>1, SndInvariant, PTL DEF SndSpec, BufferedPacketsImmutable, KeepsPackets
=============================================================================
