---------------------------- MODULE StreamProofs ----------------------------
(***************************************************************************)
(* What every implementation of Stream guarantees, for every latency and   *)
(* any number of messages.                                                 *)
(***************************************************************************)
EXTENDS Stream, TLAPS

StreamTypeOK ==
    /\ clock \in Int
    /\ submitted \in Seq(Int)
    /\ position \in Nat
    /\ played \in Seq(Int)

StreamInv == StreamTypeOK /\ PlayedInOrder /\ position <= Len(submitted)

\* A message played is beyond all those played before it.
LEMMA PlayKeepsOrder ==
  ASSUME StreamInv, NEW n \in position .. Len(submitted) - 1, PlayMessage(n)
  PROVE  StreamInv'
  <1>1. /\ position' = n + 1 /\ played' = Append(played, n) /\ n \in Int /\ position <= n
        /\ submitted' = submitted /\ clock' = clock /\ n + 1 <= Len(submitted)
    BY DEF PlayMessage, StreamInv, StreamTypeOK
  <1>2. /\ played' \in Seq(Int) /\ Len(played') = Len(played) + 1 /\ Len(played) \in Nat
        /\ \A k \in 1 .. Len(played) : played'[k] = played[k]
        /\ played'[Len(played) + 1] = n
    BY <1>1 DEF StreamInv, StreamTypeOK
  <1>3. StreamTypeOK' /\ position' <= Len(submitted')
    BY <1>1, <1>2 DEF StreamInv, StreamTypeOK
  <1>4. \A k \in 1 .. Len(played) : played[k] \in Int /\ played[k] < n
    BY <1>1, <1>2 DEF StreamInv, StreamTypeOK, PlayedInOrder
  <1>5. \A k \in 1 .. Len(played') : played'[k] < position'
    <2> SUFFICES ASSUME NEW k \in 1 .. Len(played') PROVE played'[k] < position'
      OBVIOUS
    <2>1. CASE k \in 1 .. Len(played)
      BY <1>1, <1>2, <1>4, <2>1
    <2>2. CASE k = Len(played) + 1
      BY <1>1, <1>2, <2>2
    <2> QED
      BY <1>2, <2>1, <2>2
  <1>6. \A j, k \in 1 .. Len(played') : j < k => played'[j] < played'[k]
    <2> SUFFICES ASSUME NEW j \in 1 .. Len(played'), NEW k \in 1 .. Len(played'), j < k
                 PROVE  played'[j] < played'[k]
      OBVIOUS
    <2>1. j \in 1 .. Len(played)
      BY <1>2
    <2>2. CASE k \in 1 .. Len(played)
      BY <1>2, <2>1, <2>2 DEF StreamInv, PlayedInOrder
    <2>3. CASE k = Len(played) + 1
      BY <1>2, <1>4, <2>1, <2>3
    <2> QED
      BY <1>2, <2>2, <2>3
  <1> QED
    BY <1>3, <1>5, <1>6 DEF StreamInv, PlayedInOrder

\* Order, for one step of any kind.
LEMMA StreamStepInv == StreamInv /\ [StreamNext]_streamVars => StreamInv'
  <1> SUFFICES ASSUME StreamInv, [StreamNext]_streamVars PROVE StreamInv'
    OBVIOUS
  <1>1. CASE SubmitMessage
    BY <1>1 DEF SubmitMessage, StreamInv, StreamTypeOK, PlayedInOrder
  <1>2. ASSUME NEW n \in position .. Len(submitted) - 1, PlayMessage(n) PROVE StreamInv'
    BY <1>2, PlayKeepsOrder
  <1>3. ASSUME NEW n \in position + 1 .. Len(submitted), PassOver(n) PROVE StreamInv'
    <2>1. /\ position' = n /\ n \in Nat /\ position < n /\ n <= Len(submitted)
          /\ UNCHANGED <<clock, submitted, played>>
      BY <1>3 DEF PassOver, StreamInv, StreamTypeOK
    <2>2. \A k \in 1 .. Len(played) : played[k] \in Int /\ played[k] < position
      BY DEF StreamInv, StreamTypeOK, PlayedInOrder
    <2> QED
      BY <2>1, <2>2 DEF StreamInv, StreamTypeOK, PlayedInOrder
  <1>4. CASE TimePasses
    BY <1>4 DEF TimePasses, StreamInv, StreamTypeOK, PlayedInOrder
  <1>5. CASE UNCHANGED streamVars
    BY <1>5 DEF streamVars, StreamInv, StreamTypeOK, PlayedInOrder
  <1> QED
    BY <1>1, <1>2, <1>3, <1>4, <1>5 DEF StreamNext

\* Initially nothing was submitted or played.
LEMMA StreamInitInv == StreamInit => StreamInv
  BY DEF StreamInit, StreamInv, StreamTypeOK, PlayedInOrder

\* Messages come out in the order of submission, each at most once.
THEOREM StreamInOrder == StreamSpec => []PlayedInOrder
  <1>1. StreamInv => PlayedInOrder
    BY DEF StreamInv
  <1> QED
    BY <1>1, StreamInitInv, StreamStepInv, PTL DEF StreamSpec

\* No message is passed over while it could still be played in time.
THEOREM StreamPatient ==
  ASSUME Latency \in Nat
  PROVE  StreamSpec => []NothingGivenUpEarly
  <1> DEFINE Inv == StreamInv /\ NothingGivenUpEarly
  <1>1. StreamInit => Inv
    BY StreamInitInv DEF StreamInit, NothingGivenUpEarly, AllDue
  <1>2. Inv /\ [StreamNext]_streamVars => Inv'
    <2> SUFFICES ASSUME Inv, [StreamNext]_streamVars PROVE Inv'
      OBVIOUS
    <2>0. StreamInv'
      BY StreamStepInv
    <2>1. /\ clock \in Int /\ submitted \in Seq(Int) /\ position \in Nat
          /\ position <= Len(submitted) /\ AllDue(position)
      BY DEF StreamInv, StreamTypeOK, NothingGivenUpEarly
    <2>2. CASE SubmitMessage
      <3>1. \A i \in 1 .. Len(submitted) : submitted'[i] = submitted[i]
        BY <2>1, <2>2 DEF SubmitMessage
      <3>2. position' = position /\ clock' = clock /\ position' <= Len(submitted')
        BY <2>0, <2>2 DEF SubmitMessage, StreamInv
      <3>3. \A i \in 1 .. position : submitted'[i] + Latency <= clock
        BY <2>1, <3>1 DEF AllDue
      <3> QED
        BY <2>0, <3>2, <3>3 DEF NothingGivenUpEarly, AllDue
    <2>3. ASSUME NEW n \in position .. Len(submitted) - 1, PlayMessage(n)
          PROVE  NothingGivenUpEarly'
      <3>1. position' <= Len(submitted') /\ position' = n + 1 /\ AllDue(n + 1)
            /\ submitted' = submitted /\ clock' = clock
        BY <2>0, <2>3 DEF PlayMessage, StreamInv
      <3> QED
        BY <3>1 DEF NothingGivenUpEarly, AllDue
    <2>4. ASSUME NEW n \in position + 1 .. Len(submitted), PassOver(n)
          PROVE  NothingGivenUpEarly'
      BY <2>0, <2>4 DEF PassOver, StreamInv, NothingGivenUpEarly, AllDue
    <2>5. CASE TimePasses
      <3> SUFFICES ASSUME NEW i \in 1 .. position PROVE submitted[i] + Latency <= clock + 1
        BY <2>0, <2>1, <2>5 DEF TimePasses, NothingGivenUpEarly, AllDue
      <3>1. submitted[i] \in Int /\ submitted[i] + Latency <= clock
        BY <2>1 DEF AllDue
      <3> QED
        BY <2>1, <3>1
    <2>6. CASE UNCHANGED streamVars
      BY <2>0, <2>1, <2>6 DEF streamVars, NothingGivenUpEarly, AllDue
    <2> QED
      BY <2>0, <2>2, <2>3, <2>4, <2>5, <2>6 DEF StreamNext
  <1>3. Inv => NothingGivenUpEarly
    OBVIOUS
  <1> QED
    BY <1>1, <1>2, <1>3, PTL DEF StreamSpec
=============================================================================
