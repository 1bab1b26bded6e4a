---------------------------- MODULE StatusProofs ----------------------------
(***************************************************************************)
(* Theorems about the status of the device: what a difference of stamps    *)
(* measures (TimeUtils), that the heap trend is over the last window and   *)
(* every counted loss a real one (RuntimeTracking), and that the chunks of *)
(* a response make up its document (DeviceStatus), for every clock, window *)
(* and interval, any number of readers, any sizes of documents and chunks. *)
(***************************************************************************)
EXTENDS DeviceStatus, RuntimeTracking, TLAPS

-----------------------------------------------------------------------------
(* A lemma on the remainder, for sums below twice the divisor. *)

\* The remainder of a sum of two stamps.
LEMMA SmallRemainder ==
    ASSUME NEW n \in Nat \ {0}, NEW x \in 0..(2 * n - 1)
    PROVE  /\ x < n => x % n = x
           /\ x >= n => x % n = x - n
  <1>1. x < n => x % n = x
    BY SMT
  <1>2. x >= n => x % n = x - n
    BY SMT
  <1>3. QED
    BY <1>1, <1>2

\* The difference is the time that has passed, also across the wrap, as long
\* as less than a whole round has.
THEOREM DifferenceIsElapsed ==
    ASSUME SaneClock, NEW t \in Stamp, NEW time \in 0..(Clocks - 1)
    PROVE  SafeTimeDifference(After(t, time), t) = time
  <1>0. Clocks \in Nat \ {0}
    BY DEF SaneClock
  <1>1. t + time \in 0..(2 * Clocks - 1)
    BY <1>0 DEF Stamp
  <1>2. CASE t + time < Clocks
    <2>1. After(t, time) = t + time
      BY <1>1, <1>2, SmallRemainder, <1>0, Zenon DEF After
    <2>2. QED
      BY <2>1, <1>2, <1>0 DEF SafeTimeDifference, Stamp
  <1>3. CASE t + time >= Clocks
    <2>1. After(t, time) = (t + time) - Clocks
      BY <1>1, <1>3, SmallRemainder, <1>0, Zenon DEF After
    <2>2. QED
      BY <2>1, <1>3, <1>0 DEF SafeTimeDifference, Stamp
  <1>4. QED
    BY <1>2, <1>3, <1>0 DEF Stamp

\* A stamp in the future does not hold anything back: where a back-off is
\* written as millis() + delay, any interval shorter than the rest of the
\* round has elapsed at once.  DeviceFrameworkWebSerial::flushBuffer does so.
THEOREM FutureStampHasElapsed ==
    ASSUME SaneClock, NEW now \in Stamp, NEW delay \in 1..(Clocks - 1),
           NEW interval \in 0..(Clocks - delay)
    PROVE  HasTimeElapsed(now, After(now, delay), interval)
  <1>0. Clocks \in Nat \ {0}
    BY DEF SaneClock
  <1>1. now + delay \in 0..(2 * Clocks - 1)
    BY <1>0 DEF Stamp
  <1>2. CASE now + delay < Clocks
    <2>1. After(now, delay) = now + delay
      BY <1>1, <1>2, SmallRemainder, <1>0, Zenon DEF After
    <2>2. QED
      BY <2>1, <1>2, <1>0
      DEF HasTimeElapsed, SafeTimeDifference, Stamp
  <1>3. CASE now + delay >= Clocks
    <2>1. After(now, delay) = (now + delay) - Clocks
      BY <1>1, <1>3, SmallRemainder, <1>0, Zenon DEF After
    <2>2. QED
      BY <2>1, <1>3, <1>0
      DEF HasTimeElapsed, SafeTimeDifference, Stamp
  <1>4. QED
    BY <1>2, <1>3, <1>0 DEF Stamp

-----------------------------------------------------------------------------
(* The ring holds the last samples, the oldest where the next one goes.    *)

\* Which of the `taken' samples entry i of the ring is: one of this turn below
\* the place of the next one, one of the last turn from there on.
Entry(i, next, taken) ==
    IF i < next THEN (taken - next) + i + 1
    ELSE ((taken - next) - SampleCount) + i + 1

RingIsTheWindow ==
    /\ heapHistoryLength < SampleCount =>
            /\ heapHistoryNext = heapHistoryLength
            /\ Len(samples) = heapHistoryLength
    /\ heapHistoryLength = SampleCount => Len(samples) >= SampleCount
    /\ \A i \in Index :
            i < heapHistoryNext \/ heapHistoryLength = SampleCount =>
                heapHistory[i] = samples[Entry(i, heapHistoryNext, Len(samples))]

\* The loss of a connection that the last update saw is still to be counted.
LossesAreAhead ==
    \A l \in Link :
        disconnections[l] + (IF lastConnected[l] /\ ~live[l] THEN 1 ELSE 0)
            <= losses[l]

TrackingInvariant ==
    TrackingTypeOK /\ RingIsTheWindow /\ TrendIsOverTheWindow /\ LossesAreAhead

\* The invariant of the tracking, initially.
LEMMA InitiallySound == ASSUME Sane, TrackingInit PROVE TrackingInvariant
<1>1. SampleCount \in Nat \ {0} /\ Clocks \in Nat \ {0}
  BY DEF Sane, SaneClock
<1>2. heapHistory \in [Index -> Sample] /\ heapHistoryNext \in Index
  <2>1. 0 \in Stamp /\ 0 \in Index
    BY <1>1 DEF Stamp, Index
  <2> QED BY <2>1 DEF TrackingInit, Sample
<1>3. /\ live \in [Link -> BOOLEAN] /\ lastConnected = live
      /\ disconnections = [l \in Link |-> 0] /\ losses = [l \in Link |-> 0]
  BY DEF TrackingInit
<1>4. disconnections \in [Link -> Nat] /\ losses \in [Link -> Nat]
  BY <1>3
<1>5. TrackingTypeOK
  <2>1. /\ heapHistoryLength \in 0..SampleCount /\ samples \in Seq(Sample)
        /\ highestFreeHeap \in Nat /\ lowestFreeHeap \in Nat
    BY <1>1 DEF TrackingInit
  <2> QED BY <1>2, <1>3, <1>4, <2>1 DEF TrackingTypeOK
<1>6. LossesAreAhead
  BY <1>3 DEF LossesAreAhead
<1>7. /\ heapHistoryNext = 0 /\ heapHistoryLength = 0 /\ trend = 0
      /\ Len(samples) = 0
  BY DEF TrackingInit
<1>8. RingIsTheWindow /\ TrendIsOverTheWindow
  BY <1>1, <1>7 DEF RingIsTheWindow, TrendIsOverTheWindow, Index
<1> QED BY <1>5, <1>6, <1>8 DEF TrackingInvariant

\* An update counts the losses that it sees.
LEMMA LinksKeep ==
    ASSUME TrackingInvariant, TrackConnectionChanges
    PROVE  /\ lastConnected' \in [Link -> BOOLEAN]
           /\ disconnections' \in [Link -> Nat]
           /\ LossesAreAhead'
<1>1. /\ lastConnected \in [Link -> BOOLEAN] /\ live \in [Link -> BOOLEAN]
      /\ disconnections \in [Link -> Nat] /\ losses \in [Link -> Nat]
  BY DEF TrackingInvariant, TrackingTypeOK
<1>2. /\ lastConnected' = live /\ live' = live /\ losses' = losses
      /\ disconnections' =
            [l \in Link |-> IF lastConnected[l] /\ ~live[l]
                            THEN disconnections[l] + 1
                            ELSE disconnections[l]]
  BY DEF TrackConnectionChanges, liveVars
<1>3. disconnections' \in [Link -> Nat]
  BY <1>1, <1>2
<1>4. ASSUME NEW l \in Link
      PROVE  disconnections'[l]
                 + (IF lastConnected'[l] /\ ~live'[l] THEN 1 ELSE 0) <= losses'[l]
  <2>1. disconnections[l] + (IF lastConnected[l] /\ ~live[l] THEN 1 ELSE 0)
            <= losses[l]
    BY DEF TrackingInvariant, LossesAreAhead
  <2>2. disconnections'[l] = disconnections[l]
                 + (IF lastConnected[l] /\ ~live[l] THEN 1 ELSE 0)
    BY <1>1, <1>2
  <2>3. ~(lastConnected'[l] /\ ~live'[l]) /\ losses'[l] = losses[l]
        /\ disconnections'[l] \in Nat
    BY <1>2, <1>3
  <2> QED BY <2>1, <2>2, <2>3
<1> QED BY <1>1, <1>2, <1>3, <1>4 DEF LossesAreAhead

\* A loss that no update has seen yet has happened before it is counted.
LEMMA ConnectionsKeep ==
    ASSUME TrackingInvariant, NEW k \in Link, ConnectionChanges(k)
    PROVE  TrackingInvariant'
<1>1. /\ lastConnected \in [Link -> BOOLEAN] /\ live \in [Link -> BOOLEAN]
      /\ disconnections \in [Link -> Nat] /\ losses \in [Link -> Nat]
  BY DEF TrackingInvariant, TrackingTypeOK
<1>2. /\ live' = [live EXCEPT ![k] = ~live[k]]
      /\ losses' = [losses EXCEPT ![k] = IF live[k] THEN losses[k] + 1
                                         ELSE losses[k]]
      /\ UNCHANGED <<heapVars, highestFreeHeap, lowestFreeHeap, linkVars>>
  BY DEF ConnectionChanges
<1>3. live' \in [Link -> BOOLEAN] /\ losses' \in [Link -> Nat]
  BY <1>1, <1>2
<1>4. ASSUME NEW l \in Link
      PROVE  disconnections'[l]
                 + (IF lastConnected'[l] /\ ~live'[l] THEN 1 ELSE 0) <= losses'[l]
  <2>1. disconnections[l] + (IF lastConnected[l] /\ ~live[l] THEN 1 ELSE 0)
            <= losses[l]
    BY DEF TrackingInvariant, LossesAreAhead
  <2>2. disconnections'[l] = disconnections[l] /\ lastConnected'[l] = lastConnected[l]
    BY <1>2 DEF linkVars
  <2>3. disconnections[l] \in Nat /\ losses[l] \in Nat /\ live[l] \in BOOLEAN
    BY <1>1
  <2>4. CASE l = k /\ live[k]
    <3>1. live'[l] = FALSE /\ losses'[l] = losses[l] + 1
      BY <1>1, <1>2, <2>4
    <3> QED BY <2>1, <2>2, <2>3, <2>4, <3>1
  <2>5. CASE l = k /\ ~live[k]
    <3>1. live'[l] = TRUE /\ losses'[l] = losses[l]
      BY <1>1, <1>2, <2>5
    <3> QED BY <2>1, <2>2, <2>3, <3>1
  <2>6. CASE l # k
    <3>1. live'[l] = live[l] /\ losses'[l] = losses[l]
      BY <1>1, <1>2, <2>6
    <3> QED BY <2>1, <2>2, <3>1
  <2> QED BY <2>4, <2>5, <2>6
<1>5. TrackingTypeOK'
  BY <1>2, <1>3 DEF TrackingInvariant, TrackingTypeOK, heapVars, linkVars
<1>6. RingIsTheWindow' /\ TrendIsOverTheWindow'
  BY <1>2 DEF TrackingInvariant, RingIsTheWindow, Entry, TrendIsOverTheWindow,
     heapVars
<1> QED BY <1>4, <1>5, <1>6 DEF TrackingInvariant, LossesAreAhead

\* A sample enters the window.
LEMMA SampleKeeps ==
    ASSUME Sane, TrackingInvariant, NEW heap \in Nat, NEW now \in Stamp,
           TakeSample(heap, now)
    PROVE  /\ heapHistory' \in [Index -> Sample]
           /\ heapHistoryNext' \in Index
           /\ heapHistoryLength' \in 0..SampleCount
           /\ samples' \in Seq(Sample)
           /\ RingIsTheWindow' /\ TrendIsOverTheWindow'
<1> DEFINE sample == [freeHeap |-> heap, timestamp |-> now]
           N == SampleCount
           L == Len(samples)
           E(i) == Entry(i, heapHistoryNext, Len(samples))
           F(i) == Entry(i, heapHistoryNext', Len(samples'))
<1>1. N \in Nat \ {0}
  BY DEF Sane
<1>2. /\ heapHistory \in [Index -> Sample] /\ heapHistoryNext \in 0..(N - 1)
      /\ heapHistoryLength \in 0..N /\ samples \in Seq(Sample)
      /\ L \in Nat
  BY DEF TrackingInvariant, TrackingTypeOK, Index
<1>3. CASE UNCHANGED heapVars
  BY <1>2, <1>3 DEF heapVars, TrackingInvariant, TrackingTypeOK, RingIsTheWindow, Entry,
     TrendIsOverTheWindow, Index
<1>4. CASE ~UNCHANGED heapVars
  <2>1. /\ heapHistory' = [heapHistory EXCEPT ![heapHistoryNext] = sample]
        /\ heapHistoryLength' = IF heapHistoryLength < N
                                THEN heapHistoryLength + 1
                                ELSE heapHistoryLength
        /\ heapHistoryNext' = IF heapHistoryNext + 1 = N THEN 0
                              ELSE heapHistoryNext + 1
        /\ trend' = IF heapHistoryLength' = N
                    THEN TrendOf(sample, heapHistory'[heapHistoryNext'])
                    ELSE 0
        /\ samples' = Append(samples, sample)
    BY <1>4 DEF TakeSample
  <2>2. sample \in Sample
    BY DEF Sample
  <2> HIDE DEF sample
  <2>3. /\ heapHistory' \in [Index -> Sample] /\ samples' \in Seq(Sample)
        /\ heapHistoryNext' \in 0..(N - 1) /\ heapHistoryLength' \in 0..N
    <3>1. heapHistory' \in [Index -> Sample]
      BY <1>2, <2>1, <2>2
    <3>4. samples' \in Seq(Sample)
      BY <1>2, <2>1, <2>2
    <3>2. heapHistoryNext' \in 0..(N - 1)
      BY <1>1, <1>2, <2>1
    <3>3. heapHistoryLength' \in 0..N
      BY <1>1, <1>2, <2>1
    <3> QED BY <3>1, <3>2, <3>3, <3>4
  <2>4. /\ Len(samples') = L + 1 /\ samples'[L + 1] = sample
        /\ \A k \in 1..L : samples'[k] = samples[k]
    BY <1>2, <2>1, <2>2
  <2>5. /\ heapHistory'[heapHistoryNext] = sample
        /\ \A i \in Index : i # heapHistoryNext =>
                heapHistory'[i] = heapHistory[i]
    BY <1>2, <2>1 DEF Index
  <2>6. /\ heapHistoryLength < N => heapHistoryNext = heapHistoryLength
                                    /\ L = heapHistoryLength
        /\ heapHistoryLength = N => L >= N
    BY DEF TrackingInvariant, RingIsTheWindow
  <2>7. /\ heapHistoryLength' < N => heapHistoryNext' = heapHistoryLength'
                                     /\ Len(samples') = heapHistoryLength'
        /\ heapHistoryLength' = N => Len(samples') >= N
    <3>1. CASE heapHistoryLength < N
      BY <1>1, <1>2, <2>1, <2>4, <2>6, <3>1
    <3>2. CASE heapHistoryLength = N
      BY <1>1, <1>2, <2>1, <2>4, <2>6, <3>2
    <3> QED BY <1>1, <1>2, <3>1, <3>2
  <2>8. ASSUME NEW i \in Index,
               i < heapHistoryNext' \/ heapHistoryLength' = N
        PROVE  heapHistory'[i] = samples'[F(i)]
    <3>1. F(i) = IF i < heapHistoryNext'
                 THEN ((L + 1) - heapHistoryNext') + i + 1
                 ELSE (((L + 1) - heapHistoryNext') - N) + i + 1
      BY <2>4 DEF Entry
    <3>2. CASE i = heapHistoryNext
      <4>1. F(i) = L + 1
        BY <1>1, <1>2, <2>1, <3>1, <3>2
      <4> QED BY <2>4, <2>5, <3>2, <4>1
    <3>3. CASE i # heapHistoryNext
      <4>1. i < heapHistoryNext \/ heapHistoryLength = N
        BY <1>1, <1>2, <2>1, <2>6, <2>8, <3>3 DEF Index
      <4>2. heapHistory[i] = samples[E(i)]
        BY <4>1 DEF TrackingInvariant, RingIsTheWindow
      <4>3. F(i) = E(i)
        <5>1. E(i) = IF i < heapHistoryNext THEN (L - heapHistoryNext) + i + 1
                     ELSE ((L - heapHistoryNext) - N) + i + 1
          BY DEF Entry
        <5>2. i \in 0..(N - 1)
          BY DEF Index
        <5>3. CASE heapHistoryNext + 1 = N
          <6>1. heapHistoryNext' = 0 /\ i < heapHistoryNext
            BY <1>1, <1>2, <2>1, <3>3, <5>2, <5>3
          <6> QED BY <1>1, <1>2, <3>1, <5>1, <5>2, <5>3, <6>1
        <5>4. CASE heapHistoryNext + 1 # N
          <6>1. heapHistoryNext' = heapHistoryNext + 1
            BY <2>1, <5>4
          <6> QED BY <1>1, <1>2, <3>1, <3>3, <5>1, <5>2, <6>1
        <5> QED BY <5>3, <5>4
      <4>4. E(i) \in 1..L
        BY <1>1, <1>2, <2>6, <4>1 DEF Index, Entry
      <4> QED BY <2>4, <2>5, <3>3, <4>2, <4>3, <4>4
    <3> QED BY <3>2, <3>3
  <2>9. TrendIsOverTheWindow'
    <3>1. CASE heapHistoryLength' < N
      BY <1>1, <2>1, <2>3, <2>4, <2>7, <3>1 DEF TrendIsOverTheWindow
    <3>2. CASE heapHistoryLength' = N
      <4>1. heapHistoryNext' \in Index
        BY <2>3 DEF Index
      <4>2. heapHistory'[heapHistoryNext'] = samples'[F(heapHistoryNext')]
        BY <2>8, <3>2, <4>1
      <4>3. F(heapHistoryNext') = (Len(samples') - N) + 1
        BY <1>1, <1>2, <2>3, <2>4 DEF Entry
      <4>4. trend' = TrendOf(samples'[L + 1], samples'[(Len(samples') - N) + 1])
        BY <2>1, <2>4, <3>2, <4>2, <4>3
      <4>5. ~(Len(samples') < N)
        BY <1>1, <1>2, <2>4, <2>7, <3>2
      <4> QED BY <2>4, <4>4, <4>5 DEF TrendIsOverTheWindow
    <3> QED BY <1>1, <2>3, <3>1, <3>2
  <2> QED BY <2>3, <2>7, <2>8, <2>9 DEF RingIsTheWindow, Index
<1> QED BY <1>3, <1>4

\* All steps together.
LEMMA Inductive ==
    ASSUME Sane, TrackingInvariant, [TrackingNext]_trackingVars
    PROVE  TrackingInvariant'
<1>1. ASSUME NEW heap \in Nat, NEW now \in Stamp, TrackRuntimeInfo(heap, now)
      PROVE  TrackingInvariant'
  <2>1. /\ lastConnected' \in [Link -> BOOLEAN]
        /\ disconnections' \in [Link -> Nat]
        /\ LossesAreAhead'
    BY <1>1, LinksKeep DEF TrackRuntimeInfo
  <2>2. /\ heapHistory' \in [Index -> Sample]
        /\ heapHistoryNext' \in Index
        /\ heapHistoryLength' \in 0..SampleCount
        /\ samples' \in Seq(Sample)
        /\ RingIsTheWindow' /\ TrendIsOverTheWindow'
    BY <1>1, SampleKeeps DEF TrackRuntimeInfo
  <2>3. highestFreeHeap' \in Nat /\ lowestFreeHeap' \in Nat
    BY <1>1 DEF TrackRuntimeInfo, Extremes, TrackingInvariant, TrackingTypeOK
  <2>4. live' \in [Link -> BOOLEAN] /\ losses' \in [Link -> Nat]
    BY <1>1 DEF TrackRuntimeInfo, TrackConnectionChanges, liveVars,
       TrackingInvariant, TrackingTypeOK
  <2> QED BY <2>1, <2>2, <2>3, <2>4 DEF TrackingInvariant, TrackingTypeOK
<1>2. CASE UNCHANGED trackingVars
  BY <1>2 DEF trackingVars, heapVars, linkVars, liveVars, TrackingInvariant,
     TrackingTypeOK, RingIsTheWindow, Entry, TrendIsOverTheWindow, LossesAreAhead
<1>3. ASSUME NEW l \in Link, ConnectionChanges(l) PROVE TrackingInvariant'
  BY <1>3, ConnectionsKeep
<1> QED BY <1>1, <1>2, <1>3 DEF TrackingNext

\* The trend is taken over the whole window of samples, in every turn of the
\* ring (updateRuntimeMetrics), and a loss that is counted did happen
\* (trackConnectionChanges), however the connections change between two updates.
THEOREM TrackingIsSound ==
    ASSUME Sane
    PROVE  TrackingSpec =>
             [](TrackingTypeOK /\ TrendIsOverTheWindow /\ CountedLossesAreReal)
<1>1. TrackingInit => TrackingInvariant
  BY InitiallySound
<1>2. TrackingInvariant /\ [TrackingNext]_trackingVars => TrackingInvariant'
  BY Inductive
<1>3. ASSUME TrackingInvariant PROVE CountedLossesAreReal
  <2>1. ASSUME NEW l \in Link PROVE disconnections[l] <= losses[l]
    <3>1. disconnections[l] + (IF lastConnected[l] /\ ~live[l] THEN 1 ELSE 0)
              <= losses[l]
      BY <1>3 DEF TrackingInvariant, LossesAreAhead
    <3>2. disconnections[l] \in Nat /\ losses[l] \in Nat
      BY <1>3 DEF TrackingInvariant, TrackingTypeOK
    <3> QED BY <3>1, <3>2
  <2> QED BY <2>1 DEF CountedLossesAreReal
<1>4. TrackingInvariant =>
          TrackingTypeOK /\ TrendIsOverTheWindow /\ CountedLossesAreReal
  BY <1>3 DEF TrackingInvariant
<1> QED BY <1>1, <1>2, <1>4, PTL DEF TrackingSpec

-----------------------------------------------------------------------------
(* The chunks of a status response, put together.                          *)

Character == {"{", "value", "}"}

Reply == [stream: [bytesEmitted: Nat, complete: BOOLEAN], body: Seq(Character),
          mixed: BOOLEAN, open: BOOLEAN]

\* A response that has not been mixed is a beginning of the document, as long as
\* its stream says, and the whole of it once it is complete.
Begun(reply, w) ==
    LET n == reply.stream.bytesEmitted
    IN  /\ n <= w + 2
        /\ \A i \in 1..n : reply.body[i] = Document(w)[i]
        /\ reply.stream.complete => n = w + 2

RepliesFit ==
    /\ width \in Widths
    /\ responses \in [Reader -> Reply]
    /\ \A r \in Open :
          /\ responses[r].stream.bytesEmitted = Len(responses[r].body)
          /\ ~responses[r].mixed => Begun(responses[r], width)

\* A sequence behind another one.
LEMMA Joined ==
    ASSUME NEW S, NEW s \in Seq(S), NEW t \in Seq(S)
    PROVE  /\ s \o t \in Seq(S) /\ Len(s \o t) = Len(s) + Len(t)
           /\ \A i \in 1..(Len(s) + Len(t)) :
                 (s \o t)[i] = IF i <= Len(s) THEN s[i] ELSE t[i - Len(s)]
OBVIOUS

\* A part of a sequence, which is empty when it begins behind its end.
LEMMA Part ==
    ASSUME NEW S, NEW s \in Seq(S), NEW m \in Nat \ {0}, NEW k \in 0..Len(s)
    PROVE  /\ SubSeq(s, m, k) \in Seq(S)
           /\ Len(SubSeq(s, m, k)) = IF m <= k THEN (k - m) + 1 ELSE 0
           /\ \A i \in 1..((k - m) + 1) : SubSeq(s, m, k)[i] = s[(m + i) - 1]
<1>1. Len(s) \in Nat /\ \A i \in 1..Len(s) : s[i] \in S
  OBVIOUS
<1>2. CASE m <= k
  BY <1>1, <1>2
<1>3. CASE m > k
  <2>1. SubSeq(s, m, k) = <<>>
    BY <1>1, <1>3
  <2> QED BY <1>1, <1>3, <2>1
<1> QED BY <1>1, <1>2, <1>3

\* The document with a field of width w.
LEMMA Documents ==
    ASSUME NEW w \in Nat
    PROVE  Document(w) \in Seq(Character) /\ Len(Document(w)) = w + 2
<1> DEFINE field == [i \in 1..w |-> "value"]
           left == <<"{">>
           right == <<"}">>
           front == left \o field
           document == front \o right
<1>1. field \in Seq(Character) /\ Len(field) = w
  BY DEF Character
<1>2. /\ left \in Seq(Character) /\ Len(left) = 1
      /\ right \in Seq(Character) /\ Len(right) = 1
  BY DEF Character
<1>3. Document(w) = document
  BY DEF Document
<1> HIDE DEF field, left, right, document
<1>4. front \in Seq(Character) /\ Len(front) = Len(left) + Len(field)
  BY <1>1, <1>2, Joined, Zenon
<1> HIDE DEF front
<1>5. document \in Seq(Character) /\ Len(document) = Len(front) + Len(right)
  BY <1>2, <1>4, Joined, Zenon DEF document
<1>6. Len(document) = w + 2
  BY <1>1, <1>2, <1>4, <1>5
<1> QED BY <1>3, <1>5, <1>6, Zenon

\* renderJSONChunk: what it prints goes on where the stream has stopped.
LEMMA Rendered ==
    ASSUME NEW n \in Nat, NEW max \in Nat \ {0}, NEW w \in Nat
    PROVE  /\ Printed(Document(w), n, max) \in Seq(Character)
           /\ Len(Printed(Document(w), n, max)) \in Nat
           /\ n <= w + 2 =>
                 /\ n + Len(Printed(Document(w), n, max)) <= w + 2
                 /\ \A i \in 1..Len(Printed(Document(w), n, max)) :
                       Printed(Document(w), n, max)[i] = Document(w)[n + i]
<1> DEFINE bytes == Printed(Document(w), n, max)
<1> DEFINE document == Document(w)
           k == Least(n + max, w + 2)
           m == n + 1
<1>1. document \in Seq(Character) /\ Len(document) = w + 2
  BY Documents
<1>2. bytes = SubSeq(document, m, k)
  BY <1>1 DEF Printed
<1>3. /\ k \in 0..(w + 2) /\ m \in Nat \ {0}
      /\ n <= w + 2 => k >= n
  BY DEF Least
<1> HIDE DEF document, k, bytes
<1>4. /\ bytes \in Seq(Character)
      /\ Len(bytes) = IF m <= k THEN (k - m) + 1 ELSE 0
      /\ \A i \in 1..((k - m) + 1) : bytes[i] = document[(m + i) - 1]
  BY <1>1, <1>2, <1>3, Part
<1>5. /\ bytes \in Seq(Character) /\ Len(bytes) \in Nat
      /\ n <= w + 2 =>
            /\ n + Len(bytes) <= w + 2
            /\ \A i \in 1..Len(bytes) : bytes[i] = document[n + i]
  <2>1. Len(bytes) \in Nat /\ Len(bytes) = IF m <= k THEN (k - m) + 1 ELSE 0
    BY <1>3, <1>4
  <2>2. n <= w + 2 => n + Len(bytes) <= w + 2
    BY <1>3, <2>1
  <2>3. ASSUME NEW i \in 1..Len(bytes) PROVE bytes[i] = document[n + i]
    <3>1. i \in 1..((k - m) + 1) /\ (m + i) - 1 = n + i
      BY <1>3, <2>1
    <3> QED BY <1>4, <3>1
  <2> QED BY <1>4, <2>1, <2>2, <2>3
<1> QED BY <1>5, Zenon DEF document, bytes

\* The invariant of the responses, initially.
LEMMA RepliesInitially == Init => RepliesFit
<1> SUFFICES ASSUME Init PROVE RepliesFit
  OBVIOUS
<1>1. responses = [r \in Reader |-> Closed] /\ width \in Widths
  BY DEF Init
<1>2. /\ <<>> \in Seq(Character) /\ Closed \in Reply /\ ~Closed.open
  BY DEF Closed, Reply
<1> QED BY <1>1, <1>2 DEF RepliesFit, Open

\* updateRuntimeInfo: whatever is open is mixed from now on.
LEMMA Mixing ==
    ASSUME RepliesFit, UpdateRuntimeInfo
    PROVE  /\ width' \in Widths /\ Mixed \in [Reader -> Reply]
           /\ \A r \in Reader :
                 /\ Mixed[r].open = responses[r].open
                 /\ Mixed[r].open => /\ Mixed[r].mixed
                                     /\ Mixed[r].stream = responses[r].stream
                                     /\ Mixed[r].body = responses[r].body
<1>1. responses \in [Reader -> Reply]
  BY DEF RepliesFit
<1>2. width' \in Widths
  BY DEF UpdateRuntimeInfo
<1>3. ASSUME NEW r \in Reader
      PROVE  /\ Mixed[r] \in Reply /\ Mixed[r].open = responses[r].open
             /\ Mixed[r].stream = responses[r].stream
             /\ Mixed[r].body = responses[r].body
             /\ responses[r].open => Mixed[r].mixed
  <2> DEFINE more == responses[r].mixed \/ r \in Open
  <2>1. more \in BOOLEAN
    BY Zenon
  <2>2. responses[r].open => more
    BY DEF Open
  <2>3. Mixed[r] = [responses[r] EXCEPT !.mixed = more]
    BY DEF Mixed
  <2>4. responses[r] \in Reply
    BY <1>1
  <2> HIDE DEF more
  <2>5. Mixed[r] \in Reply /\ Mixed[r].mixed = more
        /\ Mixed[r].open = responses[r].open
        /\ Mixed[r].stream = responses[r].stream
        /\ Mixed[r].body = responses[r].body
    BY <2>1, <2>3, <2>4 DEF Reply
  <2> QED BY <2>2, <2>5, Zenon
<1>4. Mixed \in [Reader -> Reply]
  BY <1>3 DEF Mixed
<1> QED BY <1>2, <1>3, <1>4

\* A chunk leaves a beginning of the document, or all of it.
LEMMA Chunking ==
    ASSUME RepliesFit, NEW r \in Reader, NEW n \in 1..MaxChunk, Chunk(r, n)
    PROVE  RepliesFit'
<1> DEFINE old == responses[r]
           document == Document(width)
           emitted == old.stream.bytesEmitted
           bytes == Printed(document, emitted, n)
           next == [old EXCEPT !.stream = [bytesEmitted |-> emitted + Len(bytes),
                        complete |-> emitted + Len(bytes) >= Len(document)],
                    !.body = @ \o bytes]
<1>1. /\ responses \in [Reader -> Reply] /\ old \in Reply /\ r \in Open
      /\ emitted = Len(old.body) /\ emitted \in Nat /\ width \in Nat
      /\ width \in Widths /\ old.body \in Seq(Character)
      /\ ~old.mixed => Begun(old, width)
  BY DeviceStatusAssumption DEF RepliesFit, Chunk, Reply
<1>2. responses' = [responses EXCEPT ![r] = next] /\ UNCHANGED width
  <2>1. responses' = [responses EXCEPT
              ![r].stream = RenderJSONChunk(responses[r].stream, n).s,
              ![r].body = @ \o RenderJSONChunk(responses[r].stream, n).bytes]
    BY DEF Chunk
  <2>2. /\ RenderJSONChunk(old.stream, n).bytes = bytes
        /\ RenderJSONChunk(old.stream, n).s =
             [bytesEmitted |-> emitted + Len(bytes),
              complete |-> emitted + Len(bytes) >= Len(document)]
    BY DEF RenderJSONChunk
  <2> HIDE DEF bytes, emitted, document
  <2>3. responses' = [responses EXCEPT ![r] = next]
    BY <1>1, <2>1, <2>2
  <2> QED BY <2>3 DEF Chunk, status
<1>3. /\ bytes \in Seq(Character) /\ Len(bytes) \in Nat
      /\ emitted <= width + 2 =>
            /\ emitted + Len(bytes) <= width + 2
            /\ \A i \in 1..Len(bytes) : bytes[i] = document[emitted + i]
  <2>1. n \in Nat \ {0}
    BY DeviceStatusAssumption
  <2>2. bytes = Printed(document, emitted, n)
    OBVIOUS
  <2>3. emitted \in Nat /\ width \in Nat
    BY <1>1
  <2>4. document = Document(width)
    OBVIOUS
  <2> HIDE DEF emitted, bytes, document
  <2> QED BY <2>1, <2>2, <2>3, <2>4, Rendered
<1>4. Len(document) = width + 2
  BY <1>1, Documents
<1> DEFINE total == emitted + Len(bytes)
           done == emitted + Len(bytes) >= Len(document)
           body == old.body \o bytes
<1>5. /\ body \in Seq(Character) /\ Len(body) = total
      /\ \A i \in 1..total :
            body[i] = IF i <= emitted THEN old.body[i] ELSE bytes[i - emitted]
  <2> HIDE DEF bytes
  <2> QED BY <1>1, <1>3, Joined
<1>6. total \in Nat /\ done \in BOOLEAN /\ (done => total >= width + 2)
  <2>1. total \in Nat
    <3> HIDE DEF bytes, emitted
    <3> QED BY <1>1, <1>3
  <2>2. done \in BOOLEAN
    <3> HIDE DEF bytes, emitted, document
    <3> QED BY <1>1, <1>3, <1>4
  <2>3. done => total >= width + 2
    <3> HIDE DEF bytes, emitted, document
    <3> QED BY <1>4
  <2> QED BY <2>1, <2>2, <2>3
<1>7. next = [stream |-> [bytesEmitted |-> total, complete |-> done],
              body |-> body, mixed |-> old.mixed, open |-> old.open]
  <2> DEFINE stream == [bytesEmitted |-> total, complete |-> done]
  <2>1. next = [old EXCEPT !.stream = stream, !.body = body]
    OBVIOUS
  <2> HIDE DEF stream, body, next, old
  <2>2. next = [stream |-> stream, body |-> body, mixed |-> old.mixed,
                open |-> old.open]
    BY <1>1, <2>1 DEF Reply
  <2> QED BY <2>2 DEF stream
<1> HIDE DEF next, total, done, body, bytes, document
<1>8. /\ next \in Reply /\ next.open = old.open /\ next.mixed = old.mixed
      /\ next.stream.bytesEmitted = total /\ next.stream.complete = done
      /\ next.body = body
  BY <1>1, <1>5, <1>6, <1>7 DEF Reply
<1>9. ASSUME ~next.mixed PROVE Begun(next, width)
  <2>1. /\ emitted <= width + 2
        /\ \A i \in 1..emitted : old.body[i] = Document(width)[i]
    BY <1>1, <1>8, <1>9 DEF Begun
  <2>2. total <= width + 2 /\ (done => total = width + 2)
    <3>1. total <= width + 2
      BY <1>3, <2>1 DEF total
    <3> QED BY <1>1, <1>6, <3>1
  <2>3. ASSUME NEW i \in 1..total PROVE body[i] = Document(width)[i]
    <3>1. CASE i <= emitted
      BY <1>1, <1>5, <2>1, <3>1
    <3>2. CASE i > emitted
      <4> DEFINE j == i - emitted
      <4>1. j \in 1..Len(bytes) /\ emitted + j = i /\ ~(i <= emitted)
        BY <1>1, <1>3, <3>2 DEF total
      <4>2. body[i] = bytes[j]
        BY <1>5, <4>1
      <4> HIDE DEF j
      <4> QED BY <1>3, <2>1, <4>1, <4>2 DEF document
    <3> QED BY <1>1, <1>6, <3>1, <3>2
  <2> QED BY <1>8, <2>2, <2>3 DEF Begun
<1>10. /\ responses' \in [Reader -> Reply] /\ responses'[r] = next
       /\ \A q \in Reader : q # r => responses'[q] = responses[q]
  BY <1>1, <1>2, <1>8
<1>11. ASSUME NEW q \in Reader, responses'[q].open
       PROVE  /\ responses'[q].stream.bytesEmitted = Len(responses'[q].body)
              /\ ~responses'[q].mixed => Begun(responses'[q], width')
  <2>1. CASE q = r
    BY <1>2, <1>5, <1>8, <1>9, <1>10, <2>1
  <2>2. CASE q # r
    <3>1. responses'[q] = responses[q] /\ q \in Open
      BY <1>10, <1>11, <2>2 DEF Open
    <3> QED BY <1>2, <3>1 DEF RepliesFit
  <2> QED BY <2>1, <2>2
<1> QED BY <1>1, <1>2, <1>10, <1>11 DEF RepliesFit, Open

\* A response that is opened or closed, and the turn of the loop.
LEMMA Replying ==
    ASSUME RepliesFit,
           Loop \/ \E r \in Reader : HandleAPIStatus(r) \/ Close(r)
    PROVE  RepliesFit'
<1>1. /\ <<>> \in Seq(Character) /\ Closed \in Reply /\ ~Closed.open
      /\ Closed.stream.bytesEmitted = 0 /\ Closed.body = <<>> /\ ~Closed.mixed
      /\ ~Closed.stream.complete
  BY DEF Closed, Reply
<1>2. ASSUME NEW r \in Reader, Close(r) PROVE RepliesFit'
  <2>1. responses' = [responses EXCEPT ![r] = Closed] /\ UNCHANGED width
    BY <1>2 DEF Close, status
  <2> QED BY <1>1, <2>1 DEF RepliesFit, Open
<1>3. CASE Loop
  <2>1. UpdateRuntimeInfo /\ responses' = Mixed
    BY <1>3 DEF Loop
  <2>2. /\ width' \in Widths /\ Mixed \in [Reader -> Reply]
        /\ \A r \in Reader :
              /\ Mixed[r].open = responses[r].open
              /\ Mixed[r].open => /\ Mixed[r].mixed
                                  /\ Mixed[r].stream = responses[r].stream
                                  /\ Mixed[r].body = responses[r].body
    BY <2>1, Mixing
  <2> QED BY <2>1, <2>2 DEF RepliesFit, Open
<1>4. ASSUME NEW r \in Reader, HandleAPIStatus(r) PROVE RepliesFit'
  <2> DEFINE fresh == [Closed EXCEPT !.open = TRUE]
  <2>1. UpdateRuntimeInfo /\ responses' = [Mixed EXCEPT ![r] = fresh]
    BY <1>4 DEF HandleAPIStatus
  <2>2. /\ width' \in Widths /\ Mixed \in [Reader -> Reply]
        /\ \A q \in Reader :
              /\ Mixed[q].open = responses[q].open
              /\ Mixed[q].open => /\ Mixed[q].mixed
                                  /\ Mixed[q].stream = responses[q].stream
                                  /\ Mixed[q].body = responses[q].body
    BY <2>1, Mixing
  <2>3. /\ fresh \in Reply /\ fresh.stream.bytesEmitted = 0
        /\ fresh.body = <<>> /\ ~fresh.stream.complete
    BY <1>1 DEF Reply, Closed
  <2> HIDE DEF fresh
  <2>4. Begun(fresh, width')
    <3>1. width' \in Nat
      BY <2>2, DeviceStatusAssumption
    <3> DEFINE w == width'
    <3>2. w \in Nat
      BY <3>1
    <3> HIDE DEF w
    <3>3. Begun(fresh, w)
      BY <2>3, <3>2 DEF Begun
    <3> QED BY <3>3 DEF w
  <2>5. /\ responses' \in [Reader -> Reply] /\ responses'[r] = fresh
        /\ \A q \in Reader : q # r => responses'[q] = Mixed[q]
    BY <2>1, <2>2, <2>3
  <2>6. ASSUME NEW q \in Reader, responses'[q].open
        PROVE  /\ responses'[q].stream.bytesEmitted = Len(responses'[q].body)
               /\ ~responses'[q].mixed => Begun(responses'[q], width')
    <3>1. CASE q = r
      BY <2>3, <2>4, <2>5, <3>1
    <3>2. CASE q # r
      <4>1. responses'[q] = Mixed[q]
        BY <2>5, <3>2
      <4>2. q \in Open
        BY <2>2, <2>6, <4>1 DEF Open
      <4>3. responses[q].stream.bytesEmitted = Len(responses[q].body)
        BY <4>2 DEF RepliesFit
      <4> QED BY <2>2, <2>6, <4>1, <4>3
    <3> QED BY <3>1, <3>2
  <2> QED BY <2>2, <2>5, <2>6 DEF RepliesFit, Open
<1> QED BY <1>2, <1>3, <1>4

\* ... and over every step.
LEMMA RepliesStep == RepliesFit /\ [Next]_vars => RepliesFit'
<1> SUFFICES ASSUME RepliesFit, [Next]_vars PROVE RepliesFit'
  OBVIOUS
<1>1. CASE UNCHANGED <<width, responses>>
  BY <1>1 DEF RepliesFit, Open
<1>2. CASE Tick \/ LinkChanges \/ UNCHANGED vars
  BY <1>1, <1>2 DEF Tick, LinkChanges, vars, status
<1>3. ASSUME NEW r \in Reader, NEW n \in 1..MaxChunk, Chunk(r, n)
      PROVE  RepliesFit'
  BY <1>3, Chunking
<1>4. CASE Loop \/ \E r \in Reader : HandleAPIStatus(r) \/ Close(r)
  BY <1>4, Replying
<1> QED BY <1>2, <1>3, <1>4 DEF Next

\* QuietBodiesAreWhole: for any number of readers, any widths of the document
\* and any sizes of chunks, a response that no update came in between of is the
\* document.
THEOREM QuietBodies == Spec => []QuietBodiesAreWhole
<1>1. RepliesFit => QuietBodiesAreWhole
  <2> SUFFICES ASSUME RepliesFit, NEW r \in Open, Complete(r), ~responses[r].mixed
               PROVE  responses[r].body = Document(width)
    BY DEF QuietBodiesAreWhole
  <2> DEFINE body == responses[r].body
             document == Document(width)
  <2>1. responses[r] \in Reply /\ width \in Nat
    BY DeviceStatusAssumption DEF RepliesFit, Open
  <2>2. /\ body \in Seq(Character) /\ Len(body) = width + 2
        /\ \A i \in 1..(width + 2) : body[i] = document[i]
    BY <2>1 DEF RepliesFit, Begun, Complete, Reply
  <2>3. document \in Seq(Character) /\ Len(document) = width + 2
    BY <2>1, Documents
  <2> HIDE DEF body, document
  <2>4. /\ body = [i \in 1..Len(body) |-> body[i]]
        /\ document = [i \in 1..Len(document) |-> document[i]]
    BY <2>2, <2>3
  <2>5. body = document
    BY <2>2, <2>3, <2>4
  <2> QED BY <2>5 DEF body, document
<1> QED BY <1>1, RepliesInitially, RepliesStep, PTL DEF Spec
=============================================================================
