-------------------------- MODULE RuntimeTracking --------------------------
(***************************************************************************)
(* What DeviceStatusManager keeps from one update of the status to the     *)
(* next: the window of heap samples and the trend over it, the extremes of *)
(* the heap, and the losses of the Wi-Fi and broker connections.  An       *)
(* update comes with a status request or with the loop, which does not get *)
(* there while the Wi-Fi is not usable: the connections may come and go    *)
(* any number of times between two of them.                                *)
(***************************************************************************)
EXTENDS TimeUtils, Sequences

CONSTANTS
    SampleCount,    \* heapSampleCount, 10
    Interval,       \* heapSampleInterval, 30 s
    TrendMax        \* 2147483647

VARIABLES
    heapHistory,        \* the ring of samples
    heapHistoryNext,
    heapHistoryLength,
    lastHeapSampleTime, \* 0 for none
    trend,              \* freeHeapTrendPerMinute
    highestFreeHeap,    \* 0 for none
    lowestFreeHeap,     \* 0 for none
    lastConnected,      \* lastWiFiConnected, lastMQTTConnected
    disconnections,     \* the counts of losses of the two
    samples,            \* history: every sample taken
    live,               \* WiFi.isConnected, DeviceFrameworkMQTT::isConnected
    losses              \* history: how often the two were really lost

heapVars == <<heapHistory, heapHistoryNext, heapHistoryLength,
              lastHeapSampleTime, trend, samples>>
linkVars == <<lastConnected, disconnections>>
liveVars == <<live, losses>>
trackingVars == <<heapVars, highestFreeHeap, lowestFreeHeap, linkVars, liveVars>>

Sane == /\ SaneClock /\ SampleCount \in Nat \ {0}
        /\ Interval \in Nat /\ TrendMax \in Nat

Link == {"wifi", "mqtt"}
Index == 0..(SampleCount - 1)
Sample == [freeHeap : Nat, timestamp : Stamp]

-----------------------------------------------------------------------------
\* The change of the heap between two samples, per minute: C's division
\* drops the fraction, and the result is clamped to 32 bits.
TrendOf(newest, oldest) ==
    LET elapsed == SafeTimeDifference(newest.timestamp, oldest.timestamp)
        change == 60000 * (newest.freeHeap - oldest.freeHeap)
        quotient == IF change >= 0 THEN change \div elapsed
                    ELSE -((-change) \div elapsed)
    IN  IF elapsed = 0 THEN 0
        ELSE IF quotient > TrendMax THEN TrendMax
        ELSE IF quotient < -TrendMax - 1 THEN -TrendMax - 1
        ELSE quotient

\* initializeRuntimeTracking.
TrackingInit ==
    /\ heapHistory = [i \in Index |-> [freeHeap |-> 0, timestamp |-> 0]]
    /\ heapHistoryNext = 0 /\ heapHistoryLength = 0
    /\ lastHeapSampleTime = 0 /\ trend = 0
    /\ highestFreeHeap = 0 /\ lowestFreeHeap = 0
    /\ live \in [Link -> BOOLEAN] /\ lastConnected = live
    /\ disconnections = [l \in Link |-> 0]
    /\ losses = [l \in Link |-> 0]
    /\ samples = << >>

\* A connection comes or goes.
ConnectionChanges(l) ==
    /\ live' = [live EXCEPT ![l] = ~live[l]]
    /\ losses' = [losses EXCEPT ![l] = IF live[l] THEN @ + 1 ELSE @]
    /\ UNCHANGED <<heapVars, highestFreeHeap, lowestFreeHeap, linkVars>>

\* trackConnectionChanges: of the two connections, what was there at the last
\* update and is not now is counted.
TrackConnectionChanges ==
    /\ lastConnected' = live
    /\ disconnections' =
            [l \in Link |-> IF lastConnected[l] /\ ~live[l]
                            THEN disconnections[l] + 1
                            ELSE disconnections[l]]
    /\ UNCHANGED liveVars

\* updateRuntimeMetrics, up to the extremes.
Extremes(heap) ==
    /\ highestFreeHeap' = IF highestFreeHeap = 0 \/ heap > highestFreeHeap
                          THEN heap ELSE highestFreeHeap
    /\ lowestFreeHeap' = IF lowestFreeHeap = 0 \/ heap < lowestFreeHeap
                         THEN heap ELSE lowestFreeHeap

\* The rest of updateRuntimeMetrics: a sample when the interval is over, and
\* the trend from the oldest of a full window to it.
TakeSample(heap, now) ==
    LET sample == [freeHeap |-> heap, timestamp |-> now]
        full == heapHistoryLength' = SampleCount
    IN  IF /\ lastHeapSampleTime # 0
           /\ ~HasTimeElapsed(now, lastHeapSampleTime, Interval)
        THEN UNCHANGED heapVars
        ELSE /\ lastHeapSampleTime' = now
             /\ heapHistory' = [heapHistory EXCEPT ![heapHistoryNext] = sample]
             /\ heapHistoryLength' = IF heapHistoryLength < SampleCount
                                     THEN heapHistoryLength + 1
                                     ELSE heapHistoryLength
             /\ heapHistoryNext' = IF heapHistoryNext + 1 = SampleCount
                                   THEN 0 ELSE heapHistoryNext + 1
             /\ trend' = IF full
                         THEN TrendOf(sample, heapHistory'[heapHistoryNext'])
                         ELSE 0
             /\ samples' = Append(samples, sample)

\* updateRuntimeInfo, at any time later.
TrackRuntimeInfo(heap, now) ==
    /\ TrackConnectionChanges
    /\ Extremes(heap)
    /\ TakeSample(heap, now)

TrackingNext ==
    \/ \E heap \in Nat, now \in Stamp : TrackRuntimeInfo(heap, now)
    \/ \E l \in Link : ConnectionChanges(l)

TrackingSpec == TrackingInit /\ [][TrackingNext]_trackingVars

-----------------------------------------------------------------------------
TrackingTypeOK ==
    /\ heapHistory \in [Index -> Sample]
    /\ heapHistoryNext \in Index
    /\ heapHistoryLength \in 0..SampleCount
    /\ samples \in Seq(Sample)
    /\ highestFreeHeap \in Nat /\ lowestFreeHeap \in Nat
    /\ lastConnected \in [Link -> BOOLEAN]
    /\ disconnections \in [Link -> Nat]
    /\ live \in [Link -> BOOLEAN]
    /\ losses \in [Link -> Nat]

\* The trend is the change from the sample taken SampleCount - 1 samples ago
\* to the last one, across every turn of the ring; before there are as many,
\* nothing is said.
TrendIsOverTheWindow ==
    trend = IF Len(samples) < SampleCount THEN 0
            ELSE TrendOf(samples[Len(samples)],
                         samples[(Len(samples) - SampleCount) + 1])

\* No loss is counted that did not happen, nor one of them twice.  Those that
\* begin and end between two updates are not counted.
CountedLossesAreReal ==
    \A l \in Link : disconnections[l] <= losses[l]
=============================================================================
