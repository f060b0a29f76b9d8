--------------------------- MODULE RtdoaTagProofs ---------------------------
(***************************************************************************)
(* Proofs about the sensors of the RTDoA tag, for any number of sensors    *)
(* and any pool of more than two blocks.                                   *)
(***************************************************************************)
EXTENDS RtdoaTag, FiniteSetTheorems, TLAPS

USE SensorsAssumption, PoolAssumption

LEMMA InitTypeOK == Init => TypeOK
<1> SUFFICES ASSUME Init PROVE TypeOK
  OBVIOUS
<1>1. queue = <<>> /\ lost = 0
  BY DEF Init
<1>2. queue \in Seq(Source) /\ Len(queue) + lost <= Pool
  BY <1>1
<1>3. /\ callout = "ticking" /\ at = "idle" /\ i = 1 /\ n = Fast
      /\ fields = {} /\ broken = {}
      /\ slot \in BOOLEAN /\ running \in BOOLEAN
      /\ charge = "enough" /\ voltage = "unknown"
  BY DEF Init
<1> QED
  BY <1>1, <1>2, <1>3 DEF TypeOK

\* rtdoa_local_send takes a block only if there is one.
LEMMA LocalSendFits ==
  ASSUME TypeOK, NEW s \in Source, local_send(s)
  PROVE  /\ queue' \in Seq(Source)
         /\ Len(queue') + lost <= Pool
         /\ queue' = queue \/ queue' = Append(queue, s)
         /\ Len(queue') = Len(queue) => queue_size >= Pool
<1>1. queue \in Seq(Source) /\ lost \in Nat /\ Len(queue) + lost <= Pool
  BY DEF TypeOK
<1>2. CASE queue_size < Pool
  <2>1. queue' = Append(queue, s)
    BY <1>2 DEF local_send
  <2>2. queue' \in Seq(Source) /\ Len(queue') = Len(queue) + 1
    BY <1>1, <2>1
  <2> QED
    BY <1>1, <1>2, <2>1, <2>2 DEF queue_size
<1>3. CASE ~(queue_size < Pool)
  <2>1. queue' = queue
    BY <1>3 DEF local_send
  <2> QED
    BY <1>1, <1>3, <2>1 DEF queue_size
<1> QED
  BY <1>2, <1>3

\* Nothing but the loss of a block and the restart changes how many are lost.
LEMMA NextTypeOK ==
  ASSUME TypeOK, [Next]_vars
  PROVE  TypeOK'
<1> USE DEF TypeOK
<1>1. CASE Expire
  BY <1>1 DEF Expire, world
<1>2. CASE SensorTimer
  BY <1>2 DEF SensorTimer, world
<1>3. CASE Read
  <2>1. i + 1 \in 1 .. Sensors + 1 /\ i \in 0 .. Sensors
    BY <1>3 DEF Read
  <2>2. fields' \subseteq 0 .. Sensors
    BY <1>3, <2>1 DEF Read
  <2> QED
    BY <1>3, <2>1, <2>2 DEF Read, world
<1>4. CASE ReadDone
  BY <1>4 DEF ReadDone, world
<1>5. CASE Check
  BY <1>5 DEF Check, world
<1>6. CASE SendImuOnly
  <2>1. queue' \in Seq(Source) /\ Len(queue') + lost <= Pool
    BY <1>6, LocalSendFits DEF SendImuOnly, Source
  <2> QED
    BY <1>6, <2>1 DEF SendImuOnly, world
<1>7. CASE Rearm
  BY <1>7 DEF Rearm, world
<1>8. CASE DrainQueue
  BY <1>8 DEF DrainQueue, world
<1>9. CASE Drain("drain", "idle") \/ Drain("lowDrain", "low")
  <2>1. CASE queue = <<>>
    BY <1>9, <2>1 DEF Drain, world
  <2>2. CASE queue # <<>>
    <3>0. queue' = Tail(queue)
      BY <1>9, <2>2 DEF Drain
    <3>1. queue' \in Seq(Source) /\ Len(queue') = Len(queue) - 1
      BY <2>2, <3>0
    <3>2. Len(queue') + lost <= Pool
      BY <3>1
    <3> QED
      BY <1>9, <2>2, <3>1, <3>2 DEF Drain, world
  <2> QED
    BY <2>1, <2>2
<1>10. ASSUME NEW usb \in BOOLEAN, ReadBattery(usb) PROVE TypeOK'
  <2>1. voltage' \in {"enough", "low"}
        \/ (voltage # "unknown" /\ voltage' = voltage)
    BY <1>10 DEF ReadBattery
  <2>2. fields' \subseteq 0 .. Sensors
    BY <1>10 DEF ReadBattery, Battery
  <2>3. at' \in {"low", "check"} /\ running' \in BOOLEAN
    BY <1>10 DEF ReadBattery
  <2> QED
    BY <1>10, <2>1, <2>2, <2>3 DEF ReadBattery, world
<1>11. CASE LowEvent
  BY <1>11 DEF LowEvent, world
<1>12. CASE LowCharged
  BY <1>12 DEF LowCharged, world
<1>13. CASE Reboot
  <2>1. queue' = <<>> /\ lost' = 0
    BY <1>13 DEF Reboot, Started
  <2>2. queue' \in Seq(Source) /\ Len(queue') + lost' <= Pool
    BY <2>1
  <2>3. callout' = "ticking" /\ at' = "idle" /\ i' = 1 /\ n' = Fast
        /\ fields' = {} /\ ~slot' /\ slot' \in BOOLEAN /\ running' \in BOOLEAN
        /\ voltage' = "unknown" /\ UNCHANGED world
    BY <1>13 DEF Reboot, Started
  <2> QED
    BY <2>1, <2>2, <2>3 DEF world
<1>14. CASE RtdoaSlot
  BY <1>14 DEF RtdoaSlot, mainVars, world
<1>15. CASE SlotSend
  <2>1. queue' \in Seq(Source) /\ Len(queue') + lost <= Pool
    BY <1>15, LocalSendFits DEF SlotSend, Source
  <2> QED
    BY <1>15, <2>1 DEF SlotSend, mainVars, world
<1>16. CASE RxPackage
  <2>1. CASE local_send("other") /\ UNCHANGED lost
    <3>1. queue' \in Seq(Source) /\ Len(queue') + lost <= Pool
      BY <2>1, LocalSendFits DEF Source
    <3> QED
      BY <1>16, <2>1, <3>1 DEF RxPackage, mainVars, world
  <2>2. CASE lost' = lost + 1 /\ UNCHANGED queue
    <3>1. lost' \in Nat /\ Len(queue') + lost' <= Pool
      BY <1>16, <2>2 DEF RxPackage, queue_size
    <3> QED
      BY <1>16, <2>2, <3>1 DEF RxPackage, mainVars, world
  <2> QED
    BY <1>16, <2>1, <2>2 DEF RxPackage
<1>17. CASE World
  BY <1>17 DEF World, mainVars
<1>18. CASE UNCHANGED vars
  BY <1>18 DEF vars, mainVars, world
<1> QED
  BY <1>1, <1>2, <1>3, <1>4, <1>5, <1>6, <1>7, <1>8, <1>9, <1>10, <1>11,
     <1>12, <1>13, <1>14, <1>15, <1>16, <1>17, <1>18 DEF Next, MainStep

\* The variables keep their types: the pool never holds more than its blocks,
\* those that are lost included.
THEOREM SensorTypeCorrect == Spec => []TypeOK
BY InitTypeOK, NextTypeOK, PTL DEF Spec

-----------------------------------------------------------------------------
\* low_battery_mode's loop never takes the sensors' event, inside which it runs.
THEOREM NeverNestedCorrect == Spec => []NeverNested
<1>1. Init => NeverNested
  BY DEF Init, NeverNested
<1>2. NeverNested /\ [Next]_vars => NeverNested'
  <2> SUFFICES ASSUME NeverNested, [Next]_vars PROVE NeverNested'
    OBVIOUS
  <2> USE DEF NeverNested
  <2>1. CASE Expire \/ SensorTimer \/ Read \/ ReadDone
    BY <2>1 DEF Expire, SensorTimer, Read, ReadDone
  <2>2. CASE Check \/ SendImuOnly \/ Rearm
    BY <2>2 DEF Check, SendImuOnly, Rearm
  <2>3. CASE DrainQueue \/ Drain("drain", "idle") \/ Drain("lowDrain", "low")
    BY <2>3 DEF DrainQueue, Drain
  <2>4. ASSUME NEW usb \in BOOLEAN, ReadBattery(usb) PROVE NeverNested'
    BY <2>4 DEF ReadBattery
  <2>5. CASE LowEvent \/ LowCharged \/ Reboot
    BY <2>5 DEF LowEvent, LowCharged, Reboot, Started
  <2>6. CASE RtdoaSlot \/ SlotSend \/ RxPackage \/ World \/ UNCHANGED vars
    BY <2>6 DEF RtdoaSlot, SlotSend, RxPackage, World, vars, mainVars
  <2> QED
    BY <2>1, <2>2, <2>3, <2>4, <2>5, <2>6 DEF Next, MainStep
<1> QED
  BY <1>1, <1>2, PTL DEF Spec

-----------------------------------------------------------------------------
\* TDMA is stopped for good: until the restart the main task is in
\* low_battery_mode.
StoppedInLow == ~running => at \in {"low", "lowDrain", "reboot"}

Awake == NeverNested /\ AwakeWhenIdle /\ StoppedInLow

\* low_battery_mode goes back to reading sensors only for an event that is never
\* there (NeverNested); else the tag would read them with TDMA stopped.
LEMMA NextAwake ==
  ASSUME Awake, [Next]_vars
  PROVE  AwakeWhenIdle' /\ StoppedInLow'
<1> USE DEF Awake, NeverNested, AwakeWhenIdle, StoppedInLow
<1>1. CASE Expire \/ SensorTimer \/ Read \/ ReadDone
  BY <1>1 DEF Expire, SensorTimer, Read, ReadDone
<1>2. CASE Check \/ SendImuOnly \/ Rearm
  BY <1>2 DEF Check, SendImuOnly, Rearm
<1>3. CASE DrainQueue \/ Drain("drain", "idle") \/ Drain("lowDrain", "low")
  BY <1>3 DEF DrainQueue, Drain
<1>4. ASSUME NEW usb \in BOOLEAN, ReadBattery(usb)
      PROVE  AwakeWhenIdle' /\ StoppedInLow'
  <2>1. at' \in {"low", "check"} /\ (at' # "low" => running')
    BY <1>4 DEF ReadBattery
  <2> QED
    BY <2>1
<1>5. CASE LowEvent \/ LowCharged
  BY <1>5 DEF LowEvent, LowCharged
<1>6. CASE Reboot
  BY <1>6 DEF Reboot, Started
<1>7. CASE RtdoaSlot \/ SlotSend \/ RxPackage \/ World \/ UNCHANGED vars
  BY <1>7 DEF RtdoaSlot, SlotSend, RxPackage, World, vars, mainVars
<1> QED
  BY <1>1, <1>2, <1>3, <1>4, <1>5, <1>6, <1>7 DEF Next, MainStep

\* However sensors, battery and queue turn out, a tag that waits for events has its
\* sensors' callout armed and TDMA running.
THEOREM AwakeWhenIdleCorrect == Spec => []AwakeWhenIdle
<1>1. Init => AwakeWhenIdle /\ StoppedInLow
  BY DEF Init, AwakeWhenIdle, StoppedInLow
<1>2. NeverNested /\ AwakeWhenIdle /\ StoppedInLow /\ [Next]_vars
        => AwakeWhenIdle' /\ StoppedInLow'
  BY NextAwake DEF Awake
<1> QED
  BY NeverNestedCorrect, <1>1, <1>2, PTL DEF Spec

-----------------------------------------------------------------------------
\* The places of the IMU's packages in the queue.
Imus == {k \in DOMAIN queue : queue[k] = "imu"}

\* The throttle: at most two of the IMU's packages wait when another is sent.
Throttled == at = "send" => Cardinality(Imus) <= 2

\* A package is the IMU's or somebody else's.
LEMMA QueueSplit ==
  ASSUME TypeOK
  PROVE  /\ IsFiniteSet(Imus)
         /\ Cardinality(Imus) \in Nat
         /\ Others = Len(queue) - Cardinality(Imus)
         /\ Cardinality(Imus) <= Len(queue)
<1>1. queue \in Seq(Source) /\ DOMAIN queue = 1 .. Len(queue)
      /\ Len(queue) \in Nat
  BY DEF TypeOK
<1>2. IsFiniteSet(DOMAIN queue) /\ Cardinality(DOMAIN queue) = Len(queue)
  BY <1>1, FS_Interval
<1>3. Imus \subseteq DOMAIN queue
  BY DEF Imus
<1>4. /\ IsFiniteSet(Imus) /\ Cardinality(Imus) <= Cardinality(DOMAIN queue)
  BY <1>2, <1>3, FS_Subset
<1>5. {k \in DOMAIN queue : queue[k] = "other"} = DOMAIN queue \ Imus
  BY <1>1 DEF Imus, Source
<1>6. Others = Cardinality(DOMAIN queue) - Cardinality(DOMAIN queue \cap Imus)
  BY <1>2, <1>5, FS_Difference DEF Others
<1>7. DOMAIN queue \cap Imus = Imus
  BY <1>3
<1>8. Cardinality(Imus) \in Nat
  BY <1>4, FS_CardinalityType
<1> QED
  BY <1>2, <1>4, <1>6, <1>7, <1>8

\* Somebody else's package leaves the IMU's where they are.
LEMMA OtherKeepsImus ==
  ASSUME TypeOK, local_send("other") \/ UNCHANGED queue
  PROVE  Imus' = Imus
<1>1. queue \in Seq(Source)
  BY DEF TypeOK
<1>2. CASE queue' = queue
  BY <1>2 DEF Imus
<1>3. CASE queue' = Append(queue, "other")
  <2>1. /\ DOMAIN queue' = 1 .. Len(queue) + 1 /\ DOMAIN queue = 1 .. Len(queue)
        /\ Len(queue) \in Nat
        /\ \A k \in 1 .. Len(queue) : queue'[k] = queue[k]
        /\ queue'[Len(queue) + 1] = "other"
    BY <1>1, <1>3
  <2> QED
    BY <2>1 DEF Imus
<1> QED
  BY <1>2, <1>3 DEF local_send

LEMMA NextThrottled ==
  ASSUME TypeOK, Throttled, [Next]_vars
  PROVE  Throttled'
<1> SUFFICES ASSUME at' = "send" PROVE Cardinality(Imus') <= 2
  BY DEF Throttled
<1>1. CASE Check
  <2>1. queue_size <= 2 /\ UNCHANGED queue
    BY <1>1 DEF Check, queue_size, TypeOK
  <2>2. Len(queue) \in Nat /\ Len(queue) <= 2
    BY <2>1 DEF queue_size, TypeOK
  <2>3. Imus' = Imus
    BY <2>1 DEF Imus
  <2> QED
    BY <2>2, <2>3, QueueSplit
<1>2. CASE SlotSend \/ RxPackage
  <2>1. at = "send" /\ (local_send("other") \/ UNCHANGED queue)
    BY <1>2 DEF SlotSend, RxPackage, mainVars
  <2> QED
    BY <2>1, OtherKeepsImus DEF Throttled
<1>3. CASE Expire \/ RtdoaSlot \/ World \/ UNCHANGED vars
  <2>1. at = "send" /\ UNCHANGED queue
    BY <1>3 DEF Expire, RtdoaSlot, World, vars, mainVars
  <2>2. Imus' = Imus
    BY <2>1 DEF Imus
  <2> QED
    BY <2>1, <2>2 DEF Throttled
<1>4. ASSUME MainStep, ~Check PROVE FALSE
  <2>1. CASE SensorTimer \/ Read \/ ReadDone \/ SendImuOnly \/ Rearm
    BY <2>1 DEF SensorTimer, Read, ReadDone, SendImuOnly, Rearm
  <2>2. CASE DrainQueue \/ Drain("drain", "idle") \/ Drain("lowDrain", "low")
    BY <2>2 DEF DrainQueue, Drain
  <2>3. CASE LowEvent \/ LowCharged \/ Reboot
    BY <2>3 DEF LowEvent, LowCharged, Reboot, Started
  <2>4. ASSUME NEW usb \in BOOLEAN, ReadBattery(usb) PROVE FALSE
    BY <2>4 DEF ReadBattery
  <2> QED
    BY <1>4, <2>1, <2>2, <2>3, <2>4 DEF MainStep
<1> QED
  BY <1>1, <1>2, <1>3, <1>4 DEF Next

-----------------------------------------------------------------------------
Kept ==
  \/ fields \subseteq fields'
  \/ Len(queue') > Len(queue)
  \/ at = "reboot"
  \/ Others + lost >= Pool - 2

\* A package that finds no block finds at most two of the IMU's in the queue.
LEMMA StepKeepsReadings ==
  ASSUME TypeOK, Throttled, [Next]_vars
  PROVE  Kept
<1>1. CASE SendImuOnly
  <2>1. Cardinality(Imus) <= 2
    BY <1>1 DEF SendImuOnly, Throttled
  <2>2. CASE queue_size < Pool
    <3>1. queue' = Append(queue, "imu") /\ queue \in Seq(Source)
      BY <1>1, <2>2 DEF SendImuOnly, local_send, TypeOK
    <3>2. Len(queue') > Len(queue)
      BY <3>1
    <3> QED
      BY <3>2 DEF Kept
  <2>3. CASE ~(queue_size < Pool)
    <3>1. Len(queue) \in Nat /\ lost \in Nat
      BY DEF TypeOK
    <3>2. Len(queue) + lost >= Pool
      BY <2>3, <3>1 DEF queue_size
    <3>3. Others + lost >= Pool - 2
      BY <2>1, <3>1, <3>2, QueueSplit
    <3> QED
      BY <3>3 DEF Kept
  <2> QED
    BY <2>2, <2>3
<1>2. CASE Reboot
  BY <1>2 DEF Reboot, Kept
<1>3. ASSUME [Next]_vars, ~SendImuOnly, ~Reboot PROVE fields \subseteq fields'
  <2>1. CASE Expire \/ SensorTimer \/ Read \/ ReadDone \/ Check \/ Rearm
    BY <2>1 DEF Expire, SensorTimer, Read, ReadDone, Check, Rearm
  <2>2. CASE DrainQueue \/ Drain("drain", "idle") \/ Drain("lowDrain", "low")
    BY <2>2 DEF DrainQueue, Drain
  <2>3. CASE LowEvent \/ LowCharged
    BY <2>3 DEF LowEvent, LowCharged
  <2>4. ASSUME NEW usb \in BOOLEAN, ReadBattery(usb)
        PROVE  fields \subseteq fields'
    BY <2>4 DEF ReadBattery
  <2>5. CASE RtdoaSlot \/ SlotSend \/ RxPackage \/ World \/ UNCHANGED vars
    BY <2>5 DEF RtdoaSlot, SlotSend, RxPackage, World, vars, mainVars
  <2> QED
    BY <1>3, <2>1, <2>2, <2>3, <2>4, <2>5 DEF Next, MainStep
<1> QED
  BY <1>1, <1>2, <1>3 DEF Kept

\* A reading in the package stays there until the package is queued, unless
\* others fill the pool between the throttle's look at it and the call.
THEOREM NoReadingForgottenCorrect == Spec => NoReadingForgotten
<1>1. Init => TypeOK /\ Throttled
  BY InitTypeOK DEF Init, Throttled
<1>2. TypeOK /\ Throttled /\ [Next]_vars => TypeOK' /\ Throttled' /\ Kept
  BY NextTypeOK, NextThrottled, StepKeepsReadings
<1>3. TypeOK /\ Throttled /\ [Next]_vars => [Kept]_vars
  BY <1>2
<1> QED
  BY <1>1, <1>2, <1>3, PTL DEF Spec, NoReadingForgotten, Kept
=============================================================================
