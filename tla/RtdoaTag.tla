------------------------------ MODULE RtdoaTag ------------------------------
(***************************************************************************)
(* The sensors of the RTDoA tag, apps/rtdoa_tag/src/main.c, and the local  *)
(* side of the backhaul that takes their readings to the console.          *)
(*                                                                         *)
(* The main task reads the sensors into the IMU package when its callout   *)
(* expires, looks after the battery, queues the package and prints what is *)
(* queued; the slot task queues results at any moment, and the radio what  *)
(* other nodes send.  All share one pool of memory blocks, which the radio *)
(* side can lose (see RtdoaBackhaul).  A package is one block, and is      *)
(* known by where it comes from.                                           *)
(***************************************************************************)
EXTENDS Integers, Sequences, FiniteSets

CONSTANTS
  Sensors,    \* the number of sensors, in the order they are read
  Fast,       \* those read in every round; the others have at most 20 Hz
  Pool        \* RTDOABH_NUM_MBUFS

ASSUME SensorsAssumption == Sensors \in Nat \ {0} /\ Fast \in 1 .. Sensors
ASSUME PoolAssumption == Pool \in Nat \ {0, 1, 2}

Battery == 0    \* the battery's field of the package

VARIABLES
  callout,    \* sensor_callout: not armed, ticking, or its event queued
  at,         \* where the main task is
  i, n,       \* the sensor it reads, and the last of this round
  fields,     \* the fields of g_result_pkg_imu that are set
  queue,      \* rxpkt_q
  lost,       \* blocks lost for good
  slot,       \* the slot task's result is about to be queued
  running,    \* TDMA runs
  broken,     \* the sensors that cannot be read now
  charge,     \* the battery: enough to start with, or too little to go on
  voltage     \* g_battery_voltage against 2.9 V; "unknown" is the initial 5.1

mainVars == <<callout, at, i, n, fields, voltage>>
world == <<broken, charge>>
vars == <<mainVars, queue, lost, slot, running, world>>

Source == {"imu", "other"}

TypeOK ==
  /\ callout \in {"idle", "ticking", "queued"}
  /\ at \in {"idle", "drain", "read", "battery", "check", "send", "rearm",
             "low", "lowDrain", "reboot"}
  /\ i \in 1 .. Sensors + 1 /\ n \in {Fast, Sensors}
  /\ fields \subseteq 0 .. Sensors
  /\ queue \in Seq(Source)
  /\ lost \in Nat
  /\ Len(queue) + lost <= Pool
  /\ slot \in BOOLEAN /\ running \in BOOLEAN
  /\ broken \subseteq 1 .. Sensors
  /\ charge \in {"enough", "low"}
  /\ voltage \in {"unknown", "enough", "low"}

\* What main leaves, also after a restart.
Started ==
  /\ callout' = "ticking"
  /\ at' = "idle"
  /\ i' = 1 /\ n' = Fast
  /\ fields' = {}
  /\ queue' = <<>> /\ lost' = 0
  /\ slot' = FALSE /\ running' = TRUE
  /\ voltage' = "unknown"

Init ==
  /\ callout = "ticking"
  /\ at = "idle"
  /\ i = 1 /\ n = Fast
  /\ fields = {}
  /\ queue = <<>> /\ lost = 0
  /\ slot = FALSE /\ running = TRUE
  /\ broken = {}
  /\ charge = "enough"
  /\ voltage = "unknown"

-----------------------------------------------------------------------------
(***************************************************************************)
(* The pool and the queue.                                                 *)
(***************************************************************************)

\* rtdoa_backhaul_queue_size counts the blocks that are not free.
queue_size == Len(queue) + lost

\* rtdoa_local_send: without a block it fails, which nobody looks at.
local_sendAssert(source) == queue' = Append(queue, source)
local_send(source) ==
  queue' = IF queue_size < Pool THEN Append(queue, source) ELSE queue

\* process_rx_data_queue prints and frees until the queue is empty.
Drain(here, there) ==
  /\ at = here
  /\ IF queue = <<>>
       THEN at' = there /\ UNCHANGED queue
       ELSE queue' = Tail(queue) /\ UNCHANGED at
  /\ UNCHANGED <<callout, i, n, fields, voltage, lost, slot, running, world>>

DrainQueue ==
  /\ at = "idle" /\ queue # <<>>
  /\ at' = "drain"
  /\ UNCHANGED <<callout, i, n, fields, voltage, queue, lost, slot, running,
                 world>>

-----------------------------------------------------------------------------
(***************************************************************************)
(* sensor_timer_ev_cb                                                      *)
(***************************************************************************)

Expire ==
  /\ callout = "ticking"
  /\ callout' = "queued"
  /\ UNCHANGED <<at, i, n, fields, voltage, queue, lost, slot, running, world>>

SensorTimerArmed ==
  /\ at = "idle" /\ callout = "queued"
  /\ callout' = "ticking"
  /\ at' = "read"
  /\ n' \in {Fast, Sensors}
  /\ UNCHANGED <<i, fields, voltage, queue, lost, slot, running, world>>
SensorTimer ==
  /\ at = "idle" /\ callout = "queued"
  /\ callout' = "idle"
  /\ at' = "read"
  /\ n' \in {Fast, Sensors}
  /\ UNCHANGED <<i, fields, voltage, queue, lost, slot, running, world>>

\* A sensor that cannot be read is read again, without limit: no step.  One that
\* is not there, or has no valid data, leaves its field alone.
Read ==
  /\ at = "read" /\ i <= n
  /\ i \notin broken
  /\ fields' \in {fields, fields \cup {i}}
  /\ i' = i + 1
  /\ UNCHANGED <<callout, at, n, voltage, queue, lost, slot, running, world>>

\* Once a second it is the battery's turn.  i and the list are local variables.
ReadDone ==
  /\ at = "read" /\ i > n
  /\ at' \in {"battery", "check"}
  /\ i' = 1 /\ n' = Fast
  /\ UNCHANGED <<callout, fields, voltage, queue, lost, slot, running,
                 world>>

\* The first sample stands for itself, later ones are averaged with what was
\* measured before; power on USB keeps the tag going (usb_mv).
ReadBatteryRunning(usb) ==
  /\ at = "battery"
  /\ voltage' \in (IF voltage = "unknown" THEN {charge} ELSE {charge, voltage})
  /\ fields' = fields \cup {Battery}
  /\ at' = IF voltage' = "low" /\ ~usb THEN "low" ELSE "check"
  /\ UNCHANGED <<callout, i, n, queue, lost, slot, running, world>>
ReadBattery(usb) ==
  /\ at = "battery"
  /\ voltage' \in (IF voltage = "unknown" THEN {charge} ELSE {charge, voltage})
  /\ fields' = fields \cup {Battery}
  /\ at' = IF voltage' = "low" /\ ~usb THEN "low" ELSE "check"
  /\ UNCHANGED <<callout, i, n, queue, lost, slot, world>>
  /\ running' = (running /\ at' # "low")

\* "if (rtdoa_backhaul_queue_size()>2) goto early_exit;"
CheckNothing ==
  /\ at = "check"
  /\ at' = "send"
  /\ UNCHANGED <<callout, i, n, fields, voltage, queue, lost, slot, running,
                 world>>
Check ==
  /\ at = "check"
  /\ at' = IF queue_size > 2 THEN "rearm" ELSE "send"
  /\ UNCHANGED <<callout, i, n, fields, voltage, queue, lost, slot, running,
                 world>>

\* rtdoa_backhaul_send_imu_only clears the fields, whether the package could be
\* queued or not.
SendImuOnly ==
  /\ at = "send"
  /\ local_send("imu")
  /\ fields' = {}
  /\ at' = "rearm"
  /\ UNCHANGED <<callout, i, n, voltage, lost, slot, running, world>>

RearmUnlessFull ==
  /\ at = "rearm"
  /\ callout' = IF queue_size > 2 THEN "idle" ELSE "ticking"
  /\ at' = "idle"
  /\ UNCHANGED <<i, n, fields, voltage, queue, lost, slot, running, world>>
Rearm ==
  /\ at = "rearm"
  /\ callout' = "ticking"
  /\ at' = "idle"
  /\ UNCHANGED <<i, n, fields, voltage, queue, lost, slot, running, world>>

-----------------------------------------------------------------------------
(***************************************************************************)
(* low_battery_mode, called in the middle of sensor_timer_ev_cb.  The      *)
(* radio and TDMA have been stopped.                                       *)
(***************************************************************************)

\* The events of the main task are run from here: the queue's, and the sensors'
\* if there is one.
LowEvent ==
  /\ at = "low"
  /\ at' = IF callout = "queued" THEN "read" ELSE "lowDrain"
  /\ callout' = IF callout = "queued" THEN "idle" ELSE callout
  /\ UNCHANGED <<i, n, fields, voltage, queue, lost, slot, running, world>>

\* The battery is asked between them; power on USB is not (usb_mv is 0).
LowCharged ==
  /\ at = "low"
  /\ charge = "enough"
  /\ at' = "reboot"
  /\ UNCHANGED <<callout, i, n, fields, voltage, queue, lost, slot, running,
                 world>>

\* hal_system_reset
Reboot ==
  /\ at = "reboot"
  /\ Started
  /\ UNCHANGED world

-----------------------------------------------------------------------------
(***************************************************************************)
(* The slot task and the radio.                                            *)
(***************************************************************************)

\* rtdoa_slot_timer_cb listens to the anchors, unless CCP is busy,
RtdoaSlot ==
  /\ running /\ ~slot
  /\ slot' = TRUE
  /\ UNCHANGED <<mainVars, queue, lost, running, world>>

\* and queues the result (rtdoa_backhaul_send), unless CCP is busy by then.
SlotSend ==
  /\ slot
  /\ slot' = FALSE
  /\ local_send("other") \/ UNCHANGED queue
  /\ UNCHANGED <<mainVars, lost, running, world>>

\* rx_complete_cb queues a package of another node, or loses its block.
RxPackage ==
  /\ running /\ queue_size < Pool
  /\ \/ local_send("other") /\ UNCHANGED lost
     \/ lost' = lost + 1 /\ UNCHANGED queue
  /\ UNCHANGED <<mainVars, slot, running, world>>

\* Sensors fail and recover; the battery is used up and charged.
World ==
  /\ broken' \in SUBSET (1 .. Sensors)
  /\ charge' \in {"enough", "low"}
  /\ UNCHANGED <<mainVars, queue, lost, slot, running>>

-----------------------------------------------------------------------------
MainStep ==
  \/ SensorTimer \/ Read \/ ReadDone \/ Check \/ SendImuOnly \/ Rearm
  \/ DrainQueue \/ Drain("drain", "idle") \/ Drain("lowDrain", "low")
  \/ \E usb \in BOOLEAN : ReadBattery(usb)
  \/ LowEvent \/ LowCharged \/ Reboot

Next ==
  Expire \/ MainStep \/ RtdoaSlot \/ SlotSend \/ RxPackage \/ World

Spec == Init /\ [][Next]_vars

\* Timers expire and both tasks go on.  The main task takes its events in the
\* order they come, so neither the callout's nor the queue's waits for ever; the
\* battery is asked again and again in low_battery_mode.
FairSpec ==
  /\ Spec
  /\ WF_vars(Expire)
  /\ WF_vars(SlotSend)
  /\ WF_vars(MainStep)
  /\ SF_vars(SensorTimer)
  /\ SF_vars(DrainQueue)
  /\ SF_vars(LowCharged)

-----------------------------------------------------------------------------
Others == Cardinality({k \in DOMAIN queue : queue[k] = "other"})

\* The readings wait for a place in the queue: one that is in the package stays
\* there until the package is queued.  It is lost only when the packages of
\* others and lost blocks have filled the pool up to the two places that the
\* throttle grants the IMU, between the check and the call.
NoReadingForgotten ==
  [][fields \subseteq fields'
     \/ Len(queue') > Len(queue)
     \/ at = "reboot"
     \/ Others + lost >= Pool - 2]_vars

\* low_battery_mode runs the main task's events from inside one: the sensors'
\* event is never among them, since the callout is armed in the end only.
NeverNested == at \notin {"idle", "drain"} => callout = "idle"

\* sensor_timer_ev_cb comes back to the event queue whether its package was sent or
\* held back, but never from low_battery_mode, which stops TDMA and runs the queue
\* itself: a tag that waits for events has its sensors' callout armed and TDMA
\* running.
AwakeWhenIdle == at \in {"idle", "drain"} => callout # "idle" /\ running

\* Readings keep coming while the sensors and the battery work, nobody else
\* queues packages and at most two blocks have been lost.
ImuFlows ==
  /\ <>[](broken = {} /\ lost <= 2 /\ charge = "enough" /\ voltage # "low")
  /\ <>[][~RtdoaSlot /\ ~RxPackage]_vars
  => []<>(at = "send")

\* A tag that has stopped for want of power restarts once the battery has been
\* charged, with its radio and sensors.
RebootsWhenCharged ==
  <>[](charge = "enough") => (at = "low" ~> at = "idle" /\ running)
=============================================================================
