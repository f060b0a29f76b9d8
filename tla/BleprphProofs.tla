--------------------------- MODULE BleprphProofs ---------------------------
(***************************************************************************)
(* Proofs about the Bluetooth peripheral, however many events wait for the *)
(* host task: ble_is_connected settles to the truth, and the node is       *)
(* silent only after a failed start of advertising or ble_stop.            *)
(***************************************************************************)
EXTENDS Bleprph, TLAPS

N == Len(events)

\* The events that leave a connection, and those that come out of one.
Leaves(e) == e \in {"connect", "update"}
From(e) == e \in {"disconnect", "update"}

Resetting == N > 0 /\ events[1] = "reset"

\* A failure of the controller is reported before anything else.
ResetFirst == \A k \in 1 .. N : events[k] = "reset" => k = 1

\* The events that wait follow from one another, the first one from what the
\* host knows, and the state of the controller from the last one.
Consistent ==
  \/ Resetting
  \/ /\ N = 0 => (attached = (link = "connected"))
     /\ N > 0 => /\ attached = From(events[1])
                 /\ Leaves(events[N]) = (link = "connected")
     /\ \A k \in 1 .. N - 1 : Leaves(events[k]) = From(events[k + 1])

\* Out of sync there is nothing on the air and nothing to report, and nothing that
\* excuses the node's silence: the right side of ResetRevives is yet to come.
OutOfSync ==
  /\ ~synced => N = 0 /\ link = "off" /\ ~attached /\ ~silenced
  /\ at = "reset" => ~synced

\* The flag is that of the host's connection, but for the time between the
\* disconnect and the end of its handler.
FlagFollows ==
  /\ attached => connected = 1 /\ at # "clear" /\ resume # "clear"
  /\ ~attached /\ connected = 1
       => at = "clear" \/ (at = "advertise" /\ resume = "clear")
  /\ at = "reset" => connected = 0
  /\ at # "advertise" => resume = "idle"

\* The controller has stopped advertising: the start is due, or its event is.
Ends(e) == e \in {"failed", "disconnect", "complete"}
StartDue ==
  synced /\ link = "off" /\ ~silenced
    => at = "advertise" \/ Resetting \/ (N > 0 /\ Ends(events[N]))

IInv == TypeOK /\ ResetFirst /\ Consistent /\ OutOfSync /\ FlagFollows
          /\ StartDue

LEMMA InitIInv == Init => IInv
<1> SUFFICES ASSUME Init PROVE IInv
  OBVIOUS
<1>1. N = 0 /\ ~Resetting
  BY DEF Init, N, Resetting
<1>2. events \in Seq(Event)
  BY DEF Init
<1>3. TypeOK
  BY <1>2 DEF Init, TypeOK
<1>4. ResetFirst /\ (\A k \in 1 .. N - 1 : FALSE)
  BY <1>1 DEF ResetFirst
<1>5. Consistent
  <2>1. attached = FALSE /\ link = "off"
    BY DEF Init
  <2>2. attached = (link = "connected")
    BY <2>1
  <2> QED
    BY <1>1, <1>4, <2>2 DEF Consistent
<1>6. OutOfSync /\ FlagFollows /\ StartDue
  BY <1>1 DEF Init, OutOfSync, FlagFollows, StartDue
<1> QED
  BY <1>3, <1>4, <1>5, <1>6 DEF IInv

-----------------------------------------------------------------------------
\* What an event at the end of the queue does to the invariant.
LEMMA ReportKeeps ==
  ASSUME IInv, NEW from, NEW to \in {"off", "advertising", "connected"},
         NEW e \in Event, Report(from, to, e),
         from # "off", e # "reset",
         From(e) = (from = "connected"), Leaves(e) = (to = "connected"),
         to = "off" => Ends(e)
  PROVE  IInv'
<1>1. /\ events \in Seq(Event) /\ events' = Append(events, e)
      /\ link = from /\ link' = to /\ UNCHANGED host
  BY DEF IInv, TypeOK, Report
<1>2. N \in Nat /\ N' = N + 1
  BY <1>1 DEF N
<1>3. events'[N'] = e /\ \A k \in 1 .. N : events'[k] = events[k]
  BY <1>1, <1>2 DEF N
<1>4. TypeOK'
  BY <1>1 DEF IInv, TypeOK, host
<1>5. ResetFirst'
  BY <1>2, <1>3 DEF IInv, ResetFirst
<1>6. Resetting => Resetting'
  BY <1>2, <1>3 DEF Resetting
<1>7. Consistent'
  <2>1. CASE Resetting
    BY <2>1, <1>6 DEF Consistent
  <2>2. CASE ~Resetting /\ N = 0
    BY <1>1, <1>2, <1>3, <2>2 DEF IInv, Consistent, host
  <2>3. CASE ~Resetting /\ N > 0
    <3>1. /\ attached' = From(events'[1])
          /\ Leaves(events'[N']) = (link' = "connected")
      BY <1>1, <1>2, <1>3, <2>3 DEF IInv, Consistent, host
    <3>2. Leaves(events'[N]) = From(events'[N + 1])
      <4>1. Leaves(events[N]) = (link = "connected")
        BY <2>3 DEF IInv, Consistent
      <4>2. events'[N] = events[N] /\ events'[N + 1] = e
        BY <1>2, <1>3, <2>3
      <4> QED
        BY <4>1, <4>2, <1>1
    <3>3. ASSUME NEW k \in 1 .. N' - 1
          PROVE  Leaves(events'[k]) = From(events'[k + 1])
      <4>1. CASE k = N
        BY <3>2, <4>1
      <4>2. CASE k # N
        <5>1. k \in 1 .. N - 1 /\ k \in 1 .. N /\ k + 1 \in 1 .. N
          BY <1>2, <4>2
        <5>2. Leaves(events[k]) = From(events[k + 1])
          BY <5>1, <2>3 DEF IInv, Consistent
        <5> QED
          BY <5>1, <5>2, <1>3
      <4> QED
        BY <4>1, <4>2
    <3>4. N' > 0
      BY <1>2
    <3> QED
      BY <3>1, <3>3, <3>4 DEF Consistent
  <2> QED
    BY <1>2, <2>1, <2>2, <2>3
<1>8. OutOfSync'
  BY <1>1 DEF IInv, OutOfSync, host
<1>9. FlagFollows'
  BY <1>1 DEF IInv, FlagFollows, host
<1>10. StartDue'
  BY <1>1, <1>2, <1>3 DEF StartDue
<1> QED
  BY <1>4, <1>5, <1>7, <1>8, <1>9, <1>10 DEF IInv

\* The event that the host task takes follows from what the host knows.
LEMMA HeadFits ==
  ASSUME IInv, NEW e \in Event, Take(e), e # "reset"
  PROVE  attached = From(e)
<1>1. N > 0 /\ events[1] = e
  BY DEF Take, IInv, TypeOK, N
<1> QED
  BY <1>1 DEF IInv, Consistent, Resetting

\* What an event of a connection does at its head, when the host task takes it.
LEMMA TakeKeeps ==
  ASSUME IInv, NEW e \in Event, Take(e), e # "reset", UNCHANGED link,
         attached' = Leaves(e)
  PROVE  /\ synced /\ attached = From(e)
         /\ events' \in Seq(Event)
         /\ (ResetFirst /\ Consistent)'
         /\ link = "off" /\ ~silenced =>
              Ends(e) \/ (N' > 0 /\ Ends(events'[N']))
<1>1. /\ events \in Seq(Event) /\ events # <<>> /\ Head(events) = e
      /\ events' = Tail(events)
  BY DEF IInv, TypeOK, Take
<1>2. N \in Nat \ {0} /\ N' = N - 1 /\ events[1] = e
  BY <1>1 DEF N
<1>3. \A k \in 1 .. N' : events'[k] = events[k + 1]
  BY <1>1, <1>2 DEF N
<1>4. synced /\ ~Resetting
  BY <1>2 DEF IInv, OutOfSync, Resetting
<1>5. ResetFirst'
  <2> SUFFICES ASSUME NEW k \in 1 .. N', events'[k] = "reset" PROVE FALSE
    BY DEF ResetFirst
  <2>1. k + 1 \in 1 .. N /\ events[k + 1] = "reset"
    BY <1>2, <1>3
  <2>2. k + 1 = 1
    BY <2>1 DEF IInv, ResetFirst
  <2> QED
    BY <2>2
<1>6. /\ attached = From(e) /\ Leaves(events[N]) = (link = "connected")
      /\ \A k \in 1 .. N - 1 : Leaves(events[k]) = From(events[k + 1])
  BY <1>2, <1>4 DEF IInv, Consistent
<1>7. Consistent'
  <2>1. CASE N' = 0
    <3>1. events[N] = e
      BY <1>2, <2>1
    <3>2. \A k \in 1 .. N' - 1 : FALSE
      BY <2>1
    <3> QED
      BY <1>6, <2>1, <3>1, <3>2 DEF Consistent
  <2>2. CASE N' > 0
    <3>1. attached' = From(events'[1])
      <4>1. 1 \in 1 .. N - 1 /\ 1 \in 1 .. N'
        BY <1>2, <2>2
      <4> QED
        BY <4>1, <1>2, <1>3, <1>6
    <3>2. Leaves(events'[N']) = (link' = "connected")
      BY <1>2, <1>3, <1>6, <2>2
    <3>3. ASSUME NEW k \in 1 .. N' - 1
          PROVE  Leaves(events'[k]) = From(events'[k + 1])
      <4>1. k \in 1 .. N' /\ k + 1 \in 1 .. N' /\ k + 1 \in 1 .. N - 1
        BY <1>2
      <4> QED
        BY <4>1, <1>3, <1>6
    <3> QED
      BY <2>2, <3>1, <3>2, <3>3 DEF Consistent
  <2> QED
    BY <1>2, <2>1, <2>2
<1>8. events' \in Seq(Event)
  BY <1>1
<1>9. N' > 0 => events'[N'] = events[N]
  BY <1>2, <1>3
<1>10. N' = 0 => events[N] = e
  BY <1>2
<1>11. link = "off" /\ ~silenced => Ends(events[N])
  BY <1>4 DEF IInv, StartDue, Take
<1>12. N' = 0 \/ N' > 0
  BY <1>2
<1> QED
  BY <1>4, <1>5, <1>6, <1>7, <1>8, <1>9, <1>10, <1>11, <1>12

-----------------------------------------------------------------------------
LEMMA NextIInv ==
  ASSUME IInv, [Next]_vars
  PROVE  IInv'
<1>1. CASE Controller
  <2> USE DEF Event, From, Leaves, Ends
  <2>1. CASE Report("advertising", "connected", "connect")
    BY <2>1, ReportKeeps
  <2>2. CASE Report("advertising", "off", "failed")
    BY <2>2, ReportKeeps
  <2>3. CASE Report("advertising", "off", "complete")
    BY <2>3, ReportKeeps
  <2>4. CASE Report("connected", "off", "disconnect")
    BY <2>4, ReportKeeps
  <2>5. CASE Report("connected", "connected", "update")
    BY <2>5, ReportKeeps
  <2> QED
    BY <1>1, <2>1, <2>2, <2>3, <2>4, <2>5 DEF Controller
<1>2. CASE ControllerReset
  <2>1. events' = <<"reset">> /\ N' = 1 /\ events'[1] = "reset"
    BY <1>2 DEF ControllerReset, N
  <2> QED
    BY <1>2, <2>1
       DEF ControllerReset, IInv, TypeOK, host, Event, ResetFirst, Consistent,
           Resetting, OutOfSync, FlagFollows, StartDue
<1>3. CASE Connect
  <2>1. attached' = Leaves("connect") /\ UNCHANGED link /\ "connect" \in Event
    <3>1. Take("connect")
      BY <1>3 DEF Connect
    <3>2. attached = From("connect")
      BY <3>1, HeadFits DEF Event
    <3> QED
      BY <1>3, <3>2 DEF Connect, Leaves, From, Event
  <2>2. /\ synced /\ attached = From("connect")
        /\ events' \in Seq(Event)
        /\ (ResetFirst /\ Consistent)'
        /\ link = "off" /\ ~silenced =>
             Ends("connect") \/ (N' > 0 /\ Ends(events'[N']))
    BY <1>3, <2>1, TakeKeeps DEF Connect
  <2>3. TypeOK'
    BY <1>3, <2>2 DEF Connect, AdvertiseThen, IInv, TypeOK
  <2>4. OutOfSync' /\ FlagFollows'
    BY <1>3, <2>2 DEF Connect, AdvertiseThen, Take, From, IInv, OutOfSync,
                     FlagFollows, TypeOK
  <2>5. StartDue'
    BY <1>3, <2>2 DEF Connect, AdvertiseThen, Take, Ends, IInv, StartDue
  <2> QED
    BY <2>2, <2>3, <2>4, <2>5 DEF IInv
<1>4. CASE ConnectFailed
  <2>1. attached' = Leaves("failed") /\ UNCHANGED link /\ "failed" \in Event
    <3>1. Take("failed")
      BY <1>4 DEF ConnectFailed
    <3>2. attached = From("failed")
      BY <3>1, HeadFits DEF Event
    <3> QED
      BY <1>4, <3>2 DEF ConnectFailed, Leaves, From, Event
  <2>2. /\ synced /\ attached = From("failed")
        /\ events' \in Seq(Event)
        /\ (ResetFirst /\ Consistent)'
        /\ link = "off" /\ ~silenced =>
             Ends("failed") \/ (N' > 0 /\ Ends(events'[N']))
    BY <1>4, <2>1, TakeKeeps DEF ConnectFailed
  <2>3. TypeOK'
    BY <1>4, <2>2 DEF ConnectFailed, AdvertiseThen, IInv, TypeOK
  <2>4. OutOfSync' /\ FlagFollows'
    BY <1>4, <2>2 DEF ConnectFailed, AdvertiseThen, Take, From, IInv, OutOfSync,
                     FlagFollows, TypeOK
  <2>5. StartDue'
    BY <1>4, <2>2 DEF ConnectFailed, AdvertiseThen, Take, Ends, IInv, StartDue
  <2> QED
    BY <2>2, <2>3, <2>4, <2>5 DEF IInv
<1>5. CASE Disconnect
  <2>1. attached' = Leaves("disconnect") /\ UNCHANGED link /\ "disconnect" \in Event
    <3>1. Take("disconnect")
      BY <1>5 DEF Disconnect
    <3>2. ~attached' /\ UNCHANGED link
      BY <1>5 DEF Disconnect
    <3>3. ~Leaves("disconnect") /\ "disconnect" \in Event
      BY DEF Leaves, Event
    <3>4. attached' \in BOOLEAN
      BY <1>5 DEF Disconnect
    <3> QED
      BY <3>2, <3>3, <3>4 DEF Leaves
  <2>2. /\ synced /\ attached = From("disconnect")
        /\ events' \in Seq(Event)
        /\ (ResetFirst /\ Consistent)'
        /\ link = "off" /\ ~silenced =>
             Ends("disconnect") \/ (N' > 0 /\ Ends(events'[N']))
    BY <1>5, <2>1, TakeKeeps DEF Disconnect
  <2>3. TypeOK'
    BY <1>5, <2>2 DEF Disconnect, AdvertiseThen, IInv, TypeOK
  <2>4. OutOfSync' /\ FlagFollows'
    BY <1>5, <2>2 DEF Disconnect, AdvertiseThen, Take, From, IInv, OutOfSync,
                     FlagFollows, TypeOK
  <2>5. StartDue'
    BY <1>5, <2>2 DEF Disconnect, AdvertiseThen, Take, Ends, IInv, StartDue
  <2> QED
    BY <2>2, <2>3, <2>4, <2>5 DEF IInv
<1>6. CASE Update
  <2>1. attached' = Leaves("update") /\ UNCHANGED link /\ "update" \in Event
    <3>1. Take("update")
      BY <1>6 DEF Update
    <3>2. attached = From("update")
      BY <3>1, HeadFits DEF Event
    <3> QED
      BY <1>6, <3>2 DEF Update, host, Leaves, From, Event
  <2>2. /\ synced /\ attached = From("update")
        /\ events' \in Seq(Event)
        /\ (ResetFirst /\ Consistent)'
        /\ link = "off" /\ ~silenced =>
             Ends("update") \/ (N' > 0 /\ Ends(events'[N']))
    BY <1>6, <2>1, TakeKeeps DEF Update
  <2>3. TypeOK'
    BY <1>6, <2>2 DEF Update, host, AdvertiseThen, IInv, TypeOK
  <2>4. OutOfSync' /\ FlagFollows'
    BY <1>6, <2>2 DEF Update, host, AdvertiseThen, Take, From, IInv, OutOfSync,
                     FlagFollows, TypeOK
  <2>5. StartDue'
    BY <1>6, <2>2 DEF Update, host, AdvertiseThen, Take, Ends, IInv, StartDue
  <2> QED
    BY <2>2, <2>3, <2>4, <2>5 DEF IInv
<1>7. CASE AdvComplete
  <2>1. attached' = Leaves("complete") /\ UNCHANGED link /\ "complete" \in Event
    <3>1. Take("complete")
      BY <1>7 DEF AdvComplete
    <3>2. attached = From("complete")
      BY <3>1, HeadFits DEF Event
    <3> QED
      BY <1>7, <3>2 DEF AdvComplete, Leaves, From, Event
  <2>2. /\ synced /\ attached = From("complete")
        /\ events' \in Seq(Event)
        /\ (ResetFirst /\ Consistent)'
        /\ link = "off" /\ ~silenced =>
             Ends("complete") \/ (N' > 0 /\ Ends(events'[N']))
    BY <1>7, <2>1, TakeKeeps DEF AdvComplete
  <2>3. TypeOK'
    BY <1>7, <2>2 DEF AdvComplete, AdvertiseThen, IInv, TypeOK
  <2>4. OutOfSync' /\ FlagFollows'
    BY <1>7, <2>2 DEF AdvComplete, AdvertiseThen, Take, From, IInv, OutOfSync,
                     FlagFollows, TypeOK
  <2>5. StartDue'
    BY <1>7, <2>2 DEF AdvComplete, AdvertiseThen, Take, Ends, IInv, StartDue
  <2> QED
    BY <2>2, <2>3, <2>4, <2>5 DEF IInv
<1>8. CASE Disconnected
  <2>1. N' = N /\ Resetting' = Resetting
    BY <1>8 DEF Disconnected, N, Resetting
  <2>2. TypeOK' /\ ResetFirst' /\ Consistent' /\ StartDue'
    BY <1>8, <2>1
       DEF Disconnected, IInv, TypeOK, ResetFirst, Consistent, StartDue
  <2>3. OutOfSync' /\ FlagFollows'
    BY <1>8, <2>1 DEF Disconnected, IInv, OutOfSync, FlagFollows
  <2> QED
    BY <2>2, <2>3 DEF IInv
<1>9. ASSUME NEW fails \in BOOLEAN, Advertise(fails) PROVE IInv'
  <2>1. N' = N /\ Resetting' = Resetting /\ UNCHANGED <<events, attached>>
    BY <1>9 DEF Advertise, N, Resetting
  <2>2. TypeOK' /\ ResetFirst'
    BY <1>9, <2>1 DEF Advertise, IInv, TypeOK, ResetFirst
  <2>3. (link' = "connected") = (link = "connected")
    BY <1>9 DEF Advertise
  <2>4. Consistent'
    BY <2>1, <2>3 DEF IInv, Consistent
  <2>5. OutOfSync' /\ FlagFollows'
    BY <1>9, <2>1 DEF Advertise, IInv, TypeOK, OutOfSync, FlagFollows
  <2>6. StartDue'
    BY <1>9, <2>1 DEF Advertise, IInv, StartDue
  <2> QED
    BY <2>2, <2>4, <2>5, <2>6 DEF IInv
<1>10. CASE HostReset
  <2>1. events' = <<>> /\ N' = 0
    BY <1>10 DEF HostReset, N
  <2>2. link' = "off" /\ ~synced' /\ attached' = FALSE /\ at = "idle"
    BY <1>10 DEF HostReset
  <2>3. TypeOK'
    <3>1. events' \in Seq(Event)
      BY <2>1
    <3>2. /\ connected' \in {0, 1} /\ silenced' \in BOOLEAN
          /\ at' \in {"advertise", "reset"} /\ resume' \in {"idle", "clear"}
      BY <1>10 DEF HostReset, AdvertiseThen, IInv, TypeOK
    <3> QED
      BY <1>10, <2>2, <3>1, <3>2 DEF HostReset, TypeOK
  <2>4. ResetFirst' /\ Consistent' /\ StartDue'
    <3>1. ResetFirst' /\ (\A k \in 1 .. N' - 1 : FALSE)
      BY <2>1 DEF ResetFirst
    <3>2. attached' = (link' = "connected")
      BY <2>2
    <3>3. Consistent'
      BY <2>1, <3>1, <3>2 DEF Consistent
    <3> QED
      BY <2>2, <3>1, <3>3 DEF StartDue
  <2>5. OutOfSync' /\ FlagFollows'
    BY <1>10, <2>1, <2>2
       DEF HostReset, AdvertiseThen, IInv, TypeOK, OutOfSync, FlagFollows
  <2> QED
    BY <2>3, <2>4, <2>5 DEF IInv
<1>11. CASE OnReset
  <2>1. N' = N /\ Resetting' = Resetting
    BY <1>11 DEF OnReset, N, Resetting
  <2> QED
    BY <1>11, <2>1
       DEF OnReset, IInv, TypeOK, ResetFirst, Consistent, OutOfSync,
           FlagFollows, StartDue
<1>12. CASE OnSync
  <2>1. N' = N /\ Resetting' = Resetting
    BY <1>12 DEF OnSync, N, Resetting
  <2> QED
    BY <1>12, <2>1
       DEF OnSync, AdvertiseThen, IInv, TypeOK, ResetFirst, Consistent,
           OutOfSync, FlagFollows, StartDue
<1>13. CASE Stop
  <2>1. N' = N /\ Resetting' = Resetting
    BY <1>13 DEF Stop, N, Resetting
  <2> QED
    BY <1>13, <2>1
       DEF Stop, IInv, TypeOK, ResetFirst, Consistent, OutOfSync,
           FlagFollows, StartDue
<1>14. CASE UNCHANGED vars
  BY <1>14 DEF vars, host, IInv, TypeOK, ResetFirst, Consistent, OutOfSync,
               FlagFollows, StartDue, N, Resetting
<1> QED
  BY <1>1, <1>2, <1>3, <1>4, <1>5, <1>6, <1>7, <1>8, <1>9, <1>10, <1>11,
     <1>12, <1>13, <1>14
     DEF Next, HostStep

\* When the host task has nothing left to do, the connection that the host
\* knows of is the controller's.
LEMMA SettledAgrees ==
  ASSUME IInv, Settled
  PROVE  N = 0 /\ attached = (link = "connected")
<1>1. N = 0 /\ ~Resetting
  BY DEF Settled, N, Resetting
<1> QED
  BY <1>1 DEF IInv, Consistent

-----------------------------------------------------------------------------
\* The variables keep their types: the connection flag is 0 or 1.
THEOREM BleTypeCorrect == Spec => []TypeOK
<1>1. IInv => TypeOK
  BY DEF IInv
<1> QED
  BY InitIInv, NextIInv, <1>1, PTL DEF Spec

\* ble_is_connected tells the truth once the host task has dealt with every
\* connection, disconnect and reset.
THEOREM FlagTrueCorrect == Spec => []FlagTrue
<1>1. IInv => FlagTrue
  BY SettledAgrees DEF FlagTrue, Settled, IInv, FlagFollows
<1> QED
  BY InitIInv, NextIInv, <1>1, PTL DEF Spec

\* Nothing but a failed start of advertising, or ble_stop, leaves the node off
\* the air.
THEOREM SilentOnlyByFailureCorrect == Spec => []SilentOnlyByFailure
<1>1. IInv => SilentOnlyByFailure
  BY SettledAgrees DEF SilentOnlyByFailure, Settled, IInv, StartDue, Resetting
<1> QED
  BY InitIInv, NextIInv, <1>1, PTL DEF Spec
=============================================================================
